---------------------------- MODULE MCDocuments ----------------------------
(* Documents of every kind, among them a card, a deck and a board with all *)
(* their members; and JsonDocument beside them, in behaviours of its own.  *)
EXTENDS Documents, MCJsonDocument

MCReplacements ==
  {JsonNull, Text("t"), Text(""), Text("U1"), Text("c:Big"), Num(-1), Fraction, Truth(FALSE),
   List(<<>>), Record(NoMembers)}
MCSpellings == {"u1", "U1", "u2", "c1", "c2", "c:Big"}

t == Text("t")
u1 == Text("u1")
c1 == Text("c1")
Tagged(tag) == Record([tag |-> Text(tag)])
TaggedWith(tag, v) == Record([tag |-> Text(tag), contents |-> v])

CardNameSample == Record([title |-> t, subtitle |-> JsonNull])
Static(n) == TaggedWith("Static", Num(n))
Slots == Record([c1 |-> Num(2)])
MinimalCard ==
  Record([cardCode |-> c1, name |-> CardNameSample, cardType |-> Text("AssetType"), art |-> t])
RevealedCard ==
  Record([MinimalCard.record EXCEPT !.cardCode = Text("c2")] @@ [revealedName |-> CardNameSample])
FullCard ==
  Record(MinimalCard.record
    @@ [revealedName |-> CardNameSample, cost |-> TaggedWith("StaticCost", Num(1)),
        level |-> Num(1), cardSubType |-> Text("Weakness"), classSymbols |-> List(<<Text("Rogue")>>),
        skills |-> List(<<TaggedWith("SkillIcon", Text("SkillCombat")), Tagged("WildIcon")>>),
        cardTraits |-> List(<<t>>), revealedCardTraits |-> List(<<t>>),
        revelation |-> Text("IsRevelation"), encounterSet |-> t,
        slots |-> List(<<Text("HandSlot")>>), alternateCardCodes |-> List(<<c1>>),
        bondedWith |-> List(<<List(<<Num(1), c1>>)>>), otherSide |-> Text("c2"),
        whenDiscarded |-> Text("ToDiscard"), canCommitWhenNoIcons |-> Truth(TRUE),
        commitTrigger |-> Truth(TRUE), tags |-> List(<<t>>),
        outOfPlayEffects |-> List(<<Text("InHandEffect")>>), health |-> Static(1),
        fight |-> TaggedWith("ByPlayerCount", List(<<Num(1), Num(2), Num(3), Num(4)>>)),
        evade |-> TaggedWith("StaticWithPerPlayer", List(<<Num(1), Num(2)>>)),
        healthDamage |-> Tagged("ValueX"), sanityDamage |-> TaggedWith("PerPlayer", Num(1)),
        alternateSkills |-> Record([c1 |-> List(<<Tagged("WildMinusIcon")>>)]),
        alternateErrata |-> Record([c1 |-> t]), errata |-> t,
        meta |-> Record([x |-> Num(1)])]
    @@ EachOf(IntFields, Num(1)) @@ EachOf(BoolFields, Truth(TRUE))
    @@ EachOf(RawNames, Record([x |-> List(<<Num(1)>>)])) @@ EachOf(RawArrayNames, List(<<t>>)))
CostlyCard(cost) == Record(MinimalCard.record @@ [cost |-> cost])

DeckListInputSample ==
  Record([slots |-> Slots, investigator_code |-> c1, investigator_name |-> t, meta |-> t,
          taboo_id |-> Num(1), url |-> t, id |-> Num(1), name |-> t,
          sideSlots |-> Record([c1 |-> Fraction])])
DeckListSample ==
  Record([slots |-> Slots, sideSlots |-> Slots, investigator_code |-> c1, investigator_name |-> t,
          meta |-> t, taboo_id |-> Num(1), url |-> t, id |-> t, name |-> JsonNull])
DeckSample ==
  Record([id |-> u1, userId |-> Num(1), url |-> t, name |-> t, investigatorName |-> t,
          list |-> DeckListSample, lastUsedAt |-> JsonNull, overlay |-> Record([x |-> Num(1)]),
          playList |-> DeckListSample])

Summary == Record([id |-> c1, classSymbol |-> Text("Seeker")])
Outcome ==
  Record([result |-> t, certainty |-> t, note |-> t, source |-> t,
          ending |-> Record([scenario |-> t, resolution |-> TaggedWith("Resolution", Num(1))])])
FailedRow == Record([id |-> u1, name |-> t, error |-> t])
LegacyRow == Record([error |-> t])
SuccessRow ==
  Record([id |-> u1, campaign |-> JsonNull, gameState |-> TaggedWith("IsPending", List(<<u1>>)),
          scenario |-> Record([id |-> c1, difficulty |-> Text("Easy"), name |-> CardNameSample,
                               variant |-> t]),
          name |-> t, investigators |-> List(<<Summary>>), otherInvestigators |-> List(<<>>),
          multiplayerVariant |-> Text("Solo"), hasOpenSeats |-> Truth(TRUE), outcome |-> Outcome])
CampaignRow ==
  Record([SuccessRow.record EXCEPT
            !.scenario = JsonNull, !.gameState = Tagged("IsActive"), !.outcome = JsonNull,
            !.campaign = Record([id |-> t, difficulty |-> Text("Hard"),
                                 currentCampaignMode |-> Text("TheDreamQuest")])])

CreateGameSample ==
  Record([deckIds |-> List(<<u1, JsonNull>>), playerCount |-> Num(2), campaignId |-> t,
          scenarioId |-> JsonNull, difficulty |-> Text("Easy"), campaignName |-> t,
          multiplayerVariant |-> Text("WithFriends"), includeTarotReadings |-> Truth(TRUE),
          options |-> List(<<Tagged("Cheated"), TaggedWith("CampaignVariant", t)>>),
          strictAsIfAt |-> Truth(TRUE), asIfRuling |-> Text("Chapter2AsIfRuling"),
          ultimatumsAndBoons |-> List(<<Text("BoonOfHades")>>),
          achievementsEnabled |-> Truth(FALSE), allowSpectators |-> Truth(TRUE)])

ShortCreateGame ==
  Record([CreateGameSample.record EXCEPT
            !.campaignId = JsonNull, !.scenarioId = t, !.asIfRuling = Text("chapter2"),
            !.options = List(<<>>), !.ultimatumsAndBoons = List(<<>>)])

Tokens == List(<<List(<<Text("Clue"), Num(1)>>), List(<<Text("Doom"), Num(2)>>)>>)
TokenSample ==
  Record([chaosTokenId |-> u1, chaosTokenFace |-> t, chaosTokenRevealedBy |-> c1,
          chaosTokenCancelled |-> Truth(FALSE), chaosTokenSealed |-> Truth(FALSE)])
LocationSample ==
  Record([id |-> u1, cardCode |-> c1, cardId |-> u1, label |-> t, revealed |-> Truth(TRUE),
          tokens |-> Tokens, shroud |-> Static(1), connectedLocations |-> List(<<u1>>),
          investigators |-> List(<<c1>>), revealClues |-> Static(1), symbol |-> Text("Moon"),
          revealedSymbol |-> Text("Moon")])
EnemyLocation ==
  Record(Without(LocationSample.record, "symbol")
    @@ [enemyLocation |-> Truth(TRUE), exhausted |-> Truth(FALSE)])
OtherLocation == Record([EnemyLocation.record EXCEPT !.id = Text("u2"), !.label = Text("s")])
InvestigatorSample ==
  Record([id |-> c1, cardCode |-> c1, playerId |-> u1, name |-> CardNameSample,
          class |-> Text("Seeker"), tokens |-> Tokens, placement |-> TaggedWith("AtLocation", u1),
          connectedLocations |-> List(<<>>), art |-> t, mutated |-> Text("Mutated1"),
          form |-> TaggedWith("TransfiguredForm", c1), meta |-> Text("Rogue")]
    @@ EachOf({"health", "sanity", "willpower", "intellect", "combat", "agility",
               "remainingActions", "unhealedHorrorThisRound"}, Num(1))
    @@ EachOf({"defeated", "resigned", "eliminated"}, Truth(FALSE)))
ActSample ==
  Record([id |-> c1, cardId |-> u1, sequence |-> List(<<Num(1), Text("A")>>), deckId |-> Num(1),
          flipped |-> Truth(FALSE), advanceCost |-> JsonNull])
AgendaSample ==
  Record([id |-> c1, cardId |-> u1, deckId |-> Num(1), doom |-> Num(1),
          sequence |-> Record([agendaSequenceSide |-> Text("A"), agendaSequenceStep |-> Num(1)]),
          doomThreshold |-> TaggedWith("PerPlayer", Num(1)), flipped |-> Truth(FALSE)])
Board1(locations, investigators) ==
  Record([tag |-> Text("PublicGame"), id |-> u1, name |-> t,
          mode |-> Record([That |-> Record([id |-> c1, turn |-> Num(1),
                     chaosBag |-> Record([chaosTokens |-> List(<<TokenSample>>),
                                          revealedChaosTokens |-> List(<<>>)])])]),
          encounterDeckSize |-> Num(1), phase |-> Text("MythosPhase"),
          phaseStep |-> TaggedWith("MythosPhaseStep", Text("MythosPhaseWindow")),
          locations |-> locations, investigators |-> investigators,
          acts |-> Record([c1 |-> ActSample]), agendas |-> Record([c1 |-> AgendaSample])])
Empty == Record(NoMembers)
FullBoard == Board1(Record([u1 |-> LocationSample]), Record([c1 |-> InvestigatorSample]))
TwoLocations == Board1(Record([u1 |-> EnemyLocation, u2 |-> OtherLocation]), Empty)

MCSamples ==
  [games |-> {List(<<SuccessRow, FailedRow, LegacyRow>>), List(<<CampaignRow>>)},
   option |-> {Tagged("Cheated"), TaggedWith("CampaignVariant", t)},
   createGame |-> {CreateGameSample, ShortCreateGame},
   chooseDeck |-> {Record([investigatorId |-> c1, deckUrl |-> t, deckList |-> DeckListInputSample])},
   claimSeat |-> {Record([investigatorId |-> c1])}, openSeats |-> {List(<<c1, c1>>)},
   deck |-> {DeckSample},
   createDeck |-> {Record([deckId |-> t, deckName |-> t, deckUrl |-> t,
                           deckList |-> DeckListInputSample])},
   fetchDeck |-> {Record([url |-> t])}, error |-> {Record([errorMsg |-> t])},
   verdict |-> {List(<<TaggedWith("UnimplementedCard", c1)>>)},
   catalog |-> {List(<<FullCard>>), List(<<MinimalCard, RevealedCard>>)}
                 \cup {List(<<CostlyCard(cost)>>) :
                         cost \in {Tagged("DynamicCost"), TaggedWith("MaxDynamicCost", t),
                                   TaggedWith("MatchingEnemyFieldCost", List(<<t, t>>))}},
   getGame |-> {Record([playerId |-> u1, multiplayerMode |-> Text("Solo"), game |-> board,
                        eventId |-> JsonNull]) : board \in {FullBoard, TwoLocations}},
   message |-> {TaggedWith("GameUpdate", TwoLocations), TaggedWith("GameError", t),
                Record([tag |-> Text("AnswerRejected"), reason |-> t, questionVersion |-> Num(1)])}]
MCMaxChanges ==
  [k \in DOMAIN MCSamples |->
     IF k \in {"option", "claimSeat", "openSeats", "fetchDeck", "error", "verdict"} THEN 2 ELSE 1]

-----------------------------------------------------------------------------
vars == <<documentVars, recordVars>>
Init == InitDocument /\ InitRecords
Next ==
  \/ /\ kind = "openSeats" /\ doc \in Samples[kind] /\ changes = 0
     /\ NextDocument /\ UNCHANGED recordVars
  \/ stack = << >> /\ NextRecords /\ UNCHANGED documentVars
Spec == Init /\ [][Next]_vars
=============================================================================
