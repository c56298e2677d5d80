------------------------------- MODULE Board -------------------------------
(* What Board.cpp reads of a game: its chaos bag, phases, acts, agendas,   *)
(* locations and investigators.  None of it is written.                    *)
EXTENDS CardCatalog

BoardCardCodes == {"c1", "c2"}
BoardCardCode == OneOf(BoardCardCodes)

ChaosTokenFields ==
  [chaosTokenId |-> Require(UuidValue), chaosTokenFace |-> Require(StringValue),
   chaosTokenRevealedBy |-> RequireNullable(BoardCardCode),
   chaosTokenCancelled |-> Require(BoolValue), chaosTokenSealed |-> Require(BoolValue)]
ChaosToken == ReadOnly(ChaosTokenFields)
ChaosBag == ReadOnly(EachOf({"chaosTokens", "revealedChaosTokens"}, Require(ArrayOf(ChaosToken))))

Phase ==
  Names(<<"MythosPhase", "InvestigationPhase", "EnemyPhase", "UpkeepPhase", "ResolutionPhase",
          "CampaignPhase">>)
MythosStep ==
  Names(<<"MythosPhaseBeginsStep", "PlaceDoomOnAgendaStep", "CheckDoomThresholdStep",
          "EachInvestigatorDrawsEncounterCardStep", "MythosPhaseWindow", "MythosPhaseEndsStep">>)
InvestigationStep ==
  Names(<<"InvestigationPhaseBeginsStep", "InvestigationPhaseBeginsWindow",
          "NextInvestigatorsTurnBeginsStep", "NextInvestigatorsTurnBeginsWindow",
          "InvestigatorTakesActionStep", "InvestigatorsTurnEndsStep", "InvestigationPhaseEndsStep">>)
EnemyStep ==
  Names(<<"EnemyPhaseBeginsStep", "HunterEnemiesMoveStep", "ResolveAttacksWindow",
          "ResolveAttacksStep", "AfterResolveAttacksWindow", "EnemyPhaseEndsStep">>)
UpkeepStep ==
  Names(<<"UpkeepPhaseBeginsStep", "UpkeepPhaseBeginsWindow", "ResetActionsStep",
          "ReadyExhaustedStep", "DrawCardAndGainResourceStep", "CheckHandSizeStep",
          "UpkeepPhaseEndsStep">>)
\* A step is one of the phase that the tag names.
StepsOf ==
  [MythosPhaseStep |-> MythosStep, InvestigationPhaseStep |-> InvestigationStep,
   EnemyPhaseStep |-> EnemyStep, UpkeepPhaseStep |-> UpkeepStep]
PhaseStep ==
  VariantsOf([tag \in DOMAIN StepsOf |-> Case([contents |-> Require(StepsOf[tag])])],
             NoMembers, "fail")

ActSide == Names(<<"A", "B", "C", "D", "E", "F", "G", "H">>)
ActFields ==
  [id |-> Require(BoardCardCode), cardId |-> Require(UuidValue),
   sequence |-> Require(PairOf(IntValue, ActSide)), deckId |-> Require(IntValue),
   flipped |-> Require(BoolValue), advanceCost |-> Require(RawValue({"record", "null"}))]
Act == ReadOnly(ActFields)

AgendaSide == Names(<<"A", "B", "C", "D">>)
AgendaSequence ==
  ReadOnly([agendaSequenceSide |-> Require(AgendaSide), agendaSequenceStep |-> Require(IntValue)])
AgendaFields ==
  [id |-> Require(BoardCardCode), cardId |-> Require(UuidValue),
   sequence |-> Require(AgendaSequence), deckId |-> Require(IntValue), doom |-> Require(NaturalValue),
   doomThreshold |-> RequireNullable(GameValue), flipped |-> Require(BoolValue)]
Agenda == ReadOnly(AgendaFields)

\* Pairs of a name and a count, each name once.
\* Mutant: a name may come twice.
TokenCountsRepeated == ArrayOf(PairOf(StringValue, NaturalValue))
TokenCounts == [ArrayOf(PairOf(StringValue, NaturalValue)) EXCEPT !.distinct = "names"]
CountOf(tokens, name) ==
  LET named == {i \in DOMAIN tokens.list : tokens.list[i].list[1] = Text(name)}
  IN  IF named = {} THEN 0 ELSE tokens.list[Min(named)].list[2].number

LocationSymbol ==
  Names(<<"Circle", "Square", "Triangle", "Plus", "Diamond", "Squiggle", "Moon", "Hourglass", "T",
          "Equals", "Heart", "Star", "Droplet", "Trefoil", "Spade", "NoSymbol">>)
LocationFields ==
  [id |-> Require(UuidValue), cardCode |-> Require(BoardCardCode), cardId |-> Require(UuidValue),
   label |-> Require(StringValue), revealed |-> Require(BoolValue), tokens |-> Require(TokenCounts),
   shroud |-> RequireNullable(GameValue), connectedLocations |-> Require(ArrayOf(UuidValue)),
   investigators |-> Require(ArrayOf(BoardCardCode))]
EnemyLocationFields ==
  LocationFields @@
    [enemyLocation |-> Require(ThisValue(Truth(TRUE))), exhausted |-> Require(BoolValue)]
OrdinaryLocationFields ==
  LocationFields @@
    [revealClues |-> Require(GameValue), symbol |-> Require(LocationSymbol),
     revealedSymbol |-> Require(LocationSymbol)]
Location ==
  ShapesOf(<<[has |-> {"enemyLocation"}, lacks |-> {}, type |-> ReadOnly(EnemyLocationFields)],
             [has |-> {}, lacks |-> {"enemyLocation"}, type |-> ReadOnly(OrdinaryLocationFields)]>>)

\* Some tag, and AtLocation with a location.
PlacementCases == [AtLocation |-> Case([contents |-> Require(UuidValue)])]
Placement == KeptOf(VariantsOf(PlacementCases, NoMembers, "tag"))
MutationNames == {"Mutated1"}
\* None is the regular form; a form without its card is none.
InvestigatorForm ==
  VariantsOf([tag \in {"RegularForm", "YithianForm", "HomunculusForm", "ShatteredForm"} |->
                Case(NoMembers)]
               @@ [TransfiguredForm |-> Case([contents |-> Require(BoardCardCode)])],
             NoMembers, "fail")
\* None for art is the identifier: a portrait is then the card's own.
InvestigatorFields ==
  EachOf({"health", "sanity"}, Require(NaturalValue))
    @@ EachOf({"willpower", "intellect", "combat", "agility", "remainingActions",
               "unhealedHorrorThisRound"}, Require(IntValue))
    @@ EachOf({"defeated", "resigned", "eliminated"}, Require(BoolValue))
    @@ EachOf({"id", "cardCode"}, Require(BoardCardCode))
    @@ [playerId |-> Require(OrNone(Text(NilUuid), UuidValue)), name |-> Require(CardName),
        class |-> Require(ClassSymbol), tokens |-> Require(TokenCounts),
        placement |-> Require(Placement), connectedLocations |-> Require(ArrayOf(UuidValue)),
        art |-> Tolerant(NonEmptyValue), mutated |-> Tolerant(OneOf(MutationNames)),
        form |-> TolerantOr(InvestigatorForm, Variant("RegularForm", NoMembers)),
        meta |-> Tolerant(ClassSymbol)]
Investigator == ReadOnly(InvestigatorFields)

ScenarioSnapshotFields ==
  [id |-> Require(BoardCardCode), turn |-> Require(NaturalValue), chaosBag |-> Require(ChaosBag)]
ScenarioSnapshot == ReadOnly(ScenarioSnapshotFields)
\* A campaign, a scenario, or both.
GameMode ==
  [ReadOnly([This |-> Explicit(RawValue({"record"})), That |-> Explicit(ScenarioSnapshot)])
     EXCEPT !.oneOf = {"This", "That"}]

PublicGameFields ==
  [tag |-> Require(ThisValue(Text("PublicGame"))), id |-> Require(UuidValue),
   name |-> Require(StringValue), mode |-> Require(GameMode),
   encounterDeckSize |-> Require(NaturalValue), phase |-> Require(Phase),
   phaseStep |-> RequireNullable(PhaseStep),
   locations |-> Require(EntityMapOf(UuidValue, Location)),
   investigators |-> Require(EntityMapOf(BoardCardCode, Investigator)),
   acts |-> Require(EntityMapOf(BoardCardCode, Act)),
   agendas |-> Require(EntityMapOf(BoardCardCode, Agenda))]
PublicGame == ReadOnly(PublicGameFields)
=============================================================================
