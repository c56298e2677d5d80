------------------------------- MODULE Games -------------------------------
(* What Games.cpp reads and writes: the list of games, the requests that   *)
(* make and join one, a game with its board, and the server's messages.    *)
EXTENDS Board, Decks

Difficulty == Names(<<"Easy", "Standard", "Hard", "Expert">>)
MultiplayerVariant == Names(<<"Solo", "WithFriends">>)
CampaignPart == Names(<<"TheDreamQuest", "TheWebOfDreams">>)
\* Two rulings under four names.
AsIfRuling ==
  EnumValue(<< <<"chapter1", "Chapter1AsIfRuling">>, <<"chapter2", "Chapter2AsIfRuling">>,
               <<"Chapter1AsIfRuling", "Chapter1AsIfRuling">>,
               <<"Chapter2AsIfRuling", "Chapter2AsIfRuling">> >>)
UltimatumOrBoon ==
  Names(<<"BoonOfTheAncients", "BoonOfAthena", "BoonOfDestiny", "BoonOfHades", "BoonOfHermes",
          "BoonOfThoth", "BoonOfOsiris", "BoonOfTheMorrigan", "BoonOfPersephone",
          "BoonOfTheExplorer", "BoonOfTheChild", "UltimatumOfAgony", "UltimatumOfBrokenPromises",
          "UltimatumOfTheBrokenVeil", "UltimatumOfChaos", "UltimatumOfDisaster",
          "UltimatumOfDread", "UltimatumOfFailure", "UltimatumOfFinality",
          "UltimatumOfForbiddenKnowledge", "UltimatumOfHardship", "UltimatumOfTheHighlander",
          "UltimatumOfInduction", "UltimatumOfOrthodoxy", "UltimatumOfTheScream",
          "UltimatumOfSurvival", "UltimatumOfUltimatums", "UltimatumOfExile",
          "UltimatumOfTheSpiral", "UltimatumOfMalevolence">>)
KnownCampaignOptions ==
  {"PerformIntro", "PlayersDoNotControlStoryAssetClues", "AddLitaChantler", "Cheated",
   "TakeArmitage", "TakeWarrenRice", "TakeFrancisMorgan", "TakeZebulonWhately", "TakeEarlSawyer",
   "TakePowderOfIbnGhazi", "TakeTheNecronomicon", "AddAcrossSpaceAndTime", "UseSwarmPlaceholders",
   "TakeBlackBook", "TakePuzzleBox", "ProceedToInterlude3", "DebugOption", "ManuallyPickCamp",
   "ManuallyPickKilledInPlaneCrash", "AddGreenSoapstone", "AddWoodenSledge", "AddDynamite",
   "AddMiasmicCrystal", "AddMineralSpecimen", "AddSmallRadio", "AddSpareParts",
   "IncludePartners", "FatalMiragePart1", "FatalMiragePart2", "FatalMiragePart3",
   "PlayAsMiniCampaign", "PlayWithTheBlobThatAteEverythingElse"}

-----------------------------------------------------------------------------
(* The list of games                                                       *)

InvestigatorSummaryFields == [id |-> Require(CardCode), classSymbol |-> Require(ClassSymbol)]
InvestigatorSummary == ObjectOf(InvestigatorSummaryFields, Always({"id", "classSymbol"}))
ScenarioSummaryFields ==
  [id |-> Require(CardCode), difficulty |-> Require(Difficulty), name |-> Require(CardName),
   variant |-> RequireNullable(StringValue)]
ScenarioSummary == ObjectOf(ScenarioSummaryFields, Always({"id", "difficulty", "name", "variant"}))
CampaignSummaryFields ==
  [id |-> Require(NonEmptyValue), difficulty |-> Require(Difficulty),
   currentCampaignMode |-> RequireNullable(CampaignPart)]
CampaignSummary ==
  ObjectOf(CampaignSummaryFields, Always({"id", "difficulty", "currentCampaignMode"}))

GameStateCases ==
  [IsPending |-> With(ArrayOf(UuidValue)), IsChooseDecks |-> With(ArrayOf(UuidValue)),
   IsActive |-> Alone, IsOver |-> Alone]
GameStateWritten ==
  [IsPending |-> {"contents"}, IsChooseDecks |-> {"contents"}, IsActive |-> {}, IsOver |-> {}]
GameState == VariantsOf(GameStateCases, GameStateWritten, "raw")

\* Whatever it is, it is kept.
ResolutionCases == [NoResolution |-> Case(NoMembers), Resolution |-> Case([contents |-> Require(IntValue)])]
Ending ==
  ReadOnly([scenario |-> Require(StringValue),
            resolution |-> Require(VariantsOf(ResolutionCases, NoMembers, "fail"))])
GameOutcomeFields ==
  [result |-> Require(StringValue), certainty |-> Require(StringValue),
   note |-> RequireNullable(StringValue), ending |-> RequireNullable(Ending),
   source |-> Require(StringValue)]
GameOutcome == LenientOf(ReadOnly(GameOutcomeFields))

LegacyFailedFields == [error |-> Require(StringValue)]
FailedFields ==
  [id |-> Require(UuidValue), name |-> Require(StringValue), error |-> Require(StringValue)]
SuccessFields ==
  [id |-> Require(UuidValue), scenario |-> RequireNullable(ScenarioSummary),
   campaign |-> RequireNullable(CampaignSummary), gameState |-> Require(GameState),
   name |-> Require(StringValue), investigators |-> Require(ArrayOf(InvestigatorSummary)),
   otherInvestigators |-> Require(ArrayOf(InvestigatorSummary)),
   multiplayerVariant |-> Require(MultiplayerVariant), hasOpenSeats |-> Require(BoolValue),
   outcome |-> Explicit(Nullable(GameOutcome))]
SuccessWritten ==
  Always({"id", "scenario", "campaign", "gameState", "name", "investigators",
          "otherInvestigators", "multiplayerVariant", "hasOpenSeats"}) @@ IfPresent({"outcome"})
\* A row that mixes the shapes is of none.
GameListShapes ==
  <<[has |-> {"error"}, lacks |-> {"gameState", "id", "name"},
     type |-> ObjectOf(LegacyFailedFields, Always({"error"}))],
    [has |-> {"error", "id", "name"}, lacks |-> {"gameState"},
     type |-> ObjectOf(FailedFields, Always({"id", "name", "error"}))],
    [has |-> {}, lacks |-> {"error"}, type |-> ObjectOf(SuccessFields, SuccessWritten)]>>
GameListRow == ShapesOf(GameListShapes)
GameList == ArrayOf(GameListRow)

-----------------------------------------------------------------------------
(* Requests                                                                *)

OptionCases(case) ==
  [tag \in KnownCampaignOptions |-> [fields |-> NoMembers, exact |-> case.exact]]
    @@ [CampaignVariant |-> case]
OptionWritten == [tag \in KnownCampaignOptions |-> {}] @@ [CampaignVariant |-> {"contents"}]
\* As the server offers it: it is kept, with all that it carries.
CampaignOption ==
  KeptOf(VariantsOf(OptionCases(Case([contents |-> Require(StringValue)])), OptionWritten, "tag"))
CampaignOptionRequest == VariantsOf(OptionCases(With(StringValue)), OptionWritten, "fail")

\* Mutant: what else the option carries is dropped.
ToRequestOptionByTag(option) ==
  IF option.value.tag \in DOMAIN OptionWritten THEN {option.value} ELSE {}
\* toRequestOption(): a request holds no more than the tag and the contents, and
\* an option that does is not narrowed.
ToRequestOption(option) ==
  LET tag == option.value.tag
  IN  IF tag \in DOMAIN OptionWritten /\ HasOnly(option.raw, {"tag"} \cup OptionWritten[tag])
      THEN {option.value} ELSE {}

CreateGameRequestFields ==
  [deckIds |-> Require(ArrayOf(Nullable(UuidValue))), playerCount |-> Require(IntValue),
   campaignId |-> Optional(NonEmptyValue), scenarioId |-> Optional(NonEmptyValue),
   difficulty |-> Require(Difficulty), campaignName |-> Require(StringValue),
   multiplayerVariant |-> Require(MultiplayerVariant), includeTarotReadings |-> Require(BoolValue),
   options |-> Require(ArrayOf(CampaignOptionRequest)), strictAsIfAt |-> Optional(BoolValue),
   asIfRuling |-> Optional(AsIfRuling),
   ultimatumsAndBoons |-> OptionalOr(ArrayOf(UltimatumOrBoon), List(<<>>)),
   achievementsEnabled |-> OptionalOr(BoolValue, Truth(TRUE)),
   allowSpectators |-> OptionalOr(BoolValue, Truth(FALSE))]
CreateGameRequestWritten ==
  Always(DOMAIN CreateGameRequestFields \ {"strictAsIfAt", "asIfRuling"})
    @@ UnlessNone({"strictAsIfAt", "asIfRuling"})
CreateGameRequest ==
  [ObjectOf(CreateGameRequestFields, CreateGameRequestWritten)
     EXCEPT !.oneOf = {"campaignId", "scenarioId"}]

ChooseDeckRequestFields ==
  [investigatorId |-> Require(InvestigatorRef), deckUrl |-> Optional(StringValue),
   deckList |-> Optional(DeckListInput)]
ChooseDeckRequestWritten == Always({"investigatorId"}) @@ UnlessNone({"deckUrl", "deckList"})
ChooseDeckRequest == ObjectOf(ChooseDeckRequestFields, ChooseDeckRequestWritten)
ClaimSeatRequestFields == [investigatorId |-> Require(InvestigatorRef)]
ClaimSeatRequest == ObjectOf(ClaimSeatRequestFields, Always({"investigatorId"}))
OpenSeats == ArrayOf(CardCode)

-----------------------------------------------------------------------------
(* A game, and what the server says of it                                  *)

GetGameFields ==
  [playerId |-> RequireNullable(UuidValue), multiplayerMode |-> Require(MultiplayerVariant),
   game |-> Require(PublicGame), eventId |-> RequireNullable(UuidValue)]
GetGame == ReadOnly(GetGameFields)

MessageTags == {"GameMessage", "GameError", "GameUI", "GameAudio", "GameAchievement"}
ServerMessageCases ==
  [tag \in MessageTags |-> Case([contents |-> Require(StringValue)])]
    @@ [AnswerRejected |-> Case([reason |-> Require(StringValue),
                                 questionVersion |-> RequireNullable(IntValue)]),
        GameUpdate |-> Case([contents |-> Require(PublicGame)])]
ServerMessage == VariantsOf(ServerMessageCases, NoMembers, "tag")
=============================================================================
