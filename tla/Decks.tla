------------------------------- MODULE Decks -------------------------------
(* What Decks.cpp reads and writes: decks as they are given to the server, *)
(* as it keeps them, and its verdicts on them.                             *)
EXTENDS JsonDecode

CardQuantityMapInput == MapOf(NonEmptyValue, IntValue)
CardQuantityMap == MapOf(CardCode, IntValue)
InvestigatorRef == NonEmptyValue
\* Missing, null, a text or a number: as it was.
ExternalDeckId == RawValue({"null", "text", "number"})

DeckListInputFields ==
  [slots |-> Require(CardQuantityMapInput), investigator_code |-> Require(InvestigatorRef),
   investigator_name |-> Optional(StringValue), meta |-> Optional(StringValue),
   taboo_id |-> Optional(IntValue), url |-> Optional(StringValue),
   id |-> Explicit(ExternalDeckId), name |-> Optional(StringValue),
   sideSlots |-> Explicit(AnyValue)]
DeckListInputWritten ==
  Always({"slots", "investigator_code"}) @@ IfPresent({"id", "sideSlots"})
    @@ UnlessNone({"investigator_name", "meta", "taboo_id", "url", "name"})
DeckListInput == ObjectOf(DeckListInputFields, DeckListInputWritten)

DeckListFields ==
  [slots |-> Require(CardQuantityMap), sideSlots |-> Require(CardQuantityMap),
   investigator_code |-> Require(CardCode), investigator_name |-> Require(StringValue),
   meta |-> RequireNullable(StringValue), taboo_id |-> RequireNullable(IntValue),
   url |-> RequireNullable(StringValue), id |-> RequireNullable(StringValue),
   name |-> RequireNullable(StringValue)]
DeckListWritten ==
  Always({"slots", "sideSlots", "investigator_code", "investigator_name", "meta", "taboo_id",
          "url", "id", "name"})
DeckList == ObjectOf(DeckListFields, DeckListWritten)

DeckFields ==
  [id |-> Require(UuidValue), userId |-> Require(IntValue), url |-> RequireNullable(StringValue),
   name |-> Require(StringValue), investigatorName |-> Require(StringValue),
   list |-> Require(DeckList), lastUsedAt |-> RequireNullable(StringValue),
   overlay |-> Require(RawValue({"record", "null"})), playList |-> Require(DeckList)]
DeckWritten ==
  Always({"id", "userId", "url", "name", "investigatorName", "list", "lastUsedAt", "overlay",
          "playList"})
Deck == ObjectOf(DeckFields, DeckWritten)

CreateDeckRequestFields ==
  [deckId |-> Require(StringValue), deckName |-> Require(StringValue),
   deckUrl |-> Optional(StringValue), deckList |-> Require(DeckListInput)]
CreateDeckRequestWritten ==
  Always({"deckId", "deckName", "deckList"}) @@ UnlessNone({"deckUrl"})
CreateDeckRequest == ObjectOf(CreateDeckRequestFields, CreateDeckRequestWritten)

FetchDeckRequestFields == [url |-> Require(StringValue)]
FetchDeckRequest == ObjectOf(FetchDeckRequestFields, Always({"url"}))

\* An empty list of errors is success.
DeckValidationError ==
  VariantsOf([UnimplementedCard |-> ExactCase([contents |-> Require(CardCode)])],
             [UnimplementedCard |-> {"contents"}], "fail")
DeckValidationResult == ArrayOf(DeckValidationError)

DeckOperationErrorFields == [errorMsg |-> Require(StringValue)]
DeckOperationError == ObjectOf(DeckOperationErrorFields, Always({"errorMsg"}))
=============================================================================
