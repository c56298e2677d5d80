---------------------------- MODULE CardCatalog ----------------------------
(* What CardCatalog.cpp reads and writes: the definitions of cards, their  *)
(* costs, icons and values, and the names of a catalog.                    *)
EXTENDS JsonDecode

CardType ==
  Names(<<"AssetType", "EventType", "SkillType", "PlayerTreacheryType", "PlayerEnemyType",
          "TreacheryType", "EnemyType", "LocationType", "EnemyLocationCardType",
          "EncounterAssetType", "EncounterEventType", "ActType", "AgendaType", "StoryType",
          "InvestigatorType", "ScenarioType", "KeyType">>)
CardSubType == Names(<<"Weakness", "BasicWeakness">>)
Revelation == Names(<<"NoRevelation", "IsRevelation", "CannotBeCanceledRevelation">>)
SlotType ==
  Names(<<"HandSlot", "BodySlot", "AllySlot", "AccessorySlot", "ArcaneSlot", "TarotSlot",
          "HeadSlot">>)
WhenDiscarded == Names(<<"ToDiscard", "ToBonded", "ToSetAside">>)
OutOfPlayEffect ==
  Names(<<"InHandEffect", "InDiscardEffect", "InSearchEffect", "OnTopOfDeckEffect">>)
SkillType == Names(<<"SkillWillpower", "SkillIntellect", "SkillCombat", "SkillAgility">>)
ClassSymbol ==
  Names(<<"Guardian", "Seeker", "Survivor", "Rogue", "Mystic", "Neutral", "Mythos">>)

CardNameFields == [title |-> Require(StringValue), subtitle |-> RequireNullable(StringValue)]
CardName == ObjectOf(CardNameFields, Always({"title", "subtitle"}))

\* Lists that may be missing, but not null.
ListOr(t) == OptionalNonNullOr(t, List(<<>>))
EnumArray(t) == ListOr(ArrayOf(t))
StringSet == ListOr(DistinctArrayOf(StringValue))
CardCodeArray == ListOr(ArrayOf(CardCode))
BondedWith == ListOr(ArrayOf(PairOf(IntValue, CardCode)))

-----------------------------------------------------------------------------
(* Tagged values: an unknown tag is kept, a known one must be well-formed. *)

Alone == ExactCase(NoMembers)
With(t) == ExactCase([contents |-> Require(t)])

SkillIconCases == [SkillIcon |-> With(SkillType), WildIcon |-> Alone, WildMinusIcon |-> Alone]
SkillIconWritten == [SkillIcon |-> {"contents"}, WildIcon |-> {}, WildMinusIcon |-> {}]
SkillIcon == VariantsOf(SkillIconCases, SkillIconWritten, "raw")

CardCostCases ==
  [StaticCost |-> With(IntValue), DynamicCost |-> Alone, DiscardAmountCost |-> Alone,
   DeferredCost |-> Alone, MaxDynamicCost |-> With(AnyValue), AnyMatchingCardCost |-> With(AnyValue),
   MatchingEnemyFieldCost |-> With(PairOf(AnyValue, AnyValue))]
CardCostWritten ==
  [tag \in {"StaticCost", "MaxDynamicCost", "AnyMatchingCardCost", "MatchingEnemyFieldCost"} |->
     {"contents"}]
    @@ [tag \in {"DynamicCost", "DiscardAmountCost", "DeferredCost"} |-> {}]
CardCost == VariantsOf(CardCostCases, CardCostWritten, "raw")

GameValueCases ==
  [Static |-> With(IntValue), PerPlayer |-> With(IntValue),
   StaticWithPerPlayer |-> With(PairOf(IntValue, IntValue)),
   ByPlayerCount |-> With(FixedOf(<<IntValue, IntValue, IntValue, IntValue>>)),
   ValueX |-> Alone, ValueStar |-> Alone, ValueUnknown |-> Alone]
GameValueWritten ==
  [tag \in {"Static", "PerPlayer", "StaticWithPerPlayer", "ByPlayerCount"} |-> {"contents"}]
    @@ [tag \in {"ValueX", "ValueStar", "ValueUnknown"} |-> {}]
GameValue == VariantsOf(GameValueCases, GameValueWritten, "raw")

-----------------------------------------------------------------------------
(* A card, in the groups that its decoder reads.                           *)

EachOf(names, field) == [name \in names |-> field]
IdentityFields ==
  [cardCode |-> Require(CardCode), name |-> Require(CardName), cardType |-> Require(CardType),
   art |-> Require(NonEmptyValue)]
FaceFields ==
  [revealedName |-> OptionalNonNull(CardName), cost |-> OptionalNonNull(CardCost),
   level |-> OptionalNonNull(IntValue), cardSubType |-> OptionalNonNull(CardSubType),
   classSymbols |-> ListOr(DistinctArrayOf(ClassSymbol)), skills |-> ListOr(ArrayOf(SkillIcon)),
   cardTraits |-> StringSet, revealedCardTraits |-> StringSet,
   revelation |-> OptionalNonNull(Revelation)]
IntFields ==
  {"victoryPoints", "vengeancePoints", "encounterSetQuantity", "stage", "grantedXp"}
BoolFields ==
  {"overrideActionPlayableIfCriteriaMet", "permanent", "unique", "doubleSided", "exceptional",
   "playableFromDiscard", "canReplace", "skipPlayWindows", "beforeEffect"}
PlayFields ==
  EachOf(IntFields, OptionalNonNull(IntValue)) @@ EachOf(BoolFields, OptionalNonNull(BoolValue))
    @@ [encounterSet |-> OptionalNonNull(StringValue), slots |-> EnumArray(SlotType),
        alternateCardCodes |-> CardCodeArray, bondedWith |-> BondedWith]
DiscardFields ==
  [otherSide |-> OptionalNonNull(CardCode), whenDiscarded |-> OptionalNonNull(WhenDiscarded),
   canCommitWhenNoIcons |-> OptionalNonNull(BoolValue), commitTrigger |-> OptionalNonNull(BoolValue),
   tags |-> ListOr(ArrayOf(StringValue)), outOfPlayEffects |-> EnumArray(OutOfPlayEffect)]
ValueNames == {"health", "fight", "evade", "healthDamage", "sanityDamage"}
ValueFields == EachOf(ValueNames, OptionalNonNull(GameValue))
AlternateFields ==
  [alternateSkills |-> OptionalNonNullOr(MapOf(StringValue, ArrayOf(SkillIcon)), Record(NoMembers)),
   alternateErrata |-> OptionalNonNullOr(MapOf(StringValue, StringValue), Record(NoMembers)),
   errata |-> OptionalNonNull(StringValue)]
RawNames ==
  {"additionalCost", "fastWindow", "actions", "criteria", "uses", "locationSymbol",
   "locationRevealedSymbol", "purchaseTrauma", "customizations"}
RawArrayNames ==
  {"keywords", "commitRestrictions", "attackOfOpportunityModifiers", "limits",
   "locationConnections", "locationRevealedConnections", "deckRestrictions"}
RawFields ==
  EachOf(RawNames, Explicit(AnyValue)) @@ EachOf(RawArrayNames, Explicit(RawValue({"list"})))
    @@ [meta |-> Explicit(RawValue({"record"}))]
CardDefFields ==
  IdentityFields @@ FaceFields @@ PlayFields @@ DiscardFields @@ ValueFields @@ AlternateFields
    @@ RawFields

ListNames ==
  {"classSymbols", "skills", "cardTraits", "revealedCardTraits", "slots", "alternateCardCodes",
   "bondedWith", "tags", "outOfPlayEffects", "alternateSkills", "alternateErrata"}
OptionalNames ==
  {"revealedName", "cost", "level", "cardSubType", "revelation", "encounterSet", "otherSide",
   "whenDiscarded", "canCommitWhenNoIcons", "commitTrigger", "errata"}
    \cup IntFields \cup BoolFields \cup ValueNames
CardDefWritten ==
  Always({"cardCode", "name", "cardType", "art"}) @@ UnlessNone(OptionalNames)
    @@ UnlessEmpty(ListNames) @@ IfPresent(RawNames \cup RawArrayNames \cup {"meta"})
CardDef == ObjectOf(CardDefFields, CardDefWritten)

\* decodeCatalogFromRawBytes(): one card that is none fails the catalog.
Catalog == ArrayOf(CardDef)

\* decodeCatalogNamesFromRawBytes(): it is skipped, and counted.
\* Mutant: a bad second name takes the first one with it.
NamedCardInFull ==
  ReadOnly([cardCode |-> Require(CardCode), name |-> Require(CardName),
            revealedName |-> OptionalNonNull(CardName)])
NamedCard == ReadOnly([cardCode |-> Require(CardCode), name |-> Require(CardName)])
\* Mutant: a card that has no second name is counted as degraded.
RevealedNameRequired == ReadOnly([revealedName |-> Require(CardName)])
RevealedName == ReadOnly([revealedName |-> OptionalNonNull(CardName)])
NamesOfCatalog(elements) ==
  LET named == SelectSeq(elements, LAMBDA v : Decode(NamedCard, v) # {})
      Degraded(v) == Decode(RevealedName, v) = {}
      Revealed(v) ==
        IF Degraded(v) THEN None
        ELSE (CHOOSE x \in Decode(RevealedName, v) : TRUE).record.revealedName
      NameOf(v) == (CHOOSE x \in Decode(NamedCard, v) : TRUE).record
  IN  [cards |-> [i \in DOMAIN named |-> NameOf(named[i]) @@ ("revealedName" :> Revealed(named[i]))],
       skippedCount |-> Len(elements) - Len(named),
       degradedCount |-> Len(SelectSeq(named, Degraded))]
=============================================================================
