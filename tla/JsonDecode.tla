----------------------------- MODULE JsonDecode -----------------------------
(***************************************************************************)
(* The decoding of JSON values: JsonDecode.cpp, what the decoders of       *)
(* Games.cpp, Decks.cpp, Board.cpp and CardCatalog.cpp have in common, and *)
(* the encoding by their toRawJson().  A type is a record that says what   *)
(* is read and what is written; Decode yields the set of the one value     *)
(* that was read, or no value for a failure.  A text stands for whatever   *)
(* texts the decoders treat alike; the names of members are real, and the  *)
(* order of members is not kept.                                           *)
(***************************************************************************)
EXTENDS Integers, Sequences, FiniteSets, TLC, SequencesExt, FiniteSetsExt

\* JSON values.
JsonNull == [kind |-> "null"]
Text(s) == [kind |-> "text", text |-> s]
Num(n) == [kind |-> "number", number |-> n, exact |-> TRUE]
Fraction == [kind |-> "number", number |-> 0, exact |-> FALSE]
Truth(b) == [kind |-> "bool", bool |-> b]
List(s) == [kind |-> "list", list |-> s]
Record(f) == [kind |-> "record", record |-> f]
NoMembers == [name \in {} |-> JsonNull]

\* Values that were read, where they are not JSON values themselves.
None == [kind |-> "none"]
Absent == [kind |-> "absent"]
Enumerator(e) == [kind |-> "enumerator", enumerator |-> e]
Variant(tag, fields) == [kind |-> "variant", tag |-> tag, fields |-> fields]
Kept(value, raw) == [kind |-> "kept", value |-> value, raw |-> raw]

-----------------------------------------------------------------------------
(* Types                                                                   *)

StringValue == [is |-> "string"]
IntValue == [is |-> "int"]
NaturalValue == [is |-> "natural"]
BoolValue == [is |-> "bool"]
UuidValue == [is |-> "uuid"]
NonEmptyValue == [is |-> "nonEmpty"]
ThisValue(v) == [is |-> "this", value |-> v]
OneOf(texts) == [is |-> "oneOf", texts |-> texts]
EnumValue(table) == [is |-> "enum", table |-> table]
RawValue(kinds) == [is |-> "raw", kinds |-> kinds]
AnyValue == RawValue({"null", "text", "number", "bool", "list", "record"})
OrNone(v, t) == [is |-> "orNone", none |-> v, of |-> t]
Nullable(t) == OrNone(JsonNull, t)
ArrayOf(t) == [is |-> "array", of |-> t, distinct |-> "none"]
DistinctArrayOf(t) == [ArrayOf(t) EXCEPT !.distinct = "elements"]
PairOf(first, second) == [is |-> "tuple", of |-> <<first, second>>]
FixedOf(ts) == [is |-> "tuple", of |-> ts]
MapOf(key, t) == [is |-> "map", key |-> key, of |-> t]
EntityMapOf(key, t) == [is |-> "entities", key |-> key, of |-> t]
\* An object, the members that are written of it, and how.
ObjectOf(fields, written) ==
  [is |-> "object", fields |-> fields, written |-> written, oneOf |-> {}]
ReadOnly(fields) == ObjectOf(fields, NoMembers)
\* A tagged object; what becomes of other tags: it is kept "raw", its "tag" is
\* kept, or reading it will "fail".
VariantsOf(cases, written, others) ==
  [is |-> "variants", cases |-> cases, written |-> written, others |-> others]
\* A value that is written as it was read; with Lenient even if it is none.
KeptOf(t) == [is |-> "kept", of |-> t, lenient |-> FALSE]
LenientOf(t) == [is |-> "kept", of |-> t, lenient |-> TRUE]
\* One of several objects, told apart by the members that are there.
ShapesOf(shapes) == [is |-> "shapes", shapes |-> shapes]

\* A closed enumeration whose names are those of its enumerators.
Names(names) == EnumValue([i \in DOMAIN names |-> <<names[i], names[i]>>])

\* Fields: what absence and null mean, and of what type the rest is.
Require(t) == [presence |-> "required", type |-> t]
RequireNullable(t) == Require(Nullable(t))
OptionalOr(t, value) == [presence |-> "optional", type |-> t, default |-> value]
Optional(t) == OptionalOr(t, None)
OptionalNonNullOr(t, value) == [presence |-> "optionalNonNull", type |-> t, default |-> value]
OptionalNonNull(t) == OptionalNonNullOr(t, None)
Explicit(t) == OptionalNonNullOr(t, Absent)
TolerantOr(t, value) == [presence |-> "tolerant", type |-> t, default |-> value]
Tolerant(t) == TolerantOr(t, None)
Case(fields) == [fields |-> fields, exact |-> FALSE]
ExactCase(fields) == [fields |-> fields, exact |-> TRUE]

\* What is written of a field: always (null if there is none), or only if there
\* is a value, or elements, or if the field was there.
Always(names) == [name \in names |-> "always"]
UnlessNone(names) == [name \in names |-> "unlessNone"]
UnlessEmpty(names) == [name \in names |-> "unlessEmpty"]
IfPresent(names) == [name \in names |-> "ifPresent"]

-----------------------------------------------------------------------------
(* Texts.  Some spell the same identifier in two ways; some are codes of   *)
(* cards, and fewer are codes that the board takes.                        *)

UuidSpellings == [u1 |-> "u1", U1 |-> "u1", u2 |-> "u2"]
NilUuid == "u0"
CardCodes == {"c1", "c2", "c:Big"}
CardCode == OneOf(CardCodes)

\* matchesBackendUuidGrammar() and not the null uuid; read in either case of
\* letters, and written in one.
DecodeUuidText(s) == IF s \in DOMAIN UuidSpellings THEN {Text(UuidSpellings[s])} ELSE {}

\* Several names may be of one enumerator; the first is written.
DecodeClosedEnum(table, s) ==
  LET named == {i \in DOMAIN table : table[i][1] = s}
  IN  {Enumerator(table[i][2]) : i \in {i \in named : i = Min(named)}}
\* Mutant: the last name is written.
EncodeClosedEnumLast(table, e) ==
  Text(table[Max({i \in DOMAIN table : table[i][2] = e})][1])
EncodeClosedEnum(table, e) ==
  Text(table[Min({i \in DOMAIN table : table[i][2] = e})][1])

-----------------------------------------------------------------------------
(* Reading                                                                 *)

\* Values that have no parts.
DecodeAtom(t, v) ==
  LET If(condition) == IF condition THEN {v} ELSE {}
  IN  CASE t.is = "string" -> If(v.kind = "text")
        [] t.is = "int" -> If(v.kind = "number" /\ v.exact)
        [] t.is = "natural" -> If(v.kind = "number" /\ v.exact /\ v.number >= 0)
        [] t.is = "bool" -> If(v.kind = "bool")
        [] t.is = "nonEmpty" -> If(v.kind = "text" /\ v.text # "")
        [] t.is = "this" -> If(v = t.value)
        [] t.is = "oneOf" -> If(v.kind = "text" /\ v.text \in t.texts)
        [] t.is = "uuid" -> IF v.kind = "text" THEN DecodeUuidText(v.text) ELSE {}
        [] t.is = "enum" -> IF v.kind = "text" THEN DecodeClosedEnum(t.table, v.text) ELSE {}
        [] t.is = "raw" -> If(v.kind \in t.kinds)

HasNames(v, names) == v.kind = "record" /\ names \subseteq DOMAIN v.record
TagOf(v) ==
  IF HasNames(v, {"tag"}) /\ v.record.tag.kind = "text" THEN {v.record.tag.text} ELSE {}
HasOnly(v, names) == DOMAIN v.record \subseteq names
IsOfShape(shape, v) == HasNames(v, shape.has) /\ DOMAIN v.record \cap shape.lacks = {}

RECURSIVE Decode(_, _), DecodeField(_, _, _), DecodeFields(_, _), DecodeArray(_, _),
          DecodeMap(_, _), DecodeEntities(_, _), DecodeVariant(_, _)

\* The rules of absence and null.
DecodeField(field, object, name) ==
  CASE name \notin DOMAIN object /\ field.presence = "required" -> {}
    [] name \notin DOMAIN object /\ field.presence # "required" -> {field.default}
    [] name \in DOMAIN object /\ object[name] = JsonNull /\ field.presence = "optional" ->
         {field.default}
    [] name \in DOMAIN object /\ field.presence = "tolerant" ->
         IF Decode(field.type, object[name]) = {} THEN {field.default}
         ELSE Decode(field.type, object[name])
    [] OTHER -> Decode(field.type, object[name])

\* All fields, or nothing.
DecodeFields(fields, object) ==
  FoldSet(LAMBDA name, read :
            {others @@ (name :> x) : others \in read, x \in DecodeField(fields[name], object, name)},
          {NoMembers}, DOMAIN fields)

\* All elements, or nothing.
DecodeArray(t, list) ==
  FoldLeft(LAMBDA read, v : {Append(others, x) : others \in read, x \in Decode(t, v)}, {<<>>}, list)
AreDistinct(how, xs) ==
  \/ how = "none"
  \/ how = "elements" /\ IsInjective(xs)
  \/ how = "names" /\ IsInjective([i \in DOMAIN xs |-> xs[i].list[1]])

\* A map with keys of a type of texts.
DecodeMap(t, object) ==
  IF \E key \in DOMAIN object : Decode(t.key, Text(key)) = {} THEN {}
  ELSE DecodeFields([key \in DOMAIN object |-> Require(t.of)], object)

\* requireEntityMap(): each key is the identifier of its entry, in one of its
\* spellings, and no two keys are of one.
\* Mutants: an entry of another identifier; one of two entries wins.
IsEntryOfAny(e, key) == TRUE
IsEntryOf(e, key) == e.record.id = key
AreOneOrMore(names) == names # {}
AreOne(names) == Cardinality(names) = 1
DecodeEntities(t, object) ==
  LET Keys == UNION {Decode(t.key, Text(name)) : name \in DOMAIN object}
      Of(key) == {name \in DOMAIN object : key \in Decode(t.key, Text(name))}
      Entry(key) == UNION {Decode(t.of, object[name]) : name \in Of(key)}
  IN  IF /\ \A name \in DOMAIN object : Decode(t.key, Text(name)) # {}
         /\ \A key \in Keys : AreOne(Of(key))
         /\ \A key \in Keys : \E e \in Entry(key) : IsEntryOf(e, key)
      THEN {Record([id \in {key.text : key \in Keys} |-> CHOOSE e \in Entry(Text(id)) : TRUE])}
      ELSE {}

\* The members of an exact case are its fields, and no others.
DecodeVariant(t, v) ==
  UNION {CASE tag \notin DOMAIN t.cases /\ t.others = "raw" -> {Kept(None, v)}
           [] tag \notin DOMAIN t.cases /\ t.others = "tag" -> {Variant(tag, NoMembers)}
           [] tag \notin DOMAIN t.cases /\ t.others = "fail" -> {}
           [] tag \in DOMAIN t.cases ->
                LET case == t.cases[tag]
                IN  IF case.exact /\ ~HasOnly(v, {"tag"} \cup DOMAIN case.fields) THEN {}
                    ELSE {Variant(tag, f) : f \in DecodeFields(case.fields, v.record)} :
         tag \in TagOf(v)}

Decode(t, v) ==
  CASE t.is = "orNone" -> IF v = t.none THEN {None} ELSE Decode(t.of, v)
    [] t.is = "array" ->
         IF v.kind # "list" THEN {}
         ELSE {List(xs) : xs \in {xs \in DecodeArray(t.of, v.list) : AreDistinct(t.distinct, xs)}}
    [] t.is = "tuple" ->
         IF v.kind # "list" \/ (v.kind = "list" /\ Len(v.list) # Len(t.of)) THEN {}
         ELSE {List([i \in DOMAIN t.of |-> xs[i]]) :
                 xs \in DecodeFields([i \in DOMAIN t.of |-> Require(t.of[i])], v.list)}
    [] t.is = "map" ->
         IF v.kind # "record" THEN {} ELSE {Record(f) : f \in DecodeMap(t, v.record)}
    [] t.is = "entities" -> IF v.kind # "record" THEN {} ELSE DecodeEntities(t, v.record)
    [] t.is = "object" ->
         IF v.kind # "record" THEN {}
         ELSE {Record(f) : f \in {f \in DecodeFields(t.fields, v.record) :
                                    t.oneOf # {} => \E name \in t.oneOf : f[name] \notin {None, Absent}}}
    [] t.is = "variants" -> DecodeVariant(t, v)
    [] t.is = "kept" ->
         IF t.lenient /\ Decode(t.of, v) = {} THEN {Kept(None, v)}
         ELSE {Kept(x, v) : x \in Decode(t.of, v)}
    [] t.is = "shapes" ->
         UNION {Decode(s.type, v) : s \in {s \in ToSet(t.shapes) : IsOfShape(s, v)}}
    [] OTHER -> DecodeAtom(t, v)

-----------------------------------------------------------------------------
(* Writing                                                                 *)

RECURSIVE Encode(_, _), EncodeFields(_, _, _)

IsWritten(how, x) ==
  CASE how = "always" -> TRUE
    [] how = "unlessNone" -> x # None
    [] how = "unlessEmpty" -> x \notin {List(<<>>), Record(NoMembers)}
    [] how = "ifPresent" -> x # Absent

EncodeFields(fields, written, record) ==
  [name \in {name \in DOMAIN written : IsWritten(written[name], record[name])} |->
     Encode(fields[name].type, record[name])]

Encode(t, x) ==
  CASE x = None -> JsonNull
    [] x # None /\ t.is = "orNone" -> Encode(t.of, x)
    [] x # None /\ x.kind = "kept" -> x.raw
    [] x # None /\ t.is = "enum" -> EncodeClosedEnum(t.table, x.enumerator)
    [] x # None /\ x.kind = "variant" ->
         Record(EncodeFields(t.cases[x.tag].fields, Always(t.written[x.tag]), x.fields)
                  @@ ("tag" :> Text(x.tag)))
    [] x # None /\ t.is = "array" -> List([i \in DOMAIN x.list |-> Encode(t.of, x.list[i])])
    [] x # None /\ t.is = "tuple" -> List([i \in DOMAIN x.list |-> Encode(t.of[i], x.list[i])])
    [] x # None /\ t.is = "map" -> Record([key \in DOMAIN x.record |-> Encode(t.of, x.record[key])])
    [] x # None /\ t.is = "object" -> Record(EncodeFields(t.fields, t.written, x.record))
    [] x # None /\ t.is = "shapes" ->
         Encode((CHOOSE s \in ToSet(t.shapes) : DOMAIN s.type.fields = DOMAIN x.record).type, x)
    [] OTHER -> x
=============================================================================
