----------------------------- MODULE Documents -----------------------------
(***************************************************************************)
(* Documents that the server and the application exchange, as the decoders *)
(* and encoders of src/src/domain see them.  A document is well-formed at  *)
(* first; then it meets another version of the server, or an error, and    *)
(* changes at some place; and the application may read it and write it     *)
(* again.                                                                  *)
(***************************************************************************)
EXTENDS Games

CONSTANTS Samples,       \* for each kind of document, some that are well-formed
          MaxChanges,    \* for each kind, how often one changes
          Replacements,  \* what finds its way into a document
          Spellings      \* what may become the key of an entry

VARIABLES kind, doc, changes
recordVars == <<kind, doc, changes>>

\* The types that are read of bodies, and written into them.
ReadTypes == [getGame |-> GetGame, message |-> ServerMessage]
WrittenTypes ==
  [games |-> GameList, option |-> CampaignOption, createGame |-> CreateGameRequest,
   chooseDeck |-> ChooseDeckRequest, claimSeat |-> ClaimSeatRequest, openSeats |-> OpenSeats,
   deck |-> Deck, createDeck |-> CreateDeckRequest, fetchDeck |-> FetchDeckRequest,
   verdict |-> DeckValidationResult, error |-> DeckOperationError, catalog |-> Catalog]
Type == (ReadTypes @@ WrittenTypes)[kind]

-----------------------------------------------------------------------------
(* What may become of a document at one of its places                      *)

Without(f, name) == [n \in DOMAIN f \ {name} |-> f[n]]
Lost(v) ==
  CASE v.kind = "list" -> {List(RemoveAt(v.list, i)) : i \in DOMAIN v.list}
    [] v.kind = "record" -> {Record(Without(v.record, name)) : name \in DOMAIN v.record}
    [] OTHER -> {}
Extended(v) == IF v.kind = "record" THEN {Record(v.record @@ ("extra" :> Text("t")))} ELSE {}
Repeated(v) ==
  IF v.kind = "list" THEN {List(Append(v.list, v.list[i])) : i \in DOMAIN v.list} ELSE {}
Keyed(v) == IF v.kind = "record" THEN DOMAIN v.record \cap Spellings ELSE {}
Rekeyed(v) ==
  {Record(Without(v.record, key) @@ (new :> v.record[key])) :
     <<key, new>> \in {p \in Keyed(v) \X Spellings : p[2] \notin DOMAIN v.record}}
Copied(v) ==
  {Record(v.record @@ (new :> v.record[key])) : <<key, new>> \in Keyed(v) \X Spellings}
Here(how, v) ==
  CASE how = "replaced" -> Replacements
    [] how = "lost" -> Lost(v)
    [] how = "extended" -> Extended(v)
    [] how = "repeated" -> Repeated(v)
    [] how = "rekeyed" -> Rekeyed(v)
    [] how = "copied" -> Copied(v)

RECURSIVE Changed(_, _)
Changed(how, v) ==
  Here(how, v) \cup
    CASE v.kind = "list" ->
           UNION {{List([v.list EXCEPT ![i] = w]) : w \in Changed(how, v.list[i])} :
                    i \in DOMAIN v.list}
      [] v.kind = "record" ->
           UNION {{Record([v.record EXCEPT ![name] = w]) : w \in Changed(how, v.record[name])} :
                    name \in DOMAIN v.record}
      [] OTHER -> {}

Change(how) ==
  /\ changes < MaxChanges[kind]
  /\ doc' \in Changed(how, doc) \ {doc}
  /\ changes' = changes + 1
  /\ UNCHANGED kind

\* The application reads the document, and writes what it read.
Rewrite ==
  /\ kind \in DOMAIN WrittenTypes
  /\ \E x \in Decode(Type, doc) : doc' = Encode(Type, x)
  /\ UNCHANGED <<kind, changes>>

InitRecords == kind \in DOMAIN Samples /\ doc \in Samples[kind] /\ changes = 0
NextRecords ==
  \/ Change("replaced") \/ Change("lost") \/ Change("extended")
  \/ Change("repeated") \/ Change("rekeyed") \/ Change("copied")
  \/ Rewrite

-----------------------------------------------------------------------------
(* Properties                                                              *)

\* What two texts of one meaning may be written as.
Spelled == UuidSpellings @@
  [Chapter1AsIfRuling |-> "chapter1", Chapter2AsIfRuling |-> "chapter2"]
\* What absence and null mean, where they mean a value.
Defaults ==
  [ultimatumsAndBoons |-> List(<<>>), achievementsEnabled |-> Truth(TRUE),
   allowSpectators |-> Truth(FALSE)]
\* What is not understood, or understood in part, stays as it was.
Opaque == RawNames \cup RawArrayNames \cup {"outcome", "sideSlots", "overlay"}

\* One document says what another does, and nothing else: lists keep their
\* length and order, no value turns into another, and no member comes or goes,
\* but for what is nothing, what the other side added, and defaults.
RECURSIVE Says(_, _)
Says(after, before) ==
  CASE before.kind = "list" /\ after.kind = "list" ->
         /\ Len(after.list) = Len(before.list)
         /\ \A i \in DOMAIN after.list : Says(after.list[i], before.list[i])
    [] before.kind = "record" /\ after.kind = "record" ->
         /\ \A name \in DOMAIN before.record \ DOMAIN after.record :
              name = "extra" \/ before.record[name] \in {JsonNull, List(<<>>), Record(NoMembers)}
         /\ \A name \in DOMAIN after.record \ DOMAIN before.record :
              after.record[name] \in {JsonNull} \cup {Defaults[n] : n \in {name} \cap DOMAIN Defaults}
         /\ \A name \in DOMAIN after.record \cap DOMAIN before.record :
              LET b == before.record[name]
                  a == after.record[name]
              IN  IF name \in Opaque THEN a = b
                  ELSE Says(a, b) \/ (b = JsonNull /\ name \in DOMAIN Defaults /\ a = Defaults[name])
    [] before.kind = "text" /\ after.kind = "text" ->
         \/ after = before
         \/ before.text \in DOMAIN Spelled /\ after.text = Spelled[before.text]
    [] OTHER -> after = before

\* What the application writes of a document that it read is the same document
\* to whoever reads it next, itself included; and toRequestOption() narrows an
\* option to the one that a request may hold, if it is one word for word, and
\* never drops what it carries.
WrittenIsRead ==
  \A x \in Decode(Type, doc) :
    /\ Says(Encode(Type, x), doc)
    /\ Decode(Type, Encode(Type, x)) = {x}
NarrowingLosesNothing ==
  \A x \in Decode(CampaignOption, doc) :
    /\ ToRequestOption(x) = Decode(CampaignOptionRequest, doc)
    /\ \A option \in ToRequestOption(x) : Encode(CampaignOptionRequest, option) = doc
RewritingChangesNothing ==
  /\ kind \in DOMAIN WrittenTypes => WrittenIsRead
  /\ kind = "option" => NarrowingLosesNothing

\* An entity of a board is found under its own identifier, once, whatever the
\* spelling of the server's key; it is the one that the document has there, and
\* has the tokens that it lists, and no others.
EntityMaps == {"locations", "investigators", "acts", "agendas"}
TokensOf(entry, name) ==
  LET pairs == entry.record.tokens.list
  IN  MapThenSumSet(LAMBDA i : pairs[i].list[2].number,
                    {i \in DOMAIN pairs : pairs[i].list[1] = Text(name)})
Boards ==
  CASE kind = "getGame" ->
         {<<x.record.game, doc.record.game>> : x \in Decode(GetGame, doc)}
    [] kind = "message" ->
         {<<x.fields.contents, doc.record.contents>> :
            x \in {x \in Decode(ServerMessage, doc) : x.tag = "GameUpdate"}}
    [] OTHER -> {}
EntitiesAreTheirKeys ==
  \A <<game, text>> \in Boards, map \in EntityMaps :
    LET found == game.record[map].record
        sent == text.record[map].record
        Id(key) == IF key \in DOMAIN UuidSpellings THEN UuidSpellings[key] ELSE key
    IN  /\ DOMAIN found = {Id(key) : key \in DOMAIN sent}
        /\ Cardinality(DOMAIN found) = Cardinality(DOMAIN sent)
        /\ \A key \in DOMAIN sent :
             LET entity == found[Id(key)].record
             IN  /\ entity.id = Text(Id(key)) /\ Says(entity.id, sent[key].record.id)
                 /\ "label" \in DOMAIN entity => entity.label = sent[key].record.label
                 /\ "tokens" \in DOMAIN entity =>
                      \A name \in {"Clue", "Doom", "Horror"} :
                        CountOf(entity.tokens, name) = TokensOf(sent[key], name)

\* The names of a catalog: every element is named or counted as skipped; a bad
\* one takes no other with it, nor a bad second name the first; and a catalog
\* that is read as a whole has just the names of its cards.
NamesAgreeWithCatalog ==
  kind = "catalog" /\ doc.kind = "list" =>
    LET names == NamesOfCatalog(doc.list)
        Named(card) ==
          [cardCode |-> card.cardCode, name |-> card.name, revealedName |-> card.revealedName]
        Plainly(v) == Decode(CardDef, Record(Without(v.record, "revealedName")))
    IN  /\ names.skippedCount + Len(names.cards) = Len(doc.list)
        /\ names.degradedCount <= Len(names.cards)
        /\ \A i \in DOMAIN doc.list :
             doc.list[i].kind = "record" =>
               \A x \in Plainly(doc.list[i]) : \E card \in ToSet(names.cards) :
                 /\ [card EXCEPT !.revealedName = None] = Named(x.record)
                 /\ \A y \in Decode(CardDef, doc.list[i]) : card = Named(y.record)
        /\ \A x \in Decode(Catalog, doc) :
             names = [cards |-> [i \in DOMAIN x.list |-> Named(x.list[i].record)],
                      skippedCount |-> 0, degradedCount |-> 0]
=============================================================================
