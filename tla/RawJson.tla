------------------------------ MODULE RawJson ------------------------------
(***************************************************************************)
(* Json::Value of RawJson.cpp: the strict, bounded JSON parser, the        *)
(* encoder, and the exact conversion to Qt's own values.  A text is a      *)
(* sequence of symbols: a literal, a character, a character outside the    *)
(* basic plane ("astral"), what follows the backslash of an escape         *)
(* ("u:hi"), a sequence that is no UTF-8 ("malformed").  A string is a     *)
(* sequence of UTF-16 units, "hi" and "lo" being the surrogates.           *)
(***************************************************************************)
EXTENDS RawNumber

CONSTANTS MaxInputBytes, MaxDepth, MaxStringLength, MaxArrayElements,
          MaxObjectMembers, MaxTotalNodes

Undefined == [kind |-> "undefined"]
Null == [kind |-> "null"]
Boolean(b) == [kind |-> "bool", bool |-> b]
Number(n) == [kind |-> "number", number |-> n]
String(s) == [kind |-> "string", string |-> s]
Array(elements) == [kind |-> "array", array |-> elements]
Object(members) == [kind |-> "object", members |-> members]
Member(key, value) == [key |-> key, value |-> value]

Keys(members) == {members[i].key : i \in DOMAIN members}
\* The first of several members with one key is found.
ValueOf(object, key) ==
  IF object.kind # "object" \/ key \notin Keys(object.members) THEN Undefined
  ELSE object.members[CHOOSE i \in DOMAIN object.members :
         /\ object.members[i].key = key
         /\ \A j \in 1..(i - 1) : object.members[j].key # key].value

DigitSymbols == <<"0", "1", "2", "3", "4", "5", "6", "7", "8", "9">>
DigitSymbolSet == {DigitSymbols[d + 1] : d \in Digits}
SymbolsOf(digits) == [i \in DOMAIN digits |-> DigitSymbols[digits[i] + 1]]
DigitsIn(symbols) ==
  [i \in DOMAIN symbols |-> CHOOSE d \in Digits : DigitSymbols[d + 1] = symbols[i]]

\* A high surrogate without a low one behind it, or the reverse.
HasLoneSurrogate(s) ==
  \E i \in DOMAIN s :
    \/ s[i] = "hi" /\ (i = Len(s) \/ s[i + 1] # "lo")
    \/ s[i] = "lo" /\ (i = 1 \/ s[i - 1] # "hi")

-----------------------------------------------------------------------------
(* The parser.  Each operator reads from a position on, and yields what it *)
(* read with the position after it and the number of values so far, or the *)
(* position where it failed.                                               *)

End == "end"
Peek(t, at) == IF at > Len(t) THEN End ELSE t[at]
Fails(at) == [ok |-> FALSE, at |-> at]
Reads(value, at, nodes) == [ok |-> TRUE, value |-> value, at |-> at, nodes |-> nodes]

SkipWhitespace(t, at) ==
  CHOOSE p \in at..(Len(t) + 1) :
    /\ Peek(t, p) # " "
    /\ \A q \in at..(p - 1) : t[q] = " "

\* The end of the digits that begin at a position.
DigitsEnd(t, at) ==
  CHOOSE p \in at..(Len(t) + 1) :
    /\ Peek(t, p) \notin DigitSymbolSet
    /\ \A q \in at..(p - 1) : t[q] \in DigitSymbolSet

\* "-? int frac? exp?", where an int does not begin with zero and go on.
ParseNumber(t, at, nodes) ==
  LET negative == Peek(t, at) = "-"
      int == IF negative THEN at + 1 ELSE at
      intEnd == IF Peek(t, int) = "0" THEN int + 1 ELSE DigitsEnd(t, int)
      point == Peek(t, intEnd) = "."
      fracEnd == IF point THEN DigitsEnd(t, intEnd + 1) ELSE intEnd
      e == Peek(t, fracEnd) \in {"e", "E"}
      sign == Peek(t, fracEnd + 1)
      exp == IF sign \in {"+", "-"} THEN fracEnd + 2 ELSE fracEnd + 1
      expEnd == DigitsEnd(t, exp)
      Part(from, to) == DigitsIn(SubSeq(t, from, to - 1))
  IN  CASE intEnd = int -> Fails(int)
        [] intEnd - int > MaxNumberDigits -> Fails(intEnd)
        [] point /\ (fracEnd = intEnd + 1 \/ fracEnd - intEnd - 1 > MaxNumberDigits) ->
             Fails(fracEnd)
        [] e /\ (expEnd = exp \/ expEnd - exp > MaxNumberDigits) -> Fails(expEnd)
        [] OTHER ->
             Reads(Number([negative |-> negative, int |-> Part(int, intEnd),
                           frac |-> IF point THEN Part(intEnd + 1, fracEnd) ELSE << >>,
                           exp |-> IF ~e THEN NoExponent
                                   ELSE [sign |-> IF sign = "-" THEN "-" ELSE "+",
                                         digits |-> Part(exp, expEnd)]]),
                   IF e THEN expEnd ELSE fracEnd, nodes)

\* What an escape stands for: the symbols it takes after its backslash, and
\* its units; none if it is malformed.
Escape(t, at) ==
  LET c == Peek(t, at)
      paired == Peek(t, at + 1) = "\\" /\ Peek(t, at + 2) = "u:lo"
  IN  CASE c \in {"\"", "\\"} -> [size |-> 1, units |-> <<c>>]
        [] c = "n" -> [size |-> 1, units |-> <<"newline">>]
        [] c = "u:a" -> [size |-> 1, units |-> <<"a">>]
        [] c = "u:control" -> [size |-> 1, units |-> <<"control">>]
        [] c = "u:hi" /\ paired -> [size |-> 3, units |-> <<"hi", "lo">>]
        [] OTHER -> [size |-> 0, units |-> << >>]

\* Mutant: the closing quote comes after the length.
TooLongFirst(text, c) == Len(text) >= MaxStringLength
TooLong(text, c) == c # "\"" /\ Len(text) >= MaxStringLength

RECURSIVE StringFrom(_, _, _)
StringFrom(t, at, text) ==
  LET c == Peek(t, at)
      escape == Escape(t, at + 1)
  IN  CASE c = End \/ TooLong(text, c) -> Fails(at)
        [] c = "\"" /\ ~TooLong(text, c) -> Reads(text, at + 1, 0)
        [] c = "\\" /\ ~TooLong(text, c) ->
             IF escape.size = 0 \/ Len(text \o escape.units) > MaxStringLength
             THEN Fails(at + 1)
             ELSE StringFrom(t, at + 1 + escape.size, text \o escape.units)
        [] c = "astral" /\ ~TooLong(text, c) ->
             IF Len(text) + 2 > MaxStringLength THEN Fails(at)
             ELSE StringFrom(t, at + 1, text \o <<"hi", "lo">>)
        [] c \in {"malformed", "newline", "control"} /\ ~TooLong(text, c) -> Fails(at)
        [] OTHER -> StringFrom(t, at + 1, Append(text, c))

ParseStringText(t, at) ==
  IF Peek(t, at) # "\"" THEN Fails(at) ELSE StringFrom(t, at + 1, << >>)

\* What follows an element: a comma and another, or the end.
Separator(t, at, close) ==
  LET p == SkipWhitespace(t, at)
  IN  [at |-> p, more |-> Peek(t, p) = ",", done |-> Peek(t, p) = close]

\* Mutant: the last of several members with one key stays.
IsRepeatedNever(key, members) == FALSE
IsRepeated(key, members) == key \in Keys(members)

RECURSIVE ParseValue(_, _, _, _), ElementsFrom(_, _, _, _, _), MembersFrom(_, _, _, _, _)

\* Depth and number of values are checked for every value, whatever it is.
ParseValue(t, at, depth, nodes) ==
  LET c == Peek(t, at)
      inside == SkipWhitespace(t, at + 1)
      string == ParseStringText(t, at)
  IN  CASE depth > MaxDepth \/ nodes + 1 > MaxTotalNodes -> Fails(at)
        [] OTHER ->
           CASE c = "\"" -> IF string.ok THEN Reads(String(string.value), string.at, nodes + 1)
                            ELSE string
             [] c = "{" -> IF Peek(t, inside) = "}" THEN Reads(Object(<< >>), inside + 1, nodes + 1)
                           ELSE MembersFrom(t, at + 1, depth + 1, nodes + 1, << >>)
             [] c = "[" -> IF Peek(t, inside) = "]" THEN Reads(Array(<< >>), inside + 1, nodes + 1)
                           ELSE ElementsFrom(t, at + 1, depth + 1, nodes + 1, << >>)
             [] c = "true" -> Reads(Boolean(TRUE), at + 1, nodes + 1)
             [] c = "false" -> Reads(Boolean(FALSE), at + 1, nodes + 1)
             [] c = "null" -> Reads(Null, at + 1, nodes + 1)
             [] c = "-" \/ c \in DigitSymbolSet -> ParseNumber(t, at, nodes + 1)
             [] OTHER -> Fails(at)

ElementsFrom(t, at, depth, nodes, elements) ==
  LET p == SkipWhitespace(t, at)
      element == ParseValue(t, p, depth, nodes)
      next == Separator(t, element.at, "]")
      all == Append(elements, element.value)
  IN  CASE Len(elements) >= MaxArrayElements -> Fails(p)
        [] OTHER ->
           IF ~element.ok THEN element
           ELSE IF next.more THEN ElementsFrom(t, next.at + 1, depth, element.nodes, all)
           ELSE IF next.done THEN Reads(Array(all), next.at + 1, element.nodes)
           ELSE Fails(next.at)

MembersFrom(t, at, depth, nodes, members) ==
  LET p == SkipWhitespace(t, at)
      key == ParseStringText(t, p)
      colon == SkipWhitespace(t, key.at)
      member == ParseValue(t, SkipWhitespace(t, colon + 1), depth, nodes)
      next == Separator(t, member.at, "}")
      all == Append(members, Member(key.value, member.value))
  IN  CASE Len(members) >= MaxObjectMembers -> Fails(p)
        [] OTHER ->
           IF ~key.ok THEN key
           ELSE IF IsRepeated(key.value, members) THEN Fails(key.at)
           ELSE IF Peek(t, colon) # ":" THEN Fails(colon)
           ELSE IF ~member.ok THEN member
           ELSE IF next.more THEN MembersFrom(t, next.at + 1, depth, member.nodes, all)
           ELSE IF next.done THEN Reads(Object(all), next.at + 1, member.nodes)
           ELSE Fails(next.at)

ParseDocument(t) ==
  LET document == ParseValue(t, SkipWhitespace(t, 1), 0, 0)
      rest == SkipWhitespace(t, document.at)
  IN  IF Len(t) > MaxInputBytes THEN Fails(1)
      ELSE IF document.ok /\ rest <= Len(t) THEN Fails(rest) ELSE document

-----------------------------------------------------------------------------
(* toJsonBytes() and toExactQJson()                                        *)

\* What both check of every value; they count alike.
RECURSIVE Nodes(_)
SumOf(s) == FoldLeft(LAMBDA n, m : n + m, 0, s)
Nodes(v) ==
  CASE v.kind = "array" -> 1 + SumOf([i \in DOMAIN v.array |-> Nodes(v.array[i])])
    [] v.kind = "object" -> 1 + SumOf([i \in DOMAIN v.members |-> Nodes(v.members[i].value)])
    [] OTHER -> 1

EncodableNumber(n) ==
  n.int # << >> /\ \A part \in {n.int, n.frac, n.exp.digits} : Len(part) <= MaxNumberDigits
EncodableString(s) == Len(s) <= MaxStringLength /\ ~HasLoneSurrogate(s)

RECURSIVE Encodable(_, _)
Encodable(v, depth) ==
  /\ depth <= MaxDepth
  /\ v.kind # "undefined"
  /\ v.kind = "number" => EncodableNumber(v.number)
  /\ v.kind = "string" => EncodableString(v.string)
  /\ v.kind = "array" =>
       /\ Len(v.array) <= MaxArrayElements
       /\ \A i \in DOMAIN v.array : Encodable(v.array[i], depth + 1)
  /\ v.kind = "object" =>
       /\ Len(v.members) <= MaxObjectMembers
       /\ \A i \in DOMAIN v.members :
            /\ EncodableString(v.members[i].key)
            /\ v.members[i].key \notin Keys(SubSeq(v.members, 1, i - 1))
            /\ Encodable(v.members[i].value, depth + 1)

Written(v) == Nodes(v) <= MaxTotalNodes /\ Encodable(v, 0)

Literal(n) ==
  (IF n.negative THEN <<"-">> ELSE << >>) \o SymbolsOf(n.int)
    \o (IF n.frac = << >> THEN << >> ELSE <<".">> \o SymbolsOf(n.frac))
    \o (IF n.exp = NoExponent THEN << >>
        ELSE <<"e">> \o (IF n.exp.sign = "-" THEN <<"-">> ELSE << >>) \o SymbolsOf(n.exp.digits))

EncodedUnit(s, i) ==
  CASE s[i] \in {"\"", "\\"} -> <<"\\", s[i]>>
    [] s[i] = "newline" -> <<"\\", "n">>
    [] s[i] = "control" -> <<"\\", "u:control">>
    [] s[i] = "hi" -> <<"astral">>
    [] s[i] = "lo" -> << >>
    [] OTHER -> <<s[i]>>
EncodedString(s) ==
  <<"\"">> \o FlattenSeq([i \in DOMAIN s |-> EncodedUnit(s, i)]) \o <<"\"">>

Joined(texts) ==
  FlattenSeq([i \in DOMAIN texts |-> IF i = 1 THEN texts[i] ELSE <<",">> \o texts[i]])

RECURSIVE Encoded(_)
Encoded(v) ==
  CASE v.kind = "null" -> <<"null">>
    [] v.kind = "bool" -> IF v.bool THEN <<"true">> ELSE <<"false">>
    [] v.kind = "number" -> Literal(v.number)
    [] v.kind = "string" -> EncodedString(v.string)
    [] v.kind = "array" ->
         <<"[">> \o Joined([i \in DOMAIN v.array |-> Encoded(v.array[i])]) \o <<"]">>
    [] v.kind = "object" ->
         <<"{">> \o Joined([i \in DOMAIN v.members |->
                             EncodedString(v.members[i].key) \o <<":">>
                               \o Encoded(v.members[i].value)]) \o <<"}">>

\* The exact conversion fails where the encoder does, and at numbers that are
\* no 64-bit integers; only at the top it maps an undefined value to one.
RECURSIVE Exact(_, _)
Exact(v, depth) ==
  /\ depth <= MaxDepth
  /\ v.kind = "undefined" => depth = 0
  /\ v.kind = "number" => EncodableNumber(v.number) /\ ToExactInt64(v.number) # {}
  /\ v.kind = "string" => EncodableString(v.string)
  /\ v.kind = "array" =>
       /\ Len(v.array) <= MaxArrayElements
       /\ \A i \in DOMAIN v.array : Exact(v.array[i], depth + 1)
  /\ v.kind = "object" =>
       /\ Len(v.members) <= MaxObjectMembers
       /\ \A i \in DOMAIN v.members :
            /\ EncodableString(v.members[i].key)
            /\ v.members[i].key \notin Keys(SubSeq(v.members, 1, i - 1))
            /\ Exact(v.members[i].value, depth + 1)

ToExactQJson(v) == Nodes(v) <= MaxTotalNodes /\ Exact(v, 0)

\* What Qt's values keep of a value that was converted, read back by
\* fromQJson(): integers lose their spelling, and members are ordered by key.
RECURSIVE FromQJson(_)
FromQJson(v) ==
  CASE v.kind = "number" -> Number(FromInt64(CHOOSE n \in ToExactInt64(v.number) : TRUE))
    [] v.kind = "array" -> Array([i \in DOMAIN v.array |-> FromQJson(v.array[i])])
    [] v.kind = "object" ->
         LET keys == CHOOSE s \in [DOMAIN v.members -> Keys(v.members)] :
                       \A k \in Keys(v.members) : \E i \in DOMAIN s : s[i] = k
         IN  Object([i \in DOMAIN keys |-> Member(keys[i], FromQJson(ValueOf(v, keys[i])))])
    [] OTHER -> v
=============================================================================
