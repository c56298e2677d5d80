---------------------------- MODULE JsonDocument ----------------------------
(***************************************************************************)
(* A JSON document on its way through RawJson.cpp: it is built of values,  *)
(* written, corrupted on the way, read, converted to Qt's values and back, *)
(* by a caller who may do so in any order.                                 *)
(***************************************************************************)
EXTENDS RawJson

CONSTANTS Texts,       \* strings that are built
          KeyTexts,    \* keys
          Numbers,     \* numbers that are parts of documents
          Fillers,     \* values that join others
          Parts,       \* the most values that are built into one
          Bytes,       \* symbols that find their way into a text
          MaxEdits     \* edits of one text

VARIABLES stack,   \* values that are built, the last one last
          text,    \* what was written, or NoText
          edits    \* how often it was edited

documentVars == <<stack, text, edits>>
NoText == << >>

\* Every number within the cap of digits, and some beyond it.
Strings(S, n) == UNION {[1..k -> S] : k \in 0..n}
RawNumbers ==
  {[negative |-> negative, int |-> int, frac |-> frac, exp |-> exp] :
     negative \in BOOLEAN,
     int \in {<<0>>} \cup {s \in Strings(Digits, MaxNumberDigits) : s # << >> /\ s[1] # 0},
     frac \in Strings(Digits, MaxNumberDigits),
     exp \in {NoExponent} \cup
       [sign : {"+", "-"}, digits : Strings(Digits, MaxNumberDigits) \ {<< >>}]}
Scalars ==
  {Undefined, Null, Boolean(TRUE)} \cup {Number(n) : n \in RawNumbers} \cup {String(s) : s \in Texts}

InitDocument == stack = << >> /\ text = NoText /\ edits = 0

\* makeNull(), makeBool(), makeNumber(), makeString(), or a parsed number.
Push(v) ==
  /\ text = NoText /\ edits = 0
  /\ SumOf([i \in DOMAIN stack |-> Nodes(stack[i])]) < Parts
  /\ stack' = Append(stack, v)
  /\ UNCHANGED <<text, edits>>

\* makeArray(), makeObject() of the last values.
Below(n) == SubSeq(stack, 1, Len(stack) - n)
Above(n) == SubSeq(stack, Len(stack) - n + 1, Len(stack))
Buildable(n) ==
  /\ text = NoText /\ edits = 0 /\ n <= Len(stack)
  /\ SumOf([i \in DOMAIN stack |-> Nodes(stack[i])]) < Parts
  /\ \A i \in DOMAIN stack : stack[i].kind = "number" => stack[i].number \in Numbers
MakeArray(n) ==
  /\ Buildable(n)
  /\ stack' = Append(Below(n), Array(Above(n)))
  /\ UNCHANGED <<text, edits>>
MakeObject(keys) ==
  LET n == Len(keys)
  IN  /\ Buildable(n)
      /\ stack' = Append(Below(n), Object([i \in 1..n |-> Member(keys[i], Above(n)[i])]))
      /\ UNCHANGED <<text, edits>>

\* toJsonBytes().
Write ==
  /\ text = NoText /\ Len(stack) = 1 /\ Written(stack[1])
  /\ text' = Encoded(stack[1])
  /\ UNCHANGED <<stack, edits>>

\* A symbol of the text is lost, or one is added.
Corrupt ==
  /\ text # NoText /\ edits < MaxEdits
  /\ stack[1].kind # "number"
  /\ \/ \E i \in DOMAIN text : text' = RemoveAt(text, i) /\ text' # NoText
     \/ \E i \in 1..(Len(text) + 1), b \in Bytes : text' = InsertAt(text, i, b)
  /\ edits' = edits + 1
  /\ UNCHANGED stack

\* Value::parse().
Read ==
  /\ text # NoText /\ ParseDocument(text).ok
  /\ stack' = <<ParseDocument(text).value>>
  /\ text' = NoText
  /\ UNCHANGED edits

\* toExactQJson(), and fromQJson() of what it made.
Convert ==
  /\ text = NoText /\ Len(stack) = 1 /\ ToExactQJson(stack[1])
  /\ stack' = <<FromQJson(stack[1])>>
  /\ UNCHANGED <<text, edits>>

NextDocument ==
  \/ stack = << >> /\ \E v \in Scalars : Push(v)
  \/ \E v \in Fillers : Push(v)
  \/ \E n \in 0..Parts : MakeArray(n)
  \/ \E n \in 0..2 : \E keys \in [1..n -> KeyTexts] : MakeObject(keys)
  \/ Write \/ Corrupt \/ Read \/ Convert

DocumentSpec == InitDocument /\ [][NextDocument]_documentVars

-----------------------------------------------------------------------------
(* Properties                                                              *)

\* The text without blanks, with escapes and exponents spelled as the encoder
\* spells them, found by a scan that knows of strings and nothing else.
Plain(t) ==
  LET Cut(s, n) == SubSeq(s, 1, Len(s) - n)
      Step(scan, c) ==
        CASE scan.escaped ->
               [out |-> CASE c = "u:a" -> Append(Cut(scan.out, 1), "a")
                          [] c = "u:lo" -> Append(Cut(scan.out, 3), "astral")
                          [] OTHER -> Append(scan.out, c),
                inside |-> TRUE, escaped |-> FALSE]
          [] ~scan.escaped /\ c = "\"" ->
               [out |-> Append(scan.out, c), inside |-> ~scan.inside, escaped |-> FALSE]
          [] ~scan.escaped /\ c # "\"" /\ scan.inside ->
               [out |-> Append(scan.out, c), inside |-> TRUE, escaped |-> c = "\\"]
          [] OTHER ->
               [out |-> CASE c \in {" ", "+"} -> scan.out
                          [] c = "E" -> Append(scan.out, "e")
                          [] OTHER -> Append(scan.out, c),
                inside |-> FALSE, escaped |-> FALSE]
  IN  FoldLeft(Step, [out |-> << >>, inside |-> FALSE, escaped |-> FALSE], t).out

\* What the encoder writes the parser reads, under the same limits, as the very
\* value that was written; and whatever becomes of a text, if it is read, then as
\* a value that can be written again, and as the same text but for blanks and
\* spelling.
WrittenIsReadBack ==
  text # NoText /\ edits = 0 /\ Len(text) <= MaxInputBytes =>
    ParseDocument(text) = Reads(stack[1], Len(text) + 1, Nodes(stack[1]))
OnlyJsonIsRead ==
  text # NoText /\ ParseDocument(text).ok =>
    LET v == ParseDocument(text).value
    IN  Written(v) /\ Encoded(v) = Plain(text)
ParserAndEncoderAgree == WrittenIsReadBack /\ OnlyJsonIsRead

\* "A canonical, bounded exact QJson conversion must never be more permissive
\* than the byte encoder": what it converts can be written, and comes back
\* from Qt's values as a value that is converted the same way; it takes each
\* number as just the integer that it is, if it is one in range.
ConversionIsExact ==
  \A i \in DOMAIN stack :
    LET v == stack[i]
    IN  /\ v.kind # "undefined" /\ ToExactQJson(v) =>
             Written(v) /\ ToExactQJson(FromQJson(v)) /\ FromQJson(FromQJson(v)) = FromQJson(v)
        /\ v.kind = "number" =>
             /\ ToExactInt64(v.number) = ExactInteger(v.number)
             /\ ToInt64(v.number) \in {{}, ExactInteger(v.number)}
             /\ \A n \in ExactInteger(v.number) : ToInt64(FromInt64(n)) = {n}
=============================================================================
