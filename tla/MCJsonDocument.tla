--------------------------- MODULE MCJsonDocument ---------------------------
(* JsonDocument with strings at and beyond the limit, and with broken ones. *)
EXTENDS JsonDocument

MCTexts == {<<"a">>, <<"hi", "lo">>, <<"newline", "a">>, <<"lo", "hi">>, <<"a", "a", "a">>}
MCKeyTexts == {<<"a">>, <<"lo", "hi">>, <<"a", "a">>, <<"a", "a", "a">>}
MCNumbers == {Bare(FALSE, <<1>>),
              [negative |-> TRUE, int |-> <<0>>, frac |-> <<1>>,
               exp |-> [sign |-> "-", digits |-> <<1>>]]}
MCBytes == {",", "]", "}", "[", "{", "\"", ":", "1", "0", " ", "\\", "u:lo", "astral", "e", "-"}
MCFillers == {Null}
=============================================================================
