----------------------------- MODULE OneAnswer -----------------------------
(***************************************************************************)
(* What each asynchronous client of the program promises its callers: a    *)
(* call is answered once, after it was issued, unless it is withdrawn      *)
(* first, by its caller or with the client itself.                         *)
(***************************************************************************)
CONSTANTS Calls, Outcomes, NoOutcome,
          AtOnce     \* whether a call may be answered before it returns

VARIABLES phase,    \* of each call: unused, open, answered or withdrawn
          outcome   \* what its callback was given

vars == <<phase, outcome>>

Init ==
  /\ phase = [c \in Calls |-> "unused"]
  /\ outcome = [c \in Calls |-> NoOutcome]

\* What a slot may do with one call; a slot may concern several: all that
\* wait for the same thing, or one that is answered and calls again.
Keep(c) == phase'[c] = phase[c] /\ outcome'[c] = outcome[c]

Issue(c) ==
  /\ phase[c] = "unused" /\ phase'[c] = "open"
  /\ outcome'[c] = outcome[c]

Answer(c) ==
  /\ phase[c] = "open" \/ (AtOnce /\ phase[c] = "unused")
  /\ phase'[c] = "answered"
  /\ outcome'[c] \in Outcomes

Withdraw(c) ==
  /\ phase[c] = "open" /\ phase'[c] = "withdrawn"
  /\ outcome'[c] = outcome[c]

Next ==
  /\ phase' \in [Calls -> {"unused", "open", "answered", "withdrawn"}]
  /\ outcome' \in [Calls -> Outcomes \cup {NoOutcome}]
  /\ \A c \in Calls : Keep(c) \/ Issue(c) \/ Answer(c) \/ Withdraw(c)

Spec == Init /\ [][Next]_vars

\* No caller waits for ever.
EveryCallSettles ==
  \A c \in Calls :
    phase[c] = "open" ~> phase[c] \in {"answered", "withdrawn"}

\* What a client implements that answers each call once, in the end.
Promise == Spec /\ EveryCallSettles
=============================================================================
