------------------------------ MODULE MCInput ------------------------------
(* The router, with one key that is reserved and one that is not; and, in  *)
(* behaviours of its own, the focus, with two nodes of which one changes   *)
(* between two zones and has a neighbour that is never registered.         *)
EXTENDS InputRouter, FocusController

CONSTANTS back, letter, control, cancel, act,
          a, b, c, board, hand

MCDefaults ==
  [p \in {back, letter} \X {Plain, control} |->
     CASE p = <<back, Plain>> -> cancel
       [] p = <<letter, Plain>> -> act
       [] OTHER -> Unbound]

At(id, zone, up, right) ==
  [id |-> id, zone |-> zone,
   neighbors |-> [d \in {"up", "down", "left", "right"} |->
                    CASE d = "up" -> up [] d = "right" -> right [] OTHER -> None]]

MCSpecs == {At(a, board, None, b), At(b, board, c, None), At(b, hand, None, None)}

InputInit == Init /\ FocusInit
InputNext ==
  \/ FocusInit /\ Next /\ UNCHANGED focusVars
  \/ Init /\ FocusNext /\ UNCHANGED vars
InputSpec == InputInit /\ [][InputNext]_<<vars, focusVars>>
=============================================================================
