---------------------------- MODULE InputMapper ----------------------------
(***************************************************************************)
(* Which command a key is bound to, and what a press, a repeat or a        *)
(* release of it produces.  A binding is of a key with its modifiers; a    *)
(* hold is of the key alone, and keeps the command of its press.           *)
(***************************************************************************)
CONSTANTS
  Keys, Modifiers, Plain,   \* Plain: no modifier is down
  ReservedKeys,             \* Escape, Back and Menu
  Commands,
  Defaults,                 \* the bindings a new mapper has
  Unbound, Unarmed, Up

PhysicalKeys == Keys \X Modifiers
Reserved == ReservedKeys \X {Plain}

Bindings == [PhysicalKeys -> Commands \cup {Unbound}]

ASSUME PlainAssumption == Plain \in Modifiers
ASSUME ReservedAssumption == ReservedKeys \subseteq Keys
ASSUME DefaultsAssumption ==
  /\ Defaults \in Bindings
  /\ \A p \in Reserved : Defaults[p] # Unbound
ASSUME NoCommandAssumption ==
  Unbound \notin Commands /\ Unarmed \notin Commands /\ Up \notin Commands
    /\ Unarmed # Up /\ Up \notin Keys

VARIABLES
  bindings,   \* bindings_
  held        \* heldKeys_: Up, or the command its press was bound to

MapperInit == bindings = Defaults /\ held = [k \in Keys |-> Up]

AllUp == [k \in Keys |-> Up]
ClearHeldKeys == held' = AllUp

Remap(p, c) ==
  /\ p \notin Reserved
  /\ bindings[p] \in {Unbound, c}
  /\ bindings' = [bindings EXCEPT ![p] = c]
  /\ UNCHANGED held

Unbind(p) ==
  /\ p \notin Reserved
  /\ bindings[p] # Unbound
  /\ bindings' = [bindings EXCEPT ![p] = Unbound]
  /\ UNCHANGED held

ResetToDefaults == bindings' = Defaults /\ ClearHeldKeys

-----------------------------------------------------------------------------
(* processKey(), for a key that is held as h                               *)

IsHeld(h) == h # Up
IsArmed(h) == h \in Commands

Nothing == [phase |-> "none", command |-> Unbound]
Produces(phase, c) == [phase |-> phase, command |-> c]

\* Mutant: the binding is looked up again with every event.
OutcomeOfBinding(p, transition, h) ==
  CASE bindings[p] = Unbound -> Nothing
    [] transition = "press" /\ ~IsHeld(h) -> Produces("pressed", bindings[p])
    [] transition = "repeat" /\ IsHeld(h) -> Produces("repeated", bindings[p])
    [] transition \in {"release", "repeatedRelease"} /\ IsHeld(h) ->
         Produces("released", bindings[p])
    [] OTHER -> Nothing

\* A second press without a release between them produces nothing.  A release
\* is one whether or not it is part of a repetition.
Outcome(p, transition, h) ==
  CASE transition = "press" /\ ~IsHeld(h) /\ bindings[p] # Unbound ->
         Produces("pressed", bindings[p])
    [] transition = "repeat" /\ IsArmed(h) -> Produces("repeated", h)
    [] transition \in {"release", "repeatedRelease"} /\ IsArmed(h) ->
         Produces("released", h)
    [] OTHER -> Nothing

HoldAfter(p, transition, h) ==
  CASE transition = "press" /\ ~IsHeld(h) ->
         IF bindings[p] = Unbound THEN Unarmed ELSE bindings[p]
    [] transition \in {"release", "repeatedRelease"} -> Up
    [] OTHER -> h
=============================================================================
