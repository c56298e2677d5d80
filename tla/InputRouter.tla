---------------------------- MODULE InputRouter ----------------------------
(***************************************************************************)
(* The event filter that turns the key events of one window into commands. *)
(* It consumes the events of keys that are bound, and lets all pass while  *)
(* text is being entered.  Keys go up and down unseen when the window does *)
(* not have the focus, and the object that has the focus inside the window *)
(* takes text, or not, without the filter being told.                      *)
(***************************************************************************)
EXTENDS InputMapper

CONSTANTS Targets, NoTarget
ASSUME NoTargetAssumption == NoTarget \notin Targets

VARIABLES
  target,       \* installedTarget_
  explicitly, automatic,   \* whether text entry is declared, or detected
  suspended,    \* effectiveSuspended_
  destroyed,
  \* what the filter is not told
  active,       \* whether the events of keys reach the window
  textFocus,    \* whether the object that has the focus takes text
  down,         \* the keys that are down
  \* what became of it
  stroke,       \* per key: of the press of the keystroke it is in, and whether
                \* the mapper has cut the keystroke short since
  last          \* of the event just handled

settings == <<explicitly, automatic>>
environment == <<active, textFocus, down>>
vars == <<bindings, held, target, settings, suspended, destroyed, environment,
          stroke, last>>

Strokes == [seen : BOOLEAN, cut : BOOLEAN, consumed : BOOLEAN,
            command : Commands \cup {Unbound}]
NoStroke == [seen |-> FALSE, cut |-> FALSE, consumed |-> FALSE, command |-> Unbound]
Cut(s) == [s EXCEPT !.cut = s.seen]
NoStrokes == [k \in Keys |-> NoStroke]
NoEvent == [key |-> Up, consumed |-> FALSE, output |-> Nothing]

Init ==
  /\ MapperInit
  /\ target = NoTarget /\ destroyed = FALSE
  /\ explicitly = FALSE /\ automatic = TRUE /\ suspended = FALSE
  /\ active = TRUE /\ textFocus = FALSE /\ down = {}
  /\ stroke = NoStrokes /\ last = NoEvent

\* From here on no key that is down is followed any more: its release may be
\* lost, or is somebody else's.
Forget == ClearHeldKeys /\ stroke' = NoStrokes

-----------------------------------------------------------------------------
(* Bindings, and the window that is watched                                *)

\* A reset forgets the holds of keys that are still down.
Rebind ==
  /\ \/ /\ \E p \in PhysicalKeys : Unbind(p) \/ \E c \in Commands : Remap(p, c)
        /\ UNCHANGED stroke
     \/ ResetToDefaults /\ stroke' = [k \in Keys |-> Cut(stroke[k])]
  /\ last' = NoEvent
  /\ UNCHANGED <<target, settings, suspended, destroyed, environment>>

\* Mutant: the holds are cleared only if there is a window to leave.
InstallAnew(t) ==
  /\ ~destroyed /\ target # t
  /\ IF target = NoTarget THEN UNCHANGED <<held, stroke>> ELSE Forget
  /\ target' = t
  /\ last' = NoEvent
  /\ UNCHANGED <<bindings, settings, suspended, destroyed, environment>>

Install(t) ==
  /\ ~destroyed /\ target # t
  /\ Forget
  /\ target' = t
  /\ last' = NoEvent
  /\ UNCHANGED <<bindings, settings, suspended, destroyed, environment>>

Uninstall ==
  /\ ~destroyed
  /\ Forget
  /\ target' = NoTarget
  /\ last' = NoEvent
  /\ UNCHANGED <<bindings, settings, suspended, destroyed, environment>>

Destroy ==
  /\ ~destroyed /\ destroyed' = TRUE
  /\ Forget
  /\ target' = NoTarget
  /\ last' = NoEvent
  /\ UNCHANGED <<bindings, settings, suspended, environment>>

\* The window is destroyed, and the guarded pointer is null from then on.
TargetDestroyed ==
  /\ target # NoTarget
  /\ target' = NoTarget
  /\ last' = NoEvent
  /\ UNCHANGED <<bindings, held, settings, suspended, destroyed, environment, stroke>>

-----------------------------------------------------------------------------
(* Text entry                                                              *)

TextEntry(exp, auto) == exp \/ (auto /\ target # NoTarget /\ textFocus)

\* What is held is forgotten when the answer is not what it was.
HoldsAt(now) == IF now = suspended THEN held ELSE AllUp
StrokesAt(now) == IF now = suspended THEN stroke ELSE NoStrokes

SetText(exp, auto) ==
  LET now == TextEntry(exp, auto)
  IN  /\ ~destroyed
      /\ explicitly' = exp /\ automatic' = auto
      /\ suspended' = now
      /\ held' = HoldsAt(now) /\ stroke' = StrokesAt(now)
      /\ last' = NoEvent
      /\ UNCHANGED <<bindings, target, destroyed, environment>>

SetSemanticInputSuspended(on) == SetText(on, automatic)
SetAutomaticTextEntryDetectionEnabled(on) == SetText(explicitly, on)

-----------------------------------------------------------------------------
(* Events                                                                  *)

\* The window loses the focus or is deactivated.
FocusOut ==
  /\ active /\ active' = FALSE
  /\ IF target # NoTarget THEN Forget ELSE UNCHANGED <<held, stroke>>
  /\ last' = NoEvent
  /\ UNCHANGED <<bindings, target, settings, suspended, destroyed, textFocus, down>>

\* Mutant: only the binding of the moment counts.
OwnsIfBound(p, h) == bindings[p] # Unbound

\* Bound when it was pressed or, when it is not held, bound now.
Owns(p, h) == IsArmed(h) \/ (~IsHeld(h) /\ bindings[p] # Unbound)

\* A press that none precedes begins a keystroke, and a release ends it.  One
\* that is marked ends the hold only: the key is still down.
Whole(s) == s.seen /\ ~s.cut
StrokeAfter(transition, event, s) ==
  CASE transition = "press" /\ ~Whole(s) ->
         [seen |-> TRUE, cut |-> FALSE, consumed |-> event.consumed,
          command |-> event.output.command]
    [] transition = "repeatedRelease" -> Cut(s)
    [] transition = "release" -> NoStroke
    [] OTHER -> s

\* Mutant: what was found with the last event.
FoundLast == suspended

\* Asked anew with every key.
FoundNow == TextEntry(explicitly, automatic)

\* While text is entered the event passes.
Filter(p, transition) ==
  LET now == FoundNow
      k == p[1]
      h == HoldsAt(now)[k]
      output == IF now THEN Nothing ELSE Outcome(p, transition, h)
      event == [key |-> k, output |-> output,
                consumed |-> ~now /\ (output # Nothing \/ Owns(p, h))]
  IN  /\ suspended' = now
      /\ held' = IF now THEN HoldsAt(now)
                 ELSE [HoldsAt(now) EXCEPT ![k] = HoldAfter(p, transition, h)]
      /\ last' = event
      /\ stroke' = [StrokesAt(now) EXCEPT ![k] = StrokeAfter(transition, event, @)]

\* A press may be of a key that is down already.  X11 and Wayland repeat a key
\* as a release and a press, both marked.
KeyEvent(p, transition) ==
  /\ target # NoTarget /\ ~destroyed /\ active
  /\ transition # "press" => p[1] \in down
  /\ down' = CASE transition = "press" -> down \cup {p[1]}
               [] transition = "release" -> down \ {p[1]}
               [] OTHER -> down
  /\ Filter(p, transition)
  /\ UNCHANGED <<bindings, target, settings, destroyed, active, textFocus>>

-----------------------------------------------------------------------------
(* What the filter is not told                                             *)

Unseen ==
  /\ \/ ~active /\ active' = TRUE /\ UNCHANGED <<textFocus, down>>
     \/ textFocus' = ~textFocus /\ UNCHANGED <<active, down>>
     \/ /\ ~active \/ target = NoTarget
        /\ \E k \in Keys : down' = IF k \in down THEN down \ {k} ELSE down \cup {k}
        /\ UNCHANGED <<active, textFocus>>
  /\ last' = NoEvent
  /\ UNCHANGED <<bindings, held, target, settings, suspended, destroyed, stroke>>

Transitions == {"press", "repeat", "release", "repeatedRelease"}

Next ==
  \/ Rebind \/ Uninstall \/ Destroy \/ TargetDestroyed
  \/ \E t \in Targets : Install(t)
  \/ \E on \in BOOLEAN : SetSemanticInputSuspended(on)
                           \/ SetAutomaticTextEntryDetectionEnabled(on)
  \/ FocusOut
  \/ \E p \in PhysicalKeys, transition \in Transitions : KeyEvent(p, transition)
  \/ Unseen

Spec == Init /\ [][Next]_vars

-----------------------------------------------------------------------------
(* Properties                                                              *)

TypeOK ==
  /\ bindings \in Bindings
  /\ held \in [Keys -> Commands \cup {Unarmed, Up}]
  /\ target \in Targets \cup {NoTarget}
  /\ explicitly \in BOOLEAN /\ automatic \in BOOLEAN /\ suspended \in BOOLEAN
  /\ destroyed \in BOOLEAN /\ active \in BOOLEAN /\ textFocus \in BOOLEAN
  /\ down \subseteq Keys
  /\ stroke \in [Keys -> Strokes]

\* Why the properties below hold.  A window without the focus has no key held;
\* a key that is held armed was consumed with the command it is armed with, one
\* that is held unarmed was not consumed; and no key is held while suspended.
Watched ==
  target # NoTarget => \A k \in Keys : IsHeld(held[k]) => k \in down /\ active
HoldsAreStrokes ==
  \A k \in Keys :
    /\ IsHeld(held[k]) => Whole(stroke[k])
    /\ IsArmed(held[k]) => stroke[k].command = held[k]
    /\ Whole(stroke[k]) => /\ stroke[k].consumed <=> IsArmed(held[k])
                           /\ ~suspended => IsHeld(held[k])
    /\ suspended => ~IsHeld(held[k])
Holds == TypeOK /\ Watched /\ HoldsAreStrokes

\* No key that is up is taken for held, which would swallow its next press:
\* whatever window was watched when it was released, and whether or not text was
\* entered in between.
HeldKeysAreDown == target # NoTarget => \A k \in Keys : IsHeld(held[k]) => k \in down

\* A Repeated or Released is of the command that the press of the same
\* keystroke produced, though its modifiers and its binding have changed.
PhasesBelongTogether ==
  [][last'.output.phase \in {"repeated", "released"}
       => /\ Whole(stroke[last'.key])
          /\ stroke[last'.key].command = last'.output.command]_vars

\* While the mapper follows a key, which it does until a reset or a release that
\* is marked, its events are consumed exactly if its press was, whatever is
\* bound, unbound or pressed with it meanwhile.  It is the window's keystroke, so
\* that it also ends when the window loses the focus or is left, and when text
\* entry begins or ends.
KeystrokesAreWhole ==
  [][last'.key \in Keys /\ Whole(stroke[last'.key])
       /\ (suspended' = suspended)
       => last'.consumed = stroke[last'.key].consumed]_vars

\* No key is taken from an object that takes text, even the first one after it
\* got the focus.
TextIsNeverTaken ==
  last.consumed => ~explicitly /\ ~(automatic /\ textFocus)

-----------------------------------------------------------------------------
(* What a comment says and the code does not do                            *)

\* The press of an unbound key "was correctly left unconsumed, so its later
\* repeat/release must stay unconsumed too, or downstream code would observe a
\* press with no matching release".
PassedPressHasItsRelease ==
  [][LET k == last'.key
     IN  k \in Keys /\ stroke[k].seen /\ ~stroke[k].consumed
           /\ (suspended' = suspended) /\ last'.output = Nothing
           => ~last'.consumed]_vars
=============================================================================
