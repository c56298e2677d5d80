---------------------------- MODULE InputProofs ----------------------------
(***************************************************************************)
(* For any keys, bindings and windows: what is held is down, a keystroke   *)
(* is one thing as long as the mapper follows its key, and no key is taken *)
(* from an object that takes text.  For any nodes, zones and specs: the    *)
(* focus, the memory of the zones and the modals never lead to a node that *)
(* is not there, and a snapshot loses nothing of what still is.            *)
(***************************************************************************)
EXTENDS InputRouter, FocusController, PicksProofs

-----------------------------------------------------------------------------
(* The input router                                                        *)

HeldMaps == [Keys -> Commands \cup {Unarmed, Up}]

\* Forgetting all keys satisfies everything that is said of them.
LEMMA ForgottenHolds ==
  ASSUME held' = AllUp, stroke' = NoStrokes
  PROVE  /\ held' \in HeldMaps /\ stroke' \in [Keys -> Strokes]
         /\ \A k \in Keys : ~IsHeld(held'[k])
         /\ HoldsAreStrokes'
BY NoCommandAssumption
   DEF AllUp, NoStrokes, NoStroke, Strokes, Whole, HeldMaps, HoldsAreStrokes, IsHeld,
       IsArmed

\* What was said of a key and of its keystroke, when text entry was or was not
\* noticed.
Fits(h, s, sus) ==
  /\ IsHeld(h) => Whole(s)
  /\ IsArmed(h) => s.command = h
  /\ Whole(s) => /\ s.consumed <=> IsArmed(h)
                 /\ ~sus => IsHeld(h)
  /\ sus => ~IsHeld(h)

\* A keystroke that is cut short is none that a hold has to be of.
LEMMA CutStroke ==
  ASSUME NEW s \in Strokes
  PROVE  Cut(s) \in Strokes /\ ~Whole(Cut(s))
BY DEF Cut, Whole, Strokes

\* A step that changes neither keys nor strokes, the window or the flag.
LEMMA KeptHolds ==
  ASSUME Holds, UNCHANGED <<held, stroke, suspended>>
  PROVE  /\ held' \in HeldMaps /\ stroke' \in [Keys -> Strokes]
         /\ HoldsAreStrokes'
BY DEF Holds, TypeOK, HeldMaps, HoldsAreStrokes

\* Either of the two, when the answer about text entry may have changed.
LEMMA RefreshedHolds ==
  ASSUME Holds, NEW now \in BOOLEAN
  PROVE  /\ HoldsAt(now) \in HeldMaps /\ StrokesAt(now) \in [Keys -> Strokes]
         /\ \A k \in Keys : /\ Fits(HoldsAt(now)[k], StrokesAt(now)[k], now)
                            /\ IsHeld(HoldsAt(now)[k]) => IsHeld(held[k])
<1>1. CASE now = suspended
  BY <1>1 DEF Holds, TypeOK, HoldsAreStrokes, Fits, HoldsAt, StrokesAt, HeldMaps
<1>2. CASE now # suspended
  BY <1>2, NoCommandAssumption
     DEF Fits, HoldsAt, StrokesAt, HeldMaps, AllUp, NoStrokes, NoStroke, Strokes,
         Whole, IsHeld, IsArmed
<1> QED BY <1>1, <1>2

\* One key event that is not for text.
LEMMA EventFits ==
  ASSUME NEW p \in PhysicalKeys, NEW transition \in Transitions, bindings \in Bindings,
         NEW h \in Commands \cup {Unarmed, Up}, NEW s \in Strokes, Fits(h, s, FALSE),
         NEW event, event.output = Outcome(p, transition, h),
         event.consumed = (event.output # Nothing \/ Owns(p, h))
  PROVE  /\ HoldAfter(p, transition, h) \in Commands \cup {Unarmed, Up}
         /\ StrokeAfter(transition, event, s) \in Strokes
         /\ Fits(HoldAfter(p, transition, h), StrokeAfter(transition, event, s), FALSE)
         /\ IsHeld(HoldAfter(p, transition, h)) => IsHeld(h) \/ transition = "press"
         /\ transition = "release" => ~IsHeld(HoldAfter(p, transition, h))
<1>1. bindings[p] \in Commands \cup {Unbound}
  BY DEF Bindings
<1>2. CASE transition = "press" /\ ~IsHeld(h)
  <2>1. HoldAfter(p, transition, h) = IF bindings[p] = Unbound THEN Unarmed ELSE bindings[p]
    BY <1>2 DEF HoldAfter
  <2>2. ~Whole(s)
    BY <1>2 DEF Fits
  <2>3. event.output = IF bindings[p] = Unbound THEN Nothing
                       ELSE Produces("pressed", bindings[p])
    BY <1>2 DEF Outcome, IsArmed, IsHeld
  <2>4. event.output.command = bindings[p]
    BY <2>3 DEF Nothing, Produces
  <2>5. Owns(p, h) <=> bindings[p] # Unbound
    BY <1>2, NoCommandAssumption DEF Owns, IsArmed, IsHeld
  <2>6. event.output # Nothing <=> bindings[p] # Unbound
    BY <2>3 DEF Nothing, Produces
  <2>7. event.consumed = (bindings[p] # Unbound)
    BY <2>5, <2>6
  <2>8. StrokeAfter(transition, event, s)
          = [seen |-> TRUE, cut |-> FALSE, consumed |-> event.consumed,
             command |-> bindings[p]]
    BY <1>2, <2>2, <2>4 DEF StrokeAfter
  <2>9. CASE bindings[p] = Unbound
    <3>1. ~IsArmed(Unarmed) /\ IsHeld(Unarmed) /\ transition # "release"
      BY <1>2, NoCommandAssumption DEF IsArmed, IsHeld
    <3>2. HoldAfter(p, transition, h) = Unarmed
      BY <2>1, <2>9
    <3>3. event.consumed = FALSE
      BY <2>7, <2>9
    <3>4. /\ StrokeAfter(transition, event, s) \in Strokes
          /\ StrokeAfter(transition, event, s).consumed = FALSE
          /\ Whole(StrokeAfter(transition, event, s))
      BY <1>1, <2>8, <3>3 DEF Strokes, Whole
    <3> QED BY <1>2, <3>1, <3>2, <3>4 DEF Fits
  <2>10. CASE bindings[p] \in Commands
    <3>1. IsArmed(bindings[p]) /\ IsHeld(bindings[p]) /\ transition # "release"
      BY <1>2, <2>10, NoCommandAssumption DEF IsArmed, IsHeld
    <3>2. HoldAfter(p, transition, h) = bindings[p]
      BY <2>1, <2>10, NoCommandAssumption
    <3>3. event.consumed = TRUE
      BY <2>7, <2>10, NoCommandAssumption
    <3>4. /\ StrokeAfter(transition, event, s) \in Strokes
          /\ StrokeAfter(transition, event, s).consumed = TRUE
          /\ Whole(StrokeAfter(transition, event, s))
          /\ StrokeAfter(transition, event, s).command = bindings[p]
      BY <1>1, <2>8, <3>3 DEF Strokes, Whole
    <3> QED BY <1>2, <2>10, <3>1, <3>2, <3>4 DEF Fits
  <2> QED BY <1>1, <2>9, <2>10
<1>3. CASE transition = "press" /\ IsHeld(h)
  <2>1. HoldAfter(p, transition, h) = h
    BY <1>3 DEF HoldAfter
  <2>2. StrokeAfter(transition, event, s) = s
    BY <1>3 DEF StrokeAfter, Fits
  <2> QED BY <1>3, <2>1, <2>2
<1>4. CASE transition \in {"release", "repeatedRelease"}
  <2>1. HoldAfter(p, transition, h) = Up /\ ~IsHeld(Up) /\ ~IsArmed(Up)
    BY <1>4, NoCommandAssumption DEF HoldAfter, IsArmed, IsHeld
  <2>2. /\ StrokeAfter(transition, event, s) \in Strokes
        /\ ~Whole(StrokeAfter(transition, event, s))
    <3>1. NoStroke \in Strokes /\ ~Whole(NoStroke)
      BY DEF NoStroke, Strokes, Whole
    <3>2. StrokeAfter(transition, event, s) \in {Cut(s), NoStroke}
      BY <1>4 DEF StrokeAfter
    <3> QED BY <3>1, <3>2, CutStroke
  <2> QED BY <1>4, <2>1, <2>2 DEF Fits
<1>5. CASE transition = "repeat"
  BY <1>5 DEF HoldAfter, StrokeAfter
<1> QED BY <1>2, <1>3, <1>4, <1>5 DEF Transitions

-----------------------------------------------------------------------------
(* The steps                                                               *)

\* A key event, with text entry as it is now.
LEMMA KeyStep ==
  ASSUME Holds, NEW p \in PhysicalKeys, NEW transition \in Transitions,
         KeyEvent(p, transition)
  PROVE  Holds'
<1> DEFINE now == TextEntry(explicitly, automatic)
           k == p[1]
           h == HoldsAt(now)
           t == StrokesAt(now)
           output == IF now THEN Nothing ELSE Outcome(p, transition, h[k])
           event == [key |-> k, output |-> output,
                     consumed |-> ~now /\ (output # Nothing \/ Owns(p, h[k]))]
<1>1. now \in BOOLEAN /\ k \in Keys
  BY DEF Holds, TypeOK, TextEntry, PhysicalKeys
<1>2. /\ h \in HeldMaps /\ t \in [Keys -> Strokes]
      /\ \A j \in Keys : Fits(h[j], t[j], now) /\ (IsHeld(h[j]) => IsHeld(held[j]))
  BY <1>1, RefreshedHolds
<1>3. /\ suspended' = now
      /\ held' = IF now THEN h ELSE [h EXCEPT ![k] = HoldAfter(p, transition, h[k])]
      /\ stroke' = [t EXCEPT ![k] = StrokeAfter(transition, event, t[k])]
  BY DEF KeyEvent, Filter, FoundNow
<1>4. /\ target # NoTarget /\ active = TRUE
      /\ UNCHANGED <<bindings, target, explicitly, automatic, destroyed, active, textFocus>>
      /\ transition # "press" => k \in down
      /\ down' = CASE transition = "press" -> down \cup {k}
                   [] transition = "release" -> down \ {k}
                   [] OTHER -> down
  BY DEF KeyEvent, settings, Holds, TypeOK
<1>5. down' \subseteq Keys
  BY <1>1, <1>4 DEF Holds, TypeOK
<1>6. \A j \in Keys : IsHeld(h[j]) => j \in down
  BY <1>2, <1>4 DEF Holds, Watched
<1>7. CASE now
  <2>1. held' = h /\ \A j \in Keys : ~IsHeld(h[j])
    BY <1>2, <1>3, <1>7 DEF Fits
  <2>2. event.consumed = FALSE /\ event.output.command = Unbound
    BY <1>7 DEF Nothing
  <2>3. \A j \in Keys : Whole(t[j]) => t[j].consumed = FALSE
    BY <1>2, <2>1, NoCommandAssumption DEF Fits, IsArmed, IsHeld, Strokes
  <2>4. /\ StrokeAfter(transition, event, t[k]) \in Strokes
        /\ Whole(StrokeAfter(transition, event, t[k]))
             => StrokeAfter(transition, event, t[k]).consumed = FALSE
    <3>1. t[k] \in Strokes /\ (Whole(t[k]) => t[k].consumed = FALSE)
      BY <1>1, <1>2, <2>3
    <3> HIDE DEF t, k, event
    <3>2. CASE transition = "press" /\ ~Whole(t[k])
      BY <2>2, <3>2 DEF StrokeAfter, Strokes
    <3>3. CASE transition \in {"release", "repeatedRelease"}
      <4>1. NoStroke \in Strokes /\ ~Whole(NoStroke)
        BY DEF NoStroke, Strokes, Whole
      <4>2. StrokeAfter(transition, event, t[k]) \in {Cut(t[k]), NoStroke}
        BY <3>3 DEF StrokeAfter
      <4> QED BY <3>1, <4>1, <4>2, CutStroke
    <3>4. CASE /\ ~(transition = "press" /\ ~Whole(t[k]))
               /\ transition \notin {"release", "repeatedRelease"}
      BY <3>1, <3>4 DEF StrokeAfter
    <3> QED BY <3>2, <3>3, <3>4
  <2>5. /\ stroke' \in [Keys -> Strokes]
        /\ \A j \in Keys : Whole(stroke'[j]) => stroke'[j].consumed = FALSE
    BY <1>1, <1>2, <1>3, <2>3, <2>4
  <2>6. HoldsAreStrokes'
    BY <1>3, <1>7, <2>1, <2>5, NoCommandAssumption DEF HoldsAreStrokes, IsArmed, IsHeld
  <2>7. TypeOK'
    BY <1>1, <1>2, <1>3, <1>4, <1>5, <2>1, <2>5 DEF Holds, TypeOK, HeldMaps
  <2> QED BY <2>1, <2>6, <2>7 DEF Holds, Watched
<1>8. CASE ~now
  <2>1. /\ HoldAfter(p, transition, h[k]) \in Commands \cup {Unarmed, Up}
        /\ StrokeAfter(transition, event, t[k]) \in Strokes
        /\ Fits(HoldAfter(p, transition, h[k]), StrokeAfter(transition, event, t[k]), FALSE)
        /\ IsHeld(HoldAfter(p, transition, h[k])) => IsHeld(h[k]) \/ transition = "press"
        /\ transition = "release" => ~IsHeld(HoldAfter(p, transition, h[k]))
    <3>1. /\ event.output = Outcome(p, transition, h[k])
          /\ event.consumed = (event.output # Nothing \/ Owns(p, h[k]))
      BY <1>8
    <3>2. /\ h[k] \in Commands \cup {Unarmed, Up} /\ t[k] \in Strokes
          /\ Fits(h[k], t[k], FALSE) /\ bindings \in Bindings
      BY <1>1, <1>2, <1>8 DEF HeldMaps, Fits, Holds, TypeOK
    <3> HIDE DEF h, t, k, event
    <3> QED BY <3>1, <3>2, EventFits
  <2>2. /\ held' \in HeldMaps /\ stroke' \in [Keys -> Strokes]
        /\ \A j \in Keys : Fits(held'[j], stroke'[j], FALSE)
    <3> HIDE DEF h, t, k, event, now
    <3> QED BY <1>1, <1>2, <1>3, <1>8, <2>1 DEF HeldMaps, Fits
  <2>3. \A j \in Keys : IsHeld(held'[j]) => j \in down'
    <3> TAKE j \in Keys
    <3>1. CASE j = k
      BY <1>1, <1>2, <1>3, <1>4, <1>6, <1>8, <2>1, <3>1 DEF HeldMaps, Transitions
    <3>2. CASE j # k
      BY <1>2, <1>3, <1>4, <1>6, <1>8, <3>2 DEF HeldMaps, Transitions
    <3> QED BY <3>1, <3>2
  <2>4. HoldsAreStrokes'
    BY <1>3, <1>8, <2>2 DEF HoldsAreStrokes, Fits
  <2>5. TypeOK'
    BY <1>1, <1>3, <1>4, <1>5, <2>2 DEF Holds, TypeOK, HeldMaps
  <2> QED BY <1>4, <2>3, <2>4, <2>5 DEF Holds, Watched
<1> QED BY <1>7, <1>8

\* All that forgets the keys: the window changes or loses the focus.
LEMMA ForgetStep ==
  ASSUME Holds, Forget, bindings' \in Bindings, target' \in Targets \cup {NoTarget},
         explicitly' \in BOOLEAN, automatic' \in BOOLEAN, suspended' \in BOOLEAN,
         destroyed' \in BOOLEAN, active' \in BOOLEAN, textFocus' \in BOOLEAN,
         down' \subseteq Keys
  PROVE  Holds'
<1>1. held' = AllUp /\ stroke' = NoStrokes
  BY DEF Forget, ClearHeldKeys
<1> QED BY <1>1, ForgottenHolds DEF Holds, TypeOK, HeldMaps, Watched

\* All that leaves the keys as they are, and the window if there is one.
LEMMA KeepStep ==
  ASSUME Holds, UNCHANGED <<held, stroke, suspended, explicitly, automatic, destroyed>>,
         bindings' \in Bindings, target' \in {target, NoTarget},
         active' \in BOOLEAN, textFocus' \in BOOLEAN, down' \subseteq Keys,
         target' # NoTarget => (active => active') /\ (active => down' = down)
  PROVE  Holds'
<1>1. TypeOK' /\ HoldsAreStrokes'
  BY KeptHolds DEF Holds, TypeOK, HeldMaps
<1>2. Watched'
  BY DEF Holds, Watched
<1> QED BY <1>1, <1>2 DEF Holds

\* A new binding.
LEMMA RebindStep == ASSUME Holds, Rebind PROVE Holds'
<1>1. UNCHANGED <<target, explicitly, automatic, suspended, destroyed, active,
                  textFocus, down>>
  BY DEF Rebind, settings, environment
<1>2. bindings' \in Bindings
  BY DefaultsAssumption
     DEF Rebind, Unbind, Remap, ResetToDefaults, Bindings, Holds, TypeOK
<1>3. CASE UNCHANGED <<held, stroke>>
  BY <1>1, <1>2, <1>3, KeepStep DEF Holds, TypeOK
<1>4. CASE held' = AllUp /\ stroke' = [k \in Keys |-> Cut(stroke[k])]
  <2>1. held' \in HeldMaps /\ \A k \in Keys : ~IsHeld(held'[k]) /\ ~IsArmed(held'[k])
    BY <1>4, NoCommandAssumption DEF AllUp, HeldMaps, IsHeld, IsArmed
  <2>2. stroke' \in [Keys -> Strokes] /\ \A k \in Keys : ~Whole(stroke'[k])
    BY <1>4, CutStroke DEF Holds, TypeOK
  <2>3. HoldsAreStrokes'
    BY <2>1, <2>2 DEF HoldsAreStrokes
  <2>4. TypeOK' /\ Watched'
    BY <1>1, <1>2, <2>1, <2>2 DEF Holds, TypeOK, HeldMaps, Watched
  <2> QED BY <2>3, <2>4 DEF Holds
<1> QED BY <1>3, <1>4 DEF Rebind, Unbind, Remap, ResetToDefaults, ClearHeldKeys

\* Text entry that begins or ends, as far as the filter is told.
LEMMA TextStep ==
  ASSUME Holds, NEW exp \in BOOLEAN, NEW auto \in BOOLEAN, SetText(exp, auto)
  PROVE  Holds'
<1> DEFINE now == TextEntry(exp, auto)
<1>1. now \in BOOLEAN
  BY DEF TextEntry, Holds, TypeOK
<1>2. /\ HoldsAt(now) \in HeldMaps /\ StrokesAt(now) \in [Keys -> Strokes]
      /\ \A k \in Keys : /\ Fits(HoldsAt(now)[k], StrokesAt(now)[k], now)
                         /\ IsHeld(HoldsAt(now)[k]) => IsHeld(held[k])
  BY <1>1, RefreshedHolds
<1>3. /\ held' = HoldsAt(now) /\ stroke' = StrokesAt(now) /\ suspended' = now
      /\ explicitly' = exp /\ automatic' = auto
      /\ UNCHANGED <<bindings, target, destroyed, active, textFocus, down>>
  BY DEF SetText, environment
<1> HIDE DEF now
<1>4. TypeOK'
  BY <1>1, <1>2, <1>3 DEF Holds, TypeOK, HeldMaps
<1>5. Watched' /\ HoldsAreStrokes'
  BY <1>2, <1>3 DEF Holds, Watched, HoldsAreStrokes, Fits
<1> QED BY <1>4, <1>5 DEF Holds

\* The inductive invariant.
THEOREM HoldsInvariant == Spec => []Holds
<1>1. Init => Holds
  <2> SUFFICES ASSUME Init PROVE Holds
    OBVIOUS
  <2>1. held = AllUp /\ stroke = NoStrokes
    BY DEF Init, MapperInit, AllUp
  <2>2. TypeOK
    <3>1. NoStroke \in Strokes
      BY DEF NoStroke, Strokes
    <3>2. held \in [Keys -> Commands \cup {Unarmed, Up}] /\ stroke \in [Keys -> Strokes]
      BY <2>1, <3>1 DEF AllUp, NoStrokes
    <3> QED BY <3>2, DefaultsAssumption DEF Init, MapperInit, TypeOK
  <2>3. Watched /\ HoldsAreStrokes
    BY <2>1, NoCommandAssumption
       DEF Watched, HoldsAreStrokes, AllUp, NoStrokes, NoStroke, Whole, IsHeld, IsArmed
  <2> QED BY <2>2, <2>3 DEF Holds
<1>2. Holds /\ [Next]_vars => Holds'
  <2> SUFFICES ASSUME Holds, [Next]_vars PROVE Holds'
    OBVIOUS
  <2> USE DEF settings, environment
  <2>1. CASE Rebind
    BY <2>1, RebindStep
  <2>2. CASE Uninstall
    BY <2>2, ForgetStep DEF Uninstall, Holds, TypeOK
  <2>3. CASE Destroy
    BY <2>3, ForgetStep DEF Destroy, Holds, TypeOK
  <2>4. CASE TargetDestroyed
    BY <2>4, KeepStep DEF TargetDestroyed, Holds, TypeOK
  <2>5. ASSUME NEW t \in Targets, Install(t) PROVE Holds'
    BY <2>5, ForgetStep DEF Install, Holds, TypeOK
  <2>6. ASSUME NEW on \in BOOLEAN,
               SetSemanticInputSuspended(on) \/ SetAutomaticTextEntryDetectionEnabled(on)
        PROVE  Holds'
    BY <2>6, TextStep DEF SetSemanticInputSuspended, SetAutomaticTextEntryDetectionEnabled,
                          Holds, TypeOK
  <2>7. CASE FocusOut
    <3>1. CASE target # NoTarget
      BY <2>7, <3>1, ForgetStep DEF FocusOut, Holds, TypeOK
    <3>2. CASE target = NoTarget
      BY <2>7, <3>2, KeepStep DEF FocusOut, Holds, TypeOK
    <3> QED BY <3>1, <3>2
  <2>8. ASSUME NEW p \in PhysicalKeys, NEW transition \in Transitions,
               KeyEvent(p, transition)
        PROVE  Holds'
    BY <2>8, KeyStep
  <2>9. CASE Unseen
    <3>1. /\ UNCHANGED <<bindings, held, target, explicitly, automatic, suspended,
                          destroyed, stroke>>
          /\ active' \in BOOLEAN /\ textFocus' \in BOOLEAN
      BY <2>9 DEF Unseen, Holds, TypeOK
    <3>2. down' \subseteq Keys
      BY <2>9 DEF Unseen, Holds, TypeOK
    <3>3. target # NoTarget => (active => active') /\ (active => down' = down)
      BY <2>9 DEF Unseen
    <3> QED BY <3>1, <3>2, <3>3, KeepStep DEF Holds, TypeOK
  <2>10. CASE UNCHANGED vars
    BY <2>10, KeepStep DEF vars, Holds, TypeOK
  <2> QED BY <2>1, <2>2, <2>3, <2>4, <2>5, <2>6, <2>7, <2>8, <2>9, <2>10 DEF Next
<1> QED BY <1>1, <1>2, PTL DEF Spec

\* A key that the mapper takes for held in the window that is watched is down,
\* so that no press is swallowed for a release that was not seen.
THEOREM NoStaleHold == Spec => []HeldKeysAreDown
<1>1. Holds => HeldKeysAreDown
  BY DEF Holds, Watched, HeldKeysAreDown
<1> QED BY <1>1, HoldsInvariant, PTL

\* What a keystroke produces is of one command, and it is consumed as a whole.
LEMMA EventOfStroke ==
  ASSUME Holds, NEW p \in PhysicalKeys, NEW transition \in Transitions,
         KeyEvent(p, transition)
  PROVE  /\ last'.output.phase \in {"repeated", "released"}
              => /\ Whole(stroke[last'.key])
                 /\ stroke[last'.key].command = last'.output.command
         /\ Whole(stroke[last'.key]) /\ suspended' = suspended
              => last'.consumed = stroke[last'.key].consumed
<1> DEFINE now == TextEntry(explicitly, automatic)
           k == p[1]
           h == HoldsAt(now)[k]
           output == IF now THEN Nothing ELSE Outcome(p, transition, h)
<1>1. /\ last'.key = k /\ last'.output = output /\ suspended' = now
      /\ last'.consumed = (~now /\ (output # Nothing \/ Owns(p, h)))
  BY DEF KeyEvent, Filter, FoundNow
<1>2. k \in Keys /\ stroke[k] \in Strokes
  BY DEF Holds, TypeOK, PhysicalKeys
<1>3. h = held[k] \/ h = Up
  BY <1>2 DEF HoldsAt, AllUp
<1>4. /\ IsHeld(held[k]) => Whole(stroke[k])
      /\ IsArmed(held[k]) => IsHeld(held[k]) /\ stroke[k].command = held[k]
      /\ Whole(stroke[k]) => /\ stroke[k].consumed <=> IsArmed(held[k])
                             /\ ~suspended => IsHeld(held[k])
      /\ suspended => ~IsHeld(held[k])
  BY <1>2, NoCommandAssumption DEF Holds, HoldsAreStrokes, IsHeld, IsArmed
<1> HIDE DEF k, h
<1>5. ASSUME output.phase \in {"repeated", "released"}
      PROVE  IsArmed(h) /\ output.command = h
  BY <1>5 DEF Outcome, Nothing, Produces
<1>6. ASSUME output.phase \in {"repeated", "released"}
      PROVE  Whole(stroke[k]) /\ stroke[k].command = output.command
  <2>1. h = held[k]
    BY <1>3, <1>5, <1>6, NoCommandAssumption DEF IsArmed
  <2> QED BY <1>4, <1>5, <1>6, <2>1
<1>7. ASSUME Whole(stroke[k]), now = suspended
      PROVE  stroke[k].consumed = (~now /\ (output # Nothing \/ Owns(p, h)))
  <2>1. h = held[k]
    BY <1>7 DEF h, HoldsAt
  <2>2. CASE now
    <3>1. ~IsArmed(held[k])
      BY <1>4, <1>7, <2>2, NoCommandAssumption DEF IsArmed, IsHeld, Holds, TypeOK
    <3>2. stroke[k].consumed = FALSE
      BY <1>2, <1>4, <1>7, <3>1 DEF Strokes
    <3> QED BY <2>2, <3>2
  <2>3. CASE ~now /\ IsArmed(h)
    <3>1. Owns(p, h)
      BY <2>3 DEF Owns
    <3>2. stroke[k].consumed = TRUE
      BY <1>2, <1>4, <1>7, <2>1, <2>3 DEF Strokes
    <3> QED BY <2>3, <3>1, <3>2
  <2>4. CASE ~now /\ ~IsArmed(h)
    <3>1. IsHeld(h)
      BY <1>4, <1>7, <2>1, <2>4
    <3>2. ~Owns(p, h) /\ output = Nothing
      BY <2>4, <3>1 DEF Owns, Outcome
    <3>3. stroke[k].consumed = FALSE
      BY <1>2, <1>4, <1>7, <2>1, <2>4 DEF Strokes
    <3> QED BY <2>4, <3>2, <3>3
  <2> QED BY <2>2, <2>3, <2>4
<1> QED BY <1>1, <1>6, <1>7

\* Steps that are no key events leave nothing to be said of one.
LEMMA NoEventOfStroke ==
  ASSUME Next, ~\E p \in PhysicalKeys, transition \in Transitions : KeyEvent(p, transition)
  PROVE  last' = NoEvent
BY DEF Next, Rebind, Uninstall, Destroy, TargetDestroyed, Install, FocusOut, Unseen,
       SetSemanticInputSuspended, SetAutomaticTextEntryDetectionEnabled, SetText

\* A repeat or a release belongs to the press of its keystroke.
THEOREM PhasesOfOneStroke == Spec => PhasesBelongTogether
<1>1. Holds /\ [Next]_vars
        => [last'.output.phase \in {"repeated", "released"}
              => /\ Whole(stroke[last'.key])
                 /\ stroke[last'.key].command = last'.output.command]_vars
  <2> SUFFICES ASSUME Holds, Next,
                      last'.output.phase \in {"repeated", "released"}
               PROVE  /\ Whole(stroke[last'.key])
                      /\ stroke[last'.key].command = last'.output.command
    OBVIOUS
  <2>1. last' # NoEvent
    BY DEF NoEvent, Nothing
  <2> QED BY <2>1, EventOfStroke, NoEventOfStroke
<1> QED BY <1>1, HoldsInvariant, PTL DEF Spec, PhasesBelongTogether

\* As long as the mapper follows a key, no one sees a part of its keystroke only:
\* neither bindings nor modifiers that change while it is down make a difference.
THEOREM WholeStrokes == Spec => KeystrokesAreWhole
<1>1. Holds /\ [Next]_vars
        => [last'.key \in Keys /\ Whole(stroke[last'.key])
              /\ (suspended' = suspended)
              => last'.consumed = stroke[last'.key].consumed]_vars
  <2> SUFFICES ASSUME Holds, Next, last'.key \in Keys, Whole(stroke[last'.key]),
                      suspended' = suspended
               PROVE  last'.consumed = stroke[last'.key].consumed
    OBVIOUS
  <2>1. last' # NoEvent
    BY NoCommandAssumption DEF NoEvent
  <2> QED BY <2>1, EventOfStroke, NoEventOfStroke
<1> QED BY <1>1, HoldsInvariant, PTL DEF Spec, KeystrokesAreWhole

\* No key is taken from an object that takes text, even the first one after
\* it got the focus: whether it does is asked with every event.
THEOREM TextIsLeftAlone == Spec => []TextIsNeverTaken
<1>1. Init => TextIsNeverTaken
  BY DEF Init, NoEvent, TextIsNeverTaken
<1>2. TextIsNeverTaken /\ [Next]_vars => TextIsNeverTaken'
  <2> SUFFICES ASSUME TextIsNeverTaken, [Next]_vars PROVE TextIsNeverTaken'
    OBVIOUS
  <2>1. ASSUME NEW p \in PhysicalKeys, NEW transition \in Transitions,
               KeyEvent(p, transition)
        PROVE  TextIsNeverTaken'
    <3>1. /\ target # NoTarget /\ UNCHANGED <<explicitly, automatic, textFocus>>
          /\ last'.consumed => ~TextEntry(explicitly, automatic)
      BY <2>1 DEF KeyEvent, Filter, FoundNow, settings
    <3> QED BY <3>1 DEF TextEntry, TextIsNeverTaken
  <2>2. CASE last' = NoEvent
    BY <2>2 DEF NoEvent, TextIsNeverTaken
  <2>3. CASE UNCHANGED vars
    BY <2>3 DEF vars, settings, environment, TextIsNeverTaken
  <2> QED BY <2>1, <2>2, <2>3, NoEventOfStroke
<1> QED BY <1>1, <1>2, PTL DEF Spec

-----------------------------------------------------------------------------
(* The focus controller: the graph                                         *)

Memories == [Zones -> Nodes \cup {None}]

\* The parts of Focused, of any graph, order of zones, memory and modals.
GraphOK(ns, zones) ==
  /\ ns \in Seq(Specs) /\ Once(ns)
  /\ zones \in Seq(Zones) /\ IsInjective(zones) /\ ToSet(zones) = ZonesOf(ns)
MemoryOK(ns, m) ==
  /\ m \in Memories
  /\ \A z \in Zones : m[z] # None => Has(ns, m[z]) /\ ZoneOf(ns, m[z]) = z
FocusOK(ns, m, id) ==
  /\ id \in Nodes \cup {None}
  /\ id # None => Has(ns, id) /\ m[ZoneOf(ns, id)] = id
ModalsOK(ns, ms) ==
  /\ ms \in Seq(Modals)
  /\ \A i \in DOMAIN ms : ms[i].returns # None => Has(ns, ms[i].returns)

\* Focused, said part by part.
LEMMA FocusedIs ==
  Focused <=> /\ GraphOK(nodes, zoneOrder) /\ MemoryOK(nodes, memory)
              /\ FocusOK(nodes, memory, focus) /\ ModalsOK(nodes, modals)
              /\ saved \in Snapshots
BY DEF Focused, FocusTypeOK, RegisteredOnce, FocusIsConsistent, Snapshot, Snapshots,
       GraphOK, MemoryOK, FocusOK, ModalsOK, Memories

\* And of the state after a step.
LEMMA FocusedIsNext ==
  Focused' <=> /\ GraphOK(nodes', zoneOrder') /\ MemoryOK(nodes', memory')
               /\ FocusOK(nodes', memory', focus') /\ ModalsOK(nodes', modals')
               /\ saved' \in Snapshots
BY DEF Focused, FocusTypeOK, RegisteredOnce, FocusIsConsistent, Snapshot, Snapshots,
       GraphOK, MemoryOK, FocusOK, ModalsOK, Memories

\* A registered node has its spec, of its type.
LEMMA SpecTypes ==
  ASSUME NEW ns \in Seq(Specs), NEW i \in DOMAIN ns
  PROVE  /\ ns[i] \in Specs /\ ns[i].id \in Nodes /\ ns[i].zone \in Zones
         /\ \A d \in {"up", "down", "left", "right"} :
              ns[i].neighbors[d] \in Nodes \cup {None}
         /\ Has(ns, ns[i].id) /\ ns[i].zone \in ZonesOf(ns)
<1>1. ns[i] \in Specs
  BY ElementOfSeq, LenProperties
<1> QED BY <1>1, SpecsAssumption DEF Has, Ids, ZonesOf

\* A node that is there has a spec, and an id and a zone of its type.
LEMMA RegisteredHas ==
  ASSUME NEW ns \in Seq(Specs), NEW id, Has(ns, id)
  PROVE  /\ \E i \in DOMAIN ns : ns[i].id = id /\ SpecOf(ns, id) = ns[i]
         /\ id \in Nodes /\ id # None
         /\ ZoneOf(ns, id) \in Zones /\ ZoneOf(ns, id) \in ZonesOf(ns)
<1>1. PICK i \in DOMAIN ns : ns[i].id = id
  BY DEF Has, Ids
<1>2. PICK j \in DOMAIN ns : ns[j].id = id /\ SpecOf(ns, id) = ns[j]
  BY <1>1 DEF SpecOf
<1> QED BY <1>2, SpecTypes, NoneAssumption DEF ZoneOf

\* Where a node is registered once, its spec is the one at its place.
LEMMA SpecAt ==
  ASSUME NEW ns \in Seq(Specs), Once(ns), NEW i \in DOMAIN ns
  PROVE  SpecOf(ns, ns[i].id) = ns[i] /\ ZoneOf(ns, ns[i].id) = ns[i].zone
BY DEF Once, SpecOf, ZoneOf

\* A node is remembered in its zone.
LEMMA RememberedIs ==
  ASSUME NEW ns \in Seq(Specs), NEW m, MemoryOK(ns, m), NEW id, Has(ns, id)
  PROVE  LET new == [m EXCEPT ![ZoneOf(ns, id)] = id]
         IN  MemoryOK(ns, new) /\ FocusOK(ns, new, id)
<1>1. id \in Nodes /\ ZoneOf(ns, id) \in Zones
  BY RegisteredHas
<1> QED BY <1>1 DEF MemoryOK, FocusOK, Memories

\* setCurrentFocus() to a node, or to none.
LEMMA FocusMoves ==
  ASSUME NEW id, NEW m, GraphOK(nodes, zoneOrder), MemoryOK(nodes, m), SetFocus(id, m),
         id # None => Has(nodes, id),
         id = focus => FocusOK(nodes, m, focus)
  PROVE  MemoryOK(nodes, memory') /\ FocusOK(nodes, memory', focus')
<1>1. nodes \in Seq(Specs)
  BY DEF GraphOK
<1>2. CASE id = focus \/ id = None
  BY <1>2 DEF SetFocus, FocusOK
<1>3. CASE id # focus /\ id # None
  <2>1. memory' = [m EXCEPT ![ZoneOf(nodes, id)] = id] /\ focus' = id
    BY <1>3 DEF SetFocus, Remember
  <2> QED BY <1>1, <1>3, <2>1, RememberedIs
<1> QED BY <1>2, <1>3

\* The first node of a graph, or of a zone.
LEMMA FirstIs ==
  ASSUME NEW ns \in Seq(Specs), NEW other
  PROVE  ns # << >> => Has(ns, FirstOr(ns, other))
<1> SUFFICES ASSUME ns # << >> PROVE Has(ns, Head(ns).id)
  BY DEF FirstOr
<1>1. 1 \in DOMAIN ns /\ Head(ns) = ns[1]
  BY EmptySeq, LenProperties
<1> QED BY <1>1 DEF Has, Ids

\* The nodes of a zone, in order.
LEMMA ZoneMembers ==
  ASSUME NEW ns \in Seq(Specs), Once(ns), NEW z
  PROVE  /\ InZone(ns, z) \in Seq(Specs)
         /\ \A k \in DOMAIN InZone(ns, z) :
              Has(ns, InZone(ns, z)[k].id) /\ ZoneOf(ns, InZone(ns, z)[k].id) = z
         /\ \A id : Has(ns, id) /\ ZoneOf(ns, id) = z =>
              \E k \in DOMAIN InZone(ns, z) : InZone(ns, z)[k].id = id
<1> DEFINE I == {i \in DOMAIN ns : ns[i].zone = z}
<1>1. InZone(ns, z) = Picked(ns, I) /\ I \in SUBSET (DOMAIN ns)
  BY DEF InZone
<1> HIDE DEF I
<1>2. /\ InZone(ns, z) \in Seq(Specs)
      /\ \A k \in DOMAIN InZone(ns, z) : \E i \in I : InZone(ns, z)[k] = ns[i]
      /\ \A i \in I : \E k \in DOMAIN InZone(ns, z) : InZone(ns, z)[k] = ns[i]
  BY <1>1, PickedElements
<1>3. ASSUME NEW k \in DOMAIN InZone(ns, z)
      PROVE  Has(ns, InZone(ns, z)[k].id) /\ ZoneOf(ns, InZone(ns, z)[k].id) = z
  <2>1. PICK i \in DOMAIN ns : InZone(ns, z)[k] = ns[i] /\ ns[i].zone = z
    BY <1>2 DEF I
  <2> QED BY <2>1, SpecAt, SpecTypes
<1>4. ASSUME NEW id, Has(ns, id), ZoneOf(ns, id) = z
      PROVE  \E k \in DOMAIN InZone(ns, z) : InZone(ns, z)[k].id = id
  <2>1. PICK i \in DOMAIN ns : ns[i].id = id /\ SpecOf(ns, id) = ns[i]
    BY <1>4, RegisteredHas
  <2>2. i \in I
    BY <1>4, <2>1 DEF I, ZoneOf
  <2> QED BY <1>2, <2>1, <2>2
<1> QED BY <1>2, <1>3, <1>4

\* A zone that lost its nodes is pruned, and no other.
LEMMA PrunedIs ==
  ASSUME NEW ns, NEW zones \in Seq(Zones), IsInjective(zones), NEW z,
         ZonesOf(ns) \subseteq ToSet(zones), ToSet(zones) \subseteq ZonesOf(ns) \cup {z}
  PROVE  /\ Pruned(zones, z, ns) \in Seq(Zones) /\ IsInjective(Pruned(zones, z, ns))
         /\ ToSet(Pruned(zones, z, ns)) = ZonesOf(ns)
<1>1. CASE z \in ZonesOf(ns)
  <2>1. Pruned(zones, z, ns) = zones
    BY <1>1 DEF Pruned
  <2>2. ToSet(zones) = ZonesOf(ns)
    BY <1>1
  <2> QED BY <2>1, <2>2
<1>2. CASE z \notin ZonesOf(ns)
  <2> DEFINE I == {i \in DOMAIN zones : zones[i] # z}
             new == Picked(zones, I)
  <2>1. Pruned(zones, z, ns) = new /\ I \in SUBSET (DOMAIN zones)
    BY <1>2 DEF Pruned
  <2>2. \A i \in I : zones[i] # z /\ i \in DOMAIN zones
    OBVIOUS
  <2>3. \A i \in DOMAIN zones : zones[i] # z => i \in I
    OBVIOUS
  <2> HIDE DEF I, new
  <2>4. /\ new \in Seq(Zones)
        /\ \E f \in [DOMAIN new -> I] :
             /\ \A k \in DOMAIN new : new[k] = zones[f[k]]
             /\ \A i \in I : \E k \in DOMAIN new : f[k] = i
             /\ \A k, l \in DOMAIN new : f[k] = f[l] => k = l
    BY <2>1, PickedElements DEF new
  <2>5. PICK f \in [DOMAIN new -> I] :
          /\ \A k \in DOMAIN new : new[k] = zones[f[k]]
          /\ \A i \in I : \E k \in DOMAIN new : f[k] = i
          /\ \A k, l \in DOMAIN new : f[k] = f[l] => k = l
    BY <2>4
  <2>6. IsInjective(new)
    BY <2>2, <2>5 DEF IsInjective
  <2>7. ToSet(new) \subseteq ZonesOf(ns)
    BY <2>2, <2>5 DEF ToSet
  <2>8. ZonesOf(ns) \subseteq ToSet(new)
    <3> SUFFICES ASSUME NEW y \in ZonesOf(ns) PROVE y \in ToSet(new)
      OBVIOUS
    <3>1. PICK i \in DOMAIN zones : zones[i] = y
      BY DEF ToSet
    <3>2. i \in I
      BY <1>2, <2>3, <3>1
    <3>3. PICK k \in DOMAIN new : f[k] = i
      BY <2>5, <3>2
    <3> QED BY <2>5, <3>1, <3>3 DEF ToSet
  <2> QED BY <2>1, <2>4, <2>6, <2>7, <2>8
<1> QED BY <1>1, <1>2

-----------------------------------------------------------------------------
(* The steps                                                               *)

\* A graph without nodes, and no focus.
LEMMA InitFocused == FocusInit => Focused
<1> SUFFICES ASSUME FocusInit PROVE Focused
  OBVIOUS
<1>1. /\ << >> \in Seq(Specs) /\ << >> \in Seq(Zones) /\ << >> \in Seq(Modals)
      /\ DOMAIN << >> = {}
  BY EmptySeq, LenProperties
<1>2. nodes = << >> /\ zoneOrder = << >> /\ modals = << >> /\ focus = None
      /\ memory = [z \in Zones |-> None] /\ saved = NoSnapshot
  BY DEF FocusInit, NoSnapshot
<1>3. GraphOK(nodes, zoneOrder)
  BY <1>1, <1>2 DEF GraphOK, Once, IsInjective, ToSet, ZonesOf
<1>4. MemoryOK(nodes, memory) /\ FocusOK(nodes, memory, focus)
  BY <1>2 DEF MemoryOK, FocusOK, Memories
<1>5. ModalsOK(nodes, modals) /\ saved \in Snapshots
  BY <1>1, <1>2 DEF ModalsOK, NoSnapshot, Snapshots
<1> QED BY <1>3, <1>4, <1>5, FocusedIs

\* A focus that moves in a graph that stays.
LEMMA MoveKeeps ==
  ASSUME Focused, UNCHANGED <<graph, saved>>, ModalsOK(nodes, modals'),
         NEW id, SetFocus(id, memory), id # None => Has(nodes, id)
  PROVE  Focused'
<1>1. GraphOK(nodes, zoneOrder) /\ MemoryOK(nodes, memory) /\ FocusOK(nodes, memory, focus)
      /\ saved \in Snapshots
  BY FocusedIs
<1>2. MemoryOK(nodes, memory') /\ FocusOK(nodes, memory', focus')
  BY <1>1, FocusMoves
<1> QED BY <1>1, <1>2, FocusedIsNext DEF graph

\* setInitialFocus() takes a node that is registered.
LEMMA SetInitialFocusKeeps ==
  ASSUME Focused, NEW id \in Nodes, SetInitialFocus(id) PROVE Focused'
<1>1. ModalsOK(nodes, modals')
  BY FocusedIs DEF SetInitialFocus
<1> QED BY <1>1, MoveKeeps DEF SetInitialFocus

\* A modal returns to what has the focus when it opens, which is registered.
LEMMA PushModalKeeps ==
  ASSUME Focused, NEW id \in Nodes, PushModal(id) PROVE Focused'
<1>1. FocusOK(nodes, memory, focus) /\ ModalsOK(nodes, modals)
  BY FocusedIs
<1> DEFINE top == [entry |-> id, returns |-> focus]
<1>2. modals' = Append(modals, top) /\ modals \in Seq(Modals)
  BY <1>1 DEF PushModal, ModalsOK
<1>3. top \in Modals /\ top.returns = focus /\ (focus # None => Has(nodes, focus))
  BY <1>1 DEF FocusOK, Modals
<1> HIDE DEF top
<1>4. /\ modals' \in Seq(Modals) /\ DOMAIN modals' = (DOMAIN modals) \cup {Len(modals) + 1}
      /\ modals'[Len(modals) + 1] = top
      /\ \A i \in DOMAIN modals : modals'[i] = modals[i]
  BY <1>2, <1>3, AppendProperties, LenProperties
<1>5. ModalsOK(nodes, modals')
  BY <1>1, <1>3, <1>4 DEF ModalsOK
<1> QED BY <1>5, MoveKeeps DEF PushModal

\* What a modal returns to is registered, or it is the first node, or none.
LEMMA PopModalKeeps ==
  ASSUME Focused, PopModal PROVE Focused'
<1>1. GraphOK(nodes, zoneOrder) /\ ModalsOK(nodes, modals)
  BY FocusedIs
<1>2. modals \in Seq(Modals) /\ modals # << >> /\ modals' = Front(modals)
  BY <1>1 DEF ModalsOK, PopModal
<1>3. Len(modals) \in Nat /\ Len(modals) > 0 /\ DOMAIN modals = 1..Len(modals)
  BY <1>2, EmptySeq, LenProperties
<1>4. /\ modals' \in Seq(Modals) /\ DOMAIN modals' = 1..(Len(modals) - 1)
      /\ \A i \in 1..(Len(modals) - 1) : modals'[i] = modals[i]
  BY <1>2, <1>3, SubSeqProperties DEF Front
<1>5. ModalsOK(nodes, modals')
  <2>1. 1..(Len(modals) - 1) \subseteq DOMAIN modals
    BY <1>3
  <2> QED BY <1>1, <1>4, <2>1 DEF ModalsOK
<1> DEFINE to == Last(modals).returns
           next == IF to = None \/ Has(nodes, to) THEN to ELSE First
<1>6. next # None => Has(nodes, next)
  <2>1. First = None \/ Has(nodes, First)
    BY <1>1, FirstIs DEF GraphOK, First, FirstOr
  <2> QED BY <2>1
<1>7. SetFocus(next, memory) /\ UNCHANGED <<graph, saved>>
  BY DEF PopModal
<1> HIDE DEF next
<1> QED BY <1>5, <1>6, <1>7, MoveKeeps

\* A snapshot is of the type of its parts.
LEMMA TakeSnapshotKeeps ==
  ASSUME Focused, TakeSnapshot PROVE Focused'
<1>1. saved' \in Snapshots /\ UNCHANGED <<graph, memory, modals, focus>>
  BY DEF TakeSnapshot, Focused, FocusTypeOK
<1> QED BY <1>1, FocusedIs, FocusedIsNext DEF graph

\* An index that goes round stays one.
LEMMA GoesRound ==
  ASSUME NEW n \in Nat, n > 0, NEW i \in Nat
  PROVE  (i % n) + 1 \in 1..n
OBVIOUS

\* A neighbour is registered, and wrapping stays among the nodes of the zone.
LEMMA MoveFocusKeeps ==
  ASSUME Focused, NEW d \in {"up", "down", "left", "right"}, MoveFocus(d)
  PROVE  Focused'
<1>1. GraphOK(nodes, zoneOrder) /\ ModalsOK(nodes, modals')
  BY FocusedIs DEF MoveFocus
<1>2. Has(nodes, focus) /\ nodes \in Seq(Specs) /\ Once(nodes)
  BY <1>1 DEF MoveFocus, GraphOK
<1>3. Has(nodes, WrapsTo(d))
  <2> DEFINE z == ZoneOf(nodes, focus)
             zone == InZone(nodes, z)
             i == CHOOSE i \in DOMAIN zone : zone[i].id = focus
  <2>1. /\ zone \in Seq(Specs) /\ \A k \in DOMAIN zone : Has(nodes, zone[k].id)
        /\ \A id : Has(nodes, id) /\ ZoneOf(nodes, id) = z => \E k \in DOMAIN zone : zone[k].id = id
    <3> HIDE DEF z
    <3> QED BY <1>2, ZoneMembers
  <2>2. \E k \in DOMAIN zone : zone[k].id = focus
    <3> HIDE DEF zone
    <3> QED BY <1>2, <2>1
  <2>3. i \in DOMAIN zone
    BY <2>2
  <2>4. WrapsTo(d) = IF d \in {"right", "down"} THEN zone[(i % Len(zone)) + 1].id
                     ELSE zone[((i - 2 + Len(zone)) % Len(zone)) + 1].id
    BY DEF WrapsTo
  <2> HIDE DEF z, zone, i
  <2>5. DOMAIN zone = 1..Len(zone) /\ Len(zone) \in Nat
    BY <2>1, LenProperties
  <2>6. Len(zone) > 0 /\ i \in Nat
    BY <2>3, <2>5
  <2>7. i - 2 + Len(zone) \in Nat
    BY <2>3, <2>5, <2>6
  <2>8. (i % Len(zone)) + 1 \in DOMAIN zone
        /\ ((i - 2 + Len(zone)) % Len(zone)) + 1 \in DOMAIN zone
    BY <2>5, <2>6, <2>7, GoesRound
  <2> QED BY <2>1, <2>4, <2>8
<1>4. PICK id : SetFocus(id, memory) /\ Has(nodes, id)
  BY <1>3 DEF MoveFocus, Has
<1> QED BY <1>1, <1>4, MoveKeeps DEF MoveFocus

\* cycleZone() finds a node of the next zone.
LEMMA CycleZoneKeeps ==
  ASSUME Focused, NEW forward \in BOOLEAN, CycleZone(forward)
  PROVE  Focused'
<1>1. GraphOK(nodes, zoneOrder) /\ FocusOK(nodes, memory, focus) /\ ModalsOK(nodes, modals')
  BY FocusedIs DEF CycleZone
<1>2. nodes \in Seq(Specs) /\ Once(nodes) /\ zoneOrder \in Seq(Zones)
      /\ ToSet(zoneOrder) = ZonesOf(nodes)
  BY <1>1 DEF GraphOK
<1> DEFINE to == CycleTarget(focus, memory, forward)
           zones == WithNodes(zoneOrder, nodes)
           I == {i \in DOMAIN zoneOrder : zoneOrder[i] \in ZonesOf(nodes)}
           at == IF focus = None THEN (IF forward THEN 0 ELSE Len(zones) + 1)
                 ELSE CHOOSE i \in DOMAIN zones : zones[i] = ZoneOf(nodes, focus)
           z == IF forward THEN zones[(at % Len(zones)) + 1]
                ELSE zones[((at - 2 + Len(zones)) % Len(zones)) + 1]
<1>3. zones = Picked(zoneOrder, I) /\ I \in SUBSET (DOMAIN zoneOrder)
  BY DEF WithNodes
<1>4. to = IF Has(nodes, memory[z]) /\ ZoneOf(nodes, memory[z]) = z THEN memory[z]
           ELSE Head(InZone(nodes, z)).id
  BY DEF CycleTarget
<1>5. SetFocus(to, memory) /\ UNCHANGED <<graph, saved>> /\ Len(zones) >= 2
  BY DEF CycleZone
<1>6. I = DOMAIN zoneOrder
  BY <1>2 DEF ToSet
<1>7. zones = zoneOrder
  <2> HIDE DEF I, zones
  <2> QED BY <1>2, <1>3, <1>6, PickedAll
<1>8. DOMAIN zones = 1..Len(zones) /\ Len(zones) \in Nat /\ Len(zones) > 0
  <2> HIDE DEF zones
  <2> QED BY <1>2, <1>5, <1>7, LenProperties
<1>9. at \in 0..(Len(zones) + 1) /\ (~forward => at # 0)
  <2>1. CASE focus = None
    <3> HIDE DEF zones
    <3> QED BY <1>8, <2>1
  <2>2. CASE focus # None
    <3>1. ZoneOf(nodes, focus) \in ZonesOf(nodes)
      BY <1>1, <1>2, <2>2, RegisteredHas DEF FocusOK
    <3>2. \E i \in DOMAIN zones : zones[i] = ZoneOf(nodes, focus)
      <4> HIDE DEF zones
      <4> QED BY <1>2, <1>7, <3>1 DEF ToSet
    <3>3. at \in DOMAIN zones
      <4> HIDE DEF zones
      <4> QED BY <2>2, <3>2
    <3> HIDE DEF zones, at
    <3> QED BY <1>8, <3>3
  <2> QED BY <2>1, <2>2
<1>10. z \in ZonesOf(nodes)
  <2> HIDE DEF zones, at
  <2>1. at \in Nat /\ (~forward => at - 2 + Len(zones) \in Nat)
    BY <1>5, <1>8, <1>9
  <2>2. /\ (at % Len(zones)) + 1 \in DOMAIN zones
        /\ ~forward => ((at - 2 + Len(zones)) % Len(zones)) + 1 \in DOMAIN zones
    BY <1>8, <2>1, GoesRound
  <2>3. \A i \in DOMAIN zones : zones[i] \in ZonesOf(nodes)
    BY <1>2, <1>7 DEF ToSet
  <2> QED BY <2>2, <2>3
<1> HIDE DEF z, zones, at, I
<1>11. Has(nodes, to)
  <2>1. PICK i \in DOMAIN nodes : nodes[i].zone = z
    BY <1>10 DEF ZonesOf
  <2>2. Has(nodes, nodes[i].id) /\ ZoneOf(nodes, nodes[i].id) = z
    BY <1>2, <2>1, SpecAt, SpecTypes
  <2>3. PICK k \in DOMAIN InZone(nodes, z) : InZone(nodes, z)[k].id = nodes[i].id
    <3>1. \A id : Has(nodes, id) /\ ZoneOf(nodes, id) = z =>
            \E k \in DOMAIN InZone(nodes, z) : InZone(nodes, z)[k].id = id
      BY <1>2, ZoneMembers
    <3> HIDE DEF to
    <3> QED BY <2>2, <3>1
  <2>4. InZone(nodes, z) \in Seq(Specs)
    BY <1>2, ZoneMembers
  <2>5. 1 \in DOMAIN InZone(nodes, z) /\ Head(InZone(nodes, z)) = InZone(nodes, z)[1]
    BY <2>3, <2>4, LenProperties
  <2>6. Has(nodes, Head(InZone(nodes, z)).id)
    BY <1>2, <2>5, ZoneMembers
  <2> HIDE DEF to
  <2> QED BY <1>4, <2>6
<1> HIDE DEF to
<1> QED BY <1>1, <1>5, <1>11, MoveKeeps

-----------------------------------------------------------------------------
(* registerNode()                                                          *)

\* What is left of a graph and what is new in it, once a node is registered.
Registration(ns, spec, new) ==
  /\ new \in Seq(Specs) /\ Once(new)
  /\ Has(new, spec.id) /\ ZoneOf(new, spec.id) = spec.zone
  /\ \A id : Has(ns, id) => Has(new, id)
  /\ \A id : Has(new, id) /\ id # spec.id =>
       Has(ns, id) /\ ZoneOf(new, id) = ZoneOf(ns, id)

\* A graph that has the new node, and the others as they were.
LEMMA RegistrationIs ==
  ASSUME NEW ns \in Seq(Specs), Once(ns), NEW spec, NEW new \in Seq(Specs), Once(new),
         NEW s \in DOMAIN new, new[s] = spec,
         \A i \in DOMAIN ns : i \in DOMAIN new /\ new[i].id = ns[i].id,
         \A i \in DOMAIN new : i # s => i \in DOMAIN ns /\ new[i] = ns[i]
  PROVE  Registration(ns, spec, new)
<1>1. Has(new, spec.id) /\ ZoneOf(new, spec.id) = spec.zone
  BY SpecAt, SpecTypes
<1>2. \A id : Has(ns, id) => Has(new, id)
  BY DEF Has, Ids
<1>3. ASSUME NEW id, Has(new, id), id # spec.id
      PROVE  Has(ns, id) /\ ZoneOf(new, id) = ZoneOf(ns, id)
  <2>1. PICK i \in DOMAIN new : new[i].id = id
    BY <1>3 DEF Has, Ids
  <2>2. i \in DOMAIN ns /\ ns[i].id = id /\ new[i] = ns[i]
    BY <1>3, <2>1
  <2>3. ZoneOf(new, id) = new[i].zone
    BY <2>1, SpecAt
  <2>4. ZoneOf(ns, id) = ns[i].zone /\ Has(ns, id)
    BY <2>2, SpecAt, SpecTypes
  <2> QED BY <2>2, <2>3, <2>4
<1> QED BY <1>1, <1>2, <1>3 DEF Registration

\* A node that is registered again keeps its place.
LEMMA RegisteredAgain ==
  ASSUME NEW ns \in Seq(Specs), Once(ns), NEW spec \in Specs, Has(ns, spec.id)
  PROVE  Registration(ns, spec,
           [i \in DOMAIN ns |-> IF ns[i].id = spec.id THEN spec ELSE ns[i]])
<1>0. PICK new : new = [i \in DOMAIN ns |-> IF ns[i].id = spec.id THEN spec ELSE ns[i]]
  OBVIOUS
<1>1. DOMAIN ns = 1..Len(ns) /\ Len(ns) \in Nat /\ \A i \in DOMAIN ns : ns[i] \in Specs
  BY LenProperties, ElementOfSeq
<1>2. new = [i \in 1..Len(ns) |-> IF ns[i].id = spec.id THEN spec ELSE ns[i]]
  BY <1>0, <1>1
<1>3. \A i \in 1..Len(ns) : (IF ns[i].id = spec.id THEN spec ELSE ns[i]) \in Specs
  BY <1>1
<1>4. new \in [1..Len(ns) -> Specs]
  BY <1>2, <1>3
<1>5. new \in Seq(Specs) /\ DOMAIN new = DOMAIN ns
  BY <1>1, <1>4, SeqDef
<1>6. \A i \in DOMAIN ns :
        /\ new[i].id = ns[i].id
        /\ ns[i].id = spec.id => new[i] = spec
        /\ ns[i].id # spec.id => new[i] = ns[i]
  BY <1>0
<1>7. Once(new)
  <2> SUFFICES ASSUME NEW i \in DOMAIN new, NEW j \in DOMAIN new, new[i].id = new[j].id
               PROVE  i = j
    BY DEF Once
  <2>1. i \in DOMAIN ns /\ j \in DOMAIN ns
    BY <1>5
  <2>2. ns[i].id = ns[j].id
    BY <1>6, <2>1
  <2> QED BY <2>1, <2>2 DEF Once
<1>8. PICK s \in DOMAIN ns : ns[s].id = spec.id
  BY DEF Has, Ids
<1>9. ASSUME NEW i \in DOMAIN new, i # s PROVE i \in DOMAIN ns /\ new[i] = ns[i]
  <2>1. i \in DOMAIN ns
    BY <1>5
  <2>2. ns[i].id # spec.id
    BY <1>8, <1>9, <2>1 DEF Once
  <2> QED BY <1>6, <2>1, <2>2
<1>10. s \in DOMAIN new /\ new[s] = spec
  BY <1>5, <1>6, <1>8
<1>11. \A i \in DOMAIN ns : i \in DOMAIN new /\ new[i].id = ns[i].id
  BY <1>5, <1>6
<1>12. Registration(ns, spec, new)
  BY <1>5, <1>7, <1>9, <1>10, <1>11, RegistrationIs
<1> QED BY <1>0, <1>12

\* A new node comes after all others.
LEMMA RegisteredNew ==
  ASSUME NEW ns \in Seq(Specs), Once(ns), NEW spec \in Specs, ~Has(ns, spec.id)
  PROVE  Registration(ns, spec, Append(ns, spec))
<1> DEFINE n == Len(ns) + 1
           new == Append(ns, spec)
<1>1. DOMAIN ns = 1..Len(ns) /\ Len(ns) \in Nat
  BY LenProperties
<1>2. /\ new \in Seq(Specs) /\ Len(new) = n /\ new[n] = spec
      /\ \A i \in 1..Len(ns) : new[i] = ns[i]
  BY AppendProperties
<1> HIDE DEF new
<1>3. DOMAIN new = 1..n
  BY <1>2, LenProperties
<1>4. DOMAIN new = DOMAIN ns \cup {n} /\ n \in DOMAIN new /\ n \notin DOMAIN ns
  BY <1>1, <1>3
<1> HIDE DEF n
<1>5. \A i \in DOMAIN ns : ns[i].id # spec.id /\ new[i] = ns[i]
  BY <1>1, <1>2 DEF Has, Ids
<1>6. Once(new)
  BY <1>2, <1>4, <1>5 DEF Once
<1>7. Registration(ns, spec, new)
  BY <1>2, <1>4, <1>5, <1>6, RegistrationIs
<1> QED BY <1>7 DEF new

\* The zones of a graph are those of its nodes.
LEMMA ZonesAre ==
  ASSUME NEW ns \in Seq(Specs), Once(ns)
  PROVE  \A z : z \in ZonesOf(ns) <=> \E id : Has(ns, id) /\ ZoneOf(ns, id) = z
<1>1. ASSUME NEW z, z \in ZonesOf(ns) PROVE \E id : Has(ns, id) /\ ZoneOf(ns, id) = z
  <2>1. PICK i \in DOMAIN ns : ns[i].zone = z
    BY <1>1 DEF ZonesOf
  <2> QED BY <2>1, SpecAt, SpecTypes
<1>2. ASSUME NEW id, Has(ns, id) PROVE ZoneOf(ns, id) \in ZonesOf(ns)
  BY <1>2, RegisteredHas
<1> QED BY <1>1, <1>2

\* A zone that is appended unless it is there.
LEMMA ZoneAppended ==
  ASSUME NEW zones \in Seq(Zones), IsInjective(zones), NEW z \in Zones, NEW new,
         new = IF Contains(zones, z) THEN zones ELSE Append(zones, z)
  PROVE  /\ new \in Seq(Zones) /\ IsInjective(new)
         /\ ToSet(new) = ToSet(zones) \cup {z}
<1>1. DOMAIN zones = 1..Len(zones) /\ Len(zones) \in Nat
  BY LenProperties
<1>2. CASE Contains(zones, z)
  <2>1. z \in ToSet(zones)
    BY <1>1, <1>2 DEF Contains, ToSet
  <2> QED BY <1>2, <2>1
<1>3. CASE ~Contains(zones, z)
  <2> DEFINE n == Len(zones) + 1
  <2>1. /\ new \in Seq(Zones) /\ DOMAIN new = DOMAIN zones \cup {n} /\ new[n] = z
        /\ \A i \in DOMAIN zones : new[i] = zones[i]
    BY <1>1, <1>3, AppendProperties, LenProperties
  <2>2. \A i \in DOMAIN zones : zones[i] # z
    BY <1>1, <1>3 DEF Contains
  <2> HIDE DEF n
  <2>3. IsInjective(new)
    BY <2>1, <2>2 DEF IsInjective
  <2>4. ToSet(new) = ToSet(zones) \cup {z}
    BY <2>1 DEF ToSet
  <2> QED BY <2>1, <2>3, <2>4
<1> QED BY <1>2, <1>3

\* A node that was registered stays in the order of zones, or is moved in it.
LEMMA RegisterKeeps ==
  ASSUME Focused, NEW spec \in Specs, Register(spec)
  PROVE  Focused'
<1>1. /\ GraphOK(nodes, zoneOrder) /\ MemoryOK(nodes, memory)
      /\ FocusOK(nodes, memory, focus) /\ ModalsOK(nodes, modals) /\ saved \in Snapshots
  BY FocusedIs
<1>2. /\ nodes \in Seq(Specs) /\ Once(nodes)
      /\ zoneOrder \in Seq(Zones) /\ IsInjective(zoneOrder)
      /\ ToSet(zoneOrder) = ZonesOf(nodes)
  BY <1>1 DEF GraphOK
<1>3. spec.id \in Nodes /\ spec.zone \in Zones /\ spec.id # None
  BY SpecsAssumption, NoneAssumption
<1> DEFINE was == Has(nodes, spec.id)
           from == ZoneOf(nodes, spec.id)
           zones == IF Contains(zoneOrder, spec.zone) THEN zoneOrder
                    ELSE Append(zoneOrder, spec.zone)
           forgotten == [memory EXCEPT ![from] =
                           IF @ = spec.id \/ from \notin ZonesOf(nodes') THEN None ELSE @]
<1>4. /\ nodes' = IF was
                  THEN [i \in DOMAIN nodes |-> IF nodes[i].id = spec.id THEN spec ELSE nodes[i]]
                  ELSE Append(nodes, spec)
      /\ modals' = modals /\ focus' = focus /\ saved' = saved
  BY DEF Register
<1>5. was /\ from # spec.zone =>
        zoneOrder' = Pruned(zones, from, nodes') /\ memory' = MovedFocus(forgotten, spec)
  BY DEF Register
<1>6. ~(was /\ from # spec.zone) => zoneOrder' = zones /\ memory' = memory
  BY DEF Register
<1>7. Registration(nodes, spec, nodes')
  BY <1>2, <1>4, RegisteredAgain, RegisteredNew
<1>8. zones \in Seq(Zones) /\ IsInjective(zones) /\ ToSet(zones) = ZonesOf(nodes) \cup {spec.zone}
  BY <1>2, <1>3, ZoneAppended
<1> HIDE DEF zones, was, from, forgotten
<1>9. /\ nodes' \in Seq(Specs) /\ Once(nodes')
      /\ Has(nodes', spec.id) /\ ZoneOf(nodes', spec.id) = spec.zone
      /\ \A id : Has(nodes, id) => Has(nodes', id)
      /\ \A id : Has(nodes', id) /\ id # spec.id =>
           Has(nodes, id) /\ ZoneOf(nodes', id) = ZoneOf(nodes, id)
  BY <1>7 DEF Registration
<1>10. ModalsOK(nodes', modals')
  BY <1>1, <1>4, <1>9 DEF ModalsOK
<1>11. \A z : z \in ZonesOf(nodes) <=> \E id : Has(nodes, id) /\ ZoneOf(nodes, id) = z
  BY <1>2, ZonesAre
<1>12. \A z : z \in ZonesOf(nodes') <=> \E id : Has(nodes', id) /\ ZoneOf(nodes', id) = z
  BY <1>9, ZonesAre
<1>13. ZonesOf(nodes') \subseteq ToSet(zones)
  BY <1>8, <1>9, <1>11, <1>12
<1>14. CASE ~(was /\ from # spec.zone)
  <2>1. \A id : Has(nodes, id) => ZoneOf(nodes', id) = ZoneOf(nodes, id)
    BY <1>9, <1>14 DEF was, from
  <2>2. ToSet(zones) = ZonesOf(nodes')
    BY <1>8, <1>9, <1>11, <1>12, <1>13, <2>1
  <2>3. GraphOK(nodes', zoneOrder')
    BY <1>6, <1>8, <1>9, <1>14, <2>2 DEF GraphOK
  <2>4. MemoryOK(nodes', memory') /\ FocusOK(nodes', memory', focus')
    BY <1>1, <1>4, <1>6, <1>9, <1>14, <2>1 DEF MemoryOK, FocusOK
  <2> QED BY <1>1, <1>4, <1>10, <2>3, <2>4, FocusedIsNext
<1>15. CASE was /\ from # spec.zone
  <2>1. ToSet(zones) \subseteq ZonesOf(nodes') \cup {from}
    <3> SUFFICES ASSUME NEW z \in ZonesOf(nodes), z # from PROVE z \in ZonesOf(nodes')
      BY <1>8, <1>9, <1>12
    <3>1. PICK id : Has(nodes, id) /\ ZoneOf(nodes, id) = z
      BY <1>11
    <3>2. id # spec.id
      BY <3>1 DEF from
    <3> QED BY <1>9, <1>12, <3>1, <3>2
  <2>2. GraphOK(nodes', zoneOrder')
    BY <1>5, <1>8, <1>9, <1>13, <1>15, <2>1, PrunedIs DEF GraphOK
  <2>3. from \in Zones /\ memory \in Memories
    BY <1>1, <1>2, <1>15, RegisteredHas DEF was, from, MemoryOK
  <2>4. /\ forgotten \in Memories
        /\ \A z \in Zones \ {from} : forgotten[z] = memory[z]
        /\ memory[from] = spec.id \/ from \notin ZonesOf(nodes') => forgotten[from] = None
        /\ memory[from] # spec.id /\ from \in ZonesOf(nodes') => forgotten[from] = memory[from]
    BY <2>3 DEF forgotten, Memories
  <2>5. ASSUME NEW z \in Zones, forgotten[z] # None
        PROVE  /\ forgotten[z] = memory[z] /\ forgotten[z] # spec.id
               /\ Has(nodes', forgotten[z]) /\ ZoneOf(nodes', forgotten[z]) = z
    <3>1. forgotten[z] = memory[z] /\ (z = from => memory[z] # spec.id)
      BY <2>4, <2>5
    <3>2. Has(nodes, memory[z]) /\ ZoneOf(nodes, memory[z]) = z
      BY <1>1, <2>5, <3>1 DEF MemoryOK
    <3>3. memory[z] # spec.id
      BY <3>1, <3>2 DEF from
    <3> QED BY <1>9, <3>1, <3>2, <3>3
  <2>6. memory' = [forgotten EXCEPT ![spec.zone] = IF focus = spec.id THEN focus ELSE @]
    BY <1>5, <1>15 DEF MovedFocus
  <2>7. MemoryOK(nodes', memory')
    <3>1. memory' \in Memories
      BY <1>3, <2>4, <2>6 DEF Memories
    <3>2. \A z \in Zones :
            memory'[z] = forgotten[z] \/ (z = spec.zone /\ memory'[z] = spec.id)
      BY <1>3, <2>4, <2>6 DEF Memories
    <3> QED BY <1>9, <2>5, <3>1, <3>2 DEF MemoryOK
  <2>8. FocusOK(nodes', memory', focus')
    <3>1. CASE focus = None
      BY <1>1, <1>4, <3>1 DEF FocusOK
    <3>2. CASE focus = spec.id
      <4>1. memory'[spec.zone] = spec.id
        BY <1>3, <2>4, <2>6, <3>2 DEF Memories
      <4> QED BY <1>3, <1>4, <1>9, <3>2, <4>1 DEF FocusOK
    <3>3. CASE focus # None /\ focus # spec.id
      <4>1. Has(nodes, focus) /\ focus \in Nodes /\ memory[ZoneOf(nodes, focus)] = focus
        BY <1>1, <3>3 DEF FocusOK
      <4>2. Has(nodes', focus) /\ ZoneOf(nodes', focus) = ZoneOf(nodes, focus)
        BY <1>2, <1>9, <3>3, <4>1
      <4>3. ZoneOf(nodes, focus) \in Zones /\ ZoneOf(nodes, focus) \in ZonesOf(nodes')
        BY <1>2, <1>12, <4>1, <4>2, RegisteredHas
      <4>4. forgotten[ZoneOf(nodes, focus)] = focus
        BY <2>4, <3>3, <4>1, <4>3
      <4>5. memory'[ZoneOf(nodes, focus)] = focus
        BY <2>4, <2>6, <3>3, <4>3, <4>4 DEF Memories
      <4> QED BY <1>4, <4>1, <4>2, <4>5 DEF FocusOK
    <3> QED BY <3>1, <3>2, <3>3
  <2> QED BY <1>1, <1>4, <1>10, <2>2, <2>7, <2>8, FocusedIsNext
<1> QED BY <1>14, <1>15

-----------------------------------------------------------------------------
(* removeNode()                                                            *)

\* The graph without a node.
LEMMA Removed ==
  ASSUME NEW ns \in Seq(Specs), Once(ns), NEW id
  PROVE  LET left == WithoutNode(ns, id)
         IN  /\ left \in Seq(Specs) /\ Once(left)
             /\ \A x : Has(left, x) <=> Has(ns, x) /\ x # id
             /\ \A x : Has(left, x) => ZoneOf(left, x) = ZoneOf(ns, x)
<1> DEFINE I == {i \in DOMAIN ns : ns[i].id # id}
           left == WithoutNode(ns, id)
<1>0. left = Picked(ns, I)
  BY DEF WithoutNode
<1>1. I \in SUBSET (DOMAIN ns) /\ \A i \in DOMAIN ns : i \in I <=> ns[i].id # id
  OBVIOUS
<1> HIDE DEF I, left
<1>2. left \in Seq(Specs)
      /\ \E f \in [DOMAIN left -> I] :
           /\ \A k \in DOMAIN left : left[k] = ns[f[k]]
           /\ \A i \in I : \E k \in DOMAIN left : f[k] = i
           /\ \A k, l \in DOMAIN left : f[k] = f[l] => k = l
  BY <1>0, <1>1, PickedElements
<1>3. PICK f \in [DOMAIN left -> I] :
        /\ \A k \in DOMAIN left : left[k] = ns[f[k]]
        /\ \A i \in I : \E k \in DOMAIN left : f[k] = i
        /\ \A k, l \in DOMAIN left : f[k] = f[l] => k = l
  BY <1>2
<1>4. \A k \in DOMAIN left : f[k] \in DOMAIN ns /\ ns[f[k]].id # id /\ left[k] = ns[f[k]]
  BY <1>1, <1>3
<1>5. Once(left)
  <2> SUFFICES ASSUME NEW k \in DOMAIN left, NEW l \in DOMAIN left, left[k].id = left[l].id
               PROVE  k = l
    BY DEF Once
  <2>1. f[k] = f[l]
    BY <1>4 DEF Once
  <2> QED BY <1>3, <2>1
<1>6. ASSUME NEW x, Has(left, x)
      PROVE  Has(ns, x) /\ x # id /\ ZoneOf(left, x) = ZoneOf(ns, x)
  <2>1. PICK k \in DOMAIN left : left[k].id = x
    BY <1>6 DEF Has, Ids
  <2>2. f[k] \in DOMAIN ns /\ ns[f[k]].id # id /\ left[k] = ns[f[k]]
    BY <1>4
  <2>3. ZoneOf(left, x) = left[k].zone
    BY <1>2, <1>5, <2>1, SpecAt
  <2>4. ZoneOf(ns, x) = ns[f[k]].zone /\ Has(ns, x)
    BY <2>1, <2>2, SpecAt, SpecTypes
  <2> QED BY <2>1, <2>2, <2>3, <2>4
<1>7. ASSUME NEW x, Has(ns, x), x # id PROVE Has(left, x)
  <2>1. PICK i \in DOMAIN ns : ns[i].id = x
    BY <1>7 DEF Has, Ids
  <2>2. i \in I
    BY <1>1, <1>7, <2>1
  <2>3. PICK k \in DOMAIN left : f[k] = i
    BY <1>3, <2>2
  <2> QED BY <1>4, <2>1, <2>3 DEF Has, Ids
<1> QED BY <1>2, <1>5, <1>6, <1>7 DEF left

\* What takes the place of a node is left, or there is none.
LEMMA FallbackIs ==
  ASSUME NEW left \in Seq(Specs), Once(left), NEW removed \in Specs,
         NEW given \in Nodes \cup {None}
  PROVE  LET to == Fallback(removed, left, given)
         IN  to = None \/ Has(left, to)
<1> DEFINE neighbours == [i \in DOMAIN Directions |-> removed.neighbors[Directions[i]]]
           asked == <<given>> \o neighbours
           I == {i \in DOMAIN asked : Has(left, asked[i])}
           present == Picked(asked, I)
           Answers == Nodes \cup {None}
<1>1. Fallback(removed, left, given) =
        IF present # << >> THEN Head(present) ELSE FirstOr(InZone(left, removed.zone), None)
  BY DEF Fallback
<1>2. DOMAIN Directions = 1..4 /\ \A i \in 1..4 : Directions[i] \in {"up", "down", "left", "right"}
  BY DEF Directions
<1>3. neighbours \in Seq(Answers)
  <2>1. \A i \in 1..4 : removed.neighbors[Directions[i]] \in Answers
    BY <1>2, SpecsAssumption
  <2>2. neighbours = [i \in 1..4 |-> removed.neighbors[Directions[i]]]
    BY <1>2
  <2>3. neighbours \in [1..4 -> Answers]
    <3> HIDE DEF neighbours, Answers
    <3> QED BY <2>1, <2>2
  <2> HIDE DEF neighbours, Answers
  <2> QED BY <2>3, SeqDef
<1>4. asked \in Seq(Answers)
  <2>1. <<given>> \in Seq(Answers)
    OBVIOUS
  <2> HIDE DEF neighbours, Answers
  <2> QED BY <1>3, <2>1, ConcatProperties
<1>5. I \in SUBSET (DOMAIN asked) /\ \A i \in I : Has(left, asked[i])
  <2> HIDE DEF asked
  <2> QED OBVIOUS
<1> HIDE DEF asked, I, present, Answers
<1>6. present \in Seq(Answers) /\ \A k \in DOMAIN present : Has(left, present[k])
  <2>1. present \in Seq(Answers)
        /\ \E f \in [DOMAIN present -> I] :
             \A k \in DOMAIN present : present[k] = asked[f[k]]
    BY <1>4, <1>5, PickedElements DEF present
  <2> QED BY <1>5, <2>1
<1>7. present # << >> => Has(left, Head(present))
  <2>1. present # << >> => 1 \in DOMAIN present /\ Head(present) = present[1]
    BY <1>6, EmptySeq, LenProperties
  <2> QED BY <1>6, <2>1
<1> DEFINE zone == InZone(left, removed.zone)
<1>8. FirstOr(zone, None) = None \/ Has(left, FirstOr(zone, None))
  <2>1. zone \in Seq(Specs) /\ \A k \in DOMAIN zone : Has(left, zone[k].id)
    BY ZoneMembers
  <2> HIDE DEF zone
  <2>2. zone # << >> => 1 \in DOMAIN zone /\ Head(zone) = zone[1]
    BY <2>1, EmptySeq, LenProperties
  <2> QED BY <2>1, <2>2 DEF FirstOr
<1> QED BY <1>1, <1>7, <1>8

\* Nothing leads to a node that was removed.
LEMMA RemoveNodeKeeps ==
  ASSUME Focused, NEW id \in Nodes, NEW given \in Nodes \cup {None}, RemoveNode(id, given)
  PROVE  Focused'
<1>1. /\ GraphOK(nodes, zoneOrder) /\ MemoryOK(nodes, memory)
      /\ FocusOK(nodes, memory, focus) /\ ModalsOK(nodes, modals) /\ saved \in Snapshots
  BY FocusedIs
<1>2. /\ nodes \in Seq(Specs) /\ Once(nodes)
      /\ zoneOrder \in Seq(Zones) /\ IsInjective(zoneOrder)
      /\ ToSet(zoneOrder) = ZonesOf(nodes)
  BY <1>1 DEF GraphOK
<1> DEFINE left == WithoutNode(nodes, id)
           to == Fallback(SpecOf(nodes, id), left, given)
           zone == ZoneOf(nodes, id)
           forgotten == [z \in Zones |->
                           IF memory[z] = id \/ (z = zone /\ zone \notin ZonesOf(left))
                           THEN None ELSE memory[z]]
<1>3. /\ Has(nodes, id) /\ nodes' = left /\ zoneOrder' = Pruned(zoneOrder, zone, left)
      /\ modals' = [i \in DOMAIN modals |->
                      IF modals[i].returns = id THEN [modals[i] EXCEPT !.returns = to]
                      ELSE modals[i]]
      /\ focus = id => SetFocus(to, forgotten)
      /\ focus # id => focus' = focus /\ memory' = forgotten
      /\ saved' = saved
  BY DEF RemoveNode
<1>4. /\ left \in Seq(Specs) /\ Once(left)
      /\ \A x : Has(left, x) <=> Has(nodes, x) /\ x # id
      /\ \A x : Has(left, x) => ZoneOf(left, x) = ZoneOf(nodes, x)
  BY <1>2, Removed
<1> HIDE DEF left
<1>5. to = None \/ Has(left, to)
  <2>1. SpecOf(nodes, id) \in Specs
    BY <1>2, <1>3, RegisteredHas, SpecTypes
  <2> QED BY <1>4, <2>1, FallbackIs
<1> HIDE DEF to, zone, forgotten
<1>6. to \in Nodes \cup {None} /\ to # id
  <2>1. id # None
    BY <1>2, <1>3, RegisteredHas
  <2>2. CASE to = None
    BY <2>1, <2>2
  <2>3. CASE Has(left, to)
    BY <1>4, <2>3, RegisteredHas
  <2> QED BY <1>5, <2>2, <2>3
<1>7. GraphOK(left, zoneOrder')
  <2>1. \A z : z \in ZonesOf(nodes) <=> \E x : Has(nodes, x) /\ ZoneOf(nodes, x) = z
    BY <1>2, ZonesAre
  <2>2. \A z : z \in ZonesOf(left) <=> \E x : Has(left, x) /\ ZoneOf(left, x) = z
    BY <1>4, ZonesAre
  <2>3. ZonesOf(left) \subseteq ToSet(zoneOrder)
    BY <1>2, <1>4, <2>1, <2>2
  <2>4. ToSet(zoneOrder) \subseteq ZonesOf(left) \cup {zone}
    <3> SUFFICES ASSUME NEW z \in ZonesOf(nodes), z # zone PROVE z \in ZonesOf(left)
      BY <1>2
    <3>1. PICK x : Has(nodes, x) /\ ZoneOf(nodes, x) = z
      BY <2>1
    <3>2. x # id
      BY <3>1 DEF zone
    <3> QED BY <1>4, <2>2, <3>1, <3>2
  <2> QED BY <1>2, <1>3, <1>4, <2>3, <2>4, PrunedIs DEF GraphOK
<1>8. MemoryOK(left, forgotten)
  <2>1. forgotten \in Memories
    BY <1>1 DEF forgotten, Memories, MemoryOK
  <2>2. ASSUME NEW z \in Zones, forgotten[z] # None
        PROVE  Has(left, forgotten[z]) /\ ZoneOf(left, forgotten[z]) = z
    <3>1. forgotten[z] = memory[z] /\ memory[z] # id
      BY <2>2 DEF forgotten
    <3>2. Has(nodes, memory[z]) /\ ZoneOf(nodes, memory[z]) = z
      BY <1>1, <2>2, <3>1 DEF MemoryOK
    <3> QED BY <1>4, <3>1, <3>2
  <2> QED BY <2>1, <2>2 DEF MemoryOK
<1>9. ModalsOK(left, modals')
  <2>1. modals \in Seq(Modals) /\ DOMAIN modals = 1..Len(modals) /\ Len(modals) \in Nat
        /\ \A i \in DOMAIN modals : modals[i].returns # None => Has(nodes, modals[i].returns)
    BY <1>1, LenProperties DEF ModalsOK
  <2>2. \A i \in DOMAIN modals : modals[i] \in Modals
    BY <2>1, ElementOfSeq
  <2>3. ASSUME NEW i \in DOMAIN modals
        PROVE  /\ modals'[i] \in Modals
               /\ modals'[i].returns # None => Has(left, modals'[i].returns)
    <3>1. CASE modals[i].returns = id
      <4>1. modals'[i] = [modals[i] EXCEPT !.returns = to]
        BY <1>3, <3>1
      <4>2. modals'[i] \in Modals /\ modals'[i].returns = to
        BY <1>6, <2>2, <4>1 DEF Modals
      <4> QED BY <1>5, <4>2
    <3>2. CASE modals[i].returns # id
      BY <1>3, <1>4, <2>1, <2>2, <3>2
    <3> QED BY <3>1, <3>2
  <2>4. DOMAIN modals' = DOMAIN modals
    BY <1>3
  <2>5. modals' \in [1..Len(modals) -> Modals]
    BY <1>3, <2>1, <2>3
  <2>6. modals' \in Seq(Modals)
    BY <2>1, <2>5, SeqDef
  <2> QED BY <2>3, <2>4, <2>6 DEF ModalsOK
<1>10. MemoryOK(left, memory') /\ FocusOK(left, memory', focus')
  <2>1. CASE focus = id
    <3>1. SetFocus(to, forgotten) /\ to # focus
      BY <1>3, <1>6, <2>1
    <3>2. CASE to = None
      BY <1>8, <3>1, <3>2 DEF SetFocus, FocusOK
    <3>3. CASE to # None
      <4>1. Has(left, to) /\ ZoneOf(nodes, to) = ZoneOf(left, to)
        BY <1>4, <1>5, <3>3
      <4>2. memory' = [forgotten EXCEPT ![ZoneOf(left, to)] = to] /\ focus' = to
        BY <3>1, <3>3, <4>1 DEF SetFocus, Remember
      <4> QED BY <1>4, <1>8, <4>1, <4>2, RememberedIs
    <3> QED BY <3>2, <3>3
  <2>2. CASE focus # id
    <3>1. focus' = focus /\ memory' = forgotten
      BY <1>3, <2>2
    <3>2. ASSUME focus # None
          PROVE  Has(left, focus) /\ forgotten[ZoneOf(left, focus)] = focus
      <4>1. Has(nodes, focus) /\ memory[ZoneOf(nodes, focus)] = focus
        BY <1>1, <3>2 DEF FocusOK
      <4>2. Has(left, focus) /\ ZoneOf(left, focus) = ZoneOf(nodes, focus)
        BY <1>4, <2>2, <4>1
      <4>3. ZoneOf(left, focus) \in Zones /\ ZoneOf(left, focus) \in ZonesOf(left)
        BY <1>4, <4>2, RegisteredHas
      <4> QED BY <2>2, <4>1, <4>2, <4>3 DEF forgotten
    <3> QED BY <1>1, <1>8, <3>1, <3>2 DEF FocusOK
  <2> QED BY <2>1, <2>2
<1> QED BY <1>1, <1>3, <1>7, <1>8, <1>9, <1>10, FocusedIsNext

-----------------------------------------------------------------------------
(* restoreSnapshot()                                                       *)

\* The modals that are left of a snapshot return to nodes that are there.
LEMMA ModalsAreRestored ==
  ASSUME NEW snapshot \in Snapshots, nodes \in Seq(Specs)
  PROVE  /\ ModalsOK(nodes, RestoredModals(snapshot))
         /\ \A i \in DOMAIN RestoredModals(snapshot) : Has(nodes, RestoredModals(snapshot)[i].entry)
<1> DEFINE was == snapshot.modals
           I == {i \in DOMAIN was : Has(nodes, was[i].entry)}
           kept == Picked(was, I)
           new == [i \in DOMAIN kept |-> [kept[i] EXCEPT !.returns = ReturnOf(kept[i])]]
<1>1. RestoredModals(snapshot) = new
  BY DEF RestoredModals
<1>2. was \in Seq(Modals)
  BY DEF Snapshots
<1>3. I \in SUBSET (DOMAIN was) /\ \A i \in I : Has(nodes, was[i].entry)
  OBVIOUS
<1> HIDE DEF was, I
<1>4. kept \in Seq(Modals) /\ \A k \in DOMAIN kept : Has(nodes, kept[k].entry)
  <2>1. /\ kept \in Seq(Modals)
        /\ \E f \in [DOMAIN kept -> I] : \A k \in DOMAIN kept : kept[k] = was[f[k]]
    BY <1>2, <1>3, PickedElements
  <2> QED BY <1>3, <2>1
<1> HIDE DEF kept
<1>5. DOMAIN kept = 1..Len(kept) /\ Len(kept) \in Nat /\ \A k \in DOMAIN kept : kept[k] \in Modals
  BY <1>4, LenProperties, ElementOfSeq
<1>6. ASSUME NEW k \in DOMAIN kept
      PROVE  /\ new[k] \in Modals /\ new[k].entry = kept[k].entry
             /\ new[k].returns # None => Has(nodes, new[k].returns)
  <2>1. kept[k] \in Modals /\ new[k] = [kept[k] EXCEPT !.returns = ReturnOf(kept[k])]
    BY <1>5
  <2>2. ReturnOf(kept[k]) = None \/ Has(nodes, ReturnOf(kept[k]))
    <3>1. First = None \/ Has(nodes, First)
      BY FirstIs DEF First, FirstOr
    <3> QED BY <3>1 DEF ReturnOf
  <2>3. ReturnOf(kept[k]) \in Nodes \cup {None}
    BY <2>2, RegisteredHas
  <2>4. new[k].returns = ReturnOf(kept[k]) /\ new[k].entry = kept[k].entry /\ new[k] \in Modals
    BY <2>1, <2>3 DEF Modals
  <2> QED BY <2>2, <2>4
<1>7. DOMAIN new = DOMAIN kept
  OBVIOUS
<1>8. new \in Seq(Modals)
  <2>1. new \in [1..Len(kept) -> Modals]
    BY <1>5, <1>6
  <2> HIDE DEF new
  <2> QED BY <1>5, <2>1, SeqDef
<1> HIDE DEF new
<1> QED BY <1>1, <1>4, <1>6, <1>7, <1>8 DEF ModalsOK

\* The focus is restored to a node that is there, or to none.
LEMMA FocusIsRestored ==
  ASSUME NEW snapshot \in Snapshots, nodes \in Seq(Specs)
  PROVE  RestoredFocus(snapshot) = None \/ Has(nodes, RestoredFocus(snapshot))
<1> DEFINE ms == RestoredModals(snapshot)
<1>1. ms \in Seq(Modals) /\ \A i \in DOMAIN ms : Has(nodes, ms[i].entry)
  BY ModalsAreRestored DEF ModalsOK
<1> HIDE DEF ms
<1>2. CASE Has(nodes, snapshot.focus)
  BY <1>2 DEF RestoredFocus
<1>3. CASE ~Has(nodes, snapshot.focus) /\ ms # << >>
  <2>1. Len(ms) \in DOMAIN ms /\ Last(ms) = ms[Len(ms)]
    BY <1>1, <1>3, EmptySeq, LenProperties DEF Last
  <2>2. RestoredFocus(snapshot) = Last(ms).entry
    BY <1>3 DEF RestoredFocus, ms
  <2> QED BY <1>1, <2>1, <2>2
<1>4. CASE ~Has(nodes, snapshot.focus) /\ ms = << >>
  <2>1. RestoredFocus(snapshot) = First
    BY <1>4 DEF RestoredFocus, ms
  <2> QED BY <2>1, FirstIs DEF First, FirstOr
<1> QED BY <1>2, <1>3, <1>4

\* Of the memory, what the graph still bears out; and the focus is remembered.
LEMMA MemoryIsRestored ==
  ASSUME NEW snapshot \in Snapshots, nodes \in Seq(Specs)
  PROVE  /\ MemoryOK(nodes, RestoredMemory(snapshot))
         /\ FocusOK(nodes, RestoredMemory(snapshot), RestoredFocus(snapshot))
<1> DEFINE to == RestoredFocus(snapshot)
<1>1. MemoryOK(nodes, KeptMemory(snapshot))
  <2>1. snapshot.memory \in Memories
    BY DEF Snapshots, Memories
  <2> QED BY <2>1 DEF MemoryOK, KeptMemory, Memories
<1>2. to = None \/ Has(nodes, to)
  BY FocusIsRestored
<1>3. RestoredMemory(snapshot) = IF to = None THEN KeptMemory(snapshot)
                                 ELSE [KeptMemory(snapshot) EXCEPT ![ZoneOf(nodes, to)] = to]
  BY DEF RestoredMemory, Remember
<1> HIDE DEF to
<1>4. CASE to = None
  <2>1. RestoredMemory(snapshot) = KeptMemory(snapshot)
    BY <1>3, <1>4
  <2> QED BY <1>1, <1>4, <2>1 DEF FocusOK, to
<1>5. CASE to # None
  <2>1. RestoredMemory(snapshot) = [KeptMemory(snapshot) EXCEPT ![ZoneOf(nodes, to)] = to]
    BY <1>3, <1>5
  <2>2. Has(nodes, to)
    BY <1>2, <1>5
  <2> DEFINE m == KeptMemory(snapshot)
  <2>3. MemoryOK(nodes, m) /\ RestoredMemory(snapshot) = [m EXCEPT ![ZoneOf(nodes, to)] = to]
    BY <1>1, <2>1
  <2> HIDE DEF m
  <2>4. /\ MemoryOK(nodes, [m EXCEPT ![ZoneOf(nodes, to)] = to])
        /\ FocusOK(nodes, [m EXCEPT ![ZoneOf(nodes, to)] = to], to)
    BY <2>2, <2>3, RememberedIs
  <2> QED BY <2>3, <2>4 DEF to
<1> QED BY <1>4, <1>5

\* Whatever the graph became since the snapshot, nothing leads out of it.
LEMMA RestoreSnapshotKeeps ==
  ASSUME Focused, RestoreSnapshot
  PROVE  Focused'
<1>1. /\ GraphOK(nodes, zoneOrder) /\ MemoryOK(nodes, memory)
      /\ FocusOK(nodes, memory, focus) /\ ModalsOK(nodes, modals) /\ saved \in Snapshots
  BY FocusedIs
<1>2. nodes \in Seq(Specs)
  BY <1>1 DEF GraphOK
<1>3. /\ modals' = RestoredModals(saved) /\ SetFocus(RestoredFocus(saved), RestoredMemory(saved))
      /\ nodes' = nodes /\ zoneOrder' = zoneOrder /\ saved' = saved
  BY DEF RestoreSnapshot, graph
<1>4. ModalsOK(nodes, modals')
  BY <1>1, <1>2, <1>3, ModalsAreRestored
<1>5. /\ MemoryOK(nodes, RestoredMemory(saved))
      /\ FocusOK(nodes, RestoredMemory(saved), RestoredFocus(saved))
      /\ RestoredFocus(saved) # None => Has(nodes, RestoredFocus(saved))
  BY <1>1, <1>2, MemoryIsRestored, FocusIsRestored
<1>6. MemoryOK(nodes, memory') /\ FocusOK(nodes, memory', focus')
  BY <1>1, <1>3, <1>5, FocusMoves
<1> QED BY <1>1, <1>3, <1>4, <1>6, FocusedIsNext

-----------------------------------------------------------------------------
(* The theorems                                                            *)

\* Whatever happens to the graph and to the focus keeps the invariant.
LEMMA FocusStep ==
  ASSUME Focused, [FocusNext]_focusVars
  PROVE  Focused'
<1>1. ASSUME NEW spec \in Specs, Register(spec) PROVE Focused'
  BY <1>1, RegisterKeeps
<1>2. ASSUME NEW id \in Nodes, NEW given \in Nodes \cup {None}, RemoveNode(id, given)
      PROVE  Focused'
  BY <1>2, RemoveNodeKeeps
<1>3. ASSUME NEW id \in Nodes, SetInitialFocus(id) PROVE Focused'
  BY <1>3, SetInitialFocusKeeps
<1>4. ASSUME NEW id \in Nodes, PushModal(id) PROVE Focused'
  BY <1>4, PushModalKeeps
<1>5. ASSUME NEW i \in DOMAIN Directions, MoveFocus(Directions[i]) PROVE Focused'
  <2>1. DOMAIN Directions = 1..4
        /\ \A k \in 1..4 : Directions[k] \in {"up", "down", "left", "right"}
    BY DEF Directions
  <2>2. Directions[i] \in {"up", "down", "left", "right"}
    BY <2>1
  <2> QED BY <1>5, <2>2, MoveFocusKeeps
<1>6. ASSUME NEW on \in BOOLEAN, CycleZone(on) PROVE Focused'
  BY <1>6, CycleZoneKeeps
<1>7. CASE PopModal
  BY <1>7, PopModalKeeps
<1>8. CASE TakeSnapshot
  BY <1>8, TakeSnapshotKeeps
<1>9. CASE RestoreSnapshot
  BY <1>9, RestoreSnapshotKeeps
<1>10. CASE UNCHANGED focusVars
  <2>1. /\ nodes' = nodes /\ zoneOrder' = zoneOrder /\ memory' = memory
        /\ modals' = modals /\ focus' = focus /\ saved' = saved
    BY <1>10 DEF focusVars, graph
  <2> QED BY <2>1, FocusedIs, FocusedIsNext
<1> QED BY <1>1, <1>2, <1>3, <1>4, <1>5, <1>6, <1>7, <1>8, <1>9, <1>10 DEF FocusNext

\* FocusController: everything is of its type, a node is registered once, and
\* the focus, the memory of the zones and the returns of modals agree with the
\* graph, for any specs that an application registers and any depth of modals.
THEOREM FocusInvariant == FocusSpec => []Focused
<1>1. FocusInit => Focused
  BY InitFocused
<1>2. Focused /\ [FocusNext]_focusVars => Focused'
  BY FocusStep
<1> QED BY <1>1, <1>2, PTL DEF FocusSpec

\* The focus, the returns of modals and the remembered nodes exist, and the
\* zones to cycle through are those that have nodes, each once.
THEOREM FocusNeverDangles == FocusSpec => []FocusIsConsistent
<1>1. Focused => FocusIsConsistent
  BY DEF Focused
<1> QED BY <1>1, FocusInvariant, PTL

\* A consistent state is what its own snapshot restores.
LEMMA RestoredIsTheSame ==
  ASSUME Focused
  PROVE  RestoringIsExact
<1> SUFFICES ASSUME focus # None, \A i \in DOMAIN modals : Has(nodes, modals[i].entry)
             PROVE  /\ RestoredFocus(Snapshot) = focus
                    /\ RestoredModals(Snapshot) = modals
                    /\ RestoredMemory(Snapshot) = memory
  BY DEF RestoringIsExact
<1>1. /\ GraphOK(nodes, zoneOrder) /\ MemoryOK(nodes, memory)
      /\ FocusOK(nodes, memory, focus) /\ ModalsOK(nodes, modals)
  BY FocusedIs
<1>2. Snapshot.focus = focus /\ Snapshot.modals = modals /\ Snapshot.memory = memory
  BY DEF Snapshot
<1>3. Has(nodes, focus) /\ memory[ZoneOf(nodes, focus)] = focus
  BY <1>1 DEF FocusOK
<1>4. RestoredFocus(Snapshot) = focus
  BY <1>2, <1>3 DEF RestoredFocus
<1>5. RestoredModals(Snapshot) = modals
  <2>1. modals \in Seq(Modals)
        /\ \A i \in DOMAIN modals : modals[i].returns # None => Has(nodes, modals[i].returns)
    BY <1>1 DEF ModalsOK
  <2> DEFINE I == {i \in DOMAIN modals : Has(nodes, modals[i].entry)}
             kept == Picked(modals, I)
  <2>2. I = DOMAIN modals
    OBVIOUS
  <2> HIDE DEF I
  <2>3. kept = modals
    BY <2>1, <2>2, PickedAll
  <2>4. RestoredModals(Snapshot) =
          [i \in DOMAIN kept |-> [kept[i] EXCEPT !.returns = ReturnOf(kept[i])]]
    BY <1>2 DEF RestoredModals, I
  <2> HIDE DEF kept
  <2>5. DOMAIN modals = 1..Len(modals) /\ Len(modals) \in Nat
        /\ \A i \in DOMAIN modals : modals[i] \in Modals
    BY <2>1, LenProperties, ElementOfSeq
  <2>6. \A i \in DOMAIN modals : ReturnOf(modals[i]) = modals[i].returns
    BY <2>1 DEF ReturnOf
  <2>7. \A i \in DOMAIN modals : [modals[i] EXCEPT !.returns = ReturnOf(modals[i])] = modals[i]
    BY <2>5, <2>6 DEF Modals
  <2>8. modals = [i \in DOMAIN modals |-> modals[i]]
    BY <2>1, SeqDef
  <2> QED BY <2>3, <2>4, <2>7, <2>8
<1>6. RestoredMemory(Snapshot) = memory
  <2>1. memory \in Memories
        /\ \A z \in Zones : memory[z] # None =>
             Has(nodes, memory[z]) /\ ZoneOf(nodes, memory[z]) = z
    BY <1>1 DEF MemoryOK
  <2>2. KeptMemory(Snapshot) = [z \in Zones |-> memory[z]]
    <3>1. KeptMemory(Snapshot) =
            [z \in Zones |-> IF Has(nodes, memory[z]) /\ ZoneOf(nodes, memory[z]) = z
                             THEN memory[z] ELSE None]
      BY <1>2 DEF KeptMemory
    <3>2. \A z \in Zones :
            (IF Has(nodes, memory[z]) /\ ZoneOf(nodes, memory[z]) = z
             THEN memory[z] ELSE None) = memory[z]
      BY <2>1
    <3> QED BY <3>1, <3>2
  <2>3. KeptMemory(Snapshot) = memory
    BY <2>1, <2>2 DEF Memories
  <2>4. RestoredMemory(Snapshot) = [memory EXCEPT ![ZoneOf(nodes, focus)] = focus]
    BY <1>4, <2>3 DEF RestoredMemory, Remember
  <2> QED BY <1>3, <2>1, <2>4 DEF Memories
<1> QED BY <1>4, <1>5, <1>6

\* A snapshot restored in the graph it was taken in gives back the focus, every
\* modal and the memory of every zone.
THEOREM RestoringGivesAll == FocusSpec => []RestoringIsExact
<1>1. Focused => RestoringIsExact
  BY RestoredIsTheSame
<1> QED BY <1>1, FocusInvariant, PTL
=============================================================================
