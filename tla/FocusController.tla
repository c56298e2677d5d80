-------------------------- MODULE FocusController --------------------------
(***************************************************************************)
(* Which node has the focus, in a graph that the application changes while *)
(* the user moves through it: neighbours, zones that remember their last   *)
(* focus, nested modals, and snapshots that are restored when the graph    *)
(* may have become another one.                                            *)
(***************************************************************************)
EXTENDS Integers, FiniteSets, Sequences, SequencesExt, Picks

CONSTANTS
  Nodes, Zones,
  Specs,        \* the specs an application registers: [id, zone, neighbors]
  None,         \* the empty id
  MaxModals     \* modals that are open at a time

Directions == <<"up", "down", "left", "right">>   \* the order of a removal's search

ASSUME NoneAssumption == None \notin Nodes
ASSUME SpecsAssumption ==
  Specs \subseteq [id : Nodes, zone : Zones, neighbors : [{"up", "down", "left", "right"} -> Nodes \cup {None}]]

VARIABLES
  nodes,       \* nodes_, in the order of registration
  zoneOrder,   \* zoneOrder_
  memory,      \* zoneLastFocused_
  modals,      \* modalStack_: whom a modal entered, and where it returns to
  focus,       \* currentFocusId_
  saved        \* a snapshot that the application has taken

graph == <<nodes, zoneOrder>>
focusVars == <<graph, memory, modals, focus, saved>>

NoSnapshot == [focus |-> None, modals |-> <<>>, memory |-> [z \in Zones |-> None]]

FocusInit ==
  /\ nodes = <<>> /\ zoneOrder = <<>>
  /\ memory = NoSnapshot.memory /\ modals = <<>> /\ focus = None
  /\ saved = NoSnapshot

-----------------------------------------------------------------------------
(* The graph                                                               *)

Ids(ns) == {ns[i].id : i \in DOMAIN ns}
Has(ns, id) == id \in Ids(ns)
SpecOf(ns, id) == ns[CHOOSE i \in DOMAIN ns : ns[i].id = id]
ZoneOf(ns, id) == SpecOf(ns, id).zone
InZone(ns, z) == Picked(ns, {i \in DOMAIN ns : ns[i].zone = z})
WithoutNode(ns, id) == Picked(ns, {i \in DOMAIN ns : ns[i].id # id})
ZonesOf(ns) == {ns[i].zone : i \in DOMAIN ns}
FirstOr(ns, other) == IF ns = <<>> THEN other ELSE Head(ns).id
First == FirstOr(nodes, None)

\* setCurrentFocus(), which remembers only a focus that is new.
Remember(m, id) == [m EXCEPT ![ZoneOf(nodes, id)] = id]
SetFocus(id, m) ==
  /\ focus' = id
  /\ memory' = IF id = focus \/ id = None THEN m ELSE Remember(m, id)

\* A zone without nodes is neither cycled to nor remembered.
WithNodes(zones, ns) == Picked(zones, {i \in DOMAIN zones : zones[i] \in ZonesOf(ns)})
Pruned(zones, z, ns) ==
  IF z \in ZonesOf(ns) THEN zones
  ELSE Picked(zones, {i \in DOMAIN zones : zones[i] # z})

-----------------------------------------------------------------------------
(* registerNode() and removeNode()                                         *)

\* Mutant: the zone that the focus is moved to does not learn of it.
ForgottenFocus(m, spec) == m
MovedFocus(m, spec) == [m EXCEPT ![spec.zone] = IF focus = spec.id THEN focus ELSE @]

\* A node keeps its place in the order when it is registered again.
Register(spec) ==
  LET was == Has(nodes, spec.id)
      now == IF was THEN [i \in DOMAIN nodes |-> IF nodes[i].id = spec.id THEN spec
                                                ELSE nodes[i]]
             ELSE Append(nodes, spec)
      zones == IF Contains(zoneOrder, spec.zone) THEN zoneOrder
               ELSE Append(zoneOrder, spec.zone)
      from == ZoneOf(nodes, spec.id)
      forgotten == [memory EXCEPT ![from] =
                      IF @ = spec.id \/ from \notin ZonesOf(now) THEN None ELSE @]
  IN  /\ nodes' = now
      /\ IF was /\ from # spec.zone
         THEN /\ zoneOrder' = Pruned(zones, from, now)
              /\ memory' = MovedFocus(forgotten, spec)
         ELSE zoneOrder' = zones /\ UNCHANGED memory
      /\ UNCHANGED <<modals, focus, saved>>

\* Where the focus goes that was on a removed node: the given node, a
\* neighbour, the first of its zone that is left, or nowhere.
Fallback(removed, left, given) ==
  LET neighbours == [i \in DOMAIN Directions |-> removed.neighbors[Directions[i]]]
      asked == <<given>> \o neighbours
      present == Picked(asked, {i \in DOMAIN asked : Has(left, asked[i])})
  IN  IF present # <<>> THEN Head(present)
      ELSE FirstOr(InZone(left, removed.zone), None)

RemoveNode(id, given) ==
  /\ Has(nodes, id)
  /\ LET left == WithoutNode(nodes, id)
         to == Fallback(SpecOf(nodes, id), left, given)
         zone == ZoneOf(nodes, id)
         forgotten == [z \in Zones |->
                         IF memory[z] = id \/ (z = zone /\ zone \notin ZonesOf(left))
                         THEN None ELSE memory[z]]
     IN  /\ nodes' = left
         /\ zoneOrder' = Pruned(zoneOrder, zone, left)
         /\ modals' = [i \in DOMAIN modals |->
                         IF modals[i].returns = id THEN [modals[i] EXCEPT !.returns = to]
                         ELSE modals[i]]
         /\ IF focus = id THEN SetFocus(to, forgotten)
            ELSE UNCHANGED focus /\ memory' = forgotten
  /\ UNCHANGED saved

-----------------------------------------------------------------------------
(* Moving                                                                  *)

SetInitialFocus(id) ==
  /\ modals = <<>> /\ Has(nodes, id)
  /\ SetFocus(id, memory)
  /\ UNCHANGED <<graph, modals, saved>>

\* The next in the order of the zone, or the one before.
Neighbour(direction) == SpecOf(nodes, focus).neighbors[direction]
WrapsTo(direction) ==
  LET zone == InZone(nodes, ZoneOf(nodes, focus))
      i == CHOOSE i \in DOMAIN zone : zone[i].id = focus
  IN  IF direction \in {"right", "down"} THEN zone[(i % Len(zone)) + 1].id
      ELSE zone[((i - 2 + Len(zone)) % Len(zone)) + 1].id

\* Only without a neighbour is there wrapping, and only without that a geometry
\* fallback, which may name any node.  Both are set and unset at any time: a
\* move may find either in force.
MoveFocus(direction) ==
  /\ Has(nodes, focus)
  /\ \/ Has(nodes, Neighbour(direction)) /\ SetFocus(Neighbour(direction), memory)
     \/ ~Has(nodes, Neighbour(direction)) /\ SetFocus(WrapsTo(direction), memory)
     \/ /\ ~Has(nodes, Neighbour(direction))
        /\ \E id \in Ids(nodes) : SetFocus(id, memory)
  /\ UNCHANGED <<graph, modals, saved>>

\* From the zone of the focus, or from before the first and after the last.
CycleTarget(from, m, forward) ==
  LET zones == WithNodes(zoneOrder, nodes)
      i == IF from = None THEN (IF forward THEN 0 ELSE Len(zones) + 1)
           ELSE CHOOSE i \in DOMAIN zones : zones[i] = ZoneOf(nodes, from)
      z == IF forward THEN zones[(i % Len(zones)) + 1]
           ELSE zones[((i - 2 + Len(zones)) % Len(zones)) + 1]
  IN  IF Has(nodes, m[z]) /\ ZoneOf(nodes, m[z]) = z THEN m[z]
      ELSE Head(InZone(nodes, z)).id

CycleZone(forward) ==
  /\ Len(WithNodes(zoneOrder, nodes)) >= 2
  /\ SetFocus(CycleTarget(focus, memory, forward), memory)
  /\ UNCHANGED <<graph, modals, saved>>

-----------------------------------------------------------------------------
(* Modals                                                                  *)

PushModal(id) ==
  /\ Has(nodes, id) /\ Len(modals) < MaxModals
  /\ modals' = Append(modals, [entry |-> id, returns |-> focus])
  /\ SetFocus(id, memory)
  /\ UNCHANGED <<graph, saved>>

PopModal ==
  /\ modals # <<>>
  /\ modals' = Front(modals)
  /\ LET to == Last(modals).returns
     IN  SetFocus(IF to = None \/ Has(nodes, to) THEN to ELSE First, memory)
  /\ UNCHANGED <<graph, saved>>

-----------------------------------------------------------------------------
(* Snapshots                                                               *)

Snapshot == [focus |-> focus, modals |-> modals, memory |-> memory]

TakeSnapshot == saved' = Snapshot /\ UNCHANGED <<graph, memory, modals, focus>>

\* What is left of a snapshot in the graph that is: a modal whose entry is gone
\* is closed, and one whose return is gone returns to the first node.
\* Mutant: no return is taken for one that is gone.
ReturnOfAny(modal) == IF Has(nodes, modal.returns) THEN modal.returns ELSE First
ReturnOf(modal) ==
  IF modal.returns = None \/ Has(nodes, modal.returns) THEN modal.returns ELSE First
RestoredModals(snapshot) ==
  LET kept == Picked(snapshot.modals,
                     {i \in DOMAIN snapshot.modals : Has(nodes, snapshot.modals[i].entry)})
  IN  [i \in DOMAIN kept |-> [kept[i] EXCEPT !.returns = ReturnOf(kept[i])]]
RestoredFocus(snapshot) ==
  CASE Has(nodes, snapshot.focus) -> snapshot.focus
    [] ~Has(nodes, snapshot.focus) /\ RestoredModals(snapshot) # <<>> ->
         Last(RestoredModals(snapshot)).entry
    [] OTHER -> First
KeptMemory(snapshot) ==
  [z \in Zones |-> IF /\ Has(nodes, snapshot.memory[z])
                      /\ ZoneOf(nodes, snapshot.memory[z]) = z
                   THEN snapshot.memory[z] ELSE None]
RestoredMemory(snapshot) ==
  LET to == RestoredFocus(snapshot)
  IN  IF to = None THEN KeptMemory(snapshot) ELSE Remember(KeptMemory(snapshot), to)

RestoreSnapshot ==
  /\ modals' = RestoredModals(saved)
  /\ SetFocus(RestoredFocus(saved), RestoredMemory(saved))
  /\ UNCHANGED <<graph, saved>>

FocusNext ==
  \/ \E spec \in Specs : Register(spec)
  \/ \E id \in Nodes, given \in Nodes \cup {None} : RemoveNode(id, given)
  \/ \E id \in Nodes : SetInitialFocus(id) \/ PushModal(id)
  \/ \E i \in DOMAIN Directions : MoveFocus(Directions[i])
  \/ \E on \in BOOLEAN : CycleZone(on)
  \/ PopModal \/ TakeSnapshot \/ RestoreSnapshot

FocusSpec == FocusInit /\ [][FocusNext]_focusVars

-----------------------------------------------------------------------------
(* Properties                                                              *)

\* Whatever was removed, moved to another zone or restored: the focus and the
\* returns of modals exist, each zone remembers a node of its own, that of the
\* focus remembers the focus, and the zones to cycle through are those that
\* have nodes, each once.
FocusIsConsistent ==
  /\ focus # None => Has(nodes, focus) /\ memory[ZoneOf(nodes, focus)] = focus
  /\ \A i \in DOMAIN modals : modals[i].returns # None => Has(nodes, modals[i].returns)
  /\ \A z \in Zones : memory[z] # None => Has(nodes, memory[z]) /\ ZoneOf(nodes, memory[z]) = z
  /\ IsInjective(zoneOrder) /\ ToSet(zoneOrder) = ZonesOf(nodes)

\* A snapshot that is restored in the graph it was taken in restores all, the
\* modals that were opened without a focus included.
RestoringIsExact ==
  focus # None /\ (\A i \in DOMAIN modals : Has(nodes, modals[i].entry))
    => /\ RestoredFocus(Snapshot) = focus
       /\ RestoredModals(Snapshot) = modals
       /\ RestoredMemory(Snapshot) = memory

\* Why that is: everything is of its type, and a node is registered once.
Modals == [entry : Nodes, returns : Nodes \cup {None}]
Snapshots ==
  [focus : Nodes \cup {None}, modals : Seq(Modals), memory : [Zones -> Nodes \cup {None}]]
FocusTypeOK ==
  /\ nodes \in Seq(Specs) /\ zoneOrder \in Seq(Zones)
  /\ Snapshot \in Snapshots /\ saved \in Snapshots
Once(ns) == \A i, j \in DOMAIN ns : ns[i].id = ns[j].id => i = j
RegisteredOnce == Once(nodes)
Focused == FocusTypeOK /\ RegisteredOnce /\ FocusIsConsistent
=============================================================================
