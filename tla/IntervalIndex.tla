--------------------------- MODULE IntervalIndex ---------------------------
(***************************************************************************)
(* The capacity index as it is built: for each resource three segment      *)
(* trees (IntervalCapacityIndex) that CapacityIndex keeps in step with its *)
(* entries.  Source: index.cpp.  Admission takes the index for a set of    *)
(* entries and a peak for a maximum of sums; the invariant here is that    *)
(* the trees answer just that.                                             *)
(*                                                                         *)
(* A node stands for the half-open range <<lo, hi>> it covers, so nodes is *)
(* a function of the ranges that were touched, each with the maximum below *)
(* it and the amount not yet handed down to its children.  live counts the *)
(* intervals in the tree.  Generations are tags here: erase is called with *)
(* entries that find_all returned, and erase_all goes by identity.         *)
(***************************************************************************)
EXTENDS Admission

CONSTANTS
  Horizon,          \* kMaxTimestampNs: the trees cover 0 to Horizon
  Saturation,       \* kIndexSaturation
  Demands           \* [kind, id, R, start, end, amount]: what holders ask for

Kinds == {"RESERVATION", "HOLD"}

ASSUME DemandsAssumption ==
  /\ Horizon \in Nat \ {0}
  /\ Saturation \in Nat
  /\ Demands \subseteq [kind : Kinds, id : Nat, R : SUBSET Resources, start : 0 .. Horizon,
                        end : 0 .. Horizon, amount : Nat \ {0}]
  /\ \A d \in Demands : d.start < d.end

VARIABLES
  entries,          \* the entries, at most one per holder and resource
  trees             \* resource with entries -> its three trees

ivars == <<entries, trees>>

----------------------------------------------------------------------------
(* One segment tree.                                                       *)

Root == <<0, Horizon>>

Mid(n) == n[1] + (n[2] - n[1]) \div 2

LeftOf(n) == <<n[1], Mid(n)>>

RightOf(n) == <<Mid(n), n[2]>>

Outside(n, w) == w.end <= n[1] \/ n[2] <= w.start

Inside(n, w) == w.start <= n[1] /\ n[2] <= w.end

SaturatingAdd(a, b) ==
  IF a + b > Saturation THEN Saturation
  ELSE IF a + b < -Saturation THEN -Saturation
  ELSE a + b

Untouched == [max |-> 0, lazy |-> 0]

Raised(node, d) == [max |-> SaturatingAdd(node.max, d), lazy |-> SaturatingAdd(node.lazy, d)]

\* The children are made where they are missing and take over what the node had
\* not handed down.
PushedDown(nodes, n) ==
  LET kids    == {LeftOf(n), RightOf(n)}
      made(m) == IF m \in DOMAIN nodes THEN nodes[m] ELSE Untouched
  IN  [m \in DOMAIN nodes \cup kids |->
         IF m \in kids THEN Raised(made(m), nodes[n].lazy)
         ELSE IF m = n THEN [nodes[n] EXCEPT !.lazy = 0]
         ELSE nodes[m]]

RECURSIVE AddAt(_, _, _, _)
AddAt(nodes, n, w, d) ==
  IF Outside(n, w) THEN nodes
  ELSE IF Inside(n, w) THEN [nodes EXCEPT ![n] = Raised(@, d)]
  ELSE LET both == AddAt(AddAt(PushedDown(nodes, n), LeftOf(n), w, d), RightOf(n), w, d)
       IN  [both EXCEPT ![n].max = Max({both[LeftOf(n)].max, both[RightOf(n)].max})]

\* A mutant: what was left with the ancestors of an untouched range is dropped.
RECURSIVE QueryAtDroppingCarry(_, _, _, _)
QueryAtDroppingCarry(nodes, n, w, carry) ==
  IF Outside(n, w) THEN {}
  ELSE IF n \notin DOMAIN nodes THEN {0}
  ELSE IF Inside(n, w) THEN {SaturatingAdd(carry, nodes[n].max)}
  ELSE LET down == SaturatingAdd(carry, nodes[n].lazy)
       IN  QueryAtDroppingCarry(nodes, LeftOf(n), w, down)
             \cup QueryAtDroppingCarry(nodes, RightOf(n), w, down)

\* The values query takes the maximum of, none where it says kNoValue.
RECURSIVE QueryAt(_, _, _, _)
QueryAt(nodes, n, w, carry) ==
  IF Outside(n, w) THEN {}
  ELSE IF n \notin DOMAIN nodes THEN {carry}
  ELSE IF Inside(n, w) THEN {SaturatingAdd(carry, nodes[n].max)}
  ELSE LET down == SaturatingAdd(carry, nodes[n].lazy)
       IN  QueryAt(nodes, LeftOf(n), w, down) \cup QueryAt(nodes, RightOf(n), w, down)

TreePeak(tree, w) ==
  LET found == QueryAt(tree.nodes, Root, w, 0)
  IN  IF w.end <= w.start \/ DOMAIN tree.nodes = {} \/ found = {} THEN 0 ELSE Max(found)

\* The constructor makes the root; reset leaves none, and add makes it again.
FreshTree == [nodes |-> [n \in {Root} |-> Untouched], live |-> 0]

Added(tree, e) ==
  LET nodes == IF DOMAIN tree.nodes = {} THEN FreshTree.nodes ELSE tree.nodes
  IN  [nodes |-> AddAt(nodes, Root, e, e.amount), live |-> tree.live + 1]

Removed(tree, e) ==
  IF DOMAIN tree.nodes = {} THEN tree
  ELSE IF tree.live <= 1 THEN [nodes |-> <<>>, live |-> 0]
  ELSE [nodes |-> AddAt(tree.nodes, Root, e, -e.amount), live |-> tree.live - 1]

----------------------------------------------------------------------------
(* The resource-keyed index.                                               *)

FreshState == [committed |-> FreshTree, holds |-> FreshTree, combined |-> FreshTree]

StateWith(state, e) ==
  [committed |-> IF e.kind = "RESERVATION" THEN Added(state.committed, e) ELSE state.committed,
   holds     |-> IF e.kind = "HOLD" THEN Added(state.holds, e) ELSE state.holds,
   combined  |-> Added(state.combined, e)]

StateWithout(state, e) ==
  [committed |-> IF e.kind = "RESERVATION" THEN Removed(state.committed, e) ELSE state.committed,
   holds     |-> IF e.kind = "HOLD" THEN Removed(state.holds, e) ELSE state.holds,
   combined  |-> Removed(state.combined, e)]

EntriesOf(d) ==
  {[kind |-> d.kind, id |-> d.id, res |-> r, start |-> d.start, end |-> d.end,
    amount |-> d.amount] : r \in d.R}

Occupied(es, e) == \E x \in es : x.kind = e.kind /\ x.id = e.id /\ x.res = e.res

\* The trees with the entries of A, and without those of B; a resource whose
\* last entry leaves is dropped with its trees.
TreesWith(ts, A) ==
  [r \in DOMAIN ts \cup {e.res : e \in A} |->
     LET old  == IF r \in DOMAIN ts THEN ts[r] ELSE FreshState
         here == On(A, r)
     IN  IF here = {} THEN old ELSE StateWith(old, CHOOSE e \in here : TRUE)]

TreesWithout(ts, es, B) ==
  [r \in {x \in DOMAIN ts : On(es, x) \ B # {}} |->
     LET here == On(B, r)
     IN  IF here = {} THEN ts[r] ELSE StateWithout(ts[r], CHOOSE e \in here : TRUE)]

Owned(kind, id) == {e \in entries : e.kind = kind /\ e.id = id}

IInit ==
  /\ entries = {}
  /\ trees = <<>>

\* What the coordinator has admitted never reaches the saturation.
Admissible(es) ==
  \A r \in Resources, s \in 0 .. Horizon - 1 : Load(On(es, r), s) <= Saturation

Insert(e) ==
  /\ ~Occupied(entries, e)
  /\ Admissible(entries \cup {e})
  /\ entries' = entries \cup {e}
  /\ trees' = TreesWith(trees, {e})

Erase(e) ==
  /\ entries' = entries \ {e}
  /\ trees' = TreesWithout(trees, entries, {e})

EraseAll(kind, id) ==
  /\ Owned(kind, id) # {}
  /\ entries' = entries \ Owned(kind, id)
  /\ trees' = TreesWithout(trees, entries, Owned(kind, id))

ReplaceAll(d) ==
  LET gone == Owned(d.kind, d.id)
  IN  /\ Admissible((entries \ gone) \cup EntriesOf(d))
      /\ entries' = (entries \ gone) \cup EntriesOf(d)
      /\ trees' = TreesWith(TreesWithout(trees, entries, gone), EntriesOf(d))

Clear ==
  /\ entries # {}
  /\ entries' = {}
  /\ trees' = <<>>

INext ==
  \/ \E d \in Demands : \E e \in EntriesOf(d) : Insert(e)
  \/ \E e \in entries : Erase(e)
  \/ \E d \in Demands : EraseAll(d.kind, d.id)
  \/ \E d \in Demands : ReplaceAll(d)
  \/ Clear

ISpec == IInit /\ [][INext]_ivars

----------------------------------------------------------------------------
(* Properties.                                                             *)

IndexWindows == {w \in [start : 0 .. Horizon, end : 0 .. Horizon + 1] : w.start < w.end}

Committed == {e \in entries : e.kind = "RESERVATION"}

Provisional == {e \in entries : e.kind = "HOLD"}

\* The trees are exact: over every window the peaks that peak_committed,
\* peak_holds and peak_combined read off them are the peaks of the entries, as
\* Admission takes them, whatever was added, removed and handed down before, and
\* up to the saturation (index.cpp against the oracle of its tests).
PeaksExact ==
  \A r \in Resources, w \in IndexWindows :
    LET known    == r \in DOMAIN trees
        peak(t)  == IF known THEN TreePeak(t, w) ELSE 0
        state    == IF known THEN trees[r] ELSE FreshState
    IN  /\ peak(state.committed) = PeakCommitted(On(Committed, r), w)
        /\ peak(state.holds) = PeakCommitted(On(Provisional, r), w)
        /\ peak(state.combined) = PeakCombined(On(Committed, r), On(Provisional, r), w)

=============================================================================
