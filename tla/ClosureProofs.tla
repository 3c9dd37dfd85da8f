--------------------------- MODULE ClosureProofs ---------------------------
(***************************************************************************)
(* That capacity is never promised twice, for every set of resources,      *)
(* identities and requests.  Three theorems: a snapshot that leaves a      *)
(* resource unable to carry a commitment leaves it in an emergency; a new  *)
(* generation is admitted only into what is left; and a live resource      *)
(* outside an emergency is never overbooked.                               *)
(*                                                                         *)
(* The code assesses a request by the highest peak over the window, a      *)
(* maximum of sums.  Sums and peaks first: a sum grows with its set, adds  *)
(* up over a partition and splits off an element, and the peak over a      *)
(* window is the load at one of the starts in it and bounds the load at    *)
(* every instant of it.  From then on a resource has room, Fit below, when *)
(* its load is within the ceiling at every instant, with no windows left   *)
(* to speak of; and each step is shown to add no load, or to have assessed *)
(* what it adds next to all that is there.                                 *)
(*                                                                         *)
(* A step that re-derives assesses several commitments one after another,  *)
(* each next to those before it.  The one that comes last was assessed     *)
(* next to all the others, which is why the order of a pass is followed    *)
(* here (NewFits).                                                         *)
(*                                                                         *)
(* The hypotheses name what the code does not assess: entries it counts    *)
(* again after the resource has come back or a recall was cut short        *)
(* (TakenBack), a hold asked for twice, and a snapshot refused half way.   *)
(***************************************************************************)
EXTENDS AuthorityProofs

----------------------------------------------------------------------------
(* Sums.  A sum is computed by a recursive function over the subsets of a  *)
(* set, which takes away one element after another.                        *)

\* What the entries of S amount to.
Sum(S) == MapThenSumSet(LAMBDA e : e.amount, S)

\* The sums are of finitely many amounts.
Weighed(S) == IsFiniteSet(S) /\ \A e \in S : e.amount \in Nat

\* The element that is taken away first.
First(T) == CHOOSE x \in T : TRUE

\* f computes the sum of each of the sets D.
Summing(D, f) ==
  f = [T \in D |-> IF T = {} THEN 0 ELSE First(T).amount + f[T \ {First(T)}]]

\* Among subsets of a finite set there is one that contains no other of them: one
\* with the fewest elements.
LEMMA MinimalSet ==
  ASSUME NEW S, IsFiniteSet(S), NEW B \in SUBSET SUBSET S, B # {}
  PROVE  \E U \in B : \A V \in B : V \subseteq U => V = U
<1> DEFINE Sizes == {Cardinality(U) : U \in B}
<1>1. \A U \in B : IsFiniteSet(U) /\ Cardinality(U) \in Nat
  BY FS_Subset, FS_CardinalityType
<1>2. Sizes \in SUBSET Nat /\ Sizes # {}
  BY <1>1
<1>3. Min(Sizes) \in Sizes /\ \A c \in Sizes : Min(Sizes) <= c
  <2> HIDE DEF Sizes
  <2> QED
    BY <1>2, LeastNatural
<1>4. PICK U \in B : \A V \in B : Cardinality(U) <= Cardinality(V)
  <2>1. PICK U \in B : Cardinality(U) = Min(Sizes)
    BY <1>3
  <2> QED
    BY <1>3, <2>1
<1>5. ASSUME NEW V \in B, V \subseteq U PROVE V = U
  <2>1. Cardinality(V) <= Cardinality(U) /\ (Cardinality(U) = Cardinality(V) => U = V)
    BY <1>1, <1>5, FS_Subset
  <2> QED
    BY <1>1, <1>4, <2>1
<1> QED
  BY <1>5

\* There is such a function for the sets of at most n elements, and so for all.
LEMMA SummingExists ==
  ASSUME NEW S, IsFiniteSet(S)
  PROVE  \E f : Summing(SUBSET S, f)
<1> DEFINE D(n) == {T \in SUBSET S : Cardinality(T) <= n}
           Bad  == {n \in Nat : ~ \E f : Summing(D(n), f)}
           m    == Min(Bad)
<1>1. \A T \in SUBSET S : IsFiniteSet(T) /\ Cardinality(T) \in Nat /\ Cardinality(T) <= Cardinality(S)
  BY FS_Subset, FS_CardinalityType
<1>2. Bad = {}
  <2> SUFFICES ASSUME Bad # {} PROVE FALSE
    OBVIOUS
  <2>1. m \in Bad /\ \A n \in Bad : m <= n
    <3>1. Bad \in SUBSET Nat
      OBVIOUS
    <3> HIDE DEF Bad
    <3> QED
      BY <3>1, LeastNatural
  <2>2. m \in Nat
    BY <2>1
  <2> HIDE DEF m
  <2>3. CASE m = 0
    <3> DEFINE f == [T \in D(0) |-> 0]
    <3>1. \A T \in D(0) : T = {}
      BY <1>1, FS_EmptySet
    <3>2. Summing(D(0), f)
      BY <3>1 DEF Summing
    <3> QED
      BY <2>1, <2>3, <3>2
  <2>4. CASE m # 0
    <3>a. m - 1 \in Nat /\ ~(m <= m - 1)
      BY <2>2, <2>4
    <3>b. m - 1 \notin Bad
      <4> HIDE DEF Bad
      <4> QED
        BY <2>1, <3>a
    <3>2. PICK g : Summing(D(m - 1), g)
      BY <3>a, <3>b
    <3> DEFINE f == [T \in D(m) |-> IF T = {} THEN 0 ELSE First(T).amount + g[T \ {First(T)}]]
    <3>3. ASSUME NEW T \in D(m), T # {}
          PROVE  T \ {First(T)} \in D(m - 1)
      <4>1. First(T) \in T
        BY <3>3 DEF First
      <4>2. Cardinality(T \ {First(T)}) = Cardinality(T) - 1
        BY <1>1, <4>1, FS_RemoveElement
      <4> QED
        BY <1>1, <2>2, <4>2
    <3>4. ASSUME NEW T \in D(m - 1) PROVE T \in D(m) /\ f[T] = g[T]
      <4>1. T \in D(m)
        BY <1>1, <2>2
      <4>2. g[T] = IF T = {} THEN 0 ELSE First(T).amount + g[T \ {First(T)}]
        BY <3>2 DEF Summing
      <4> QED
        BY <4>1, <4>2
    <3>5. \A T \in D(m) : T # {} => f[T \ {First(T)}] = g[T \ {First(T)}]
      BY <3>3, <3>4
    <3>6. Summing(D(m), f)
      <4>1. \A T \in D(m) : (IF T = {} THEN 0 ELSE First(T).amount + g[T \ {First(T)}])
                            = (IF T = {} THEN 0 ELSE First(T).amount + f[T \ {First(T)}])
        BY <3>5
      <4> HIDE DEF D
      <4> QED
        BY <4>1 DEF Summing
    <3> QED
      BY <2>1, <3>6
  <2> QED
    BY <2>3, <2>4
<1>3. D(Cardinality(S)) = SUBSET S
  BY <1>1
<1>4. Cardinality(S) \in Nat
  BY FS_CardinalityType
<1>5. Cardinality(S) \notin Bad
  BY <1>2
<1>6. \E f : Summing(D(Cardinality(S)), f)
  BY <1>4, <1>5
<1> HIDE DEF D
<1> QED
  BY <1>3, <1>6

\* A sum is what any such function computes.
LEMMA SumIs ==
  ASSUME NEW S, IsFiniteSet(S)
  PROVE  \E f : Summing(SUBSET S, f) /\ Sum(S) = f[S]
<1> DEFINE g == CHOOSE f : Summing(SUBSET S, f)
<1>1. Summing(SUBSET S, g)
  BY SummingExists
<1>2. Sum(S) = g[S]
  BY DEF Sum, MapThenSumSet, MapThenFoldSet, Summing, First
<1> QED
  BY <1>1, <1>2

\* Whichever set it was made for.
LEMMA SumAgrees ==
  ASSUME NEW S, IsFiniteSet(S), NEW f, Summing(SUBSET S, f), NEW T \in SUBSET S
  PROVE  Sum(T) = f[T]
<1>1. IsFiniteSet(T)
  BY FS_Subset
<1>2. PICK g : Summing(SUBSET T, g) /\ Sum(T) = g[T]
  BY <1>1, SumIs
<1> DEFINE Bad == {U \in SUBSET T : g[U] # f[U]}
<1>3. Bad = {}
  <2> SUFFICES ASSUME Bad # {} PROVE FALSE
    OBVIOUS
  <2>1. Bad \in SUBSET SUBSET T
    OBVIOUS
  <2>2. PICK U \in Bad : \A V \in Bad : V \subseteq U => V = U
    <3> HIDE DEF Bad
    <3> QED
      BY <1>1, <2>1, MinimalSet
  <2>3. U \in SUBSET T /\ U \in SUBSET S /\ g[U] # f[U]
    OBVIOUS
  <2>4. /\ g[U] = IF U = {} THEN 0 ELSE First(U).amount + g[U \ {First(U)}]
        /\ f[U] = IF U = {} THEN 0 ELSE First(U).amount + f[U \ {First(U)}]
    BY <1>2, <2>3 DEF Summing
  <2>5. U # {} /\ U \ {First(U)} \in Bad /\ First(U) \in U
    BY <2>3, <2>4 DEF First
  <2> HIDE DEF Bad
  <2> QED
    BY <2>2, <2>5
<1> QED
  BY <1>2, <1>3

\* The sum of nothing, and the sum with one element taken away.
LEMMA SumFirst ==
  ASSUME NEW S, IsFiniteSet(S)
  PROVE  /\ S = {} => Sum(S) = 0
         /\ S # {} => First(S) \in S /\ Sum(S) = First(S).amount + Sum(S \ {First(S)})
<1>1. PICK f : Summing(SUBSET S, f) /\ Sum(S) = f[S]
  BY SumIs
<1>2. f[S] = IF S = {} THEN 0 ELSE First(S).amount + f[S \ {First(S)}]
  BY <1>1 DEF Summing
<1>3. Sum(S \ {First(S)}) = f[S \ {First(S)}]
  BY <1>1, SumAgrees
<1>4. S # {} => First(S) \in S
  BY DEF First
<1> QED
  BY <1>1, <1>2, <1>3, <1>4

\* Any element may be the one that is taken away.
LEMMA SumRemove ==
  ASSUME NEW S, Weighed(S)
  PROVE  Sum(S) \in Nat /\ \A x \in S : Sum(S) = x.amount + Sum(S \ {x})
<1> DEFINE Good(U) == Sum(U) \in Nat /\ \A x \in U : Sum(U) = x.amount + Sum(U \ {x})
           Bad     == {U \in SUBSET S : ~Good(U)}
<1>1. \A U \in SUBSET S : IsFiniteSet(U) /\ \A x \in U : x.amount \in Nat
  BY FS_Subset DEF Weighed
<1>2. Bad = {}
  <2> SUFFICES ASSUME Bad # {} PROVE FALSE
    OBVIOUS
  <2>1. Bad \in SUBSET SUBSET S
    OBVIOUS
  <2>2. PICK U \in Bad : \A V \in Bad : V \subseteq U => V = U
    <3> HIDE DEF Bad
    <3> QED
      BY <2>1, MinimalSet DEF Weighed
  <2>3. U \in SUBSET S /\ ~Good(U) /\ IsFiniteSet(U) /\ \A x \in U : x.amount \in Nat
    BY <1>1
  <2>4. ASSUME NEW V \in SUBSET U, V # U PROVE Good(V)
    <3>1. V \notin Bad
      <4> HIDE DEF Bad
      <4> QED
        BY <2>2, <2>4
    <3> HIDE DEF Good
    <3> QED
      BY <2>3, <3>1
  <2>5. CASE U = {}
    <3>1. Sum(U) = 0
      BY <2>3, <2>5, SumFirst
    <3> QED
      BY <2>3, <2>5, <3>1
  <2>6. CASE U # {}
    <3> DEFINE y == First(U)
    <3>1. y \in U /\ Sum(U) = y.amount + Sum(U \ {y})
      BY <2>3, <2>6, SumFirst
    <3> HIDE DEF y
    <3>2. Good(U \ {y})
      BY <2>4, <3>1
    <3>3. Sum(U) \in Nat
      BY <2>3, <3>1, <3>2
    <3>4. ASSUME NEW x \in U PROVE Sum(U) = x.amount + Sum(U \ {x})
      <4>1. CASE x = y
        BY <3>1, <4>1
      <4>2. CASE x # y
        <5> DEFINE rest == Sum((U \ {y}) \ {x})
        <5>1. (U \ {x}) \ {y} = (U \ {y}) \ {x} /\ (U \ {y}) \ {x} # U
          OBVIOUS
        <5>2. Good(U \ {x}) /\ Good((U \ {y}) \ {x})
          BY <2>4, <5>1
        <5>3. rest \in Nat /\ x.amount \in Nat /\ y.amount \in Nat
          BY <2>3, <3>1, <5>2
        <5>4. Sum(U \ {y}) = x.amount + rest /\ Sum(U \ {x}) = y.amount + rest
          BY <3>1, <3>2, <4>2, <5>1, <5>2
        <5> HIDE DEF rest
        <5> QED
          BY <3>1, <5>3, <5>4
      <4> QED
        BY <4>1, <4>2
    <3> QED
      BY <2>3, <3>3, <3>4
  <2> QED
    BY <2>5, <2>6
<1>3. S \notin Bad
  BY <1>2
<1> HIDE DEF Good
<1>4. Good(S)
  BY <1>3
<1> QED
  BY <1>4 DEF Good

\* A part weighs no more than the whole.
LEMMA SumSubset ==
  ASSUME NEW S, Weighed(S), NEW T \in SUBSET S
  PROVE  Weighed(T) /\ Sum(T) <= Sum(S)
<1>1. \A U \in SUBSET S : Weighed(U)
  BY FS_Subset DEF Weighed
<1> DEFINE Bad == {U \in SUBSET S : T \subseteq U /\ ~(Sum(T) <= Sum(U))}
<1> SUFFICES ASSUME Bad # {} PROVE FALSE
  BY <1>1
<1>2. Bad \in SUBSET SUBSET S
  OBVIOUS
<1>3. PICK U \in Bad : \A V \in Bad : V \subseteq U => V = U
  <2> HIDE DEF Bad
  <2> QED
    BY <1>2, MinimalSet DEF Weighed
<1>4. U \in SUBSET S /\ T \subseteq U /\ ~(Sum(T) <= Sum(U))
  OBVIOUS
<1>5. Sum(T) \in Nat /\ Sum(U) \in Nat
  BY <1>1, <1>4, SumRemove
<1>6. PICK x \in U : x \notin T
  BY <1>4, <1>5
<1>7. U \ {x} \notin Bad
  <2> HIDE DEF Bad
  <2> QED
    BY <1>3
<1>8. Sum(T) <= Sum(U \ {x})
  BY <1>4, <1>6, <1>7
<1>9. Sum(U) = x.amount + Sum(U \ {x}) /\ x.amount \in Nat /\ Sum(U \ {x}) \in Nat
  BY <1>1, <1>4, SumRemove DEF Weighed
<1> QED
  BY <1>4, <1>5, <1>8, <1>9

\* A set whose elements each have one of their own in another set, no lighter than
\* they are, weighs no more than that set.
LEMMA SumInjective ==
  ASSUME NEW A, Weighed(A), NEW B, Weighed(B), NEW f \in [A -> B],
         \A x, y \in A : f[x] = f[y] => x = y,
         \A x \in A : x.amount <= f[x].amount
  PROVE  Sum(A) <= Sum(B)
<1> DEFINE Img(U) == {f[x] : x \in U}
           Bad    == {U \in SUBSET A : ~(Sum(U) <= Sum(Img(U)))}
<1>1. /\ \A U \in SUBSET A : Weighed(U) /\ Img(U) \in SUBSET B
      /\ \A V \in SUBSET B : Weighed(V)
  BY SumSubset
<1>2. Bad = {}
  <2> SUFFICES ASSUME Bad # {} PROVE FALSE
    OBVIOUS
  <2>1. Bad \in SUBSET SUBSET A
    OBVIOUS
  <2>2. PICK U \in Bad : \A V \in Bad : V \subseteq U => V = U
    <3> HIDE DEF Bad
    <3> QED
      BY <2>1, MinimalSet DEF Weighed
  <2>3. U \in SUBSET A /\ ~(Sum(U) <= Sum(Img(U)))
    OBVIOUS
  <2>4. Weighed(U) /\ Weighed(Img(U)) /\ Sum(U) \in Nat /\ Sum(Img(U)) \in Nat
    BY <1>1, <2>3, SumRemove
  <2>5. PICK x \in U : TRUE
    <3>1. U = {} => Sum(U) = 0
      BY <2>4, SumFirst DEF Weighed
    <3> QED
      BY <2>3, <2>4, <3>1
  <2>6. U \ {x} \notin Bad
    <3> HIDE DEF Bad
    <3> QED
      BY <2>2, <2>5
  <2>7. Sum(U \ {x}) <= Sum(Img(U \ {x}))
    BY <2>3, <2>6
  <2>8. f[x] \in Img(U) /\ Img(U \ {x}) = Img(U) \ {f[x]}
    BY <2>3, <2>5
  <2>9. /\ Sum(U) = x.amount + Sum(U \ {x}) /\ x.amount \in Nat
        /\ Sum(U \ {x}) \in Nat
    BY <1>1, <2>3, <2>4, <2>5, SumRemove DEF Weighed
  <2>10. /\ Sum(Img(U)) = f[x].amount + Sum(Img(U \ {x})) /\ f[x].amount \in Nat
         /\ Sum(Img(U \ {x})) \in Nat
    <3> HIDE DEF Img
    <3>1. U \ {x} \in SUBSET A
      BY <2>3
    <3> QED
      BY <1>1, <2>4, <2>8, <3>1, SumRemove DEF Weighed
  <2>11. x.amount <= f[x].amount
    BY <2>3, <2>5
  <2> HIDE DEF Img
  <2> QED
    BY <2>3, <2>7, <2>9, <2>10, <2>11
<1>3. A \notin Bad
  BY <1>2
<1>4. Sum(A) <= Sum(Img(A)) /\ Img(A) \in SUBSET B
  BY <1>1, <1>3
<1>5. Sum(A) \in Nat /\ Sum(B) \in Nat /\ Sum(Img(A)) \in Nat /\ Sum(Img(A)) <= Sum(B)
  <2> HIDE DEF Img
  <2> QED
    BY <1>1, <1>4, SumRemove, SumSubset
<1> HIDE DEF Img
<1> QED
  BY <1>4, <1>5

----------------------------------------------------------------------------
(* Loads and peaks.                                                        *)

\* The entries of A that an instant lies in.
Active(A, s) == {e \in A : e.start <= s /\ s < e.end}

\* Finitely many amounts, each over an interval.
Timed(A) == Weighed(A) /\ \A e \in A : e.start \in Nat /\ e.end \in Nat

\* The load at an instant is the sum of what is active then.
LEMMA LoadIs == \A A, s : Load(A, s) = Sum(Active(A, s))
  BY DEF Load, Sum, Active

\* A load is no more than everything together.
LEMMA LoadBound ==
  ASSUME NEW A, Timed(A), NEW s
  PROVE  /\ Load(A, s) \in Nat /\ Sum(A) \in Nat /\ Load(A, s) <= Sum(A)
         /\ Weighed(Active(A, s))
<1>1. Active(A, s) \in SUBSET A
  BY DEF Active
<1>2. Weighed(Active(A, s)) /\ Sum(Active(A, s)) <= Sum(A)
  BY <1>1, SumSubset DEF Timed
<1>3. Sum(A) \in Nat /\ Sum(Active(A, s)) \in Nat
  BY <1>2, SumRemove DEF Timed
<1> QED
  BY <1>2, <1>3, LoadIs

\* What was active at s is active at p.
LEMMA LoadEarlier ==
  ASSUME NEW A, NEW B, Timed(B), NEW s, NEW p, Active(A, s) \subseteq Active(B, p)
  PROVE  Load(A, s) <= Load(B, p)
  BY LoadBound, LoadIs, SumSubset

\* Fewer entries, less load.
LEMMA LoadFewer ==
  ASSUME NEW B, Timed(B), NEW A \in SUBSET B, NEW s
  PROVE  Timed(A) /\ Load(A, s) <= Load(B, s)
<1>1. Active(A, s) \subseteq Active(B, s)
  BY DEF Active
<1>2. Timed(A)
  BY SumSubset DEF Timed
<1> QED
  BY <1>1, <1>2, LoadEarlier

\* An active entry adds its amount to the load of the others.
LEMMA LoadOne ==
  ASSUME NEW A, Timed(A), NEW s, NEW x \in Active(A, s)
  PROVE  Load(A, s) = x.amount + Load(A \ {x}, s)
<1>1. Active(A \ {x}, s) = Active(A, s) \ {x}
  BY DEF Active
<1> QED
  BY <1>1, LoadBound, LoadIs, SumRemove

\* An entry that is not active adds nothing.
LEMMA LoadNone ==
  ASSUME NEW A, Timed(A), NEW s, Active(A, s) = {}
  PROVE  Load(A, s) = 0
  BY LoadBound, LoadIs, SumFirst DEF Weighed

\* Entries of different identities, each with an entry of its identity in B that is
\* active with it and no smaller.
LEMMA LoadInside ==
  ASSUME NEW A, Timed(A), NEW B, Timed(B), NEW s,
         \A d, e \in A : d.id = e.id => d = e,
         \A e \in Active(A, s) : \E d \in Active(B, s) : d.id = e.id /\ e.amount <= d.amount
  PROVE  Load(A, s) <= Load(B, s)
<1> DEFINE f == [e \in Active(A, s) |->
                   CHOOSE d \in Active(B, s) : d.id = e.id /\ e.amount <= d.amount]
<1>1. \A e \in Active(A, s) : f[e] \in Active(B, s) /\ f[e].id = e.id /\ e.amount <= f[e].amount
  OBVIOUS
<1>2. f \in [Active(A, s) -> Active(B, s)]
  BY <1>1
<1> HIDE DEF f
<1>3. \A d, e \in Active(A, s) : f[d] = f[e] => d = e
  BY <1>1 DEF Active
<1>4. Weighed(Active(A, s)) /\ Weighed(Active(B, s))
  BY LoadBound
<1>5. Sum(Active(A, s)) <= Sum(Active(B, s))
  BY <1>1, <1>2, <1>3, <1>4, SumInjective
<1> QED
  BY <1>5, LoadIs

\* The largest of the combined loads at the instants P.
Largest(A, H, P) == Max({Load(A, s) + Load(H, s) : s \in P})

\* Loads over a set of instants that is not empty have a largest.
LEMMA LargestLoad ==
  ASSUME NEW A, Timed(A), NEW H, Timed(H), NEW P, P # {}
  PROVE  /\ Largest(A, H, P) \in Nat
         /\ \A s \in P : Load(A, s) + Load(H, s) <= Largest(A, H, P)
         /\ \E s \in P : Load(A, s) + Load(H, s) = Largest(A, H, P)
<1> DEFINE S == {Load(A, s) + Load(H, s) : s \in P}
           n == Sum(A) + Sum(H)
<1>1. \A s \in P : Load(A, s) + Load(H, s) \in Nat /\ Load(A, s) + Load(H, s) <= n
  <2> SUFFICES ASSUME NEW s \in P
               PROVE  Load(A, s) + Load(H, s) \in Nat /\ Load(A, s) + Load(H, s) <= n
    OBVIOUS
  <2>1. /\ Load(A, s) \in Nat /\ Sum(A) \in Nat /\ Load(A, s) <= Sum(A)
        /\ Load(H, s) \in Nat /\ Sum(H) \in Nat /\ Load(H, s) <= Sum(H)
    BY LoadBound
  <2> QED
    BY <2>1
<1>2. n \in Nat
  BY LoadBound
<1>3. S \in SUBSET Nat /\ S # {} /\ \A x \in S : x <= n
  BY <1>1
<1> HIDE DEF n
<1>4. Max(S) \in S /\ \A x \in S : x <= Max(S)
  <2> HIDE DEF S
  <2> QED
    BY <1>2, <1>3, GreatestNatural
<1> QED
  BY <1>3, <1>4 DEF Largest

\* The last of the instants P that is not after s.
Latest(P, s) == Max({x \in P : x <= s})

\* A load only rises where an entry starts: up to the last instant of P the entries
\* of A start at or before s.
LEMMA LatestSample ==
  ASSUME NEW A, Timed(A), NEW P \in SUBSET Nat, NEW s \in Nat, NEW w \in P, w <= s,
         \A e \in A : w < e.start /\ e.start <= s => e.start \in P
  PROVE  /\ Latest(P, s) \in P
         /\ Load(A, s) <= Load(A, Latest(P, s))
<1> DEFINE Q == {x \in P : x <= s}
           p == Max(Q)
<1>1. Q \in SUBSET Nat /\ Q # {} /\ \A x \in Q : x <= s
  OBVIOUS
<1>2. p \in Q /\ \A x \in Q : x <= p
  <2> HIDE DEF Q
  <2> QED
    BY <1>1, GreatestNatural
<1>3. p \in P /\ p \in Nat /\ p <= s /\ w <= p
  BY <1>2
<1>4. \A x \in P : x <= s => x <= p
  BY <1>2
<1> HIDE DEF p, Q
<1>5. Active(A, s) \subseteq Active(A, p)
  BY <1>3, <1>4 DEF Active, Timed
<1>6. Load(A, s) <= Load(A, p)
  BY <1>5, LoadEarlier
<1> QED
  BY <1>3, <1>6 DEF p, Q, Latest

\* The combined peak bounds the combined load at every instant of the window.
LEMMA PeakCovers ==
  ASSUME NEW A, Timed(A), NEW H, Timed(H), NEW w, w.start \in Nat, w.end \in Nat,
         NEW s \in Nat, w.start <= s, s < w.end
  PROVE  PeakCombined(A, H, w) \in Nat /\ Load(A, s) + Load(H, s) <= PeakCombined(A, H, w)
<1> DEFINE P == Samples(A, w) \cup Samples(H, w)
           p == Latest(P, s)
<1>1. P \in SUBSET Nat /\ w.start \in P
  BY DEF Samples, Timed
<1>2. /\ \A e \in A : w.start < e.start /\ e.start <= s => e.start \in P
      /\ \A e \in H : w.start < e.start /\ e.start <= s => e.start \in P
  BY DEF Samples, Timed
<1> HIDE DEF P
<1>3. p \in P /\ Load(A, s) <= Load(A, p) /\ Load(H, s) <= Load(H, p)
  BY <1>1, <1>2, LatestSample
<1> HIDE DEF p
<1>4. /\ Load(A, s) \in Nat /\ Load(H, s) \in Nat
      /\ Load(A, p) \in Nat /\ Load(H, p) \in Nat
  BY LoadBound
<1> DEFINE m == Largest(A, H, P)
<1>5. m \in Nat /\ Load(A, p) + Load(H, p) <= m
  BY <1>1, <1>3, LargestLoad
<1>6. PeakCombined(A, H, w) = m
  BY DEF PeakCombined, Largest, P
<1> HIDE DEF m
<1> QED
  BY <1>3, <1>4, <1>5, <1>6

\* Conversely it is the combined load at some instant of the window.
LEMMA PeakReached ==
  ASSUME NEW A, Timed(A), NEW H, Timed(H), NEW w, w.start \in Nat, w.end \in Nat, w.start < w.end
  PROVE  \E s \in Nat : /\ w.start <= s /\ s < w.end
                        /\ PeakCombined(A, H, w) = Load(A, s) + Load(H, s)
<1> DEFINE P == Samples(A, w) \cup Samples(H, w)
           m == Largest(A, H, P)
<1>1. P # {} /\ \A s \in P : s \in Nat /\ w.start <= s /\ s < w.end
  BY DEF Samples, Timed
<1>2. PeakCombined(A, H, w) = m
  BY DEF PeakCombined, Largest
<1> HIDE DEF P
<1>3. PICK s \in P : Load(A, s) + Load(H, s) = m
  BY <1>1, LargestLoad
<1> QED
  BY <1>1, <1>2, <1>3

\* The largest combined load at the start of an entry of D.
AtStarts(A, H, D) == Max({0} \cup {Load(A, e.start) + Load(H, e.start) : e \in D})

\* The peak over the starts of the entries, or 0, bounds the load at every instant.
LEMMA StartsCover ==
  ASSUME NEW A, Timed(A), NEW H, Timed(H), NEW D, A \subseteq D, \A e \in D : e.start \in Nat,
         NEW s \in Nat
  PROVE  AtStarts(A, H, D) \in Nat /\ Load(A, s) <= AtStarts(A, H, D)
<1> DEFINE T == {Load(A, e.start) + Load(H, e.start) : e \in D}
           m == AtStarts(A, H, D)
           n == Sum(A) + Sum(H)
<1>1. \A x : /\ Load(A, x) \in Nat /\ Load(H, x) \in Nat /\ Load(A, x) + Load(H, x) <= n
             /\ n \in Nat
  <2> TAKE x
  <2>1. /\ Load(A, x) \in Nat /\ Sum(A) \in Nat /\ Load(A, x) <= Sum(A)
        /\ Load(H, x) \in Nat /\ Sum(H) \in Nat /\ Load(H, x) <= Sum(H)
    BY LoadBound
  <2> QED
    BY <2>1
<1> HIDE DEF n
<1>2. {0} \cup T \in SUBSET Nat /\ {0} \cup T # {} /\ n \in Nat /\ \A x \in {0} \cup T : x <= n
  BY <1>1
<1>3. m \in {0} \cup T /\ \A x \in {0} \cup T : x <= m
  <2> DEFINE U == {0} \cup T
  <2>1. U \in SUBSET Nat /\ U # {} /\ \A x \in U : x <= n
    BY <1>2
  <2> HIDE DEF U
  <2>2. Max(U) \in U /\ \A x \in U : x <= Max(U)
    BY <1>2, <2>1, GreatestNatural
  <2> QED
    BY <2>2 DEF U, AtStarts
<1>4. m \in Nat /\ 0 <= m
  BY <1>2, <1>3
<1>5. CASE Active(A, s) = {}
  BY <1>4, <1>5, LoadNone
<1>6. CASE Active(A, s) # {}
  <2> DEFINE P == {e.start : e \in A}
             p == Latest(P, s)
  <2>1. PICK x \in A : x.start <= s
    BY <1>6 DEF Active
  <2>2. P \in SUBSET Nat /\ x.start \in P
    BY DEF Timed
  <2>3. \A e \in A : x.start < e.start /\ e.start <= s => e.start \in P
    OBVIOUS
  <2>4. p \in P /\ Load(A, s) <= Load(A, p)
    <3> HIDE DEF P
    <3> QED
      BY <2>1, <2>2, <2>3, LatestSample
  <2>5. PICK e \in A : p = e.start
    BY <2>4
  <2>6. Load(A, p) + Load(H, p) \in T
    BY <2>5
  <2> HIDE DEF p, T
  <2>7. Load(A, p) + Load(H, p) <= m
    BY <1>3, <2>6
  <2>8. Load(A, p) \in Nat /\ Load(H, p) \in Nat /\ Load(A, s) \in Nat
    BY <1>1
  <2>9. Load(A, s) <= m
    <3> HIDE DEF m
    <3> QED
      BY <1>4, <2>4, <2>7, <2>8
  <2> QED
    BY <1>4, <2>9
<1> QED
  BY <1>5, <1>6

\* So does Peak.
LEMMA PeakBounds ==
  ASSUME NEW A, Timed(A), NEW s \in Nat
  PROVE  Peak(A) \in Nat /\ Load(A, s) <= Peak(A)
<1>1. Timed({}) /\ \A x : Load({}, x) = 0
  <2>1. Timed({})
    BY FS_EmptySet DEF Timed, Weighed
  <2>2. \A x : Active({}, x) = {}
    BY DEF Active
  <2> QED
    BY <2>1, <2>2, LoadNone
<1> DEFINE m == AtStarts(A, {}, A)
<1>2. m \in Nat /\ Load(A, s) <= m
  BY <1>1, StartsCover DEF Timed
<1>3. Peak(A) = m
  <2>1. \A e \in A : Load(A, e.start) + Load({}, e.start) = Load(A, e.start)
    BY <1>1, LoadBound
  <2>2. {Load(A, e.start) + Load({}, e.start) : e \in A} = {Load(A, e.start) : e \in A}
    BY <2>1
  <2> QED
    BY <2>2 DEF Peak, AtStarts
<1> QED
  BY <1>2, <1>3

----------------------------------------------------------------------------
(* The entries that there are.  There are finitely many identities, and an *)
(* identity has at most one entry on a resource.                           *)

\* What the committed part of the index consists of.
Entry == [id : Ids, gen : Nat, res : Resources, start : Nat, end : Nat, amount : Nat]

\* At most one entry of each identity.
Sparse(A) == A \subseteq Entry /\ \A d, e \in A : d.id = e.id => d = e

\* So there are finitely many entries, and they have loads and peaks.
LEMMA SparseTimed ==
  ASSUME NEW A, Sparse(A)
  PROVE  Timed(A)
<1> DEFINE f == [e \in A |-> e.id]
<1>1. f \in Injection(A, Ids)
  BY DEF Sparse, Entry, Injection, IsInjective
<1>2. IsFiniteSet(A)
  <2> HIDE DEF f
  <2> QED
    BY <1>1, IdentitiesAssumption, FS_Injection
<1> QED
  BY <1>2 DEF Timed, Weighed, Sparse, Entry

\* Entries of the records in force, one generation of each identity.
LEMMA ForceSparse ==
  ASSUME NEW recs, NEW gen, WellFormed(recs), Single(recs, gen), NEW r, NEW A,
         \A e \in A : /\ e.res = r /\ Key(e) \in DOMAIN recs /\ Consumes(recs[Key(e)])
                      /\ e \in Entries(Key(e), recs[Key(e)])
  PROVE  Sparse(A)
<1>1. A \subseteq Entry
  BY EntryType DEF WellFormed, Entry
<1>2. ASSUME NEW d \in A, NEW e \in A, d.id = e.id PROVE d = e
  <2>1. Key(d)[2] = gen[Key(d)[1]] /\ Key(e)[2] = gen[Key(e)[1]]
    BY ConsumingIsLive DEF Single
  <2>2. Key(d) = Key(e)
    BY <1>2, <2>1 DEF Key
  <2> DEFINE k == Key(d)
  <2>3. d \in Entries(k, recs[k]) /\ e \in Entries(k, recs[k]) /\ d.res = e.res
    BY <2>2
  <2> HIDE DEF k
  <2> QED
    BY <2>3 DEF Entries
<1> QED
  BY <1>1, <1>2 DEF Sparse

\* The entries of a sound index on one resource.
LEMMA SoundSparse ==
  ASSUME NEW recs, NEW gen, NEW ix, Books(recs, gen, ix), NEW r
  PROVE  Sparse(On(ix, r))
  BY ForceSparse DEF Books, Sound, On

\* The entries of what is bound to a generation that is no longer live.
LEMMA StaleSparse ==
  ASSUME NEW recs, NEW gen, WellFormed(recs), Single(recs, gen), NEW L, NEW r
  PROVE  Sparse(StaleEntries(L, recs, r))
<1>1. ASSUME NEW e \in StaleEntries(L, recs, r)
      PROVE  /\ e.res = r /\ Key(e) \in DOMAIN recs /\ Consumes(recs[Key(e)])
             /\ e \in Entries(Key(e), recs[Key(e)])
  <2>1. PICK k \in Stale(L, recs, r) : e \in On(Entries(k, recs[k]), r)
    BY DEF StaleEntries
  <2>2. k \in DOMAIN recs /\ k \in Keys /\ Consumes(recs[k])
    BY DEF Stale, WellFormed
  <2>3. Key(e) = k
    BY <2>1, <2>2, EntryKey DEF On
  <2> QED
    BY <2>1, <2>2, <2>3 DEF On
<1> QED
  BY <1>1, ForceSparse

\* An entry that is not empty is in the peak.
LEMMA PeakHolds ==
  ASSUME NEW A, Timed(A), NEW e \in A, e.start < e.end
  PROVE  e.amount <= Peak(A)
<1>1. e.start \in Nat /\ e.end \in Nat /\ e.amount \in Nat
  BY DEF Timed, Weighed
<1>2. e \in Active(A, e.start)
  BY <1>1 DEF Active
<1>3. Load(A, e.start) = e.amount + Load(A \ {e}, e.start)
  BY <1>2, LoadOne
<1>4. Load(A \ {e}, e.start) \in Nat /\ Load(A, e.start) \in Nat
  BY LoadFewer, LoadBound
<1>5. Peak(A) \in Nat /\ Load(A, e.start) <= Peak(A)
  BY <1>1, PeakBounds
<1> QED
  BY <1>1, <1>3, <1>4, <1>5

----------------------------------------------------------------------------
(* A capacity snapshot.                                                    *)

\* A snapshot that is taken whole restates the resources R and re-derives W.
Restates(R, W) ==
  /\ \A r \in Resources : ledger'[r] # ledger[r] => r \in R
  /\ W \in SUBSET LiveKeys(records)
  /\ IngestRefresh(ledger', paths, W)
  /\ RetireHistory(Refreshed(ledger', paths, records, W))
  /\ Detect(ledger', index', Refreshed(ledger', paths, records, W), R)
  /\ ReleaseHolds(HoldsOn(R))
  /\ UNCHANGED <<paths, policies>>

\* A capacity snapshot that is taken whole restates some resources, or finds nothing to do.
LEMMA CapacityShape ==
  ASSUME Inv, NEW s \in Snapshots, IngestCapacity(s),
         Taken(LedgerVerdicts(ledger, s.caps)) = Len(s.caps)
  PROVE  \/ UNCHANGED <<ledger, paths, policies, books, holding, emergency>>
         \/ \E R, W : Restates(R, W)
<1> DEFINE v       == LedgerVerdicts(ledger, s.caps)
           n       == Taken(v)
           applied == {s.caps[i].res : i \in {j \in 1 .. n : v[j] = "applied"}}
           taken   == LedgerAfter(ledger, s.caps, n)
           gone    == {r \in s.withdraw : Known(taken, r)}
           R       == applied \cup gone
<1>1. n = Len(s.caps)
  OBVIOUS
<1>2. CASE UNCHANGED <<ledger, books, holding, emergency>>
  BY <1>2 DEF IngestCapacity
<1>3. CASE /\ ledger' = Withdraw(taken, gone)
           /\ \E W \in SUBSET LiveKeys(records) :
                /\ IngestRefresh(ledger', paths, W)
                /\ RetireHistory(Refreshed(ledger', paths, records, W))
                /\ Detect(ledger', index', Refreshed(ledger', paths, records, W), R)
           /\ ReleaseHolds(HoldsOn(R))
  <2>1. ASSUME NEW r \in Resources, ledger'[r] # ledger[r] PROVE r \in R
    <3>1. CASE r \in gone
      BY <3>1
    <3>2. CASE r \notin gone
      <4>1. taken[r] # ledger[r]
        BY <1>3, <2>1, <3>2 DEF Withdraw
      <4>2. taken[r] = IF \E i \in 1 .. n : s.caps[i].res = r
                       THEN LedgerEntry(s.caps[CHOOSE i \in 1 .. n : s.caps[i].res = r])
                       ELSE ledger[r]
        BY DEF LedgerAfter
      <4> HIDE DEF taken, gone
      <4>3. PICK i \in 1 .. n : s.caps[i].res = r /\ taken[r] = LedgerEntry(s.caps[i])
        <5> HIDE DEF n
        <5> QED
          BY <4>1, <4>2
      <4> DEFINE c == s.caps[i]
                 e == ledger[r]
      <4>4. s.caps \in Seq(Statement) /\ Len(s.caps) \in Nat
        BY AuthorityAssumption
      <4>5. i \in 1 .. Len(s.caps) /\ c \in Statement
        BY <1>1, <4>3, <4>4
      <4>6. v[i] = LedgerVerdict(ledger, c)
        BY <4>5 DEF LedgerVerdicts
      <4>7. ~Refused(v[i])
        <5>1. DOMAIN v = 1 .. Len(s.caps) /\ Len(v) = Len(s.caps)
          BY <4>4 DEF LedgerVerdicts
        <5> HIDE DEF v
        <5> QED
          BY <1>1, <4>4, <4>5, <5>1, WholeIsClean
      <4>8. v[i] = "applied"
        <5> SUFFICES ASSUME v[i] # "applied" PROVE FALSE
          OBVIOUS
        <5> DEFINE same == [e EXCEPT !.withdrawn = FALSE] = LedgerEntry(c)
                   w    == Verdict(e.gen, c.gen, same)
        <5>1. v[i] = IF w = "same" /\ e.withdrawn THEN "applied" ELSE w
          BY <4>3, <4>6 DEF LedgerVerdict
        <5>2. w \in {"applied", "stale", "same", "conflict"} /\ (w = "same" => same)
          BY DEF Verdict
        <5>3. w = "same" /\ same /\ ~e.withdrawn
          <6> HIDE DEF w, same
          <6> QED
            BY <4>7, <5>1, <5>2 DEF Refused
        <5>4. e \in LedgerRecord
          BY DEF Inv, TypeOK
        <5>5. [e EXCEPT !.withdrawn = FALSE] = e
          BY <5>3, <5>4 DEF LedgerRecord
        <5> QED
          BY <4>1, <4>3, <5>3, <5>5
      <4> QED
        BY <4>3, <4>8
    <3> QED
      BY <3>1, <3>2
  <2>2. UNCHANGED <<paths, policies>>
    BY DEF IngestCapacity
  <2> HIDE DEF R, applied, taken, gone
  <2> QED
    BY <1>3, <2>1, <2>2 DEF Restates
<1> QED
  BY <1>1, <1>2, <1>3 DEF IngestCapacity

\* What a refresh over the records of the books leaves.
LEMMA RestatedBooks ==
  ASSUME Inv, Inv', NEW R, NEW W, Restates(R, W), NEW next, next = Refreshed(ledger', paths, records, W)
  PROVE  /\ WellFormed(next) /\ Single(next, generation')
         /\ \A k \in DOMAIN records' : k \in DOMAIN next /\ records'[k] = next[k]
<1> DEFINE L == ledger'
<1>1. /\ L \in [Resources -> LedgerRecord] /\ paths \in [Paths -> PathRecord]
      /\ W \subseteq LiveKeys(records) /\ next = Refreshed(L, paths, records, W)
      /\ IngestRefresh(L, paths, W) /\ RetireHistory(next)
  BY DEF Inv, TypeOK, Restates
<1> HIDE DEF L
<1>2. Books(next, generation', index')
  BY <1>1, IngestRefreshBooks
<1>3. PICK X : records' = [x \in DOMAIN next \ X |-> next[x]]
  BY <1>1 DEF RetireHistory
<1> QED
  BY <1>2, <1>3 DEF Books

\* A resource that is restated and cannot carry one of the commitments bound to it is
\* found to be overcommitted.
LEMMA ObligationFound ==
  ASSUME Inv, Inv', Agreed(records', index', ledger'), NEW R, NEW W, Restates(R, W),
         NEW r \in R, r \in Resources,
         NEW k \in DOMAIN records', Consumes(records'[k]), NonEmpty(ConsumingInterval(records'[k])),
         \E ref \in records'[k].refs : ref.res = r,
         records'[k].terms.amount > LiveCeiling(ledger', r)
  PROVE  r \in emergency'
<1> DEFINE L    == ledger'
           jx   == index'
           next == Refreshed(L, paths, records, W)
           x    == records'[k]
           A    == On(jx, r)
           B    == StaleEntries(L, next, r)
<1>1. /\ WellFormed(next) /\ Single(next, generation')
      /\ k \in DOMAIN next /\ x = next[k]
  BY RestatedBooks
<1>2. Timed(A)
  <2>1. Books(records', generation', jx)
    BY DEF Inv
  <2> HIDE DEF jx
  <2> QED
    BY <2>1, SoundSparse, SparseTimed
<1>3. Timed(B)
  <2> HIDE DEF next, L
  <2> QED
    BY <1>1, StaleSparse, SparseTimed
<1>4. PICK ref \in x.refs : ref.res = r
  OBVIOUS
<1> DEFINE w == ConsumingInterval(x)
           e == [id |-> k[1], gen |-> k[2], res |-> ref.res, start |-> w.start, end |-> w.end,
                 amount |-> x.terms.amount]
<1>5. e \in Entries(k, x) /\ e.res = r /\ e.start < e.end /\ e.amount = x.terms.amount
  BY <1>4 DEF Entries, NonEmpty
<1>6. Peak(A) \in Nat /\ Peak(B) \in Nat
  <2>1. 0 \in Nat
    OBVIOUS
  <2> HIDE DEF A, B
  <2> QED
    BY <1>2, <1>3, <2>1, PeakBounds
<1>7. e \in A \/ e \in B
  <2>1. CASE \A y \in x.refs : RefCurrent(L, y)
    <3>1. Indexable(L, x)
      BY <2>1 DEF Indexable
    <3>2. Entries(k, x) \subseteq jx
      BY <3>1 DEF Agreed, Listed
    <3> QED
      BY <1>5, <3>2 DEF On
  <2>2. CASE ~ \A y \in x.refs : RefCurrent(L, y)
    <3> HIDE DEF next, L, x, e
    <3>0. Consumes(x) /\ NonEmpty(ConsumingInterval(x))
      BY DEF x
    <3>1. k \in Stale(L, next, r)
      BY <1>1, <1>4, <2>2, <3>0 DEF Stale
    <3>2. e \in On(Entries(k, next[k]), r)
      BY <1>1, <1>5 DEF On
    <3> QED
      BY <1>1, <3>0, <3>1, <3>2 DEF StaleEntries
  <2> QED
    BY <2>1, <2>2
<1>8. e.amount <= Peak(A) \/ e.amount <= Peak(B)
  <2> HIDE DEF A, B, e
  <2> QED
    BY <1>2, <1>3, <1>5, <1>7, PeakHolds
<1>9. LiveCeiling(L, r) \in Nat /\ e.amount \in Nat
  <2>1. L[r].ceiling \in Nat
    BY DEF Inv, TypeOK, LedgerRecord
  <2>2. x.terms.amount \in Nat
    BY DEF Inv, TypeOK, Record, Terms
  <2> QED
    BY <2>1, <2>2 DEF LiveCeiling
<1>10. e.amount > LiveCeiling(L, r)
  BY <1>5
<1>11. Overcommitted(L, jx, next, r)
  <2> DEFINE a == Peak(A)
             b == Peak(B)
             c == LiveCeiling(L, r)
             m == e.amount
  <2>1. Overcommitted(L, jx, next, r) <=> MaxOf(a, b) > c
    BY DEF Overcommitted
  <2>2. a \in Nat /\ b \in Nat /\ c \in Nat /\ m \in Nat /\ m > c /\ (m <= a \/ m <= b)
    BY <1>6, <1>8, <1>9, <1>10
  <2> HIDE DEF a, b, c, m
  <2> QED
    BY <2>1, <2>2 DEF MaxOf
<1>12. emergency' = {y \in Resources : IF y \in R THEN Overcommitted(L, jx, next, y) ELSE y \in emergency}
  BY DEF Restates, Detect
<1> HIDE DEF L, jx, next
<1> QED
  BY <1>11, <1>12

\* The generation of the last snapshot moves with a snapshot only, and so does the ledger:
\* what NoObligationDropped asks of a step.
ObligationStep ==
  \A r \in Resources, k \in DOMAIN records' :
    /\ ledger'[r] # ledger[r] /\ lastSnapshot' # lastSnapshot
    /\ Consumes(records'[k]) /\ NonEmpty(ConsumingInterval(records'[k]))
    /\ \E ref \in records'[k].refs : ref.res = r
    /\ records'[k].terms.amount > LiveCeiling(ledger', r)
    => r \in emergency'

\* Only a capacity snapshot moves the ledger, and it sees what the new ceilings cannot carry.
LEMMA ObligationNext ==
  ASSUME AgreeInv, AgreeInv', [Next]_vars, CapacityTakenWhole
  PROVE  ObligationStep
<1>1. Inv /\ Inv' /\ Agreed(records', index', ledger')
  BY DEF AgreeInv
<1>2. CASE UNCHANGED ledger
  BY <1>2 DEF ObligationStep
<1>3. ASSUME NEW R, NEW W, Restates(R, W) PROVE ObligationStep
  BY <1>1, <1>3, ObligationFound DEF ObligationStep, Restates
<1> QED
  BY <1>1, <1>2, <1>3, TablesMove, CapacityShape DEF CapacityTakenWhole

\* No obligation is dropped silently: a snapshot that leaves a resource unable to carry one
\* of the commitments bound to it leaves the resource in an emergency, whether the commitment
\* is still counted in the index or is bound to a generation that is gone.
THEOREM ObligationsAreKept ==
  Spec /\ [][CapacityTakenWhole]_vars /\ [][RederivationsSucceed]_vars => NoObligationDropped
<1>1. Init => AgreeInv
  BY AgreeInit
<1>2. AgreeInv /\ [Next]_vars /\ [CapacityTakenWhole]_vars /\ [RederivationsSucceed]_vars => AgreeInv'
  <2>1. ASSUME AgreeInv, UNCHANGED vars PROVE AgreeInv'
    BY <2>1 DEF AgreeInv, Inv, TypeOK, LiveHolds, vars, authority, books, holding, memory, fences
  <2> QED
    BY <2>1, AgreeNext
<1>3. AgreeInv /\ AgreeInv' /\ [Next]_vars /\ [CapacityTakenWhole]_vars => [ObligationStep]_vars
  BY ObligationNext
<1>4. AgreeInv /\ AgreeInv' /\ [Next]_vars /\ [CapacityTakenWhole]_vars =>
        [\A r \in Resources, k \in DOMAIN records' :
           /\ ledger'[r] # ledger[r] /\ lastSnapshot' # lastSnapshot
           /\ Consumes(records'[k]) /\ NonEmpty(ConsumingInterval(records'[k]))
           /\ \E ref \in records'[k].refs : ref.res = r
           /\ records'[k].terms.amount > LiveCeiling(ledger', r)
           => r \in emergency']_vars
  BY <1>3 DEF ObligationStep
<1> QED
  BY <1>1, <1>2, <1>4, PTL DEF Spec, NoObligationDropped

----------------------------------------------------------------------------
(* Admission.  A new entry was assessed next to entries that were seen and *)
(* to the holds of the moment.  Where several entries come in one step,    *)
(* the last of them in the order of the pass was assessed next to all the  *)
(* others.                                                                 *)

\* No policy in force allows overcommit.
Strict == \A p \in Policies : ~PolicyFor(p).overcommit

\* Next to the entries seen and the holds hx there is room for e up to c.
Vetted(e, seen, hx, c) ==
  /\ Sparse(On(seen, e.res))
  /\ Timed(On(hx, e.res))
  /\ \A s \in Nat : e.start <= s /\ s < e.end =>
       Load(On(seen, e.res), s) + Load(On(hx, e.res), s) + e.amount <= c

\* There was room for the new entry e, and what was seen includes every entry on its
\* resource that comes before it or was there before.
NewFits(e) ==
  \E seen, hx :
    /\ Vetted(e, seen, hx, ledger'[e.res].ceiling)
    /\ On(holdIndex', e.res) \subseteq hx
    /\ \A d \in On(index', e.res) :
         d.id < e.id \/ (d.id # e.id /\ Key(d) \in DOMAIN records) => d \in seen

\* Every generation that a step puts on r was assessed there.
Admits(r) == \A e \in On(index', r) : Key(e) \notin DOMAIN records => NewFits(e)

\* An assessment that finds room found it at every instant of the window.
LEMMA CommittableFits ==
  ASSUME NEW L \in [Resources -> LedgerRecord], NEW pol \in PolicyRecord, ~pol.overcommit,
         NEW t \in Terms, NEW ix, NEW hx, NEW em, NEW R, Committable(L, ix, hx, em, pol, t, R),
         NEW r \in R, r \in Resources, Timed(On(ix, r)), Timed(On(hx, r)),
         NEW s \in Nat, t.start <= s, s < t.end
  PROVE  Load(On(ix, r), s) + Load(On(hx, r), s) + t.amount <= L[r].ceiling
<1> DEFINE A == On(ix, r)
           H == On(hx, r)
           p == PeakCombined(A, H, t)
           m == Load(A, s) + Load(H, s)
           c == Ceiling(L, r, pol, t)
<1>1. /\ t.start \in Nat /\ t.end \in Nat /\ t.amount \in Nat /\ t.headroom \in Nat
      /\ L[r].ceiling \in Nat /\ pol.headroom \in Nat
  BY DEF Terms, LedgerRecord, PolicyRecord
<1>2. c <= L[r].ceiling /\ c \in Nat
  BY <1>1 DEF Ceiling
<1>3. ~Short(L, ix, hx, pol, t, r)
  BY DEF Committable, Outcome
<1>4. ~(p + t.amount > c + 0)
  BY <1>3 DEF Short
<1>5. p \in Nat /\ m <= p
  <2> HIDE DEF A, H
  <2>1. Timed(A) /\ Timed(H)
    BY DEF A, H
  <2> QED
    BY <1>1, <2>1, PeakCovers
<1>6. m \in Nat
  BY LoadBound
<1> HIDE DEF p, m, c
<1>7. m + t.amount <= L[r].ceiling
  BY <1>1, <1>2, <1>4, <1>5, <1>6
<1> QED
  BY <1>7 DEF m

\* An entry of a commitment is on a resource of its terms, within their window.
LEMMA CommittedEntry ==
  ASSUME NEW L, NEW P, NEW t \in Terms, NEW at \in Nat, NEW grace \in Nat, NEW k,
         NEW e \in Entries(k, Commitment(L, P, t, at, grace))
  PROVE  /\ e.res \in Bound(P, t) /\ e.amount = t.amount
         /\ e.start = t.start /\ e.end <= t.end /\ e.end \in Nat /\ e.id = k[1]
<1> DEFINE c == Commitment(L, P, t, at, grace)
           w == ConsumingInterval(c)
<1>1. c.terms = t /\ c.refs = RefsOf(L, P, t) /\ c.recallAt = at /\ c.grace = grace
  BY DEF Commitment
<1>2. t.start \in Nat /\ t.end \in Nat /\ t.start < t.end
  BY DEF Terms
<1> HIDE DEF c
<1>3. w.start = t.start /\ w.end \in Nat /\ w.end <= t.end
  BY <1>1, <1>2 DEF ConsumingInterval
<1>4. PICK ref \in c.refs :
        e = [id |-> k[1], gen |-> k[2], res |-> ref.res, start |-> w.start, end |-> w.end,
             amount |-> c.terms.amount]
  BY DEF Entries, c
<1>5. ref.res \in Bound(P, t)
  BY <1>1, <1>4 DEF RefsOf
<1> HIDE DEF w
<1> QED
  BY <1>1, <1>3, <1>4, <1>5

\* Where a new entry is active, what is counted is within the ceiling.
LEMMA NewBounds ==
  ASSUME Inv', NEW r, Admits(r), Timed(On(holdIndex', r)), NEW s \in Nat,
         NEW x0 \in Active(On(index', r), s), Key(x0) \notin DOMAIN records
  PROVE  Load(On(index', r), s) + Load(On(holdIndex', r), s) <= ledger'[r].ceiling
<1> DEFINE A == On(index', r)
           H == On(holdIndex', r)
           c == ledger'[r].ceiling
           N == {e \in Active(A, s) : Key(e) \notin DOMAIN records}
           I == {e.id : e \in N}
<1>1. Sparse(A) /\ Timed(A) /\ Timed(H)
  <2>1. Books(records', generation', index')
    BY DEF Inv
  <2>2. Sparse(A)
    BY <2>1, SoundSparse
  <2> QED
    BY <2>2, SparseTimed
<1>2. N \subseteq A /\ \A e \in N : e.start <= s /\ s < e.end
  BY DEF Active
<1>3. I \in SUBSET Nat /\ I # {}
  <2>1. \A e \in N : e.id \in Nat
    BY <1>1, <1>2, RequestsAssumption DEF Sparse, Entry
  <2>2. x0 \in N
    OBVIOUS
  <2> HIDE DEF N
  <2> QED
    BY <2>1, <2>2
<1>4. PICK x \in N : \A e \in N : e.id <= x.id
  <2>1. PICK n \in Nat : \A i \in Ids : i <= n
    BY IdentitiesAssumption, RequestsAssumption, FiniteBound
  <2>2. \A i \in I : i <= n
    BY <1>1, <1>2, <2>1 DEF Sparse, Entry
  <2>3. Max(I) \in I /\ \A i \in I : i <= Max(I)
    <3> HIDE DEF I
    <3> QED
      BY <1>3, <2>1, <2>2, GreatestNatural
  <2> QED
    BY <2>3
<1>5. x \in A /\ x.res = r /\ x \in Active(A, s) /\ Key(x) \notin DOMAIN records
  BY <1>2 DEF On
<1>6. r \in Resources /\ x.id \in Nat /\ x.amount \in Nat /\ c \in Nat
  BY <1>1, <1>5, RequestsAssumption DEF Sparse, Entry, Inv, TypeOK, LedgerRecord
<1>7. PICK seen, hx :
        /\ Vetted(x, seen, hx, c)
        /\ H \subseteq hx
        /\ \A d \in A : d.id < x.id \/ (d.id # x.id /\ Key(d) \in DOMAIN records) => d \in seen
  BY <1>5 DEF Admits, NewFits
<1> DEFINE B == On(seen, r)
           G == On(hx, r)
<1>8. /\ Sparse(B) /\ Timed(B) /\ Timed(G) /\ H \subseteq G
      /\ Load(B, s) + Load(G, s) + x.amount <= c
  BY <1>2, <1>5, <1>7, SparseTimed DEF Vetted, On
<1>9. \A e \in Active(A \ {x}, s) : e \in Active(B, s)
  <2> SUFFICES ASSUME NEW e \in Active(A \ {x}, s) PROVE e \in B
    BY DEF Active
  <2>1. e \in A /\ e # x /\ e \in Active(A, s) /\ e.res = r
    BY DEF Active, On
  <2>2. e.id # x.id /\ e.id \in Nat
    BY <1>1, <1>5, <2>1, RequestsAssumption DEF Sparse, Entry
  <2>3. Key(e) \in DOMAIN records \/ e.id <= x.id
    BY <1>4, <2>1
  <2> HIDE DEF A
  <2>4. e \in seen
    BY <1>6, <1>7, <2>1, <2>2, <2>3
  <2> QED
    BY <2>1, <2>4 DEF On
<1> HIDE DEF A, B, H, G, c, N
<1>10. Load(A, s) = x.amount + Load(A \ {x}, s)
  BY <1>1, <1>5, LoadOne
<1>11. Load(A \ {x}, s) <= Load(B, s) /\ Timed(A \ {x})
  <2>1. Timed(A \ {x})
    BY <1>1, LoadFewer
  <2>2. \A d, e \in A \ {x} : d.id = e.id => d = e
    BY <1>1 DEF Sparse
  <2>3. \A e \in Active(A \ {x}, s) : e.amount <= e.amount
    BY <2>1 DEF Active, Timed, Weighed
  <2> QED
    BY <1>8, <1>9, <2>1, <2>2, <2>3, LoadInside
<1>12. Load(H, s) <= Load(G, s)
  BY <1>8, LoadFewer
<1>13. /\ Load(A \ {x}, s) \in Nat /\ Load(B, s) \in Nat /\ Load(H, s) \in Nat
       /\ Load(G, s) \in Nat
  BY <1>1, <1>8, <1>11, LoadBound
<1>14. Load(A, s) + Load(H, s) <= c
  BY <1>6, <1>8, <1>10, <1>11, <1>12, <1>13
<1> QED
  BY <1>14 DEF A, H, c

\* Entry e counts for a generation that is in the books and did not count so before: it has
\* no entry there, or one that ended earlier.
TakenBack(e) ==
  /\ Key(e) \in DOMAIN records
  /\ ~ \E d \in index : /\ Key(d) = Key(e) /\ d.res = e.res /\ d.start = e.start
                        /\ d.amount = e.amount /\ e.end <= d.end

\* Where no new entry is active and nothing is taken back, the load has not grown.
LEMMA KeptBounds ==
  ASSUME Inv, Inv', NEW r, NEW s \in Nat, \A e \in On(index', r) : ~TakenBack(e),
         \A e \in Active(On(index', r), s) : Key(e) \in DOMAIN records
  PROVE  Load(On(index', r), s) <= Load(On(index, r), s)
<1> DEFINE A == On(index', r)
           B == On(index, r)
<1>1. Sparse(A) /\ Timed(A) /\ Sparse(B) /\ Timed(B)
  <2>1. Books(records', generation', index') /\ Books(records, generation, index)
    BY DEF Inv
  <2>2. Sparse(A) /\ Sparse(B)
    BY <2>1, SoundSparse
  <2> QED
    BY <2>2, SparseTimed
<1>2. ASSUME NEW e \in Active(A, s)
      PROVE  \E d \in Active(B, s) : d.id = e.id /\ e.amount <= d.amount
  <2>1. e \in A /\ e \in On(index', r) /\ e.start <= s /\ s < e.end /\ Key(e) \in DOMAIN records
    BY DEF Active
  <2>2. PICK d \in index : /\ Key(d) = Key(e) /\ d.res = e.res /\ d.start = e.start
                           /\ d.amount = e.amount /\ e.end <= d.end
    BY <2>1 DEF TakenBack
  <2>3. d \in B /\ d.id = e.id
    BY <2>1, <2>2 DEF On, Key
  <2>4. e.end \in Nat /\ d.end \in Nat /\ e.amount \in Nat
    BY <1>1, <2>1, <2>3 DEF Timed, Weighed
  <2>5. d \in Active(B, s)
    BY <2>1, <2>2, <2>3, <2>4 DEF Active
  <2> QED
    BY <2>2, <2>3, <2>4, <2>5
<1>3. \A d, e \in A : d.id = e.id => d = e
  BY <1>1 DEF Sparse
<1> HIDE DEF A, B
<1>4. Load(A, s) <= Load(B, s)
  BY <1>1, <1>2, <1>3, LoadInside
<1> QED
  BY <1>4 DEF A, B

\* An assessment next to seen and hx leaves room for the entries of the commitment that
\* it is made for.
LEMMA CommitmentVetted ==
  ASSUME Inv, Strict, NEW L \in [Resources -> LedgerRecord], NEW P \in [Paths -> PathRecord],
         NEW t \in Terms, NEW at \in Nat, NEW grace \in Nat,
         NEW seen, NEW hx, Committable(L, seen, hx, emergency, PolicyFor(t.policy), t, Bound(P, t)),
         NEW k, NEW e \in Entries(k, Commitment(L, P, t, at, grace)),
         Sparse(On(seen, e.res)), Timed(On(hx, e.res))
  PROVE  Vetted(e, seen, hx, L[e.res].ceiling)
<1>1. /\ e.res \in Bound(P, t) /\ e.amount = t.amount
      /\ e.start = t.start /\ e.end <= t.end /\ e.end \in Nat
  BY CommittedEntry
<1>2. e.res \in Resources /\ t.start \in Nat /\ t.end \in Nat
  BY <1>1 DEF Bound, Terms, PathRecord
<1> DEFINE pol == PolicyFor(t.policy)
<1>3. pol \in PolicyRecord /\ ~pol.overcommit
  <2>1. t.policy \in Policies /\ policies \in [Policies -> PolicyRecord]
    BY DEF Terms, Inv, TypeOK
  <2> QED
    BY <2>1, PolicyType DEF Strict
<1>4. Timed(On(seen, e.res))
  BY SparseTimed
<1>5. ASSUME NEW s \in Nat, e.start <= s, s < e.end
      PROVE  Load(On(seen, e.res), s) + Load(On(hx, e.res), s) + e.amount <= L[e.res].ceiling
  <2>1. t.start <= s /\ s < t.end
    BY <1>1, <1>2, <1>5
  <2> HIDE DEF pol
  <2>2. Committable(L, seen, hx, emergency, pol, t, Bound(P, t))
    BY DEF pol
  <2>3. Load(On(seen, e.res), s) + Load(On(hx, e.res), s) + t.amount <= L[e.res].ceiling
    BY <1>1, <1>2, <1>3, <1>4, <1>5, <2>1, <2>2, CommittableFits
  <2> QED
    BY <1>1, <2>3
<1> QED
  BY <1>5 DEF Vetted

\* A step that commits one generation, assessed next to what is left of the index once
\* time is reconciled.
LEMMA OneAdmitted ==
  ASSUME Inv, Inv', Strict, UNCHANGED <<ledger, paths>>,
         NEW t \in Terms, NEW at \in Nat, NEW grace \in Nat, NEW k, NEW seen, NEW hx,
         Committable(ledger, seen, hx, emergency, PolicyFor(t.policy), t, Bound(paths, t)),
         seen \subseteq ReconciledIndex, hx \subseteq holdIndex, holdIndex' \subseteq hx,
         \A x \in DOMAIN records' \ DOMAIN records :
           x = k /\ records'[x] = Commitment(ledger, paths, t, at, grace),
         \A d \in index' : d.id # k[1] => d \in seen,
         NEW r, Timed(On(holdIndex, r))
  PROVE  Admits(r)
<1> SUFFICES ASSUME NEW e \in On(index', r), Key(e) \notin DOMAIN records PROVE NewFits(e)
  BY DEF Admits
<1>1. e \in index' /\ e.res = r
  BY DEF On
<1>2. Key(e) \in DOMAIN records' /\ e \in Entries(Key(e), records'[Key(e)]) /\ e \in Entry
  BY <1>1 DEF Inv, TypeOK, Books, Sound, Entry
<1>3. e \in Entries(k, Commitment(ledger, paths, t, at, grace)) /\ e.id = k[1]
  BY <1>2 DEF Key
<1>4. Sparse(On(seen, r))
  <2>1. Books(Reconciled, generation, ReconciledIndex)
    BY ReconcileBooks DEF Inv
  <2>2. Sparse(On(ReconciledIndex, r))
    BY <2>1, SoundSparse
  <2>3. On(seen, r) \subseteq On(ReconciledIndex, r)
    BY DEF On
  <2> QED
    BY <2>2, <2>3 DEF Sparse
<1>5. Timed(On(hx, r))
  <2>1. On(hx, r) \subseteq On(holdIndex, r)
    BY DEF On
  <2> QED
    BY <2>1, LoadFewer
<1>6. Vetted(e, seen, hx, ledger[e.res].ceiling)
  BY <1>1, <1>3, <1>4, <1>5, CommitmentVetted DEF Inv, TypeOK
<1>7. On(holdIndex', r) \subseteq hx
  BY DEF On
<1>8. ASSUME NEW d \in On(index', r), d.id < e.id \/ (d.id # e.id /\ Key(d) \in DOMAIN records)
      PROVE  d \in seen
  <2>1. d \in index' /\ d \in Entry
    BY DEF On, Inv, TypeOK, Entry
  <2>2. d.id \in Nat /\ e.id \in Nat
    BY <1>2, <2>1, RequestsAssumption DEF Entry
  <2>3. d.id # e.id
    BY <1>8, <2>2
  <2> QED
    BY <1>3, <2>1, <2>3
<1> QED
  BY <1>1, <1>6, <1>7, <1>8 DEF NewFits

\* Syncing one key leaves the entries of other identities.
LEMMA SyncOne ==
  ASSUME NEW ix, NEW L, NEW recs, NEW k, NEW d \in SyncIndex(ix, L, recs, {k}), d.id # k[1]
  PROVE  d \in ix
<1> DEFINE flip == {x \in {k} : Indexable(L, recs[x]) # Held(ix, x)}
           add  == {x \in flip : Indexable(L, recs[x])}
<1>1. d \in EraseIds(ix, {x[1] : x \in flip}) \/ \E x \in add : d \in Entries(x, recs[x])
  BY DEF SyncIndex
<1>2. \A x : d \in Entries(x, recs[x]) => d.id = x[1]
  BY DEF Entries
<1> QED
  BY <1>1, <1>2 DEF EraseIds

\* Updating one key leaves the entries of other identities.
LEMMA UpdateOne ==
  ASSUME NEW ix, NEW L, NEW k, NEW c, NEW d \in UpdateIndex(ix, L, k, c), d.id # k[1]
  PROVE  d \in ix
<1>1. d \in Entries(k, c) => d.id = k[1]
  BY DEF Entries
<1> QED
  BY <1>1 DEF UpdateIndex, EraseIds

\* What a plan of victims leaves has room for the request.
LEMMA PlanRoom ==
  ASSUME NEW q, NEW V \in AdmissionPlans(q)
  PROVE  Committable(ledger, Without(ReconciledIndex, V), HoldsLeft(Gone(q.terms) \cup q.holds),
                     emergency, PolicyFor(q.terms.policy), q.terms, Bound(paths, q.terms))
<1> DEFINE t   == q.terms
           pol == PolicyFor(t.policy)
           hx  == HoldsLeft(Gone(t) \cup q.holds)
           R   == Bound(paths, t)
<1>1. CASE Assess(ReconciledIndex, hx, t) = "COMMITTABLE"
  <2>1. V = {}
    BY <1>1 DEF AdmissionPlans
  <2>2. Without(ReconciledIndex, V) = ReconciledIndex
    BY <2>1 DEF Without
  <2> QED
    BY <1>1, <2>2 DEF Assess, Committable
<1>2. CASE Assess(ReconciledIndex, hx, t) # "COMMITTABLE"
  <2>1. V \in PreemptionPlans(ledger, ReconciledIndex, hx, emergency, Reconciled, pol, t, R)
    BY <1>2 DEF AdmissionPlans
  <2> QED
    BY <2>1 DEF PreemptionPlans, PreemptionPrefixes
<1> QED
  BY <1>1, <1>2

\* A step that adds no generation admits nothing.
LEMMA NothingAdmitted ==
  ASSUME Inv', DOMAIN records' \subseteq DOMAIN records, NEW r
  PROVE  Admits(r)
<1>1. \A e \in index' : Key(e) \in DOMAIN records'
  BY DEF Inv, Books, Sound
<1> QED
  BY <1>1 DEF Admits, On

\* create_locked.
LEMMA CreateAdmits ==
  ASSUME Inv, Inv', Strict, NEW q \in Creates, CreateReservation(q), NEW r, Timed(On(holdIndex, r))
  PROVE  Admits(r)
<1>1. DOMAIN Reconciled = DOMAIN records
  BY DEF Reconciled
<1>2. CASE CreateSettles(q) \/ CreateRefused(q)
  BY <1>1, <1>2, NothingAdmitted DEF CreateSettles, CreateRefused, Settle
<1>3. CASE CreateCommitted(q)
  <2> DEFINE k       == <<q.id, 1>>
             t       == q.terms
             c       == Commitment(ledger, paths, t, 0, 0)
             hx      == HoldsLeft(Gone(t) \cup q.holds)
             revd(V) == [x \in DOMAIN Reconciled |->
                           IF x \in V THEN [Reconciled[x] EXCEPT !.state = "REVOKED"] ELSE Reconciled[x]]
             recs(V) == Put(revd(V), k, c)
  <2>1. PICK V \in AdmissionPlans(q) :
          /\ RetireHistory(recs(V))
          /\ index' = SyncIndex(Without(ReconciledIndex, V), ledger, recs(V), {k})
    BY <1>3 DEF CreateCommitted
  <2> DEFINE next == recs(V)
             seen == Without(ReconciledIndex, V)
  <2>2. RetireHistory(next) /\ index' = SyncIndex(seen, ledger, next, {k})
    BY <2>1
  <2>3. DOMAIN next = DOMAIN records \cup {k} /\ next[k] = c
    BY <1>1 DEF Put
  <2>4. t \in Terms /\ k[1] = q.id /\ 0 \in Nat
    BY RequestsAssumption
  <2>5. UNCHANGED <<ledger, paths>> /\ holdIndex' = hx
    BY <1>3 DEF CreateReservation, authority, CreateCommitted, ReleaseHolds
  <2>6. Committable(ledger, seen, hx, emergency, PolicyFor(t.policy), t, Bound(paths, t))
    BY PlanRoom
  <2>7. seen \subseteq ReconciledIndex /\ hx \subseteq holdIndex /\ holdIndex' \subseteq hx
    BY <2>5 DEF Without, HoldsLeft
  <2> HIDE DEF next, k, t, seen, hx
  <2>8. \A x \in DOMAIN records' \ DOMAIN records : x = k /\ records'[x] = Commitment(ledger, paths, t, 0, 0)
    BY <2>2, <2>3, RetireKeeps
  <2>9. \A d \in index' : d.id # k[1] => d \in seen
    BY <2>2, SyncOne
  <2> QED
    BY <2>4, <2>5, <2>6, <2>7, <2>8, <2>9, OneAdmitted
<1> QED
  BY <1>2, <1>3 DEF CreateReservation

\* A generation is superseded by one that was assessed without it.
LEMMA SuccessorAdmitted ==
  ASSUME Inv, Inv', Strict, UNCHANGED <<ledger, paths>>, NEW k \in DOMAIN records,
         NEW t \in Terms, NEW at \in Nat, NEW grace \in Nat, NEW G,
         Committable(ledger, Without(ReconciledIndex, {k}), HoldsLeft(G), emergency,
                     PolicyFor(t.policy), t, Bound(paths, t)),
         NEW c, c = Commitment(ledger, paths, t, at, grace),
         \A x \in DOMAIN records' \ DOMAIN records : x = Succ(k) /\ records'[x] = c,
         \A d \in index' : d.id # k[1] => d \in ReconciledIndex, holdIndex' = HoldsLeft(G),
         NEW r, Timed(On(holdIndex, r))
  PROVE  Admits(r)
<1> DEFINE seen == Without(ReconciledIndex, {k})
           hx   == HoldsLeft(G)
           j    == Succ(k)
<1>1. seen \subseteq ReconciledIndex /\ hx \subseteq holdIndex /\ holdIndex' \subseteq hx
  BY DEF Without, HoldsLeft
<1>3. \A x \in DOMAIN records' \ DOMAIN records : x = j /\ records'[x] = Commitment(ledger, paths, t, at, grace)
  OBVIOUS
<1>4. j[1] = k[1]
  BY DEF Succ
<1>5. \A d \in index' : d.id # j[1] => d \in seen
  BY <1>4 DEF Without, Key
<1> HIDE DEF seen, hx, j
<1>6. Committable(ledger, seen, hx, emergency, PolicyFor(t.policy), t, Bound(paths, t))
  BY DEF seen, hx
<1> QED
  BY <1>1, <1>3, <1>5, <1>6, OneAdmitted

\* amend_locked.
LEMMA AmendAdmits ==
  ASSUME Inv, Inv', Strict, NEW q \in Amends, NEW k \in DOMAIN records, AmendReservation(q, k),
         NEW r, Timed(On(holdIndex, r))
  PROVE  Admits(r)
<1>1. DOMAIN Reconciled = DOMAIN records
  BY DEF Reconciled
<1>2. CASE AmendSettles(q) \/ AmendRefused(q, k)
  BY <1>1, <1>2, NothingAdmitted DEF AmendSettles, AmendRefused, Settle
<1>3. CASE AmendCommitted(q, k)
  <2> DEFINE grace == Reconciled[k].grace
             t     == q.terms
             c     == Commitment(ledger, paths, t, 0, grace)
             next  == Put(Superseded(Reconciled, k), Succ(k), c)
             G     == Gone(t)
  <2>1. RetireHistory(next) /\ index' = UpdateIndex(EraseIds(ReconciledIndex, {k[1]}), ledger, Succ(k), c)
    BY <1>3 DEF AmendCommitted
  <2>2. Committable(ledger, Without(ReconciledIndex, {k}), HoldsLeft(G), emergency,
                    PolicyFor(t.policy), t, Bound(paths, t))
    BY <1>3 DEF AmendCommitted, AmendAssessment, Assess, Committable
  <2>3. UNCHANGED <<ledger, paths>> /\ holdIndex' = HoldsLeft(G)
    BY <1>3 DEF AmendReservation, authority, AmendCommitted, ReleaseHolds
  <2>4. t \in Terms /\ 0 \in Nat
    BY RequestsAssumption
  <2>5. grace \in Nat
    <3>1. Reconciled[k] \in Record
      BY ReconciledRecord
    <3> QED
      BY <3>1 DEF Record
  <2>6. Succ(k)[1] = k[1]
    BY DEF Succ
  <2> HIDE DEF grace, t, G, c
  <2>7. \A d \in index' : d.id # k[1] => d \in ReconciledIndex
    BY <2>1, <2>6, UpdateOne DEF EraseIds
  <2>8. DOMAIN next = DOMAIN records \cup {Succ(k)} /\ next[Succ(k)] = c
    BY <1>1 DEF Put, Superseded
  <2> HIDE DEF next
  <2>9. \A x \in DOMAIN records' \ DOMAIN records : x = Succ(k) /\ records'[x] = c
    BY <2>1, <2>8, RetireKeeps
  <2>10. c = Commitment(ledger, paths, t, 0, grace)
    BY DEF c
  <2> QED
    BY <2>2, <2>3, <2>4, <2>5, <2>7, <2>9, <2>10, SuccessorAdmitted
<1> QED
  BY <1>2, <1>3 DEF AmendReservation

\* revalidate.
LEMMA RevalidateAdmits ==
  ASSUME Inv, Inv', Strict, NEW q, NEW k \in DOMAIN records, RevalidateReservation(q, k),
         NEW r, Timed(On(holdIndex, r))
  PROVE  Admits(r)
<1> DEFINE at    == Reconciled[k].recallAt
           grace == Reconciled[k].grace
           t     == Reconciled[k].terms
           c     == Commitment(ledger, paths, t, at, grace)
           next  == Put(Superseded(Reconciled, k), Succ(k), c)
<1>1. DOMAIN Reconciled = DOMAIN records
  BY DEF Reconciled
<1>2. CASE records' = Reconciled \/ records' = [Reconciled EXCEPT ![k].app = "STALE"]
  BY <1>1, <1>2, NothingAdmitted
<1> DEFINE G == Lapsed
<1>3. CASE /\ RederivedAlone(k)
           /\ records' = next
           /\ index' = SyncIndex(EraseIds(ReconciledIndex, {k[1]}), ledger, next, {Succ(k)})
           /\ ReleaseHolds(Lapsed)
  <2>1. Committable(ledger, Without(ReconciledIndex, {k}), HoldsLeft(G), emergency,
                    PolicyFor(t.policy), t, Bound(paths, t))
    BY <1>3 DEF RederivedAlone, Assess, Committable
  <2>2. UNCHANGED <<ledger, paths>> /\ holdIndex' = HoldsLeft(G)
    BY <1>3 DEF RevalidateReservation, authority, ReleaseHolds
  <2>3. t \in Terms /\ at \in Nat /\ grace \in Nat
    <3>1. Reconciled[k] \in Record
      BY ReconciledRecord
    <3> QED
      BY <3>1 DEF Record
  <2>4. Succ(k)[1] = k[1]
    BY DEF Succ
  <2> HIDE DEF at, grace, t, G, c
  <2>5. DOMAIN next = DOMAIN records \cup {Succ(k)} /\ next[Succ(k)] = c
    BY <1>1 DEF Put, Superseded
  <2> HIDE DEF next
  <2>6. \A d \in index' : d.id # k[1] => d \in ReconciledIndex
    BY <1>3, <2>4, SyncOne DEF EraseIds
  <2>7. \A x \in DOMAIN records' \ DOMAIN records : x = Succ(k) /\ records'[x] = c
    BY <1>3, <2>5
  <2>8. c = Commitment(ledger, paths, t, at, grace)
    BY DEF c
  <2> QED
    BY <2>1, <2>2, <2>3, <2>6, <2>7, <2>8, SuccessorAdmitted
<1>4. \/ records' = Reconciled
      \/ records' = [Reconciled EXCEPT ![k].app = "STALE"]
      \/ /\ RederivedAlone(k)
         /\ records' = next
         /\ index' = SyncIndex(EraseIds(ReconciledIndex, {k[1]}), ledger, next, {Succ(k)})
         /\ ReleaseHolds(Lapsed)
  BY Zenon DEF RevalidateReservation, Settle
<1> QED
  BY <1>2, <1>3, <1>4

\* What the index says of identity i is synced from what it said of i.
LEMMA SyncLocal ==
  ASSUME NEW ix, NEW jx, NEW L, NEW recs, NEW K, NEW J, NEW i,
         \A e : e.id = i => (e \in ix <=> e \in jx), \A k : k[1] = i => (k \in K <=> k \in J),
         NEW d \in SyncIndex(ix, L, recs, K), d.id = i
  PROVE  d \in SyncIndex(jx, L, recs, J)
<1> DEFINE flip(ax, Q) == {k \in Q : Indexable(L, recs[k]) # Held(ax, k)}
           add(ax, Q)  == {k \in flip(ax, Q) : Indexable(L, recs[k])}
<1>1. \A ax, Q : SyncIndex(ax, L, recs, Q) =
                   EraseIds(ax, {k[1] : k \in flip(ax, Q)}) \cup UNION {Entries(k, recs[k]) : k \in add(ax, Q)}
  BY DEF SyncIndex
<1>2. ASSUME NEW k, k[1] = i PROVE Held(ix, k) = Held(jx, k)
  <2>1. \A e : Key(e) = k => e.id = i
    BY <1>2 DEF Key
  <2>2. (\E e \in ix : Key(e) = k) <=> (\E e \in jx : Key(e) = k)
    BY <2>1
  <2> QED
    BY <2>2 DEF Held
<1>3. ASSUME NEW k, k[1] = i PROVE k \in flip(ix, K) <=> k \in flip(jx, J)
  <2>1. Held(ix, k) = Held(jx, k) /\ (k \in K <=> k \in J)
    BY <1>2, <1>3
  <2> QED
    BY <2>1, Zenon
<1>4. \A k : k[1] = i => (k \in add(ix, K) <=> k \in add(jx, J))
  BY <1>3, Zenon
<1> HIDE DEF flip, add
<1>5. CASE d \in EraseIds(ix, {k[1] : k \in flip(ix, K)})
  <2>1. d \in ix /\ \A k \in flip(ix, K) : k[1] # i
    BY <1>5 DEF EraseIds
  <2>2. d \in jx /\ \A k \in flip(jx, J) : k[1] # i
    BY <1>3, <2>1
  <2>3. d \in EraseIds(jx, {k[1] : k \in flip(jx, J)})
    BY <2>2 DEF EraseIds
  <2> QED
    BY <1>1, <2>3
<1>6. ASSUME NEW k \in add(ix, K), d \in Entries(k, recs[k]) PROVE d \in SyncIndex(jx, L, recs, J)
  <2>1. k[1] = i
    BY <1>6 DEF Entries
  <2>2. k \in add(jx, J)
    BY <1>4, <2>1
  <2>3. d \in UNION {Entries(x, recs[x]) : x \in add(jx, J)}
    BY <1>6, <2>2
  <2> QED
    BY <1>1, <2>3
<1>7. d \in EraseIds(ix, {k[1] : k \in flip(ix, K)}) \/ \E k \in add(ix, K) : d \in Entries(k, recs[k])
  BY <1>1
<1> QED
  BY <1>5, <1>6, <1>7

\* A pass deals with each identity on its own.
LEMMA RefreshLocal ==
  ASSUME NEW L, NEW recs, NEW next, NEW ix, NEW S, NEW T, NEW W, NEW i,
         \A k : k[1] = i => (k \in S <=> k \in T),
         NEW d \in RefreshedIndex(L, recs, next, ix, S, W), d.id = i
  PROVE  d \in RefreshedIndex(L, recs, next, ix, T, W)
<1> DEFINE base(Q) == EraseIds(ix, {k[1] : k \in Q \cap W})
           keys(Q) == {k \in Q \ W : next[k] # recs[k]} \cup {Succ(k) : k \in Q \cap W}
<1>1. \A Q : RefreshedIndex(L, recs, next, ix, Q, W) = SyncIndex(base(Q), L, next, keys(Q))
  BY DEF RefreshedIndex
<1>2. \A k : Succ(k)[1] = k[1]
  BY DEF Succ
<1>3. \A e : e.id = i => (e \in base(S) <=> e \in base(T))
  BY DEF EraseIds
<1>4. \A k : k[1] = i => (k \in keys(S) <=> k \in keys(T))
  BY <1>2
<1>5. d \in SyncIndex(base(S), L, next, keys(S))
  BY <1>1
<1> HIDE DEF base, keys
<1>6. d \in SyncIndex(base(T), L, next, keys(T))
  BY <1>3, <1>4, <1>5, SyncLocal
<1> QED
  BY <1>1, <1>6

\* A pass that deals with nothing.
LEMMA RefreshNone ==
  ASSUME NEW L, NEW recs, NEW next, NEW ix, NEW W
  PROVE  RefreshedIndex(L, recs, next, ix, {}, W) = ix
  BY DEF RefreshedIndex, SyncIndex, EraseIds

\* Entries of generations that a pass does not replace, and that were counted before it.
LEMMA RefreshKeepsEntry ==
  ASSUME NEW L, NEW P, NEW recs, NEW gen, NEW next, NEW ix, NEW W, Books(recs, gen, ix),
         W \subseteq LiveKeys(recs), RefreshesTo(L, P, recs, W, next),
         NEW d \in RefreshedIndex(L, recs, next, ix, LiveKeys(recs), W), Held(ix, Key(d))
  PROVE  d \in ix
<1> DEFINE S    == LiveKeys(recs)
           base == EraseIds(ix, {k[1] : k \in S \cap W})
           keys == {k \in S \ W : next[k] # recs[k]} \cup {Succ(k) : k \in S \cap W}
           flip == {k \in keys : Indexable(L, next[k]) # Held(base, k)}
           add  == {k \in flip : Indexable(L, next[k])}
<1>1. d \in EraseIds(base, {k[1] : k \in flip}) \/ \E k \in add : d \in Entries(k, next[k])
  BY DEF RefreshedIndex, SyncIndex
<1>2. CASE d \in EraseIds(base, {k[1] : k \in flip})
  BY <1>2 DEF EraseIds
<1>3. ASSUME NEW k \in add, d \in Entries(k, next[k]) PROVE FALSE
  <2>1. k \in keys /\ ~Held(base, k)
    BY Zenon
  <2>2. PICK x \in ix : Key(x) = Key(d)
    BY DEF Held
  <2>3. Key(x) \in DOMAIN recs /\ Consumes(recs[Key(x)])
    BY <2>2 DEF Books, Sound
  <2>4. Key(x) \in S /\ Key(x) \in Keys
    BY <2>3, ConsumingIsLive DEF LiveKeys, Books, WellFormed
  <2>5. k \in S \/ \E j \in W : k = Succ(j) /\ j \in S
    BY <2>1
  <2>6. \A j \in S : j \in DOMAIN recs /\ j \in Keys /\ j[2] = gen[j[1]]
    BY DEF LiveKeys, Books, WellFormed, Single
  <2>7. k = Key(d)
    <3>1. d.id = k[1] /\ d.gen = k[2]
      BY <1>3 DEF Entries
    <3>2. k = <<k[1], k[2]>>
      BY <2>5, <2>6 DEF Keys, Succ
    <3> QED
      BY <3>1, <3>2 DEF Key
  <2>8. CASE k \in S /\ k \notin W
    <3>1. x \notin base
      BY <2>1, <2>2, <2>7 DEF Held
    <3>2. PICK j \in S \cap W : x.id = j[1]
      BY <2>2, <3>1 DEF EraseIds
    <3>3. k[1] = j[1]
      BY <2>2, <2>7, <3>2 DEF Key
    <3>4. k = j
      BY <2>6, <2>8, <3>2, <3>3 DEF Keys
    <3> QED
      BY <2>8, <3>2, <3>4
  <2>9. ASSUME NEW j \in W, k = Succ(j) PROVE FALSE
    <3>1. Succ(j) \notin DOMAIN recs
      BY DEF RefreshesTo
    <3> QED
      BY <2>2, <2>3, <2>7, <2>9, <3>1
  <2>10. (k \in S /\ k \notin W) \/ \E j \in W : k = Succ(j)
    BY <2>1
  <2> QED
    BY <2>8, <2>9, <2>10
<1> QED
  BY <1>1, <1>2, <1>3

\* A generation that a pass re-derives was assessed next to what the pass had made of the
\* index: the identities before it as they are afterwards, the others as they were.
LEMMA PassAdmitted ==
  ASSUME Inv, Inv', Strict, NEW L \in [Resources -> LedgerRecord], L = ledger',
         NEW P \in [Paths -> PathRecord], NEW recs, NEW ix, NEW hx, NEW W, NEW next,
         Books(recs, generation, ix), DOMAIN recs = DOMAIN records,
         W \subseteq LiveKeys(recs), next = Refreshed(L, P, recs, W),
         IsRederived(L, P, recs, ix, hx, W),
         \A x \in DOMAIN records' : x \in DOMAIN next /\ records'[x] = next[x],
         index' = RefreshedIndex(L, recs, next, ix, LiveKeys(recs), W),
         NEW r, Timed(On(hx, r)), holdIndex' \subseteq hx,
         \A e \in On(index', r) : Key(e) \in DOMAIN records => Held(ix, Key(e))
  PROVE  Admits(r)
<1> SUFFICES ASSUME NEW e \in On(index', r), Key(e) \notin DOMAIN records PROVE NewFits(e)
  BY DEF Admits
<1>1. RefreshesTo(L, P, recs, W, next)
  BY RefreshedShape DEF Books
<1>2. e \in index' /\ e.res = r
  BY DEF On
<1>3. Key(e) \in DOMAIN records' /\ e \in Entries(Key(e), records'[Key(e)]) /\ e \in Entry
  BY <1>2 DEF Inv, TypeOK, Books, Sound, Entry
<1>4. PICK k \in W : Key(e) = Succ(k)
  BY <1>1, <1>3 DEF RefreshesTo
<1> DEFINE old == recs[k]
           t   == old.terms
           B   == {j \in LiveKeys(recs) : j[1] < k[1]}
           jx  == RefreshedIndex(L, recs, next, ix, B, W)
           see == Without(jx, {k})
<1>5. e \in Entries(Succ(k), Commitment(L, P, t, old.recallAt, old.grace))
  BY <1>1, <1>3, <1>4 DEF RefreshesTo
<1>6. t \in Terms /\ old.recallAt \in Nat /\ old.grace \in Nat /\ k \in LiveKeys(recs) /\ k[1] \in Nat
  BY RequestsAssumption DEF Books, WellFormed, LiveKeys, Record, Keys
<1>7. Committable(L, see, hx, emergency, PolicyFor(t.policy), t, Bound(P, t))
  BY <1>6 DEF IsRederived
<1>8. e.id = k[1]
  BY <1>4 DEF Key, Succ
<1>9. ASSUME NEW d, d.id < k[1] PROVE d \in jx <=> d \in index'
  <2>1. \A x : x[1] = d.id => (x \in B <=> x \in LiveKeys(recs))
    BY <1>9
  <2> HIDE DEF B
  <2> QED
    BY <2>1, RefreshLocal
<1>10. ASSUME NEW d, ~(d.id < k[1]) PROVE d \in jx <=> d \in ix
  <2>1. \A x : x[1] = d.id => (x \in B <=> x \in {})
    BY <1>10
  <2>2. RefreshedIndex(L, recs, next, ix, {}, W) = ix
    BY RefreshNone
  <2> DEFINE none == {}
  <2>3. /\ RefreshedIndex(L, recs, next, ix, none, W) = ix
        /\ \A x : x[1] = d.id => (x \in B <=> x \in none)
    BY <2>1, <2>2
  <2> HIDE DEF B, none
  <2> QED
    BY <2>3, RefreshLocal
<1>11. index' \subseteq Entry /\ ix \subseteq Entry /\ \A d \in Entry : d.id \in Nat
  <2>1. index' \subseteq Entry
    BY DEF Inv, TypeOK, Entry
  <2>2. ix \subseteq Entry
    BY EntryType DEF Books, Sound, WellFormed, Entry
  <2> QED
    BY <2>1, <2>2, RequestsAssumption DEF Entry
<1>12. Sparse(On(see, r))
  <2>1. Books(records', generation', index')
    BY DEF Inv
  <2>2. Sparse(On(index', r)) /\ Sparse(On(ix, r))
    BY <2>1, SoundSparse
  <2>3. \A d \in On(see, r) : d \in jx /\ d.res = r
    BY DEF On, Without
  <2> HIDE DEF see, jx
  <2>4. \A d \in On(see, r) : IF d.id < k[1] THEN d \in On(index', r) ELSE d \in On(ix, r)
    BY <1>9, <1>10, <2>3 DEF On
  <2> QED
    BY <2>2, <2>4 DEF Sparse
<1> HIDE DEF t, old, see
<1>13. Vetted(e, see, hx, L[e.res].ceiling)
  <2> DEFINE at    == old.recallAt
             grace == old.grace
             kk    == Succ(k)
  <2>1. at \in Nat /\ grace \in Nat /\ e \in Entries(kk, Commitment(L, P, t, at, grace))
    BY <1>5, <1>6
  <2> HIDE DEF at, grace, kk
  <2> QED
    BY <1>2, <1>6, <1>7, <1>12, <2>1, CommitmentVetted
<1>14. On(holdIndex', r) \subseteq hx
  BY DEF On
<1>15. ASSUME NEW d \in On(index', r), d.id < e.id \/ (d.id # e.id /\ Key(d) \in DOMAIN records)
       PROVE  d \in see
  <2>1. d \in index' /\ d.id \in Nat
    BY <1>11 DEF On
  <2>2. d.id # k[1]
    BY <1>6, <1>8, <1>15, <2>1
  <2>3. d \in jx
    <3>1. CASE d.id < k[1]
      BY <1>9, <2>1, <3>1
    <3>2. CASE ~(d.id < k[1])
      <4>1. Held(ix, Key(d))
        BY <1>8, <1>15, <3>2
      <4>2. d \in ix
        BY <1>1, <2>1, <4>1, RefreshKeepsEntry
      <4> QED
        BY <1>10, <3>2, <4>2
    <3> QED
      BY <3>1, <3>2
  <2> QED
    BY <2>2, <2>3 DEF see, Without, Key
<1> QED
  BY <1>2, <1>13, <1>14, <1>15 DEF NewFits

\* What a pass counts was counted before it, or ought to be.
LEMMA RefreshSource ==
  ASSUME NEW L, NEW recs, NEW next, NEW ix, NEW W, WellFormed(recs),
         NEW d \in RefreshedIndex(L, recs, next, ix, LiveKeys(recs), W)
  PROVE  d \in ix \/ Indexable(L, next[Key(d)])
<1> DEFINE S    == LiveKeys(recs)
           base == EraseIds(ix, {k[1] : k \in S \cap W})
           keys == {k \in S \ W : next[k] # recs[k]} \cup {Succ(k) : k \in S \cap W}
           flip == {k \in keys : Indexable(L, next[k]) # Held(base, k)}
           add  == {k \in flip : Indexable(L, next[k])}
<1>1. d \in EraseIds(base, {k[1] : k \in flip}) \/ \E k \in add : d \in Entries(k, next[k])
  BY DEF RefreshedIndex, SyncIndex
<1>2. CASE d \in EraseIds(base, {k[1] : k \in flip})
  BY <1>2 DEF EraseIds
<1>3. ASSUME NEW k \in add, d \in Entries(k, next[k]) PROVE Indexable(L, next[Key(d)])
  <2>1. k \in keys /\ Indexable(L, next[k])
    BY Zenon
  <2>2. k \in S \/ \E j \in S : k = Succ(j)
    BY <2>1
  <2>3. \A j \in S : j \in Keys
    BY DEF LiveKeys, WellFormed
  <2>4. k \in Keys
    BY <2>2, <2>3 DEF Keys, Succ
  <2>5. Key(d) = k
    BY <1>3, <2>4, EntryKey
  <2> QED
    BY <2>1, <2>5
<1> QED
  BY <1>1, <1>2, <1>3

\* Time takes nothing out of the index that still has to be there.
LEMMA StillHeld ==
  ASSUME Inv, NEW x \in DOMAIN records, Held(index, x), Indexable(ledger, Reconciled[x])
  PROVE  Held(ReconciledIndex, x)
<1> DEFINE flip == {k \in Moved : Indexable(ledger, Reconciled[k]) # Held(index, k)}
<1>1. PICK d \in index : Key(d) = x
  BY DEF Held
<1>2. d \in EraseIds(index, {k[1] : k \in flip}) => d \in ReconciledIndex
  BY DEF ReconciledIndex, SyncIndex
<1>3. ASSUME NEW k \in flip, k[1] = d.id PROVE FALSE
  <2>1. k \in Moved /\ k \in DOMAIN records
    BY DEF Moved
  <2>2. ~IsTerminal(records[k])
    <3>1. /\ records[k] \in Record /\ Reconciled[k].state = StateAt(records[k], now)
          /\ Reconciled[k].state # records[k].state
      BY <2>1, ReconciledRecord DEF Moved
    <3> QED
      BY <3>1, StateAtType
  <2>3. ~IsTerminal(records[x])
    BY <1>1, ConsumingIsLive DEF Inv, Books, Sound
  <2>4. k \in Keys /\ x \in Keys /\ k[2] = generation[k[1]] /\ x[2] = generation[x[1]]
    BY <2>1, <2>2, <2>3 DEF Inv, Books, WellFormed, Single
  <2>5. x[1] = d.id
    BY <1>1 DEF Key
  <2>6. k = x
    BY <1>3, <2>4, <2>5 DEF Keys
  <2>7. Indexable(ledger, Reconciled[k]) # Held(index, k)
    BY Zenon
  <2>8. Indexable(ledger, Reconciled[k]) = TRUE
    BY <2>6 DEF Indexable
  <2>9. Held(index, k) = TRUE
    BY <2>6 DEF Held
  <2> QED
    BY <2>7, <2>8, <2>9
<1>4. d \in ReconciledIndex
  <2> HIDE DEF flip
  <2> QED
    BY <1>2, <1>3 DEF EraseIds
<1> QED
  BY <1>1, <1>4 DEF Held

\* reconcile.
LEMMA LifecycleAdmits ==
  ASSUME Inv, Inv', Strict, ReconcileLifecycle, NEW r, Timed(On(holdIndex, r)),
         \A e \in On(index', r) : ~TakenBack(e)
  PROVE  Admits(r)
<1> DEFINE recs == Reconciled
           ix   == ReconciledIndex
           hx   == HoldsLeft(Lapsed)
<1>1. PICK W \in SUBSET LiveKeys(recs) :
        /\ IsRederived(ledger, paths, recs, ix, hx, W)
        /\ RetireHistory(Refreshed(ledger, paths, recs, W))
        /\ index' = RefreshedIndex(ledger, recs, Refreshed(ledger, paths, recs, W), ix, LiveKeys(recs), W)
  BY DEF ReconcileLifecycle
<1> DEFINE next == Refreshed(ledger, paths, recs, W)
<1>2. /\ next = Refreshed(ledger, paths, recs, W) /\ RetireHistory(next)
      /\ index' = RefreshedIndex(ledger, recs, next, ix, LiveKeys(recs), W)
  BY <1>1
<1>3. Books(recs, generation, ix) /\ DOMAIN recs = DOMAIN records
  BY ReconcileBooks DEF Inv, Reconciled
<1>4. ledger' = ledger /\ holdIndex' = hx /\ hx \subseteq holdIndex
  BY DEF ReconcileLifecycle, authority, ReleaseHolds, HoldsLeft
<1>5. ledger \in [Resources -> LedgerRecord] /\ paths \in [Paths -> PathRecord]
  BY DEF Inv, TypeOK
<1> HIDE DEF next
<1>6. \A x \in DOMAIN records' : x \in DOMAIN next /\ records'[x] = next[x]
  BY <1>2, RetireKeeps
<1>7. Timed(On(hx, r))
  <2>1. On(hx, r) \subseteq On(holdIndex, r)
    BY <1>4 DEF On
  <2> HIDE DEF hx
  <2> QED
    BY <2>1, LoadFewer
<1>8. ASSUME NEW e \in On(index', r), Key(e) \in DOMAIN records PROVE Held(ix, Key(e))
  <2> DEFINE x == Key(e)
  <2>1. e \in index' /\ ~TakenBack(e)
    BY DEF On
  <2>2. e \in ix => Held(ix, x)
    BY DEF Held
  <2>3. e \in ix \/ Indexable(ledger, next[x])
    BY <1>2, <1>3, <2>1, RefreshSource DEF Books
  <2>4. Held(index, x)
    BY <1>8, <2>1 DEF TakenBack, Held
  <2>5. ASSUME Indexable(ledger, next[x]) PROVE Indexable(ledger, recs[x])
    <3>1. x \in DOMAIN recs /\ recs[x] \in Record /\ records[x] \in Record
      BY <1>3, <1>8 DEF Books, WellFormed, Inv
    <3>2. RefreshesTo(ledger, paths, recs, W, next)
      BY <1>1, <1>2, <1>3, RefreshedShape DEF Books
    <3>3. ~IsTerminal(next[x])
      BY <2>5, ConsumingIsLive DEF Indexable
    <3>4. next[x] = RefreshedRecord(ledger, paths, recs[x])
      BY <3>1, <3>2, <3>3 DEF RefreshesTo
    <3>5. SameClaim(recs[x], next[x]) /\ next[x].state = recs[x].state
      BY <1>5, <3>1, <3>4, RefreshedType
    <3>6. recs[x].app = records[x].app
      <4>1. recs[x] = [records[x] EXCEPT !.state = StateAt(records[x], now)]
        BY <3>1 DEF Reconciled, ReconcileRecord
      <4> HIDE DEF x, recs
      <4> QED
        BY <3>1, <4>1 DEF Record
    <3>7. records[x].app # "STALE"
      BY <2>4 DEF Held, Inv, Books, Sound, Consumes
    <3>8. ConsumingInterval(next[x]) = ConsumingInterval(recs[x])
      BY <3>5 DEF SameClaim, ConsumingInterval
    <3> HIDE DEF x, recs
    <3> QED
      BY <2>5, <3>5, <3>6, <3>7, <3>8 DEF Indexable, Consumes, SameClaim
  <2>6. Indexable(ledger, next[x]) => Held(ix, x)
    BY <1>8, <2>4, <2>5, StillHeld
  <2> QED
    BY <2>2, <2>3, <2>6
<1> HIDE DEF recs, ix, hx
<1> QED
  BY <1>1, <1>2, <1>3, <1>4, <1>5, <1>6, <1>7, <1>8, PassAdmitted

\* ingest_capacity, taken whole.
LEMMA CapacityAdmits ==
  ASSUME Inv, Inv', Strict, NEW R, NEW W, Restates(R, W), NEW r, Timed(On(holdIndex, r)),
         \A e \in On(index', r) : ~TakenBack(e)
  PROVE  Admits(r)
<1> DEFINE L    == ledger'
           next == Refreshed(L, paths, records, W)
<1>1. /\ W \subseteq LiveKeys(records) /\ IsRederived(L, paths, records, index, holdIndex, W)
      /\ index' = RefreshedIndex(L, records, next, index, LiveKeys(records), W)
  BY DEF Restates, IngestRefresh
<1>2. L \in [Resources -> LedgerRecord] /\ paths \in [Paths -> PathRecord] /\ L = ledger'
  BY DEF Inv, TypeOK
<1>3. holdIndex' \subseteq holdIndex
  BY DEF Restates, ReleaseHolds, HoldsLeft
<1>4. \A x \in DOMAIN records' : x \in DOMAIN next /\ records'[x] = next[x]
  BY RestatedBooks
<1>5. \A e \in On(index', r) : Key(e) \in DOMAIN records => Held(index, Key(e))
  BY DEF TakenBack, Held
<1>6. Books(records, generation, index) /\ next = Refreshed(L, paths, records, W)
  BY DEF Inv
<1> HIDE DEF next, L
<1> QED
  BY <1>1, <1>2, <1>3, <1>4, <1>5, <1>6, PassAdmitted

\* ingest_paths.
LEMMA PathsAdmits ==
  ASSUME Inv, Inv', Strict, NEW items, IngestPaths(items), NEW r, Timed(On(holdIndex, r)),
         \A e \in On(index', r) : ~TakenBack(e)
  PROVE  Admits(r)
<1>1. CASE records' = records
  BY <1>1, NothingAdmitted
<1>2. ASSUME NEW W \in SUBSET LiveKeys(records), IngestRefresh(ledger, paths', W),
             records' = Refreshed(ledger, paths', records, W), holdIndex' \subseteq holdIndex
      PROVE  Admits(r)
  <2> DEFINE P    == paths'
             next == Refreshed(ledger, P, records, W)
  <2>1. /\ IsRederived(ledger, P, records, index, holdIndex, W)
        /\ index' = RefreshedIndex(ledger, records, next, index, LiveKeys(records), W)
    BY <1>2 DEF IngestRefresh
  <2>2. ledger \in [Resources -> LedgerRecord] /\ P \in [Paths -> PathRecord] /\ ledger = ledger'
    BY DEF Inv, TypeOK, IngestPaths
  <2>3. \A x \in DOMAIN records' : x \in DOMAIN next /\ records'[x] = next[x]
    BY <1>2
  <2>4. \A e \in On(index', r) : Key(e) \in DOMAIN records => Held(index, Key(e))
    BY DEF TakenBack, Held
  <2>5. Books(records, generation, index) /\ next = Refreshed(ledger, P, records, W)
    BY DEF Inv
  <2> HIDE DEF next, P
  <2> QED
    BY <1>2, <2>1, <2>2, <2>3, <2>4, <2>5, PassAdmitted
<1>3. \/ records' = records
      \/ /\ holdIndex' \subseteq holdIndex
         /\ \E W \in SUBSET LiveKeys(records) : IngestRefresh(ledger, paths', W)
                                                /\ records' = Refreshed(ledger, paths', records, W)
  BY DEF IngestPaths, books, ReleaseHolds, HoldsLeft
<1> QED
  BY <1>1, <1>2, <1>3

\* Every step admits on r only what there is room for, if it takes nothing back there.
LEMMA AdmitsNext ==
  ASSUME Inv, Inv', Strict, [Next]_vars, NEW r, Timed(On(holdIndex, r)),
         \A e \in On(index', r) : ~TakenBack(e)
  PROVE  Admits(r)
<1>1. DOMAIN Reconciled = DOMAIN records
  BY DEF Reconciled
<1>2. ASSUME DOMAIN records' = DOMAIN records PROVE Admits(r)
  BY <1>2, NothingAdmitted
<1>3. ASSUME NEW q, NEW k, ReleaseReservation(q, k) PROVE Admits(r)
  BY <1>1, <1>2, <1>3 DEF ReleaseReservation, Settle, Transition
<1>4. ASSUME NEW q, NEW k, RecallReservation(q, k) PROVE Admits(r)
  BY <1>1, <1>2, <1>4 DEF RecallReservation, Settle, Transition, RecallPends
<1>5. ASSUME NEW q, NEW k, RevokeReservation(q, k) PROVE Admits(r)
  BY <1>1, <1>2, <1>5 DEF RevokeReservation, Settle, Transition
<1>6. ASSUME NEW q, AcquireHold(q) \/ ReleaseHold(q) \/ ReleaseSession(q) PROVE Admits(r)
  BY <1>1, <1>2, <1>6 DEF AcquireHold, ReleaseHold, ReleaseSession, Settle, books
<1>7. ASSUME NEW q, RegisterClaimant(q) \/ Fence(q) \/ ResolveOvercommit(q) PROVE Admits(r)
  BY <1>2, <1>7 DEF RegisterClaimant, Fence, ResolveOvercommit, books
<1>8. ASSUME BeginShutdown \/ Query \/ Tick \/ UNCHANGED vars PROVE Admits(r)
  BY <1>1, <1>2, <1>8 DEF BeginShutdown, Query, Tick, vars, Settle, books
<1>9. \A i : Generations(i) \subseteq DOMAIN records
  BY DEF Generations
<1>10. ASSUME NEW p, IngestPolicy(p) PROVE Admits(r)
  BY <1>2, <1>10 DEF IngestPolicy
<1>11. ASSUME NEW s \in Snapshots, IngestCapacity(s) PROVE Admits(r)
  <2>1. CASE Taken(LedgerVerdicts(ledger, s.caps)) = Len(s.caps)
    BY <1>2, <1>11, <2>1, CapacityShape, CapacityAdmits DEF books
  <2>2. CASE Taken(LedgerVerdicts(ledger, s.caps)) # Len(s.caps)
    BY <1>2, <1>11, <2>2 DEF IngestCapacity, books
  <2> QED
    BY <2>1, <2>2
<1> QED
  BY <1>3, <1>4, <1>5, <1>6, <1>7, <1>8, <1>9, <1>10, <1>11, CreateAdmits, AmendAdmits, RevalidateAdmits,
     LifecycleAdmits, PathsAdmits
  DEF Next, Request

----------------------------------------------------------------------------
(* The hold part of the index, and the entries of the other.               *)

\* What the hold part of the index consists of.
HoldEntry == [hold : Attempts, res : Resources, start : Nat, end : Nat, amount : Nat]

\* A hold has at most one entry on a resource.
Placed(hx) ==
  /\ hx \subseteq HoldEntry
  /\ \A d, e \in hx : d.hold = e.hold /\ d.res = e.res => d = e

\* The holds on one resource are finitely many.
LEMMA PlacedTimed ==
  ASSUME NEW hx, Placed(hx), NEW r
  PROVE  Timed(On(hx, r))
<1> DEFINE A == On(hx, r)
           f == [e \in A |-> e.hold]
<1>1. A \subseteq HoldEntry /\ \A d, e \in A : d.hold = e.hold => d = e
  BY DEF On, Placed
<1> HIDE DEF A
<1>2. f \in Injection(A, Attempts)
  BY <1>1 DEF HoldEntry, Injection, IsInjective
<1>3. IsFiniteSet(A)
  <2> HIDE DEF f
  <2> QED
    BY <1>2, IdentitiesAssumption, FS_Injection
<1>4. Timed(A)
  BY <1>1, <1>3 DEF Timed, Weighed, HoldEntry
<1> QED
  BY <1>4 DEF A

\* A hold that would take a second entry on a resource takes none.
LEMMA PlacedNext ==
  ASSUME Inv, Placed(holdIndex), [Next]_vars
  PROVE  Placed(holdIndex')
<1>1. ASSUME holdIndex' \subseteq holdIndex PROVE Placed(holdIndex')
  BY <1>1 DEF Placed
<1>2. ASSUME NEW G, ReleaseHolds(G) PROVE Placed(holdIndex')
  BY <1>1, <1>2 DEF ReleaseHolds, HoldsLeft
<1>3. ASSUME UNCHANGED holding PROVE Placed(holdIndex')
  BY <1>1, <1>3 DEF holding
<1>4. ASSUME NEW q \in HoldRequests, AcquireHold(q) PROVE Placed(holdIndex')
  <2> DEFINE left == HoldsLeft(Gone(q.terms))
             new  == HoldEntries(q)
  <2>1. left \subseteq holdIndex /\ HoldsLeft(Gone(q.terms) \cup {q.ctx.attempt}) \subseteq holdIndex
    BY DEF HoldsLeft
  <2>2. CASE HoldCollides(q) \/ ~HoldAdmitted(q)
    BY <1>1, <1>4, <2>1, <2>2 DEF AcquireHold, ReleaseHolds
  <2>3. CASE ~HoldCollides(q) /\ HoldAdmitted(q)
    <3>1. holdIndex' = left \cup new
      BY <1>4, <2>3 DEF AcquireHold
    <3>2. q.ctx.attempt \in Attempts /\ q.terms \in Terms
      BY RequestsAssumption DEF Context
    <3>3. Bound(paths, q.terms) \subseteq Resources
      BY <3>2 DEF Bound, Terms, PathRecord, Inv, TypeOK
    <3>4. new \subseteq HoldEntry
      BY <3>2, <3>3 DEF HoldEntries, HoldEntry, Terms
    <3>5. \A e \in new : e.hold = q.ctx.attempt /\ e.res \in Bound(paths, q.terms)
      BY DEF HoldEntries
    <3>6. \A d, e \in new : d.res = e.res => d = e
      BY DEF HoldEntries
    <3>7. \A d \in left, e \in new : ~(d.hold = e.hold /\ d.res = e.res)
      BY <2>3, <3>5 DEF HoldCollides
    <3> HIDE DEF left, new
    <3> QED
      BY <2>1, <3>1, <3>4, <3>6, <3>7 DEF Placed
  <2> QED
    BY <2>2, <2>3
<1> QED
  BY <1>2, <1>3, <1>4, StepCases DEF HoldCases, Leaves, Enrols, GivesUp, Fence, BeginShutdown

\* No entry of the index is empty.
Filled(ix) == \A e \in ix : e.start < e.end

\* What is put in the index is not empty.
LEMMA EntryFilled ==
  ASSUME NEW L, NEW k, NEW c, Indexable(L, c), NEW e \in Entries(k, c)
  PROVE  e.start < e.end
  BY DEF Indexable, NonEmpty, Entries

\* Nor does syncing put one in.
LEMMA SyncFilled ==
  ASSUME NEW ix, Filled(ix), NEW L, NEW recs, NEW K
  PROVE  Filled(SyncIndex(ix, L, recs, K))
<1> SUFFICES ASSUME NEW e \in SyncIndex(ix, L, recs, K) PROVE e.start < e.end
  BY DEF Filled
<1>1. e \in ix \/ \E k \in K : Indexable(L, recs[k]) /\ e \in Entries(k, recs[k])
  BY DEF SyncIndex, EraseIds
<1> QED
  BY <1>1, EntryFilled DEF Filled

\* Nor does an update,
LEMMA UpdateFilled ==
  ASSUME NEW ix, Filled(ix), NEW L, NEW k, NEW c
  PROVE  Filled(UpdateIndex(ix, L, k, c))
<1> SUFFICES ASSUME NEW e \in UpdateIndex(ix, L, k, c) PROVE e.start < e.end
  BY DEF Filled
<1>1. e \in ix \/ (Indexable(L, c) /\ e \in Entries(k, c))
  BY DEF UpdateIndex, EraseIds
<1> QED
  BY <1>1, EntryFilled DEF Filled

\* nor do removals,
LEMMA FewerFilled ==
  ASSUME NEW ix, Filled(ix), NEW K
  PROVE  Filled(EraseIds(ix, K)) /\ Filled(Without(ix, K))
  BY DEF Filled, EraseIds, Without

\* nor does the refresh that follows a change of the tables.
LEMMA RefreshFilled ==
  ASSUME NEW ix, Filled(ix), NEW L, NEW recs, NEW next, NEW S, NEW W
  PROVE  Filled(RefreshedIndex(L, recs, next, ix, S, W))
<1> DEFINE base == EraseIds(ix, {k[1] : k \in S \cap W})
           keys == {k \in S \ W : next[k] # recs[k]} \cup {Succ(k) : k \in S \cap W}
<1>1. Filled(base)
  BY FewerFilled
<1>2. RefreshedIndex(L, recs, next, ix, S, W) = SyncIndex(base, L, next, keys)
  BY DEF RefreshedIndex
<1> HIDE DEF base, keys
<1> QED
  BY <1>1, <1>2, SyncFilled

\* Every step leaves the entries of the index non-empty.
LEMMA FilledNext ==
  ASSUME Filled(index), [Next]_vars
  PROVE  Filled(index')
<1>1. Filled(ReconciledIndex)
  BY SyncFilled DEF ReconciledIndex
<1>2. \A V : Filled(Without(ReconciledIndex, V)) /\ Filled(EraseIds(ReconciledIndex, V))
  BY <1>1, FewerFilled
<1>3. ASSUME index' = index \/ index' = ReconciledIndex PROVE Filled(index')
  BY <1>1, <1>3
<1>4. ASSUME \E L, recs, K : \/ index' = SyncIndex(ReconciledIndex, L, recs, K)
                             \/ index' = SyncIndex(index, L, recs, K)
      PROVE  Filled(index')
  BY <1>1, <1>4, SyncFilled
<1>5. ASSUME NEW q, CreateReservation(q) PROVE Filled(index')
  <2>1. \/ index' = ReconciledIndex
        \/ \E V, recs, K : index' = SyncIndex(Without(ReconciledIndex, V), ledger, recs, K)
    BY <1>5 DEF CreateReservation, CreateSettles, CreateRefused, CreateCommitted, Settle
  <2> QED
    BY <1>2, <1>3, <2>1, SyncFilled
<1>6. ASSUME NEW q, NEW k, AmendReservation(q, k) PROVE Filled(index')
  <2>1. \/ index' = ReconciledIndex
        \/ \E j, c : index' = UpdateIndex(EraseIds(ReconciledIndex, {k[1]}), ledger, j, c)
    BY <1>6 DEF AmendReservation, AmendSettles, AmendRefused, AmendCommitted, Settle
  <2> QED
    BY <1>2, <1>3, <2>1, UpdateFilled
<1>7. ASSUME NEW q, NEW k, ReleaseReservation(q, k) \/ RevokeReservation(q, k) PROVE Filled(index')
  <2>1. \/ index' = ReconciledIndex
        \/ \E recs, K : index' = SyncIndex(ReconciledIndex, ledger, recs, K)
    BY <1>7 DEF ReleaseReservation, RevokeReservation, Settle, Transition
  <2> QED
    BY <1>3, <1>4, <2>1
<1>8. ASSUME NEW q, NEW k, RecallReservation(q, k) PROVE Filled(index')
  <2>1. \/ index' = ReconciledIndex
        \/ \E recs, K : index' = SyncIndex(ReconciledIndex, ledger, recs, K)
        \/ \E c : index' = UpdateIndex(ReconciledIndex, ledger, k, c)
    BY <1>8 DEF RecallReservation, Settle, Transition, RecallPends
  <2> QED
    BY <1>1, <1>3, <1>4, <2>1, UpdateFilled
<1>9. ASSUME NEW q, NEW k, RevalidateReservation(q, k) PROVE Filled(index')
  <2>1. \/ index' = ReconciledIndex
        \/ \E recs, K : index' = SyncIndex(ReconciledIndex, ledger, recs, K)
        \/ \E recs, K : index' = SyncIndex(EraseIds(ReconciledIndex, {k[1]}), ledger, recs, K)
    BY <1>9 DEF RevalidateReservation, Settle
  <2> QED
    BY <1>2, <1>3, <1>4, <2>1, SyncFilled
<1>10. ASSUME \/ ReconcileLifecycle
              \/ \E s \in Snapshots : IngestCapacity(s)
              \/ \E items \in PathSnapshots : IngestPaths(items)
       PROVE  Filled(index')
  <2>1. \/ index' = index
        \/ \E L, recs, next, S, W : \/ index' = RefreshedIndex(L, recs, next, ReconciledIndex, S, W)
                                    \/ index' = RefreshedIndex(L, recs, next, index, S, W)
    BY <1>10 DEF ReconcileLifecycle, IngestCapacity, IngestPaths, IngestRefresh, books
  <2> QED
    BY <1>1, <1>3, <2>1, RefreshFilled
<1>11. ASSUME NEW q, IngestPolicy(q) \/ ResolveOvercommit(q) PROVE Filled(index')
  <2>1. IngestPolicy(q) => \E recs, K : index' = SyncIndex(index, ledger, recs, K)
    BY Zenon DEF IngestPolicy
  <2>2. ResolveOvercommit(q) => \E recs, K : index' = SyncIndex(index, ledger, recs, K)
    BY Zenon DEF ResolveOvercommit
  <2> QED
    BY <1>4, <1>11, <2>1, <2>2
<1>12. ASSUME NEW q, \/ AcquireHold(q) \/ ReleaseHold(q) \/ ReleaseSession(q) \/ RegisterClaimant(q)
                     \/ Fence(q)
       PROVE  Filled(index')
  BY <1>3, <1>12 DEF AcquireHold, ReleaseHold, ReleaseSession, RegisterClaimant, Fence, Settle, books
<1>13. ASSUME BeginShutdown \/ Query \/ Tick \/ UNCHANGED vars PROVE Filled(index')
  BY <1>3, <1>13 DEF BeginShutdown, Query, Tick, vars, Settle, books
<1> QED
  BY <1>5, <1>6, <1>7, <1>8, <1>9, <1>10, <1>11, <1>12, <1>13 DEF Next, Request

----------------------------------------------------------------------------
(* What is admitted closes.                                                *)

\* No policy that is stated allows overcommit.
NoOvercommit == \A p \in PolicyRecords : ~p.record.overcommit

\* Policies move by ingestion only.
LEMMA PoliciesMove ==
  ASSUME [Next]_vars
  PROVE  UNCHANGED policies \/ \E p \in PolicyRecords : IngestPolicy(p)
<1> USE DEF authority
<1>1. ASSUME NEW q, CreateReservation(q) PROVE UNCHANGED policies
  BY <1>1 DEF CreateReservation
<1>2. ASSUME NEW q, NEW k, AmendReservation(q, k) PROVE UNCHANGED policies
  BY <1>2 DEF AmendReservation
<1>3. ASSUME NEW q, NEW k, ReleaseReservation(q, k) PROVE UNCHANGED policies
  BY <1>3 DEF ReleaseReservation
<1>4. ASSUME NEW q, NEW k, RecallReservation(q, k) PROVE UNCHANGED policies
  BY <1>4 DEF RecallReservation
<1>5. ASSUME NEW q, NEW k, RevokeReservation(q, k) PROVE UNCHANGED policies
  BY <1>5 DEF RevokeReservation
<1>6. ASSUME NEW q, NEW k, RevalidateReservation(q, k) PROVE UNCHANGED policies
  BY <1>6 DEF RevalidateReservation
<1>7. ASSUME ReconcileLifecycle PROVE UNCHANGED policies
  BY <1>7 DEF ReconcileLifecycle
<1>8. ASSUME NEW s, IngestCapacity(s) \/ IngestPaths(s) PROVE UNCHANGED policies
  BY <1>8 DEF IngestCapacity, IngestPaths
<1>9. ASSUME NEW q, AcquireHold(q) \/ ReleaseHold(q) \/ ReleaseSession(q) PROVE UNCHANGED policies
  BY <1>9 DEF AcquireHold, ReleaseHold, ReleaseSession
<1>10. ASSUME NEW q, RegisterClaimant(q) \/ Fence(q) \/ ResolveOvercommit(q) PROVE UNCHANGED policies
  BY <1>10 DEF RegisterClaimant, Fence, ResolveOvercommit
<1>11. ASSUME BeginShutdown \/ Query \/ Tick \/ UNCHANGED vars PROVE UNCHANGED policies
  BY <1>11 DEF BeginShutdown, Query, Tick, vars
<1> QED
  BY <1>1, <1>2, <1>3, <1>4, <1>5, <1>6, <1>7, <1>8, <1>9, <1>10, <1>11 DEF Next, Request

\* So that none in force ever does.
LEMMA StrictNext ==
  ASSUME NoOvercommit, Inv, Strict, [Next]_vars
  PROVE  Strict'
<1>1. policies \in [Policies -> PolicyRecord]
  BY DEF Inv, TypeOK
<1>2. CASE UNCHANGED policies
  BY <1>2 DEF Strict, PolicyFor
<1>3. ASSUME NEW p \in PolicyRecords, IngestPolicy(p) PROVE Strict'
  <2>1. policies' = [policies EXCEPT ![p.name] = p.record] /\ ~p.record.overcommit
    BY <1>3 DEF IngestPolicy, NoOvercommit
  <2> SUFFICES ASSUME NEW n \in Policies PROVE ~PolicyFor(n)'.overcommit
    BY DEF Strict
  <2>2. StrictDefault.overcommit = FALSE
    BY DEF StrictDefault
  <2>3. policies'[n] = p.record \/ policies'[n] = policies[n]
    BY <1>1, <2>1
  <2>4. CASE policies'[n].gen = 0
    BY <2>2, <2>4 DEF PolicyFor
  <2>5. CASE policies'[n].gen # 0
    <3>1. PolicyFor(n)' = policies'[n]
      BY <2>5 DEF PolicyFor
    <3>2. policies'[n] = policies[n] => PolicyFor(n) = policies[n]
      BY <2>5 DEF PolicyFor
    <3>3. ~PolicyFor(n).overcommit
      BY DEF Strict
    <3> QED
      BY <2>1, <2>3, <3>1, <3>2, <3>3
  <2> QED
    BY <2>4, <2>5
<1> QED
  BY <1>2, <1>3, PoliciesMove

\* What an assessment needs to be true of the books it reads.
RoomInv == Inv /\ Strict /\ Placed(holdIndex) /\ Filled(index)

\* Initially, and after every step.
LEMMA RoomInit == Init => RoomInv
<1> SUFFICES ASSUME Init PROVE RoomInv
  OBVIOUS
<1>1. Inv /\ index = {} /\ holdIndex = {}
  BY InvInit DEF Init
<1>2. Strict
  <2> SUFFICES ASSUME NEW n \in Policies PROVE ~PolicyFor(n).overcommit
    BY DEF Strict
  <2>1. policies[n].gen = 0
    BY DEF Init, StrictDefault
  <2>2. StrictDefault.overcommit = FALSE
    BY DEF StrictDefault
  <2> QED
    BY <2>1, <2>2 DEF PolicyFor
<1> QED
  BY <1>1, <1>2 DEF RoomInv, Placed, Filled

\* The policies stay strict, the holds placed and the entries filled.
LEMMA RoomNext ==
  ASSUME NoOvercommit, RoomInv, [Next]_vars
  PROVE  RoomInv'
<1>1. Inv'
  BY InvNext DEF RoomInv
<1> QED
  BY <1>1, StrictNext, PlacedNext, FilledNext DEF RoomInv

\* No step that admits a generation on a resource also counts there again what was not
\* counted before.  A snapshot that brings a withdrawn resource back does, when the refresh
\* that follows it both re-derives one commitment and finds another one current again.
NothingTakenBackBeside ==
  \A d, e \in index' : TakenBack(d) /\ Key(e) \notin DOMAIN records => d.res # e.res

\* What AdmissionCloses says of one step.
AdmissionStep ==
  \A e \in index' :
    Key(e) \notin DOMAIN records =>
      LET pol == PolicyFor(records'[Key(e)].terms.policy)
      IN  PeakCombined(On(index', e.res), On(holdIndex', e.res), e)
            <= ledger'[e.res].ceiling + (IF pol.overcommit THEN pol.allowance ELSE 0)

\* What is admitted closes, step by step.
LEMMA AdmissionNext ==
  ASSUME RoomInv, RoomInv', [Next]_vars, NothingTakenBackBeside
  PROVE  AdmissionStep
<1> SUFFICES ASSUME NEW e \in index', Key(e) \notin DOMAIN records
             PROVE  LET pol == PolicyFor(records'[Key(e)].terms.policy)
                    IN  PeakCombined(On(index', e.res), On(holdIndex', e.res), e)
                          <= ledger'[e.res].ceiling + (IF pol.overcommit THEN pol.allowance ELSE 0)
  BY DEF AdmissionStep
<1> DEFINE r   == e.res
           A   == On(index', r)
           H   == On(holdIndex', r)
           pol == PolicyFor(records'[Key(e)].terms.policy)
           c   == ledger'[r].ceiling
<1>1. Inv /\ Inv' /\ Strict /\ Placed(holdIndex) /\ Placed(holdIndex') /\ Filled(index')
  BY DEF RoomInv
<1>2. e \in Entry /\ e.start \in Nat /\ e.end \in Nat /\ e.start < e.end /\ r \in Resources
  BY <1>1 DEF Inv, TypeOK, Entry, Filled
<1>3. Timed(On(holdIndex, r)) /\ Timed(H)
  <2> HIDE DEF r
  <2> QED
    BY <1>1, PlacedTimed
<1>4. Timed(A)
  <2>1. Books(records', generation', index')
    BY <1>1 DEF Inv
  <2> HIDE DEF r
  <2> QED
    BY <2>1, SoundSparse, SparseTimed
<1>5. Admits(r)
  <2>1. \A d \in On(index', r) : ~TakenBack(d)
    BY DEF NothingTakenBackBeside, On
  <2> HIDE DEF r
  <2> QED
    BY <1>1, <1>3, <2>1, AdmitsNext
<1>6. ~pol.overcommit
  <2>1. Key(e) \in DOMAIN records' /\ records'[Key(e)] \in Record
    BY <1>1 DEF Inv, Books, Sound, WellFormed
  <2>2. records'[Key(e)].terms.policy \in Policies
    BY <2>1 DEF Record, Terms
  <2> QED
    BY <1>1, <2>2 DEF Strict
<1>7. PICK s \in Nat : /\ e.start <= s /\ s < e.end
                       /\ PeakCombined(A, H, e) = Load(A, s) + Load(H, s)
  <2> HIDE DEF A, H
  <2> QED
    BY <1>2, <1>3, <1>4, PeakReached
<1>8. e \in Active(A, s)
  BY <1>7 DEF Active, On
<1>9. Load(A, s) + Load(H, s) <= c
  <2> HIDE DEF r
  <2> QED
    BY <1>1, <1>3, <1>5, <1>8, NewBounds
<1>10. c \in Nat
  BY <1>1, <1>2 DEF Inv, TypeOK, LedgerRecord
<1>11. PeakCombined(A, H, e) <= c + 0
  BY <1>7, <1>9, <1>10
<1> QED
  BY <1>6, <1>11

\* A commitment is only ever admitted into what is left: under policies that allow no
\* overcommit, over the window of a new generation commitments and holds stay together
\* within the ceiling.  The re-derivations of one pass are counted against each other,
\* the victims of a preemption and the holds consumed are not counted, whatever order
\* requests, snapshots and time come in.  The hypothesis is needed: a step that takes
\* back what was not counted does not assess it.
THEOREM AdmissionsAreClosed ==
  ASSUME NoOvercommit
  PROVE  Spec /\ [][NothingTakenBackBeside]_vars => AdmissionCloses
<1>1. Init => RoomInv
  BY RoomInit
<1>2. RoomInv /\ [Next]_vars => RoomInv'
  BY RoomNext
<1>3. RoomInv /\ RoomInv' /\ [Next]_vars /\ [NothingTakenBackBeside]_vars => [AdmissionStep]_vars
  BY AdmissionNext
<1>4. RoomInv /\ RoomInv' /\ [Next]_vars /\ [NothingTakenBackBeside]_vars =>
        [\A e \in index' :
           Key(e) \notin DOMAIN records =>
             LET pol == PolicyFor(records'[Key(e)].terms.policy)
             IN  PeakCombined(On(index', e.res), On(holdIndex', e.res), e)
                   <= ledger'[e.res].ceiling + (IF pol.overcommit THEN pol.allowance ELSE 0)]_vars
  BY <1>3 DEF AdmissionStep
<1> QED
  BY <1>1, <1>2, <1>4, PTL DEF Spec, AdmissionCloses

----------------------------------------------------------------------------
(* No resource is overbooked.                                              *)

\* Commitments and holds on r are within its ceiling at every instant.
Fit(r) == \A s \in Nat : Load(On(index, r), s) + Load(On(holdIndex, r), s) <= ledger[r].ceiling

\* A resource in an emergency carries no hold.
NoHoldInEmergency == \A r \in emergency : On(holdIndex, r) = {}

\* Steps that take no hold and restate nothing on r.
LEMMA FitKept ==
  ASSUME RoomInv, RoomInv', [Next]_vars, NEW r \in Resources, Fit(r), ledger'[r] = ledger[r],
         holdIndex' \subseteq holdIndex, \A e \in On(index', r) : ~TakenBack(e)
  PROVE  Fit(r)'
<1>1. Inv /\ Inv' /\ Strict /\ Placed(holdIndex) /\ Placed(holdIndex')
  BY DEF RoomInv
<1>2. Timed(On(holdIndex, r)) /\ Timed(On(holdIndex', r))
  BY <1>1, PlacedTimed
<1>3. Timed(On(index, r)) /\ Timed(On(index', r))
  <2>1. Books(records, generation, index) /\ Books(records', generation', index')
    BY <1>1 DEF Inv
  <2> QED
    BY <2>1, SoundSparse, SparseTimed
<1>4. Admits(r)
  BY <1>1, <1>2, AdmitsNext
<1> SUFFICES ASSUME NEW s \in Nat
             PROVE  Load(On(index', r), s) + Load(On(holdIndex', r), s) <= ledger'[r].ceiling
  BY DEF Fit
<1>5. CASE \E x \in Active(On(index', r), s) : Key(x) \notin DOMAIN records
  BY <1>1, <1>2, <1>4, <1>5, NewBounds
<1>6. CASE \A x \in Active(On(index', r), s) : Key(x) \in DOMAIN records
  <2>1. Load(On(index', r), s) <= Load(On(index, r), s)
    BY <1>1, <1>6, KeptBounds
  <2>2. On(holdIndex', r) \subseteq On(holdIndex, r)
    BY DEF On
  <2>3. Load(On(holdIndex', r), s) <= Load(On(holdIndex, r), s)
    BY <1>2, <2>2, LoadFewer
  <2>4. /\ Load(On(index', r), s) \in Nat /\ Load(On(index, r), s) \in Nat
        /\ Load(On(holdIndex', r), s) \in Nat /\ Load(On(holdIndex, r), s) \in Nat
    BY <1>2, <1>3, LoadBound
  <2>5. Load(On(index, r), s) + Load(On(holdIndex, r), s) <= ledger[r].ceiling
    BY DEF Fit
  <2>6. ledger[r].ceiling \in Nat
    BY <1>1 DEF Inv, TypeOK, LedgerRecord
  <2> QED
    BY <2>1, <2>3, <2>4, <2>5, <2>6
<1> QED
  BY <1>5, <1>6

\* The holds on a restated resource are given up, by their records and so by their entries.
LEMMA RestatedHolds ==
  ASSUME AccountInv, NEW R, ReleaseHolds(HoldsOn(R)), NEW r \in R
  PROVE  On(holdIndex', r) = {}
<1> SUFFICES ASSUME NEW e \in On(holdIndex', r) PROVE FALSE
  OBVIOUS
<1>1. e \in holdIndex /\ e.res = r /\ e.hold \notin HoldsOn(R)
  BY DEF ReleaseHolds, HoldsLeft, On
<1>2. e.hold \in LiveHolds /\ e.hold \in DOMAIN holds
  BY <1>1 DEF AccountInv, EntriesOwned, LiveHolds
<1>3. Accounted(holds, holdIndex)
  BY AccountedMeans DEF AccountInv, HoldInv
<1>4. e \in Claim(e.hold, holds[e.hold])
  BY <1>1, <1>2, <1>3 DEF Accounted, EntriesOf, LiveHolds
<1>5. e.res \in holds[e.hold].resources
  BY <1>4 DEF Claim
<1> QED
  BY <1>1, <1>2, <1>5 DEF HoldsOn

\* A resource that is restated and not found to be overcommitted.
LEMMA FitDetected ==
  ASSUME AccountInv, RoomInv', NEW R, NEW W, Restates(R, W), NEW r \in R, r \in Resources,
         Live(ledger', r), r \notin emergency'
  PROVE  Fit(r)'
<1> DEFINE next == Refreshed(ledger', paths, records, W)
           A    == On(index', r)
           B    == StaleEntries(ledger', next, r)
           a    == Peak(A)
           b    == Peak(B)
           c    == ledger'[r].ceiling
<1>0. Inv /\ Inv'
  BY DEF AccountInv, HoldInv, RoomInv
<1>1. ~Overcommitted(ledger', index', next, r)
  <2>1. emergency' = {y \in Resources : IF y \in R THEN Overcommitted(ledger', index', next, y) ELSE y \in emergency}
    BY DEF Restates, Detect
  <2> HIDE DEF next
  <2> QED
    BY <2>1
<1>2. LiveCeiling(ledger', r) = c
  BY DEF LiveCeiling, Live
<1>3. ~(MaxOf(a, b) > c)
  BY <1>1, <1>2 DEF Overcommitted
<1>4. Timed(A)
  <2>1. Books(records', generation', index')
    BY <1>0 DEF Inv
  <2> QED
    BY <2>1, SoundSparse, SparseTimed
<1>5. Timed(B)
  <2>1. WellFormed(next) /\ Single(next, generation')
    BY <1>0, RestatedBooks
  <2> DEFINE L == ledger'
             g == generation'
  <2> HIDE DEF next, L, g
  <2>2. Timed(StaleEntries(L, next, r))
    <3>1. WellFormed(next) /\ Single(next, g)
      BY <2>1 DEF g
    <3> QED
      BY <3>1, StaleSparse, SparseTimed
  <2> QED
    BY <2>2 DEF L
<1>6. c \in Nat
  BY <1>0 DEF Inv, TypeOK, LedgerRecord
<1>7. On(holdIndex', r) = {}
  BY RestatedHolds DEF Restates
<1>8. Timed(On(holdIndex', r))
  BY PlacedTimed DEF RoomInv
<1> SUFFICES ASSUME NEW s \in Nat PROVE Load(A, s) + Load(On(holdIndex', r), s) <= c
  BY DEF Fit
<1>9. Load(On(holdIndex', r), s) = 0
  BY <1>7, <1>8, LoadNone DEF Active
<1>10. a \in Nat /\ b \in Nat /\ Load(A, s) <= a /\ Load(A, s) \in Nat
  <2> HIDE DEF A, B
  <2> QED
    BY <1>4, <1>5, PeakBounds, LoadBound
<1> HIDE DEF a, b, c, A
<1>11. a <= c
  BY <1>3, <1>6, <1>10 DEF MaxOf
<1> QED
  BY <1>6, <1>9, <1>10, <1>11

\* The victims of a resolution leave the index, and nothing comes into it.
LEMMA VictimsLeave ==
  ASSUME NEW V, NEW recs, \A k \in V : IsTerminal(recs[k]),
         NEW d \in SyncIndex(index, ledger, recs, V)
  PROVE  d \in index /\ Key(d) \notin V
<1> DEFINE flip == {k \in V : Indexable(ledger, recs[k]) # Held(index, k)}
<1>1. \A k \in V : ~Indexable(ledger, recs[k])
  BY ConsumingIsLive DEF Indexable
<1>2. d \in EraseIds(index, {k[1] : k \in flip})
  <2>1. d \in EraseIds(index, {k[1] : k \in flip}) \/ \E k \in V : Indexable(ledger, recs[k])
    BY DEF SyncIndex
  <2> QED
    BY <1>1, <2>1
<1>3. d \in index /\ \A k \in flip : d.id # k[1]
  BY <1>2 DEF EraseIds
<1>4. ASSUME Key(d) \in V PROVE FALSE
  <2> DEFINE k == Key(d)
  <2>1. Held(index, k) = TRUE
    BY <1>3 DEF Held
  <2>2. Indexable(ledger, recs[k]) = FALSE
    BY <1>1, <1>4 DEF Indexable
  <2>3. k \in flip
    BY <1>4, <2>1, <2>2
  <2>4. k[1] = d.id
    BY DEF Key
  <2> QED
    BY <1>3, <2>3, <2>4
<1> QED
  BY <1>3, <1>4

\* resolve_overcommit with kRevoke: what is left on the resource fits.
LEMMA FitResolved ==
  ASSUME AccountInv, RoomInv, RoomInv', NoHoldInEmergency, NEW q \in Resolutions, q.revoke,
         ResolveOvercommit(q), NEW r, r = q.res, Live(ledger', r)
  PROVE  Fit(r)'
<1> DEFINE recs(V) == [k \in DOMAIN records |->
                         IF k \in V THEN [records[k] EXCEPT !.state = "REVOKED"] ELSE records[k]]
           C       == {Key(e) : e \in On(index, r)} \cup Stale(ledger, records, r)
           c       == ledger[r].ceiling
           Out(V)  == Without(On(index, r), V)
           Odd(V)  == Without(StaleEntries(ledger, records, r), V)
<1>1. PICK V \in ResolutionPlans(ledger, index, records, r) : index' = SyncIndex(index, ledger, recs(V), V)
  BY DEF ResolveOvercommit
<1>2. V \subseteq C /\ (V = C \/ AtStarts(Out(V), Odd(V), Out(V) \cup Odd(V)) <= LiveCeiling(ledger, r))
  BY DEF ResolutionPlans, AtStarts
<1>3. /\ Inv /\ r \in Resources /\ r \in emergency /\ ledger' = ledger /\ holdIndex' = holdIndex
  BY RequestsAssumption DEF RoomInv, ResolveOvercommit, authority, holding
<1>4. LiveCeiling(ledger, r) = c /\ c \in Nat
  BY <1>3 DEF LiveCeiling, Live, Inv, TypeOK, LedgerRecord
<1>5. WellFormed(records) /\ Single(records, generation) /\ Books(records, generation, index)
  BY <1>3 DEF Inv, Books
<1>6. C \subseteq DOMAIN records
  BY <1>5 DEF Books, Sound, On, Stale
<1>7. \A k \in V : IsTerminal(recs(V)[k])
  <2> SUFFICES ASSUME NEW k \in V PROVE IsTerminal(recs(V)[k])
    OBVIOUS
  <2>1. records[k] \in Record /\ k \in DOMAIN records
    BY <1>2, <1>5, <1>6 DEF WellFormed
  <2>2. recs(V)[k] = [records[k] EXCEPT !.state = "REVOKED"]
    BY <2>1
  <2>3. [records[k] EXCEPT !.state = "REVOKED"].state = "REVOKED"
    BY <2>1 DEF Record
  <2> QED
    BY <2>2, <2>3 DEF IsTerminal, Terminal
<1> DEFINE next == recs(V)
           a    == Out(V)
           b    == Odd(V)
           A    == On(index', r)
<1>8. \A d \in index' : d \in index /\ Key(d) \notin V
  <2>1. index' = SyncIndex(index, ledger, next, V) /\ \A k \in V : IsTerminal(next[k])
    BY <1>1, <1>7
  <2> HIDE DEF next
  <2> QED
    BY <2>1, VictimsLeave
<1>9. A \subseteq a
  BY <1>8 DEF On, Without
<1>10. Timed(a) /\ Timed(b)
  <2>1. Timed(On(index, r)) /\ Timed(StaleEntries(ledger, records, r))
    BY <1>5, SoundSparse, StaleSparse, SparseTimed
  <2>2. a \subseteq On(index, r) /\ b \subseteq StaleEntries(ledger, records, r)
    BY DEF Without
  <2> HIDE DEF a, b
  <2> QED
    BY <2>1, <2>2, LoadFewer
<1>11. On(holdIndex', r) = {} /\ Timed(On(holdIndex', r))
  BY <1>3, PlacedTimed DEF NoHoldInEmergency, RoomInv
<1> SUFFICES ASSUME NEW s \in Nat PROVE Load(A, s) + Load(On(holdIndex', r), s) <= c
  BY <1>3 DEF Fit
<1>12. Load(On(holdIndex', r), s) = 0
  BY <1>11, LoadNone DEF Active
<1>13. CASE V = C
  <2>1. A = {}
    BY <1>8, <1>13 DEF On
  <2>2. Load(A, s) = 0
    <3>1. Timed(A) /\ Active(A, s) = {}
      BY <1>9, <1>10, <2>1, LoadFewer DEF Active
    <3> HIDE DEF A
    <3> QED
      BY <3>1, LoadNone
  <2> QED
    BY <1>4, <1>12, <2>2
<1>14. CASE AtStarts(Out(V), Odd(V), Out(V) \cup Odd(V)) <= LiveCeiling(ledger, r)
  <2> DEFINE D == a \cup b
             m == AtStarts(a, b, D)
  <2>1. a \subseteq D /\ \A e \in D : e.start \in Nat
    BY <1>10 DEF Timed
  <2>2. m <= c
    BY <1>4, <1>14
  <2> HIDE DEF a, b, D, A
  <2>3. m \in Nat /\ Load(a, s) <= m
    BY <1>10, <2>1, StartsCover
  <2>4. Load(A, s) <= Load(a, s) /\ Load(A, s) \in Nat /\ Load(a, s) \in Nat
    BY <1>9, <1>10, LoadFewer, LoadBound
  <2> HIDE DEF m, c
  <2> QED
    BY <1>4, <1>12, <2>2, <2>3, <2>4
<1> QED
  BY <1>2, <1>13, <1>14

\* acquire_hold.
LEMMA FitAcquired ==
  ASSUME RoomInv, RoomInv', [Next]_vars, NEW q \in HoldRequests, AcquireHold(q), NEW r \in Resources,
         Fit(r), \A e \in On(index', r) : ~TakenBack(e)
  PROVE  Fit(r)'
<1> DEFINE t    == q.terms
           left == HoldsLeft(Gone(t))
           new  == HoldEntries(q)
           R    == Bound(paths, t)
           c    == ledger[r].ceiling
<1>1. /\ left \subseteq holdIndex /\ HoldsLeft(Gone(t) \cup {q.ctx.attempt}) \subseteq holdIndex
      /\ ledger' = ledger /\ paths' = paths
  BY DEF HoldsLeft, AcquireHold, authority
<1>2. CASE HoldCollides(q) \/ ~HoldAdmitted(q)
  <2>1. holdIndex' \subseteq holdIndex
    BY <1>1, <1>2 DEF AcquireHold, ReleaseHolds
  <2> QED
    BY <1>1, <2>1, FitKept
<1>3. CASE ~HoldCollides(q) /\ HoldAdmitted(q)
  <2>1. holdIndex' = left \cup new /\ index' = ReconciledIndex /\ records' = Reconciled
    BY <1>3 DEF AcquireHold
  <2>2. /\ Inv /\ Inv' /\ Strict /\ Timed(On(holdIndex', r)) /\ Timed(On(holdIndex, r))
        /\ Timed(On(index, r)) /\ Timed(On(index', r))
    <3>1. Inv /\ Inv' /\ Strict /\ Placed(holdIndex) /\ Placed(holdIndex')
      BY DEF RoomInv
    <3>2. Books(records, generation, index) /\ Books(records', generation', index')
      BY <3>1 DEF Inv
    <3> QED
      BY <3>1, <3>2, PlacedTimed, SoundSparse, SparseTimed
  <2>3. t \in Terms /\ t.policy \in Policies /\ c \in Nat
    BY <2>2, RequestsAssumption DEF Terms, Inv, TypeOK, LedgerRecord
  <2>4. t.start \in Nat /\ t.end \in Nat /\ t.amount \in Nat
    BY <2>3 DEF Terms
  <2> DEFINE H == On(holdIndex', r)
             G == On(left, r)
             A == On(index', r)
  <2>5. G \subseteq H /\ G \subseteq On(holdIndex, r)
    BY <1>1, <2>1 DEF On
  <2>6. Timed(G)
    <3> HIDE DEF G, H
    <3> QED
      BY <2>2, <2>5, LoadFewer
  <2> SUFFICES ASSUME NEW s \in Nat PROVE Load(A, s) + Load(H, s) <= c
    BY <1>1 DEF Fit
  <2>7. Load(A, s) <= Load(On(index, r), s)
    <3>1. \A x \in Active(A, s) : Key(x) \in DOMAIN records
      BY <2>1, <2>2 DEF Active, On, Inv, Books, Sound, Reconciled
    <3> QED
      BY <2>2, <3>1, KeptBounds
  <2>8. /\ Load(A, s) \in Nat /\ Load(H, s) \in Nat /\ Load(G, s) \in Nat
        /\ Load(On(index, r), s) \in Nat /\ Load(On(holdIndex, r), s) \in Nat
    <3> HIDE DEF A, H, G
    <3> QED
      BY <2>2, <2>6, LoadBound DEF A, H
  <2>9. CASE Active(H, s) = Active(G, s)
    <3>1. Load(H, s) <= Load(G, s)
      <4>1. Active(H, s) \subseteq Active(G, s)
        BY <2>9
      <4> HIDE DEF H, G
      <4> QED
        BY <2>6, <4>1, LoadEarlier
    <3>2. Load(G, s) <= Load(On(holdIndex, r), s)
      <4> HIDE DEF G
      <4> QED
        BY <2>2, <2>5, LoadFewer
    <3>3. Load(On(index, r), s) + Load(On(holdIndex, r), s) <= c
      BY DEF Fit
    <3> HIDE DEF A, H, G, c
    <3> QED
      BY <2>3, <2>7, <2>8, <3>1, <3>2, <3>3
  <2>10. CASE Active(H, s) # Active(G, s)
    <3>1. PICK h \in new : h \in Active(H, s) /\ h.res = r
      <4>1. Active(G, s) \subseteq Active(H, s)
        BY <2>5 DEF Active
      <4>2. PICK h \in Active(H, s) : h \notin Active(G, s)
        BY <2>10, <4>1
      <4>3. h \in holdIndex' /\ h.res = r /\ h.start <= s /\ s < h.end
        BY DEF Active, On
      <4>4. h \notin left
        BY <4>2, <4>3 DEF Active, On
      <4> QED
        BY <2>1, <4>2, <4>3, <4>4
    <3>2. /\ h.start = t.start /\ h.end = t.end /\ h.amount = t.amount /\ r \in R
          /\ h.hold = q.ctx.attempt
      BY <3>1 DEF HoldEntries
    <3>3. t.start <= s /\ s < t.end
      BY <3>1, <3>2 DEF Active
    <3>4. H \ {h} \subseteq G
      <4>1. \A d \in new : d.res = r => d = h
        BY <3>1 DEF HoldEntries
      <4> HIDE DEF new, left
      <4> QED
        BY <2>1, <4>1 DEF On
    <3>5. Committable(ledger, index', left, emergency, PolicyFor(t.policy), t, R)
      BY <1>3, <2>1 DEF HoldAdmitted, Assess, Committable
    <3>6. Load(A, s) + Load(G, s) + t.amount <= c
      <4> DEFINE pol == PolicyFor(t.policy)
                 ix  == index'
      <4>1. pol \in PolicyRecord /\ ~pol.overcommit
        BY <2>2, <2>3, PolicyType DEF Inv, TypeOK, Strict
      <4>2. ledger \in [Resources -> LedgerRecord]
        BY <2>2 DEF Inv, TypeOK
      <4>3. Committable(ledger, ix, left, emergency, pol, t, R) /\ Timed(On(ix, r)) /\ Timed(On(left, r))
        BY <2>2, <2>6, <3>5
      <4>4. r \in R
        BY <3>2
      <4> HIDE DEF pol, ix, left, t, R
      <4>5. Load(On(ix, r), s) + Load(On(left, r), s) + t.amount <= ledger[r].ceiling
        BY <2>3, <3>3, <4>1, <4>2, <4>3, <4>4, CommittableFits
      <4> QED
        BY <4>5 DEF ix
    <3>7. Load(H, s) = t.amount + Load(H \ {h}, s)
      <4> HIDE DEF H
      <4>1. Timed(H)
        BY <2>2 DEF H
      <4> QED
        BY <3>1, <3>2, <4>1, LoadOne
    <3>8. Load(H \ {h}, s) <= Load(G, s) /\ Load(H \ {h}, s) \in Nat
      <4> HIDE DEF H, G
      <4> QED
        BY <2>6, <3>4, LoadFewer, LoadBound
    <3> HIDE DEF A, H, G, c
    <3> QED
      BY <2>3, <2>4, <2>8, <3>6, <3>7, <3>8
  <2> QED
    BY <2>9, <2>10
<1> QED
  BY <1>2, <1>3

\* Emergencies are found by snapshots and lifted by resolutions.
LEMMA EmergencyMoves ==
  ASSUME [Next]_vars
  PROVE  \/ UNCHANGED emergency
         \/ \E s \in Snapshots : IngestCapacity(s)
         \/ \E q \in Resolutions : ResolveOvercommit(q)
<1>1. ASSUME NEW q, CreateReservation(q) PROVE UNCHANGED emergency
  BY <1>1 DEF CreateReservation
<1>2. ASSUME NEW q, NEW k, AmendReservation(q, k) PROVE UNCHANGED emergency
  BY <1>2 DEF AmendReservation
<1>3. ASSUME NEW q, NEW k, ReleaseReservation(q, k) PROVE UNCHANGED emergency
  BY <1>3 DEF ReleaseReservation
<1>4. ASSUME NEW q, NEW k, RecallReservation(q, k) PROVE UNCHANGED emergency
  BY <1>4 DEF RecallReservation
<1>5. ASSUME NEW q, NEW k, RevokeReservation(q, k) PROVE UNCHANGED emergency
  BY <1>5 DEF RevokeReservation
<1>6. ASSUME NEW q, NEW k, RevalidateReservation(q, k) PROVE UNCHANGED emergency
  BY <1>6 DEF RevalidateReservation
<1>7. ASSUME ReconcileLifecycle PROVE UNCHANGED emergency
  BY <1>7 DEF ReconcileLifecycle
<1>8. ASSUME NEW s, IngestPaths(s) \/ IngestPolicy(s) PROVE UNCHANGED emergency
  BY <1>8 DEF IngestPaths, IngestPolicy
<1>9. ASSUME NEW q, AcquireHold(q) \/ ReleaseHold(q) \/ ReleaseSession(q) PROVE UNCHANGED emergency
  BY <1>9 DEF AcquireHold, ReleaseHold, ReleaseSession
<1>10. ASSUME NEW q, RegisterClaimant(q) \/ Fence(q) PROVE UNCHANGED emergency
  BY <1>10 DEF RegisterClaimant, Fence
<1>11. ASSUME BeginShutdown \/ Query \/ Tick \/ UNCHANGED vars PROVE UNCHANGED emergency
  BY <1>11 DEF BeginShutdown, Query, Tick, vars
<1> QED
  BY <1>1, <1>2, <1>3, <1>4, <1>5, <1>6, <1>7, <1>8, <1>9, <1>10, <1>11 DEF Next, Request

\* Entries of the hold part come in with a hold that is acquired.
LEMMA HoldEntriesMove ==
  ASSUME [Next]_vars
  PROVE  holdIndex' \subseteq holdIndex \/ \E q \in HoldRequests : AcquireHold(q)
<1>1. \A G : ReleaseHolds(G) => holdIndex' \subseteq holdIndex
  BY DEF ReleaseHolds, HoldsLeft
<1>2. UNCHANGED holding => holdIndex' \subseteq holdIndex
  BY DEF holding
<1> QED
  BY <1>1, <1>2, StepCases DEF HoldCases, Leaves, Enrols, GivesUp, Fence, BeginShutdown

\* What is counted again on a resource is counted by a snapshot that restates the resource:
\* detect_overcommit_locked looks at what comes of it.  No one looks when a recall is put
\* off, or when a snapshot of another resource lets a binding of several be current again.
OnlyRestatedTakenBack ==
  \A e \in index' : TakenBack(e) => ledger'[e.res] # ledger[e.res]

\* Every emergency is resolved by revoking.
OnlyRevoking == \A q \in Resolutions : q.revoke

\* The inductive invariant: a live resource outside an emergency has room for all it carries,
\* and one in an emergency carries no hold, so that leaving the emergency brings none back.
FitInv ==
  /\ AccountInv
  /\ RoomInv
  /\ NoHoldInEmergency
  /\ \A r \in Resources : Live(ledger, r) /\ r \notin emergency => Fit(r)

\* No hold is taken on a resource in an emergency.
LEMMA HoldAvoids ==
  ASSUME RoomInv, NoHoldInEmergency, NEW q \in HoldRequests, AcquireHold(q)
  PROVE  NoHoldInEmergency'
<1> DEFINE t    == q.terms
           left == HoldsLeft(Gone(t))
           new  == HoldEntries(q)
<1>1. /\ left \subseteq holdIndex /\ HoldsLeft(Gone(t) \cup {q.ctx.attempt}) \subseteq holdIndex
      /\ emergency' = emergency
  BY DEF HoldsLeft, AcquireHold
<1>2. CASE holdIndex' \subseteq holdIndex
  BY <1>1, <1>2 DEF NoHoldInEmergency, On
<1>3. CASE HoldAdmitted(q) /\ holdIndex' = left \cup new
  <2>1. t.policy \in Policies
    BY RequestsAssumption DEF Terms
  <2>2. ~PolicyFor(t.policy).overcommit
    BY <2>1 DEF RoomInv, Strict
  <2>3. Bound(paths, t) \cap emergency = {}
    BY <1>3, <2>2 DEF HoldAdmitted, Assess, Outcome
  <2>4. \A e \in new : e.res \in Bound(paths, t)
    BY DEF HoldEntries
  <2> HIDE DEF new, left
  <2> QED
    BY <1>1, <1>3, <2>3, <2>4 DEF NoHoldInEmergency, On
<1> QED
  BY <1>1, <1>2, <1>3 DEF AcquireHold, ReleaseHolds

\* Every step keeps what is counted within the ceilings.
LEMMA FitNext ==
  ASSUME NoOvercommit, OnlyRevoking, FitInv, [Next]_vars, [CapacityTakenWhole]_vars,
         [HoldsAskedOnce]_vars, [OnlyRestatedTakenBack]_vars
  PROVE  FitInv'
<1>1. AccountInv /\ RoomInv /\ AccountInv' /\ RoomInv' /\ NoHoldInEmergency
  BY AccountNext, RoomNext DEF FitInv
<1> DEFINE All == \A r \in Resources : Live(ledger', r) /\ r \notin emergency' => Fit(r)'
<1> SUFFICES NoHoldInEmergency' /\ All
  BY <1>1 DEF FitInv
<1>2. CASE UNCHANGED vars
  <2>1. UNCHANGED <<ledger, index, holdIndex, emergency>>
    BY <1>2 DEF vars, authority, books, holding
  <2> QED
    BY <2>1 DEF FitInv, NoHoldInEmergency, Fit
<1>3. CASE ~UNCHANGED vars
  <2>1. CapacityTakenWhole /\ OnlyRestatedTakenBack
    BY <1>3
  <2>2. ASSUME NEW r, ledger'[r] = ledger[r] PROVE \A e \in On(index', r) : ~TakenBack(e)
    BY <2>1, <2>2 DEF OnlyRestatedTakenBack, On
  <2>3. ASSUME NEW r \in Resources, Live(ledger', r), ledger'[r] = ledger[r], r \notin emergency,
               holdIndex' \subseteq holdIndex
        PROVE  Fit(r)'
    <3>1. Live(ledger, r)
      BY <2>3 DEF Live, Known
    <3>2. Fit(r)
      BY <2>3, <3>1 DEF FitInv
    <3> QED
      BY <1>1, <2>2, <2>3, <3>2, FitKept
  <2>4. ASSUME NEW R, NEW W, Restates(R, W) PROVE NoHoldInEmergency' /\ All
    <3>1. ReleaseHolds(HoldsOn(R)) /\ holdIndex' \subseteq holdIndex
      BY <2>4 DEF Restates, ReleaseHolds, HoldsLeft
    <3>2. \A r \in Resources : r \notin R => ledger'[r] = ledger[r] /\ (r \in emergency' <=> r \in emergency)
      BY <2>4 DEF Restates, Detect
    <3>3. emergency' \subseteq Resources
      BY <1>1 DEF RoomInv, Inv, TypeOK
    <3>4. NoHoldInEmergency'
      <4> SUFFICES ASSUME NEW r \in emergency' PROVE On(holdIndex', r) = {}
        BY DEF NoHoldInEmergency
      <4>1. CASE r \in R
        BY <1>1, <3>1, <4>1, RestatedHolds
      <4>2. CASE r \notin R
        <5>1. On(holdIndex, r) = {}
          BY <1>1, <3>2, <3>3, <4>2 DEF NoHoldInEmergency
        <5> QED
          BY <3>1, <5>1 DEF On
      <4> QED
        BY <4>1, <4>2
    <3>5. ASSUME NEW r \in Resources, Live(ledger', r), r \notin emergency' PROVE Fit(r)'
      <4>1. CASE r \in R
        BY <1>1, <2>4, <3>5, <4>1, FitDetected
      <4>2. CASE r \notin R
        BY <2>3, <3>1, <3>2, <3>5, <4>2
      <4> QED
        BY <4>1, <4>2
    <3> QED
      BY <3>4, <3>5
  <2>5. ASSUME UNCHANGED <<ledger, emergency>>, holdIndex' \subseteq holdIndex
        PROVE  NoHoldInEmergency' /\ All
    <3>1. NoHoldInEmergency'
      BY <1>1, <2>5 DEF NoHoldInEmergency, On
    <3> QED
      BY <2>3, <2>5, <3>1
  <2>6. ASSUME NEW s \in Snapshots, IngestCapacity(s) PROVE NoHoldInEmergency' /\ All
    <3>1. \/ UNCHANGED <<ledger, paths, policies, books, holding, emergency>>
          \/ \E R, W : Restates(R, W)
      BY <1>1, <2>1, <2>6, CapacityShape DEF CapacityTakenWhole, RoomInv
    <3> QED
      BY <2>4, <2>5, <3>1 DEF holding
  <2>7. ASSUME NEW q \in Resolutions, ResolveOvercommit(q) PROVE NoHoldInEmergency' /\ All
    <3>1. emergency' = emergency \ {q.res} /\ ledger' = ledger /\ holdIndex' = holdIndex
      BY <2>7 DEF ResolveOvercommit, authority, holding
    <3>2. NoHoldInEmergency'
      BY <1>1, <3>1 DEF NoHoldInEmergency
    <3>3. ASSUME NEW r \in Resources, Live(ledger', r), r \notin emergency' PROVE Fit(r)'
      <4>1. CASE r = q.res
        <5>1. q.revoke
          BY DEF OnlyRevoking
        <5> QED
          BY <1>1, <2>7, <3>3, <4>1, <5>1, FitResolved
      <4>2. CASE r # q.res
        BY <2>3, <3>1, <3>3, <4>2
      <4> QED
        BY <4>1, <4>2
    <3> QED
      BY <3>2, <3>3
  <2>8. ASSUME NEW q \in HoldRequests, AcquireHold(q) PROVE NoHoldInEmergency' /\ All
    <3>1. ledger' = ledger /\ emergency' = emergency
      BY <2>8 DEF AcquireHold, authority
    <3>2. ASSUME NEW r \in Resources, Live(ledger', r), r \notin emergency' PROVE Fit(r)'
      <4>1. Fit(r)
        BY <3>1, <3>2 DEF FitInv
      <4> QED
        BY <1>1, <2>2, <2>8, <3>1, <4>1, FitAcquired
    <3> QED
      BY <1>1, <2>8, <3>2, HoldAvoids
  <2> HIDE DEF All
  <2> QED
    BY <2>5, <2>6, <2>7, <2>8, TablesMove, EmergencyMoves, HoldEntriesMove
<1> QED
  BY <1>2, <1>3

\* Nothing is counted initially, and no resource is known.
LEMMA FitInit == Init => FitInv
<1> SUFFICES ASSUME Init PROVE FitInv
  OBVIOUS
<1>1. DOMAIN holds = {} /\ holdIndex = {} /\ emergency = {}
  BY DEF Init
<1>2. HoldInv
  BY <1>1, InvInit DEF HoldInv, HoldTypes, HoldersKnown, HoldsCarryAuthority, LiveHolds
<1>3. AccountInv
  BY <1>1, <1>2 DEF AccountInv, EntriesOwned, HoldAccounting
<1>4. \A r \in Resources : ~Live(ledger, r)
  BY DEF Init, Live, Known
<1> QED
  BY <1>1, <1>3, <1>4, RoomInit DEF FitInv, NoHoldInEmergency

\* What is within the ceiling at every instant is within it over every window.
LEMMA FitCloses ==
  ASSUME FitInv
  PROVE  Closure
<1> SUFFICES ASSUME NEW r \in Resources, Live(ledger, r) /\ r \notin emergency
             PROVE  PeakCombined(On(index, r), On(holdIndex, r), [start |-> 0, end |-> MaxTime + 1])
                      <= ledger[r].ceiling
  BY DEF Closure
<1> DEFINE A == On(index, r)
           H == On(holdIndex, r)
           w == [start |-> 0, end |-> MaxTime + 1]
<1>1. Timed(A) /\ Timed(H)
  <2>1. Books(records, generation, index) /\ Placed(holdIndex)
    BY DEF FitInv, RoomInv, Inv
  <2> QED
    BY <2>1, SoundSparse, SparseTimed, PlacedTimed
<1>2. w.start \in Nat /\ w.end \in Nat /\ w.start < w.end
  BY LimitsAssumption
<1>3. Fit(r)
  BY DEF FitInv
<1> HIDE DEF w
<1>4. PICK s \in Nat : PeakCombined(A, H, w) = Load(A, s) + Load(H, s)
  <2> HIDE DEF A, H
  <2> QED
    BY <1>1, <1>2, PeakReached
<1>5. PeakCombined(A, H, w) <= ledger[r].ceiling
  BY <1>3, <1>4 DEF Fit
<1> QED
  BY <1>5 DEF w

\* No resource is overbooked: commitments and holds together never exceed the ceiling of a
\* live resource that is not in a recorded emergency, whatever is created, amended, held,
\* preempted, re-derived, restated, resolved and timed out, and in whatever order.  Policies
\* allow no overcommit and emergencies are resolved by revoking: the other choices exceed
\* the ceiling on purpose.  The three other hypotheses are about what the code does not
\* look at: a snapshot refused half way, a hold asked for twice, and what is counted again
\* without an assessment.
THEOREM CapacityIsNeverOverbooked ==
  ASSUME NoOvercommit, OnlyRevoking
  PROVE  /\ Spec
         /\ [][CapacityTakenWhole]_vars /\ [][HoldsAskedOnce]_vars
         /\ [][OnlyRestatedTakenBack]_vars
         => []Closure
<1>1. Init => FitInv
  BY FitInit
<1>2. /\ FitInv /\ [Next]_vars /\ [CapacityTakenWhole]_vars /\ [HoldsAskedOnce]_vars
      /\ [OnlyRestatedTakenBack]_vars
      => FitInv'
  BY FitNext
<1>3. FitInv => Closure
  BY FitCloses
<1> QED
  BY <1>1, <1>2, <1>3, PTL DEF Spec

=============================================================================
