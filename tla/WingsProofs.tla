---------------------------- MODULE WingsProofs -----------------------------
(***************************************************************************)
(* Machine-checked theorems about module Wings, for every value of its     *)
(* constants: however many takes of the wings overlap, no leg has two      *)
(* orders in flight, what the core counts as held was bought, and no       *)
(* market is bought beyond its hedge; and of one batch taken whole, no leg *)
(* stays pending once its take is reported.                                *)
(*                                                                         *)
(* OneOrderPerLeg is not inductive: a take that claims a leg looks only at *)
(* inflight.  The invariant adds that inflight holds the legs of every     *)
(* take that is under way.                                                 *)
(*                                                                         *)
(* HeldIsBought and NeverOverHedged rest on Sound.  For the core it says   *)
(* that legs and batches fit each other (CoreSound), that what counts as   *)
(* held is in the executor's table (Covered) and that as many YES as NO    *)
(* are netted on a market (Balanced); for the executor, that a take still  *)
(* fits the state it answers to (Known) and that the table, what has been  *)
(* read and what was bought agree, leg by leg, with what the takes under   *)
(* way are about to count (Counted).  Core steps are taken as a whole:     *)
(* a decision only grows the state (Grows), a report only books it (Books).*)
(*                                                                         *)
(* PendingUnderWay rests on Sound and Whole: there is one take at a time,  *)
(* it was handed and answers for all that is pending (OneTake), a leg that *)
(* is not filled misses lots or is about to be reported (Missing), and no  *)
(* claim outlives its take (Unmarked).                                     *)
(***************************************************************************)
EXTENDS Wings, FiniteSetTheorems, WellFoundedInduction, TLAPS

-----------------------------------------------------------------------------
(* Totals over finite domains *)

\* the equation of the recursion that adds the values of f over each subset of D
IsSum(g, f, D) ==
  g = [s \in SUBSET D |-> IF s = {} THEN 0
                          ELSE f[CHOOSE x \in s : TRUE] + g[s \ {CHOOSE x \in s : TRUE}]]

\* A family of subsets of a finite set has a smallest member.
LEMMA SmallestSubset ==
  ASSUME NEW D, IsFiniteSet(D), NEW T, T \subseteq SUBSET D, T # {}
  PROVE  \E s \in T : \A u \in T : u \subseteq s => u = s
<1>1. IsWellFoundedOn(StrictSubsetOrdering(D), SUBSET D)
  BY FS_StrictSubsetOrderingWellFounded, FS_FiniteSubsetsOfFinite
<1>2. PICK s \in T : \A u \in T : <<u, s>> \notin StrictSubsetOrdering(D)
  BY <1>1, WFMin
<1> QED
  BY <1>2 DEF StrictSubsetOrdering

\* What a sum is at a set that is not empty.
LEMMA SumStep ==
  ASSUME NEW D, NEW f, NEW g, IsSum(g, f, D), NEW s \in SUBSET D
  PROVE  /\ s = {} => g[s] = 0
         /\ s # {} => \E x \in s : /\ x = CHOOSE y \in s : TRUE
                                   /\ g[s] = f[x] + g[s \ {x}]
<1>1. g[s] = IF s = {} THEN 0 ELSE f[CHOOSE x \in s : TRUE] + g[s \ {CHOOSE x \in s : TRUE}]
  BY DEF IsSum
<1>2. s # {} => (CHOOSE y \in s : TRUE) \in s
  OBVIOUS
<1> QED
  BY <1>1, <1>2

\* There is one sum.
LEMMA SumUnique ==
  ASSUME NEW D, IsFiniteSet(D), NEW f, NEW g, NEW k, IsSum(g, f, D), IsSum(k, f, D)
  PROVE  g = k
<1> DEFINE T == {s \in SUBSET D : g[s] # k[s]}
<1>1. ASSUME T # {} PROVE FALSE
  <2>1. PICK s \in T : \A u \in T : u \subseteq s => u = s
    <3>1. T \subseteq SUBSET D
      OBVIOUS
    <3> HIDE DEF T
    <3> QED
      BY <1>1, <3>1, SmallestSubset
  <2>2. CASE s = {}
    BY <2>1, <2>2, SumStep
  <2>3. CASE s # {}
    <3>1. PICK x \in s : x = (CHOOSE y \in s : TRUE) /\ g[s] = f[x] + g[s \ {x}]
      <4>1. s \in SUBSET D
        BY <2>1
      <4> QED
        BY <4>1, <2>3, SumStep
    <3>2. k[s] = f[x] + k[s \ {x}]
      <4>1. s \in SUBSET D
        BY <2>1
      <4> QED
        <5>1. PICK z \in s : z = (CHOOSE y \in s : TRUE) /\ k[s] = f[z] + k[s \ {z}]
          BY <4>1, <2>3, SumStep
        <5>2. z = x
          BY <3>1, <5>1
        <5> QED
          BY <5>1, <5>2
    <3>3. s \ {x} \in SUBSET D /\ s \ {x} # s /\ s \ {x} \subseteq s
      BY <2>1
    <3>4. s \ {x} \notin T
      BY <2>1, <3>3
    <3> QED
      BY <2>1, <3>1, <3>2, <3>3, <3>4
  <2> QED
    BY <2>2, <2>3
<1>2. \A s \in SUBSET D : g[s] = k[s]
  BY <1>1
<1>3. g = [s \in SUBSET D |-> g[s]] /\ k = [s \in SUBSET D |-> k[s]]
  BY DEF IsSum
<1> QED
  BY <1>2, <1>3

\* The sum of a part of a set.
LEMMA SumPart ==
  ASSUME NEW D, NEW f, NEW g, IsSum(g, f, D), NEW s \in SUBSET D
  PROVE  IsSum([u \in SUBSET s |-> g[u]], f, s)
<1> DEFINE k == [u \in SUBSET s |-> g[u]]
<1>1. ASSUME NEW u \in SUBSET s
      PROVE  g[u] = IF u = {} THEN 0 ELSE f[CHOOSE x \in u : TRUE] + k[u \ {CHOOSE x \in u : TRUE}]
  <2>1. u \in SUBSET D /\ u \ {CHOOSE x \in u : TRUE} \in SUBSET s
    OBVIOUS
  <2>2. g[u] = IF u = {} THEN 0 ELSE f[CHOOSE x \in u : TRUE] + g[u \ {CHOOSE x \in u : TRUE}]
    BY <2>1 DEF IsSum
  <2> QED
    BY <2>1, <2>2
<1>2. k = [u \in SUBSET s |-> IF u = {} THEN 0
                              ELSE f[CHOOSE x \in u : TRUE] + k[u \ {CHOOSE x \in u : TRUE}]]
  BY <1>1
<1> QED
  BY <1>2 DEF IsSum

\* A finite set has a sum.
LEMMA SumExists == ASSUME NEW D, IsFiniteSet(D), NEW f PROVE \E g : IsSum(g, f, D)
<1> DEFINE T == {s \in SUBSET D : ~\E g : IsSum(g, f, s)}
<1>1. ASSUME T # {} PROVE FALSE
  <2>1. PICK s \in T : \A u \in T : u \subseteq s => u = s
    <3>1. T \subseteq SUBSET D
      OBVIOUS
    <3> HIDE DEF T
    <3> QED
      BY <1>1, <3>1, SmallestSubset
  <2>2. s \in SUBSET D /\ ~\E g : IsSum(g, f, s)
    BY <2>1
  <2> DEFINE G(u) == CHOOSE g : IsSum(g, f, u)
             x(u) == CHOOSE y \in u : TRUE
             v(u) == IF u = {} THEN 0 ELSE f[x(u)] + G(u \ {x(u)})[u \ {x(u)}]
             k == [u \in SUBSET s |-> v(u)]
  <2>3. ASSUME NEW u \in SUBSET s, u # s PROVE IsSum(G(u), f, u)
    <3>1. u \notin T /\ u \in SUBSET D
      BY <2>1, <2>2, <2>3
    <3>2. \E g : IsSum(g, f, u)
      BY <3>1
    <3> QED
      BY <3>2
  <2>4. ASSUME NEW u \in SUBSET s, u # s PROVE v(u) = G(u)[u]
    <3>1. IsSum(G(u), f, u)
      BY <2>3, <2>4
    <3>2. CASE u = {}
      <4>1. G(u)[u] = 0
        BY <3>1, <3>2, SumStep
      <4> QED
        BY <3>2, <4>1
    <3>3. CASE u # {}
      <4>1. PICK w : w = u \ {x(u)}
        OBVIOUS
      <4>2. x(u) \in u
        BY <3>3
      <4>3. w \in SUBSET u /\ w \in SUBSET s /\ w # s /\ w \in SUBSET D
        BY <2>2, <4>1, <4>2
      <4>4. G(u)[u] = f[x(u)] + G(u)[w]
        <5>1. \E y \in u : y = (CHOOSE z \in u : TRUE) /\ G(u)[u] = f[y] + G(u)[u \ {y}]
          <6> HIDE DEF G
          <6> QED
            BY <3>1, <3>3, SumStep
        <5> QED
          BY <4>1, <5>1
      <4>5. IsSum(G(w), f, w)
        BY <2>3, <4>3
      <4>6. IsSum([t \in SUBSET w |-> G(u)[t]], f, w)
        <5> HIDE DEF G
        <5> QED
          BY <3>1, <4>3, SumPart
      <4>7. IsFiniteSet(w)
        BY <4>3, FS_Subset
      <4>8. [t \in SUBSET w |-> G(u)[t]] = G(w)
        <5> HIDE DEF G
        <5> QED
          BY <4>5, <4>6, <4>7, SumUnique
      <4>9. G(w)[w] = G(u)[w]
        <5> HIDE DEF G
        <5>1. [t \in SUBSET w |-> G(u)[t]][w] = G(u)[w]
          OBVIOUS
        <5> QED
          BY <4>8, <5>1
      <4>10. v(u) = f[x(u)] + G(w)[w]
        BY <3>3, <4>1
      <4> QED
        BY <4>4, <4>9, <4>10
    <3> QED
      BY <3>2, <3>3
  <2>5. ASSUME NEW u \in SUBSET s
        PROVE  v(u) = IF u = {} THEN 0 ELSE f[x(u)] + k[u \ {x(u)}]
    <3>1. CASE u # {}
      <4>1. PICK w : w = u \ {x(u)}
        OBVIOUS
      <4>2. x(u) \in u
        BY <3>1
      <4>3. w \in SUBSET s /\ w # s
        BY <4>1, <4>2
      <4>4. k[w] = v(w) /\ v(w) = G(w)[w]
        <5>1. v(w) = G(w)[w]
          BY <2>4, <4>3
        <5> HIDE DEF v
        <5> QED
          BY <4>3, <5>1
      <4>5. v(u) = f[x(u)] + G(w)[w]
        BY <3>1, <4>1
      <4> HIDE DEF v, k, G
      <4> QED
        BY <3>1, <4>1, <4>4, <4>5
    <3> QED
      BY <3>1
  <2>6. IsSum(k, f, s)
    <3> HIDE DEF v
    <3> QED
      BY <2>5 DEF IsSum
  <2> HIDE DEF k
  <2> QED
    BY <2>2, <2>6
<1>2. D \notin T
  BY <1>1
<1> QED
  BY <1>2

\* Any member of a set may be the one that is added first.
LEMMA SumMove ==
  ASSUME NEW D, IsFiniteSet(D), NEW f, \A x \in D : f[x] \in Int, NEW g, IsSum(g, f, D)
  PROVE  \A s \in SUBSET D : g[s] \in Int /\ \A x \in s : g[s] = f[x] + g[s \ {x}]
<1> DEFINE Good(s) == g[s] \in Int /\ \A x \in s : g[s] = f[x] + g[s \ {x}]
           T == {s \in SUBSET D : ~Good(s)}
<1>1. ASSUME T # {} PROVE FALSE
  <2>1. PICK s \in T : \A u \in T : u \subseteq s => u = s
    <3>1. T \subseteq SUBSET D
      OBVIOUS
    <3> HIDE DEF T
    <3> QED
      BY <1>1, <3>1, SmallestSubset
  <2>2. s \in SUBSET D /\ ~Good(s)
    BY <2>1
  <2>3. ASSUME NEW x \in s PROVE Good(s \ {x}) /\ f[x] \in Int
    BY <2>1, <2>2, <2>3
  <2>4. CASE s = {}
    BY <2>2, <2>4, SumStep
  <2>5. CASE s # {}
    <3>1. PICK y \in s : g[s] = f[y] + g[s \ {y}]
      BY <2>2, <2>5, SumStep
    <3>2. g[s] \in Int
      <4>1. f[y] \in Int /\ g[s \ {y}] \in Int
        BY <2>3
      <4> QED
        BY <3>1, <4>1
    <3>3. ASSUME NEW x \in s, x # y PROVE g[s] = f[x] + g[s \ {x}]
      <4>1. PICK w : w = (s \ {y}) \ {x}
        OBVIOUS
      <4>2. w = (s \ {x}) \ {y}
        BY <4>1
      <4>3. g[s \ {y}] = f[x] + g[w] /\ g[s \ {x}] = f[y] + g[w]
        <5>1. x \in s \ {y} /\ y \in s \ {x}
          BY <3>3
        <5>2. Good(s \ {y}) /\ Good(s \ {x})
          BY <2>3
        <5>3. g[s \ {y}] = f[x] + g[(s \ {y}) \ {x}]
          BY <5>1, <5>2
        <5>4. g[s \ {x}] = f[y] + g[(s \ {x}) \ {y}]
          BY <5>1, <5>2
        <5> QED
          BY <4>1, <4>2, <5>3, <5>4
      <4>4. w = (s \ {y}) \ {x} /\ g[w] \in Int
        <5>1. CASE w \in T
          <6>1. w \subseteq s /\ y \notin w
            BY <4>1
          <6> QED
            BY <2>1, <5>1, <6>1
        <5>2. CASE w \notin T
          <6>1. w \in SUBSET D
            BY <2>2, <4>1
          <6> QED
            BY <4>1, <5>2, <6>1
        <5> QED
          BY <5>1, <5>2
      <4>5. f[x] \in Int /\ f[y] \in Int
        BY <2>3
      <4> QED
        BY <3>1, <4>3, <4>4, <4>5
    <3> QED
      BY <2>2, <3>1, <3>2, <3>3
  <2> QED
    BY <2>4, <2>5
<1>2. \A s \in SUBSET D : Good(s)
  BY <1>1
<1> QED
  BY <1>2

\* functions with whole values on a finite domain
Summable(f) == IsFiniteSet(DOMAIN f) /\ \A x \in DOMAIN f : f[x] \in Int

\* A total is the sum over the domain.
LEMMA TotalSum ==
  ASSUME NEW f, IsFiniteSet(DOMAIN f)
  PROVE  \E g : IsSum(g, f, DOMAIN f) /\ Total(f) = g[DOMAIN f]
<1> DEFINE D == DOMAIN f
           P(g) == g = [s \in SUBSET D |-> IF s = {} THEN 0
                        ELSE f[CHOOSE x \in s : TRUE] + g[s \ {CHOOSE x \in s : TRUE}]]
<1>1. Total(f) = (CHOOSE g : P(g))[D]
  BY DEF Total, FoldFunction, FoldFunctionOnSet, MapThenFoldSet
<1>2. \A g : P(g) <=> IsSum(g, f, D)
  BY DEF IsSum
<1> HIDE DEF P
<1>3. \E g : P(g)
  BY <1>2, SumExists
<1>4. P(CHOOSE g : P(g))
  BY <1>3
<1> QED
  BY <1>1, <1>2, <1>4

\* The total over a part is what the sum is at the part.
LEMMA TotalPart ==
  ASSUME NEW f, IsFiniteSet(DOMAIN f), NEW g, IsSum(g, f, DOMAIN f), NEW s \in SUBSET DOMAIN f
  PROVE  Total(Restrict(f, s)) = g[s]
<1>1. PICK r : r = Restrict(f, s)
  OBVIOUS
<1>2. DOMAIN r = s /\ \A x \in s : r[x] = f[x]
  BY <1>1 DEF Restrict
<1>3. IsFiniteSet(s)
  BY FS_Subset
<1>4. PICK k : IsSum(k, r, s) /\ Total(r) = k[s]
  BY <1>2, <1>3, TotalSum
<1>5. PICK h : h = [u \in SUBSET s |-> g[u]]
  OBVIOUS
<1>6. IsSum(h, f, s)
  BY <1>5, SumPart
<1>7. IsSum(h, r, s)
  <2>1. ASSUME NEW u \in SUBSET s, u # {} PROVE f[CHOOSE x \in u : TRUE] = r[CHOOSE x \in u : TRUE]
    <3>1. (CHOOSE x \in u : TRUE) \in s
      BY <2>1
    <3> QED
      BY <1>2, <3>1
  <2> QED
    BY <1>6, <2>1 DEF IsSum
<1>8. h = k
  BY <1>3, <1>4, <1>7, SumUnique
<1> QED
  BY <1>1, <1>4, <1>5, <1>8

\* The total of nothing is zero.
LEMMA TotalEmpty == ASSUME NEW f, DOMAIN f = {} PROVE Total(f) = 0
<1>1. IsFiniteSet(DOMAIN f)
  BY FS_EmptySet
<1>2. PICK g : IsSum(g, f, DOMAIN f) /\ Total(f) = g[DOMAIN f]
  BY <1>1, TotalSum
<1> QED
  BY <1>2, SumStep

\* A total is a whole number, and each value contributes once.
LEMMA TotalStep ==
  ASSUME NEW f, Summable(f)
  PROVE  /\ Total(f) \in Int
         /\ \A x \in DOMAIN f : Total(f) = f[x] + Total(Restrict(f, DOMAIN f \ {x}))
<1>1. PICK g : IsSum(g, f, DOMAIN f) /\ Total(f) = g[DOMAIN f]
  BY TotalSum DEF Summable
<1>2. \A s \in SUBSET DOMAIN f : g[s] \in Int /\ \A x \in s : g[s] = f[x] + g[s \ {x}]
  <2>1. PICK D : D = DOMAIN f
    OBVIOUS
  <2>2. IsFiniteSet(D) /\ (\A x \in D : f[x] \in Int) /\ IsSum(g, f, D)
    BY <1>1, <2>1 DEF Summable
  <2>3. \A s \in SUBSET D : g[s] \in Int /\ \A x \in s : g[s] = f[x] + g[s \ {x}]
    BY <2>2, SumMove
  <2> QED
    BY <2>1, <2>3
<1>3. \A x \in DOMAIN f : Total(Restrict(f, DOMAIN f \ {x})) = g[DOMAIN f \ {x}]
  BY <1>1, TotalPart DEF Summable
<1>4. DOMAIN f \in SUBSET DOMAIN f
  OBVIOUS
<1> QED
  BY <1>1, <1>2, <1>3, <1>4

\* A part can be summed, and a part of a part is a part.
LEMMA Parts ==
  ASSUME NEW f, NEW s
  PROVE  /\ DOMAIN Restrict(f, s) = s
         /\ \A x \in s : Restrict(f, s)[x] = f[x]
         /\ \A u \in SUBSET s : Restrict(Restrict(f, s), u) = Restrict(f, u)
         /\ Summable(f) /\ s \subseteq DOMAIN f => Summable(Restrict(f, s))
<1>1. DOMAIN Restrict(f, s) = s /\ \A x \in s : Restrict(f, s)[x] = f[x]
  BY DEF Restrict
<1>2. \A u \in SUBSET s : Restrict(Restrict(f, s), u) = Restrict(f, u)
  BY DEF Restrict
<1>3. Summable(f) /\ s \subseteq DOMAIN f => IsFiniteSet(s)
  BY FS_Subset DEF Summable
<1> QED
  BY <1>1, <1>2, <1>3 DEF Summable

\* What grows by the value of one member at a time is the total.
LEMMA TotalUnique ==
  ASSUME NEW f, Summable(f), NEW G, G[{}] = 0,
         \A s \in SUBSET DOMAIN f : s # {} => \E x \in s : G[s] = f[x] + G[s \ {x}]
  PROVE  Total(f) = G[DOMAIN f]
<1> DEFINE D == DOMAIN f
           T == {s \in SUBSET D : Total(Restrict(f, s)) # G[s]}
<1>1. ASSUME T # {} PROVE FALSE
  <2>1. PICK s \in T : \A u \in T : u \subseteq s => u = s
    <3>1. T \subseteq SUBSET D /\ IsFiniteSet(D)
      BY DEF Summable
    <3> HIDE DEF T, D
    <3> QED
      BY <1>1, <3>1, SmallestSubset
  <2>2. s \in SUBSET D /\ Total(Restrict(f, s)) # G[s]
    BY <2>1
  <2>3. s # {}
    BY <2>2, TotalEmpty, Parts
  <2>4. PICK x \in s : G[s] = f[x] + G[s \ {x}]
    BY <2>2, <2>3
  <2>5. s \ {x} \in SUBSET D /\ s \ {x} # s
    BY <2>2
  <2>6. Total(Restrict(f, s \ {x})) = G[s \ {x}]
    BY <2>1, <2>5
  <2>7. PICK r : r = Restrict(f, s)
    OBVIOUS
  <2>8. /\ Summable(r) /\ DOMAIN r = s /\ r[x] = f[x]
        /\ Restrict(r, s \ {x}) = Restrict(f, s \ {x})
    BY <2>2, <2>7, Parts
  <2>9. Total(r) = f[x] + Total(Restrict(f, s \ {x}))
    BY <2>8, TotalStep
  <2> QED
    BY <2>2, <2>4, <2>6, <2>7, <2>9
<1>2. D \notin T
  BY <1>1
<1>3. Total(Restrict(f, D)) = G[D]
  BY <1>2
<1>4. PICK g : IsSum(g, f, D) /\ Total(f) = g[D]
  BY TotalSum DEF Summable
<1>5. Total(Restrict(f, D)) = g[D]
  BY <1>4, TotalPart DEF Summable
<1> QED
  BY <1>3, <1>4, <1>5

\* The total of what is not negative is not negative, and no value exceeds it.
LEMMA TotalNat ==
  ASSUME NEW f, IsFiniteSet(DOMAIN f), \A x \in DOMAIN f : f[x] \in Nat
  PROVE  Total(f) \in Nat /\ \A x \in DOMAIN f : f[x] <= Total(f)
<1>1. Summable(f)
  BY DEF Summable
<1>2. PICK g : IsSum(g, f, DOMAIN f) /\ Total(f) = g[DOMAIN f]
  BY TotalSum
<1>3. \A s \in SUBSET DOMAIN f : g[s] \in Int /\ \A x \in s : g[s] = f[x] + g[s \ {x}]
  <2>1. PICK D : D = DOMAIN f
    OBVIOUS
  <2>2. IsFiniteSet(D) /\ (\A x \in D : f[x] \in Int) /\ IsSum(g, f, D)
    BY <1>2, <2>1
  <2>3. \A s \in SUBSET D : g[s] \in Int /\ \A x \in s : g[s] = f[x] + g[s \ {x}]
    BY <2>2, SumMove
  <2> QED
    BY <2>1, <2>3
<1> DEFINE T == {s \in SUBSET DOMAIN f : ~(g[s] \in Nat)}
<1>4. ASSUME T # {} PROVE FALSE
  <2>1. PICK s \in T : \A u \in T : u \subseteq s => u = s
    <3>1. T \subseteq SUBSET DOMAIN f
      OBVIOUS
    <3> HIDE DEF T
    <3> QED
      BY <1>4, <3>1, SmallestSubset
  <2>2. s \in SUBSET DOMAIN f /\ g[s] \notin Nat
    BY <2>1
  <2>3. s # {}
    BY <1>2, <2>2, SumStep
  <2>4. PICK x \in s : g[s] = f[x] + g[s \ {x}]
    BY <1>3, <2>2, <2>3
  <2>5. s \ {x} \in SUBSET DOMAIN f /\ s \ {x} # s
    BY <2>2
  <2>6. g[s \ {x}] \in Nat /\ f[x] \in Nat
    BY <2>1, <2>2, <2>5
  <2> QED
    BY <2>2, <2>4, <2>6
<1>5. \A s \in SUBSET DOMAIN f : g[s] \in Nat
  BY <1>4
<1>6. ASSUME NEW x \in DOMAIN f PROVE f[x] <= g[DOMAIN f]
  <2>1. g[DOMAIN f] = f[x] + g[DOMAIN f \ {x}] /\ g[DOMAIN f \ {x}] \in Nat
    BY <1>3, <1>5
  <2> QED
    BY <2>1
<1> QED
  BY <1>2, <1>5, <1>6

\* The total of two functions together.
LEMMA TotalPlus ==
  ASSUME NEW f, NEW h, NEW k, Summable(f), Summable(h), DOMAIN f = DOMAIN h, DOMAIN k = DOMAIN f,
         \A x \in DOMAIN f : k[x] = f[x] + h[x]
  PROVE  Total(k) = Total(f) + Total(h)
<1> DEFINE D == DOMAIN f
<1>1. PICK g : IsSum(g, f, D) /\ Total(f) = g[D]
  BY TotalSum DEF Summable
<1>2. PICK e : IsSum(e, h, D) /\ Total(h) = e[D]
  BY TotalSum DEF Summable
<1>3. \A s \in SUBSET D : g[s] \in Int /\ \A x \in s : g[s] = f[x] + g[s \ {x}]
  BY <1>1, SumMove DEF Summable
<1>4. \A s \in SUBSET D : e[s] \in Int /\ \A x \in s : e[s] = h[x] + e[s \ {x}]
  BY <1>2, SumMove DEF Summable
<1>5. PICK G : G = [s \in SUBSET D |-> g[s] + e[s]]
  OBVIOUS
<1>6. Summable(k)
  BY DEF Summable
<1>7. G[{}] = 0
  BY <1>1, <1>2, <1>5, SumStep
<1>8. ASSUME NEW s \in SUBSET D, s # {} PROVE \E x \in s : G[s] = k[x] + G[s \ {x}]
  <2>1. PICK x \in s : TRUE
    BY <1>8
  <2>2. s \ {x} \in SUBSET D /\ x \in D
    OBVIOUS
  <2>3. f[x] \in Int /\ h[x] \in Int /\ k[x] = f[x] + h[x]
    BY <2>2 DEF Summable
  <2>4. g[s] = f[x] + g[s \ {x}] /\ e[s] = h[x] + e[s \ {x}] /\ g[s \ {x}] \in Int /\ e[s \ {x}] \in Int
    BY <1>3, <1>4, <2>2
  <2>5. G[s] = g[s] + e[s] /\ G[s \ {x}] = g[s \ {x}] + e[s \ {x}]
    BY <1>5, <2>2
  <2>6. G[s] = k[x] + G[s \ {x}]
    BY <2>3, <2>4, <2>5
  <2> QED
    BY <2>6
<1>9. Total(k) = G[D]
  BY <1>6, <1>7, <1>8, TotalUnique
<1> QED
  BY <1>1, <1>2, <1>5, <1>9

\* What is zero does not count.
LEMMA TotalZeros ==
  ASSUME NEW f, Summable(f), NEW k, DOMAIN k \subseteq DOMAIN f,
         \A x \in DOMAIN k : k[x] = f[x], \A x \in DOMAIN f \ DOMAIN k : f[x] = 0
  PROVE  Total(f) = Total(k)
<1> DEFINE D == DOMAIN f
<1>1. Summable(k)
  BY FS_Subset DEF Summable
<1>2. PICK g : IsSum(g, k, DOMAIN k) /\ Total(k) = g[DOMAIN k]
  BY <1>1, TotalSum DEF Summable
<1>3. \A s \in SUBSET DOMAIN k : g[s] \in Int /\ \A x \in s : g[s] = k[x] + g[s \ {x}]
  BY <1>1, <1>2, SumMove DEF Summable
<1>4. PICK G : G = [s \in SUBSET D |-> g[s \cap DOMAIN k]]
  OBVIOUS
<1>5. G[{}] = 0
  <2>1. G[{}] = g[{} \cap DOMAIN k] /\ {} \cap DOMAIN k = {}
    BY <1>4
  <2> QED
    BY <1>2, <2>1, SumStep
<1>6. ASSUME NEW s \in SUBSET D, NEW x \in s PROVE G[s] = f[x] + G[s \ {x}]
  <2>1. s \ {x} \in SUBSET D /\ x \in D
    OBVIOUS
  <2>2. G[s] = g[s \cap DOMAIN k] /\ G[s \ {x}] = g[(s \ {x}) \cap DOMAIN k]
    BY <1>4, <2>1
  <2>3. s \cap DOMAIN k \in SUBSET DOMAIN k
    OBVIOUS
  <2>4. CASE x \in DOMAIN k
    <3>1. (s \ {x}) \cap DOMAIN k = (s \cap DOMAIN k) \ {x} /\ x \in s \cap DOMAIN k
      BY <2>4
    <3> QED
      BY <1>3, <2>2, <2>3, <2>4, <3>1
  <2>5. CASE x \notin DOMAIN k
    <3>1. (s \ {x}) \cap DOMAIN k = s \cap DOMAIN k /\ f[x] = 0
      BY <2>1, <2>5
    <3>2. g[s \cap DOMAIN k] \in Int /\ G[s] = g[s \cap DOMAIN k] /\ G[s \ {x}] = g[s \cap DOMAIN k]
      BY <1>3, <2>2, <2>3, <3>1
    <3> QED
      BY <3>1, <3>2
  <2> QED
    BY <2>4, <2>5
<1>7. Total(f) = G[D]
  BY <1>5, <1>6, TotalUnique
<1>8. G[D] = g[DOMAIN k]
  <2>1. G[D] = g[D \cap DOMAIN k] /\ D \cap DOMAIN k = DOMAIN k
    BY <1>4
  <2> QED
    BY <2>1
<1> QED
  BY <1>2, <1>7, <1>8

\* A natural number with a property is preceded by a least one.
LEMMA LeastNatural ==
  ASSUME NEW T \in SUBSET Nat, T # {}
  PROVE  \E x \in T : \A y \in T : x <= y
<1>1. PICK x \in T : \A y \in T : ~ (<<y, x>> \in OpToRel(<, Nat))
  BY WFMin, NatLessThanWellFounded
<1>2. ASSUME NEW y \in T PROVE x <= y
  <2>1. <<y, x>> \in Nat \X Nat
    OBVIOUS
  <2>2. ~ (y < x)
    BY <1>1, <2>1 DEF OpToRel
  <2> QED
    BY <2>2
<1> QED
  BY <1>2

-----------------------------------------------------------------------------
(* The state of the core *)

GroupShape(g) ==
  \/ g = NoGroup
  \/ g \in [Sd : Buckets, lots : [Buckets -> Nat]] /\ Total(g.lots) >= 1

Leg == [batch : Nat, side : Sides, count : Nat, coid : Nat,
        status : {"pending", "filled", "unfilled"}, retried : BOOLEAN, netted : Nat]

CoreShape(s) ==
  /\ s = [group |-> s.group, batches |-> s.batches, legs |-> s.legs, coid_seq |-> s.coid_seq,
          out |-> s.out]
  /\ GroupShape(s.group) /\ s.batches \in Seq(Batch) /\ s.legs \in Seq(Leg) /\ s.coid_seq \in Nat
  /\ \A i \in DOMAIN s.batches : Total(s.batches[i].lots) \in Nat /\ Total(s.batches[i].lots) >= 1

\* a leg is of a batch that was taken, for its lots, and nets no more than those
LegSound(s, k) ==
  LET l == s.legs[k]
  IN /\ l.batch \in DOMAIN s.batches /\ s.batches[l.batch].taken
     /\ l.count = Total(s.batches[l.batch].lots) /\ l.netted <= l.count
     /\ l.coid <= s.coid_seq /\ (l.status = "pending" => l.coid # None)

\* no two legs are the same wing, or go by the same client id
Alone(s) ==
  \A j, k \in DOMAIN s.legs : j # k =>
    /\ Key(s.legs[j]) # Key(s.legs[k])
    /\ s.legs[j].coid = s.legs[k].coid => s.legs[j].coid = None

CoreSound(s) == CoreShape(s) /\ (\A k \in DOMAIN s.legs : LegSound(s, k)) /\ Alone(s)

-----------------------------------------------------------------------------
(* What a decision that books no wing fill does *)

\* legs and batches of s stay what they are, new legs are not filled, and a leg is sent
\* under a new client id or the one it had
Grows(s, t) ==
  /\ s.coid_seq <= t.coid_seq
  /\ DOMAIN s.batches \subseteq DOMAIN t.batches /\ DOMAIN s.legs \subseteq DOMAIN t.legs
  /\ \A i \in DOMAIN s.batches :
       /\ t.batches[i].Sd = s.batches[i].Sd /\ t.batches[i].lots = s.batches[i].lots
       /\ t.batches[i].completed = s.batches[i].completed
  /\ \A i \in DOMAIN t.batches \ DOMAIN s.batches : ~t.batches[i].completed
  /\ \A k \in DOMAIN s.legs :
       /\ Key(t.legs[k]) = Key(s.legs[k]) /\ t.legs[k].count = s.legs[k].count
       /\ t.legs[k].netted = s.legs[k].netted
       /\ t.legs[k].coid = s.legs[k].coid \/ t.legs[k].coid > s.coid_seq
       /\ t.legs[k].status = "filled" => s.legs[k].status = "filled"
  /\ \A k \in DOMAIN t.legs \ DOMAIN s.legs :
       /\ t.legs[k].netted = 0 /\ t.legs[k].status # "filled"
       /\ t.legs[k].coid = None \/ t.legs[k].coid > s.coid_seq
       /\ ~t.batches[t.legs[k].batch].completed

Decides(s, t) == CoreSound(t) /\ Grows(s, t)

LEMMA GrowsSame == ASSUME NEW s, CoreSound(s) PROVE Grows(s, s)
<1>1. s.coid_seq \in Nat
  BY DEF CoreSound, CoreShape
<1> QED
  BY <1>1 DEF Grows

LEMMA GrowsOn ==
  ASSUME NEW s, NEW t, NEW u, CoreSound(s), CoreSound(t), CoreSound(u), Grows(s, t), Grows(t, u)
  PROVE  Grows(s, u)
<1>1. s.coid_seq \in Nat /\ t.coid_seq \in Nat /\ u.coid_seq \in Nat
  BY DEF CoreSound, CoreShape
<1>2. /\ \A k \in DOMAIN s.legs : s.legs[k].coid \in Nat
      /\ \A k \in DOMAIN t.legs : t.legs[k].coid \in Nat /\ t.legs[k].batch \in DOMAIN t.batches
      /\ \A k \in DOMAIN u.legs : u.legs[k].coid \in Nat
  <2>1. \A v \in {s, t, u} : \A k \in DOMAIN v.legs : v.legs[k] \in Leg
    BY DEF CoreSound, CoreShape
  <2> QED
    BY <2>1 DEF Leg, CoreSound, LegSound
<1>3. \A k \in DOMAIN t.legs : u.legs[k].batch = t.legs[k].batch
  BY DEF Grows, Key
<1>4. s.coid_seq <= u.coid_seq /\ DOMAIN s.batches \subseteq DOMAIN u.batches
      /\ DOMAIN s.legs \subseteq DOMAIN u.legs
  BY <1>1 DEF Grows
<1>5. \A i \in DOMAIN s.batches :
       /\ u.batches[i].Sd = s.batches[i].Sd /\ u.batches[i].lots = s.batches[i].lots
       /\ u.batches[i].completed = s.batches[i].completed
  BY DEF Grows
<1>6. \A i \in DOMAIN u.batches \ DOMAIN s.batches : ~u.batches[i].completed
  BY DEF Grows
<1>7. ASSUME NEW k \in DOMAIN s.legs
      PROVE  /\ Key(u.legs[k]) = Key(s.legs[k]) /\ u.legs[k].count = s.legs[k].count
             /\ u.legs[k].netted = s.legs[k].netted
             /\ u.legs[k].coid = s.legs[k].coid \/ u.legs[k].coid > s.coid_seq
             /\ u.legs[k].status = "filled" => s.legs[k].status = "filled"
  <2>1. k \in DOMAIN t.legs /\ k \in DOMAIN u.legs
    BY DEF Grows
  <2>2. u.legs[k].coid = s.legs[k].coid \/ u.legs[k].coid > s.coid_seq
    <3>1. u.legs[k].coid = t.legs[k].coid \/ u.legs[k].coid > t.coid_seq
      BY <2>1 DEF Grows
    <3>2. t.legs[k].coid = s.legs[k].coid \/ t.legs[k].coid > s.coid_seq
      BY DEF Grows
    <3>3. s.coid_seq <= t.coid_seq /\ u.legs[k].coid \in Nat
      BY <1>2, <2>1 DEF Grows
    <3> QED
      BY <1>1, <3>1, <3>2, <3>3
  <2> QED
    BY <2>1, <2>2 DEF Grows
<1>8. ASSUME NEW k \in DOMAIN u.legs \ DOMAIN s.legs
      PROVE  /\ u.legs[k].netted = 0 /\ u.legs[k].status # "filled"
             /\ u.legs[k].coid = None \/ u.legs[k].coid > s.coid_seq
             /\ ~u.batches[u.legs[k].batch].completed
  <2>1. s.coid_seq <= t.coid_seq /\ u.legs[k].coid \in Nat
    BY <1>2 DEF Grows
  <2>2. CASE k \in DOMAIN t.legs
    <3>1. t.legs[k].netted = 0 /\ t.legs[k].status # "filled"
      BY <2>2 DEF Grows
    <3>2. u.legs[k].netted = 0 /\ u.legs[k].status # "filled"
      BY <2>2, <3>1 DEF Grows
    <3>3. t.legs[k].coid = None \/ t.legs[k].coid > s.coid_seq
      BY <2>2 DEF Grows
    <3>4. u.legs[k].coid = t.legs[k].coid \/ u.legs[k].coid > t.coid_seq
      BY <2>2 DEF Grows
    <3>5. u.legs[k].coid = None \/ u.legs[k].coid > s.coid_seq
      BY <1>1, <2>1, <3>3, <3>4
    <3>6. ~t.batches[t.legs[k].batch].completed /\ t.legs[k].batch \in DOMAIN t.batches
      BY <1>2, <2>2 DEF Grows
    <3>7. ~u.batches[u.legs[k].batch].completed
      BY <1>3, <2>2, <3>6 DEF Grows
    <3> QED
      BY <3>2, <3>5, <3>7
  <2>3. CASE k \notin DOMAIN t.legs
    <3>1. /\ u.legs[k].netted = 0 /\ u.legs[k].status # "filled"
          /\ ~u.batches[u.legs[k].batch].completed
          /\ u.legs[k].coid = None \/ u.legs[k].coid > t.coid_seq
      BY <2>3 DEF Grows
    <3> QED
      BY <1>1, <2>1, <3>1
  <2> QED
    BY <2>2, <2>3
<1> QED
  BY <1>4, <1>5, <1>6, <1>7, <1>8 DEF Grows

\* The total of the lots of a group.
LEMMA LotsNat == ASSUME NEW lots \in [Buckets -> Nat] PROVE Total(lots) \in Nat
  BY WingsAssumption, TotalNat

\* Lots that are added count.
LEMMA LotsAdd ==
  ASSUME NEW lots \in [Buckets -> Nat], NEW Sd \in Buckets, NEW n \in Nat
  PROVE  Total([lots EXCEPT ![Sd] = @ + n]) = Total(lots) + n
<1>1. PICK k : k = [lots EXCEPT ![Sd] = @ + n]
  OBVIOUS
<1>2. Summable(lots) /\ Summable(k) /\ DOMAIN k = Buckets /\ k[Sd] = lots[Sd] + n
  BY <1>1, WingsAssumption DEF Summable
<1>3. Restrict(k, Buckets \ {Sd}) = Restrict(lots, Buckets \ {Sd})
  BY <1>1 DEF Restrict
<1>4. Total(k) = k[Sd] + Total(Restrict(k, Buckets \ {Sd}))
  BY <1>2, TotalStep
<1>5. Total(lots) = lots[Sd] + Total(Restrict(lots, Buckets \ {Sd}))
  BY <1>2, TotalStep
<1>6. Total(Restrict(lots, Buckets \ {Sd})) \in Int
  BY <1>2, Parts, TotalStep
<1> QED
  BY <1>1, <1>2, <1>3, <1>4, <1>5, <1>6

\* An expired group becomes a batch.
LEMMA FlushDecides ==
  ASSUME NEW s, CoreSound(s), NEW now
  PROVE  /\ Decides(s, _coalesce_flush(s, now)) /\ _coalesce_flush(s, now).out = s.out
         /\ _coalesce_flush(s, now).legs = s.legs
<1>1. CASE s.group = NoGroup \/ now.open
  BY <1>1, GrowsSame DEF _coalesce_flush, Decides
<1>2. CASE ~(s.group = NoGroup \/ now.open)
  <2> DEFINE b == [Sd |-> s.group.Sd, lots |-> s.group.lots, taken |-> FALSE, completed |-> FALSE,
                   one_legged |-> FALSE]
             t == [group |-> NoGroup, batches |-> Append(s.batches, b), legs |-> s.legs,
                   coid_seq |-> s.coid_seq, out |-> s.out]
  <2>1. _coalesce_flush(s, now) = t
    BY <1>2 DEF _coalesce_flush, CoreSound, CoreShape
  <2>2. b \in Batch /\ Total(b.lots) \in Nat /\ Total(b.lots) >= 1 /\ ~b.completed
    <3>1. s.group \in [Sd : Buckets, lots : [Buckets -> Nat]] /\ Total(s.group.lots) >= 1
      BY <1>2 DEF CoreSound, CoreShape, GroupShape
    <3>2. Total(s.group.lots) \in Nat
      BY <3>1, LotsNat
    <3> QED
      BY <3>1, <3>2 DEF Batch
  <2> HIDE DEF b
  <2>3. s.batches \in Seq(Batch) /\ s.coid_seq \in Nat
    BY DEF CoreSound, CoreShape
  <2>4. /\ t.batches \in Seq(Batch) /\ DOMAIN s.batches \subseteq DOMAIN t.batches
        /\ \A i \in DOMAIN s.batches : t.batches[i] = s.batches[i]
        /\ \A i \in DOMAIN t.batches \ DOMAIN s.batches : t.batches[i] = b
    BY <2>2, <2>3
  <2>5. /\ t.group = NoGroup /\ t.legs = s.legs /\ t.coid_seq = s.coid_seq /\ t.out = s.out
        /\ t = [group |-> t.group, batches |-> t.batches, legs |-> t.legs, coid_seq |-> t.coid_seq,
                out |-> t.out]
    OBVIOUS
  <2> HIDE DEF t
  <2>6. CoreShape(t)
    BY <2>2, <2>4, <2>5 DEF CoreSound, CoreShape, GroupShape
  <2>7. ASSUME NEW k \in DOMAIN t.legs PROVE LegSound(t, k)
    BY <2>4, <2>5 DEF CoreSound, LegSound
  <2>8. Alone(t)
    BY <2>5 DEF CoreSound, Alone
  <2>9. Grows(s, t)
    BY <2>2, <2>3, <2>4, <2>5 DEF Grows
  <2> QED
    BY <2>1, <2>5, <2>6, <2>7, <2>8, <2>9 DEF Decides, CoreSound
<1> QED
  BY <1>1, <1>2

\* A rung fill joins the open group, or opens one.
LEMMA AddDecides ==
  ASSUME NEW s, CoreSound(s), NEW Sd \in Buckets, NEW n \in Nat \ {0}, NEW now
  PROVE  /\ Decides(s, _coalesce_add(s, Sd, n, now)) /\ _coalesce_add(s, Sd, n, now).out = s.out
         /\ _coalesce_add(s, Sd, n, now).legs = s.legs
<1>1. PICK t : t = _coalesce_flush(s, now)
  OBVIOUS
<1>2. Decides(s, t) /\ t.out = s.out /\ t.legs = s.legs
  BY <1>1, FlushDecides
<1>3. PICK g : g = IF t.group = NoGroup THEN [NoGroup EXCEPT !.Sd = Sd] ELSE t.group
  OBVIOUS
<1>4. PICK h : h = [g EXCEPT !.lots[Sd] = @ + n]
  OBVIOUS
<1>5. _coalesce_add(s, Sd, n, now) = [t EXCEPT !.group = h]
  BY <1>1, <1>3, <1>4 DEF _coalesce_add
<1>6. g \in [Sd : Buckets, lots : [Buckets -> Nat]]
  BY <1>2, <1>3 DEF NoGroup, Decides, CoreSound, CoreShape, GroupShape
<1>7. GroupShape(h)
  <2>1. h \in [Sd : Buckets, lots : [Buckets -> Nat]] /\ h.lots = [g.lots EXCEPT ![Sd] = @ + n]
    BY <1>4, <1>6
  <2>2. Total(h.lots) = Total(g.lots) + n /\ Total(g.lots) \in Nat
    BY <1>6, <2>1, LotsAdd, LotsNat
  <2> QED
    BY <2>1, <2>2 DEF GroupShape
<1>8. PICK u : u = [t EXCEPT !.group = h]
  OBVIOUS
<1>9. u = [group |-> h, batches |-> t.batches, legs |-> t.legs, coid_seq |-> t.coid_seq, out |-> t.out]
  BY <1>2, <1>8 DEF Decides, CoreSound, CoreShape
<1>10. CoreSound(u)
  BY <1>2, <1>7, <1>9 DEF Decides, CoreSound, CoreShape, LegSound, Alone
<1>11. Grows(s, u)
  BY <1>2, <1>9 DEF Decides, Grows
<1> QED
  BY <1>2, <1>5, <1>8, <1>9, <1>10, <1>11 DEF Decides

\* A take adds the two legs of a batch that had none.
LEMMA TakingDecides ==
  ASSUME NEW s, CoreSound(s), NEW i \in DOMAIN s.batches, ~s.batches[i].taken, ~s.batches[i].completed,
         NEW a \in Leg, NEW b \in Leg, NEW minted \in Nat,
         \A l \in {a, b} : /\ l.batch = i /\ l.count = Total(s.batches[i].lots) /\ l.netted = 0
                           /\ l.status # "filled"
                           /\ l.coid = None \/ (l.coid > s.coid_seq /\ l.coid <= s.coid_seq + minted)
                           /\ l.status = "pending" => l.coid # None,
         a.side # b.side, a.coid = b.coid => a.coid = None
  PROVE  Decides(s, Taking(s, i, <<a, b>>, minted))
<1> DEFINE d == [s.batches[i] EXCEPT !.taken = TRUE]
           t == [group |-> s.group, batches |-> [s.batches EXCEPT ![i] = d],
                 legs |-> s.legs \o <<a, b>>, coid_seq |-> s.coid_seq + minted, out |-> TRUE]
           L == Len(s.legs)
<1>1. /\ s = [group |-> s.group, batches |-> s.batches, legs |-> s.legs, coid_seq |-> s.coid_seq,
              out |-> s.out]
      /\ s.batches \in Seq(Batch) /\ s.legs \in Seq(Leg) /\ s.coid_seq \in Nat
  BY DEF CoreSound, CoreShape
<1>2. Taking(s, i, <<a, b>>, minted) = t
  <2>1. PICK r : r = s.batches
    OBVIOUS
  <2>2. PICK u : u = [group |-> s.group, batches |-> r, legs |-> s.legs, coid_seq |-> s.coid_seq, out |-> s.out]
    OBVIOUS
  <2>3. s = u
    BY <1>1, <2>1, <2>2
  <2>4. PICK m, c : m = s.legs \o <<a, b>> /\ c = s.coid_seq + minted
    OBVIOUS
  <2>5. Taking(u, i, <<a, b>>, minted)
          = [u EXCEPT !.legs = m, !.batches[i].taken = TRUE, !.coid_seq = c, !.out = TRUE]
    <3>1. u.legs = s.legs /\ u.coid_seq = s.coid_seq
      BY <2>2
    <3> QED
      BY <2>4, <3>1 DEF Taking
  <2>6. PICK v1 : v1 = [u EXCEPT !.legs = m]
    OBVIOUS
  <2>7. v1 = [group |-> s.group, batches |-> r, legs |-> m, coid_seq |-> s.coid_seq, out |-> s.out]
    BY <2>2, <2>6
  <2>8. PICK q : q = [r EXCEPT ![i].taken = TRUE]
    OBVIOUS
  <2>9. PICK v2 : v2 = [v1 EXCEPT !.batches[i].taken = TRUE]
    OBVIOUS
  <2>10. v2 = [v1 EXCEPT !.batches = q]
    <3>1. v1.batches = r
      BY <2>7
    <3> QED
      BY <2>8, <2>9, <3>1
  <2>11. v2 = [group |-> s.group, batches |-> q, legs |-> m, coid_seq |-> s.coid_seq, out |-> s.out]
    BY <2>7, <2>10
  <2>12. PICK v3 : v3 = [v2 EXCEPT !.coid_seq = c]
    OBVIOUS
  <2>13. v3 = [group |-> s.group, batches |-> q, legs |-> m, coid_seq |-> c, out |-> s.out]
    BY <2>11, <2>12
  <2>14. PICK v4 : v4 = [v3 EXCEPT !.out = TRUE]
    OBVIOUS
  <2>15. v4 = [group |-> s.group, batches |-> q, legs |-> m, coid_seq |-> c, out |-> TRUE]
    BY <2>13, <2>14
  <2>16. Taking(u, i, <<a, b>>, minted) = v4
    BY <2>5, <2>6, <2>9, <2>12, <2>14
  <2>17. q = [s.batches EXCEPT ![i] = d]
    BY <2>1, <2>8
  <2> QED
    BY <2>3, <2>4, <2>15, <2>16, <2>17
<1>3. /\ t.legs \in Seq(Leg) /\ L \in Nat /\ DOMAIN s.legs = 1..L /\ DOMAIN t.legs = 1..(L + 2)
      /\ \A k \in DOMAIN s.legs : t.legs[k] = s.legs[k]
      /\ t.legs[L + 1] = a /\ t.legs[L + 2] = b
  BY <1>1
<1>4. \A k \in DOMAIN t.legs \ DOMAIN s.legs : k = L + 1 \/ k = L + 2
  BY <1>3
<1>5. d \in Batch /\ d.lots = s.batches[i].lots /\ d.Sd = s.batches[i].Sd /\ d.taken /\ ~d.completed
  <2>1. s.batches[i] \in Batch
    BY <1>1
  <2> QED
    BY <2>1 DEF Batch
<1> HIDE DEF d
<1>6. /\ t.batches \in Seq(Batch) /\ DOMAIN t.batches = DOMAIN s.batches
      /\ t.batches[i] = d
      /\ \A j \in DOMAIN s.batches : j # i => t.batches[j] = s.batches[j]
  BY <1>1, <1>5
<1>7. /\ t.group = s.group /\ t.coid_seq = s.coid_seq + minted
      /\ t = [group |-> t.group, batches |-> t.batches, legs |-> t.legs, coid_seq |-> t.coid_seq,
              out |-> t.out]
  OBVIOUS
<1> HIDE DEF t, L
<1>8. \A j \in DOMAIN t.batches : t.batches[j].lots = s.batches[j].lots /\ t.batches[j].Sd = s.batches[j].Sd
                                  /\ t.batches[j].completed = s.batches[j].completed
  <2>1. ASSUME NEW j \in DOMAIN t.batches, j # i PROVE t.batches[j] = s.batches[j]
    BY <1>6, <2>1
  <2>2. d.completed = s.batches[i].completed
    BY DEF d
  <2> QED
    BY <1>5, <1>6, <2>1, <2>2
<1>9. \A k \in DOMAIN s.legs : /\ s.legs[k] \in Leg /\ s.legs[k].batch # i
                               /\ s.legs[k].batch \in DOMAIN s.batches /\ s.legs[k].coid <= s.coid_seq
  BY <1>1 DEF CoreSound, LegSound
<1>10. CoreShape(t)
  BY <1>1, <1>3, <1>6, <1>7, <1>8 DEF CoreSound, CoreShape
<1>11. \A k \in DOMAIN t.legs : LegSound(t, k)
  <2>1. ASSUME NEW k \in DOMAIN s.legs PROVE LegSound(t, k)
    <3>1. t.legs[k] = s.legs[k] /\ s.legs[k].coid \in Nat
      BY <1>3, <1>9 DEF Leg
    <3>2. s.legs[k].coid <= t.coid_seq
      BY <1>1, <1>7, <1>9, <3>1
    <3> QED
      BY <1>6, <1>8, <1>9, <3>1, <3>2 DEF CoreSound, LegSound
  <2>2. ASSUME NEW k \in {L + 1, L + 2} PROVE LegSound(t, k)
    <3>1. t.legs[k] \in {a, b}
      BY <1>3, <2>2
    <3>2. PICK l \in {a, b} : l = t.legs[k]
      BY <3>1
    <3>3. /\ l.batch = i /\ l.count = Total(s.batches[i].lots) /\ l.netted = 0
          /\ l.coid = None \/ l.coid <= s.coid_seq + minted
          /\ l.status = "pending" => l.coid # None
          /\ Total(s.batches[i].lots) \in Nat
      BY DEF CoreSound, CoreShape
    <3>4. l.coid <= t.coid_seq
      BY <1>1, <1>7, <3>3 DEF None
    <3> QED
      BY <1>6, <1>5, <1>8, <3>2, <3>3, <3>4 DEF LegSound
  <2> QED
    BY <1>4, <2>1, <2>2
<1>12. Alone(t)
  <2>1. ASSUME NEW j \in DOMAIN s.legs, NEW k \in DOMAIN t.legs \ DOMAIN s.legs
        PROVE  /\ Key(t.legs[j]) # Key(t.legs[k])
               /\ t.legs[j].coid = t.legs[k].coid => t.legs[j].coid = None
    <3>1. t.legs[j] = s.legs[j] /\ s.legs[j].batch # i /\ s.legs[j].coid <= s.coid_seq /\ s.legs[j].coid \in Nat
      BY <1>3, <1>9 DEF Leg
    <3>2. t.legs[k].batch = i /\ (t.legs[k].coid = None \/ t.legs[k].coid > s.coid_seq)
      BY <1>3, <1>4
    <3>3. t.legs[k].coid \in Nat
      BY <1>3, <1>4 DEF Leg
    <3> QED
      BY <1>1, <3>1, <3>2, <3>3 DEF Key
  <2>2. ASSUME NEW j \in DOMAIN t.legs \ DOMAIN s.legs, NEW k \in DOMAIN t.legs \ DOMAIN s.legs, j # k
        PROVE  /\ Key(t.legs[j]) # Key(t.legs[k])
               /\ t.legs[j].coid = t.legs[k].coid => t.legs[j].coid = None
    BY <1>3, <1>4, <2>2 DEF Key
  <2>3. ASSUME NEW j \in DOMAIN s.legs, NEW k \in DOMAIN s.legs, j # k
        PROVE  /\ Key(t.legs[j]) # Key(t.legs[k])
               /\ t.legs[j].coid = t.legs[k].coid => t.legs[j].coid = None
    BY <1>3, <2>3 DEF CoreSound, Alone
  <2> QED
    BY <2>1, <2>2, <2>3 DEF Alone
<1>13. Grows(s, t)
  <2>1. s.coid_seq <= t.coid_seq
    BY <1>1, <1>7
  <2>2. DOMAIN s.legs \subseteq DOMAIN t.legs
    BY <1>3
  <2>3. \A k \in DOMAIN t.legs \ DOMAIN s.legs :
       /\ t.legs[k].netted = 0 /\ t.legs[k].status # "filled"
       /\ t.legs[k].coid = None \/ t.legs[k].coid > s.coid_seq
       /\ ~t.batches[t.legs[k].batch].completed
    BY <1>3, <1>4, <1>5, <1>6
  <2> QED
    BY <1>3, <1>6, <1>8, <2>1, <2>2, <2>3 DEF Grows
<1> QED
  BY <1>2, <1>10, <1>11, <1>12, <1>13 DEF Decides, CoreSound

\* The first take of a batch, of both wings or of the one that has an ask.
LEMMA TakeDecides ==
  ASSUME NEW s, CoreSound(s), NEW i \in DOMAIN s.batches, ~s.batches[i].taken, ~s.batches[i].completed
  PROVE  /\ Decides(s, _take_batch(s, i))
         /\ \A side \in Sides : Decides(s, _take_batch_partial(s, i, side))
<1>1. s.coid_seq \in Nat /\ s.batches \in Seq(Batch) /\ Total(s.batches[i].lots) \in Nat
  BY DEF CoreSound, CoreShape
<1>2. i \in Nat
  BY <1>1
<1>3. Decides(s, _take_batch(s, i))
  <2> DEFINE a == TakeLeg(s, i, "yes", TRUE, s.coid_seq + 1)
             b == TakeLeg(s, i, "no", TRUE, s.coid_seq + 2)
  <2>1. a \in Leg /\ b \in Leg /\ a.side # b.side /\ a.coid # b.coid
    BY <1>1, <1>2 DEF TakeLeg, Leg, Sides
  <2>2. \A l \in {a, b} : /\ l.batch = i /\ l.count = Total(s.batches[i].lots) /\ l.netted = 0
                          /\ l.status # "filled"
                          /\ (l.coid > s.coid_seq /\ l.coid <= s.coid_seq + 2)
                          /\ l.coid # None
    BY <1>1 DEF TakeLeg, None
  <2> HIDE DEF a, b
  <2>3. Decides(s, Taking(s, i, <<a, b>>, 2))
    BY <2>1, <2>2, TakingDecides
  <2> QED
    BY <2>3 DEF _take_batch, a, b
<1>4. ASSUME NEW side \in Sides PROVE Decides(s, _take_batch_partial(s, i, side))
  <2>1. PICK other : other = IF side = "yes" THEN "no" ELSE "yes"
    OBVIOUS
  <2>2. other \in Sides /\ other # side
    BY <2>1 DEF Sides
  <2> DEFINE a == TakeLeg(s, i, side, TRUE, s.coid_seq + 1)
             b == TakeLeg(s, i, other, FALSE, None)
  <2>3. a \in Leg /\ b \in Leg /\ a.side # b.side /\ a.coid # b.coid
    BY <1>1, <1>2, <2>2 DEF TakeLeg, Leg, None
  <2>4. \A l \in {a, b} : /\ l.batch = i /\ l.count = Total(s.batches[i].lots) /\ l.netted = 0
                          /\ l.status # "filled"
                          /\ l.coid = None \/ (l.coid > s.coid_seq /\ l.coid <= s.coid_seq + 1)
                          /\ l.status = "pending" => l.coid # None
    BY <1>1 DEF TakeLeg, None
  <2> HIDE DEF a, b
  <2>5. Decides(s, Taking(s, i, <<a, b>>, 1))
    BY <2>3, <2>4, TakingDecides
  <2> QED
    BY <2>1, <2>5 DEF _take_batch_partial, a, b
<1> QED
  BY <1>3, <1>4

\* A retry mints one new client id for each leg it sends.
LEMMA RetryDecides ==
  ASSUME NEW s, CoreSound(s), NEW i \in DOMAIN s.batches, NEW now
  PROVE  Decides(s, _retry_batch(s, i, now))
<1> DEFINE again == { k \in DOMAIN s.legs :
                        /\ s.legs[k].batch = i /\ s.legs[k].status = "unfilled"
                        /\ ~s.legs[k].retried \/ now.cool }
           Upto(k) == { j \in again : j <= k }
           CoidFor(k) == s.coid_seq + Cardinality(Upto(k))
           new(k) == [s.legs[k] EXCEPT !.status = "pending", !.coid = CoidFor(k), !.retried = TRUE]
           t == [group |-> s.group, batches |-> s.batches,
                 legs |-> [k \in DOMAIN s.legs |-> IF k \in again THEN new(k) ELSE s.legs[k]],
                 coid_seq |-> s.coid_seq + Cardinality(again), out |-> TRUE]
<1>1. /\ s = [group |-> s.group, batches |-> s.batches, legs |-> s.legs, coid_seq |-> s.coid_seq,
              out |-> s.out]
      /\ s.batches \in Seq(Batch) /\ s.legs \in Seq(Leg) /\ s.coid_seq \in Nat
  BY DEF CoreSound, CoreShape
<1>2. CASE ~now.lock \/ again = {}
  <2>1. _retry_batch(s, i, now) = s
    BY <1>2 DEF _retry_batch
  <2> QED
    BY <2>1, GrowsSame DEF Decides
<1>3. CASE ~(~now.lock \/ again = {})
  <2>1. _retry_batch(s, i, now) = t
    BY <1>1, <1>3 DEF _retry_batch
  <2>2. /\ DOMAIN s.legs = 1..Len(s.legs) /\ Len(s.legs) \in Nat
        /\ \A k \in DOMAIN s.legs : s.legs[k] \in Leg
        /\ again \subseteq DOMAIN s.legs
    BY <1>1
  <2>3. IsFiniteSet(again) /\ Cardinality(again) \in Nat
    <3> HIDE DEF again
    <3>1. IsFiniteSet(1..Len(s.legs))
      BY <2>2, FS_Interval
    <3> QED
      BY <2>2, <3>1, FS_Subset, FS_CardinalityType
  <2>4. ASSUME NEW k \in again
        PROVE  /\ Cardinality(Upto(k)) \in Nat /\ Cardinality(Upto(k)) >= 1
               /\ Cardinality(Upto(k)) <= Cardinality(again)
    <3>1. Upto(k) \subseteq again /\ {k} \subseteq Upto(k) /\ k \in Nat
      BY <2>2
    <3> HIDE DEF Upto, again
    <3>2. IsFiniteSet(Upto(k)) /\ Cardinality({k}) = 1
      BY <2>3, <3>1, FS_Subset, FS_Singleton
    <3> QED
      BY <2>3, <3>1, <3>2, FS_Subset, FS_CardinalityType
  <2>5. ASSUME NEW j \in again, NEW k \in again, j < k
        PROVE  Cardinality(Upto(j)) < Cardinality(Upto(k))
    <3>1. Upto(j) \subseteq Upto(k) /\ k \in Upto(k) /\ k \notin Upto(j) /\ Upto(k) \subseteq again
      BY <2>2, <2>5
    <3>2. IsFiniteSet(Upto(k))
      <4> HIDE DEF Upto, again
      <4> QED
        BY <2>3, <3>1, FS_Subset
    <3>3. Upto(j) # Upto(k)
      BY <3>1
    <3>4. Cardinality(Upto(j)) \in Nat /\ Cardinality(Upto(k)) \in Nat
      BY <2>4
    <3> HIDE DEF Upto
    <3> QED
      BY <3>1, <3>2, <3>3, <3>4, FS_Subset
  <2>6. ASSUME NEW k \in again
        PROVE  /\ CoidFor(k) \in Nat /\ CoidFor(k) > s.coid_seq /\ CoidFor(k) <= s.coid_seq + Cardinality(again)
               /\ \A j \in again : j # k => CoidFor(j) # CoidFor(k)
    <3>1. CoidFor(k) \in Nat /\ CoidFor(k) > s.coid_seq /\ CoidFor(k) <= s.coid_seq + Cardinality(again)
      <4> HIDE DEF Upto, again
      <4> QED
        BY <1>1, <2>3, <2>4
    <3>2. ASSUME NEW j \in again, j # k PROVE CoidFor(j) # CoidFor(k)
      <4>1. j < k \/ k < j
        BY <2>2, <3>2
      <4>2. Cardinality(Upto(j)) # Cardinality(Upto(k))
        <5>1. Cardinality(Upto(j)) \in Nat /\ Cardinality(Upto(k)) \in Nat
          BY <2>4
        <5>2. Cardinality(Upto(j)) < Cardinality(Upto(k)) \/ Cardinality(Upto(k)) < Cardinality(Upto(j))
          BY <2>5, <4>1
        <5> HIDE DEF Upto
        <5> QED
          BY <5>1, <5>2
      <4>3. Cardinality(Upto(j)) \in Nat /\ Cardinality(Upto(k)) \in Nat
        BY <2>4
      <4> HIDE DEF Upto
      <4> QED
        BY <1>1, <4>2, <4>3
    <3> QED
      BY <3>1, <3>2
  <2> HIDE DEF Upto, CoidFor
  <2>7. ASSUME NEW k \in again
        PROVE  /\ new(k) \in Leg /\ new(k).batch = s.legs[k].batch /\ new(k).side = s.legs[k].side
               /\ new(k).count = s.legs[k].count /\ new(k).netted = s.legs[k].netted
               /\ new(k).status = "pending" /\ new(k).coid = CoidFor(k)
    <3>1. s.legs[k] \in Leg
      BY <2>2
    <3>2. CoidFor(k) \in Nat
      BY <2>6
    <3> QED
      BY <3>1, <3>2 DEF Leg
  <2> HIDE DEF new
  <2>8. /\ DOMAIN t.legs = DOMAIN s.legs
        /\ \A k \in again : t.legs[k] = new(k)
        /\ \A k \in DOMAIN s.legs \ again : t.legs[k] = s.legs[k]
        /\ t.group = s.group /\ t.batches = s.batches /\ t.coid_seq = s.coid_seq + Cardinality(again)
        /\ t = [group |-> t.group, batches |-> t.batches, legs |-> t.legs, coid_seq |-> t.coid_seq,
                out |-> t.out]
    BY <2>2
  <2>9. t.legs \in Seq(Leg)
    <3>1. \A k \in DOMAIN s.legs : (IF k \in again THEN new(k) ELSE s.legs[k]) \in Leg
      BY <2>2, <2>7
    <3> HIDE DEF again
    <3> QED
      BY <2>2, <3>1
  <2> HIDE DEF t
  <2>10. CoreShape(t)
    BY <1>1, <2>3, <2>8, <2>9 DEF CoreSound, CoreShape
  <2>11. ASSUME NEW k \in DOMAIN s.legs
         PROVE  /\ t.legs[k].batch = s.legs[k].batch /\ t.legs[k].side = s.legs[k].side
                /\ t.legs[k].count = s.legs[k].count /\ t.legs[k].netted = s.legs[k].netted
                /\ t.legs[k].coid \in Nat /\ s.legs[k].coid \in Nat
                /\ s.legs[k].coid <= s.coid_seq /\ t.legs[k].coid <= t.coid_seq
                /\ k \notin again => t.legs[k] = s.legs[k]
                /\ k \in again => t.legs[k].coid = CoidFor(k) /\ t.legs[k].coid > s.coid_seq
                                  /\ t.legs[k].status = "pending"
    <3>1. s.legs[k].coid <= s.coid_seq /\ s.legs[k].coid \in Nat
      BY <2>2 DEF CoreSound, LegSound, Leg
    <3>2. CASE k \in again
      BY <2>6, <2>7, <2>8, <3>1, <3>2
    <3>3. CASE k \notin again
      <4>1. t.legs[k] = s.legs[k]
        BY <2>8, <3>3
      <4>2. s.legs[k].coid <= t.coid_seq
        BY <1>1, <2>3, <2>8, <3>1
      <4> QED
        BY <3>1, <3>3, <4>1, <4>2
    <3> QED
      BY <3>2, <3>3
  <2>12. ASSUME NEW k \in DOMAIN t.legs PROVE LegSound(t, k)
    <3>1. k \in DOMAIN s.legs /\ LegSound(s, k)
      BY <2>8 DEF CoreSound
    <3>2. t.legs[k].status = "pending" => t.legs[k].coid # None
      <4>1. CASE k \in again
        BY <1>1, <2>11, <3>1, <4>1 DEF None
      <4>2. CASE k \notin again
        BY <2>11, <3>1, <4>2 DEF LegSound
      <4> QED
        BY <4>1, <4>2
    <3> QED
      BY <2>8, <2>11, <3>1, <3>2 DEF LegSound
  <2>13. ASSUME NEW j \in DOMAIN t.legs, NEW k \in DOMAIN t.legs, j # k
         PROVE  /\ Key(t.legs[j]) # Key(t.legs[k])
                /\ t.legs[j].coid = t.legs[k].coid => t.legs[j].coid = None
    <3>1. j \in DOMAIN s.legs /\ k \in DOMAIN s.legs
      BY <2>8
    <3>2. Key(s.legs[j]) # Key(s.legs[k]) /\ (s.legs[j].coid = s.legs[k].coid => s.legs[j].coid = None)
      BY <2>13, <3>1 DEF CoreSound, Alone
    <3>3. Key(t.legs[j]) # Key(t.legs[k])
      BY <2>11, <3>1, <3>2 DEF Key
    <3>4. CASE j \in again /\ k \in again
      <4>1. CoidFor(j) # CoidFor(k)
        BY <2>6, <2>13, <3>4
      <4>2. t.legs[j].coid = CoidFor(j) /\ t.legs[k].coid = CoidFor(k)
        BY <2>11, <3>1, <3>4
      <4> QED
        BY <3>3, <4>1, <4>2
    <3>5. CASE j \in again /\ k \notin again
      BY <1>1, <2>11, <3>1, <3>3, <3>5
    <3>6. CASE j \notin again /\ k \in again
      BY <1>1, <2>11, <3>1, <3>3, <3>6
    <3>7. CASE j \notin again /\ k \notin again
      BY <2>11, <3>1, <3>2, <3>3, <3>7
    <3> QED
      BY <3>4, <3>5, <3>6, <3>7
  <2>14. Grows(s, t)
    <3>1. s.coid_seq <= t.coid_seq
      BY <1>1, <2>3, <2>8
    <3> QED
      BY <2>8, <2>11, <3>1 DEF Grows, Key
  <2> QED
    BY <2>1, <2>10, <2>12, <2>13, <2>14 DEF Decides, CoreSound, Alone
<1> QED
  BY <1>2, <1>3

\* What a decision does for one batch.
LEMMA StepBatchDecides ==
  ASSUME NEW s, CoreSound(s), NEW i \in DOMAIN s.batches, NEW now
  PROVE  Decides(s, StepBatch(s, i, now))
<1>1. Decides(s, s)
  BY GrowsSame DEF Decides
<1>2. Decides(s, _retry_batch(s, i, now))
  BY RetryDecides
<1>3. ~s.batches[i].completed /\ ~s.batches[i].taken
        => /\ Decides(s, _take_batch(s, i))
           /\ \A side \in Sides : Decides(s, _take_batch_partial(s, i, side))
  BY TakeDecides
<1>4. "yes" \in Sides /\ "no" \in Sides
  BY DEF Sides
<1>5. PICK priced : priced = { side \in Sides : <<Strike(s.batches[i].Sd, side), side>> \in now.asks }
  OBVIOUS
<1>6. StepBatch(s, i, now)
        = IF s.batches[i].completed \/ priced = {} THEN s
          ELSE IF priced = Sides THEN (IF s.batches[i].taken THEN _retry_batch(s, i, now) ELSE _take_batch(s, i))
          ELSE IF s.batches[i].taken THEN s
          ELSE _take_batch_partial(s, i, IF "yes" \in priced THEN "yes" ELSE "no")
  BY <1>5 DEF StepBatch
<1> QED
  BY <1>1, <1>2, <1>3, <1>4, <1>6

\* f is the recursion over the first m batches
IsSteps(f, m, s, now) == f = [i \in 0..m |-> IF i = 0 THEN s ELSE StepBatch(f[i - 1], i, now)]

\* There is one for any number of them.
LEMMA StepsExist == ASSUME NEW s, NEW now, NEW N \in Nat PROVE \E f : IsSteps(f, N, s, now)
<1> DEFINE P(f, m) == IsSteps(f, m, s, now)
           T == {m \in Nat : ~\E f : P(f, m)}
<1>1. ASSUME T # {} PROVE FALSE
  <2>1. PICK m \in T : \A k \in T : m <= k
    <3>1. T \in SUBSET Nat
      OBVIOUS
    <3> HIDE DEF T
    <3> QED
      BY <1>1, <3>1, LeastNatural
  <2>2. m \in Nat /\ ~\E f : P(f, m)
    BY <2>1
  <2>3. CASE m = 0
    <3>1. PICK f : f = [i \in 0..0 |-> s]
      OBVIOUS
    <3>2. P(f, 0)
      BY <3>1 DEF IsSteps
    <3> QED
      BY <2>2, <2>3, <3>2
  <2>4. CASE m # 0
    <3>1. m - 1 \in Nat /\ m - 1 \notin T
      <4> HIDE DEF T
      <4> QED
        BY <2>1, <2>2, <2>4
    <3>2. PICK f : P(f, m - 1)
      <4> HIDE DEF P
      <4> QED
        BY <3>1
    <3>3. PICK g : g = [i \in 0..m |-> IF i = m THEN StepBatch(f[m - 1], m, now) ELSE f[i]]
      OBVIOUS
    <3>4. \A i \in 0..(m - 1) : g[i] = f[i] /\ f[i] = IF i = 0 THEN s ELSE StepBatch(f[i - 1], i, now)
      BY <2>2, <3>2, <3>3 DEF IsSteps
    <3>5. ASSUME NEW i \in 0..m PROVE g[i] = IF i = 0 THEN s ELSE StepBatch(g[i - 1], i, now)
      <4>1. CASE i = m
        <5>1. g[m] = StepBatch(f[m - 1], m, now) /\ g[m - 1] = f[m - 1]
          BY <2>2, <2>4, <3>3, <3>4
        <5> QED
          BY <2>4, <4>1, <5>1
      <4>2. CASE i # m /\ i # 0
        <5>1. i \in 0..(m - 1) /\ i - 1 \in 0..(m - 1)
          BY <2>2, <4>2
        <5>2. g[i] = f[i] /\ f[i] = StepBatch(f[i - 1], i, now) /\ g[i - 1] = f[i - 1]
          BY <3>4, <4>2, <5>1
        <5> QED
          BY <4>2, <5>2
      <4>3. CASE i # m /\ i = 0
        BY <2>2, <3>4, <4>3
      <4> QED
        BY <4>1, <4>2, <4>3
    <3>6. g = [i \in 0..m |-> g[i]]
      BY <3>3
    <3>7. P(g, m)
      BY <3>5, <3>6 DEF IsSteps
    <3> QED
      BY <2>2, <3>7
  <2> QED
    BY <2>3, <2>4
<1>2. N \notin T
  BY <1>1
<1>3. \E f : P(f, N)
  BY <1>2
<1> QED
  BY <1>3

\* A decision for all batches is one.
LEMMA StepsDecide ==
  ASSUME NEW s, CoreSound(s), NEW now
  PROVE  Decides(s, StepBatches(s, now))
<1>1. PICK N : N = Len(s.batches)
  OBVIOUS
<1>2. N \in Nat /\ DOMAIN s.batches = 1..N
  BY <1>1 DEF CoreSound, CoreShape
<1>3. StepBatches(s, now) = (CHOOSE f : IsSteps(f, N, s, now))[N]
  BY <1>1 DEF StepBatches, IsSteps
<1>4. \E f : IsSteps(f, N, s, now)
  BY <1>2, StepsExist
<1>5. PICK f : f = CHOOSE g : IsSteps(g, N, s, now)
  OBVIOUS
<1>6. IsSteps(f, N, s, now)
  BY <1>4, <1>5
<1>7. \A i \in 0..N : f[i] = IF i = 0 THEN s ELSE StepBatch(f[i - 1], i, now)
  BY <1>6 DEF IsSteps
<1> DEFINE T == {m \in 0..N : ~Decides(s, f[m])}
<1>8. ASSUME T # {} PROVE FALSE
  <2>1. PICK m \in T : \A k \in T : m <= k
    <3>1. T \in SUBSET Nat
      OBVIOUS
    <3> HIDE DEF T
    <3> QED
      BY <1>8, <3>1, LeastNatural
  <2>2. m \in 0..N /\ ~Decides(s, f[m])
    BY <2>1
  <2>3. CASE m = 0
    <3>1. f[m] = s
      BY <1>7, <2>2, <2>3
    <3> QED
      BY <2>2, <3>1, GrowsSame DEF Decides
  <2>4. CASE m # 0
    <3>1. m - 1 \in 0..N /\ m - 1 \notin T /\ m \in DOMAIN s.batches
      BY <1>2, <2>1, <2>2, <2>4
    <3>2. Decides(s, f[m - 1])
      BY <3>1
    <3>3. f[m] = StepBatch(f[m - 1], m, now)
      BY <1>7, <2>2, <2>4
    <3>4. m \in DOMAIN f[m - 1].batches /\ CoreSound(f[m - 1])
      BY <3>1, <3>2 DEF Decides, Grows
    <3>5. Decides(f[m - 1], f[m])
      BY <3>3, <3>4, StepBatchDecides
    <3>6. Decides(s, f[m])
      BY <3>2, <3>5, GrowsOn DEF Decides
    <3> QED
      BY <2>2, <3>6
  <2> QED
    BY <2>3, <2>4
<1>9. N \notin T /\ N \in 0..N
  BY <1>2, <1>8
<1> QED
  BY <1>3, <1>5, <1>9

\* A decision, before or after the cutoff.
LEMMA WingStepDecides ==
  ASSUME NEW s, CoreSound(s), NEW now, NEW late \in BOOLEAN
  PROVE  Decides(s, _wing_step(s, now, late))
<1>1. PICK t : t = _coalesce_flush(s, now)
  OBVIOUS
<1>2. Decides(s, t)
  BY <1>1, FlushDecides
<1>3. CASE ~late
  <2>1. _wing_step(s, now, late) = StepBatches(t, now)
    BY <1>1, <1>3 DEF _wing_step
  <2>2. Decides(t, StepBatches(t, now))
    BY <1>2, StepsDecide DEF Decides
  <2> QED
    BY <1>2, <2>1, <2>2, GrowsOn DEF Decides
<1>4. CASE late
  <2> DEFINE spoiled(i) == IF t.batches[i].completed \/ WingsHeld(t, i) THEN t.batches[i]
                           ELSE [t.batches[i] EXCEPT !.one_legged = TRUE]
  <2>1. PICK b : b = [i \in DOMAIN t.batches |-> spoiled(i)]
    OBVIOUS
  <2>2. PICK u : u = [t EXCEPT !.batches = b]
    OBVIOUS
  <2>3. _wing_step(s, now, late) = u
    BY <1>1, <1>4, <2>1, <2>2 DEF _wing_step
  <2>4. /\ t = [group |-> t.group, batches |-> t.batches, legs |-> t.legs, coid_seq |-> t.coid_seq,
                out |-> t.out]
        /\ t.batches \in Seq(Batch)
    BY <1>2 DEF Decides, CoreSound, CoreShape
  <2>5. ASSUME NEW i \in DOMAIN t.batches
        PROVE  /\ spoiled(i) \in Batch
               /\ spoiled(i).Sd = t.batches[i].Sd /\ spoiled(i).lots = t.batches[i].lots
               /\ spoiled(i).completed = t.batches[i].completed
               /\ spoiled(i).taken = t.batches[i].taken
    <3>1. t.batches[i] \in Batch
      BY <2>4
    <3> QED
      BY <3>1 DEF Batch
  <2> HIDE DEF spoiled
  <2>6. /\ b \in Seq(Batch) /\ DOMAIN b = DOMAIN t.batches
        /\ \A i \in DOMAIN t.batches : b[i] = spoiled(i)
    BY <2>1, <2>4, <2>5
  <2>7. u = [group |-> t.group, batches |-> b, legs |-> t.legs, coid_seq |-> t.coid_seq, out |-> t.out]
    BY <2>2, <2>4
  <2>8. CoreSound(u)
    <3>1. CoreShape(u)
      BY <1>2, <2>5, <2>6, <2>7 DEF Decides, CoreSound, CoreShape
    <3>2. \A k \in DOMAIN u.legs : LegSound(u, k)
      BY <1>2, <2>5, <2>6, <2>7 DEF Decides, CoreSound, LegSound
    <3>3. Alone(u)
      BY <1>2, <2>7 DEF Decides, CoreSound, Alone
    <3> QED
      BY <3>1, <3>2, <3>3 DEF CoreSound
  <2>9. Grows(t, u)
    <3>1. t.coid_seq \in Nat
      BY <1>2 DEF Decides, CoreSound, CoreShape
    <3> QED
      BY <2>5, <2>6, <2>7, <3>1 DEF Grows
  <2> QED
    BY <1>2, <2>3, <2>8, <2>9, GrowsOn DEF Decides
<1> QED
  BY <1>3, <1>4

-----------------------------------------------------------------------------
(* What the core knows is true *)

\* what counts as held has been read as bought
Covered(s) ==
  \A k \in DOMAIN s.legs :
    s.legs[k].status = "filled" \/ s.legs[k].netted > 0 \/ s.batches[s.legs[k].batch].completed
      => wing_filled[Key(s.legs[k])] >= s.legs[k].count

\* the lots netted of the legs on a market
MarketOf(s, l) == <<Strike(s.batches[l.batch].Sd, l.side), l.side>>
OnMarketOf(s, mkt) == { k \in DOMAIN s.legs : MarketOf(s, s.legs[k]) = mkt }
Netted(s, mkt) == Total([k \in OnMarketOf(s, mkt) |-> s.legs[k].netted])

Strikes == Buckets \cup { b + 1 : b \in Buckets }

Balanced(s) == \A x \in Strikes : Netted(s, <<x, "yes">>) = Netted(s, <<x, "no">>)

Finished(s) == { i \in DOMAIN s.batches : s.batches[i].completed }
LotsOf(s, is) == Total([i \in is |-> Total(s.batches[i].lots)])

\* A decision leaves that as it is.
LEMMA GrowsTrue ==
  ASSUME NEW s, NEW t, CoreSound(s), CoreSound(t), Grows(s, t)
  PROVE  /\ Covered(s) => Covered(t)
         /\ Balanced(s) => Balanced(t)
         /\ Finished(t) = Finished(s) /\ LotsOf(t, Finished(t)) = LotsOf(s, Finished(s))
<1>1. /\ \A k \in DOMAIN s.legs : s.legs[k].batch \in DOMAIN s.batches /\ s.legs[k].netted \in Nat
      /\ \A k \in DOMAIN t.legs : t.legs[k].batch \in DOMAIN t.batches /\ t.legs[k].netted \in Nat
  <2>1. \A v \in {s, t} : \A k \in DOMAIN v.legs : v.legs[k] \in Leg
    BY DEF CoreSound, CoreShape
  <2> QED
    BY <2>1 DEF Leg, CoreSound, LegSound
<1>2. \A k \in DOMAIN s.legs : t.legs[k].batch = s.legs[k].batch /\ t.legs[k].side = s.legs[k].side
  BY DEF Grows, Key
<1>3. DOMAIN s.legs \subseteq DOMAIN t.legs /\ DOMAIN s.batches \subseteq DOMAIN t.batches
  BY DEF Grows
<1>4. Covered(s) => Covered(t)
  <2> SUFFICES ASSUME Covered(s), NEW k \in DOMAIN t.legs,
                      \/ t.legs[k].status = "filled" \/ t.legs[k].netted > 0
                      \/ t.batches[t.legs[k].batch].completed
               PROVE  wing_filled[Key(t.legs[k])] >= t.legs[k].count
    BY DEF Covered
  <2>1. k \in DOMAIN s.legs
    BY <1>1 DEF Grows
  <2>2. /\ Key(t.legs[k]) = Key(s.legs[k]) /\ t.legs[k].count = s.legs[k].count
        /\ t.legs[k].netted = s.legs[k].netted
        /\ t.legs[k].status = "filled" => s.legs[k].status = "filled"
        /\ t.batches[t.legs[k].batch].completed = s.batches[s.legs[k].batch].completed
    BY <1>1, <1>2, <2>1 DEF Grows
  <2> QED
    BY <2>1, <2>2 DEF Covered
<1>5. ASSUME NEW mkt PROVE Netted(t, mkt) = Netted(s, mkt)
  <2>1. PICK f, h : /\ f = [k \in OnMarketOf(t, mkt) |-> t.legs[k].netted]
                    /\ h = [k \in OnMarketOf(s, mkt) |-> s.legs[k].netted]
    OBVIOUS
  <2>2. OnMarketOf(s, mkt) = OnMarketOf(t, mkt) \cap DOMAIN s.legs
    <3>1. \A k \in DOMAIN s.legs : MarketOf(t, t.legs[k]) = MarketOf(s, s.legs[k])
      BY <1>1, <1>2 DEF MarketOf, Grows
    <3> QED
      BY <1>3, <3>1 DEF OnMarketOf
  <2>3. DOMAIN f = OnMarketOf(t, mkt) /\ DOMAIN h = OnMarketOf(s, mkt)
    BY <2>1
  <2>4. \A k \in DOMAIN h : h[k] = f[k]
    BY <2>1, <2>2 DEF Grows
  <2>5. \A k \in DOMAIN f \ DOMAIN h : f[k] = 0
    BY <2>1, <2>2 DEF Grows, OnMarketOf
  <2>6. Summable(f)
    <3>1. t.legs \in Seq(Leg)
      BY DEF CoreSound, CoreShape
    <3>2. IsFiniteSet(DOMAIN t.legs)
      BY <3>1, FS_Interval
    <3>3. IsFiniteSet(OnMarketOf(t, mkt))
      BY <3>2, FS_Subset DEF OnMarketOf
    <3>4. \A k \in DOMAIN f : f[k] \in Int
      BY <1>1, <2>1 DEF OnMarketOf
    <3> QED
      BY <2>3, <3>3, <3>4 DEF Summable
  <2>7. DOMAIN h \subseteq DOMAIN f
    BY <2>2, <2>3
  <2>8. Total(f) = Total(h)
    BY <2>4, <2>5, <2>6, <2>7, TotalZeros
  <2> QED
    BY <2>1, <2>8 DEF Netted
<1>6. Balanced(s) => Balanced(t)
  BY <1>5 DEF Balanced
<1>7. Finished(t) = Finished(s)
  BY DEF Finished, Grows
<1>8. [i \in Finished(t) |-> Total(t.batches[i].lots)] = [i \in Finished(s) |-> Total(s.batches[i].lots)]
  BY <1>7 DEF Grows, Finished
<1> QED
  BY <1>4, <1>6, <1>7, <1>8 DEF LotsOf

-----------------------------------------------------------------------------
(* What the report of a take does *)

\* legs and batches stay what they are, and what is completed stays so
Books(s, t) ==
  /\ t.group = s.group /\ t.coid_seq = s.coid_seq /\ t.out = s.out
  /\ DOMAIN t.batches = DOMAIN s.batches /\ DOMAIN t.legs = DOMAIN s.legs
  /\ \A i \in DOMAIN s.batches :
       /\ t.batches[i].Sd = s.batches[i].Sd /\ t.batches[i].lots = s.batches[i].lots
       /\ t.batches[i].taken = s.batches[i].taken
       /\ s.batches[i].completed => t.batches[i].completed
  /\ \A k \in DOMAIN s.legs :
       /\ Key(t.legs[k]) = Key(s.legs[k]) /\ t.legs[k].count = s.legs[k].count
       /\ t.legs[k].coid = s.legs[k].coid /\ t.legs[k].retried = s.legs[k].retried

CoreTrue(s) == CoreSound(s) /\ Covered(s) /\ Balanced(s)

\* The total of one value, and of a few values that are taken from a row.
LEMMA TotalOne == ASSUME NEW f, NEW x, DOMAIN f = {x}, f[x] \in Int PROVE Total(f) = f[x]
<1>1. Summable(f)
  BY FS_Singleton DEF Summable
<1>2. Total(f) = f[x] + Total(Restrict(f, {x} \ {x}))
  BY <1>1, TotalStep
<1>3. DOMAIN Restrict(f, {x} \ {x}) = {}
  BY Parts
<1> QED
  BY <1>2, <1>3, TotalEmpty

LEMMA FiniteUpTo == ASSUME NEW N \in Nat PROVE IsFiniteSet(1..N)
<1>1. 1 \in Int /\ N \in Int
  OBVIOUS
<1> QED
  BY <1>1, FS_Interval

\* what is left of F before place j is taken there, as far as it is free
Before(S, j) == {i \in S : i < j}
PartOf(F, free, S, j) == LET left == F - Total(Restrict(free, Before(S, j)))
                         IN IF left <= 0 THEN 0 ELSE IF left < free[j] THEN left ELSE free[j]

LEMMA PartsFit ==
  ASSUME NEW N \in Nat, NEW S, S \subseteq 1..N, NEW free \in [S -> Nat], NEW F \in Nat,
         NEW part, part = [j \in S |-> part[j]], \A j \in S : part[j] = PartOf(F, free, S, j)
  PROVE  /\ \A j \in S : part[j] \in Nat /\ part[j] <= free[j]
         /\ Total(part) \in Nat /\ Total(part) <= F
<1> DEFINE Low(m) == Before(S, m)
           B(m) == Total(Restrict(free, Low(m)))
           C(m) == Total(Restrict(part, Low(m)))
<1>1. IsFiniteSet(S) /\ Summable(free)
  <2>1. IsFiniteSet(S)
    <3>1. IsFiniteSet(1..N)
      BY FiniteUpTo
    <3> QED
      BY <3>1, FS_Subset
  <2> QED
    BY <2>1 DEF Summable
<1>2. \A m \in Nat : Low(m) \in SUBSET S /\ B(m) \in Int
  <2>0. \A m : Low(m) \subseteq S
    BY DEF Before
  <2>1. ASSUME NEW m \in Nat PROVE B(m) \in Int
    <3>1. Low(m) \subseteq DOMAIN free
      BY <2>0
    <3>2. Summable(Restrict(free, Low(m)))
      BY <1>1, <3>1, Parts
    <3> QED
      BY <3>2, TotalStep
  <2> QED
    BY <2>0, <2>1
<1>3. \A j \in S : part[j] \in Nat /\ part[j] <= free[j]
  <2>1. ASSUME NEW j \in S PROVE part[j] \in Nat /\ part[j] <= free[j]
    <3>1. j \in Nat /\ B(j) \in Int /\ free[j] \in Nat
      BY <1>2
    <3>2. part[j] = LET left == F - B(j)
                    IN IF left <= 0 THEN 0 ELSE IF left < free[j] THEN left ELSE free[j]
      BY DEF PartOf
    <3> HIDE DEF B
    <3> QED
      BY <3>1, <3>2
  <2> QED
    BY <2>1
<1>4. Summable(part) /\ DOMAIN part = S
  <2>1. DOMAIN part = S
    OBVIOUS
  <2> QED
    BY <1>1, <1>3, <2>1 DEF Summable
<1>0. \A i \in S : i \in Nat /\ i < N + 1
  OBVIOUS
<1>5. \A m \in Nat : C(m) \in Int
  <2>1. ASSUME NEW m \in Nat PROVE C(m) \in Int
    <3>1. Low(m) \subseteq DOMAIN part
      BY <1>2, <1>4
    <3>2. Summable(Restrict(part, Low(m)))
      BY <1>4, <3>1, Parts
    <3> QED
      BY <3>2, TotalStep
  <2> QED
    BY <2>1
<1> DEFINE T == {m \in Nat : C(m) # IF F < B(m) THEN F ELSE B(m)}
<1>6. ASSUME T # {} PROVE FALSE
  <2>1. PICK m \in T : \A k \in T : m <= k
    <3>1. T \in SUBSET Nat
      OBVIOUS
    <3> HIDE DEF T
    <3> QED
      BY <1>6, <3>1, LeastNatural
  <2>2. m \in Nat /\ C(m) # IF F < B(m) THEN F ELSE B(m)
    BY <2>1
  <2>3. CASE m = 0
    <3>1. Low(0) = {}
      <4>1. \A i \in S : ~(i < 0)
        BY <1>0
      <4> QED
        BY <4>1 DEF Before
    <3>2. DOMAIN Restrict(free, Low(0)) = {} /\ DOMAIN Restrict(part, Low(0)) = {}
      BY <3>1, Parts
    <3>3. B(0) = 0 /\ C(0) = 0
      BY <3>2, TotalEmpty
    <3> QED
      BY <2>2, <2>3, <3>3
  <2>4. CASE m # 0
    <3>1. PICK p \in Nat : p = m - 1
      BY <2>2, <2>4
    <3>2. C(p) = IF F < B(p) THEN F ELSE B(p)
      <4>1. p \notin T
        <5> HIDE DEF T
        <5> QED
          BY <2>1, <2>2, <3>1
      <4> HIDE DEF B, C
      <4> QED
        BY <4>1
    <3>3. CASE p \notin S
      <4>1. Low(m) = Low(p)
        <5>1. \A i \in S : i < m <=> i < p
          BY <1>0, <2>2, <3>1, <3>3
        <5> QED
          BY <5>1 DEF Before
      <4> QED
        BY <2>2, <3>2, <4>1
    <3>4. CASE p \in S
      <4>1. Low(m) \ {p} = Low(p) /\ p \in Low(m) /\ Low(p) \subseteq Low(m) /\ Low(m) \subseteq S
        <5>1. p < m /\ \A i \in S : i < p <=> i < m /\ i # p
          BY <1>0, <2>2, <3>1, <3>4
        <5> QED
          BY <3>4, <5>1 DEF Before
      <4>2. PICK a, c : a = Restrict(free, Low(m)) /\ c = Restrict(part, Low(m))
        OBVIOUS
      <4>3. /\ Summable(a) /\ DOMAIN a = Low(m) /\ a[p] = free[p] /\ Restrict(a, Low(p)) = Restrict(free, Low(p))
            /\ Summable(c) /\ DOMAIN c = Low(m) /\ c[p] = part[p] /\ Restrict(c, Low(p)) = Restrict(part, Low(p))
        <5>1. Low(m) \subseteq DOMAIN free /\ Low(m) \subseteq DOMAIN part
          BY <4>1
        <5> HIDE DEF Low
        <5> QED
          BY <1>1, <1>4, <4>1, <4>2, <5>1, Parts
      <4>4. B(m) = free[p] + B(p) /\ C(m) = part[p] + C(p)
        <5>1. Total(a) = a[p] + Total(Restrict(a, Low(p))) /\ Total(c) = c[p] + Total(Restrict(c, Low(p)))
          <6> HIDE DEF Low
          <6> QED
            BY <4>1, <4>3, TotalStep
        <5> QED
          BY <4>2, <4>3, <5>1
      <4>5. part[p] = LET left == F - B(p)
                      IN IF left <= 0 THEN 0 ELSE IF left < free[p] THEN left ELSE free[p]
        BY <3>4 DEF PartOf
      <4>6. B(p) \in Int /\ C(p) \in Int /\ free[p] \in Nat
        BY <1>2, <1>5, <3>4
      <4> HIDE DEF B, C
      <4> QED
        BY <2>2, <3>2, <4>4, <4>5, <4>6
    <3> QED
      BY <3>3, <3>4
  <2> QED
    BY <2>3, <2>4
<1>7. C(N + 1) = IF F < B(N + 1) THEN F ELSE B(N + 1)
  <2>1. N + 1 \in Nat /\ N + 1 \notin T
    <3> HIDE DEF T
    <3> QED
      BY <1>6
  <2> HIDE DEF B, C
  <2> QED
    BY <2>1
<1>8. Low(N + 1) = S
  BY <1>0 DEF Before
<1>9. Restrict(part, S) = part
  BY DEF Restrict
<1>10. C(N + 1) = Total(part) /\ B(N + 1) \in Int
  <2>1. N + 1 \in Nat
    OBVIOUS
  <2> HIDE DEF Low
  <2> QED
    BY <1>2, <1>8, <1>9, <2>1
<1>11. Total(part) <= F
  <2> HIDE DEF B, C
  <2> QED
    BY <1>7, <1>10
<1>12. Total(part) \in Nat
  BY <1>1, <1>3, <1>4, TotalNat
<1> QED
  BY <1>3, <1>11, <1>12

\* The lots a set of legs nets are finitely many, and add up when each nets some more.
LEMMA NettedMore ==
  ASSUME NEW s, CoreSound(s), NEW t, CoreSound(t), NEW add, NEW mkt,
         OnMarketOf(t, mkt) = OnMarketOf(s, mkt), DOMAIN add = DOMAIN s.legs,
         \A j \in DOMAIN s.legs : add[j] \in Nat /\ t.legs[j].netted = s.legs[j].netted + add[j]
  PROVE  /\ Summable(Restrict(add, OnMarketOf(s, mkt)))
         /\ Netted(t, mkt) = Netted(s, mkt) + Total(Restrict(add, OnMarketOf(s, mkt)))
<1>1. PICK D : D = OnMarketOf(s, mkt)
  OBVIOUS
<1>2. PICK f, h, g : /\ f = [j \in D |-> s.legs[j].netted] /\ h = Restrict(add, D)
                     /\ g = [j \in D |-> t.legs[j].netted]
  OBVIOUS
<1>3. D \subseteq DOMAIN s.legs /\ \A j \in DOMAIN s.legs : s.legs[j].netted \in Nat
  <2>1. \A j \in DOMAIN s.legs : s.legs[j] \in Leg
    BY DEF CoreSound, CoreShape
  <2> QED
    BY <1>1, <2>1 DEF Leg, OnMarketOf
<1>4. IsFiniteSet(D)
  <2>1. s.legs \in Seq(Leg)
    BY DEF CoreSound, CoreShape
  <2>2. IsFiniteSet(DOMAIN s.legs)
    BY <2>1, FS_Interval
  <2> QED
    BY <1>3, <2>2, FS_Subset
<1>5. DOMAIN f = D /\ DOMAIN h = D /\ DOMAIN g = D /\ \A j \in D : h[j] = add[j]
  BY <1>2, Parts
<1>6. \A j \in D : f[j] \in Int /\ h[j] \in Int /\ g[j] = f[j] + h[j]
  BY <1>2, <1>3, <1>5
<1>7. Summable(f) /\ Summable(h)
  BY <1>4, <1>5, <1>6 DEF Summable
<1>8. Total(g) = Total(f) + Total(h)
  BY <1>5, <1>6, <1>7, TotalPlus
<1> QED
  BY <1>1, <1>2, <1>7, <1>8 DEF Netted

\* A change of the netted lots alone.
NetsOnly(s, t) ==
  /\ t = [group |-> s.group, batches |-> s.batches, legs |-> t.legs, coid_seq |-> s.coid_seq,
          out |-> s.out]
  /\ DOMAIN t.legs = DOMAIN s.legs
  /\ \A j \in DOMAIN s.legs : t.legs[j] = [s.legs[j] EXCEPT !.netted = t.legs[j].netted]

\* A leg that was filled nets lots of both sides, as many as were free.
LEMMA NetTrue ==
  ASSUME NEW s, CoreTrue(s), NEW k \in DOMAIN s.legs, s.legs[k].status = "filled"
  PROVE  CoreTrue(_net_wings(s, k)) /\ NetsOnly(s, _net_wings(s, k))
<1> DEFINE L == s.legs[k]
           Mk(j) == Strike(s.batches[s.legs[j].batch].Sd, s.legs[j].side)
           Free(j) == s.legs[j].count - s.legs[j].netted
<1>1. PICK S : S = { j \in DOMAIN s.legs : /\ Mk(j) = Mk(k) /\ s.legs[j].side # L.side
                                           /\ s.legs[j].status = "filled" /\ Free(j) > 0 }
  OBVIOUS
<1>2. PICK free : free = [j \in S |-> Free(j)]
  OBVIOUS
<1> DEFINE Part(j) == PartOf(Free(k), free, S, j)
<1>3. PICK part : part = [j \in S |-> Part(j)]
  OBVIOUS
<1>4. PICK add : add = [j \in DOMAIN s.legs |-> IF j = k THEN Total(part)
                                                ELSE IF j \in S THEN part[j] ELSE 0]
  OBVIOUS
<1>5. PICK ls : ls = [j \in DOMAIN s.legs |->
                        IF j = k THEN [s.legs[j] EXCEPT !.netted = @ + Total(part)]
                        ELSE IF j \in S THEN [s.legs[j] EXCEPT !.netted = @ + part[j]]
                        ELSE s.legs[j]]
  OBVIOUS
<1>6. PICK t : t = [s EXCEPT !.legs = ls]
  OBVIOUS
<1>7. _net_wings(s, k) = t
  <2>1. \A j \in S : [i \in {i \in S : i < j} |-> Free(i)] = Restrict(free, {i \in S : i < j})
    BY <1>2 DEF Restrict
  <2>2. \A j \in S : free[j] = Free(j)
    BY <1>2
  <2> DEFINE P1(j) == LET left == Free(k) - Total([i \in {i \in S : i < j} |-> Free(i)])
                      IN IF left <= 0 THEN 0 ELSE IF left < Free(j) THEN left ELSE Free(j)
  <2>3. \A j \in S : P1(j) = part[j]
    BY <1>3, <2>1, <2>2 DEF PartOf, Before
  <2>4. [i \in S |-> P1(i)] = part
    BY <1>3, <2>3
  <2>5. PICK l1 : l1 = [j \in DOMAIN s.legs |->
             IF j = k THEN [L EXCEPT !.netted = @ + Total([i \in S |-> P1(i)])]
             ELSE IF j \in S THEN [s.legs[j] EXCEPT !.netted = @ + P1(j)] ELSE s.legs[j]]
    OBVIOUS
  <2>6. _net_wings(s, k) = [s EXCEPT !.legs = l1]
    BY <1>1, <2>5 DEF _net_wings
  <2>7. l1 = ls
    <3> HIDE DEF P1
    <3> QED
      BY <1>5, <2>3, <2>4, <2>5
  <2> QED
    BY <1>6, <2>6, <2>7
<1>8. /\ s = [group |-> s.group, batches |-> s.batches, legs |-> s.legs, coid_seq |-> s.coid_seq,
              out |-> s.out]
      /\ s.legs \in Seq(Leg) /\ s.batches \in Seq(Batch)
  BY DEF CoreTrue, CoreSound, CoreShape
<1>9. \A j \in DOMAIN s.legs : /\ s.legs[j] \in Leg /\ Free(j) \in Nat
                               /\ s.legs[j].netted \in Nat /\ s.legs[j].count \in Nat
  <2>1. \A j \in DOMAIN s.legs : s.legs[j] \in Leg
    BY <1>8
  <2>2. ASSUME NEW j \in DOMAIN s.legs
        PROVE  Free(j) \in Nat /\ s.legs[j].netted \in Nat /\ s.legs[j].count \in Nat
    <3>1. s.legs[j].netted \in Nat /\ s.legs[j].count \in Nat
      BY <2>1 DEF Leg
    <3>2. s.legs[j].netted <= s.legs[j].count
      BY DEF CoreTrue, CoreSound, LegSound
    <3> QED
      BY <3>1, <3>2
  <2> QED
    BY <2>1, <2>2
<1>10. PICK N \in Nat : DOMAIN s.legs = 1..N
  BY <1>8
<1>11. S \subseteq DOMAIN s.legs /\ k \notin S
  BY <1>1
<1>12. /\ \A j \in S : part[j] \in Nat /\ part[j] <= free[j]
       /\ Total(part) \in Nat /\ Total(part) <= Free(k)
  <2>1. free \in [S -> Nat] /\ Free(k) \in Nat /\ S \subseteq 1..N
    BY <1>2, <1>9, <1>10, <1>11
  <2>2. part = [j \in S |-> part[j]]
    BY <1>3
  <2>3. PICK F \in Nat : F = Free(k)
    BY <2>1
  <2>4. \A j \in S : part[j] = PartOf(F, free, S, j)
    BY <1>3, <2>3
  <2> HIDE DEF Free
  <2> QED
    BY <2>1, <2>2, <2>3, <2>4, PartsFit
<1> HIDE DEF Part
<1>13. \A j \in DOMAIN s.legs : add[j] \in Nat /\ s.legs[j].netted + add[j] <= s.legs[j].count
  <2>1. ASSUME NEW j \in DOMAIN s.legs PROVE add[j] \in Nat /\ s.legs[j].netted + add[j] <= s.legs[j].count
    <3>0. s.legs[j].netted \in Nat /\ s.legs[j].count \in Nat
      BY <1>9
    <3>1. CASE j = k
      <4>1. add[j] = Total(part)
        BY <1>4, <3>1
      <4> QED
        BY <1>12, <3>0, <3>1, <4>1
    <3>2. CASE j # k /\ j \in S
      <4>1. add[j] = part[j] /\ free[j] = Free(j)
        BY <1>2, <1>4, <3>2
      <4> QED
        BY <1>12, <3>0, <3>2, <4>1
    <3>3. CASE j # k /\ j \notin S
      <4>1. add[j] = 0
        BY <1>4, <3>3
      <4>2. s.legs[j].netted <= s.legs[j].count
        BY DEF CoreTrue, CoreSound, LegSound
      <4> QED
        BY <3>0, <4>1, <4>2
    <3> QED
      BY <3>1, <3>2, <3>3
  <2> QED
    BY <2>1
<1>14. /\ t = [group |-> s.group, batches |-> s.batches, legs |-> ls, coid_seq |-> s.coid_seq,
               out |-> s.out]
       /\ DOMAIN ls = DOMAIN s.legs
  BY <1>5, <1>6, <1>8
<1>15. ASSUME NEW j \in DOMAIN s.legs
       PROVE  /\ ls[j] = [s.legs[j] EXCEPT !.netted = @ + add[j]] /\ ls[j] \in Leg
              /\ ls[j] = [s.legs[j] EXCEPT !.netted = ls[j].netted]
              /\ ls[j].netted = s.legs[j].netted + add[j] /\ Key(ls[j]) = Key(s.legs[j])
              /\ ls[j].batch = s.legs[j].batch /\ ls[j].side = s.legs[j].side
              /\ ls[j].count = s.legs[j].count /\ ls[j].coid = s.legs[j].coid
              /\ ls[j].status = s.legs[j].status
  <2>1. PICK l \in Leg : l = s.legs[j]
    BY <1>9
  <2>2. l.netted + add[j] \in Nat
    BY <1>9, <1>13, <2>1
  <2>3. l = [batch |-> l.batch, side |-> l.side, count |-> l.count, coid |-> l.coid,
             status |-> l.status, retried |-> l.retried, netted |-> l.netted]
    BY DEF Leg
  <2>4. ls[j] = [l EXCEPT !.netted = l.netted + add[j]]
    <3>1. CASE j = k
      BY <1>4, <1>5, <2>1, <3>1
    <3>2. CASE j # k /\ j \in S
      BY <1>4, <1>5, <2>1, <3>2
    <3>3. CASE j # k /\ j \notin S
      <4>1. add[j] = 0 /\ ls[j] = l
        BY <1>4, <1>5, <2>1, <3>3
      <4>2. l.netted \in Nat
        BY DEF Leg
      <4>3. l.netted + add[j] = l.netted
        BY <4>1, <4>2
      <4> QED
        BY <2>3, <4>1, <4>3
    <3> QED
      BY <3>1, <3>2, <3>3
  <2>5. PICK m : m = [l EXCEPT !.netted = l.netted + add[j]]
    OBVIOUS
  <2>6. m = [batch |-> l.batch, side |-> l.side, count |-> l.count, coid |-> l.coid,
             status |-> l.status, retried |-> l.retried, netted |-> l.netted + add[j]]
    BY <2>3, <2>5
  <2>7. m \in Leg
    BY <2>2, <2>6 DEF Leg
  <2>8. m = [l EXCEPT !.netted = m.netted]
    BY <2>5, <2>6
  <2> QED
    BY <2>1, <2>4, <2>5, <2>6, <2>7, <2>8 DEF Key
<1>16. NetsOnly(s, t)
  BY <1>14, <1>15 DEF NetsOnly
<1>17. CoreSound(t)
  <2>1. ls \in Seq(Leg)
    <3>1. DOMAIN ls = 1..N /\ ls = [j \in 1..N |-> ls[j]]
      BY <1>5, <1>10, <1>14
    <3>2. \A j \in 1..N : ls[j] \in Leg
      BY <1>10, <1>15
    <3> QED
      BY <3>1, <3>2
  <2>2. CoreShape(t)
    BY <1>14, <2>1 DEF CoreTrue, CoreSound, CoreShape
  <2>3. ASSUME NEW j \in DOMAIN ls PROVE LegSound(t, j)
    <3>1. LegSound(s, j)
      BY <1>14 DEF CoreTrue, CoreSound
    <3>2. ls[j].netted <= ls[j].count
      BY <1>13, <1>14, <1>15
    <3> QED
      BY <1>14, <1>15, <3>1, <3>2 DEF LegSound
  <2>4. Alone(t)
    <3>1. t.legs = ls /\ \A j \in DOMAIN s.legs : Key(ls[j]) = Key(s.legs[j]) /\ ls[j].coid = s.legs[j].coid
      BY <1>14, <1>15
    <3>2. Alone(s)
      BY DEF CoreTrue, CoreSound
    <3> HIDE DEF Free
    <3> QED
      BY <1>14, <3>1, <3>2 DEF Alone
  <2> QED
    BY <1>14, <2>2, <2>3, <2>4 DEF CoreSound
<1>18. Covered(t)
  <2> SUFFICES ASSUME NEW j \in DOMAIN t.legs,
                      \/ t.legs[j].status = "filled" \/ t.legs[j].netted > 0
                      \/ t.batches[t.legs[j].batch].completed
               PROVE  wing_filled[Key(t.legs[j])] >= t.legs[j].count
    BY DEF Covered
  <2>1. j \in DOMAIN s.legs /\ t.legs[j] = ls[j] /\ t.batches = s.batches
    BY <1>14
  <2>2. s.legs[j].status = "filled" \/ s.legs[j].netted > 0
        \/ s.batches[s.legs[j].batch].completed
    <3>1. CASE j = k
      BY <3>1
    <3>2. CASE j \in S
      BY <1>1, <3>2
    <3>3. CASE j # k /\ j \notin S
      <4>1. add[j] = 0
        BY <1>4, <2>1, <3>3
      <4>2. ls[j].netted = s.legs[j].netted
        <5>1. ls[j].netted = s.legs[j].netted + 0 /\ s.legs[j].netted \in Nat
          BY <1>9, <1>15, <2>1, <4>1
        <5> QED
          BY <5>1
      <4> QED
        BY <1>15, <2>1, <4>2
    <3> QED
      BY <3>1, <3>2, <3>3
  <2> QED
    BY <1>15, <2>1, <2>2 DEF CoreTrue, Covered
<1>19. \A mkt : OnMarketOf(t, mkt) = OnMarketOf(s, mkt)
  BY <1>14, <1>15 DEF OnMarketOf, MarketOf
<1>20. \A mkt : /\ Summable(Restrict(add, OnMarketOf(s, mkt)))
                /\ Netted(t, mkt) = Netted(s, mkt) + Total(Restrict(add, OnMarketOf(s, mkt)))
  <2>1. DOMAIN add = DOMAIN s.legs
    BY <1>4
  <2>2. \A j \in DOMAIN s.legs : add[j] \in Nat /\ t.legs[j].netted = s.legs[j].netted + add[j]
    BY <1>13, <1>14, <1>15
  <2> QED
    BY <1>17, <1>19, <2>1, <2>2, NettedMore DEF CoreTrue
<1>21. Summable(part)
  <2>1. DOMAIN part = S /\ IsFiniteSet(S)
    BY <1>3, <1>10, <1>11, FiniteUpTo, FS_Subset
  <2> QED
    BY <1>12, <2>1 DEF Summable
<1>22. \A j \in S : s.legs[j].side \in Sides /\ s.legs[j].side # L.side /\ Mk(j) = Mk(k)
  BY <1>1, <1>9 DEF Leg
<1>23. L.side \in Sides
  BY <1>9 DEF Leg
<1>24. ASSUME NEW x, NEW side \in Sides
       PROVE  Total(Restrict(add, OnMarketOf(s, <<x, side>>))) = IF x = Mk(k) THEN Total(part) ELSE 0
  <2>1. PICK D, h : D = OnMarketOf(s, <<x, side>>) /\ h = Restrict(add, D)
    OBVIOUS
  <2>2. /\ DOMAIN h = D /\ Summable(h) /\ \A j \in D : h[j] = add[j]
        /\ D = {j \in DOMAIN s.legs : Mk(j) = x /\ s.legs[j].side = side}
    <3>1. D = {j \in DOMAIN s.legs : Mk(j) = x /\ s.legs[j].side = side}
      BY <2>1 DEF OnMarketOf, MarketOf
    <3> QED
      BY <1>20, <2>1, <3>1, Parts
  <2>3. CASE x = Mk(k) /\ side = L.side
    <3>1. PICK one : one = [j \in {k} |-> Total(part)]
      OBVIOUS
    <3>2. DOMAIN one = {k} /\ one[k] = Total(part) /\ Total(part) \in Int
      BY <1>12, <3>1
    <3>3. k \in D /\ h[k] = one[k]
      BY <1>4, <2>2, <2>3, <3>2
    <3>4. \A j \in DOMAIN h \ DOMAIN one : h[j] = 0
      BY <1>4, <1>22, <2>2, <2>3, <3>2
    <3>5. Total(h) = Total(one)
      BY <2>2, <3>2, <3>3, <3>4, TotalZeros
    <3> QED
      BY <2>1, <2>3, <3>2, <3>5, TotalOne
  <2>4. CASE x = Mk(k) /\ side # L.side
    <3>1. \A j \in S : s.legs[j].side = side
      BY <1>22, <1>23, <2>4 DEF Sides
    <3>2. S \subseteq D
      BY <1>11, <1>22, <2>2, <2>4, <3>1
    <3>3. DOMAIN part = S
      BY <1>3
    <3>4. k \notin D
      BY <2>2, <2>4
    <3>5. \A j \in S : h[j] = part[j]
      BY <1>4, <1>11, <2>2, <3>2
    <3>6. \A j \in DOMAIN h \ DOMAIN part : h[j] = 0
      BY <1>4, <2>2, <3>3, <3>4
    <3>7. Total(h) = Total(part)
      BY <2>2, <3>2, <3>3, <3>5, <3>6, TotalZeros
    <3> QED
      BY <2>1, <2>4, <3>7
  <2>5. CASE x # Mk(k)
    <3>1. PICK none : none = [j \in {} |-> 0]
      OBVIOUS
    <3>2. DOMAIN none = {}
      BY <3>1
    <3>3. \A j \in D : h[j] = 0
      BY <1>4, <1>22, <2>2, <2>5
    <3>4. Total(h) = Total(none)
      BY <2>2, <3>2, <3>3, TotalZeros
    <3> QED
      BY <2>1, <2>5, <3>2, <3>4, TotalEmpty
  <2> QED
    BY <2>3, <2>4, <2>5
<1>25. Balanced(t)
  <2>1. ASSUME NEW x \in Strikes PROVE Netted(t, <<x, "yes">>) = Netted(t, <<x, "no">>)
    <3>1. Netted(s, <<x, "yes">>) = Netted(s, <<x, "no">>)
      BY DEF CoreTrue, Balanced
    <3>2. {"yes", "no"} \subseteq Sides
      BY DEF Sides
    <3>3. /\ Total(Restrict(add, OnMarketOf(s, <<x, "yes">>))) = IF x = Mk(k) THEN Total(part) ELSE 0
          /\ Total(Restrict(add, OnMarketOf(s, <<x, "no">>))) = IF x = Mk(k) THEN Total(part) ELSE 0
      BY <1>24, <3>2
    <3>4. /\ Netted(t, <<x, "yes">>) = Netted(s, <<x, "yes">>) + Total(Restrict(add, OnMarketOf(s, <<x, "yes">>)))
          /\ Netted(t, <<x, "no">>) = Netted(s, <<x, "no">>) + Total(Restrict(add, OnMarketOf(s, <<x, "no">>)))
      BY <1>20
    <3> QED
      BY <3>1, <3>3, <3>4
  <2> QED
    BY <2>1 DEF Balanced
<1> QED
  BY <1>7, <1>16, <1>17, <1>18, <1>25 DEF CoreTrue

\* A change of the status of one leg.
StatusOnly(s, t, k, status) ==
  /\ t.group = s.group /\ t.coid_seq = s.coid_seq /\ t.out = s.out
  /\ t.batches = s.batches /\ DOMAIN t.legs = DOMAIN s.legs
  /\ \A j \in DOMAIN s.legs :
       /\ Key(t.legs[j]) = Key(s.legs[j]) /\ t.legs[j].count = s.legs[j].count
       /\ t.legs[j].coid = s.legs[j].coid /\ t.legs[j].retried = s.legs[j].retried
       /\ t.legs[j].status = IF j = k THEN status ELSE s.legs[j].status

LEMMA StatusTrue ==
  ASSUME NEW s, CoreTrue(s), NEW k \in DOMAIN s.legs, NEW st \in {"filled", "unfilled"},
         st = "filled" => wing_filled[Key(s.legs[k])] >= s.legs[k].count
  PROVE  LET t == [s EXCEPT !.legs[k].status = st] IN CoreTrue(t) /\ StatusOnly(s, t, k, st)
<1>1. PICK t : t = [s EXCEPT !.legs[k].status = st]
  OBVIOUS
<1>2. PICK ls : ls = [s.legs EXCEPT ![k].status = st]
  OBVIOUS
<1>3. /\ s = [group |-> s.group, batches |-> s.batches, legs |-> s.legs, coid_seq |-> s.coid_seq,
              out |-> s.out]
      /\ s.legs \in Seq(Leg) /\ s.batches \in Seq(Batch)
  BY DEF CoreTrue, CoreSound, CoreShape
<1>4. t = [s EXCEPT !.legs = ls]
  BY <1>1, <1>2, <1>3
<1>5. t = [group |-> s.group, batches |-> s.batches, legs |-> ls, coid_seq |-> s.coid_seq,
           out |-> s.out]
  BY <1>3, <1>4
<1>6. PICK N \in Nat : DOMAIN s.legs = 1..N
  BY <1>3
<1>7. DOMAIN ls = 1..N /\ ls = [j \in 1..N |-> ls[j]]
      /\ \A j \in 1..N : ls[j] = IF j = k THEN [s.legs[k] EXCEPT !.status = st] ELSE s.legs[j]
  BY <1>2, <1>6
<1>8. ASSUME NEW j \in 1..N
      PROVE  /\ ls[j] \in Leg /\ Key(ls[j]) = Key(s.legs[j]) /\ ls[j].count = s.legs[j].count
             /\ ls[j].batch = s.legs[j].batch /\ ls[j].side = s.legs[j].side
             /\ ls[j].coid = s.legs[j].coid /\ ls[j].netted = s.legs[j].netted
             /\ ls[j].retried = s.legs[j].retried
             /\ ls[j].status = IF j = k THEN st ELSE s.legs[j].status
  <2>1. PICK l \in Leg : l = s.legs[j]
    BY <1>3, <1>6
  <2>2. CASE j # k
    BY <1>7, <2>1, <2>2
  <2>3. CASE j = k
    <3>1. l = [batch |-> l.batch, side |-> l.side, count |-> l.count, coid |-> l.coid,
               status |-> l.status, retried |-> l.retried, netted |-> l.netted]
      BY DEF Leg
    <3>2. PICK m : m = [l EXCEPT !.status = st]
      OBVIOUS
    <3>3. m = [batch |-> l.batch, side |-> l.side, count |-> l.count, coid |-> l.coid,
               status |-> st, retried |-> l.retried, netted |-> l.netted]
      BY <3>1, <3>2
    <3>4. ls[j] = m
      BY <1>7, <2>1, <2>3, <3>2
    <3>5. m \in Leg
      BY <3>3 DEF Leg
    <3> QED
      BY <2>1, <2>3, <3>3, <3>4, <3>5 DEF Key
  <2> QED
    BY <2>2, <2>3
<1>9. StatusOnly(s, t, k, st)
  BY <1>5, <1>6, <1>7, <1>8 DEF StatusOnly
<1>10. CoreSound(t)
  <2>1. ls \in Seq(Leg)
    BY <1>7, <1>8
  <2>2. CoreShape(t)
    BY <1>5, <2>1 DEF CoreTrue, CoreSound, CoreShape
  <2>3. ASSUME NEW j \in DOMAIN ls PROVE LegSound(t, j)
    <3>1. LegSound(s, j)
      BY <1>6, <1>7 DEF CoreTrue, CoreSound
    <3>2. ls[j].status = "pending" => s.legs[j].status = "pending"
      BY <1>7, <1>8
    <3> QED
      BY <1>5, <1>7, <1>8, <3>1, <3>2 DEF LegSound
  <2>4. Alone(t)
    <3>1. Alone(s)
      BY DEF CoreTrue, CoreSound
    <3> QED
      BY <1>5, <1>6, <1>7, <1>8, <3>1 DEF Alone
  <2> QED
    BY <1>5, <2>2, <2>3, <2>4 DEF CoreSound
<1>11. Covered(t)
  <2> SUFFICES ASSUME NEW j \in 1..N,
                      ls[j].status = "filled" \/ ls[j].netted > 0 \/ s.batches[ls[j].batch].completed
               PROVE  wing_filled[Key(ls[j])] >= ls[j].count
    BY <1>5, <1>7 DEF Covered
  <2>1. Covered(s)
    BY DEF CoreTrue
  <2>2. CASE j = k /\ st = "filled"
    BY <1>8, <2>2
  <2>3. CASE ~(j = k /\ st = "filled")
    <3>1. s.legs[j].status = "filled" \/ s.legs[j].netted > 0 \/ s.batches[s.legs[j].batch].completed
      BY <1>8, <2>3
    <3> QED
      BY <1>6, <1>8, <2>1, <3>1 DEF Covered
  <2> QED
    BY <2>2, <2>3
<1>12. Balanced(t)
  <2>1. ASSUME NEW mkt PROVE Netted(t, mkt) = Netted(s, mkt)
    <3>1. OnMarketOf(t, mkt) = OnMarketOf(s, mkt)
      BY <1>5, <1>6, <1>7, <1>8 DEF OnMarketOf, MarketOf
    <3>2. PICK D : D = OnMarketOf(s, mkt)
      OBVIOUS
    <3>3. \A j \in D : t.legs[j].netted = s.legs[j].netted
      BY <1>5, <1>6, <1>8, <3>2 DEF OnMarketOf
    <3>4. [j \in D |-> t.legs[j].netted] = [j \in D |-> s.legs[j].netted]
      BY <3>3
    <3> QED
      BY <3>1, <3>2, <3>4 DEF Netted
  <2> QED
    BY <2>1 DEF CoreTrue, Balanced
<1> QED
  BY <1>1, <1>9, <1>10, <1>11, <1>12 DEF CoreTrue

\* A fill of a leg that has been bought in full, or the report of one that has not.
LEMMA FillTrue ==
  ASSUME NEW s, CoreTrue(s), NEW k \in DOMAIN s.legs, NEW count \in Nat,
         count > 0 => wing_filled[Key(s.legs[k])] >= s.legs[k].count
  PROVE  LET t == ApplyWingFill(s, k, count)
         IN CoreTrue(t) /\ StatusOnly(s, t, k, IF count = 0 THEN "unfilled" ELSE "filled")
<1>1. CASE count = 0
  BY <1>1, StatusTrue DEF ApplyWingFill
<1>2. CASE count # 0
  <2>1. PICK u : u = [s EXCEPT !.legs[k].status = "filled"]
    OBVIOUS
  <2>2. CoreTrue(u) /\ StatusOnly(s, u, k, "filled")
    <3>1. PICK st \in {"filled", "unfilled"} : st = "filled"
      OBVIOUS
    <3>2. st = "filled" => wing_filled[Key(s.legs[k])] >= s.legs[k].count
      BY <1>2
    <3>3. u = [s EXCEPT !.legs[k].status = st]
      BY <2>1, <3>1
    <3>4. CoreTrue(u) /\ StatusOnly(s, u, k, st)
      BY <3>2, <3>3, StatusTrue
    <3> QED
      BY <3>1, <3>4
  <2>3. k \in DOMAIN u.legs /\ u.legs[k].status = "filled"
    BY <2>2 DEF StatusOnly
  <2>4. PICK t : t = _net_wings(u, k)
    OBVIOUS
  <2>5. CoreTrue(t) /\ NetsOnly(u, t)
    BY <2>2, <2>3, <2>4, NetTrue
  <2>6. ASSUME NEW j \in DOMAIN u.legs
        PROVE  /\ Key(t.legs[j]) = Key(u.legs[j]) /\ t.legs[j].count = u.legs[j].count
               /\ t.legs[j].coid = u.legs[j].coid /\ t.legs[j].status = u.legs[j].status
               /\ t.legs[j].retried = u.legs[j].retried
    <3>1. PICK l \in Leg : l = u.legs[j]
      BY <2>2 DEF CoreTrue, CoreSound, CoreShape
    <3>2. PICK x : x = t.legs[j].netted
      OBVIOUS
    <3>3. PICK m : m = [l EXCEPT !.netted = x]
      OBVIOUS
    <3>4. t.legs[j] = m
      BY <2>5, <3>1, <3>2, <3>3 DEF NetsOnly
    <3>5. l = [batch |-> l.batch, side |-> l.side, count |-> l.count, coid |-> l.coid,
               status |-> l.status, retried |-> l.retried, netted |-> l.netted]
      BY DEF Leg
    <3>6. m = [batch |-> l.batch, side |-> l.side, count |-> l.count, coid |-> l.coid,
               status |-> l.status, retried |-> l.retried, netted |-> x]
      BY <3>3, <3>5
    <3> QED
      BY <3>1, <3>4, <3>6 DEF Key
  <2>7. StatusOnly(s, t, k, "filled")
    <3>1. /\ t.group = u.group /\ t.coid_seq = u.coid_seq /\ t.out = u.out /\ t.batches = u.batches
          /\ DOMAIN t.legs = DOMAIN u.legs
      BY <2>5 DEF NetsOnly
    <3> QED
      BY <2>2, <2>6, <3>1 DEF StatusOnly
  <2>8. ApplyWingFill(s, k, count) = t
    BY <1>2, <2>1, <2>4 DEF ApplyWingFill
  <2> QED
    BY <1>2, <2>5, <2>7, <2>8
<1> QED
  BY <1>1, <1>2

\* A set is closed when both its wings are held.
LEMMA CloseTrue ==
  ASSUME NEW s, CoreTrue(s), NEW i \in DOMAIN s.batches
  PROVE  LET t == _maybe_close_set(s, i)
         IN CoreTrue(t) /\ Books(s, t) /\ t.legs = s.legs
<1>1. CASE ~Closes(s, i)
  BY <1>1 DEF _maybe_close_set, Books
<1>2. CASE Closes(s, i)
  <2>1. PICK b : b = [s.batches[i] EXCEPT !.completed = TRUE, !.one_legged = FALSE]
    OBVIOUS
  <2>2. PICK q : q = [s.batches EXCEPT ![i] = b]
    OBVIOUS
  <2>3. PICK t : t = [s EXCEPT !.batches = q]
    OBVIOUS
  <2>4. /\ s = [group |-> s.group, batches |-> s.batches, legs |-> s.legs, coid_seq |-> s.coid_seq,
                out |-> s.out]
        /\ s.batches \in Seq(Batch)
    BY DEF CoreTrue, CoreSound, CoreShape
  <2>5. _maybe_close_set(s, i) = t
    <3>1. _maybe_close_set(s, i) = [s EXCEPT !.batches[i] = b]
      BY <1>2, <2>1 DEF _maybe_close_set
    <3> QED
      BY <2>2, <2>3, <2>4, <3>1
  <2>6. t = [group |-> s.group, batches |-> q, legs |-> s.legs, coid_seq |-> s.coid_seq, out |-> s.out]
    BY <2>3, <2>4
  <2>7. PICK N \in Nat : DOMAIN s.batches = 1..N
    BY <2>4
  <2>8. DOMAIN q = 1..N /\ q = [j \in 1..N |-> q[j]]
        /\ \A j \in 1..N : q[j] = IF j = i THEN b ELSE s.batches[j]
    BY <2>2, <2>7
  <2>9. ASSUME NEW j \in 1..N
        PROVE  /\ q[j] \in Batch /\ q[j].Sd = s.batches[j].Sd /\ q[j].lots = s.batches[j].lots
               /\ q[j].taken = s.batches[j].taken
               /\ q[j].completed <=> (s.batches[j].completed \/ j = i)
    <3>1. PICK a \in Batch : a = s.batches[j]
      BY <2>4, <2>7
    <3>2. a = [Sd |-> a.Sd, lots |-> a.lots, taken |-> a.taken, completed |-> a.completed,
               one_legged |-> a.one_legged]
      BY DEF Batch
    <3>3. CASE j # i
      BY <2>8, <3>1, <3>3
    <3>4. CASE j = i
      <4>1. b = [a EXCEPT !.completed = TRUE, !.one_legged = FALSE]
        BY <2>1, <3>1, <3>4
      <4>2. b = [Sd |-> a.Sd, lots |-> a.lots, taken |-> a.taken, completed |-> TRUE,
                 one_legged |-> FALSE]
        BY <3>2, <4>1
      <4>3. b \in Batch
        BY <4>2 DEF Batch
      <4>4. b.Sd = a.Sd /\ b.lots = a.lots /\ b.taken = a.taken /\ b.completed
        BY <4>2
      <4>5. q[j] = b
        BY <2>8, <3>4
      <4> HIDE DEF Batch
      <4> QED
        BY <3>1, <3>4, <4>3, <4>4, <4>5
    <3> QED
      BY <3>3, <3>4
  <2>10. Books(s, t)
    BY <2>6, <2>7, <2>8, <2>9 DEF Books
  <2>11. CoreSound(t)
    <3>1. q \in Seq(Batch)
      BY <2>8, <2>9
    <3>2. CoreShape(t)
      <4>1. CoreShape(s)
        BY DEF CoreTrue, CoreSound
      <4>2. \A j \in DOMAIN q : Total(q[j].lots) \in Nat /\ Total(q[j].lots) >= 1
        BY <2>7, <2>8, <2>9, <4>1 DEF CoreShape
      <4> QED
        BY <2>6, <3>1, <4>1, <4>2 DEF CoreShape
    <3>3. ASSUME NEW k \in DOMAIN s.legs PROVE LegSound(t, k)
      <4>1. LegSound(s, k)
        BY DEF CoreTrue, CoreSound
      <4> QED
        BY <2>6, <2>7, <2>8, <2>9, <4>1 DEF LegSound
    <3>4. Alone(t)
      BY <2>6 DEF CoreTrue, CoreSound, Alone
    <3> QED
      BY <2>6, <3>2, <3>3, <3>4 DEF CoreSound
  <2>12. Covered(t)
    <3> SUFFICES ASSUME NEW k \in DOMAIN s.legs,
                        \/ s.legs[k].status = "filled" \/ s.legs[k].netted > 0
                        \/ q[s.legs[k].batch].completed
                 PROVE  wing_filled[Key(s.legs[k])] >= s.legs[k].count
      BY <2>6 DEF Covered
    <3>1. Covered(s) /\ LegSound(s, k)
      BY DEF CoreTrue, CoreSound
    <3>2. s.legs[k].batch \in 1..N
      BY <2>7, <3>1 DEF LegSound
    <3>3. s.batches[s.legs[k].batch].completed \/ s.legs[k].batch = i \/ s.legs[k].status = "filled"
          \/ s.legs[k].netted > 0
      BY <2>9, <3>2
    <3>4. s.legs[k].batch = i => s.legs[k].status = "filled"
      BY <1>2 DEF Closes, WingsHeld, BatchLegs
    <3> QED
      BY <3>1, <3>3, <3>4 DEF Covered
  <2>13. Balanced(t)
    <3>1. ASSUME NEW mkt PROVE Netted(t, mkt) = Netted(s, mkt)
      <4>1. \A k \in DOMAIN s.legs : q[s.legs[k].batch].Sd = s.batches[s.legs[k].batch].Sd
        <5>1. \A k \in DOMAIN s.legs : s.legs[k].batch \in 1..N
          BY <2>7 DEF CoreTrue, CoreSound, LegSound
        <5> QED
          BY <2>9, <5>1
      <4>2. OnMarketOf(t, mkt) = OnMarketOf(s, mkt)
        BY <2>6, <4>1 DEF OnMarketOf, MarketOf
      <4> QED
        BY <2>6, <4>2 DEF Netted
    <3> QED
      BY <3>1 DEF CoreTrue, Balanced
  <2> QED
    BY <2>5, <2>6, <2>10, <2>11, <2>12, <2>13 DEF CoreTrue
<1> QED
  BY <1>1, <1>2

LEMMA StatusBooks ==
  ASSUME NEW s, NEW t, NEW k, NEW status, StatusOnly(s, t, k, status)
  PROVE  Books(s, t)
BY DEF StatusOnly, Books

LEMMA BooksOn ==
  ASSUME NEW s, NEW t, NEW u, Books(s, t), Books(t, u)
  PROVE  Books(s, u)
BY DEF Books

\* The legs of a take are legs of the state, each under a client id no other leg has.
Fits(s, t) ==
  /\ t.mine \subseteq DOMAIN t.legs
  /\ \A k \in DOMAIN t.legs :
       /\ k \in DOMAIN s.legs /\ Key(t.legs[k]) = Key(s.legs[k])
       /\ t.legs[k].count = s.legs[k].count /\ t.legs[k].coid \in 1..s.coid_seq
       /\ \A j \in DOMAIN s.legs : s.legs[j].coid = t.legs[k].coid => j = k

\* A count is reported of a leg that has been bought in full.
Answered(t) ==
  \A k \in t.mine : /\ t.got[k] \in Nat
                    /\ t.got[k] > 0 => wing_filled[Key(t.legs[k])] >= t.legs[k].count

LEMMA BooksFits == ASSUME NEW s, NEW t, NEW u, Fits(s, u), Books(s, t) PROVE Fits(t, u)
BY DEF Fits, Books

\* what the report of leg k makes of the status of leg j
Outcome(s, t, k, j) ==
  IF j = k /\ k \in t.mine /\ s.legs[k].coid = t.legs[k].coid
  THEN IF t.got[k] = 0 THEN "unfilled" ELSE "filled"
  ELSE s.legs[j].status

LEMMA ReportTrue ==
  ASSUME NEW s, CoreTrue(s), NEW t, Fits(s, t), Answered(t), NEW k \in Nat
  PROVE  LET u == ApplyReport(s, t, k)
         IN /\ CoreTrue(u) /\ Books(s, u)
            /\ \A j \in DOMAIN s.legs : u.legs[j].status = Outcome(s, t, k, j)
<1>1. CASE k \notin t.mine \/ Match(s, t, k) = {}
  <2>1. ApplyReport(s, t, k) = s
    BY <1>1 DEF ApplyReport
  <2>2. \A j \in DOMAIN s.legs : Outcome(s, t, k, j) = s.legs[j].status
    BY <1>1 DEF Outcome, Match
  <2> QED
    BY <2>1, <2>2 DEF Books
<1>2. CASE k \in t.mine /\ Match(s, t, k) # {}
  <2>1. k \in DOMAIN s.legs /\ Match(s, t, k) = {k} /\ s.legs[k].coid = t.legs[k].coid
    BY <1>2 DEF Match, Fits
  <2>2. Min({k}) = k
    BY DEF Min
  <2>3. PICK v : v = ApplyWingFill(s, k, t.got[k])
    OBVIOUS
  <2>4. PICK st : st = IF t.got[k] = 0 THEN "unfilled" ELSE "filled"
    OBVIOUS
  <2>5. CoreTrue(v) /\ StatusOnly(s, v, k, st)
    <3>1. PICK count : count = t.got[k]
      OBVIOUS
    <3>2. count \in Nat /\ (count > 0 => wing_filled[Key(s.legs[k])] >= s.legs[k].count)
      <4>1. Key(t.legs[k]) = Key(s.legs[k]) /\ t.legs[k].count = s.legs[k].count
        BY <1>2 DEF Fits
      <4> QED
        BY <1>2, <3>1, <4>1 DEF Answered
    <3>3. st = IF count = 0 THEN "unfilled" ELSE "filled"
      BY <2>4, <3>1
    <3> QED
      BY <2>1, <2>3, <3>1, <3>2, <3>3, FillTrue
  <2>6. PICK i : i = s.legs[k].batch
    OBVIOUS
  <2>7. i \in DOMAIN v.batches
    <3>1. i \in DOMAIN s.batches
      BY <2>1, <2>6 DEF CoreTrue, CoreSound, LegSound
    <3> QED
      BY <2>5, <3>1 DEF StatusOnly
  <2>8. PICK u : u = _maybe_close_set(v, i)
    OBVIOUS
  <2>9. CoreTrue(u) /\ Books(v, u) /\ u.legs = v.legs
    BY <2>5, <2>7, <2>8, CloseTrue
  <2>10. ApplyReport(s, t, k) = u
    BY <1>2, <2>1, <2>2, <2>3, <2>6, <2>8 DEF ApplyReport
  <2>11. Books(s, u)
    BY <2>5, <2>9, StatusBooks, BooksOn
  <2>12. \A j \in DOMAIN s.legs : u.legs[j].status = Outcome(s, t, k, j)
    BY <1>2, <2>1, <2>4, <2>5, <2>9 DEF Outcome, StatusOnly
  <2> QED
    BY <2>9, <2>10, <2>11, <2>12
<1> QED
  BY <1>1, <1>2

\* f is the recursion over the reports of the first m legs
IsReports(f, m, t) == f = [k \in 0..m |-> IF k = 0 THEN State ELSE ApplyReport(f[k - 1], t, k)]

LEMMA ReportsExist == ASSUME NEW t, NEW N \in Nat PROVE \E f : IsReports(f, N, t)
<1> DEFINE P(f, m) == IsReports(f, m, t)
           T == {m \in Nat : ~\E f : P(f, m)}
<1>1. ASSUME T # {} PROVE FALSE
  <2>1. PICK m \in T : \A k \in T : m <= k
    <3>1. T \in SUBSET Nat
      OBVIOUS
    <3> HIDE DEF T
    <3> QED
      BY <1>1, <3>1, LeastNatural
  <2>2. m \in Nat /\ ~\E f : P(f, m)
    BY <2>1
  <2>3. CASE m = 0
    <3>1. PICK f : f = [i \in 0..0 |-> State]
      OBVIOUS
    <3>2. P(f, 0)
      BY <3>1 DEF IsReports
    <3> QED
      BY <2>2, <2>3, <3>2
  <2>4. CASE m # 0
    <3>1. m - 1 \in Nat /\ m - 1 \notin T
      <4> HIDE DEF T
      <4> QED
        BY <2>1, <2>2, <2>4
    <3>2. PICK f : P(f, m - 1)
      <4> HIDE DEF P
      <4> QED
        BY <3>1
    <3>3. PICK g : g = [i \in 0..m |-> IF i = m THEN ApplyReport(f[m - 1], t, m) ELSE f[i]]
      OBVIOUS
    <3>4. \A i \in 0..(m - 1) : g[i] = f[i] /\ f[i] = IF i = 0 THEN State ELSE ApplyReport(f[i - 1], t, i)
      BY <2>2, <3>2, <3>3 DEF IsReports
    <3>5. ASSUME NEW i \in 0..m PROVE g[i] = IF i = 0 THEN State ELSE ApplyReport(g[i - 1], t, i)
      <4>1. CASE i = m
        <5>1. g[m] = ApplyReport(f[m - 1], t, m) /\ g[m - 1] = f[m - 1]
          BY <2>2, <2>4, <3>3, <3>4
        <5> QED
          BY <2>4, <4>1, <5>1
      <4>2. CASE i # m /\ i # 0
        <5>1. i \in 0..(m - 1) /\ i - 1 \in 0..(m - 1)
          BY <2>2, <4>2
        <5>2. g[i] = f[i] /\ f[i] = ApplyReport(f[i - 1], t, i) /\ g[i - 1] = f[i - 1]
          BY <3>4, <4>2, <5>1
        <5> QED
          BY <4>2, <5>2
      <4>3. CASE i # m /\ i = 0
        BY <2>2, <3>4, <4>3
      <4> QED
        BY <4>1, <4>2, <4>3
    <3>6. g = [i \in 0..m |-> g[i]]
      BY <3>3
    <3>7. P(g, m)
      BY <3>5, <3>6 DEF IsReports
    <3> QED
      BY <2>2, <3>7
  <2> QED
    BY <2>3, <2>4
<1>2. N \notin T
  BY <1>1
<1>3. \E f : P(f, N)
  BY <1>2
<1> QED
  BY <1>3

\* what the reports of a take make of the state
Final(t) == Reported(t)[Len(legs)]
AllOutcome(t, j) ==
  IF j \in t.mine /\ legs[j].coid = t.legs[j].coid
  THEN IF t.got[j] = 0 THEN "unfilled" ELSE "filled" ELSE legs[j].status

LEMMA ReportedTrue ==
  ASSUME NEW t, CoreTrue(State), Fits(State, t), Answered(t)
  PROVE  /\ CoreTrue(Final(t)) /\ Books(State, Final(t))
         /\ \A j \in DOMAIN legs : Final(t).legs[j].status = AllOutcome(t, j)
<1>1. PICK N : N = Len(legs)
  OBVIOUS
<1>2. N \in Nat /\ DOMAIN legs = 1..N /\ State.legs = legs
  BY <1>1 DEF CoreTrue, CoreSound, CoreShape, State
<1>3. Reported(t) = CHOOSE f : IsReports(f, N, t)
  BY <1>1 DEF Reported, IsReports
<1>4. PICK f : f = CHOOSE g : IsReports(g, N, t)
  OBVIOUS
<1>5. IsReports(f, N, t)
  BY <1>2, <1>4, ReportsExist
<1>6. \A k \in 0..N : f[k] = IF k = 0 THEN State ELSE ApplyReport(f[k - 1], t, k)
  BY <1>5 DEF IsReports
<1> DEFINE Good(m) == /\ CoreTrue(f[m]) /\ Books(State, f[m])
                      /\ \A j \in DOMAIN legs : f[m].legs[j].status =
                           IF j <= m THEN AllOutcome(t, j) ELSE legs[j].status
           T == {m \in 0..N : ~Good(m)}
<1>7. ASSUME T # {} PROVE FALSE
  <2>1. PICK m \in T : \A k \in T : m <= k
    <3>1. T \in SUBSET Nat
      OBVIOUS
    <3> HIDE DEF T
    <3> QED
      BY <1>7, <3>1, LeastNatural
  <2>2. m \in 0..N /\ ~Good(m)
    BY <2>1
  <2>3. CASE m = 0
    <3>1. f[0] = State
      BY <1>2, <1>6
    <3>2. Books(State, State)
      BY DEF Books
    <3>3. \A j \in DOMAIN legs : ~(j <= 0)
      BY <1>2
    <3>4. Good(0)
      BY <1>2, <3>1, <3>2, <3>3
    <3> QED
      BY <2>2, <2>3, <3>4
  <2>4. CASE m # 0
    <3>1. m - 1 \in 0..N /\ m - 1 \notin T /\ m \in Nat /\ m \in DOMAIN legs
      <4> HIDE DEF T
      <4> QED
        BY <1>2, <2>1, <2>2, <2>4
    <3>2. PICK p : p = f[m - 1]
      OBVIOUS
    <3>3. Good(m - 1)
      <4> HIDE DEF Good
      <4> QED
        BY <3>1
    <3>4. CoreTrue(p) /\ Books(State, p)
      BY <3>2, <3>3
    <3>5. PICK u : u = ApplyReport(p, t, m)
      OBVIOUS
    <3>6. f[m] = u
      BY <1>6, <2>2, <2>4, <3>2, <3>5
    <3>7. Fits(p, t)
      BY <3>4, BooksFits
    <3>8. /\ CoreTrue(u) /\ Books(p, u)
          /\ \A j \in DOMAIN p.legs : u.legs[j].status = Outcome(p, t, m, j)
      BY <3>1, <3>4, <3>5, <3>7, ReportTrue
    <3>9. Books(State, u)
      BY <3>4, <3>8, BooksOn
    <3>10. ASSUME NEW j \in DOMAIN legs
           PROVE  u.legs[j].status = IF j <= m THEN AllOutcome(t, j) ELSE legs[j].status
      <4>1. p.legs[j].status = IF j <= m - 1 THEN AllOutcome(t, j) ELSE legs[j].status
        BY <3>2, <3>3
      <4>2. DOMAIN p.legs = DOMAIN legs /\ p.legs[j].coid = legs[j].coid
        BY <1>2, <3>4 DEF Books
      <4>3. u.legs[j].status = Outcome(p, t, m, j)
        BY <3>8, <4>2
      <4>4. j \in Nat /\ m \in Nat
        BY <1>2, <3>1
      <4>5. CASE j = m
        <5>1. ~(j <= m - 1) /\ j <= m
          BY <4>4, <4>5
        <5>2. Outcome(p, t, m, j) = AllOutcome(t, j)
          BY <4>1, <4>2, <4>5, <5>1 DEF Outcome, AllOutcome
        <5> QED
          BY <4>3, <5>1, <5>2
      <4>6. CASE j # m
        <5>1. j <= m - 1 <=> j <= m
          BY <4>4, <4>6
        <5>2. Outcome(p, t, m, j) = p.legs[j].status
          BY <4>6 DEF Outcome
        <5> QED
          BY <4>1, <4>3, <5>1, <5>2
      <4> QED
        BY <4>5, <4>6
    <3>11. Good(m)
      BY <3>6, <3>8, <3>9, <3>10
    <3> QED
      BY <2>2, <3>11
  <2> QED
    BY <2>3, <2>4
<1>8. N \notin T /\ N \in 0..N
  BY <1>2, <1>7
<1>9. Good(N)
  BY <1>8
<1>10. Final(t) = f[N]
  BY <1>1, <1>3, <1>4 DEF Final
<1>11. \A j \in DOMAIN legs : j <= N
  BY <1>2
<1> QED
  BY <1>9, <1>10, <1>11

-----------------------------------------------------------------------------
(* The steps of the core, seen from the executor *)

\* legs stay what they are for the takes that hold them
Keeps(s, t) ==
  /\ s.coid_seq <= t.coid_seq
  /\ DOMAIN s.batches \subseteq DOMAIN t.batches /\ DOMAIN s.legs \subseteq DOMAIN t.legs
  /\ \A i \in DOMAIN s.batches : t.batches[i].Sd = s.batches[i].Sd
  /\ \A k \in DOMAIN s.legs :
       /\ Key(t.legs[k]) = Key(s.legs[k]) /\ t.legs[k].count = s.legs[k].count
       /\ t.legs[k].coid = s.legs[k].coid \/ t.legs[k].coid > s.coid_seq
  /\ \A k \in DOMAIN t.legs \ DOMAIN s.legs :
       t.legs[k].coid = None \/ t.legs[k].coid > s.coid_seq

LEMMA GrowsKeeps == ASSUME NEW s, NEW t, Grows(s, t) PROVE Keeps(s, t)
BY DEF Grows, Keeps

LEMMA BooksKeeps ==
  ASSUME NEW s, NEW t, CoreSound(s), Books(s, t) PROVE Keeps(s, t)
<1>1. s.coid_seq \in Nat
  BY DEF CoreSound, CoreShape
<1> QED
  BY <1>1 DEF Books, Keeps

LEMMA FitsOn ==
  ASSUME NEW s, NEW t, NEW u, CoreSound(s), CoreSound(t), Fits(s, u), Keeps(s, t)
  PROVE  Fits(t, u)
<1>1. s.coid_seq \in Nat /\ t.coid_seq \in Nat /\ s.coid_seq <= t.coid_seq
  BY DEF CoreSound, CoreShape, Keeps
<1>2. \A j \in DOMAIN t.legs : t.legs[j].coid \in Nat
  <2>1. \A j \in DOMAIN t.legs : t.legs[j] \in Leg
    BY DEF CoreSound, CoreShape
  <2> QED
    BY <2>1 DEF Leg
<1>3. ASSUME NEW k \in DOMAIN u.legs
      PROVE  /\ k \in DOMAIN t.legs /\ Key(u.legs[k]) = Key(t.legs[k])
             /\ u.legs[k].count = t.legs[k].count /\ u.legs[k].coid \in 1..t.coid_seq
             /\ \A j \in DOMAIN t.legs : t.legs[j].coid = u.legs[k].coid => j = k
  <2>1. k \in DOMAIN s.legs /\ Key(u.legs[k]) = Key(s.legs[k])
        /\ u.legs[k].count = s.legs[k].count /\ u.legs[k].coid \in 1..s.coid_seq
        /\ \A j \in DOMAIN s.legs : s.legs[j].coid = u.legs[k].coid => j = k
    BY DEF Fits
  <2>2. u.legs[k].coid \in 1..t.coid_seq
    BY <1>1, <2>1
  <2>3. ASSUME NEW j \in DOMAIN t.legs, t.legs[j].coid = u.legs[k].coid PROVE j = k
    <3>1. ~(t.legs[j].coid > s.coid_seq) /\ t.legs[j].coid # 0
      BY <1>1, <1>2, <2>1, <2>3
    <3>2. j \in DOMAIN s.legs
      BY <3>1 DEF Keeps, None
    <3>3. s.legs[j].coid = u.legs[k].coid
      BY <2>3, <3>1, <3>2 DEF Keeps
    <3> QED
      BY <2>1, <3>2, <3>3
  <2> QED
    BY <2>1, <2>2, <2>3 DEF Keeps
<1>4. u.mine \subseteq DOMAIN u.legs
  BY DEF Fits
<1> QED
  BY <1>3, <1>4 DEF Fits

\* The state that a decision hands over is the next state.
LEMMA CoreHanded ==
  ASSUME NEW s, CoreTrue(s), group' = s.group, batches' = s.batches, legs' = s.legs,
         coid_seq' = s.coid_seq, wing_filled' = wing_filled
  PROVE  CoreTrue(State)'
<1>1. PICK u : u = State'
  OBVIOUS
<1>2. u = [group |-> s.group, batches |-> s.batches, legs |-> s.legs, coid_seq |-> s.coid_seq,
           out |-> FALSE]
  BY <1>1 DEF State
<1>3. CoreSound(u)
  <2>1. CoreShape(u)
    BY <1>2 DEF CoreTrue, CoreSound, CoreShape
  <2>2. \A k \in DOMAIN u.legs : LegSound(u, k)
    BY <1>2 DEF CoreTrue, CoreSound, LegSound
  <2>3. Alone(u)
    BY <1>2 DEF CoreTrue, CoreSound, Alone
  <2> QED
    BY <2>1, <2>2, <2>3 DEF CoreSound
<1>4. Covered(u)
  BY <1>2 DEF CoreTrue, Covered
<1>5. Balanced(u)
  <2>1. u.legs = s.legs /\ u.batches = s.batches
    BY <1>2
  <2>2. \A mkt : OnMarketOf(u, mkt) = OnMarketOf(s, mkt)
    BY <2>1 DEF OnMarketOf, MarketOf
  <2>3. \A mkt : Netted(u, mkt) = Netted(s, mkt)
    BY <2>1, <2>2 DEF Netted
  <2>4. Balanced(s)
    BY DEF CoreTrue
  <2> QED
    BY <2>3, <2>4 DEF Balanced
<1>6. CoreSound(State)' /\ Balanced(State)'
  BY <1>1, <1>3, <1>5
<1>7. Covered(State)'
  BY <1>1, <1>4 DEF Covered, Key
<1> QED
  BY <1>6, <1>7 DEF CoreTrue

-----------------------------------------------------------------------------
(* The executor: what is read as bought, and what was bought *)

TakeSound(n) ==
  LET t == takes[n]
  IN /\ Fits(State, t) /\ t.got \in [DOMAIN t.legs -> Nat]
     /\ t.lost \subseteq t.mine /\ (t.lost # {} => t.stage = "confirming" /\ Lossy)
     /\ t.stage \in {"dispatched", "sending"} => \A k \in DOMAIN t.legs : t.got[k] = 0
     /\ t.stage = "returned" => Answered(t)

\* a take that has sent its orders and has not counted what they bought
Working(n) == takes[n].stage \in {"sent", "confirming"}

\* an order is of a take that was sent, and of one of its legs
OrderSound(o) ==
  /\ o.take \in DOMAIN takes /\ takes[o.take].stage \notin {"dispatched", "sending"}
  /\ \E k \in DOMAIN legs : o.leg = Key(legs[k]) /\ o.market = Market(legs[k])
  /\ Working(o.take) => o.leg \in KeysOf(o.take)
  /\ takes[o.take].stage = "sent" => o \notin known

Ours(x) == {o \in orders : o.leg = x}
Read(x) == {o \in known : o.leg = x}
Own(n, x) == {o \in orders : o.take = n /\ o.leg = x}
Unread(n, x) == {o \in orders \ known : o.take = n /\ o.leg = x}

Chunk(n, l, c) == [take |-> n, leg |-> Key(l), market |-> Market(l), chunk |-> c]

\* no more than the lots of a leg are counted or bought, but for what was missed
Bounded(k) ==
  LET x == Key(legs[k])
  IN wing_filled[x] <= legs[k].count /\ Cardinality(Ours(x)) <= legs[k].count + missed

\* what is counted has been read, and what was bought is counted
Settled(x) ==
  /\ Cardinality(Read(x)) >= wing_filled[x]
  /\ Cardinality(Ours(x)) <= wing_filled[x] + missed

\* the same of a leg of a take under way, with what the take is about to count
Worked(n, k) ==
  LET t == takes[n]
      l == t.legs[k]
      x == Key(l)
      g == t.got[k]
  IN /\ wing_filled[x] + g <= l.count
     /\ Cardinality(Read(x)) >= wing_filled[x] + (IF t.stage = "sent" THEN 0 ELSE g)
     /\ Cardinality(Ours(x)) <=
          wing_filled[x] + g + (IF k \in t.lost THEN Cardinality(Unread(n, x)) ELSE 0) + missed
     /\ t.stage = "sent" => Own(n, x) = { Chunk(n, l, c) : c \in 1..g }

Held(x) == \E n \in DOMAIN takes : Working(n) /\ x \in KeysOf(n)

Counted ==
  /\ wing_filled \in [Keys -> Nat] /\ missed \in Nat /\ (~Lossy => missed = 0)
  /\ IsFiniteSet(orders) /\ known \subseteq orders
  /\ \A o \in orders : OrderSound(o)
  /\ \A k \in DOMAIN legs : Bounded(k)
  /\ \A x \in Keys : ~Held(x) => Settled(x)
  /\ \A n \in DOMAIN takes : Working(n) => \A k \in takes[n].mine : Worked(n, k)

CoreFits == CoreTrue(State) /\ Len(batches) <= MaxBatches

\* The legs of the state and of a take go by keys of the executor's table.
LEMMA LegKeys ==
  ASSUME NEW s, CoreSound(s), Len(s.batches) <= MaxBatches
  PROVE  /\ \A k \in DOMAIN s.legs :
              /\ Key(s.legs[k]) \in Keys /\ s.legs[k].count \in Nat
              /\ s.legs[k].batch \in DOMAIN s.batches /\ s.legs[k].side \in Sides
         /\ \A j, k \in DOMAIN s.legs : Key(s.legs[j]) = Key(s.legs[k]) => j = k
<1>1. /\ s.batches \in Seq(Batch) /\ s.legs \in Seq(Leg)
      /\ \A k \in DOMAIN s.legs : s.legs[k].batch \in DOMAIN s.batches
      /\ \A j, k \in DOMAIN s.legs : j # k => Key(s.legs[j]) # Key(s.legs[k])
  BY DEF CoreSound, CoreShape, LegSound, Alone
<1>2. DOMAIN s.batches = 1..Len(s.batches) /\ Len(s.batches) \in Nat
  BY <1>1
<1>3. ASSUME NEW k \in DOMAIN s.legs
      PROVE  Key(s.legs[k]) \in Keys /\ s.legs[k].count \in Nat /\ s.legs[k].side \in Sides
  <2>1. s.legs[k] \in Leg
    BY <1>1
  <2>2. s.legs[k].batch \in Nat /\ s.legs[k].count \in Nat /\ s.legs[k].side \in Sides
    BY <2>1 DEF Leg
  <2>3. s.legs[k].batch \in 1..MaxBatches
    BY <1>1, <1>2, <2>2, WingsAssumption
  <2> QED
    BY <2>2, <2>3 DEF Key, Keys
<1> QED
  BY <1>1, <1>3

\* A step that sends and reads nothing keeps the account.
LEMMA QuietKeeps ==
  ASSUME CoreFits, CoreFits', Keeps(State, State'), \A n \in DOMAIN takes : TakeSound(n),
         Counted, UNCHANGED <<wing_filled, known, orders, missed>>,
         DOMAIN takes \subseteq DOMAIN takes',
         \A n \in DOMAIN takes : /\ Working(n) => takes'[n] = takes[n]
                                 /\ takes[n].stage \notin {"dispatched", "sending"}
                                      => takes'[n].stage \notin {"dispatched", "sending"},
         \A n \in DOMAIN takes' : Working(n)' => n \in DOMAIN takes /\ Working(n)
  PROVE  Counted'
<1>a. /\ \A k \in DOMAIN legs : /\ Key(legs[k]) \in Keys /\ legs[k].count \in Nat
                                /\ legs[k].batch \in DOMAIN batches
      /\ \A j, k \in DOMAIN legs : Key(legs[j]) = Key(legs[k]) => j = k
  BY LegKeys DEF CoreFits, CoreTrue, State
<1>b. /\ \A k \in DOMAIN legs' : Key(legs'[k]) \in Keys /\ legs'[k].count \in Nat
      /\ \A j, k \in DOMAIN legs' : Key(legs'[j]) = Key(legs'[k]) => j = k
  <2>1. PICK s : s = State'
    OBVIOUS
  <2>2. CoreSound(s) /\ Len(s.batches) <= MaxBatches /\ s.legs = legs'
    <3>1. CoreSound(State)' /\ Len(batches') <= MaxBatches
      BY DEF CoreFits, CoreTrue
    <3> QED
      BY <2>1, <3>1 DEF State
  <2>3. /\ \A k \in DOMAIN s.legs : Key(s.legs[k]) \in Keys /\ s.legs[k].count \in Nat
        /\ \A j, k \in DOMAIN s.legs : Key(s.legs[j]) = Key(s.legs[k]) => j = k
    BY <2>2, LegKeys
  <2> QED
    BY <2>2, <2>3
<1>1. \A k \in DOMAIN legs : /\ k \in DOMAIN legs' /\ Key(legs'[k]) = Key(legs[k])
                             /\ legs'[k].count = legs[k].count /\ Market(legs[k])' = Market(legs[k])
  <2>1. \A k \in DOMAIN legs : /\ k \in DOMAIN legs' /\ Key(legs'[k]) = Key(legs[k])
                               /\ legs'[k].count = legs[k].count
    BY DEF Keeps, State
  <2>2. \A i \in DOMAIN batches : batches'[i].Sd = batches[i].Sd
    BY DEF Keeps, State
  <2> QED
    BY <1>a, <2>1, <2>2 DEF Market, Key
<1>2. \A n \in DOMAIN takes : Working(n) => /\ n \in DOMAIN takes' /\ takes'[n] = takes[n]
                                            /\ Working(n)' /\ KeysOf(n)' = KeysOf(n)
  BY DEF Working, KeysOf, Key
<1>3. \A n \in DOMAIN takes' : Working(n)' => /\ n \in DOMAIN takes /\ takes'[n] = takes[n]
                                             /\ Working(n) /\ KeysOf(n)' = KeysOf(n)
  BY <1>2
<1>4. \A x : /\ Held(x)' <=> Held(x)
             /\ Ours(x)' = Ours(x) /\ Read(x)' = Read(x)
  BY <1>2, <1>3 DEF Held, Ours, Read
<1>5. \A x \in Keys : (~Held(x))' => Settled(x)'
  <2>1. ASSUME NEW x \in Keys, ~Held(x)' PROVE Settled(x)'
    BY <1>4, <2>1 DEF Counted, Settled
  <2> QED
    BY <2>1
<1>6. \A o \in orders : OrderSound(o)'
  <2>1. ASSUME NEW o \in orders PROVE OrderSound(o)'
    <3>1. OrderSound(o)
      BY DEF Counted
    <3>2. o.take \in DOMAIN takes' /\ takes'[o.take].stage \notin {"dispatched", "sending"}
      BY <3>1 DEF OrderSound
    <3>3. \E k \in DOMAIN legs' : o.leg = Key(legs'[k]) /\ o.market = Market(legs[k])'
      BY <1>1, <3>1 DEF OrderSound
    <3>4. Working(o.take)' => o.leg \in KeysOf(o.take)'
      BY <1>3, <3>1, <3>2 DEF OrderSound
    <3>5. takes'[o.take].stage = "sent" => o \notin known'
      BY <1>3, <3>1, <3>2 DEF OrderSound, Working
    <3> QED
      BY <3>2, <3>3, <3>4, <3>5 DEF OrderSound, Key
  <2> QED
    BY <2>1
<1>7. ASSUME NEW n \in DOMAIN takes', Working(n)', NEW k \in takes'[n].mine PROVE Worked(n, k)'
  <2>1. Worked(n, k) /\ takes'[n] = takes[n] /\ n \in DOMAIN takes
    BY <1>3, <1>7 DEF Counted
  <2>5. PICK l, x, g, own : /\ l = takes[n].legs[k] /\ x = Key(l) /\ g = takes[n].got[k]
                            /\ own = { Chunk(n, l, c) : c \in 1..g }
    OBVIOUS
  <2>6. Key(l)' = x /\ Ours(x)' = Ours(x) /\ Read(x)' = Read(x) /\ Own(n, x)' = Own(n, x)
        /\ Unread(n, x)' = Unread(n, x) /\ own = { Chunk(n, l, c)' : c \in 1..g }
    <3>1. Own(n, x)' = Own(n, x) /\ Unread(n, x)' = Unread(n, x)
      BY DEF Own, Unread
    <3>2. \A c : Chunk(n, l, c)' = Chunk(n, l, c)
      <4>1. Market(l)' = Market(l)
        <5>1. l.batch \in DOMAIN batches
          <6>1. k \in DOMAIN legs /\ Key(l) = Key(legs[k])
            BY <2>1, <2>5 DEF TakeSound, Fits, State
          <6> QED
            BY <1>a, <6>1 DEF Key
        <5> QED
          BY <5>1 DEF Market, Keeps, State
      <4> QED
        BY <4>1 DEF Chunk, Key
    <3>3. Key(l)' = x
      BY <2>5 DEF Key
    <3> QED
      BY <1>4, <2>5, <3>1, <3>2, <3>3
  <2>7. /\ wing_filled[x] + g <= l.count
        /\ Cardinality(Read(x)) >= wing_filled[x] + (IF takes[n].stage = "sent" THEN 0 ELSE g)
        /\ Cardinality(Ours(x)) <= wing_filled[x] + g
             + (IF k \in takes[n].lost THEN Cardinality(Unread(n, x)) ELSE 0) + missed
        /\ takes[n].stage = "sent" => Own(n, x) = own
    BY <2>1, <2>5 DEF Worked
  <2>8. /\ (wing_filled[x] + g <= l.count)'
        /\ (Cardinality(Read(x)) >= wing_filled[x] + (IF takes[n].stage = "sent" THEN 0 ELSE g))'
        /\ (Cardinality(Ours(x)) <= wing_filled[x] + g
             + (IF k \in takes[n].lost THEN Cardinality(Unread(n, x)) ELSE 0) + missed)'
        /\ (takes[n].stage = "sent" => Own(n, x) = own)'
    BY <2>1, <2>6, <2>7
  <2>9. l = takes'[n].legs[k] /\ x = Key(l)' /\ g = takes'[n].got[k] /\ own = { Chunk(n, l, c)' : c \in 1..g }
    BY <2>1, <2>5, <2>6
  <2> QED
    BY <2>8, <2>9 DEF Worked
<1>8. ASSUME NEW k \in DOMAIN legs' PROVE Bounded(k)'
  <2>1. CASE k \in DOMAIN legs
    <3>1. Bounded(k)
      BY <2>1 DEF Counted
    <3> QED
      BY <1>1, <1>4, <2>1, <3>1 DEF Bounded, Key
  <2>2. CASE k \notin DOMAIN legs
    <3>1. PICK x \in Keys : x = Key(legs'[k])
      BY <1>b
    <3>2. \A j \in DOMAIN legs : Key(legs[j]) # x
      BY <2>2, <3>1, <1>1, <1>b
    <3>3. Ours(x) = {} /\ Read(x) = {}
      BY <3>2 DEF Ours, Read, Counted, OrderSound
    <3>4. ~Held(x)
      BY <3>2 DEF Held, KeysOf, TakeSound, Fits, State
    <3>5. Settled(x) /\ wing_filled[x] \in Nat /\ missed \in Nat
      BY <3>1, <3>4 DEF Counted
    <3>6. wing_filled[x] = 0
      <4>1. Cardinality({}) = 0
        BY FS_EmptySet
      <4>2. 0 >= wing_filled[x]
        BY <3>3, <3>5, <4>1 DEF Settled
      <4> QED
        BY <3>5, <4>2
    <3>7. legs'[k].count \in Nat
      BY <1>b
    <3>8. Cardinality(Ours(x)') = 0
      BY <1>4, <3>3, FS_EmptySet
    <3>9. wing_filled'[x] <= legs'[k].count /\ Cardinality(Ours(x)') <= legs'[k].count + missed'
      BY <3>5, <3>6, <3>7, <3>8
    <3> QED
      BY <3>1, <3>9 DEF Bounded, Key
  <2> QED
    BY <2>1, <2>2
<1> QED
  BY <1>5, <1>6, <1>7, <1>8 DEF Counted

Fields == {"stage", "legs", "mine", "got", "lost"}

\* takes is a sequence of take records
TakesShape ==
  /\ \E S : takes \in Seq(S)
  /\ \A n \in DOMAIN takes : DOMAIN takes[n] = Fields

\* what a take under way works on is marked as in flight
ClaimsMarked == \A n \in DOMAIN takes : Active(n) => KeysOf(n) \subseteq inflight

Inv == TakesShape /\ ClaimsMarked /\ OneOrderPerLeg

\* A new take is not under way yet.
LEMMA DispatchKeeps ==
  ASSUME NEW s, Inv, _pump_async(s), inflight' = inflight
  PROVE  Inv'
<1> DEFINE e == Dispatched(s)
<1>1. CASE takes' = takes
  BY <1>1 DEF Inv, TakesShape, ClaimsMarked, OneOrderPerLeg, Active, KeysOf, Key
<1>2. CASE takes' = Append(takes, e)
  <2>1. PICK S : takes \in Seq(S)
    BY DEF Inv, TakesShape
  <2>2. takes \in Seq(S \cup {e}) /\ e \in S \cup {e}
    BY <2>1
  <2>3. DOMAIN e = Fields /\ e.stage = "dispatched"
    BY DEF Dispatched, Fields
  <2> HIDE DEF e
  <2>4. /\ takes' \in Seq(S \cup {e})
        /\ DOMAIN takes = 1..Len(takes) /\ Len(takes) \in Nat
        /\ DOMAIN takes' = 1..(Len(takes) + 1)
        /\ \A n \in DOMAIN takes : takes'[n] = takes[n]
        /\ takes'[Len(takes) + 1] = e
    BY <2>2, <1>2
  <2>5. \A n \in DOMAIN takes' : n \in DOMAIN takes \/ n = Len(takes) + 1
    BY <2>4
  <2>6. \A n \in DOMAIN takes' : DOMAIN takes'[n] = Fields
    BY <2>3, <2>4, <2>5 DEF Inv, TakesShape
  <2>7. \A n \in DOMAIN takes' :
          Active(n)' => n \in DOMAIN takes /\ Active(n) /\ KeysOf(n)' = KeysOf(n)
    BY <2>3, <2>4, <2>5 DEF Active, KeysOf, Key
  <2> QED
    BY <2>4, <2>6, <2>7 DEF Inv, TakesShape, ClaimsMarked, OneOrderPerLeg
<1> QED
  BY <1>1, <1>2 DEF _pump_async

\* A take that is not under way afterwards releases at most its own claims.
LEMMA EndKeeps ==
  ASSUME Inv, NEW n \in DOMAIN takes, NEW e, DOMAIN e = Fields,
         takes' = [takes EXCEPT ![n] = e],
         e.stage \notin {"sending", "sent", "confirming"},
         \/ inflight' = inflight
         \/ Active(n) /\ inflight' = inflight \ KeysOf(n)
  PROVE  Inv'
<1>1. PICK S : takes \in Seq(S)
  BY DEF Inv, TakesShape
<1>2. takes \in Seq(S \cup {e}) /\ e \in S \cup {e}
  BY <1>1
<1>3. /\ takes' \in Seq(S \cup {e}) /\ DOMAIN takes' = DOMAIN takes /\ takes'[n] = e
      /\ \A m \in DOMAIN takes : m # n => takes'[m] = takes[m]
  BY <1>2
<1>4. \A m \in DOMAIN takes : Active(m)' => m # n /\ Active(m) /\ KeysOf(m)' = KeysOf(m)
  BY <1>3 DEF Active, KeysOf, Key
<1>5. \A m \in DOMAIN takes' : DOMAIN takes'[m] = Fields
  BY <1>3 DEF Inv, TakesShape
<1>6. \A m \in DOMAIN takes : Active(m)' => KeysOf(m) \subseteq inflight'
  BY <1>4 DEF Inv, ClaimsMarked, OneOrderPerLeg
<1> QED
  BY <1>3, <1>4, <1>5, <1>6 DEF Inv, TakesShape, ClaimsMarked, OneOrderPerLeg

\* A take that is under way and stays so keeps its legs and its claims.
LEMMA AdvanceKeeps ==
  ASSUME Inv, NEW n \in DOMAIN takes, NEW e, DOMAIN e = Fields,
         takes' = [takes EXCEPT ![n] = e],
         Active(n), e.legs = takes[n].legs, e.mine = takes[n].mine,
         inflight' = inflight
  PROVE  Inv'
<1>1. PICK S : takes \in Seq(S)
  BY DEF Inv, TakesShape
<1>2. takes \in Seq(S \cup {e}) /\ e \in S \cup {e}
  BY <1>1
<1>3. /\ takes' \in Seq(S \cup {e}) /\ DOMAIN takes' = DOMAIN takes /\ takes'[n] = e
      /\ \A m \in DOMAIN takes : m # n => takes'[m] = takes[m]
  BY <1>2
<1>4. \A m \in DOMAIN takes : Active(m)' => Active(m) /\ KeysOf(m)' = KeysOf(m)
  BY <1>3 DEF Active, KeysOf, Key
<1>5. \A m \in DOMAIN takes' : DOMAIN takes'[m] = Fields
  BY <1>3 DEF Inv, TakesShape
<1> QED
  BY <1>3, <1>4, <1>5 DEF Inv, TakesShape, ClaimsMarked, OneOrderPerLeg

\* A take claims only legs that no take has in flight.
LEMMA ClaimKeeps ==
  ASSUME Inv, NEW n \in DOMAIN takes, Claim(n)
  PROVE  Inv'
<1> DEFINE ks == Unclaimed(n)
           e == [takes[n] EXCEPT !.stage = "sending", !.mine = ks]
           claims == { Key(takes[n].legs[k]) : k \in ks }
<1>1. CASE takes' = [takes EXCEPT ![n] = Done] /\ inflight' = inflight
  BY <1>1, EndKeeps DEF Done, Fields
<1>2. CASE takes' = [takes EXCEPT ![n] = e] /\ inflight' = inflight \cup claims
  <2>0. DOMAIN takes[n] = Fields
    BY DEF Inv, TakesShape
  <2>1. DOMAIN e = Fields /\ e.legs = takes[n].legs /\ e.mine = ks
    BY <2>0 DEF Fields
  <2>2. claims \cap inflight = {}
    BY DEF Unclaimed
  <2> HIDE DEF e
  <2>3. PICK S : takes \in Seq(S)
    BY DEF Inv, TakesShape
  <2>4. takes \in Seq(S \cup {e}) /\ e \in S \cup {e}
    BY <2>3
  <2>5. /\ takes' \in Seq(S \cup {e}) /\ DOMAIN takes' = DOMAIN takes /\ takes'[n] = e
        /\ \A m \in DOMAIN takes : m # n => takes'[m] = takes[m]
    BY <2>4, <1>2
  <2>6. KeysOf(n)' = claims
    BY <2>1, <2>5 DEF KeysOf, Key
  <2>7. \A m \in DOMAIN takes : m # n /\ Active(m)' => Active(m) /\ KeysOf(m)' = KeysOf(m)
    BY <2>5 DEF Active, KeysOf, Key
  <2>8. \A m \in DOMAIN takes' : DOMAIN takes'[m] = Fields
    BY <2>1, <2>5 DEF Inv, TakesShape
  <2> HIDE DEF claims
  <2>9. ClaimsMarked'
    BY <1>2, <2>5, <2>6, <2>7 DEF Inv, ClaimsMarked
  <2>10. \A m \in DOMAIN takes : m # n /\ Active(m)' => KeysOf(m)' \cap claims = {}
    BY <2>2, <2>7 DEF Inv, ClaimsMarked
  <2>11. OneOrderPerLeg'
    BY <2>5, <2>6, <2>7, <2>10 DEF Inv, OneOrderPerLeg
  <2> QED
    BY <2>5, <2>8, <2>9, <2>11 DEF Inv, TakesShape
<1> QED
  BY <1>1, <1>2 DEF Claim, ClaimLegs

-----------------------------------------------------------------------------

\* Every step keeps the invariant.
LEMMA NextKeeps == Inv /\ [Next]_vars => Inv'
<1> SUFFICES ASSUME Inv, [Next]_vars PROVE Inv'
  OBVIOUS
<1>a. \A n \in DOMAIN takes : DOMAIN takes[n] = Fields
  BY DEF Inv, TakesShape
<1>b. DOMAIN Done = Fields /\ Done.stage = "done"
  BY DEF Done, Fields
<1>1. ASSUME takes' = takes, inflight' = inflight PROVE Inv'
  BY <1>1 DEF Inv, TakesShape, ClaimsMarked, OneOrderPerLeg, Active, KeysOf, Key
<1>2. ASSUME NEW Sd, NEW n, NEW now, _book_rung_fill(Sd, n, now) PROVE Inv'
  BY <1>2, DispatchKeeps DEF _book_rung_fill, executor
<1>3. ASSUME NEW now, on_tick(now) PROVE Inv'
  BY <1>3, DispatchKeeps DEF on_tick, executor
<1>4. CASE Cutoff
  BY <1>1, <1>4 DEF Cutoff, executor
<1>5. CASE BackoffEnds
  BY <1>1, <1>5 DEF BackoffEnds
<1>6. ASSUME NEW n \in DOMAIN takes, BackoffSkip(n) PROVE Inv'
  <2> DEFINE e == [takes[n] EXCEPT !.stage = "returned", !.mine = DOMAIN takes[n].legs]
  <2>1. takes' = [takes EXCEPT ![n] = e] /\ inflight' = inflight
    BY <1>6 DEF BackoffSkip, executor
  <2>2. DOMAIN e = Fields /\ e.stage = "returned"
    BY <1>a DEF Fields
  <2> QED
    BY <2>1, <2>2, EndKeeps
<1>7. ASSUME NEW n \in DOMAIN takes, TakeReturns(n) PROVE Inv'
  <2>1. PICK got : takes' = [takes EXCEPT ![n].stage = "returned", ![n].got = got]
    BY <1>7 DEF TakeReturns, Returns
  <2> DEFINE e == [takes[n] EXCEPT !.stage = "returned", !.got = got]
  <2>2. takes' = [takes EXCEPT ![n] = e]
    BY <2>1
  <2>3. DOMAIN e = Fields /\ e.stage = "returned"
    BY <1>a DEF Fields
  <2>4. Active(n) /\ inflight' = inflight \ KeysOf(n)
    BY <1>7 DEF TakeReturns, Returns, Stage, Active, KeysOf
  <2> HIDE DEF e
  <2> QED
    BY <2>2, <2>3, <2>4, EndKeeps
<1>8. ASSUME NEW n \in DOMAIN takes, _ingest_async(n) PROVE Inv'
  <2>1. takes' = [takes EXCEPT ![n] = Done] /\ inflight' = inflight
    BY <1>8 DEF _ingest_async, executor
  <2> QED
    BY <1>b, <2>1, EndKeeps
<1>9. ASSUME NEW n \in DOMAIN takes, NEW buys, NEW limited, Execute(n, buys, limited) PROVE Inv'
  <2> DEFINE e == [takes[n] EXCEPT !.stage = "sent", !.got = buys]
  <2>1. takes' = [takes EXCEPT ![n] = e] /\ inflight' = inflight /\ Active(n)
    BY <1>9 DEF Execute, Stage, Active
  <2>2. DOMAIN e = Fields /\ e.legs = takes[n].legs /\ e.mine = takes[n].mine
    BY <1>a DEF Fields
  <2> HIDE DEF e
  <2> QED
    BY <2>1, <2>2, AdvanceKeeps
<1>10. ASSUME NEW n \in DOMAIN takes, NEW read, NEW lost, _take_wings_send(n, read, lost) PROVE Inv'
  <2> DEFINE e == [takes[n] EXCEPT !.stage = "confirming", !.lost = lost, !.got = read]
  <2>1. takes' = [takes EXCEPT ![n] = e] /\ inflight' = inflight /\ Active(n)
    BY <1>10 DEF _take_wings_send, Stage, Active
  <2>2. DOMAIN e = Fields /\ e.legs = takes[n].legs /\ e.mine = takes[n].mine
    BY <1>a DEF Fields
  <2> HIDE DEF e
  <2> QED
    BY <2>1, <2>2, AdvanceKeeps
<1>11. ASSUME NEW n \in DOMAIN takes, NEW k, NEW answer, NEW room, Confirm(n, k, answer, room) PROVE Inv'
  <2> DEFINE e == [takes[n] EXCEPT !.lost = @ \ {k}, !.got[k] = @ + Min({Cardinality(answer), room})]
  <2>1. takes' = [takes EXCEPT ![n] = e] /\ inflight' = inflight /\ Active(n)
    BY <1>11 DEF Confirm, Stage, Active
  <2>2. DOMAIN e = Fields /\ e.legs = takes[n].legs /\ e.mine = takes[n].mine
    BY <1>a DEF Fields
  <2> HIDE DEF e
  <2> QED
    BY <2>1, <2>2, AdvanceKeeps
<1>12. ASSUME NEW n \in DOMAIN takes, NEW k, _venue_wing_fills_async(n, k) \/ ConfirmGetFailed(n, k)
       PROVE  Inv'
  BY <1>11, <1>12 DEF _venue_wing_fills_async, ConfirmGetFailed
<1>13. CASE UNCHANGED vars
  BY <1>1, <1>13 DEF vars, executor
<1> QED
  BY <1>2, <1>3, <1>4, <1>5, <1>6, <1>7, <1>8, <1>9, <1>10, <1>12, <1>13, ClaimKeeps DEF Next

\* In every behaviour no two takes have an order for the same leg in flight, whatever
\* the number of batches, takes, retries and lost or rate-limited responses.
THEOREM OneOrderPerLegTheorem == Spec => []OneOrderPerLeg
<1>1. Init => Inv
  BY DEF Init, Inv, TakesShape, ClaimsMarked, OneOrderPerLeg
<1>2. Inv => OneOrderPerLeg
  BY DEF Inv
<1> QED
  BY <1>1, <1>2, NextKeeps, PTL DEF Spec

\* Distinct chunks are distinct orders.
LEMMA ChunksCount ==
  ASSUME NEW n, NEW l, NEW r \in Nat
  PROVE  /\ IsFiniteSet({Chunk(n, l, c) : c \in 1..r})
         /\ Cardinality({Chunk(n, l, c) : c \in 1..r}) = r
<1>1. PICK f : f = [c \in 1..r |-> Chunk(n, l, c)]
  OBVIOUS
<1>2. PICK T : T = {Chunk(n, l, c) : c \in 1..r}
  OBVIOUS
<1>3. \A c, d \in 1..r : Chunk(n, l, c) = Chunk(n, l, d) => c = d
  BY DEF Chunk
<1>4. f \in Bijection(1..r, T)
  <2>1. f \in [1..r -> T]
    BY <1>1, <1>2
  <2>2. \A c, d \in 1..r : f[c] = f[d] => c = d
    BY <1>1, <1>3
  <2>3. \A t \in T : \E c \in 1..r : f[c] = t
    BY <1>1, <1>2
  <2> QED
    BY <2>1, <2>2, <2>3 DEF Bijection, Injection, Surjection, IsInjective
<1>5. IsFiniteSet(1..r) /\ Cardinality(1..r) = r
  <2>1. 1 \in Int /\ r \in Int /\ (IF 1 > r THEN 0 ELSE r - 1 + 1) = r
    OBVIOUS
  <2> QED
    BY <2>1, FS_Interval
<1>6. ExistsBijection(1..r, T)
  BY <1>4 DEF ExistsBijection
<1> QED
  BY <1>2, <1>5, <1>6, FS_Bijection

Known == \A n \in DOMAIN takes : TakeSound(n)

Deep == Inv /\ CoreFits /\ Known /\ Counted

\* a step of the executor for take n
Acts(n, e) ==
  /\ n \in DOMAIN takes /\ UNCHANGED core /\ wing_filled' = wing_filled
  /\ takes' = [takes EXCEPT ![n] = e] /\ e.legs = takes[n].legs /\ e.mine = takes[n].mine

\* What the step of one take leaves alone.
LEMMA ActsFrame ==
  ASSUME Deep, NEW n, NEW e, Acts(n, e)
  PROVE  /\ CoreFits' /\ State' = State
         /\ DOMAIN takes' = DOMAIN takes /\ takes'[n] = e
         /\ \A m \in DOMAIN takes : KeysOf(m)' = KeysOf(m)
         /\ \A m \in DOMAIN takes : m # n => takes'[m] = takes[m] /\ TakeSound(m)'
         /\ \A l : Market(l)' = Market(l)
         /\ \A m, l, c : Chunk(m, l, c)' = Chunk(m, l, c)
<1>1. State' = State
  BY DEF Acts, core, State
<1>2. CoreFits'
  <2>1. PICK s : s = State
    OBVIOUS
  <2>2. CoreTrue(s) /\ group' = s.group /\ batches' = s.batches /\ legs' = s.legs
        /\ coid_seq' = s.coid_seq /\ wing_filled' = wing_filled
    BY <2>1 DEF Deep, CoreFits, Acts, core, State
  <2>3. CoreTrue(State)'
    BY <2>2, CoreHanded
  <2> QED
    BY <2>3 DEF Deep, CoreFits, Acts, core
<1>3. DOMAIN takes' = DOMAIN takes /\ takes'[n] = e /\ \A m \in DOMAIN takes : m # n => takes'[m] = takes[m]
  <2>1. \E S : takes \in Seq(S)
    BY DEF Deep, Inv, TakesShape
  <2> QED
    BY <2>1 DEF Acts
<1>4. \A m \in DOMAIN takes : takes'[m].legs = takes[m].legs /\ takes'[m].mine = takes[m].mine
  BY <1>3 DEF Acts
<1>5. \A m \in DOMAIN takes : KeysOf(m)' = KeysOf(m)
  BY <1>4 DEF KeysOf, Key
<1>6. \A l : Market(l)' = Market(l)
  BY DEF Market, Acts, core
<1>7. \A m, l, c : Chunk(m, l, c)' = Chunk(m, l, c)
  BY <1>6 DEF Chunk, Key
<1>8. ASSUME NEW m \in DOMAIN takes, m # n PROVE TakeSound(m)'
  <2>1. TakeSound(m) /\ takes'[m] = takes[m]
    BY <1>3, <1>8 DEF Deep, Known
  <2>2. \A u : Answered(u) <=> Answered(u)'
    BY DEF Answered, Acts, Key
  <2>3. PICK t : t = takes[m]
    OBVIOUS
  <2>4. Fits(State, t)'
    BY <1>1, <2>1, <2>3 DEF TakeSound
  <2> QED
    BY <2>1, <2>2, <2>3, <2>4 DEF TakeSound
<1> QED
  BY <1>1, <1>2, <1>3, <1>5, <1>6, <1>7, <1>8

\* Each leg of a take has a key of its own, which no other take under way has.
LEMMA OwnKeys ==
  ASSUME Deep, NEW n \in DOMAIN takes
  PROVE  /\ \A k \in DOMAIN takes[n].legs :
              /\ k \in DOMAIN legs /\ Key(takes[n].legs[k]) = Key(legs[k])
              /\ takes[n].legs[k].count = legs[k].count /\ Market(takes[n].legs[k]) = Market(legs[k])
              /\ Key(takes[n].legs[k]) \in Keys /\ takes[n].legs[k].count \in Nat
         /\ \A j, k \in DOMAIN takes[n].legs : Key(takes[n].legs[j]) = Key(takes[n].legs[k]) => j = k
         /\ takes[n].mine \subseteq DOMAIN takes[n].legs
         /\ \A m \in DOMAIN takes : m # n /\ Active(m) /\ Active(n) => KeysOf(m) \cap KeysOf(n) = {}
<1>1. Fits(State, takes[n])
  BY DEF Deep, Known, TakeSound
<1>2. /\ \A k \in DOMAIN legs : Key(legs[k]) \in Keys /\ legs[k].count \in Nat
      /\ \A j, k \in DOMAIN legs : Key(legs[j]) = Key(legs[k]) => j = k
  BY LegKeys DEF Deep, CoreFits, CoreTrue, State
<1>3. ASSUME NEW k \in DOMAIN takes[n].legs
      PROVE  /\ k \in DOMAIN legs /\ Key(takes[n].legs[k]) = Key(legs[k])
             /\ takes[n].legs[k].count = legs[k].count /\ Market(takes[n].legs[k]) = Market(legs[k])
             /\ Key(takes[n].legs[k]) \in Keys /\ takes[n].legs[k].count \in Nat
  <2>1. k \in DOMAIN legs /\ Key(takes[n].legs[k]) = Key(legs[k]) /\ takes[n].legs[k].count = legs[k].count
    BY <1>1 DEF Fits, State
  <2>2. takes[n].legs[k].batch = legs[k].batch /\ takes[n].legs[k].side = legs[k].side
    BY <2>1 DEF Key
  <2> QED
    BY <1>2, <2>1, <2>2 DEF Market
<1> QED
  BY <1>1, <1>2, <1>3 DEF Fits, Deep, Inv, OneOrderPerLeg

\* orders of legs that take n does not hold are neither bought nor read
Apart(n) ==
  /\ missed' \in Nat /\ missed' >= missed /\ IsFiniteSet(orders') /\ known' \subseteq orders'
  /\ \A o \in orders' \cup orders : o.leg \notin KeysOf(n) =>
       /\ o \in orders' <=> o \in orders
       /\ o \in known' <=> o \in known

\* The account of what take n does not hold is not touched.
LEMMA OthersKeep ==
  ASSUME Deep, NEW n, NEW e, Acts(n, e), Apart(n), Active(n), Working(n)'
  PROVE  /\ \A m \in DOMAIN takes : m # n /\ Working(m) => \A k \in takes[m].mine : Worked(m, k)'
         /\ \A x \in Keys : ~Held(x)' => Settled(x)'
         /\ \A k \in DOMAIN legs : Key(legs[k]) \notin KeysOf(n) => Bounded(k)'
<1>1. /\ CoreFits' /\ State' = State /\ DOMAIN takes' = DOMAIN takes /\ takes'[n] = e
      /\ \A m \in DOMAIN takes : KeysOf(m)' = KeysOf(m)
      /\ \A m \in DOMAIN takes : m # n => takes'[m] = takes[m]
      /\ \A m, l, c : Chunk(m, l, c)' = Chunk(m, l, c)
  BY ActsFrame
<1>2. /\ n \in DOMAIN takes /\ wing_filled' = wing_filled /\ legs' = legs
  BY DEF Acts, core
<1>3. /\ known \subseteq orders /\ known' \subseteq orders' /\ wing_filled \in [Keys -> Nat]
      /\ missed \in Nat /\ missed' \in Nat /\ missed' >= missed
      /\ IsFiniteSet(orders) /\ IsFiniteSet(orders')
  BY DEF Deep, Counted, Apart
<1>4. \A x : x \notin KeysOf(n) =>
        /\ Ours(x)' = Ours(x) /\ Read(x)' = Read(x)
        /\ \A m : Own(m, x)' = Own(m, x) /\ Unread(m, x)' = Unread(m, x)
  BY <1>3 DEF Apart, Ours, Read, Own, Unread
<1>5. \A x : Cardinality(Ours(x)) \in Nat /\ Cardinality(Read(x)) \in Nat
             /\ \A m : Cardinality(Unread(m, x)) \in Nat
  <2>1. \A x : Ours(x) \subseteq orders /\ Read(x) \subseteq orders /\ \A m : Unread(m, x) \subseteq orders
    BY <1>3 DEF Ours, Read, Unread
  <2> QED
    BY <1>3, <2>1, FS_Subset, FS_CardinalityType
<1>6. \A m \in DOMAIN takes : m # n => (Working(m)' <=> Working(m))
  BY <1>1 DEF Working
<1>7. \A m \in DOMAIN takes : m # n /\ Working(m) => KeysOf(m) \cap KeysOf(n) = {}
  BY <1>2, OwnKeys DEF Working, Active
<1>8. ASSUME NEW m \in DOMAIN takes, m # n, Working(m), NEW k \in takes[m].mine PROVE Worked(m, k)'
  <2>1. Worked(m, k) /\ takes'[m] = takes[m]
    BY <1>1, <1>8 DEF Deep, Counted
  <2>2. PICK l, x, g, own : /\ l = takes[m].legs[k] /\ x = Key(l) /\ g = takes[m].got[k]
                            /\ own = { Chunk(m, l, c) : c \in 1..g }
    OBVIOUS
  <2>3. x \notin KeysOf(n)
    BY <1>7, <1>8, <2>2 DEF KeysOf
  <2>4. /\ Ours(x)' = Ours(x) /\ Read(x)' = Read(x) /\ Own(m, x)' = Own(m, x)
        /\ Unread(m, x)' = Unread(m, x) /\ Key(l)' = x
    BY <1>4, <2>2, <2>3 DEF Key
  <2>5. own = { Chunk(m, l, c)' : c \in 1..g }
    BY <1>1, <2>2
  <2>6. x \in Keys /\ l.count \in Nat /\ g \in Nat
    <3>1. k \in DOMAIN takes[m].legs
      BY OwnKeys, <1>8
    <3>2. takes[m].got \in [DOMAIN takes[m].legs -> Nat]
      BY DEF Deep, Known, TakeSound
    <3> QED
      BY <2>2, <3>1, <3>2, OwnKeys
  <2>7. /\ wing_filled[x] + g <= l.count
        /\ Cardinality(Read(x)) >= wing_filled[x] + (IF takes[m].stage = "sent" THEN 0 ELSE g)
        /\ Cardinality(Ours(x)) <= wing_filled[x] + g
             + (IF k \in takes[m].lost THEN Cardinality(Unread(m, x)) ELSE 0) + missed
        /\ takes[m].stage = "sent" => Own(m, x) = own
    BY <2>1, <2>2 DEF Worked
  <2>8. Cardinality(Ours(x)) <= wing_filled[x] + g
             + (IF k \in takes[m].lost THEN Cardinality(Unread(m, x)) ELSE 0) + missed'
    <3>1. wing_filled[x] \in Nat /\ Cardinality(Ours(x)) \in Nat /\ Cardinality(Unread(m, x)) \in Nat
      BY <1>3, <1>5, <2>6
    <3>2. PICK z \in Nat : z = IF k \in takes[m].lost THEN Cardinality(Unread(m, x)) ELSE 0
      BY <3>1
    <3> QED
      BY <1>3, <2>6, <2>7, <3>1, <3>2
  <2>9. /\ (wing_filled[x] + g <= l.count)'
        /\ (Cardinality(Read(x)) >= wing_filled[x] + (IF takes[m].stage = "sent" THEN 0 ELSE g))'
        /\ (Cardinality(Ours(x)) <= wing_filled[x] + g
             + (IF k \in takes[m].lost THEN Cardinality(Unread(m, x)) ELSE 0) + missed)'
        /\ (takes[m].stage = "sent" => Own(m, x) = own)'
    BY <1>2, <2>1, <2>4, <2>7, <2>8
  <2>10. l = takes'[m].legs[k] /\ x = Key(l)' /\ g = takes'[m].got[k] /\ own = { Chunk(m, l, c)' : c \in 1..g }
    BY <2>1, <2>2, <2>4, <2>5
  <2> QED
    BY <2>9, <2>10 DEF Worked
<1>9. ASSUME NEW x \in Keys, ~Held(x)' PROVE Settled(x)'
  <2>1. x \notin KeysOf(n)
    BY <1>1, <1>2, <1>9 DEF Held
  <2>2. ~Held(x)
    BY <1>1, <1>6, <1>9, <2>1 DEF Held
  <2>3. Settled(x)
    BY <2>2 DEF Deep, Counted
  <2>4. wing_filled[x] \in Nat
    BY <1>3
  <2> QED
    BY <1>2, <1>3, <1>4, <1>5, <2>1, <2>3, <2>4 DEF Settled
<1>10. ASSUME NEW k \in DOMAIN legs, Key(legs[k]) \notin KeysOf(n) PROVE Bounded(k)'
  <2>1. Bounded(k)
    BY DEF Deep, Counted
  <2>2. PICK x : x = Key(legs[k])
    OBVIOUS
  <2>3. Ours(x)' = Ours(x) /\ Key(legs[k])' = x
    BY <1>2, <1>4, <1>10, <2>2 DEF Key
  <2>4. legs[k].count \in Nat
    BY LegKeys DEF Deep, CoreFits, CoreTrue, State
  <2>5. wing_filled[x] <= legs[k].count /\ Cardinality(Ours(x)) <= legs[k].count + missed
    BY <2>1, <2>2 DEF Bounded
  <2>6. Cardinality(Ours(x)) <= legs[k].count + missed'
    BY <1>3, <1>5, <2>4, <2>5
  <2> QED
    BY <1>2, <2>2, <2>3, <2>5, <2>6 DEF Bounded
<1> QED
  BY <1>8, <1>9, <1>10

LEMMA AccountKept ==
  ASSUME Deep, NEW n, NEW e, Acts(n, e), Apart(n), Active(n), Working(n)',
         \A k \in takes[n].mine : Worked(n, k)', \A o \in orders' : OrderSound(o)',
         \A k \in DOMAIN legs : Key(legs[k]) \in KeysOf(n) => Bounded(k)', ~Lossy => missed' = 0
  PROVE  Counted'
<1>1. /\ DOMAIN takes' = DOMAIN takes /\ takes'[n] = e /\ e.mine = takes[n].mine /\ legs' = legs
      /\ \A m \in DOMAIN takes : m # n => takes'[m] = takes[m]
      /\ wing_filled' = wing_filled
  BY ActsFrame DEF Acts, core
<1>2. \A m \in DOMAIN takes' : Working(m)' => \A k \in takes'[m].mine : Worked(m, k)'
  BY <1>1, OthersKeep DEF Working
<1>3. \A k \in DOMAIN legs' : Bounded(k)'
  BY <1>1, OthersKeep
<1>4. \A x \in Keys : ~Held(x)' => Settled(x)'
  BY OthersKeep
<1> QED
  BY <1>1, <1>2, <1>3, <1>4 DEF Counted, Apart, Deep

LEMMA FitsSame ==
  ASSUME NEW s, NEW t, NEW e, Fits(s, t), e.legs = t.legs, e.mine = t.mine
  PROVE  Fits(s, e)
BY DEF Fits

\* The step of a take leaves what it does not touch of its record sound.
LEMMA KnownKept ==
  ASSUME Deep, NEW n, NEW e, Acts(n, e), e.got \in [DOMAIN takes[n].legs -> Nat],
         e.lost \subseteq e.mine, e.lost # {} => e.stage = "confirming" /\ Lossy,
         e.stage \in {"sent", "confirming"}
  PROVE  Known'
<1>1. /\ DOMAIN takes' = DOMAIN takes /\ takes'[n] = e /\ State' = State
      /\ \A m \in DOMAIN takes : m # n => TakeSound(m)'
  BY ActsFrame
<1>2. PICK s : s = State
  OBVIOUS
<1>3. Fits(s, e)
  BY <1>2, FitsSame DEF Deep, Known, TakeSound, Acts
<1>4. Fits(State, e)'
  BY <1>1, <1>2, <1>3
<1>5. TakeSound(n)'
  BY <1>1, <1>4 DEF TakeSound, Acts
<1> QED
  BY <1>1, <1>5 DEF Known

\* The exchange buys lots of a leg whose account is settled.
LEMMA ExecuteKeeps ==
  ASSUME Deep, NEW n \in DOMAIN takes, NEW buys \in Counts(n), NEW limited, Execute(n, buys, limited)
  PROVE  CoreFits' /\ Known' /\ Counted'
<1>1. PICK t : t = takes[n]
  OBVIOUS
<1>2. PICK e : e = [t EXCEPT !.stage = "sent", !.got = buys]
  OBVIOUS
<1>3. DOMAIN t = Fields
  BY <1>1 DEF Deep, Inv, TakesShape
<1>4. e.stage = "sent" /\ e.got = buys /\ e.legs = t.legs /\ e.mine = t.mine /\ e.lost = t.lost
  BY <1>2, <1>3 DEF Fields
<1>5. Acts(n, e) /\ Active(n) /\ t.stage = "sending" /\ known' = known /\ missed' = missed
  BY <1>1, <1>2, <1>4 DEF Execute, Acts, Stage, Active, core
<1>6. /\ CoreFits' /\ DOMAIN takes' = DOMAIN takes /\ takes'[n] = e
      /\ \A m \in DOMAIN takes : KeysOf(m)' = KeysOf(m)
      /\ \A m \in DOMAIN takes : m # n => takes'[m] = takes[m]
      /\ \A l : Market(l)' = Market(l)
      /\ \A m, l, c : Chunk(m, l, c)' = Chunk(m, l, c)
  BY <1>5, ActsFrame
<1>7. /\ t.mine \subseteq DOMAIN t.legs /\ buys \in [DOMAIN t.legs -> Nat] /\ t.lost = {}
  <2>1. TakeSound(n)
    BY DEF Deep, Known
  <2>2. \A k \in 0..MaxLots : k \in Nat
    BY WingsAssumption
  <2> QED
    BY <1>1, <1>5, <2>1, <2>2 DEF TakeSound, Fits, Counts
<1>8. Known'
  BY <1>1, <1>4, <1>5, <1>7, KnownKept
<1> DEFINE new(k) == {Chunk(n, t.legs[k], c) : c \in 1..buys[k]}
<1>9. orders' = orders \cup UNION {new(k) : k \in t.mine}
  BY <1>1 DEF Execute, Chunk
<1>10. \A k \in t.mine : IsFiniteSet(new(k)) /\ Cardinality(new(k)) = buys[k]
  BY <1>7, ChunksCount
<1>11. \A k \in t.mine : \A o \in new(k) : o.take = n /\ o.leg = Key(t.legs[k]) /\ o.market = Market(t.legs[k])
  BY DEF Chunk
<1> HIDE DEF new
<1>12. \A o \in orders : OrderSound(o) /\ o.take # n
  <2>1. \A o \in orders : OrderSound(o)
    BY DEF Deep, Counted
  <2> QED
    BY <1>1, <1>5, <2>1 DEF OrderSound
<1>13. /\ \A k \in t.mine : Key(t.legs[k]) \in KeysOf(n)
       /\ \A x \in KeysOf(n) : \E k \in t.mine : x = Key(t.legs[k])
  BY <1>1 DEF KeysOf
<1>14. IsFiniteSet(orders')
  <2>1. IsFiniteSet(t.mine)
    <3>1. legs \in Seq(Leg)
      BY DEF Deep, CoreFits, CoreTrue, CoreSound, CoreShape, State
    <3>2. DOMAIN legs = 1..Len(legs) /\ Len(legs) \in Nat
      BY <3>1
    <3>3. t.mine \subseteq DOMAIN legs
      BY <1>1, <1>7, OwnKeys
    <3> QED
      BY <3>2, <3>3, FiniteUpTo, FS_Subset
  <2>2. PICK f, T : f = [k \in t.mine |-> new(k)] /\ T = {new(k) : k \in t.mine}
    OBVIOUS
  <2>3. f \in Surjection(t.mine, T)
    <3>1. f \in [t.mine -> T]
      BY <2>2
    <3>2. \A u \in T : \E k \in t.mine : f[k] = u
      BY <2>2
    <3> QED
      BY <3>1, <3>2 DEF Surjection
  <2>4. IsFiniteSet(T)
    BY <2>1, <2>3, FS_Surjection
  <2>5. IsFiniteSet(UNION T)
    BY <1>10, <2>2, <2>4, FS_UNION
  <2>6. IsFiniteSet(orders)
    BY DEF Deep, Counted
  <2> QED
    BY <1>9, <2>2, <2>5, <2>6, FS_Union
<1>15. Apart(n)
  <2>1. known \subseteq orders /\ missed \in Nat
    BY DEF Deep, Counted
  <2>2. \A o \in orders' : o.leg \notin KeysOf(n) => o \in orders
    BY <1>9, <1>11, <1>13
  <2> QED
    BY <1>5, <1>9, <1>14, <2>1, <2>2 DEF Apart
<1>16. Working(n)'
  BY <1>4, <1>6 DEF Working
<1>17. \A o \in orders' : OrderSound(o)'
  <2>1. ASSUME NEW o \in orders PROVE OrderSound(o)'
    <3>1. OrderSound(o) /\ o.take # n
      BY <1>12
    <3>2. takes'[o.take] = takes[o.take] /\ KeysOf(o.take)' = KeysOf(o.take) /\ legs' = legs
      BY <1>5, <1>6, <3>1 DEF OrderSound, Acts, core
    <3>3. \E k \in DOMAIN legs' : o.leg = Key(legs'[k]) /\ o.market = Market(legs[k])'
      BY <1>6, <3>1, <3>2 DEF OrderSound
    <3> QED
      BY <1>5, <1>6, <3>1, <3>2, <3>3 DEF OrderSound, Working, Key
  <2>2. ASSUME NEW k \in t.mine, NEW o \in new(k) PROVE OrderSound(o)'
    <3>1. o.take = n /\ o.leg = Key(t.legs[k]) /\ o.market = Market(t.legs[k])
      BY <1>11
    <3>2. k \in DOMAIN legs /\ Key(t.legs[k]) = Key(legs[k]) /\ Market(t.legs[k]) = Market(legs[k])
      BY <1>1, <1>7, OwnKeys
    <3>3. legs' = legs /\ Market(legs[k])' = Market(legs[k])
      BY <1>5, <1>6 DEF Acts, core
    <3>4. \E j \in DOMAIN legs' : o.leg = Key(legs'[j]) /\ o.market = Market(legs[j])'
      BY <3>1, <3>2, <3>3
    <3>5. o.leg \in KeysOf(n)'
      BY <1>6, <1>13, <3>1
    <3>6. o \notin known'
      <4>1. known \subseteq orders
        BY DEF Deep, Counted
      <4> QED
        BY <1>5, <1>12, <3>1, <4>1
    <3> QED
      BY <1>4, <1>6, <3>1, <3>4, <3>5, <3>6 DEF OrderSound, Key
  <2> QED
    BY <1>9, <2>1, <2>2
<1>18. ASSUME NEW k \in t.mine
       PROVE  /\ Worked(n, k)'
              /\ wing_filled[Key(t.legs[k])] + buys[k] <= t.legs[k].count
              /\ Cardinality(Ours(Key(t.legs[k])))' <= wing_filled[Key(t.legs[k])] + buys[k] + missed
  <2>1. PICK l, x, g : l = t.legs[k] /\ x = Key(l) /\ g = buys[k]
    OBVIOUS
  <2>2. /\ k \in DOMAIN t.legs /\ k \in DOMAIN legs /\ x = Key(legs[k]) /\ l.count = legs[k].count
        /\ x \in Keys /\ l.count \in Nat /\ g \in Nat
    BY <1>1, <1>7, <2>1, OwnKeys
  <2>3. \A j \in t.mine : Key(t.legs[j]) = x => j = k
    BY <1>1, <1>7, <2>1, <2>2, OwnKeys
  <2>4. x \in KeysOf(n)
    BY <1>13, <2>1
  <2>5. ~Held(x)
    <3>1. ASSUME NEW m \in DOMAIN takes, Working(m), x \in KeysOf(m) PROVE FALSE
      <4>1. m # n /\ Active(m)
        BY <1>1, <1>5, <3>1 DEF Working, Active
      <4> QED
        BY <1>5, <2>4, <3>1, <4>1, OwnKeys
    <3> QED
      BY <3>1 DEF Held
  <2>6. Settled(x) /\ Bounded(k) /\ wing_filled[x] \in Nat /\ missed \in Nat /\ IsFiniteSet(orders)
        /\ known \subseteq orders
    BY <2>2, <2>5 DEF Deep, Counted
  <2>7. wing_filled[x] + g <= l.count
    <3>1. CASE g > 0
      <4>1. g <= Remaining(l)
        BY <1>1, <2>1, <2>2, <3>1 DEF Execute
      <4> QED
        BY <2>1, <2>2, <2>6, <4>1 DEF Remaining
    <3>2. CASE ~(g > 0)
      BY <2>2, <2>6, <3>2 DEF Bounded
    <3> QED
      BY <3>1, <3>2
  <2>8. Ours(x)' = Ours(x) \cup new(k) /\ Own(n, x)' = new(k) /\ Read(x)' = Read(x)
    <3>1. \A j \in t.mine : \A o \in new(j) : o.leg = x <=> j = k
      BY <1>11, <2>1, <2>3
    <3>2. Read(x)' = Read(x)
      BY <1>5 DEF Read
    <3>3. Ours(x)' = Ours(x) \cup new(k)
      BY <1>9, <3>1 DEF Ours
    <3>4. Own(n, x)' = new(k)
      BY <1>9, <1>11, <1>12, <3>1 DEF Own
    <3> QED
      BY <3>2, <3>3, <3>4
  <2>9. Cardinality(Ours(x))' <= wing_filled[x] + g + missed
    <3>1. IsFiniteSet(Ours(x)) /\ IsFiniteSet(new(k)) /\ Cardinality(new(k)) = g
      BY <1>10, <2>1, <2>6, FS_Subset DEF Ours
    <3>2. PICK a, b : a = Ours(x) /\ b = new(k)
      OBVIOUS
    <3>3. Cardinality(a \cup b) = Cardinality(a) + Cardinality(b) - Cardinality(a \cap b)
      BY <3>1, <3>2, FS_Union
    <3>4. Cardinality(a) \in Nat /\ Cardinality(a \cap b) \in Nat
      BY <3>1, <3>2, FS_Intersection, FS_CardinalityType
    <3>5. Cardinality(a) <= wing_filled[x] + missed
      BY <2>6, <3>2 DEF Settled
    <3>6. Cardinality(a \cup b) <= wing_filled[x] + g + missed
      BY <2>2, <2>6, <3>1, <3>2, <3>3, <3>4, <3>5
    <3> QED
      BY <2>8, <3>2, <3>6
  <2>10. Cardinality(Read(x)) >= wing_filled[x]
    BY <2>6 DEF Settled
  <2>11. PICK own : own = new(k)
    OBVIOUS
  <2>12. /\ (wing_filled[x] + g <= l.count)'
         /\ (Cardinality(Read(x)) >= wing_filled[x] + (IF takes[n].stage = "sent" THEN 0 ELSE g))'
         /\ (Cardinality(Ours(x)) <= wing_filled[x] + g
              + (IF k \in takes[n].lost THEN Cardinality(Unread(n, x)) ELSE 0) + missed)'
         /\ (takes[n].stage = "sent" => Own(n, x) = own)'
    <3>1. wing_filled' = wing_filled /\ takes'[n].stage = "sent" /\ takes'[n].lost = {}
      BY <1>4, <1>5, <1>6, <1>7 DEF Acts
    <3>2. wing_filled[x] + 0 = wing_filled[x] /\ wing_filled[x] + g + 0 + missed = wing_filled[x] + g + missed
      BY <2>2, <2>6
    <3>3. (Cardinality(Read(x)) >= wing_filled[x] + (IF takes[n].stage = "sent" THEN 0 ELSE g))'
      BY <2>8, <2>10, <3>1, <3>2
    <3>4. (Cardinality(Ours(x)) <= wing_filled[x] + g
              + (IF k \in takes[n].lost THEN Cardinality(Unread(n, x)) ELSE 0) + missed)'
      BY <1>5, <2>9, <3>1, <3>2
    <3>5. (takes[n].stage = "sent" => Own(n, x) = own)'
      BY <2>8, <2>11
    <3> QED
      BY <2>7, <3>1, <3>3, <3>4, <3>5
  <2>13. l = takes'[n].legs[k] /\ x = Key(l)' /\ g = takes'[n].got[k]
         /\ own = { Chunk(n, l, c)' : c \in 1..g }
    BY <1>4, <1>6, <2>1, <2>11 DEF new, Key
  <2> QED
    BY <2>1, <2>7, <2>9, <2>12, <2>13 DEF Worked
<1>19. \A k \in DOMAIN legs : Key(legs[k]) \in KeysOf(n) => Bounded(k)'
  <2>1. ASSUME NEW k \in DOMAIN legs, Key(legs[k]) \in KeysOf(n) PROVE Bounded(k)'
    <3>1. PICK j \in t.mine : Key(legs[k]) = Key(t.legs[j])
      BY <1>13, <2>1
    <3>2. PICK x : x = Key(legs[k])
      OBVIOUS
    <3>3. /\ j \in DOMAIN legs /\ Key(t.legs[j]) = Key(legs[j]) /\ t.legs[j].count = legs[j].count
          /\ x \in Keys /\ legs[j].count \in Nat
      BY <1>1, <1>7, <3>1, <3>2, OwnKeys
    <3>4. j = k
      BY <3>1, <3>3, LegKeys DEF Deep, CoreFits, CoreTrue, State
    <3>5. /\ wing_filled[x] + buys[j] <= legs[k].count
          /\ Cardinality(Ours(x))' <= wing_filled[x] + buys[j] + missed
      BY <1>18, <3>1, <3>2, <3>3, <3>4
    <3>6. wing_filled[x] \in Nat /\ missed \in Nat /\ buys[j] \in Nat /\ Cardinality(Ours(x))' \in Nat
      <4>1. wing_filled[x] \in Nat /\ missed \in Nat /\ buys[j] \in Nat
        BY <1>7, <3>3 DEF Deep, Counted
      <4>2. IsFiniteSet(Ours(x)')
        BY <1>14, FS_Subset DEF Ours
      <4> QED
        BY <4>1, <4>2, FS_CardinalityType
    <3>7. wing_filled' = wing_filled /\ legs' = legs
      BY <1>5 DEF Acts, core
    <3> QED
      BY <1>5, <3>2, <3>3, <3>4, <3>5, <3>6, <3>7 DEF Bounded, Key
  <2> QED
    BY <2>1
<1>20. ~Lossy => missed' = 0
  BY <1>5 DEF Deep, Counted
<1>21. Counted'
  BY <1>1, <1>5, <1>15, <1>16, <1>17, <1>18, <1>19, <1>20, AccountKept
<1> QED
  BY <1>6, <1>8, <1>21

\* The responses are read: what they report becomes known and is counted.
LEMMA SendKeeps ==
  ASSUME Deep, NEW n \in DOMAIN takes, NEW read \in Counts(n), NEW lost \in SUBSET DOMAIN takes[n].legs,
         lost # {} => Lossy,
         _take_wings_send(n, read, lost)
  PROVE  CoreFits' /\ Known' /\ Counted'
<1>1. PICK t : t = takes[n]
  OBVIOUS
<1>2. PICK e : e = [t EXCEPT !.stage = "confirming", !.lost = lost, !.got = read]
  OBVIOUS
<1>3. DOMAIN t = Fields
  BY <1>1 DEF Deep, Inv, TakesShape
<1>4. e.stage = "confirming" /\ e.got = read /\ e.legs = t.legs /\ e.mine = t.mine /\ e.lost = lost
  BY <1>2, <1>3 DEF Fields
<1>5. /\ Acts(n, e) /\ Active(n) /\ Working(n) /\ t.stage = "sent" /\ orders' = orders /\ missed' = missed
  BY <1>1, <1>2, <1>4 DEF _take_wings_send, Acts, Stage, Active, Working, core, exchange
<1>6. /\ CoreFits' /\ DOMAIN takes' = DOMAIN takes /\ takes'[n] = e
      /\ \A m \in DOMAIN takes : KeysOf(m)' = KeysOf(m)
      /\ \A m \in DOMAIN takes : m # n => takes'[m] = takes[m]
      /\ \A l : Market(l)' = Market(l)
      /\ \A m, l, c : Chunk(m, l, c)' = Chunk(m, l, c)
  BY <1>5, ActsFrame
<1>7. /\ t.mine \subseteq DOMAIN t.legs /\ read \in [DOMAIN t.legs -> Nat] /\ t.lost = {}
      /\ t.got \in [DOMAIN t.legs -> Nat]
  <2>1. TakeSound(n)
    BY DEF Deep, Known
  <2>2. \A k \in 0..MaxLots : k \in Nat
    BY WingsAssumption
  <2> QED
    BY <1>1, <1>5, <2>1, <2>2 DEF TakeSound, Fits, Counts
<1>8. \A k \in DOMAIN t.legs : /\ read[k] <= t.got[k]
                               /\ read[k] < t.got[k] => k \in lost
                               /\ k \in lost => k \in t.mine
  BY <1>1 DEF _take_wings_send
<1>9. lost \subseteq t.mine
  BY <1>1, <1>8
<1>10. Known'
  BY <1>1, <1>4, <1>5, <1>7, <1>9, KnownKept
<1>11. PICK N : N = { o \in orders : o.take = n /\ \E k \in t.mine : Key(t.legs[k]) = o.leg /\ o.chunk <= read[k] }
  OBVIOUS
<1>12. known' = known \cup N
  BY <1>1, <1>11 DEF _take_wings_send
<1>13. /\ \A k \in t.mine : Key(t.legs[k]) \in KeysOf(n)
       /\ \A x \in KeysOf(n) : \E k \in t.mine : x = Key(t.legs[k])
  BY <1>1 DEF KeysOf
<1>14. /\ known \subseteq orders /\ missed \in Nat /\ IsFiniteSet(orders) /\ (~Lossy => missed = 0)
       /\ \A o \in orders : OrderSound(o)
       /\ \A k \in t.mine : Worked(n, k)
       /\ \A k \in DOMAIN legs : Bounded(k)
       /\ wing_filled \in [Keys -> Nat]
  BY <1>1, <1>5 DEF Deep, Counted
<1>15. Apart(n)
  <2>1. \A o \in N : o.leg \in KeysOf(n) /\ o \in orders
    BY <1>11, <1>13
  <2> QED
    BY <1>5, <1>12, <1>14, <2>1 DEF Apart
<1>16. Working(n)'
  BY <1>4, <1>6 DEF Working
<1>17. \A o \in orders' : OrderSound(o)'
  <2>1. ASSUME NEW o \in orders PROVE OrderSound(o)'
    <3>1. OrderSound(o)
      BY <1>14
    <3>2. o.take \in DOMAIN takes /\ KeysOf(o.take)' = KeysOf(o.take) /\ legs' = legs
      BY <1>5, <1>6, <3>1 DEF OrderSound, Acts, core
    <3>3. \E k \in DOMAIN legs' : o.leg = Key(legs'[k]) /\ o.market = Market(legs[k])'
      BY <1>6, <3>1, <3>2 DEF OrderSound
    <3>4. takes'[o.take].stage \notin {"dispatched", "sending"}
      BY <1>4, <1>6, <3>1, <3>2 DEF OrderSound
    <3>5. Working(o.take)' => o.leg \in KeysOf(o.take)'
      BY <1>5, <1>6, <3>1, <3>2 DEF OrderSound, Working
    <3>6. takes'[o.take].stage = "sent" => o \notin known'
      <4>1. CASE o.take = n
        BY <1>4, <1>6, <4>1
      <4>2. CASE o.take # n
        BY <1>6, <1>11, <1>12, <3>1, <3>2, <4>2 DEF OrderSound
      <4> QED
        BY <4>1, <4>2
    <3> QED
      BY <1>6, <3>2, <3>3, <3>4, <3>5, <3>6 DEF OrderSound, Key
  <2> QED
    BY <1>5, <2>1
<1>18. ASSUME NEW k \in t.mine PROVE Worked(n, k)'
  <2>1. PICK l, x, g, r : l = t.legs[k] /\ x = Key(l) /\ g = t.got[k] /\ r = read[k]
    OBVIOUS
  <2>2. /\ k \in DOMAIN t.legs /\ x \in Keys /\ l.count \in Nat /\ g \in Nat /\ r \in Nat /\ r <= g
        /\ (r < g => k \in lost) /\ wing_filled[x] \in Nat
    BY <1>1, <1>7, <1>8, <1>14, <2>1, OwnKeys
  <2>3. \A j \in t.mine : Key(t.legs[j]) = x => j = k
    BY <1>1, <1>7, <2>1, <2>2, OwnKeys
  <2>4. PICK own, part : own = { Chunk(n, l, c) : c \in 1..g } /\ part = { Chunk(n, l, c) : c \in 1..r }
    OBVIOUS
  <2>5. /\ wing_filled[x] + g <= l.count
        /\ Cardinality(Read(x)) >= wing_filled[x] + 0
        /\ Cardinality(Ours(x)) <= wing_filled[x] + g + 0 + missed
        /\ Own(n, x) = own
    <3>1. k \notin takes[n].lost /\ takes[n].stage = "sent"
      BY <1>1, <1>5, <1>7
    <3> QED
      BY <1>1, <1>14, <2>1, <2>4, <3>1 DEF Worked
  <2>6. part \subseteq own /\ \A o \in own : o.chunk <= r <=> o \in part
    <3>1. \A c \in 1..r : c \in 1..g
      BY <2>2
    <3>2. \A c \in 1..g : Chunk(n, l, c).chunk = c /\ (c <= r => c \in 1..r)
      BY <2>2 DEF Chunk
    <3>3. \A c \in 1..r : Chunk(n, l, c).chunk = c /\ c <= r
      BY <2>2 DEF Chunk
    <3> QED
      BY <2>4, <3>1, <3>2, <3>3
  <2>7. {o \in N : o.leg = x} = part
    <3>1. {o \in N : o.leg = x} = {o \in Own(n, x) : o.chunk <= r}
      BY <1>11, <2>1, <2>3 DEF Own
    <3> QED
      BY <2>5, <2>6, <3>1
  <2>8. Read(x)' = Read(x) \cup part
    BY <1>12, <2>7 DEF Read
  <2>9. own \cap known = {}
    <3>1. \A o \in own : o \in orders /\ o.take = n
      BY <2>5 DEF Own
    <3> QED
      BY <1>1, <1>5, <1>14, <3>1 DEF OrderSound
  <2>10. Unread(n, x)' = own \ part
    <3>1. Unread(n, x)' = Own(n, x) \ (known \cup N)
      BY <1>5, <1>12 DEF Unread, Own
    <3>2. \A o \in own : o \in N <=> o \in part
      BY <2>5, <2>7 DEF Own
    <3> QED
      BY <2>5, <2>9, <3>1, <3>2
  <2>11. IsFiniteSet(own) /\ Cardinality(own) = g /\ IsFiniteSet(part) /\ Cardinality(part) = r
    <3>1. /\ IsFiniteSet({ Chunk(n, l, c) : c \in 1..g }) /\ Cardinality({ Chunk(n, l, c) : c \in 1..g }) = g
          /\ IsFiniteSet({ Chunk(n, l, c) : c \in 1..r }) /\ Cardinality({ Chunk(n, l, c) : c \in 1..r }) = r
      BY <2>2, ChunksCount
    <3> QED
      BY <2>4, <3>1
  <2>12. Cardinality(own \ part) = g - r
    <3>1. own \cap part = part
      BY <2>6
    <3>2. Cardinality(own \ part) = Cardinality(own) - Cardinality(own \cap part)
      BY <2>11, FS_Difference
    <3> QED
      BY <2>11, <3>1, <3>2
  <2>13. Cardinality(Read(x))' >= wing_filled[x] + r
    <3>1. PICK a : a = Read(x)
      OBVIOUS
    <3>2. IsFiniteSet(a) /\ a \cap part = {}
      BY <1>14, <2>6, <2>9, <3>1, FS_Subset DEF Read
    <3>3. Cardinality(a \cup part) = Cardinality(a) + r - 0
      BY <2>11, <3>2, FS_Union, FS_EmptySet
    <3>4. Cardinality(a) \in Nat
      BY <3>2, FS_CardinalityType
    <3>5. Cardinality(a \cup part) >= wing_filled[x] + r
      BY <2>2, <2>5, <3>1, <3>3, <3>4
    <3> QED
      BY <2>8, <3>1, <3>5
  <2>14. Cardinality(Ours(x)) <= wing_filled[x] + r + (IF k \in lost THEN g - r ELSE 0) + missed
    <3>1. Cardinality(Ours(x)) \in Nat
      BY <1>14, FS_Subset, FS_CardinalityType DEF Ours
    <3>2. CASE k \in lost
      BY <1>14, <2>2, <2>5, <3>1, <3>2
    <3>3. CASE k \notin lost
      BY <1>14, <2>2, <2>5, <3>1, <3>3
    <3> QED
      BY <3>2, <3>3
  <2>15. wing_filled[x] + r <= l.count
    BY <2>2, <2>5
  <2>16. /\ (wing_filled[x] + r <= l.count)'
         /\ (Cardinality(Read(x)) >= wing_filled[x] + (IF takes[n].stage = "sent" THEN 0 ELSE r))'
         /\ (Cardinality(Ours(x)) <= wing_filled[x] + r
              + (IF k \in takes[n].lost THEN Cardinality(Unread(n, x)) ELSE 0) + missed)'
         /\ (takes[n].stage = "sent" => Own(n, x) = own)'
    <3>1. wing_filled' = wing_filled /\ takes'[n].stage = "confirming" /\ takes'[n].lost = lost
          /\ Ours(x)' = Ours(x)
      BY <1>4, <1>5, <1>6 DEF Acts, Ours
    <3>2. (Cardinality(Read(x)) >= wing_filled[x] + (IF takes[n].stage = "sent" THEN 0 ELSE r))'
      BY <2>13, <3>1
    <3>3. (Cardinality(Ours(x)) <= wing_filled[x] + r
              + (IF k \in takes[n].lost THEN Cardinality(Unread(n, x)) ELSE 0) + missed)'
      BY <1>5, <2>10, <2>12, <2>14, <3>1
    <3> QED
      BY <2>15, <3>1, <3>2, <3>3
  <2>17. l = takes'[n].legs[k] /\ x = Key(l)' /\ r = takes'[n].got[k]
         /\ takes'[n].stage # "sent"
    BY <1>4, <1>6, <2>1 DEF Key
  <2> QED
    BY <2>16, <2>17 DEF Worked
<1>19. \A k \in DOMAIN legs : Bounded(k)'
  <2>1. legs' = legs /\ wing_filled' = wing_filled /\ \A x : Ours(x)' = Ours(x)
    BY <1>5 DEF Acts, core, Ours
  <2> QED
    BY <1>5, <1>14, <2>1 DEF Bounded, Key
<1>20. Counted'
  BY <1>1, <1>5, <1>14, <1>15, <1>16, <1>17, <1>18, <1>19, AccountKept
<1> QED
  BY <1>6, <1>10, <1>20

\* What is to be shown of a leg whose take has read its responses.
LEMMA WorkedNext ==
  ASSUME NEW n, NEW j, NEW l, NEW x, NEW h, l = takes'[n].legs[j], x = Key(l), h = takes'[n].got[j],
         takes'[n].stage = "confirming",
         wing_filled'[x] + h <= l.count, Cardinality(Read(x))' >= wing_filled'[x] + h,
         Cardinality(Ours(x))' <= wing_filled'[x] + h
           + (IF j \in takes'[n].lost THEN Cardinality(Unread(n, x)') ELSE 0) + missed'
  PROVE  Worked(n, j)'
<1>1. Key(l)' = x
  BY DEF Key
<1> QED
  BY <1>1 DEF Worked

\* A lost leg is looked up: the answer becomes known, and d lots of it are counted.
LEMMA LookUpKeeps ==
  ASSUME Deep, NEW n \in DOMAIN takes, NEW k \in takes[n].lost, NEW answer, NEW d \in Nat,
         Stage(n, "confirming"),
         takes' = [takes EXCEPT ![n].lost = @ \ {k}, ![n].got[k] = @ + d],
         known' = known \cup answer, UNCHANGED <<core, wing_filled, orders>>,
         missed' \in Nat, missed' >= missed,
         answer \subseteq orders \ known, \A o \in answer : o.leg = Key(takes[n].legs[k]),
         wing_filled[Key(takes[n].legs[k])] + takes[n].got[k] + d <= takes[n].legs[k].count,
         d <= Cardinality(answer),
         Cardinality(Ours(Key(takes[n].legs[k]))) <=
           wing_filled[Key(takes[n].legs[k])] + takes[n].got[k] + d + missed'
  PROVE  CoreFits' /\ Known' /\ Counted'
<1>1. PICK t : t = takes[n]
  OBVIOUS
<1>2. DOMAIN t = Fields
  BY <1>1 DEF Deep, Inv, TakesShape
<1>3. PICK e : e = [t EXCEPT !.lost = @ \ {k}, !.got[k] = @ + d]
  OBVIOUS
<1>4. /\ e.stage = t.stage /\ e.legs = t.legs /\ e.mine = t.mine /\ e.lost = t.lost \ {k}
      /\ e.got = [t.got EXCEPT ![k] = t.got[k] + d]
  BY <1>2, <1>3 DEF Fields
<1>5. /\ Acts(n, e) /\ Active(n) /\ Working(n) /\ t.stage = "confirming"
  <2>1. takes' = [takes EXCEPT ![n] = e]
    BY <1>1, <1>3
  <2> QED
    BY <1>1, <1>4, <2>1 DEF Acts, Stage, Active, Working, core
<1>6. /\ CoreFits' /\ DOMAIN takes' = DOMAIN takes /\ takes'[n] = e
      /\ \A m \in DOMAIN takes : KeysOf(m)' = KeysOf(m)
      /\ \A m \in DOMAIN takes : m # n => takes'[m] = takes[m]
      /\ \A l : Market(l)' = Market(l)
  BY <1>5, ActsFrame
<1>7. /\ t.mine \subseteq DOMAIN t.legs /\ t.lost \subseteq t.mine /\ Lossy
      /\ t.got \in [DOMAIN t.legs -> Nat]
  BY <1>1 DEF Deep, Known, TakeSound, Fits
<1>8. /\ k \in t.mine /\ t.got[k] \in Nat /\ t.got[k] + d \in Nat /\ e.got \in [DOMAIN t.legs -> Nat]
      /\ e.got[k] = t.got[k] + d /\ \A j \in DOMAIN t.legs : j # k => e.got[j] = t.got[j]
  <2>1. k \in t.mine /\ t.got[k] \in Nat /\ t.got[k] + d \in Nat
    BY <1>1, <1>7
  <2> QED
    BY <1>4, <1>7, <2>1
<1>9. Known'
  BY <1>1, <1>4, <1>5, <1>7, <1>8, KnownKept
<1>10. /\ \A j \in t.mine : Key(t.legs[j]) \in KeysOf(n)
       /\ \A x \in KeysOf(n) : \E j \in t.mine : x = Key(t.legs[j])
  BY <1>1 DEF KeysOf
<1>11. /\ known \subseteq orders /\ missed \in Nat /\ IsFiniteSet(orders)
       /\ \A o \in orders : OrderSound(o)
       /\ \A j \in t.mine : Worked(n, j)
       /\ \A j \in DOMAIN legs : Bounded(j)
       /\ wing_filled \in [Keys -> Nat]
  BY <1>1, <1>5 DEF Deep, Counted
<1>12. Apart(n)
  <2>1. \A o \in answer : o.leg \in KeysOf(n) /\ o \in orders
    BY <1>1, <1>8, <1>10
  <2> QED
    BY <1>11, <2>1 DEF Apart
<1>13. Working(n)'
  BY <1>4, <1>5, <1>6 DEF Working
<1>14. \A o \in orders' : OrderSound(o)'
  <2>1. ASSUME NEW o \in orders PROVE OrderSound(o)'
    <3>1. OrderSound(o)
      BY <1>11
    <3>2. o.take \in DOMAIN takes /\ KeysOf(o.take)' = KeysOf(o.take) /\ legs' = legs
      BY <1>5, <1>6, <3>1 DEF OrderSound, Acts, core
    <3>3. \E j \in DOMAIN legs' : o.leg = Key(legs'[j]) /\ o.market = Market(legs[j])'
      BY <1>6, <3>1, <3>2 DEF OrderSound
    <3>4. takes'[o.take].stage = takes[o.take].stage
      BY <1>1, <1>4, <1>6, <3>2
    <3>5. Working(o.take)' => o.leg \in KeysOf(o.take)'
      BY <3>1, <3>2, <3>4 DEF OrderSound, Working
    <3>6. takes'[o.take].stage = "sent" => o \notin known'
      <4>1. ASSUME takes'[o.take].stage = "sent", o \in answer PROVE FALSE
        <5>1. o.leg \in KeysOf(n) /\ o.leg \in KeysOf(o.take) /\ o.take # n /\ Active(o.take)
          BY <1>1, <1>5, <1>8, <1>10, <3>1, <3>4, <4>1 DEF OrderSound, Working, Active
        <5> QED
          BY <1>5, <3>2, <5>1, OwnKeys
      <4> QED
        BY <3>1, <3>4, <4>1 DEF OrderSound
    <3> QED
      BY <1>6, <3>1, <3>2, <3>3, <3>4, <3>5, <3>6 DEF OrderSound, Key
  <2> QED
    BY <2>1
<1>15. \A x : Cardinality(Ours(x)) \in Nat /\ Cardinality(Read(x)) \in Nat /\ Cardinality(Unread(n, x)) \in Nat
  <2>1. \A x : Ours(x) \subseteq orders /\ Read(x) \subseteq orders /\ Unread(n, x) \subseteq orders
    BY <1>11 DEF Ours, Read, Unread
  <2> QED
    BY <1>11, <2>1, FS_Subset, FS_CardinalityType
<1>16. ASSUME NEW j \in t.mine PROVE Worked(n, j)'
  <2>1. PICK l, x, g : l = t.legs[j] /\ x = Key(l) /\ g = t.got[j]
    OBVIOUS
  <2>2. j \in DOMAIN t.legs /\ x \in Keys /\ l.count \in Nat /\ g \in Nat /\ wing_filled[x] \in Nat
    BY <1>1, <1>7, <1>11, <2>1, OwnKeys
  <2>3. /\ wing_filled[x] + g <= l.count
        /\ Cardinality(Read(x)) >= wing_filled[x] + g
        /\ Cardinality(Ours(x)) <= wing_filled[x] + g
             + (IF j \in t.lost THEN Cardinality(Unread(n, x)) ELSE 0) + missed
    BY <1>1, <1>5, <1>11, <2>1 DEF Worked
  <2>4. PICK h \in Nat : h = e.got[j]
    BY <1>8, <2>2
  <2>5. /\ wing_filled[x] + h <= l.count
        /\ Cardinality(Read(x))' >= wing_filled[x] + h
        /\ Cardinality(Ours(x)) <= wing_filled[x] + h
             + (IF j \in e.lost THEN Cardinality(Unread(n, x)') ELSE 0) + missed'
    <3>1. CASE j = k
      <4>1. h = g + d /\ j \notin e.lost /\ g = takes[n].got[k] /\ x = Key(takes[n].legs[k])
            /\ l.count = takes[n].legs[k].count
        BY <1>1, <1>4, <1>8, <2>1, <2>4, <3>1
      <4>2. Read(x)' = Read(x) \cup answer
        BY <4>1 DEF Read
      <4>3. PICK a : a = Read(x)
        OBVIOUS
      <4>4. IsFiniteSet(a) /\ IsFiniteSet(answer) /\ a \cap answer = {}
        BY <1>11, <4>3, FS_Subset DEF Read
      <4>5. Cardinality(a \cup answer) = Cardinality(a) + Cardinality(answer) - 0
        BY <4>4, FS_Union, FS_EmptySet
      <4>6. Cardinality(answer) \in Nat /\ Cardinality(a) \in Nat
        BY <4>4, FS_CardinalityType
      <4>7. Cardinality(a \cup answer) >= wing_filled[x] + h
        BY <2>2, <2>3, <4>1, <4>3, <4>5, <4>6
      <4>8. wing_filled[x] + h <= l.count
        BY <2>2, <4>1
      <4>9. Cardinality(Ours(x)) <= wing_filled[x] + h + 0 + missed'
        BY <1>15, <2>2, <2>4, <4>1
      <4> QED
        BY <4>1, <4>2, <4>3, <4>7, <4>8, <4>9
    <3>2. CASE j # k
      <4>1. h = g /\ (j \in e.lost <=> j \in t.lost)
        BY <1>4, <1>7, <1>8, <2>1, <2>4, <3>2
      <4>2. x # Key(t.legs[k])
        BY <1>1, <1>7, <1>8, <2>1, <2>2, <3>2, OwnKeys
      <4>3. Read(x)' = Read(x) /\ Unread(n, x)' = Unread(n, x)
        BY <1>1, <4>2 DEF Read, Unread
      <4>4. PICK z \in Nat : z = IF j \in t.lost THEN Cardinality(Unread(n, x)) ELSE 0
        BY <1>15
      <4>5. Cardinality(Ours(x)) <= wing_filled[x] + g + z + missed'
        BY <1>11, <1>15, <2>2, <2>3, <4>4
      <4> QED
        BY <2>3, <4>1, <4>3, <4>4, <4>5
    <3> QED
      BY <3>1, <3>2
  <2>6. /\ takes'[n].stage = "confirming" /\ takes'[n].lost = e.lost /\ Ours(x)' = Ours(x)
        /\ l = takes'[n].legs[j] /\ h = takes'[n].got[j] /\ wing_filled' = wing_filled
    BY <1>1, <1>4, <1>5, <1>6, <2>1, <2>4 DEF Ours, Acts
  <2> QED
    BY <2>1, <2>5, <2>6, WorkedNext
<1>17. \A j \in DOMAIN legs : Bounded(j)'
  <2>1. legs' = legs /\ wing_filled' = wing_filled /\ \A x : Ours(x)' = Ours(x)
    BY <1>5 DEF Acts, core, Ours
  <2>2. ASSUME NEW j \in DOMAIN legs PROVE Bounded(j)'
    <3>1. legs[j].count \in Nat
      BY LegKeys DEF Deep, CoreFits, CoreTrue, State
    <3>2. PICK x : x = Key(legs[j])
      OBVIOUS
    <3>3. wing_filled[x] <= legs[j].count /\ Cardinality(Ours(x)) <= legs[j].count + missed
      BY <1>11, <3>2 DEF Bounded
    <3>4. Cardinality(Ours(x)) <= legs[j].count + missed'
      BY <1>11, <1>15, <3>1, <3>3
    <3> QED
      BY <2>1, <3>2, <3>3, <3>4 DEF Bounded, Key
  <2> QED
    BY <2>2
<1>18. Counted'
  BY <1>1, <1>5, <1>7, <1>12, <1>13, <1>14, <1>16, <1>17, AccountKept
<1> QED
  BY <1>6, <1>9, <1>18

\* no response is lost, or there is one batch
OneBatchIfLossy == Lossy => MaxBatches <= 1

LEMMA Least == ASSUME NEW a \in Nat, NEW b \in Nat
               PROVE  /\ Min({a, b}) \in Nat /\ Min({a, b}) <= a /\ Min({a, b}) <= b
                      /\ Min({a, b}) = a \/ Min({a, b}) = b
<1>1. \E x \in {a, b} : \A y \in {a, b} : x <= y
  <2>1. a <= b \/ b <= a
    OBVIOUS
  <2>2. a <= a /\ b <= b
    OBVIOUS
  <2> QED
    BY <2>1, <2>2
<1>2. Min({a, b}) \in {a, b} /\ \A y \in {a, b} : Min({a, b}) <= y
  BY <1>1 DEF Min
<1> QED
  BY <1>2

\* With one batch a market is a leg.
LEMMA MarketIsLeg ==
  ASSUME CoreFits, MaxBatches <= 1, NEW j \in DOMAIN legs, NEW k \in DOMAIN legs,
         Market(legs[j]) = Market(legs[k])
  PROVE  j = k
<1>1. /\ \A i \in DOMAIN legs : legs[i].batch \in DOMAIN batches
      /\ \A i, m \in DOMAIN legs : Key(legs[i]) = Key(legs[m]) => i = m
  BY LegKeys DEF CoreFits, CoreTrue, State
<1>2. DOMAIN batches = 1..Len(batches) /\ Len(batches) \in Nat /\ Len(batches) <= MaxBatches
  BY DEF CoreFits, CoreTrue, CoreSound, CoreShape, State
<1>3. \A i \in DOMAIN batches : i = 1
  BY <1>2, WingsAssumption
<1>4. legs[j].batch = legs[k].batch /\ legs[j].side = legs[k].side
  BY <1>1, <1>3 DEF Market
<1> QED
  BY <1>1, <1>4 DEF Key

\* What the query of a lost leg can answer.
LEMMA UnseenOurs ==
  ASSUME Deep, OneBatchIfLossy, Lossy, NEW n \in DOMAIN takes, NEW k \in DOMAIN takes[n].legs
  PROVE  /\ \A o \in Unseen(n, k) : o.leg = Key(takes[n].legs[k])
         /\ Unread(n, Key(takes[n].legs[k])) = {o \in Unseen(n, k) : o.take = n}
<1>1. PICK l, x : l = takes[n].legs[k] /\ x = Key(l)
  OBVIOUS
<1>2. k \in DOMAIN legs /\ x = Key(legs[k]) /\ Market(l) = Market(legs[k])
  BY <1>1, OwnKeys
<1>0. \A i, m \in DOMAIN legs : Key(legs[i]) = Key(legs[m]) => i = m
  BY LegKeys DEF Deep, CoreFits, CoreTrue, State
<1>3. \A o \in orders : \E j \in DOMAIN legs : o.leg = Key(legs[j]) /\ o.market = Market(legs[j])
  BY DEF Deep, Counted, OrderSound
<1>4. MaxBatches <= 1 /\ CoreFits
  BY DEF OneBatchIfLossy, Deep
<1>5. ASSUME NEW o \in Unseen(n, k) PROVE o.leg = x
  <2>1. o \in orders /\ o.market = Market(legs[k])
    BY <1>1, <1>2, <1>5 DEF Unseen
  <2>2. PICK j \in DOMAIN legs : o.leg = Key(legs[j]) /\ o.market = Market(legs[j])
    BY <1>3, <2>1
  <2>3. j = k
    BY <1>2, <1>4, <2>1, <2>2, MarketIsLeg
  <2> QED
    BY <1>2, <2>2, <2>3
<1>6. ASSUME NEW o \in Unread(n, x) PROVE o \in Unseen(n, k) /\ o.take = n
  <2>1. o \in orders \ known /\ o.take = n /\ o.leg = x
    BY <1>6 DEF Unread
  <2>2. PICK j \in DOMAIN legs : o.leg = Key(legs[j]) /\ o.market = Market(legs[j])
    BY <1>3, <2>1
  <2>3. j = k
    BY <1>0, <1>2, <2>1, <2>2
  <2>4. o.market = Market(l)
    BY <1>2, <2>2, <2>3
  <2> QED
    BY <1>1, <2>1, <2>4 DEF Unseen
<1>7. \A o \in Unseen(n, k) : o.take = n => o \in Unread(n, x)
  BY <1>5 DEF Unseen, Unread
<1>8. Unread(n, x) = {o \in Unseen(n, k) : o.take = n}
  BY <1>6, <1>7
<1> QED
  BY <1>1, <1>5, <1>8

\* what is known of a leg that is looked up
LEMMA LostLeg ==
  ASSUME Deep, NEW n \in DOMAIN takes, NEW k \in takes[n].lost, Stage(n, "confirming")
  PROVE  LET t == takes[n] l == t.legs[k] x == Key(l) g == t.got[k]
         IN /\ Lossy /\ k \in DOMAIN t.legs /\ x \in Keys /\ l.count \in Nat /\ g \in Nat
            /\ wing_filled[x] \in Nat /\ missed \in Nat /\ wing_filled[x] + g <= l.count
            /\ Cardinality(Ours(x)) <= wing_filled[x] + g + Cardinality(Unread(n, x)) + missed
            /\ Cardinality(Ours(x)) <= l.count + missed /\ Cardinality(Ours(x)) \in Nat
            /\ IsFiniteSet(orders) /\ IsFiniteSet(Unread(n, x)) /\ Cardinality(Unread(n, x)) \in Nat
<1>1. PICK t, l, x, g : t = takes[n] /\ l = t.legs[k] /\ x = Key(l) /\ g = t.got[k]
  OBVIOUS
<1>2. /\ k \in t.mine /\ k \in DOMAIN t.legs /\ Lossy /\ g \in Nat
  BY <1>1 DEF Deep, Known, TakeSound, Fits
<1>3. k \in DOMAIN legs /\ x = Key(legs[k]) /\ l.count = legs[k].count /\ x \in Keys /\ l.count \in Nat
  BY <1>1, <1>2, OwnKeys
<1>4. wing_filled[x] \in Nat /\ missed \in Nat /\ IsFiniteSet(orders) /\ Worked(n, k) /\ Bounded(k)
  BY <1>1, <1>2, <1>3 DEF Deep, Counted, Stage, Working
<1>5. wing_filled[x] + g <= l.count
      /\ Cardinality(Ours(x)) <= wing_filled[x] + g + Cardinality(Unread(n, x)) + missed
  BY <1>1, <1>4 DEF Worked
<1>6. Cardinality(Ours(x)) <= l.count + missed
  BY <1>3, <1>4 DEF Bounded
<1>7. IsFiniteSet(Ours(x)) /\ IsFiniteSet(Unread(n, x))
  BY <1>4, FS_Subset DEF Ours, Unread
<1>8. Cardinality(Ours(x)) \in Nat /\ Cardinality(Unread(n, x)) \in Nat
  BY <1>7, FS_CardinalityType
<1> QED
  BY <1>1, <1>2, <1>3, <1>4, <1>5, <1>6, <1>7, <1>8

LEMMA ConfirmKeeps ==
  ASSUME Deep, OneBatchIfLossy, NEW n \in DOMAIN takes, NEW k \in takes[n].lost,
         _venue_wing_fills_async(n, k)
  PROVE  CoreFits' /\ Known' /\ Counted'
<1>1. PICK t, l, x, g : t = takes[n] /\ l = t.legs[k] /\ x = Key(l) /\ g = t.got[k]
  OBVIOUS
<1>2. PICK answer \in Answers(n, k) : Confirm(n, k, answer, Remaining(l) - g) /\ missed' = missed
  BY <1>1 DEF _venue_wing_fills_async
<1>3. /\ Lossy /\ k \in DOMAIN t.legs /\ x \in Keys /\ l.count \in Nat /\ g \in Nat
      /\ wing_filled[x] \in Nat /\ missed \in Nat /\ wing_filled[x] + g <= l.count
      /\ Cardinality(Ours(x)) <= wing_filled[x] + g + Cardinality(Unread(n, x)) + missed
      /\ Cardinality(Ours(x)) <= l.count + missed /\ Cardinality(Ours(x)) \in Nat
      /\ IsFiniteSet(orders) /\ IsFiniteSet(Unread(n, x)) /\ Cardinality(Unread(n, x)) \in Nat
  BY <1>1, <1>2, LostLeg DEF Confirm
<1>4. PICK room \in Nat : room = Remaining(l) - g /\ wing_filled[x] + g + room = l.count
  BY <1>1, <1>3 DEF Remaining
<1>5. answer \subseteq orders \ known /\ \A o \in answer : o.leg = x
  BY <1>1, <1>2, <1>3, UnseenOurs DEF Answers, Unseen
<1>6. Unread(n, x) \subseteq answer
  BY <1>1, <1>2, <1>3, UnseenOurs DEF Answers
<1>7. IsFiniteSet(answer) /\ Cardinality(answer) \in Nat /\ Cardinality(Unread(n, x)) <= Cardinality(answer)
  <2>1. IsFiniteSet(answer)
    BY <1>3, <1>5, FS_Subset
  <2> QED
    BY <1>6, <2>1, FS_Subset, FS_CardinalityType
<1>8. PICK d : d = Min({Cardinality(answer), room})
  OBVIOUS
<1>9. d \in Nat /\ d <= Cardinality(answer) /\ d <= room /\ (d = Cardinality(answer) \/ d = room)
  BY <1>7, <1>8, Least
<1>10. wing_filled[x] + g + d <= l.count
  BY <1>3, <1>4, <1>9
<1>11. Cardinality(Ours(x)) <= wing_filled[x] + g + d + missed
  BY <1>3, <1>4, <1>7, <1>9
<1>12. /\ Stage(n, "confirming") /\ known' = known \cup answer
       /\ UNCHANGED <<core, wing_filled, orders>>
       /\ takes' = [takes EXCEPT ![n].lost = @ \ {k}, ![n].got[k] = @ + d]
  <2>1. Confirm(n, k, answer, room)
    BY <1>1, <1>2, <1>4
  <2>2. takes' = [takes EXCEPT ![n].lost = @ \ {k},
                               ![n].got[k] = @ + Min({Cardinality(answer), room})]
    BY <2>1 DEF Confirm
  <2>3. takes' = [takes EXCEPT ![n].lost = @ \ {k}, ![n].got[k] = @ + d]
    BY <1>8, <2>2
  <2>4. /\ Stage(n, "confirming") /\ known' = known \cup answer
        /\ UNCHANGED <<core, wing_filled, orders>>
    BY <2>1 DEF Confirm
  <2> QED
    BY <2>3, <2>4
<1>13. /\ \A o \in answer : o.leg = Key(takes[n].legs[k])
       /\ wing_filled[Key(takes[n].legs[k])] + takes[n].got[k] + d <= takes[n].legs[k].count
       /\ Cardinality(Ours(Key(takes[n].legs[k]))) <=
            wing_filled[Key(takes[n].legs[k])] + takes[n].got[k] + d + missed'
       /\ missed' \in Nat /\ missed' >= missed
  BY <1>1, <1>2, <1>3, <1>5, <1>10, <1>11
<1>14. d \in Nat /\ d <= Cardinality(answer) /\ answer \subseteq orders \ known
  BY <1>5, <1>9
<1> QED
  BY <1>12, <1>13, <1>14, LookUpKeeps

LEMMA FailedKeeps ==
  ASSUME Deep, OneBatchIfLossy, NEW n \in DOMAIN takes, NEW k \in takes[n].lost,
         ConfirmGetFailed(n, k)
  PROVE  CoreFits' /\ Known' /\ Counted'
<1>1. PICK t, l, x, g : t = takes[n] /\ l = t.legs[k] /\ x = Key(l) /\ g = t.got[k]
  OBVIOUS
<1>2. Confirm(n, k, {}, 0) /\ missed' = missed + Cardinality({ o \in Unseen(n, k) : o.take = n })
  BY DEF ConfirmGetFailed
<1>3. /\ Lossy /\ k \in DOMAIN t.legs /\ x \in Keys /\ l.count \in Nat /\ g \in Nat
      /\ wing_filled[x] \in Nat /\ missed \in Nat /\ wing_filled[x] + g <= l.count
      /\ Cardinality(Ours(x)) <= wing_filled[x] + g + Cardinality(Unread(n, x)) + missed
      /\ Cardinality(Ours(x)) \in Nat
      /\ IsFiniteSet(orders) /\ IsFiniteSet(Unread(n, x)) /\ Cardinality(Unread(n, x)) \in Nat
  BY <1>1, <1>2, LostLeg DEF Confirm
<1>4. missed' = missed + Cardinality(Unread(n, x))
  BY <1>1, <1>2, <1>3, UnseenOurs
<1>5. Cardinality({}) = 0 /\ Min({Cardinality({}), 0}) = 0
  <2>1. Cardinality({}) = 0
    BY FS_EmptySet
  <2>2. Min({0, 0}) = 0
    BY Least
  <2> QED
    BY <2>1, <2>2
<1>6. /\ Stage(n, "confirming") /\ known' = known \cup {}
      /\ UNCHANGED <<core, wing_filled, orders>>
      /\ takes' = [takes EXCEPT ![n].lost = @ \ {k}, ![n].got[k] = @ + 0]
  <2>1. PICK d : d = Min({Cardinality({}), 0})
    OBVIOUS
  <2>2. takes' = [takes EXCEPT ![n].lost = @ \ {k}, ![n].got[k] = @ + Min({Cardinality({}), 0})]
    BY <1>2 DEF Confirm
  <2>3. takes' = [takes EXCEPT ![n].lost = @ \ {k}, ![n].got[k] = @ + d]
    BY <2>1, <2>2
  <2>4. takes' = [takes EXCEPT ![n].lost = @ \ {k}, ![n].got[k] = @ + 0]
    BY <1>5, <2>1, <2>3
  <2>5. /\ Stage(n, "confirming") /\ known' = known \cup {}
        /\ UNCHANGED <<core, wing_filled, orders>>
    BY <1>2 DEF Confirm
  <2> QED
    BY <2>4, <2>5
<1>7. PICK answer, d : answer = {} /\ d = 0 /\ d \in Nat
  OBVIOUS
<1>8. wing_filled[x] + g + d <= l.count /\ d <= Cardinality(answer)
  BY <1>3, <1>5, <1>7
<1>9. Cardinality(Ours(x)) <= wing_filled[x] + g + d + missed' /\ missed' \in Nat /\ missed' >= missed
  BY <1>3, <1>4, <1>7
<1>10. /\ known' = known \cup answer /\ answer \subseteq orders \ known /\ \A o \in answer : o.leg = x
       /\ takes' = [takes EXCEPT ![n].lost = @ \ {k}, ![n].got[k] = @ + d]
  BY <1>6, <1>7
<1>11. /\ wing_filled[Key(takes[n].legs[k])] + takes[n].got[k] + d <= takes[n].legs[k].count
       /\ Cardinality(Ours(Key(takes[n].legs[k]))) <=
            wing_filled[Key(takes[n].legs[k])] + takes[n].got[k] + d + missed'
       /\ \A o \in answer : o.leg = Key(takes[n].legs[k])
  BY <1>1, <1>3, <1>8, <1>9, <1>10
<1> QED
  BY <1>6, <1>7, <1>8, <1>9, <1>10, <1>11, LookUpKeeps

\* What a take has counted of its legs goes to the table, each leg on its own.
LEMMA TableAdds ==
  ASSUME Deep, NEW n \in DOMAIN takes, NEW wf,
         wf = [x \in Keys |-> wing_filled[x] +
                 Total(Restrict(takes[n].got, { k \in takes[n].mine : Key(takes[n].legs[k]) = x }))]
  PROVE  /\ \A k \in takes[n].mine :
              wf[Key(takes[n].legs[k])] = wing_filled[Key(takes[n].legs[k])] + takes[n].got[k]
         /\ \A x \in Keys \ KeysOf(n) : wf[x] = wing_filled[x]
<1>1. PICK t : t = takes[n]
  OBVIOUS
<1>2. /\ t.mine \subseteq DOMAIN t.legs /\ t.got \in [DOMAIN t.legs -> Nat]
      /\ wing_filled \in [Keys -> Nat]
  BY <1>1 DEF Deep, Known, TakeSound, Fits, Counted
<1>3. ASSUME NEW k \in t.mine
      PROVE  wf[Key(t.legs[k])] = wing_filled[Key(t.legs[k])] + t.got[k]
  <2>1. PICK x : x = Key(t.legs[k])
    OBVIOUS
  <2>2. x \in Keys /\ k \in DOMAIN t.legs
    BY <1>1, <1>2, <2>1, OwnKeys
  <2>3. { j \in t.mine : Key(t.legs[j]) = x } = {k}
    BY <1>1, <1>2, <2>1, OwnKeys
  <2>4. PICK f : f = Restrict(t.got, {k})
    OBVIOUS
  <2>5. DOMAIN f = {k} /\ f[k] = t.got[k] /\ t.got[k] \in Int
    BY <1>2, <2>2, <2>4, Parts
  <2>6. Total(f) = t.got[k]
    BY <2>5, TotalOne
  <2>7. wf[x] = wing_filled[x] + Total(Restrict(t.got, { j \in t.mine : Key(t.legs[j]) = x }))
    BY <1>1, <2>2
  <2> QED
    BY <2>1, <2>3, <2>4, <2>6, <2>7
<1>4. ASSUME NEW x \in Keys \ KeysOf(n) PROVE wf[x] = wing_filled[x]
  <2>0. PICK S : S = { j \in t.mine : Key(t.legs[j]) = x }
    OBVIOUS
  <2>1. S = {}
    BY <1>1, <2>0 DEF KeysOf
  <2>2. DOMAIN Restrict(t.got, {}) = {}
    BY Parts
  <2>3. Total(Restrict(t.got, {})) = 0
    BY <2>2, TotalEmpty
  <2>4. wf[x] = wing_filled[x] + Total(Restrict(t.got, S))
    BY <1>1, <2>0
  <2>5. wing_filled[x] \in Nat
    BY <1>2
  <2>6. Total(Restrict(t.got, S)) = 0
    BY <2>1, <2>3
  <2> QED
    BY <2>4, <2>5, <2>6
<1> QED
  BY <1>1, <1>3, <1>4

\* A take returns: what it counted is in the table, and its claims are settled.
LEMMA ReturnsKeeps ==
  ASSUME Deep, NEW n \in DOMAIN takes, TakeReturns(n)
  PROVE  CoreFits' /\ Known' /\ Counted'
<1>1. PICK t : t = takes[n]
  OBVIOUS
<1>2. PICK wf : wf = [x \in Keys |-> wing_filled[x] +
                 Total(Restrict(t.got, { k \in t.mine : Key(t.legs[k]) = x }))]
  OBVIOUS
<1>3. PICK filled : filled = { k \in DOMAIN t.legs : t.got[k] > 0 /\ t.got[k] >= Remaining(t.legs[k]) }
  OBVIOUS
<1>4. \E got : /\ takes' = [takes EXCEPT ![n].stage = "returned", ![n].got = got]
               /\ got = [k \in DOMAIN t.legs |->
                           IF k \in filled THEN wing_filled[Key(t.legs[k])] +
                             Total(Restrict(t.got, { j \in t.mine : Key(t.legs[j]) = Key(t.legs[k]) })) ELSE 0]
  BY <1>1, <1>3 DEF TakeReturns, Returns
<1>5. PICK got : /\ takes' = [takes EXCEPT ![n].stage = "returned", ![n].got = got]
               /\ got = [k \in DOMAIN t.legs |->
                           IF k \in filled THEN wing_filled[Key(t.legs[k])] +
                             Total(Restrict(t.got, { j \in t.mine : Key(t.legs[j]) = Key(t.legs[k]) })) ELSE 0]
  BY <1>4
<1>6. wing_filled' = wf
  BY <1>1, <1>2 DEF TakeReturns, Returns
<1>7. /\ UNCHANGED <<core, known, orders, missed>> /\ t.stage = "confirming" /\ t.lost = {}
  BY <1>1 DEF TakeReturns, Returns, exchange, Stage
<1>8. PICK e : e = [t EXCEPT !.stage = "returned", !.got = got]
  OBVIOUS
<1>9. DOMAIN t = Fields
  BY <1>1 DEF Deep, Inv, TakesShape
<1>10. e.stage = "returned" /\ e.got = got /\ e.legs = t.legs /\ e.mine = t.mine /\ e.lost = {}
  BY <1>7, <1>8, <1>9 DEF Fields
<1>11. takes' = [takes EXCEPT ![n] = e]
  BY <1>1, <1>5, <1>8
<1>12. /\ DOMAIN takes' = DOMAIN takes /\ takes'[n] = e
       /\ \A m \in DOMAIN takes : m # n => takes'[m] = takes[m]
  <2>1. \E S : takes \in Seq(S)
    BY DEF Deep, Inv, TakesShape
  <2> QED
    BY <1>11, <2>1
<1>13. /\ wing_filled \in [Keys -> Nat] /\ missed \in Nat /\ IsFiniteSet(orders) /\ known \subseteq orders
       /\ \A o \in orders : OrderSound(o)
       /\ \A k \in DOMAIN legs : Bounded(k)
       /\ \A x \in Keys : ~Held(x) => Settled(x)
       /\ \A m \in DOMAIN takes : Working(m) => \A k \in takes[m].mine : Worked(m, k)
  BY DEF Deep, Counted
<1>14. Working(n) /\ Active(n)
  BY <1>1, <1>7 DEF Working, Active
<1>15. /\ t.mine \subseteq DOMAIN t.legs /\ t.got \in [DOMAIN t.legs -> Nat]
       /\ \A k \in DOMAIN t.legs : Key(t.legs[k]) \in Keys
       /\ \A x \in KeysOf(n) : \E k \in t.mine : x = Key(t.legs[k])
       /\ \A k \in t.mine : Key(t.legs[k]) \in KeysOf(n)
  BY <1>1, OwnKeys DEF Deep, Known, TakeSound, KeysOf
<1>16. /\ \A k \in t.mine : wf[Key(t.legs[k])] = wing_filled[Key(t.legs[k])] + t.got[k]
       /\ \A x \in Keys \ KeysOf(n) : wf[x] = wing_filled[x]
  BY <1>1, <1>2, TableAdds
<1>17. wf \in [Keys -> Nat] /\ \A x \in Keys : wf[x] >= wing_filled[x]
  <2>1. ASSUME NEW x \in Keys PROVE wf[x] \in Nat /\ wf[x] >= wing_filled[x]
    <3>1. CASE x \in KeysOf(n)
      <4>1. PICK k \in t.mine : x = Key(t.legs[k])
        BY <1>15, <3>1
      <4>2. t.got[k] \in Nat /\ wing_filled[x] \in Nat
        BY <1>13, <1>15
      <4> QED
        BY <1>16, <4>1, <4>2
    <3>2. CASE x \notin KeysOf(n)
      <4>1. wing_filled[x] \in Nat
        BY <1>13
      <4> QED
        BY <1>16, <3>2, <4>1
    <3> QED
      BY <3>1, <3>2
  <2>2. \E F : wf = [x \in Keys |-> F[x]]
    BY <1>2
  <2> QED
    BY <1>2, <2>1, <2>2
<1>18. \A k \in t.mine : Worked(n, k)
  BY <1>1, <1>13, <1>14
<1>19. ASSUME NEW k \in t.mine
       PROVE  LET x == Key(t.legs[k])
              IN /\ wf[x] <= t.legs[k].count /\ Cardinality(Read(x)) >= wf[x]
                 /\ Cardinality(Ours(x)) <= wf[x] + missed
  <2>1. PICK x, g : x = Key(t.legs[k]) /\ g = t.got[k]
    OBVIOUS
  <2>2. /\ wing_filled[x] + g <= t.legs[k].count
        /\ Cardinality(Read(x)) >= wing_filled[x] + g
        /\ Cardinality(Ours(x)) <= wing_filled[x] + g + 0 + missed
    BY <1>1, <1>7, <1>18, <2>1 DEF Worked
  <2>3. wing_filled[x] \in Nat /\ g \in Nat /\ missed \in Nat
    BY <1>13, <1>15, <2>1
  <2>4. wf[x] = wing_filled[x] + g
    BY <1>16, <2>1
  <2> QED
    BY <2>1, <2>2, <2>3, <2>4
<1>20. \A m \in DOMAIN takes : m # n /\ Working(m) => KeysOf(m) \cap KeysOf(n) = {}
  BY <1>14, OwnKeys DEF Working, Active
<1>21. /\ State' = State /\ legs' = legs /\ batches' = batches
       /\ \A x : Ours(x)' = Ours(x) /\ Read(x)' = Read(x)
       /\ \A m, x : Own(m, x)' = Own(m, x) /\ Unread(m, x)' = Unread(m, x)
       /\ \A l : Market(l)' = Market(l)
  BY <1>7 DEF core, State, Ours, Read, Own, Unread, Market
<1>22. \A m \in DOMAIN takes : m # n => /\ Working(m)' <=> Working(m)
                                        /\ KeysOf(m)' = KeysOf(m)
  BY <1>12 DEF Working, KeysOf, Key
<1>23. ~Working(n)'
  BY <1>10, <1>12 DEF Working
<1> HIDE <1>2, <1>4, <1>5, <1>8, <1>11
<1>24. CoreFits'
  <2>1. PICK s : s = State
    OBVIOUS
  <2>2. CoreTrue(s) /\ s = State' /\ Len(batches) <= MaxBatches /\ s.batches = batches
    BY <1>21, <2>1 DEF Deep, CoreFits, State
  <2>3. \A k \in DOMAIN s.legs : Key(s.legs[k]) \in Keys /\ s.legs[k].count \in Nat
    BY <2>2, LegKeys DEF CoreTrue
  <2>4. ASSUME NEW k \in DOMAIN s.legs,
               \/ s.legs[k].status = "filled" \/ s.legs[k].netted > 0
               \/ s.batches[s.legs[k].batch].completed
        PROVE  wing_filled'[Key(s.legs[k])] >= s.legs[k].count
    <3>1. wing_filled[Key(s.legs[k])] >= s.legs[k].count
      BY <2>2, <2>4 DEF CoreTrue, Covered
    <3>2. PICK x \in Keys : x = Key(s.legs[k])
      BY <2>3
    <3>3. wf[x] \in Nat /\ wing_filled[x] \in Nat /\ wf[x] >= wing_filled[x]
      BY <1>13, <1>17
    <3> QED
      BY <1>6, <2>3, <3>1, <3>2, <3>3
  <2>5. Covered(State)'
    BY <2>2, <2>4 DEF Covered, Key
  <2>6. CoreSound(State)' /\ Balanced(State)'
    BY <2>2 DEF CoreTrue
  <2> QED
    BY <1>21, <2>2, <2>5, <2>6 DEF CoreFits, CoreTrue
<1>25. \A m \in DOMAIN takes : Fits(State, takes[m]) /\ TakeSound(m)
  BY DEF Deep, Known, TakeSound
<1>26. ASSUME NEW m \in DOMAIN takes, m # n PROVE TakeSound(m)'
  <2>1. PICK u : u = takes[m] /\ u = takes'[m]
    BY <1>12, <1>26
  <2>2. Fits(State, u)'
    BY <1>21, <1>25, <2>1
  <2>3. \A k \in u.mine : Key(u.legs[k]) \in Keys /\ u.legs[k].count \in Nat
    BY <2>1, OwnKeys
  <2>4. Answered(u) => Answered(u)'
    <3>1. SUFFICES ASSUME Answered(u), NEW k \in u.mine, u.got[k] > 0
                   PROVE  wing_filled'[Key(u.legs[k])] >= u.legs[k].count
      BY DEF Answered, Key
    <3>2. wing_filled[Key(u.legs[k])] >= u.legs[k].count
      BY <3>1 DEF Answered
    <3>3. PICK x \in Keys : x = Key(u.legs[k])
      BY <2>3
    <3>4. wf[x] \in Nat /\ wing_filled[x] \in Nat /\ wf[x] >= wing_filled[x]
      BY <1>13, <1>17
    <3> QED
      BY <1>6, <2>3, <3>2, <3>3, <3>4
  <2>5. TakeSound(m)
    BY <1>25
  <2> QED
    BY <2>1, <2>2, <2>4, <2>5 DEF TakeSound
<1>27. TakeSound(n)'
  <2>1. Fits(State, e)'
    <3>1. PICK s : s = State
      OBVIOUS
    <3>2. Fits(s, e)
      BY <1>1, <1>10, <1>25, <3>1, FitsSame
    <3> QED
      BY <1>21, <3>1, <3>2
  <2>2. /\ DOMAIN got = DOMAIN t.legs
        /\ \A k \in DOMAIN t.legs :
             got[k] = IF k \in filled THEN wing_filled[Key(t.legs[k])] +
               Total(Restrict(t.got, { j \in t.mine : Key(t.legs[j]) = Key(t.legs[k]) })) ELSE 0
    BY <1>5
  <2>0. got = [k \in DOMAIN t.legs |-> got[k]]
    <3> DEFINE Z(k) == IF k \in filled THEN wing_filled[Key(t.legs[k])] +
               Total(Restrict(t.got, { j \in t.mine : Key(t.legs[j]) = Key(t.legs[k]) })) ELSE 0
    <3>1. got = [k \in DOMAIN t.legs |-> Z(k)]
      BY <1>5
    <3> HIDE DEF Z
    <3> QED
      BY <3>1
  <2>3. ASSUME NEW k \in DOMAIN t.legs PROVE got[k] = IF k \in filled THEN wf[Key(t.legs[k])] ELSE 0
    <3>1. PICK x \in Keys : x = Key(t.legs[k])
      BY <1>15
    <3>2. wf[x] = wing_filled[x] + Total(Restrict(t.got, { j \in t.mine : Key(t.legs[j]) = x }))
      BY <1>2
    <3> QED
      BY <2>2, <3>1, <3>2
  <2>4. got \in [DOMAIN t.legs -> Nat]
    <3>1. \A k \in DOMAIN t.legs : got[k] \in Nat
      BY <1>15, <1>17, <2>3
    <3> QED
      BY <2>0, <3>1
  <2>5. ASSUME NEW k \in t.mine, got[k] > 0 PROVE wf[Key(t.legs[k])] >= t.legs[k].count
    <3>1. k \in DOMAIN t.legs /\ k \in filled
      BY <1>15, <2>3, <2>5
    <3>2. PICK x \in Keys : x = Key(t.legs[k])
      BY <1>15, <3>1
    <3>3. t.got[k] >= t.legs[k].count - wing_filled[x]
      BY <1>3, <3>1, <3>2 DEF Remaining
    <3>4. t.legs[k].count \in Nat /\ t.got[k] \in Nat /\ wing_filled[x] \in Nat
      BY <1>1, <1>13, <1>15, <3>1, OwnKeys
    <3> QED
      BY <1>16, <3>2, <3>3, <3>4
  <2>6. Answered(e)'
    BY <1>6, <1>10, <1>15, <2>4, <2>5 DEF Answered, Key
  <2> QED
    BY <1>10, <1>12, <2>1, <2>4, <2>6 DEF TakeSound
<1>28. Known'
  BY <1>12, <1>26, <1>27 DEF Known
<1>29. \A o \in orders' : OrderSound(o)'
  <2>1. ASSUME NEW o \in orders PROVE OrderSound(o)'
    <3>1. OrderSound(o)
      BY <1>13
    <3>2. o.take \in DOMAIN takes' /\ takes'[o.take].stage \notin {"dispatched", "sending"}
      BY <1>10, <1>12, <3>1 DEF OrderSound
    <3>3. \E k \in DOMAIN legs' : o.leg = Key(legs'[k]) /\ o.market = Market(legs[k])'
      BY <1>21, <3>1 DEF OrderSound
    <3>4. Working(o.take)' => o.leg \in KeysOf(o.take)'
      BY <1>22, <1>23, <3>1 DEF OrderSound
    <3>5. takes'[o.take].stage = "sent" => o \notin known'
      BY <1>7, <1>10, <1>12, <3>1 DEF OrderSound
    <3> QED
      BY <3>2, <3>3, <3>4, <3>5 DEF OrderSound, Key
  <2> QED
    BY <1>7, <2>1
<1>30. \A k \in DOMAIN legs' : Bounded(k)'
  <2>1. ASSUME NEW k \in DOMAIN legs PROVE Bounded(k)'
    <3>1. PICK x : x = Key(legs[k])
      OBVIOUS
    <3>2. wing_filled[x] <= legs[k].count /\ Cardinality(Ours(x)) <= legs[k].count + missed
      BY <1>13, <3>1 DEF Bounded
    <3>3. x \in Keys
      BY <3>1, LegKeys DEF Deep, CoreFits, CoreTrue, State
    <3>4. wf[x] <= legs[k].count
      <4>1. CASE x \in KeysOf(n)
        <5>1. PICK j \in t.mine : x = Key(t.legs[j])
          BY <1>15, <4>1
        <5>2. j \in DOMAIN legs /\ Key(legs[j]) = x /\ t.legs[j].count = legs[j].count
          BY <1>1, <1>15, <5>1, OwnKeys
        <5>3. j = k
          BY <3>1, <5>2, LegKeys DEF Deep, CoreFits, CoreTrue, State
        <5> QED
          BY <1>19, <5>1, <5>2, <5>3
      <4>2. CASE x \notin KeysOf(n)
        BY <1>16, <3>2, <3>3, <4>2
      <4> QED
        BY <4>1, <4>2
    <3> QED
      BY <1>6, <1>7, <1>21, <3>1, <3>2, <3>4 DEF Bounded, Key
  <2> QED
    BY <1>21, <2>1
<1>31. ASSUME NEW x \in Keys, ~Held(x)' PROVE Settled(x)'
  <2>1. Cardinality(Read(x)) >= wf[x] /\ Cardinality(Ours(x)) <= wf[x] + missed
    <3>1. CASE x \in KeysOf(n)
      BY <1>15, <1>19, <3>1
    <3>2. CASE x \notin KeysOf(n)
      <4>1. ~Held(x)
        BY <1>12, <1>22, <1>31, <3>2 DEF Held
      <4> QED
        BY <1>13, <1>16, <3>2, <4>1 DEF Settled
    <3> QED
      BY <3>1, <3>2
  <2> QED
    BY <1>6, <1>7, <1>21, <2>1 DEF Settled
<1>32. ASSUME NEW m \in DOMAIN takes, Working(m)', NEW k \in takes'[m].mine PROVE Worked(m, k)'
  <2>1. m # n /\ Working(m) /\ takes'[m] = takes[m] /\ Worked(m, k)
    BY <1>12, <1>13, <1>22, <1>23, <1>32
  <2>2. PICK l, x, g, own : /\ l = takes[m].legs[k] /\ x = Key(l) /\ g = takes[m].got[k]
                            /\ own = { Chunk(m, l, c) : c \in 1..g }
    OBVIOUS
  <2>3. x \in Keys /\ x \notin KeysOf(n)
    BY <1>20, <2>1, <2>2, OwnKeys DEF KeysOf
  <2>4. wing_filled'[x] = wing_filled[x] /\ missed' = missed
    BY <1>6, <1>7, <1>16, <2>3
  <2>5. own = { Chunk(m, l, c)' : c \in 1..g }
    <3>1. \A c : Chunk(m, l, c)' = Chunk(m, l, c)
      BY <1>21 DEF Chunk, Key
    <3> QED
      BY <2>2, <3>1
  <2>6. /\ wing_filled[x] + g <= l.count
        /\ Cardinality(Read(x)) >= wing_filled[x] + (IF takes[m].stage = "sent" THEN 0 ELSE g)
        /\ Cardinality(Ours(x)) <= wing_filled[x] + g
             + (IF k \in takes[m].lost THEN Cardinality(Unread(m, x)) ELSE 0) + missed
        /\ takes[m].stage = "sent" => Own(m, x) = own
    BY <2>1, <2>2 DEF Worked
  <2>7. /\ (wing_filled[x] + g <= l.count)'
        /\ (Cardinality(Read(x)) >= wing_filled[x] + (IF takes[m].stage = "sent" THEN 0 ELSE g))'
        /\ (Cardinality(Ours(x)) <= wing_filled[x] + g
             + (IF k \in takes[m].lost THEN Cardinality(Unread(m, x)) ELSE 0) + missed)'
        /\ (takes[m].stage = "sent" => Own(m, x) = own)'
    BY <1>21, <2>1, <2>4, <2>6
  <2>8. l = takes'[m].legs[k] /\ x = Key(l)' /\ g = takes'[m].got[k] /\ own = { Chunk(m, l, c)' : c \in 1..g }
    BY <2>1, <2>2, <2>5 DEF Key
  <2> QED
    BY <2>7, <2>8 DEF Worked
<1>33. Counted'
  <2>1. /\ (wing_filled \in [Keys -> Nat])' /\ (missed \in Nat)' /\ (~Lossy => missed = 0)'
        /\ (IsFiniteSet(orders))' /\ (known \subseteq orders)'
    BY <1>6, <1>7, <1>13, <1>17 DEF Deep, Counted
  <2> QED
    BY <1>12, <1>29, <1>30, <1>31, <1>32, <2>1 DEF Counted
<1> QED
  BY <1>24, <1>28, <1>33

-----------------------------------------------------------------------------
(* The steps that neither send nor count *)

\* A take that is dispatched fits the state it was dispatched with.
LEMMA DispatchedFits ==
  ASSUME NEW s, CoreSound(s), NEW e, e = Dispatched(s)
  PROVE  /\ Fits(s, e) /\ e.got \in [DOMAIN e.legs -> Nat] /\ \A k \in DOMAIN e.legs : e.got[k] = 0
         /\ e.stage = "dispatched" /\ e.lost = {} /\ e.mine = {}
<1>1. PICK P : P = { k \in DOMAIN s.legs : s.legs[k].status = "pending" }
  OBVIOUS
<1>2. PICK ls : ls = Restrict(s.legs, P)
  OBVIOUS
<1>3. PendingLegs(s) = ls
  BY <1>1, <1>2 DEF PendingLegs
<1>4. e = [stage |-> "dispatched", legs |-> ls, mine |-> {}, got |-> [k \in DOMAIN ls |-> 0], lost |-> {}]
  BY <1>3 DEF Dispatched
<1>5. DOMAIN ls = P /\ \A k \in P : ls[k] = s.legs[k]
  BY <1>2, Parts
<1>6. ASSUME NEW k \in P
      PROVE  /\ k \in DOMAIN s.legs /\ s.legs[k].coid \in 1..s.coid_seq
             /\ \A j \in DOMAIN s.legs : s.legs[j].coid = s.legs[k].coid => j = k
  <2>1. k \in DOMAIN s.legs /\ s.legs[k].status = "pending"
    BY <1>1
  <2>2. LegSound(s, k) /\ s.legs[k] \in Leg /\ s.coid_seq \in Nat
    BY <2>1 DEF CoreSound, CoreShape
  <2>3. s.legs[k].coid \in Nat /\ s.legs[k].coid # None /\ s.legs[k].coid <= s.coid_seq
    BY <2>1, <2>2 DEF LegSound, Leg
  <2>4. s.legs[k].coid \in 1..s.coid_seq
    BY <2>2, <2>3 DEF None
  <2> QED
    BY <2>1, <2>3, <2>4 DEF CoreSound, Alone
<1>7. e.legs = ls /\ e.mine = {}
  BY <1>4
<1>8. Fits(s, e)
  BY <1>5, <1>6, <1>7 DEF Fits
<1> QED
  BY <1>4, <1>8

\* A decision is handed over with its take, if it has one.
LEMMA PumpKeeps ==
  ASSUME Deep, NEW s, CoreTrue(s), Keeps(State, s), _pump_async(s),
         UNCHANGED <<wing_filled, known, orders, missed>>
  PROVE  CoreFits' /\ Known' /\ Counted'
<1>1. /\ group' = s.group /\ batches' = s.batches /\ legs' = s.legs /\ coid_seq' = s.coid_seq
      /\ Len(s.batches) <= MaxBatches
  BY DEF _pump_async
<1>2. CoreFits'
  BY <1>1, CoreHanded DEF CoreFits
<1>3. PICK u : u = State'
  OBVIOUS
<1>4. u = [group |-> s.group, batches |-> s.batches, legs |-> s.legs, coid_seq |-> s.coid_seq,
           out |-> FALSE]
  BY <1>1, <1>3 DEF State
<1>5. Keeps(State, u)
  BY <1>4 DEF Keeps
<1>6. CoreSound(u) /\ CoreSound(State)
  BY <1>2, <1>3 DEF CoreFits, CoreTrue, Deep
<1>7. PICK e : e = Dispatched(s)
  OBVIOUS
<1>8. takes' = takes \/ takes' = Append(takes, e)
  BY <1>7 DEF _pump_async
<1>9. /\ DOMAIN takes \subseteq DOMAIN takes'
      /\ \A n \in DOMAIN takes : takes'[n] = takes[n]
      /\ \A n \in DOMAIN takes' \ DOMAIN takes : takes'[n] = e
  <2>1. PICK S : takes \in Seq(S)
    BY DEF Deep, Inv, TakesShape
  <2>2. takes \in Seq(S \cup {e}) /\ e \in S \cup {e}
    BY <2>1
  <2>3. CASE takes' = Append(takes, e)
    <3>1. /\ DOMAIN takes = 1..Len(takes) /\ DOMAIN takes' = 1..(Len(takes) + 1) /\ Len(takes) \in Nat
          /\ \A n \in DOMAIN takes : takes'[n] = takes[n]
          /\ takes'[Len(takes) + 1] = e
      BY <2>2, <2>3
    <3> QED
      BY <3>1
  <2> QED
    BY <1>8, <2>3
<1>10. /\ Fits(s, e) /\ e.got \in [DOMAIN e.legs -> Nat] /\ \A k \in DOMAIN e.legs : e.got[k] = 0
       /\ e.stage = "dispatched" /\ e.lost = {} /\ e.mine = {}
  BY <1>7, DispatchedFits DEF CoreTrue
<1>11. ASSUME NEW n \in DOMAIN takes PROVE TakeSound(n)'
  <2>1. PICK t : t = takes[n] /\ t = takes'[n]
    BY <1>9
  <2>2. TakeSound(n) /\ Fits(State, t)
    BY <2>1 DEF Deep, Known, TakeSound
  <2>3. Fits(u, t)
    BY <1>5, <1>6, <2>2, FitsOn
  <2>4. Fits(State, t)'
    BY <1>3, <2>3
  <2>5. Answered(t)' <=> Answered(t)
    BY DEF Answered, Key
  <2> QED
    BY <2>1, <2>2, <2>4, <2>5 DEF TakeSound
<1>12. ASSUME NEW n \in DOMAIN takes' \ DOMAIN takes PROVE TakeSound(n)'
  <2>1. takes'[n] = e
    BY <1>9
  <2>2. Fits(u, e)
    BY <1>4, <1>10 DEF Fits
  <2>3. Fits(State, e)'
    BY <1>3, <2>2
  <2> QED
    BY <1>10, <2>1, <2>3 DEF TakeSound
<1>13. Known'
  BY <1>11, <1>12 DEF Known
<1>14. \A n \in DOMAIN takes' : Working(n)' => n \in DOMAIN takes /\ Working(n)
  BY <1>9, <1>10 DEF Working
<1>15. Keeps(State, State')
  BY <1>3, <1>5
<1>16. Counted'
  BY <1>2, <1>9, <1>14, <1>15, QuietKeeps DEF Deep, Known
<1> QED
  BY <1>2, <1>13, <1>16

\* Every decision is such a step.
LEMMA DecisionKeeps ==
  ASSUME Deep, NEW s, Decides(State, s), _pump_async(s),
         UNCHANGED <<wing_filled, known, orders, missed>>
  PROVE  /\ CoreFits' /\ Known' /\ Counted'
         /\ LotsOf(State, Finished(State))' = LotsOf(State, Finished(State))
<1>1. PICK r : r = State
  OBVIOUS
<1>2. CoreTrue(r) /\ CoreSound(s) /\ Grows(r, s)
  BY <1>1 DEF Deep, CoreFits, Decides
<1>3. CoreTrue(s) /\ LotsOf(s, Finished(s)) = LotsOf(r, Finished(r))
  BY <1>2, GrowsTrue DEF CoreTrue
<1>4. Keeps(State, s)
  BY <1>1, <1>2, GrowsKeeps
<1>5. PICK u : u = State'
  OBVIOUS
<1>6. u.batches = s.batches
  BY <1>5 DEF State, _pump_async
<1>7. LotsOf(u, Finished(u)) = LotsOf(s, Finished(s))
  BY <1>6 DEF LotsOf, Finished
<1> QED
  BY <1>1, <1>3, <1>4, <1>5, <1>7, PumpKeeps

\* A take that is not waiting for answers goes on, and the core may book its report.
LEMMA TakeGoesOn ==
  ASSUME Deep, NEW n \in DOMAIN takes, NEW e, NEW s, takes' = [takes EXCEPT ![n] = e],
         CoreTrue(s), Keeps(State, s), Len(s.batches) <= MaxBatches,
         group' = s.group, batches' = s.batches, legs' = s.legs, coid_seq' = s.coid_seq,
         UNCHANGED <<wing_filled, known, orders, missed>>,
         ~Working(n), e.stage \notin {"sent", "confirming"},
         takes[n].stage \notin {"dispatched", "sending"} => e.stage \notin {"dispatched", "sending"},
         Fits(State, e), e.got \in [DOMAIN e.legs -> Nat], \A k \in DOMAIN e.legs : e.got[k] = 0,
         e.lost = {}
  PROVE  CoreFits' /\ Known' /\ Counted'
<1>1. CoreFits'
  BY CoreHanded DEF CoreFits
<1>2. PICK u : u = State'
  OBVIOUS
<1>3. u = [group |-> s.group, batches |-> s.batches, legs |-> s.legs, coid_seq |-> s.coid_seq,
           out |-> FALSE]
  BY <1>2 DEF State
<1>4. Keeps(State, u)
  BY <1>3 DEF Keeps
<1>5. CoreSound(u) /\ CoreSound(State)
  BY <1>1, <1>2 DEF CoreFits, CoreTrue, Deep
<1>6. /\ DOMAIN takes' = DOMAIN takes /\ takes'[n] = e
      /\ \A m \in DOMAIN takes : m # n => takes'[m] = takes[m]
  <2>1. \E S : takes \in Seq(S)
    BY DEF Deep, Inv, TakesShape
  <2> QED
    BY <2>1
<1>7. ASSUME NEW m \in DOMAIN takes, m # n PROVE TakeSound(m)'
  <2>1. PICK t : t = takes[m] /\ t = takes'[m]
    BY <1>6, <1>7
  <2>2. TakeSound(m) /\ Fits(State, t)
    BY <2>1 DEF Deep, Known, TakeSound
  <2>3. Fits(u, t)
    BY <1>4, <1>5, <2>2, FitsOn
  <2>4. Fits(State, t)'
    BY <1>2, <2>3
  <2>5. Answered(t)' <=> Answered(t)
    BY DEF Answered, Key
  <2> QED
    BY <2>1, <2>2, <2>4, <2>5 DEF TakeSound
<1>8. TakeSound(n)'
  <2>1. Fits(u, e)
    BY <1>4, <1>5, FitsOn
  <2>2. Fits(State, e)'
    BY <1>2, <2>1
  <2>3. Answered(e)'
    BY DEF Answered, Fits
  <2> QED
    BY <1>6, <2>2, <2>3 DEF TakeSound
<1>9. Known'
  BY <1>6, <1>7, <1>8 DEF Known
<1>10. /\ DOMAIN takes \subseteq DOMAIN takes'
       /\ \A m \in DOMAIN takes : /\ Working(m) => takes'[m] = takes[m]
                                  /\ takes[m].stage \notin {"dispatched", "sending"}
                                       => takes'[m].stage \notin {"dispatched", "sending"}
       /\ \A m \in DOMAIN takes' : Working(m)' => m \in DOMAIN takes /\ Working(m)
  BY <1>6 DEF Working
<1>11. Keeps(State, State')
  BY <1>2, <1>4
<1>12. \A m \in DOMAIN takes : TakeSound(m)
  BY DEF Deep, Known
<1>13. Counted'
  BY <1>1, <1>10, <1>11, <1>12, QuietKeeps DEF Deep
<1> QED
  BY <1>1, <1>9, <1>13

\* the same when the core is left alone
LEMMA CoreStays ==
  ASSUME Deep, NEW n \in DOMAIN takes, NEW e, takes' = [takes EXCEPT ![n] = e],
         UNCHANGED core, UNCHANGED <<wing_filled, known, orders, missed>>,
         ~Working(n), e.stage \notin {"sent", "confirming"},
         takes[n].stage \notin {"dispatched", "sending"} => e.stage \notin {"dispatched", "sending"},
         Fits(State, e), e.got \in [DOMAIN e.legs -> Nat], \A k \in DOMAIN e.legs : e.got[k] = 0,
         e.lost = {}
  PROVE  CoreFits' /\ Known' /\ Counted'
<1>1. PICK s : s = State
  OBVIOUS
<1>2. CoreTrue(s) /\ Len(s.batches) <= MaxBatches
  BY <1>1 DEF Deep, CoreFits, State
<1>3. Keeps(State, s)
  <2>1. Books(s, s)
    BY DEF Books
  <2> QED
    BY <1>1, <1>2, <2>1, BooksKeeps DEF CoreTrue
<1>4. group' = s.group /\ batches' = s.batches /\ legs' = s.legs /\ coid_seq' = s.coid_seq
  BY <1>1 DEF core, State
<1> QED
  BY <1>2, <1>3, <1>4, TakeGoesOn

LEMMA DoneFits == Fits(State, Done) /\ Done.got \in [DOMAIN Done.legs -> Nat] /\ Done.lost = {}
                  /\ Done.stage = "done" /\ (\A k \in DOMAIN Done.legs : Done.got[k] = 0)
<1>1. DOMAIN <<>> = {}
  OBVIOUS
<1>2. Done.legs = <<>> /\ Done.got = <<>> /\ Done.mine = {} /\ Done.lost = {} /\ Done.stage = "done"
  BY DEF Done
<1>3. <<>> \in [{} -> Nat]
  OBVIOUS
<1> QED
  BY <1>1, <1>2, <1>3 DEF Fits

\* Inside the backoff window every leg is reported as it was handed over.
LEMMA SkipKeeps ==
  ASSUME Deep, NEW n \in DOMAIN takes, BackoffSkip(n)
  PROVE  CoreFits' /\ Known' /\ Counted'
<1>1. PICK t : t = takes[n]
  OBVIOUS
<1>2. PICK e : e = [t EXCEPT !.stage = "returned", !.mine = DOMAIN t.legs]
  OBVIOUS
<1>3. DOMAIN t = Fields
  BY <1>1 DEF Deep, Inv, TakesShape
<1>4. e.stage = "returned" /\ e.legs = t.legs /\ e.mine = DOMAIN t.legs /\ e.got = t.got /\ e.lost = t.lost
  BY <1>2, <1>3 DEF Fields
<1>5. takes' = [takes EXCEPT ![n] = e] /\ UNCHANGED core /\ t.stage = "dispatched"
      /\ UNCHANGED <<wing_filled, known, orders, missed>>
  BY <1>1, <1>2 DEF BackoffSkip, Starts, Stage, executor, exchange
<1>6. TakeSound(n)
  BY DEF Deep, Known
<1>7. e.got \in [DOMAIN e.legs -> Nat] /\ (\A k \in DOMAIN e.legs : e.got[k] = 0) /\ e.lost = {}
  BY <1>1, <1>4, <1>5, <1>6 DEF TakeSound
<1>8. Fits(State, e)
  BY <1>1, <1>4, <1>6 DEF TakeSound, Fits
<1>9. ~Working(n)
  BY <1>1, <1>5 DEF Working
<1> QED
  BY <1>4, <1>5, <1>7, <1>8, <1>9, CoreStays

\* A take claims legs, or has none to send.
LEMMA ClaimDeep ==
  ASSUME Deep, NEW n \in DOMAIN takes, Claim(n)
  PROVE  CoreFits' /\ Known' /\ Counted'
<1>1. PICK t : t = takes[n]
  OBVIOUS
<1>2. PICK ks : ks = Unclaimed(n)
  OBVIOUS
<1>3. ks \subseteq DOMAIN t.legs
  BY <1>1, <1>2 DEF Unclaimed
<1>4. PICK e : e = [t EXCEPT !.stage = "sending", !.mine = ks]
  OBVIOUS
<1>5. DOMAIN t = Fields
  BY <1>1 DEF Deep, Inv, TakesShape
<1>6. e.stage = "sending" /\ e.legs = t.legs /\ e.mine = ks /\ e.got = t.got /\ e.lost = t.lost
  BY <1>4, <1>5 DEF Fields
<1>7. /\ takes' = [takes EXCEPT ![n] = e] \/ takes' = [takes EXCEPT ![n] = Done]
      /\ UNCHANGED core /\ t.stage = "dispatched" /\ UNCHANGED <<wing_filled, known, orders, missed>>
  BY <1>1, <1>2, <1>4 DEF Claim, ClaimLegs, Starts, Stage, exchange
<1>8. TakeSound(n)
  BY DEF Deep, Known
<1>9. e.got \in [DOMAIN e.legs -> Nat] /\ (\A k \in DOMAIN e.legs : e.got[k] = 0) /\ e.lost = {}
  BY <1>1, <1>6, <1>7, <1>8 DEF TakeSound
<1>10. Fits(State, e)
  BY <1>1, <1>3, <1>6, <1>8 DEF TakeSound, Fits
<1>11. ~Working(n)
  BY <1>1, <1>7 DEF Working
<1>12. CASE takes' = [takes EXCEPT ![n] = e]
  BY <1>1, <1>6, <1>7, <1>9, <1>10, <1>11, <1>12, CoreStays
<1>13. CASE takes' = [takes EXCEPT ![n] = Done]
  BY <1>7, <1>11, <1>13, DoneFits, CoreStays
<1> QED
  BY <1>7, <1>12, <1>13

\* Nothing that the account is about changes.
LEMMA StillKeeps ==
  ASSUME Deep, UNCHANGED core, UNCHANGED <<takes, wing_filled, known, orders, missed>>
  PROVE  CoreFits' /\ Known' /\ Counted'
<1>1. PICK s : s = State
  OBVIOUS
<1>2. s = State'
  BY <1>1 DEF State, core
<1>3. CoreFits'
  <2>1. CoreTrue(State)'
    <3>1. CoreTrue(s) /\ group' = s.group /\ batches' = s.batches /\ legs' = s.legs /\ coid_seq' = s.coid_seq
      BY <1>1 DEF Deep, CoreFits, core, State
    <3> QED
      BY <3>1, CoreHanded
  <2> QED
    BY <2>1 DEF CoreFits, Deep, core
<1>4. Keeps(State, State')
  <2>1. Books(s, s)
    BY DEF Books
  <2> QED
    BY <1>1, <1>2, <2>1, BooksKeeps DEF Deep, CoreFits, CoreTrue
<1>5. \A n \in DOMAIN takes' : Working(n)' => Working(n)
  BY DEF Working
<1>6. ASSUME NEW n \in DOMAIN takes PROVE TakeSound(n)'
  <2>1. PICK t : t = takes[n]
    OBVIOUS
  <2>2. TakeSound(n) /\ Fits(s, t)
    BY <1>1, <2>1 DEF Deep, Known, TakeSound
  <2>3. Fits(State, t)'
    BY <1>2, <2>2
  <2>4. Answered(t)' <=> Answered(t)
    BY DEF Answered, Key
  <2> QED
    BY <2>1, <2>2, <2>3, <2>4 DEF TakeSound
<1>7. Counted'
  BY <1>3, <1>4, <1>5, QuietKeeps DEF Deep, Known
<1> QED
  BY <1>3, <1>6, <1>7 DEF Known

\* A total over two parts is the sum of their totals.
LEMMA TotalSplit ==
  ASSUME NEW f, Summable(f), NEW A, NEW B, A \cup B = DOMAIN f, A \cap B = {}
  PROVE  Total(f) = Total(Restrict(f, A)) + Total(Restrict(f, B))
<1>1. PICK a, b : /\ a = [x \in DOMAIN f |-> IF x \in A THEN f[x] ELSE 0]
                  /\ b = [x \in DOMAIN f |-> IF x \in B THEN f[x] ELSE 0]
  OBVIOUS
<1>2. /\ DOMAIN a = DOMAIN f /\ DOMAIN b = DOMAIN f
      /\ \A x \in DOMAIN f : a[x] = (IF x \in A THEN f[x] ELSE 0) /\ b[x] = IF x \in B THEN f[x] ELSE 0
  BY <1>1
<1>3. \A x \in DOMAIN f : f[x] \in Int
  BY DEF Summable
<1>4. Summable(a) /\ Summable(b)
  BY <1>2, <1>3 DEF Summable
<1>5. \A x \in DOMAIN f : f[x] = a[x] + b[x]
  BY <1>2, <1>3
<1>6. Total(f) = Total(a) + Total(b)
  BY <1>2, <1>4, <1>5, TotalPlus
<1>7. PICK p, q : p = Restrict(f, A) /\ q = Restrict(f, B)
  OBVIOUS
<1>8. /\ DOMAIN p = A /\ \A x \in A : p[x] = f[x]
      /\ DOMAIN q = B /\ \A x \in B : q[x] = f[x]
  BY <1>7, Parts
<1>9. Total(a) = Total(p)
  BY <1>2, <1>4, <1>8, TotalZeros
<1>10. Total(b) = Total(q)
  BY <1>2, <1>4, <1>8, TotalZeros
<1> QED
  BY <1>6, <1>7, <1>9, <1>10

\* The lots of the batches that a report completes.
LEMMA LotsClosed ==
  ASSUME NEW r, NEW s, CoreSound(r), Books(r, s), NEW closed,
         closed = { i \in DOMAIN r.batches : s.batches[i].completed /\ ~r.batches[i].completed }
  PROVE  LotsOf(s, Finished(s)) = LotsOf(r, Finished(r)) + LotsOf(r, closed)
<1>1. PICK f, A : A = Finished(r) /\ f = [i \in A \cup closed |-> Total(r.batches[i].lots)]
  OBVIOUS
<1>2. Finished(s) = A \cup closed /\ A \cap closed = {} /\ A \subseteq DOMAIN r.batches
      /\ closed \subseteq DOMAIN r.batches
  BY <1>1 DEF Finished, Books
<1>3. DOMAIN f = A \cup closed /\ \A i \in A \cup closed : f[i] = Total(r.batches[i].lots)
  BY <1>1
<1>4. Summable(f)
  <2>1. r.batches \in Seq(Batch) /\ \A i \in DOMAIN r.batches : Total(r.batches[i].lots) \in Nat
    BY DEF CoreSound, CoreShape
  <2>2. IsFiniteSet(DOMAIN r.batches)
    BY <2>1, FiniteUpTo
  <2>3. IsFiniteSet(A \cup closed)
    BY <1>2, <2>2, FS_Subset
  <2> QED
    BY <1>2, <1>3, <2>1, <2>3 DEF Summable
<1>5. Total(f) = Total(Restrict(f, A)) + Total(Restrict(f, closed))
  BY <1>2, <1>3, <1>4, TotalSplit
<1>6. /\ Restrict(f, A) = [i \in A |-> Total(r.batches[i].lots)]
      /\ Restrict(f, closed) = [i \in closed |-> Total(r.batches[i].lots)]
  BY <1>3 DEF Restrict
<1>7. f = [i \in Finished(s) |-> Total(s.batches[i].lots)]
  BY <1>1, <1>2 DEF Books
<1> QED
  BY <1>1, <1>5, <1>6, <1>7 DEF LotsOf

\* The report of a take is booked.
LEMMA IngestKeeps ==
  ASSUME Deep, NEW n \in DOMAIN takes, _ingest_async(n), sets_done = LotsOf(State, Finished(State))
  PROVE  /\ CoreFits' /\ Known' /\ Counted'
         /\ (sets_done = LotsOf(State, Finished(State)))'
<1>1. PICK t, r, s : t = takes[n] /\ r = State /\ s = Final(t)
  OBVIOUS
<1>2. t.stage = "returned" /\ takes' = [takes EXCEPT ![n] = Done]
      /\ UNCHANGED <<group, coid_seq, wing_filled, known, orders, missed>>
  BY <1>1 DEF _ingest_async, Stage, executor, exchange
<1>3. PICK closed : closed = { i \in DOMAIN batches : s.batches[i].completed /\ ~batches[i].completed }
  OBVIOUS
<1>4. /\ batches' = s.batches /\ legs' = s.legs
      /\ sets_done' = sets_done + Total([i \in closed |-> Total(batches[i].lots)])
  BY <1>1, <1>3 DEF _ingest_async, Final
<1>5. Fits(State, t) /\ Answered(t) /\ CoreTrue(State)
  BY <1>1, <1>2 DEF Deep, Known, TakeSound, CoreFits
<1>6. CoreTrue(s) /\ Books(r, s)
  BY <1>1, <1>5, ReportedTrue
<1>7. group' = s.group /\ coid_seq' = s.coid_seq
  BY <1>1, <1>2, <1>6 DEF Books, State
<1>8. Keeps(r, s)
  BY <1>1, <1>5, <1>6, BooksKeeps DEF CoreTrue
<1>9. Len(s.batches) <= MaxBatches
  <2>1. s.batches \in Seq(Batch) /\ r.batches \in Seq(Batch) /\ DOMAIN s.batches = DOMAIN r.batches
    BY <1>1, <1>5, <1>6 DEF CoreTrue, CoreSound, CoreShape, Books
  <2>2. Len(s.batches) = Len(r.batches)
    <3>1. /\ DOMAIN s.batches = 1..Len(s.batches) /\ Len(s.batches) \in Nat
          /\ DOMAIN r.batches = 1..Len(r.batches) /\ Len(r.batches) \in Nat
      BY <2>1
    <3>2. \A a, b \in Nat : 1..a = 1..b => a = b
      <4>1. ASSUME NEW a \in Nat, NEW b \in Nat, 1..a = 1..b, a < b PROVE FALSE
        <5>1. b \in 1..b /\ b \notin 1..a
          BY <4>1
        <5> QED
          BY <4>1, <5>1
      <4>2. ASSUME NEW a \in Nat, NEW b \in Nat, 1..a = 1..b PROVE a = b
        <5>1. ~(a < b) /\ ~(b < a)
          BY <4>1, <4>2
        <5> QED
          BY <5>1
      <4> QED
        BY <4>2
    <3> QED
      BY <2>1, <3>1, <3>2
  <2> QED
    BY <1>1, <2>2 DEF Deep, CoreFits, State
<1>10. ~Working(n)
  BY <1>1, <1>2 DEF Working
<1>11. CoreFits' /\ Known' /\ Counted'
  BY <1>1, <1>2, <1>4, <1>6, <1>7, <1>8, <1>9, <1>10, DoneFits, TakeGoesOn
<1>12. LotsOf(s, Finished(s)) = LotsOf(r, Finished(r)) + LotsOf(r, closed)
  <2>1. closed = { i \in DOMAIN r.batches : s.batches[i].completed /\ ~r.batches[i].completed }
    BY <1>1, <1>3 DEF State
  <2> QED
    BY <1>1, <1>5, <1>6, <2>1, LotsClosed DEF CoreTrue
<1>13. PICK u : u = State'
  OBVIOUS
<1>14. u.batches = s.batches
  BY <1>4, <1>13 DEF State
<1>15. LotsOf(u, Finished(u)) = LotsOf(s, Finished(s))
  BY <1>14 DEF LotsOf, Finished
<1>16. LotsOf(r, closed) = Total([i \in closed |-> Total(batches[i].lots)])
  BY <1>1 DEF LotsOf, State
<1> QED
  BY <1>1, <1>4, <1>11, <1>12, <1>13, <1>15, <1>16

-----------------------------------------------------------------------------
(* What holds in every state *)

CountedSets == sets_done = LotsOf(State, Finished(State))

Sound == Deep /\ cutoff \in BOOLEAN /\ CountedSets

LEMMA SetsStay == ASSUME CountedSets, UNCHANGED core PROVE CountedSets'
<1>1. PICK s : s = State
  OBVIOUS
<1>2. State' = s /\ sets_done' = sets_done
  BY <1>1 DEF core, State
<1> QED
  BY <1>1, <1>2 DEF CountedSets

\* A fill is booked, or the clock ticks.
LEMMA BookDeep ==
  ASSUME Sound, NEW Sd \in Buckets, NEW n \in 1..MaxLots, NEW now, _book_rung_fill(Sd, n, now)
  PROVE  CoreFits' /\ Known' /\ Counted' /\ CountedSets'
<1>1. PICK r, t, s, open : /\ r = State /\ open = [now EXCEPT !.open = TRUE]
                           /\ t = _coalesce_add(r, Sd, n, now) /\ s = _wing_step(t, open, cutoff)
  OBVIOUS
<1>2. CoreSound(r) /\ cutoff \in BOOLEAN
  BY <1>1 DEF Sound, Deep, CoreFits, CoreTrue
<1>3. n \in Nat \ {0}
  BY WingsAssumption
<1>4. Decides(r, t)
  BY <1>1, <1>2, <1>3, AddDecides
<1>5. Decides(t, s)
  BY <1>1, <1>2, <1>4, WingStepDecides DEF Decides
<1>6. Decides(r, s)
  BY <1>2, <1>4, <1>5, GrowsOn DEF Decides
<1>7. _pump_async(s) /\ UNCHANGED <<sets_done, wing_filled, known, orders, missed>>
  BY <1>1 DEF _book_rung_fill, executor, exchange
<1>8. /\ CoreFits' /\ Known' /\ Counted'
      /\ LotsOf(State, Finished(State))' = LotsOf(State, Finished(State))
  BY <1>1, <1>6, <1>7, DecisionKeeps DEF Sound
<1> QED
  BY <1>7, <1>8 DEF Sound, CountedSets

LEMMA TickDeep ==
  ASSUME Sound, NEW now, on_tick(now)
  PROVE  CoreFits' /\ Known' /\ Counted' /\ CountedSets'
<1>1. PICK r, s : r = State /\ s = _wing_step(r, now, cutoff)
  OBVIOUS
<1>2. CoreSound(r) /\ cutoff \in BOOLEAN
  BY <1>1 DEF Sound, Deep, CoreFits, CoreTrue
<1>3. Decides(r, s)
  BY <1>1, <1>2, WingStepDecides
<1>4. _pump_async(s) /\ UNCHANGED <<sets_done, wing_filled, known, orders, missed>>
  BY <1>1 DEF on_tick, executor, exchange
<1>5. /\ CoreFits' /\ Known' /\ Counted'
      /\ LotsOf(State, Finished(State))' = LotsOf(State, Finished(State))
  BY <1>1, <1>3, <1>4, DecisionKeeps DEF Sound
<1> QED
  BY <1>4, <1>5 DEF Sound, CountedSets

LEMMA SoundNext == ASSUME OneBatchIfLossy, Sound, [Next]_vars PROVE Sound'
<1>1. Deep /\ Inv /\ CountedSets /\ cutoff \in BOOLEAN
  BY DEF Sound, Deep
<1>2. Inv'
  BY <1>1, NextKeeps
<1>3. SUFFICES CoreFits' /\ Known' /\ Counted' /\ CountedSets' /\ (cutoff \in BOOLEAN)'
  BY <1>2 DEF Sound, Deep
<1> USE <1>1
<1>4. ASSUME NEW Sd \in Buckets, NEW n \in 1..MaxLots, NEW now, _book_rung_fill(Sd, n, now)
      PROVE  CoreFits' /\ Known' /\ Counted' /\ CountedSets' /\ (cutoff \in BOOLEAN)'
  BY <1>4, BookDeep DEF _book_rung_fill
<1>5. ASSUME NEW now, on_tick(now)
      PROVE  CoreFits' /\ Known' /\ Counted' /\ CountedSets' /\ (cutoff \in BOOLEAN)'
  BY <1>5, TickDeep DEF on_tick
<1>6. ASSUME Cutoff \/ BackoffEnds \/ UNCHANGED vars
      PROVE  CoreFits' /\ Known' /\ Counted' /\ CountedSets' /\ (cutoff \in BOOLEAN)'
  <2>1. UNCHANGED core /\ UNCHANGED <<takes, wing_filled, known, orders, missed>> /\ cutoff' \in BOOLEAN
    BY <1>6 DEF Cutoff, BackoffEnds, vars, executor, exchange
  <2> QED
    BY <2>1, StillKeeps, SetsStay
<1>7. ASSUME NEW n \in DOMAIN takes, BackoffSkip(n)
      PROVE  CoreFits' /\ Known' /\ Counted' /\ CountedSets' /\ (cutoff \in BOOLEAN)'
  <2>1. UNCHANGED core /\ cutoff' = cutoff
    BY <1>7 DEF BackoffSkip
  <2> QED
    BY <1>7, <2>1, SkipKeeps, SetsStay
<1>8. ASSUME NEW n \in DOMAIN takes, Claim(n)
      PROVE  CoreFits' /\ Known' /\ Counted' /\ CountedSets' /\ (cutoff \in BOOLEAN)'
  <2>1. UNCHANGED core /\ cutoff' = cutoff
    BY <1>8 DEF Claim, ClaimLegs
  <2> QED
    BY <1>8, <2>1, ClaimDeep, SetsStay
<1>9. ASSUME NEW n \in DOMAIN takes, TakeReturns(n)
      PROVE  CoreFits' /\ Known' /\ Counted' /\ CountedSets' /\ (cutoff \in BOOLEAN)'
  <2>1. UNCHANGED core /\ cutoff' = cutoff
    BY <1>9 DEF TakeReturns, Returns
  <2> QED
    BY <1>9, <2>1, ReturnsKeeps, SetsStay
<1>10. ASSUME NEW n \in DOMAIN takes, _ingest_async(n)
       PROVE  CoreFits' /\ Known' /\ Counted' /\ CountedSets' /\ (cutoff \in BOOLEAN)'
  <2>1. cutoff' = cutoff
    BY <1>10 DEF _ingest_async
  <2> QED
    BY <1>10, <2>1, IngestKeeps DEF CountedSets
<1>11. ASSUME NEW n \in DOMAIN takes, NEW buys \in Counts(n), NEW limited, Execute(n, buys, limited)
       PROVE  CoreFits' /\ Known' /\ Counted' /\ CountedSets' /\ (cutoff \in BOOLEAN)'
  <2>1. UNCHANGED core /\ cutoff' = cutoff
    BY <1>11 DEF Execute
  <2> QED
    BY <1>11, <2>1, ExecuteKeeps, SetsStay
<1>12. ASSUME NEW n \in DOMAIN takes, NEW read \in Counts(n), NEW lost \in SomeLegs(n, Lossy),
              _take_wings_send(n, read, lost)
       PROVE  CoreFits' /\ Known' /\ Counted' /\ CountedSets' /\ (cutoff \in BOOLEAN)'
  <2>1. UNCHANGED core /\ cutoff' = cutoff
    BY <1>12 DEF _take_wings_send
  <2>2. lost \in SUBSET DOMAIN takes[n].legs /\ (lost # {} => Lossy)
    BY <1>12, WingsAssumption DEF SomeLegs
  <2> QED
    BY <1>12, <2>1, <2>2, SendKeeps, SetsStay
<1>13. ASSUME NEW n \in DOMAIN takes, NEW k \in takes[n].lost,
              _venue_wing_fills_async(n, k) \/ ConfirmGetFailed(n, k)
       PROVE  CoreFits' /\ Known' /\ Counted' /\ CountedSets' /\ (cutoff \in BOOLEAN)'
  <2>1. UNCHANGED core /\ cutoff' = cutoff
    BY <1>13 DEF _venue_wing_fills_async, ConfirmGetFailed, Confirm
  <2> QED
    BY <1>13, <2>1, ConfirmKeeps, FailedKeeps, SetsStay
<1> QED
  BY <1>4, <1>5, <1>6, <1>7, <1>8, <1>9, <1>10, <1>11, <1>12, <1>13 DEF Next

LEMMA SoundInit == Init => Sound
<1> SUFFICES ASSUME Init PROVE Sound
  OBVIOUS
<1>1. PICK s : s = State
  OBVIOUS
<1>2. s = [group |-> NoGroup, batches |-> <<>>, legs |-> <<>>, coid_seq |-> 0, out |-> FALSE]
  BY <1>1 DEF State, Init
<1>3. DOMAIN s.batches = {} /\ DOMAIN s.legs = {} /\ s.batches = <<>>
  BY <1>2
<1>4. CoreSound(s)
  <2>1. CoreShape(s)
    BY <1>2, <1>3 DEF CoreShape, GroupShape
  <2> QED
    BY <1>3, <2>1 DEF CoreSound, Alone
<1>5. Covered(s)
  BY <1>3 DEF Covered
<1>6. Balanced(s)
  <2>1. ASSUME NEW mkt PROVE Netted(s, mkt) = 0
    <3>1. PICK f : f = [k \in OnMarketOf(s, mkt) |-> s.legs[k].netted]
      OBVIOUS
    <3>2. DOMAIN f = {}
      BY <1>3, <3>1 DEF OnMarketOf
    <3> QED
      BY <3>1, <3>2, TotalEmpty DEF Netted
  <2> QED
    BY <2>1 DEF Balanced
<1>7. CoreFits
  <2>1. Len(batches) <= MaxBatches
    BY WingsAssumption DEF Init
  <2> QED
    BY <1>1, <1>4, <1>5, <1>6, <2>1 DEF CoreFits, CoreTrue
<1>8. Inv
  BY DEF Init, Inv, TakesShape, ClaimsMarked, OneOrderPerLeg
<1>9. Known /\ DOMAIN takes = {}
  BY DEF Init, Known
<1>10. Counted
  <2>1. Cardinality({}) = 0 /\ IsFiniteSet({})
    BY FS_EmptySet
  <2>2. \A x : Read(x) = {} /\ Ours(x) = {}
    BY DEF Init, Read, Ours
  <2>3. \A x \in Keys : wing_filled[x] = 0
    BY DEF Init
  <2>6. missed = 0
    BY DEF Init
  <2>4. ASSUME NEW x \in Keys PROVE Settled(x)
    <3>1. Cardinality(Read(x)) = 0 /\ Cardinality(Ours(x)) = 0 /\ wing_filled[x] = 0
      BY <2>1, <2>2, <2>3
    <3> QED
      BY <2>6, <3>1 DEF Settled
  <2>5. wing_filled \in [Keys -> Nat] /\ missed \in Nat /\ missed = 0 /\ orders = {} /\ known = {}
        /\ DOMAIN legs = {}
    BY DEF Init
  <2> QED
    BY <1>9, <2>1, <2>4, <2>5 DEF Counted
<1>11. CountedSets
  <2>1. Finished(s) = {}
    BY <1>3 DEF Finished
  <2>2. PICK f : f = [i \in Finished(s) |-> Total(s.batches[i].lots)]
    OBVIOUS
  <2>3. DOMAIN f = {}
    BY <2>1, <2>2
  <2>4. LotsOf(s, Finished(s)) = 0
    BY <2>2, <2>3, TotalEmpty DEF LotsOf
  <2> QED
    BY <1>1, <2>4 DEF CountedSets, Init
<1> QED
  BY <1>7, <1>8, <1>9, <1>10, <1>11 DEF Sound, Deep, Init

\* What the table counts of a leg was bought.
LEMMA CountedBought ==
  ASSUME Sound, NEW x \in Keys
  PROVE  /\ Cardinality(Ours(x)) >= wing_filled[x] /\ wing_filled[x] \in Nat
         /\ Cardinality(Ours(x)) \in Nat
<1>1. wing_filled[x] \in Nat /\ IsFiniteSet(orders) /\ known \subseteq orders
  BY DEF Sound, Deep, Counted
<1>2. IsFiniteSet(Ours(x)) /\ Read(x) \subseteq Ours(x)
  BY <1>1, FS_Subset DEF Ours, Read
<1>3. /\ Cardinality(Read(x)) <= Cardinality(Ours(x))
      /\ Cardinality(Read(x)) \in Nat /\ Cardinality(Ours(x)) \in Nat
  BY <1>2, FS_Subset, FS_CardinalityType
<1>4. Cardinality(Read(x)) >= wing_filled[x]
  <2>1. CASE Held(x)
    <3>1. PICK n \in DOMAIN takes : Working(n) /\ x \in KeysOf(n)
      BY <2>1 DEF Held
    <3>2. PICK k \in takes[n].mine : x = Key(takes[n].legs[k])
      BY <3>1 DEF KeysOf
    <3>3. Worked(n, k)
      BY <3>1 DEF Sound, Deep, Counted
    <3>4. PICK g : g = takes[n].got[k]
      OBVIOUS
    <3>5. g \in Nat
      BY <3>4 DEF Sound, Deep, Known, TakeSound, Fits
    <3>6. Cardinality(Read(x)) >= wing_filled[x] + (IF takes[n].stage = "sent" THEN 0 ELSE g)
      BY <3>2, <3>3, <3>4 DEF Worked
    <3> QED
      BY <1>1, <1>3, <3>5, <3>6
  <2>2. CASE ~Held(x)
    BY <2>2 DEF Sound, Deep, Counted, Settled
  <2> QED
    BY <2>1, <2>2
<1> QED
  BY <1>1, <1>3, <1>4

LEMMA SoundHeld == Sound => HeldIsBought
<1> SUFFICES ASSUME Sound PROVE HeldIsBought
  OBVIOUS
<1>1. PICK s : s = State
  OBVIOUS
<1>2. CoreTrue(s) /\ CoreSound(s) /\ s.legs = legs /\ s.batches = batches
      /\ Len(s.batches) <= MaxBatches
  BY <1>1 DEF Sound, Deep, CoreFits, CoreTrue, State
<1>3. \A k \in DOMAIN legs : Key(legs[k]) \in Keys /\ legs[k].count \in Nat
  BY <1>2, LegKeys
<1>4. \A k \in DOMAIN legs : legs[k].netted \in Nat /\ legs[k].netted <= legs[k].count
  <2>1. \A k \in DOMAIN legs : LegSound(s, k) /\ legs[k] \in Leg
    BY <1>2 DEF CoreSound, CoreShape
  <2> QED
    BY <1>2, <2>1 DEF LegSound, Leg
<1>5. \A k \in DOMAIN legs : Bought(legs[k]) = Cardinality(Ours(Key(legs[k])))
  BY DEF Bought, Ours
<1>6. ASSUME NEW k \in DOMAIN legs, wing_filled[Key(legs[k])] >= legs[k].count
      PROVE  Bought(legs[k]) >= legs[k].count /\ Bought(legs[k]) \in Nat
  <2>1. PICK x \in Keys : x = Key(legs[k])
    BY <1>3
  <2>2. /\ Cardinality(Ours(x)) >= wing_filled[x] /\ wing_filled[x] \in Nat
        /\ Cardinality(Ours(x)) \in Nat
    BY CountedBought
  <2> QED
    BY <1>3, <1>5, <1>6, <2>1, <2>2
<1>7. \A k \in DOMAIN legs : batches[legs[k].batch].completed => Bought(legs[k]) >= legs[k].count
  BY <1>2, <1>6 DEF CoreTrue, Covered
<1>8. sets_done = Total([i \in { i \in DOMAIN batches : batches[i].completed } |-> Total(batches[i].lots)])
  BY DEF Sound, CountedSets, LotsOf, Finished, State
<1>9. ASSUME NEW k \in DOMAIN legs PROVE legs[k].netted <= Bought(legs[k])
  <2>1. CASE legs[k].netted > 0
    <3>1. wing_filled[Key(legs[k])] >= legs[k].count
      BY <1>2, <2>1 DEF CoreTrue, Covered
    <3> QED
      BY <1>3, <1>4, <1>6, <3>1
  <2>2. CASE ~(legs[k].netted > 0)
    <3>1. Bought(legs[k]) \in Nat
      BY <1>3, <1>5, CountedBought
    <3> QED
      BY <1>4, <2>2, <3>1
  <2> QED
    BY <2>1, <2>2
<1>10. ASSUME NEW x \in Buckets \cup { b + 1 : b \in Buckets }
       PROVE  Total([k \in OnMarket(<<x, "yes">>) |-> legs[k].netted])
                = Total([k \in OnMarket(<<x, "no">>) |-> legs[k].netted])
  <2>1. Netted(s, <<x, "yes">>) = Netted(s, <<x, "no">>)
    BY <1>2 DEF CoreTrue, Balanced, Strikes
  <2>2. \A mkt : OnMarketOf(s, mkt) = OnMarket(mkt)
    BY <1>2 DEF OnMarketOf, OnMarket, MarketOf, Market
  <2>3. /\ Netted(s, <<x, "yes">>) = Total([k \in OnMarket(<<x, "yes">>) |-> legs[k].netted])
        /\ Netted(s, <<x, "no">>) = Total([k \in OnMarket(<<x, "no">>) |-> legs[k].netted])
    BY <1>2, <2>2 DEF Netted
  <2> QED
    BY <2>1, <2>3
<1>11. CompletedHeld
  BY <1>7, <1>8 DEF CompletedHeld
<1>12. NettedHeld
  BY <1>9, <1>10 DEF NettedHeld
<1> QED
  BY <1>11, <1>12 DEF HeldIsBought

\* The orders of a few legs of a market are no more than the lots of those legs.
LEMMA OrdersOfLegs ==
  ASSUME Sound, ~Lossy, NEW S, S \subseteq DOMAIN legs, NEW c, c = [j \in S |-> legs[j].count]
  PROVE  Cardinality({ o \in orders : \E j \in S : o.leg = Key(legs[j]) }) <= Total(c)
<1>1. /\ IsFiniteSet(orders) /\ missed = 0 /\ \A k \in DOMAIN legs : Bounded(k)
  BY DEF Sound, Deep, Counted
<1>2. \A j \in S : Key(legs[j]) \in Keys /\ legs[j].count \in Nat
  BY LegKeys DEF Sound, Deep, CoreFits, CoreTrue, State
<1>3. IsFiniteSet(S)
  <2>1. legs \in Seq(Leg)
    BY DEF Sound, Deep, CoreFits, CoreTrue, CoreSound, CoreShape, State
  <2>2. DOMAIN legs = 1..Len(legs) /\ Len(legs) \in Nat
    BY <2>1
  <2> QED
    BY <2>2, FiniteUpTo, FS_Subset
<1>4. Summable(c) /\ DOMAIN c = S
  BY <1>2, <1>3 DEF Summable
<1> DEFINE Of(u) == { o \in orders : \E j \in u : o.leg = Key(legs[j]) }
           T == { u \in SUBSET S : ~(Cardinality(Of(u)) <= Total(Restrict(c, u))) }
<1>5. ASSUME T # {} PROVE FALSE
  <2>1. PICK u \in T : \A w \in T : w \subseteq u => w = u
    <3>1. T \subseteq SUBSET S
      OBVIOUS
    <3> HIDE DEF T
    <3> QED
      BY <1>3, <1>5, <3>1, SmallestSubset
  <2>2. u \subseteq S /\ ~(Cardinality(Of(u)) <= Total(Restrict(c, u)))
    BY <2>1
  <2>3. CASE u = {}
    <3>1. Of(u) = {}
      BY <2>3
    <3>2. DOMAIN Restrict(c, u) = {}
      BY <2>3, Parts
    <3>3. Cardinality(Of(u)) = 0 /\ Total(Restrict(c, u)) = 0
      BY <3>1, <3>2, FS_EmptySet, TotalEmpty
    <3> QED
      BY <2>2, <3>3
  <2>4. CASE u # {}
    <3>1. PICK j \in u : TRUE
      BY <2>4
    <3>2. PICK w : w = u \ {j}
      OBVIOUS
    <3>3. w \in SUBSET S /\ w \notin T
      <4> HIDE DEF T
      <4> QED
        BY <2>1, <2>2, <3>1, <3>2
    <3>4. Cardinality(Of(w)) <= Total(Restrict(c, w))
      BY <3>3
    <3>5. Of(u) = Of(w) \cup Ours(Key(legs[j]))
      BY <3>1, <3>2 DEF Ours
    <3>6. IsFiniteSet(Of(w)) /\ IsFiniteSet(Ours(Key(legs[j])))
      BY <1>1, FS_Subset DEF Ours
    <3>7. PICK a, b, d : a = Of(u) /\ b = Of(w) /\ d = Ours(Key(legs[j]))
      OBVIOUS
    <3>8. Cardinality(a) <= Cardinality(b) + Cardinality(d) /\ Cardinality(b) \in Nat
          /\ Cardinality(d) \in Nat /\ Cardinality(a) \in Nat
      <4>1. IsFiniteSet(b) /\ IsFiniteSet(d) /\ a = b \cup d
        BY <3>5, <3>6, <3>7
      <4>2. Cardinality(a) = Cardinality(b) + Cardinality(d) - Cardinality(b \cap d)
        BY <4>1, FS_Union
      <4>3. Cardinality(b) \in Nat /\ Cardinality(d) \in Nat /\ Cardinality(b \cap d) \in Nat
            /\ IsFiniteSet(a)
        BY <4>1, FS_Intersection, FS_CardinalityType, FS_Union
      <4>4. Cardinality(a) \in Nat
        BY <4>3, FS_CardinalityType
      <4> QED
        BY <4>2, <4>3, <4>4
    <3>9. Cardinality(d) <= legs[j].count
      <4>1. Bounded(j) /\ legs[j].count \in Nat
        BY <1>1, <1>2, <2>2, <3>1
      <4>2. Cardinality(d) <= legs[j].count + missed
        BY <3>7, <4>1 DEF Bounded
      <4> QED
        BY <1>1, <4>1, <4>2
    <3>10. PICK p, q : p = Restrict(c, u) /\ q = Restrict(c, w)
      OBVIOUS
    <3>11. Total(p) = c[j] + Total(q) /\ Total(q) \in Int
      <4>1. /\ Summable(p) /\ DOMAIN p = u /\ p[j] = c[j] /\ Restrict(p, w) = q /\ Summable(q)
        BY <1>4, <2>2, <3>1, <3>2, <3>3, <3>10, Parts
      <4>2. Total(p) = p[j] + Total(Restrict(p, u \ {j}))
        BY <3>1, <4>1, TotalStep
      <4> QED
        BY <3>2, <4>1, <4>2, TotalStep
    <3>12. c[j] = legs[j].count /\ legs[j].count \in Nat
      BY <1>2, <2>2, <3>1
    <3> QED
      BY <2>2, <3>4, <3>7, <3>8, <3>9, <3>10, <3>11, <3>12
  <2> QED
    BY <2>3, <2>4
<1>6. S \notin T
  <2> HIDE DEF T
  <2> QED
    BY <1>5
<1>7. Cardinality(Of(S)) <= Total(Restrict(c, S))
  BY <1>6
<1>8. Restrict(c, S) = c
  BY <1>4 DEF Restrict
<1> QED
  BY <1>7, <1>8

LEMMA SoundHedged == ASSUME OneBatchIfLossy, Sound PROVE NeverOverHedged
<1> SUFFICES ASSUME NEW k \in DOMAIN legs
             PROVE  Cardinality({ o \in orders : o.market = Market(legs[k]) })
                      <= Total([j \in OnMarket(Market(legs[k])) |-> legs[j].count]) + missed
  BY DEF NeverOverHedged
<1>1. PICK M, S, c : /\ M = Market(legs[k]) /\ S = OnMarket(M) /\ c = [j \in S |-> legs[j].count]
  OBVIOUS
<1>2. PICK bought : bought = { o \in orders : o.market = M }
  OBVIOUS
<1>3. /\ IsFiniteSet(orders) /\ missed \in Nat /\ (~Lossy => missed = 0)
      /\ \A j \in DOMAIN legs : Bounded(j)
      /\ \A o \in orders : \E j \in DOMAIN legs : o.leg = Key(legs[j]) /\ o.market = Market(legs[j])
  BY DEF Sound, Deep, Counted, OrderSound
<1>4. S \subseteq DOMAIN legs /\ k \in S /\ \A j \in S : Market(legs[j]) = M
  BY <1>1 DEF OnMarket
<1>5. bought \subseteq { o \in orders : \E j \in S : o.leg = Key(legs[j]) }
  BY <1>1, <1>2, <1>3 DEF OnMarket
<1>6. legs[k].count \in Nat
  BY LegKeys DEF Sound, Deep, CoreFits, CoreTrue, State
<1>7. PICK all : all = { o \in orders : \E j \in S : o.leg = Key(legs[j]) }
  OBVIOUS
<1>8. Cardinality(bought) <= Cardinality(all) /\ Cardinality(bought) \in Nat /\ Cardinality(all) \in Nat
  <2>1. IsFiniteSet(all) /\ bought \subseteq all
    BY <1>3, <1>5, <1>7, FS_Subset
  <2>2. IsFiniteSet(bought)
    BY <2>1, FS_Subset
  <2> QED
    BY <2>1, <2>2, FS_Subset, FS_CardinalityType
<1>9. Cardinality(bought) <= Total(c) + missed
  <2>1. CASE ~Lossy
    <3>1. Cardinality(all) <= Total(c)
      BY <1>1, <1>4, <1>7, <2>1, OrdersOfLegs
    <3>2. Total(c) \in Int
      <4>1. \A j \in S : legs[j].count \in Nat
        BY <1>4, LegKeys DEF Sound, Deep, CoreFits, CoreTrue, State
      <4>2. IsFiniteSet(DOMAIN legs)
        <5>1. legs \in Seq(Leg)
          BY DEF Sound, Deep, CoreFits, CoreTrue, CoreSound, CoreShape, State
        <5> QED
          BY <5>1, FiniteUpTo
      <4>3. Summable(c)
        BY <1>1, <1>4, <4>1, <4>2, FS_Subset DEF Summable
      <4> QED
        BY <4>3, TotalStep
    <3> QED
      BY <1>3, <1>8, <2>1, <3>1, <3>2
  <2>2. CASE Lossy
    <3>1. \A j \in S : j = k
      <4>1. MaxBatches <= 1 /\ CoreFits
        BY <2>2 DEF OneBatchIfLossy, Sound, Deep
      <4>2. ASSUME NEW j \in S PROVE j = k
        <5>1. j \in DOMAIN legs /\ Market(legs[j]) = Market(legs[k])
          BY <1>1, <1>4
        <5> QED
          BY <4>1, <5>1, MarketIsLeg
      <4> QED
        BY <4>2
    <3>2. S = {k}
      BY <1>4, <3>1
    <3>3. all = Ours(Key(legs[k]))
      BY <1>7, <3>2 DEF Ours
    <3>4. Cardinality(all) <= legs[k].count + missed
      BY <1>3, <3>3 DEF Bounded
    <3>5. Total(c) = legs[k].count
      <4>1. DOMAIN c = {k} /\ c[k] = legs[k].count
        BY <1>1, <3>2
      <4> QED
        BY <1>6, <4>1, TotalOne
    <3> QED
      BY <1>3, <1>6, <1>8, <3>4, <3>5
  <2> QED
    BY <2>1, <2>2
<1> QED
  BY <1>1, <1>2, <1>9

\* The sets that _maybe_close_set counts and the lots that _net_wings nets were bought at
\* the exchange, for any buckets, batches, takes, rate limits and clocks.  The hypothesis
\* is the scope in which the code keeps this: after a lost response the fills query of
\* _venue_wing_fills_async reads a market, not a leg, so with a second batch on the market
\* a leg may be credited with the fills of the other one.
THEOREM HeldIsBoughtTheorem == ASSUME OneBatchIfLossy PROVE Spec => []HeldIsBought
<1>1. Sound /\ [Next]_vars => Sound'
  BY SoundNext
<1> QED
  BY <1>1, SoundInit, SoundHeld, PTL DEF Spec

\* Overlapping takes, retries, 429s, lost responses and failed queries (_take_wings_async,
\* _take_wings_send) never buy a market beyond the lots that its legs hedge and those a
\* failed query hid.  The hypothesis is that of HeldIsBoughtTheorem, for the same reason:
\* the leg whose fills were credited to the other one is bought again.
THEOREM NeverOverHedgedTheorem == ASSUME OneBatchIfLossy PROVE Spec => []NeverOverHedged
<1>1. Sound /\ [Next]_vars => Sound'
  BY SoundNext
<1>2. Sound => NeverOverHedged
  BY SoundHedged
<1> QED
  BY <1>1, <1>2, SoundInit, PTL DEF Spec

-----------------------------------------------------------------------------
(* One batch, taken whole *)

\* the strikes of a bucket are quoted together
WholeAsks(asks) == \A b \in Buckets : <<b, "yes">> \in asks <=> <<b + 1, "no">> \in asks

\* one batch, which _take_batch_partial never takes in halves
OneWholeBatch == MaxBatches <= 1 /\ \A now \in Nows : WholeAsks(now.asks)

\* the legs that are not filled are all in the same state
Alike(s) ==
  \A j, k \in DOMAIN s.legs : s.legs[j].status # "filled" /\ s.legs[k].status # "filled" =>
    s.legs[j].status = s.legs[k].status /\ s.legs[j].retried = s.legs[k].retried

\* a decision that dispatches a take had no leg pending, and hands over all that are not filled
Sends(s, t) ==
  /\ t.out /\ \A k \in DOMAIN s.legs : s.legs[k].status # "pending"
  /\ \E k \in DOMAIN t.legs : t.legs[k].status = "pending"
  /\ \A k \in DOMAIN s.legs : s.legs[k].status = "filled" => t.legs[k].status = "filled"
  /\ Alike(t)

\* a decision dispatches such a take or leaves the legs as they are
SendsOrRests(s, t) == Sends(s, t) \/ (t.out = s.out /\ t.legs = s.legs)

\* A retry sends every leg that is not filled, or none.
LEMMA RetryWhole ==
  ASSUME NEW s, CoreSound(s), Alike(s), Len(s.batches) = 1, NEW now
  PROVE  SendsOrRests(s, _retry_batch(s, 1, now))
<1> DEFINE again == { k \in DOMAIN s.legs :
                        /\ s.legs[k].batch = 1 /\ s.legs[k].status = "unfilled"
                        /\ ~s.legs[k].retried \/ now.cool }
           CoidFor(k) == s.coid_seq + Cardinality({ j \in again : j <= k })
           new(k) == [s.legs[k] EXCEPT !.status = "pending", !.coid = CoidFor(k), !.retried = TRUE]
<1>1. PICK t : t = _retry_batch(s, 1, now)
  OBVIOUS
<1>2. CASE ~now.lock \/ again = {}
  <2>1. t = s
    BY <1>1, <1>2 DEF _retry_batch
  <2> QED
    BY <1>1, <2>1 DEF SendsOrRests
<1>3. CASE ~(~now.lock \/ again = {})
  <2>1. /\ s = [group |-> s.group, batches |-> s.batches, legs |-> s.legs, coid_seq |-> s.coid_seq,
                out |-> s.out]
        /\ \A k \in DOMAIN s.legs : s.legs[k] \in Leg
    BY DEF CoreSound, CoreShape
  <2>2. PICK T : T = again
    OBVIOUS
  <2>3. t.out = TRUE /\ t.legs = [k \in DOMAIN s.legs |-> IF k \in again THEN new(k) ELSE s.legs[k]]
    BY <1>1, <1>3, <2>1 DEF _retry_batch
  <2>4. /\ T # {} /\ T \subseteq DOMAIN s.legs
        /\ \A k \in DOMAIN s.legs :
             k \in T <=> /\ s.legs[k].batch = 1 /\ s.legs[k].status = "unfilled"
                         /\ ~s.legs[k].retried \/ now.cool
    BY <1>3, <2>2
  <2>5. \A k \in DOMAIN s.legs :
          k \in T => t.legs[k].status = "pending" /\ t.legs[k].retried = TRUE
    <3> SUFFICES ASSUME NEW k \in DOMAIN s.legs, k \in T
                 PROVE  t.legs[k].status = "pending" /\ t.legs[k].retried = TRUE
      OBVIOUS
    <3>1. PICK l, c : l \in Leg /\ l = s.legs[k] /\ c = CoidFor(k)
      BY <2>1
    <3>2. t.legs[k] = [l EXCEPT !.status = "pending", !.coid = c, !.retried = TRUE]
      BY <2>2, <2>3, <3>1
    <3>3. l = [batch |-> l.batch, side |-> l.side, count |-> l.count, coid |-> l.coid,
               status |-> l.status, retried |-> l.retried, netted |-> l.netted]
      BY <3>1 DEF Leg
    <3> HIDE DEF CoidFor, new, again
    <3>4. t.legs[k] = [batch |-> l.batch, side |-> l.side, count |-> l.count, coid |-> c,
                       status |-> "pending", retried |-> TRUE, netted |-> l.netted]
      BY <3>2, <3>3
    <3> QED
      BY <3>4
  <2>6. DOMAIN t.legs = DOMAIN s.legs /\ \A k \in DOMAIN s.legs : k \notin T => t.legs[k] = s.legs[k]
    BY <2>2, <2>3
  <2>7. \A k \in DOMAIN s.legs : s.legs[k].batch = 1
    <3> SUFFICES ASSUME NEW k \in DOMAIN s.legs PROVE s.legs[k].batch = 1
      OBVIOUS
    <3>1. s.legs[k].batch \in DOMAIN s.batches
      BY DEF CoreSound, LegSound
    <3>2. DOMAIN s.batches = 1..1
      BY DEF CoreSound, CoreShape
    <3> QED
      BY <3>1, <3>2
  <2> HIDE DEF CoidFor, new, again
  <2>8. PICK i : i \in T
    BY <2>4
  <2>9. \A k \in DOMAIN s.legs : k \notin T => s.legs[k].status = "filled"
    BY <2>4, <2>7, <2>8 DEF Alike
  <2>10. \A k \in DOMAIN s.legs : s.legs[k].status # "pending"
    BY <2>4, <2>9
  <2>11. Alike(t)
    BY <2>5, <2>6, <2>9 DEF Alike
  <2>12. \A k \in DOMAIN s.legs : s.legs[k].status = "filled" => t.legs[k].status = "filled"
    BY <2>4, <2>6
  <2> QED
    BY <1>1, <2>3, <2>4, <2>5, <2>6, <2>8, <2>10, <2>11, <2>12 DEF SendsOrRests, Sends
<1> QED
  BY <1>2, <1>3

\* The first take of the batch sends both its legs.
LEMMA TakeWhole ==
  ASSUME NEW s, CoreSound(s), Len(s.batches) = 1, ~s.batches[1].taken
  PROVE  SendsOrRests(s, _take_batch(s, 1))
<1>1. PICK t : t = _take_batch(s, 1)
  OBVIOUS
<1>2. /\ s = [group |-> s.group, batches |-> s.batches, legs |-> s.legs, coid_seq |-> s.coid_seq,
              out |-> s.out]
      /\ s.legs \in Seq(Leg) /\ DOMAIN s.batches = 1..1
  BY DEF CoreSound, CoreShape
<1>3. DOMAIN s.legs = {}
  <2> SUFFICES ASSUME NEW k \in DOMAIN s.legs PROVE FALSE
    OBVIOUS
  <2>1. PICK i : i = s.legs[k].batch
    OBVIOUS
  <2>2. i \in DOMAIN s.batches /\ s.batches[i].taken
    BY <2>1 DEF CoreSound, LegSound
  <2>3. i = 1
    BY <1>2, <2>2
  <2> QED
    BY <2>2, <2>3
<1>4. Len(s.legs) = 0
  <2>1. PICK m \in Nat : m = Len(s.legs) /\ DOMAIN s.legs = 1..m
    BY <1>2
  <2>2. m = 0
    <3> SUFFICES ASSUME m >= 1 PROVE FALSE
      BY <2>1
    <3>1. 1 \in DOMAIN s.legs
      BY <2>1
    <3> QED
      BY <1>3, <3>1
  <2> QED
    BY <1>2, <2>1, <2>2
<1>5. PICK a, b : a = TakeLeg(s, 1, "yes", TRUE, s.coid_seq + 1) /\ b = TakeLeg(s, 1, "no", TRUE, s.coid_seq + 2)
  OBVIOUS
<1>6. a.status = "pending" /\ b.status = "pending" /\ a.retried = FALSE /\ b.retried = FALSE
  BY <1>5 DEF TakeLeg
<1>7. t.out = TRUE /\ t.legs = s.legs \o <<a, b>>
  BY <1>1, <1>2, <1>5 DEF _take_batch, Taking
<1>8. PICK S : S = Leg \cup {a, b}
  OBVIOUS
<1>9. DOMAIN t.legs = {1, 2} /\ t.legs[1] = a /\ t.legs[2] = b
  <2>1. s.legs \in Seq(S) /\ <<a, b>> \in Seq(S) /\ Len(<<a, b>>) = 2
    BY <1>2, <1>8
  <2>2. DOMAIN t.legs = 1..2
    BY <1>4, <1>7, <2>1
  <2> QED
    BY <1>4, <1>7, <2>1, <2>2
<1>10. Alike(t)
  BY <1>6, <1>9 DEF Alike
<1> QED
  BY <1>1, <1>3, <1>6, <1>7, <1>9, <1>10 DEF SendsOrRests, Sends

\* A step of the batch, whose strikes are quoted together.
LEMMA StepWhole ==
  ASSUME NEW s, CoreSound(s), Alike(s), Len(s.batches) = 1, NEW now, WholeAsks(now.asks)
  PROVE  SendsOrRests(s, StepBatch(s, 1, now))
<1>1. PICK priced : priced = { side \in Sides : <<Strike(s.batches[1].Sd, side), side>> \in now.asks }
  OBVIOUS
<1>2. s.batches[1].Sd \in Buckets
  <2>1. s.batches \in Seq(Batch) /\ 1 \in DOMAIN s.batches
    BY DEF CoreSound, CoreShape
  <2>2. s.batches[1] \in Batch
    BY <2>1
  <2> QED
    BY <2>2 DEF Batch
<1>3. priced = {} \/ priced = Sides
  <2>1. PICK b \in Buckets : b = s.batches[1].Sd
    BY <1>2
  <2>2. "yes" \in priced <=> <<b, "yes">> \in now.asks
    BY <1>1, <2>1 DEF Strike, Sides
  <2>3. "no" \in priced <=> <<b + 1, "no">> \in now.asks
    BY <1>1, <2>1 DEF Strike, Sides
  <2>4. "yes" \in priced <=> "no" \in priced
    BY <2>1, <2>2, <2>3 DEF WholeAsks
  <2> QED
    BY <1>1, <2>4 DEF Sides
<1>4. StepBatch(s, 1, now)
        = IF s.batches[1].completed \/ priced = {} THEN s
          ELSE IF priced = Sides THEN (IF s.batches[1].taken THEN _retry_batch(s, 1, now) ELSE _take_batch(s, 1))
          ELSE IF s.batches[1].taken THEN s
          ELSE _take_batch_partial(s, 1, IF "yes" \in priced THEN "yes" ELSE "no")
  BY <1>1 DEF StepBatch
<1>5. SendsOrRests(s, s)
  BY DEF SendsOrRests
<1>6. CASE s.batches[1].completed \/ priced = {}
  BY <1>4, <1>5, <1>6
<1>7. CASE ~s.batches[1].completed /\ priced = Sides /\ priced # {}
  BY <1>4, <1>7, RetryWhole, TakeWhole
<1> QED
  BY <1>3, <1>6, <1>7 DEF Sides

\* The steps of all the batches, of which there is at most one.
LEMMA StepsWhole ==
  ASSUME NEW s, CoreSound(s), Alike(s), Len(s.batches) <= 1, NEW now, WholeAsks(now.asks)
  PROVE  SendsOrRests(s, StepBatches(s, now))
<1>1. PICK N : N = Len(s.batches)
  OBVIOUS
<1>2. N \in Nat /\ N <= 1
  BY <1>1 DEF CoreSound, CoreShape
<1>3. StepBatches(s, now) = (CHOOSE f : IsSteps(f, N, s, now))[N]
  BY <1>1 DEF StepBatches, IsSteps
<1>4. \E f : IsSteps(f, N, s, now)
  BY <1>2, StepsExist
<1>5. PICK f : f = CHOOSE g : IsSteps(g, N, s, now)
  OBVIOUS
<1>6. IsSteps(f, N, s, now)
  BY <1>4, <1>5
<1>7. \A i \in 0..N : f[i] = IF i = 0 THEN s ELSE StepBatch(f[i - 1], i, now)
  BY <1>6 DEF IsSteps
<1>8. CASE N = 0
  <2>1. f[N] = s
    BY <1>7, <1>8
  <2> QED
    BY <1>3, <1>5, <2>1 DEF SendsOrRests
<1>9. CASE N = 1
  <2>1. f[0] = s
    BY <1>7, <1>9
  <2>2. f[1] = StepBatch(f[0], 1, now)
    BY <1>7, <1>9
  <2> QED
    BY <1>1, <1>3, <1>5, <1>9, <2>1, <2>2, StepWhole
<1> QED
  BY <1>2, <1>8, <1>9

\* _wing_step dispatches a whole take or leaves the legs alone.
LEMMA WingStepWhole ==
  ASSUME NEW s, CoreSound(s), Alike(s), NEW now, WholeAsks(now.asks), NEW late \in BOOLEAN,
         Len(_wing_step(s, now, late).batches) <= 1
  PROVE  SendsOrRests(s, _wing_step(s, now, late))
<1>1. PICK u, t : u = _coalesce_flush(s, now) /\ t = _wing_step(s, now, late)
  OBVIOUS
<1>2. CoreSound(u) /\ u.out = s.out /\ u.legs = s.legs
  BY <1>1, FlushDecides DEF Decides
<1>3. Alike(u)
  BY <1>2 DEF Alike
<1>4. CASE late
  <2>1. PICK bs : t = [u EXCEPT !.batches = bs]
    BY <1>1, <1>4 DEF _wing_step
  <2>2. u = [group |-> u.group, batches |-> u.batches, legs |-> u.legs, coid_seq |-> u.coid_seq,
             out |-> u.out]
    BY <1>2 DEF CoreSound, CoreShape
  <2>3. t.out = u.out /\ t.legs = u.legs
    BY <2>1, <2>2
  <2> QED
    BY <1>1, <1>2, <2>3 DEF SendsOrRests
<1>5. CASE ~late
  <2>1. t = StepBatches(u, now)
    BY <1>1, <1>5 DEF _wing_step
  <2>2. Decides(u, t)
    BY <1>2, <2>1, StepsDecide
  <2>3. Len(u.batches) <= 1
    <3>1. u.batches \in Seq(Batch) /\ t.batches \in Seq(Batch) /\ DOMAIN u.batches \subseteq DOMAIN t.batches
      BY <1>2, <2>2 DEF Decides, Grows, CoreSound, CoreShape
    <3>2. PICK a, b \in Nat : a = Len(u.batches) /\ b = Len(t.batches)
      BY <3>1
    <3>3. 1..a \subseteq 1..b /\ b <= 1
      BY <1>1, <3>1, <3>2
    <3>4. ~(a > b)
      <4> SUFFICES ASSUME a > b PROVE FALSE
        OBVIOUS
      <4>1. a \in 1..a /\ a \notin 1..b
        OBVIOUS
      <4> QED
        BY <3>3, <4>1
    <3> QED
      BY <3>2, <3>3, <3>4
  <2>4. SendsOrRests(u, t)
    BY <1>2, <1>3, <2>1, <2>3, StepsWhole
  <2> QED
    BY <1>1, <1>2, <2>4 DEF SendsOrRests, Sends
<1> QED
  BY <1>4, <1>5

\* take n has been reported
Over(n) == takes[n].stage = "done"

\* one take at a time, which was handed and answers for all that is pending
OneTake ==
  /\ \A n, m \in DOMAIN takes : n # m => Over(n) \/ Over(m)
  /\ \A n \in DOMAIN takes : ~Over(n) =>
       /\ takes[n].legs = PendingLegs(State)
       /\ \E k \in DOMAIN legs : legs[k].status = "pending"
       /\ takes[n].stage # "dispatched" => takes[n].mine = DOMAIN takes[n].legs
  /\ \A k \in DOMAIN legs : legs[k].status = "pending" => \E n \in DOMAIN takes : ~Over(n)

\* no claim is left behind
Unmarked == \A x \in inflight : \E n \in DOMAIN takes : Active(n) /\ x \in KeysOf(n)

\* a leg that is not filled misses lots, or its fill is about to be reported
Missing ==
  \A k \in DOMAIN legs : legs[k].status # "filled" =>
    \/ wing_filled[Key(legs[k])] < legs[k].count
    \/ \E n \in DOMAIN takes : takes[n].stage = "returned" /\ takes[n].got[k] > 0

\* the strengthening of PendingUnderWay
Whole == Alike(State) /\ OneTake /\ Unmarked /\ Missing

\* A leg not yet in the core has no lots in the executor's table.
LEMMA FreshKey ==
  ASSUME Sound, NEW x \in Keys, \A k \in DOMAIN legs : Key(legs[k]) # x
  PROVE  wing_filled[x] = 0
<1>1. ~Held(x)
  <2> SUFFICES ASSUME NEW n \in DOMAIN takes, x \in KeysOf(n) PROVE FALSE
    BY DEF Held
  <2>1. PICK k \in takes[n].mine : x = Key(takes[n].legs[k])
    BY DEF KeysOf
  <2> QED
    BY <2>1, OwnKeys DEF Sound
<1>2. Settled(x) /\ wing_filled \in [Keys -> Nat] /\ known \subseteq orders
      /\ \A o \in orders : \E k \in DOMAIN legs : o.leg = Key(legs[k])
  BY <1>1 DEF Sound, Deep, Counted, OrderSound
<1>3. Read(x) = {}
  BY <1>2 DEF Read
<1>4. Cardinality(Read(x)) = 0
  BY <1>3, FS_EmptySet
<1>5. PICK c, w : c = Cardinality(Read(x)) /\ w = wing_filled[x]
  OBVIOUS
<1>6. c >= w /\ w \in Nat /\ c = 0
  BY <1>2, <1>4, <1>5 DEF Settled
<1> QED
  BY <1>5, <1>6

\* The decision s is pumped to the executor: a whole take, or nothing.
LEMMA DispatchWhole ==
  ASSUME Sound, Whole, NEW s, Decides(State, s), SendsOrRests(State, s), _pump_async(s),
         wing_filled' = wing_filled, inflight' = inflight
  PROVE  Whole'
<1>1. CoreSound(s) /\ Grows(State, s) /\ CoreSound(State)
  BY DEF Decides, Sound, Deep, CoreFits, CoreTrue
<1>2. /\ legs' = s.legs /\ batches' = s.batches /\ Len(s.batches) <= MaxBatches
      /\ takes' = IF s.out THEN Append(takes, Dispatched(s)) ELSE takes
  BY DEF _pump_async
<1>3. CASE ~Sends(State, s)
  <2>1. s.out = FALSE /\ legs' = legs
    BY <1>2, <1>3 DEF SendsOrRests, State
  <2>2. takes' = takes
    BY <1>2, <2>1
  <2>3. PendingLegs(State)' = PendingLegs(State)
    BY <2>1 DEF PendingLegs, State
  <2>4. Alike(State)'
    BY <2>1 DEF Whole, Alike, State
  <2>5. OneTake'
    BY <2>1, <2>2, <2>3 DEF Whole, OneTake, Over
  <2>6. Unmarked'
    BY <2>2 DEF Whole, Unmarked, Active, KeysOf, Key
  <2>7. Missing'
    BY <2>1, <2>2 DEF Whole, Missing, Key
  <2> QED
    BY <2>4, <2>5, <2>6, <2>7 DEF Whole
<1>4. CASE Sends(State, s)
  <2>1. /\ s.out /\ Alike(s) /\ \E k \in DOMAIN s.legs : s.legs[k].status = "pending"
        /\ \A k \in DOMAIN legs : legs[k].status # "pending"
        /\ \A k \in DOMAIN legs : legs[k].status = "filled" => s.legs[k].status = "filled"
    BY <1>4 DEF Sends, State
  <2>2. \A n \in DOMAIN takes : Over(n)
    BY <2>1 DEF Whole, OneTake
  <2>3. PICK e : e = Dispatched(s)
    OBVIOUS
  <2>4. e.stage = "dispatched" /\ e.legs = PendingLegs(s)
    BY <2>3 DEF Dispatched
  <2>5. PICK S : takes \in Seq(S)
    BY DEF Sound, Deep, Inv, TakesShape
  <2>6. takes' = Append(takes, e)
    BY <1>2, <2>1, <2>3
  <2>7. PICK N \in Nat : N = Len(takes)
    BY <2>5
  <2>8. /\ DOMAIN takes = 1..N /\ DOMAIN takes' = 1..(N + 1) /\ takes'[N + 1] = e
        /\ \A n \in DOMAIN takes : takes'[n] = takes[n]
    <3>1. takes \in Seq(S \cup {e}) /\ e \in S \cup {e}
      BY <2>5
    <3> QED
      BY <2>6, <2>7, <3>1
  <2>9. PendingLegs(State)' = PendingLegs(s)
    BY <1>2 DEF PendingLegs, State
  <2>10. \A n \in DOMAIN takes' : Over(n)' \/ n = N + 1
    BY <2>2, <2>8 DEF Over
  <2>11. ~Over(N + 1)' /\ N + 1 \in DOMAIN takes'
    BY <2>4, <2>8 DEF Over
  <2>12. OneTake'
    BY <1>2, <2>1, <2>4, <2>8, <2>9, <2>10, <2>11 DEF OneTake
  <2>13. Alike(State)'
    BY <1>2, <2>1 DEF Alike, State
  <2>14. Unmarked'
    <3>1. inflight = {}
      BY <2>2 DEF Whole, Unmarked, Active, Over
    <3> QED
      BY <3>1 DEF Unmarked
  <2>15. Missing'
    <3> SUFFICES ASSUME NEW k \in DOMAIN s.legs, s.legs[k].status # "filled"
                 PROVE  wing_filled[Key(s.legs[k])] < s.legs[k].count
      BY <1>2 DEF Missing, Key
    <3>1. CASE k \in DOMAIN legs
      <4>1. legs[k].status # "filled" /\ Key(s.legs[k]) = Key(legs[k]) /\ s.legs[k].count = legs[k].count
        BY <1>1, <2>1, <3>1 DEF Grows, State
      <4> QED
        BY <2>2, <3>1, <4>1 DEF Whole, Missing, Over
    <3>2. CASE k \notin DOMAIN legs
      <4>1. \A j \in DOMAIN legs : Key(legs[j]) # Key(s.legs[k])
        <5> SUFFICES ASSUME NEW j \in DOMAIN legs PROVE Key(legs[j]) # Key(s.legs[k])
          OBVIOUS
        <5>1. j \in DOMAIN s.legs /\ Key(s.legs[j]) = Key(legs[j])
          BY <1>1 DEF Grows, State
        <5>2. j # k
          BY <3>2
        <5> QED
          BY <1>1, <5>1, <5>2 DEF CoreSound, Alone
      <4>2. Key(s.legs[k]) \in Keys
        BY <1>1, <1>2, LegKeys
      <4>3. wing_filled[Key(s.legs[k])] = 0
        BY <4>1, <4>2, FreshKey
      <4>4. s.legs[k].count >= 1 /\ s.legs[k].count \in Nat
        <5>1. PICK i : i = s.legs[k].batch
          OBVIOUS
        <5>2. i \in DOMAIN s.batches /\ s.legs[k].count = Total(s.batches[i].lots)
          BY <1>1, <5>1 DEF CoreSound, LegSound
        <5>3. Total(s.batches[i].lots) \in Nat /\ Total(s.batches[i].lots) >= 1
          BY <1>1, <5>2 DEF CoreSound, CoreShape
        <5> QED
          BY <5>2, <5>3
      <4> QED
        BY <4>3, <4>4
    <3> QED
      BY <3>1, <3>2
  <2> QED
    BY <2>12, <2>13, <2>14, <2>15 DEF Whole
<1> QED
  BY <1>3, <1>4

\* What is true while take n is under way.
LEMMA Under ==
  ASSUME Sound, Whole, NEW n \in DOMAIN takes, ~Over(n)
  PROVE  /\ takes[n].legs = PendingLegs(State) /\ \A m \in DOMAIN takes : m # n => Over(m)
         /\ DOMAIN takes[n].legs = {k \in DOMAIN legs : legs[k].status = "pending"}
         /\ \A k \in DOMAIN takes[n].legs : takes[n].legs[k] = legs[k]
         /\ \E k \in DOMAIN legs : legs[k].status = "pending"
         /\ \A k \in DOMAIN legs : legs[k].status # "filled" => legs[k].status = "pending"
         /\ takes[n].stage # "dispatched" => takes[n].mine = DOMAIN takes[n].legs
         /\ ~Active(n) => inflight = {}
         /\ takes[n].stage # "returned" =>
              \A k \in DOMAIN takes[n].legs : wing_filled[Key(legs[k])] < legs[k].count
<1>1. /\ takes[n].legs = PendingLegs(State) /\ \A m \in DOMAIN takes : m # n => Over(m)
      /\ \E k \in DOMAIN legs : legs[k].status = "pending"
      /\ takes[n].stage # "dispatched" => takes[n].mine = DOMAIN takes[n].legs
  BY DEF Whole, OneTake
<1>2. PICK S : S = {k \in DOMAIN legs : legs[k].status = "pending"}
  OBVIOUS
<1>3. takes[n].legs = Restrict(legs, S)
  BY <1>1, <1>2 DEF PendingLegs, State
<1>4. DOMAIN takes[n].legs = S /\ \A k \in S : takes[n].legs[k] = legs[k]
  BY <1>3, Parts
<1>5. \A k \in DOMAIN legs : legs[k].status # "filled" => legs[k].status = "pending"
  BY <1>1 DEF Whole, Alike, State
<1>6. ~Active(n) => inflight = {}
  BY <1>1 DEF Whole, Unmarked, Active, Over
<1>7. takes[n].stage # "returned" =>
        \A k \in DOMAIN takes[n].legs : wing_filled[Key(legs[k])] < legs[k].count
  <2> SUFFICES ASSUME takes[n].stage # "returned", NEW k \in DOMAIN takes[n].legs
               PROVE  wing_filled[Key(legs[k])] < legs[k].count
    OBVIOUS
  <2>1. k \in DOMAIN legs /\ legs[k].status # "filled"
    BY <1>2, <1>4
  <2>2. ~\E m \in DOMAIN takes : takes[m].stage = "returned" /\ takes[m].got[k] > 0
    BY <1>1 DEF Over
  <2> QED
    BY <2>1, <2>2 DEF Whole, Missing
<1> QED
  BY <1>1, <1>2, <1>4, <1>5, <1>6, <1>7

\* A take goes on, with all its legs.
LEMMA TakeMoves ==
  ASSUME Sound, Whole, NEW n \in DOMAIN takes, NEW e, ~Over(n),
         takes' = [takes EXCEPT ![n] = e], UNCHANGED core, e.legs = takes[n].legs,
         e.stage \notin {"dispatched", "done"}, e.mine = DOMAIN e.legs
  PROVE  /\ Alike(State)' /\ OneTake' /\ DOMAIN takes' = DOMAIN takes /\ takes'[n] = e
         /\ \A m \in DOMAIN takes : m # n => takes'[m] = takes[m]
<1>1. DOMAIN takes' = DOMAIN takes /\ takes'[n] = e /\ \A m \in DOMAIN takes : m # n => takes'[m] = takes[m]
  <2>1. \E S : takes \in Seq(S)
    BY DEF Sound, Deep, Inv, TakesShape
  <2> QED
    BY <2>1
<1>2. legs' = legs
  BY DEF core
<1>3. Alike(State)' /\ PendingLegs(State)' = PendingLegs(State)
  BY <1>2 DEF Whole, Alike, PendingLegs, State
<1>4. /\ takes[n].legs = PendingLegs(State) /\ \A m \in DOMAIN takes : m # n => Over(m)
      /\ \E k \in DOMAIN legs : legs[k].status = "pending"
  BY Under
<1>5. ~Over(n)' /\ \A m \in DOMAIN takes : m # n => Over(m)'
  BY <1>1, <1>4 DEF Over
<1>6. takes'[n].legs = PendingLegs(State)' /\ takes'[n].mine = DOMAIN takes'[n].legs
  BY <1>1, <1>3, <1>4
<1>7. OneTake'
  BY <1>1, <1>2, <1>4, <1>5, <1>6 DEF OneTake
<1> QED
  BY <1>1, <1>3, <1>7

\* It keeps its claims, or has none, and counts nothing yet.
LEMMA TakeWorks ==
  ASSUME Sound, Whole, NEW n \in DOMAIN takes, NEW e, ~Over(n), takes[n].stage # "returned",
         takes' = [takes EXCEPT ![n] = e], UNCHANGED core, e.legs = takes[n].legs,
         e.stage \notin {"dispatched", "done"}, e.mine = DOMAIN e.legs,
         wing_filled' = wing_filled,
         inflight' = {} \/ (e.stage \in {"sending", "sent", "confirming"}
                            /\ inflight' \subseteq {Key(e.legs[k]) : k \in e.mine})
  PROVE  Whole'
<1>1. /\ Alike(State)' /\ OneTake' /\ DOMAIN takes' = DOMAIN takes /\ takes'[n] = e
      /\ \A m \in DOMAIN takes : m # n => takes'[m] = takes[m]
  BY TakeMoves
<1>2. Unmarked'
  BY <1>1 DEF Unmarked, Active, KeysOf, Key
<1>3. Missing'
  <2>1. /\ \A k \in DOMAIN takes[n].legs : wing_filled[Key(legs[k])] < legs[k].count
        /\ DOMAIN takes[n].legs = {k \in DOMAIN legs : legs[k].status = "pending"}
        /\ \A k \in DOMAIN legs : legs[k].status # "filled" => legs[k].status = "pending"
    BY Under
  <2>2. legs' = legs
    BY DEF core
  <2> QED
    BY <2>1, <2>2 DEF Missing, Key
<1> QED
  BY <1>1, <1>2, <1>3 DEF Whole

\* Claims of the one take under way.
LEMMA OwnClaims ==
  ASSUME Sound, Whole, NEW n \in DOMAIN takes, ~Over(n)
  PROVE  Active(n) => inflight \subseteq KeysOf(n)
<1>1. \A m \in DOMAIN takes : m # n => Over(m)
  BY Under
<1> QED
  BY <1>1 DEF Whole, Unmarked, Active, Over

\* A take that a rate limit skips returns with all its legs.
LEMMA SkipWhole == ASSUME Sound, Whole, NEW n \in DOMAIN takes, BackoffSkip(n) PROVE Whole'
<1>1. PICK t : t = takes[n]
  OBVIOUS
<1>2. PICK e : e = [[t EXCEPT !.stage = "returned"] EXCEPT !.mine = DOMAIN t.legs]
  OBVIOUS
<1>3. DOMAIN t = Fields
  BY <1>1 DEF Sound, Deep, Inv, TakesShape
<1>4. e.stage = "returned" /\ e.legs = t.legs /\ e.mine = DOMAIN t.legs
  BY <1>2, <1>3 DEF Fields
<1>5. /\ takes' = [takes EXCEPT ![n] = e] /\ UNCHANGED core /\ t.stage = "dispatched"
      /\ wing_filled' = wing_filled /\ inflight' = inflight
  <2>1. \E S : takes \in Seq(S)
    BY DEF Sound, Deep, Inv, TakesShape
  <2>2. takes' = [[takes EXCEPT ![n].stage = "returned"] EXCEPT ![n].mine = DOMAIN t.legs]
    BY <1>1 DEF BackoffSkip
  <2>3. takes' = [takes EXCEPT ![n] = e]
    BY <1>1, <1>2, <2>1, <2>2
  <2> QED
    BY <1>1, <2>3 DEF BackoffSkip, Starts, Stage, executor
<1>6. ~Over(n) /\ ~Active(n)
  BY <1>1, <1>5 DEF Over, Active
<1>7. inflight' = {}
  BY <1>5, <1>6, Under
<1> QED
  BY <1>1, <1>4, <1>5, <1>6, <1>7, TakeWorks

\* A take claims all its legs: no other take is under way.
LEMMA ClaimWhole == ASSUME Sound, Whole, NEW n \in DOMAIN takes, Claim(n) PROVE Whole'
<1>1. PICK t : t = takes[n]
  OBVIOUS
<1>2. PICK ks : ks = Unclaimed(n)
  OBVIOUS
<1>3. PICK e : e = [[t EXCEPT !.stage = "sending"] EXCEPT !.mine = ks]
  OBVIOUS
<1>4. DOMAIN t = Fields
  BY <1>1 DEF Sound, Deep, Inv, TakesShape
<1>5. e.stage = "sending" /\ e.legs = t.legs /\ e.mine = ks
  BY <1>3, <1>4 DEF Fields
<1>6. ~Over(n) /\ ~Active(n)
  BY DEF Claim, ClaimLegs, Starts, Stage, Over, Active
<1>7. inflight = {} /\ ks = DOMAIN t.legs
  <2>1. inflight = {}
    BY <1>6, Under
  <2> QED
    BY <1>1, <1>2, <2>1 DEF Unclaimed
<1>8. \E k \in ks : Remaining(t.legs[k]) > 0
  <2>1. PICK k \in DOMAIN legs : legs[k].status = "pending"
    BY <1>6, Under
  <2>2. k \in DOMAIN t.legs /\ t.legs[k] = legs[k]
    BY <1>1, <1>6, <2>1, Under
  <2>3. takes[n].stage # "returned"
    BY DEF Claim, ClaimLegs, Starts, Stage
  <2>4. wing_filled[Key(legs[k])] < legs[k].count
    BY <1>1, <1>6, <2>2, <2>3, Under
  <2>5. wing_filled[Key(legs[k])] \in Nat /\ legs[k].count \in Nat
    <3>1. Key(legs[k]) \in Keys /\ legs[k].count \in Nat
      BY <1>1, <2>2, OwnKeys DEF Sound
    <3> QED
      BY <3>1 DEF Sound, Deep, Counted
  <2>6. Remaining(t.legs[k]) > 0
    BY <2>2, <2>4, <2>5 DEF Remaining
  <2> QED
    BY <1>7, <2>2, <2>6
<1>9. /\ UNCHANGED core /\ t.stage = "dispatched" /\ wing_filled' = wing_filled
      /\ takes' = [[takes EXCEPT ![n].stage = "sending"] EXCEPT ![n].mine = ks]
      /\ inflight' = inflight \cup { Key(t.legs[k]) : k \in ks }
  BY <1>1, <1>2, <1>8 DEF Claim, ClaimLegs, Starts, Stage
<1>10. takes' = [takes EXCEPT ![n] = e]
  <2>1. \E S : takes \in Seq(S)
    BY DEF Sound, Deep, Inv, TakesShape
  <2> QED
    BY <1>1, <1>3, <1>9, <2>1
<1>11. inflight' \subseteq {Key(e.legs[k]) : k \in e.mine}
  BY <1>5, <1>7, <1>9
<1> QED
  BY <1>1, <1>5, <1>6, <1>7, <1>9, <1>10, <1>11, TakeWorks

\* A step of a take that has its orders out.
LEMMA WorkWhole ==
  ASSUME Sound, Whole, NEW n \in DOMAIN takes, NEW e, Active(n),
         takes' = [takes EXCEPT ![n] = e], UNCHANGED core,
         e.legs = takes[n].legs, e.mine = takes[n].mine, e.stage \in {"sent", "confirming"},
         wing_filled' = wing_filled, inflight' = inflight
  PROVE  Whole'
<1>1. ~Over(n) /\ takes[n].stage \notin {"dispatched", "returned"}
  BY DEF Active, Over
<1>2. e.mine = DOMAIN e.legs
  BY <1>1, Under
<1>3. inflight' \subseteq {Key(e.legs[k]) : k \in e.mine}
  <2>1. inflight \subseteq KeysOf(n)
    BY <1>1, OwnClaims
  <2> QED
    BY <2>1 DEF KeysOf
<1> QED
  BY <1>1, <1>2, <1>3, TakeWorks

\* A take that returns is about to report all that is pending.
LEMMA ReturnsWhole == ASSUME Sound, Whole, NEW n \in DOMAIN takes, TakeReturns(n) PROVE Whole'
<1>1. PICK t, wf, filled :
        /\ t = takes[n]
        /\ wf = [x \in Keys |-> wing_filled[x] +
                   Total(Restrict(t.got, { k \in t.mine : Key(t.legs[k]) = x }))]
        /\ filled = { k \in DOMAIN t.legs : t.got[k] > 0 /\ t.got[k] >= Remaining(t.legs[k]) }
  OBVIOUS
<1>2. PICK got : got = [k \in DOMAIN t.legs |-> IF k \in filled
                          THEN wing_filled[Key(t.legs[k])] +
                                 Total(Restrict(t.got, { j \in t.mine : Key(t.legs[j]) = Key(t.legs[k]) }))
                          ELSE 0]
  OBVIOUS
<1>3. PICK e : e = [t EXCEPT !.stage = "returned", !.got = got]
  OBVIOUS
<1>4. DOMAIN t = Fields
  BY <1>1 DEF Sound, Deep, Inv, TakesShape
<1>5. e.stage = "returned" /\ e.legs = t.legs /\ e.mine = t.mine /\ e.got = got
  BY <1>3, <1>4 DEF Fields
<1>6. Active(n) /\ ~Over(n) /\ t.stage = "confirming"
  BY <1>1 DEF TakeReturns, Returns, Stage, Active, Over
<1>7. t.mine = DOMAIN t.legs
  BY <1>1, <1>6, Under
<1>8. /\ UNCHANGED core /\ inflight' = inflight \ KeysOf(n) /\ wing_filled' = wf
  BY <1>1 DEF TakeReturns, Returns, KeysOf
<1>9. \A k \in DOMAIN t.legs : Key(t.legs[k]) \in Keys
  BY <1>1, OwnKeys DEF Sound
<1>10. takes' = [takes EXCEPT ![n].stage = "returned", ![n].got = got]
  BY <1>1, <1>2 DEF TakeReturns, Returns
<1>11. takes' = [takes EXCEPT ![n] = e]
  BY <1>1, <1>3, <1>10
<1>12. /\ Alike(State)' /\ OneTake' /\ DOMAIN takes' = DOMAIN takes /\ takes'[n] = e
       /\ \A m \in DOMAIN takes : m # n => takes'[m] = takes[m]
  BY <1>1, <1>5, <1>6, <1>7, <1>8, <1>11, TakeMoves
<1>13. Unmarked'
  <2>1. inflight' = {}
    BY <1>6, <1>8, OwnClaims
  <2> QED
    BY <2>1 DEF Unmarked
<1>14. Missing'
  <2>1. legs' = legs
    BY <1>8 DEF core
  <2> SUFFICES ASSUME NEW k \in DOMAIN legs, legs[k].status # "filled",
                      ~(wf[Key(legs[k])] < legs[k].count)
               PROVE  got[k] > 0
    BY <1>5, <1>8, <1>12, <2>1 DEF Missing, Key
  <2>2. k \in DOMAIN t.legs /\ t.legs[k] = legs[k]
    BY <1>1, <1>6, Under
  <2>3. wing_filled[Key(legs[k])] < legs[k].count
    BY <1>1, <1>6, <2>2, Under
  <2>4. wf[Key(legs[k])] = wing_filled[Key(legs[k])] + t.got[k]
    BY <1>1, <1>7, <2>2, TableAdds DEF Sound
  <2>5. /\ wing_filled[Key(legs[k])] \in Nat /\ legs[k].count \in Nat /\ t.got[k] \in Nat
    <3>1. Key(legs[k]) \in Keys /\ legs[k].count \in Nat
      BY <1>1, <2>2, OwnKeys DEF Sound
    <3>2. t.got \in [DOMAIN t.legs -> Nat]
      BY <1>1 DEF Sound, Deep, Known, TakeSound
    <3> QED
      BY <2>2, <3>1, <3>2 DEF Sound, Deep, Counted
  <2>6. t.got[k] > 0 /\ t.got[k] >= legs[k].count - wing_filled[Key(legs[k])]
    BY <2>3, <2>4, <2>5
  <2>7. k \in filled
    BY <1>1, <2>2, <2>6 DEF Remaining
  <2>8. got[k] = wf[Key(legs[k])]
    BY <1>1, <1>2, <1>9, <2>2, <2>7
  <2> QED
    BY <2>4, <2>5, <2>6, <2>8
<1> QED
  BY <1>12, <1>13, <1>14 DEF Whole

\* Its report leaves no leg pending.
LEMMA IngestWhole == ASSUME Sound, Whole, NEW n \in DOMAIN takes, _ingest_async(n) PROVE Whole'
<1>1. PICK t, r, s : t = takes[n] /\ r = State /\ s = Final(t)
  OBVIOUS
<1>2. t.stage = "returned" /\ takes' = [takes EXCEPT ![n] = Done]
      /\ legs' = s.legs /\ inflight' = inflight /\ wing_filled' = wing_filled
  BY <1>1 DEF _ingest_async, Stage, executor, Final
<1>3. Fits(State, t) /\ Answered(t) /\ CoreTrue(State) /\ t.got \in [DOMAIN t.legs -> Nat]
  BY <1>1, <1>2 DEF Sound, Deep, Known, TakeSound, CoreFits
<1>4. Books(r, s) /\ \A j \in DOMAIN legs : s.legs[j].status = AllOutcome(t, j)
  BY <1>1, <1>3, ReportedTrue
<1>5. ~Over(n) /\ ~Active(n)
  BY <1>1, <1>2 DEF Over, Active
<1>6. /\ inflight = {} /\ t.mine = DOMAIN t.legs
      /\ \A m \in DOMAIN takes : m # n => Over(m)
      /\ DOMAIN t.legs = {k \in DOMAIN legs : legs[k].status = "pending"}
      /\ \A k \in DOMAIN t.legs : t.legs[k] = legs[k]
      /\ \A k \in DOMAIN legs : legs[k].status # "filled" => legs[k].status = "pending"
  BY <1>1, <1>2, <1>5, Under
<1>7. \A j \in DOMAIN legs :
        /\ s.legs[j].status # "filled" => /\ s.legs[j].status = "unfilled" /\ j \in DOMAIN t.legs
                                          /\ t.got[j] = 0 /\ legs[j].status = "pending"
  BY <1>4, <1>6 DEF AllOutcome
<1>8. /\ DOMAIN s.legs = DOMAIN legs
      /\ \A j \in DOMAIN legs : /\ Key(s.legs[j]) = Key(legs[j]) /\ s.legs[j].count = legs[j].count
                                /\ s.legs[j].retried = legs[j].retried
  BY <1>1, <1>4 DEF Books, State
<1>9. Alike(State)'
  <2>1. Alike(s)
    BY <1>1, <1>7, <1>8 DEF Whole, Alike, State
  <2> QED
    BY <1>2, <2>1 DEF Alike, State
<1>10. DOMAIN takes' = DOMAIN takes /\ \A m \in DOMAIN takes : Over(m)'
  <2>1. DOMAIN takes' = DOMAIN takes /\ takes'[n] = Done /\ \A m \in DOMAIN takes : m # n => takes'[m] = takes[m]
    <3>1. \E S : takes \in Seq(S)
      BY DEF Sound, Deep, Inv, TakesShape
    <3> QED
      BY <1>2, <3>1
  <2> QED
    BY <1>6, <2>1 DEF Over, Done
<1>11. \A k \in DOMAIN legs' : legs'[k].status # "pending"
  BY <1>2, <1>7, <1>8
<1>12. OneTake'
  BY <1>10, <1>11 DEF OneTake
<1>13. Unmarked'
  BY <1>2, <1>6 DEF Unmarked
<1>14. Missing'
  <2> SUFFICES ASSUME NEW k \in DOMAIN legs, s.legs[k].status # "filled"
               PROVE  wing_filled[Key(legs[k])] < legs[k].count
    BY <1>2, <1>8 DEF Missing, Key
  <2>1. legs[k].status # "filled" /\ t.got[k] = 0
    BY <1>7
  <2>2. ~\E m \in DOMAIN takes : takes[m].stage = "returned" /\ takes[m].got[k] > 0
    BY <1>1, <1>6, <2>1 DEF Over
  <2> QED
    BY <2>1, <2>2 DEF Whole, Missing
<1> QED
  BY <1>9, <1>12, <1>13, <1>14 DEF Whole

\* Whole reads the legs, the takes, the claims and the table only.
LEMMA StillWhole ==
  ASSUME Whole, legs' = legs, takes' = takes, inflight' = inflight, wing_filled' = wing_filled
  PROVE  Whole'
<1>1. Alike(State)' /\ PendingLegs(State)' = PendingLegs(State)
  BY DEF Whole, Alike, PendingLegs, State
<1>2. OneTake'
  BY <1>1 DEF Whole, OneTake, Over
<1>3. Unmarked'
  BY DEF Whole, Unmarked, Active, KeysOf, Key
<1>4. Missing'
  BY DEF Whole, Missing, Key
<1> QED
  BY <1>1, <1>2, <1>3, <1>4 DEF Whole

\* A rung fill opens the batch, or adds to it.
LEMMA BookWhole ==
  ASSUME OneWholeBatch, Sound, Whole, NEW Sd \in Buckets, NEW n \in 1..MaxLots, NEW now \in Nows,
         _book_rung_fill(Sd, n, now)
  PROVE  Whole'
<1>1. PICK r, t, s, open : /\ r = State /\ open = [now EXCEPT !.open = TRUE]
                           /\ t = _coalesce_add(r, Sd, n, now) /\ s = _wing_step(t, open, cutoff)
  OBVIOUS
<1>2. CoreSound(r) /\ cutoff \in BOOLEAN /\ Alike(r)
  BY <1>1 DEF Sound, Deep, CoreFits, CoreTrue, Whole
<1>3. n \in Nat \ {0}
  BY WingsAssumption
<1>4. Decides(r, t) /\ t.out = r.out /\ t.legs = r.legs
  BY <1>1, <1>2, <1>3, AddDecides
<1>5. Decides(t, s)
  BY <1>1, <1>2, <1>4, WingStepDecides DEF Decides
<1>6. Decides(r, s)
  BY <1>2, <1>4, <1>5, GrowsOn DEF Decides
<1>7. _pump_async(s) /\ wing_filled' = wing_filled /\ inflight' = inflight
  BY <1>1 DEF _book_rung_fill, executor
<1>8. WholeAsks(open.asks)
  <2>1. now \in Now
    BY WingsAssumption
  <2>2. open.asks = now.asks
    BY <1>1, <2>1 DEF Now
  <2> QED
    BY <2>2 DEF OneWholeBatch, WholeAsks
<1>9. Len(s.batches) <= 1
  <2>1. Len(s.batches) <= MaxBatches /\ MaxBatches <= 1 /\ MaxBatches \in Nat
    BY <1>7, WingsAssumption DEF _pump_async, OneWholeBatch
  <2>2. Len(s.batches) \in Nat
    BY <1>6 DEF Decides, CoreSound, CoreShape
  <2> QED
    BY <2>1, <2>2
<1>10. CoreSound(t) /\ Alike(t)
  BY <1>2, <1>4 DEF Decides, Alike
<1>11. SendsOrRests(t, s)
  BY <1>1, <1>2, <1>8, <1>9, <1>10, WingStepWhole
<1>12. SendsOrRests(r, s)
  BY <1>4, <1>11 DEF SendsOrRests, Sends
<1> QED
  BY <1>1, <1>6, <1>7, <1>12, DispatchWhole

\* A tick steps the batch.
LEMMA TickWhole ==
  ASSUME OneWholeBatch, Sound, Whole, NEW now \in Nows, on_tick(now)
  PROVE  Whole'
<1>1. PICK r, s : r = State /\ s = _wing_step(r, now, cutoff)
  OBVIOUS
<1>2. CoreSound(r) /\ cutoff \in BOOLEAN /\ Alike(r)
  BY <1>1 DEF Sound, Deep, CoreFits, CoreTrue, Whole
<1>3. Decides(r, s)
  BY <1>1, <1>2, WingStepDecides
<1>4. _pump_async(s) /\ wing_filled' = wing_filled /\ inflight' = inflight
  BY <1>1 DEF on_tick, executor
<1>5. WholeAsks(now.asks)
  BY DEF OneWholeBatch, WholeAsks
<1>6. Len(s.batches) <= 1
  <2>1. Len(s.batches) <= MaxBatches /\ MaxBatches <= 1 /\ MaxBatches \in Nat
    BY <1>4, WingsAssumption DEF _pump_async, OneWholeBatch
  <2>2. Len(s.batches) \in Nat
    BY <1>3 DEF Decides, CoreSound, CoreShape
  <2> QED
    BY <2>1, <2>2
<1>7. SendsOrRests(r, s)
  BY <1>1, <1>2, <1>5, <1>6, WingStepWhole
<1> QED
  BY <1>1, <1>3, <1>4, <1>7, DispatchWhole

\* The steps of a take between its claim and its return.
LEMMA ExecutorWhole ==
  ASSUME Sound, Whole, NEW n \in DOMAIN takes,
         \/ \E buys, limited : Execute(n, buys, limited)
         \/ \E read, lost : _take_wings_send(n, read, lost)
         \/ \E k, answer, room : Confirm(n, k, answer, room)
  PROVE  Whole'
<1>1. PICK t : t = takes[n]
  OBVIOUS
<1>2. DOMAIN t = Fields
  BY <1>1 DEF Sound, Deep, Inv, TakesShape
<1>3. ASSUME NEW buys, NEW limited, Execute(n, buys, limited) PROVE Whole'
  <2>1. PICK e : e = [t EXCEPT !.stage = "sent", !.got = buys]
    OBVIOUS
  <2>2. e.stage = "sent" /\ e.legs = t.legs /\ e.mine = t.mine
    BY <1>2, <2>1 DEF Fields
  <2>3. UNCHANGED core /\ wing_filled' = wing_filled /\ inflight' = inflight /\ t.stage = "sending"
    BY <1>1, <1>3 DEF Execute, Stage
  <2>4. takes' = [takes EXCEPT ![n] = e]
    BY <1>1, <1>3, <2>1 DEF Execute
  <2>5. Active(n)
    BY <1>1, <2>3 DEF Active
  <2>6. UNCHANGED core
    BY <2>3
  <2>7. /\ e.legs = takes[n].legs /\ e.mine = takes[n].mine /\ e.stage \in {"sent", "confirming"}
        /\ wing_filled' = wing_filled /\ inflight' = inflight
    BY <1>1, <2>2, <2>3
  <2> QED
    BY <2>4, <2>5, <2>6, <2>7, WorkWhole
<1>4. ASSUME NEW read, NEW lost, _take_wings_send(n, read, lost) PROVE Whole'
  <2>1. PICK e : e = [t EXCEPT !.stage = "confirming", !.lost = lost, !.got = read]
    OBVIOUS
  <2>2. e.stage = "confirming" /\ e.legs = t.legs /\ e.mine = t.mine
    BY <1>2, <2>1 DEF Fields
  <2>3. UNCHANGED core /\ wing_filled' = wing_filled /\ inflight' = inflight /\ t.stage = "sent"
    BY <1>1, <1>4 DEF _take_wings_send, Stage
  <2>4. takes' = [takes EXCEPT ![n] = e]
    BY <1>1, <1>4, <2>1 DEF _take_wings_send
  <2>5. Active(n)
    BY <1>1, <2>3 DEF Active
  <2>6. UNCHANGED core
    BY <2>3
  <2>7. /\ e.legs = takes[n].legs /\ e.mine = takes[n].mine /\ e.stage \in {"sent", "confirming"}
        /\ wing_filled' = wing_filled /\ inflight' = inflight
    BY <1>1, <2>2, <2>3
  <2> QED
    BY <2>4, <2>5, <2>6, <2>7, WorkWhole
<1>5. ASSUME NEW k, NEW answer, NEW room, Confirm(n, k, answer, room) PROVE Whole'
  <2>1. PICK d : d = Min({Cardinality(answer), room})
    OBVIOUS
  <2>2. PICK e : e = [t EXCEPT !.lost = @ \ {k}, !.got[k] = @ + d]
    OBVIOUS
  <2>3. e.stage = t.stage /\ e.legs = t.legs /\ e.mine = t.mine
    BY <1>2, <2>2 DEF Fields
  <2>4. /\ takes' = [takes EXCEPT ![n].lost = @ \ {k}, ![n].got[k] = @ + d]
        /\ UNCHANGED core /\ wing_filled' = wing_filled /\ inflight' = inflight /\ t.stage = "confirming"
    BY <1>1, <1>5, <2>1 DEF Confirm, Stage
  <2>5. takes' = [takes EXCEPT ![n] = e]
    BY <1>1, <2>2, <2>4
  <2>6. Active(n)
    BY <1>1, <2>4 DEF Active
  <2>7. UNCHANGED core
    BY <2>4
  <2>8. /\ e.legs = takes[n].legs /\ e.mine = takes[n].mine /\ e.stage \in {"sent", "confirming"}
        /\ wing_filled' = wing_filled /\ inflight' = inflight
    BY <1>1, <2>3, <2>4
  <2> QED
    BY <2>5, <2>6, <2>7, <2>8, WorkWhole
<1> QED
  BY <1>3, <1>4, <1>5

\* Whole is kept by every step.
LEMMA WholeNext == ASSUME OneWholeBatch, Sound, Whole, [Next]_vars PROVE Whole'
<1>1. CASE \E Sd \in Buckets, n \in 1..MaxLots, now \in Nows : _book_rung_fill(Sd, n, now)
  BY <1>1, BookWhole
<1>2. CASE \E now \in Nows : on_tick(now)
  BY <1>2, TickWhole
<1>3. CASE Cutoff \/ BackoffEnds \/ UNCHANGED vars
  <2>1. legs' = legs /\ takes' = takes /\ inflight' = inflight /\ wing_filled' = wing_filled
    BY <1>3 DEF Cutoff, BackoffEnds, vars, core, executor
  <2> QED
    BY <2>1, StillWhole
<1>4. ASSUME NEW n \in DOMAIN takes,
             BackoffSkip(n) \/ Claim(n) \/ TakeReturns(n) \/ _ingest_async(n)
      PROVE  Whole'
  BY <1>4, SkipWhole, ClaimWhole, ReturnsWhole, IngestWhole
<1>5. ASSUME NEW n \in DOMAIN takes, NEW buys, NEW limited, Execute(n, buys, limited) PROVE Whole'
  BY <1>5, ExecutorWhole
<1>6. ASSUME NEW n \in DOMAIN takes, NEW read, NEW lost, _take_wings_send(n, read, lost) PROVE Whole'
  BY <1>6, ExecutorWhole
<1>7. ASSUME NEW n \in DOMAIN takes, NEW k,
             _venue_wing_fills_async(n, k) \/ ConfirmGetFailed(n, k)
      PROVE  Whole'
  <2>1. \E answer, room : Confirm(n, k, answer, room)
    BY <1>7 DEF _venue_wing_fills_async, ConfirmGetFailed
  <2> QED
    BY <2>1, ExecutorWhole
<1> QED
  BY <1>1, <1>2, <1>3, <1>4, <1>5, <1>6, <1>7 DEF Next

\* Whole holds at first.
LEMMA WholeInit == Init => Whole
<1> SUFFICES ASSUME Init PROVE Whole
  OBVIOUS
<1>1. DOMAIN legs = {} /\ DOMAIN takes = {} /\ inflight = {}
  BY DEF Init
<1> QED
  BY <1>1 DEF Whole, Alike, OneTake, Unmarked, Missing, State

\* Whole is strong enough.
LEMMA WholePending == ASSUME Whole PROVE PendingUnderWay
BY DEF Whole, OneTake, PendingUnderWay, Stage, Over

\* A leg marked pending belongs to a take that is still to be reported: none is forgotten
\* by _pump_async, _take_wings_async or _ingest_async.  The hypothesis is the scope in
\* which the code keeps this: one batch whose two legs are always sent together.  With two
\* batches, or a batch taken in halves, a take may start between the return of another and
\* its _ingest_async; it carries legs that are bought already, and those stay pending.
THEOREM PendingUnderWayTheorem == ASSUME OneWholeBatch PROVE Spec => []PendingUnderWay
<1>1. OneBatchIfLossy
  BY DEF OneWholeBatch, OneBatchIfLossy
<1>2. Sound /\ [Next]_vars => Sound'
  BY <1>1, SoundNext
<1>3. Sound /\ Whole /\ [Next]_vars => Whole'
  BY WholeNext
<1>4. Whole => PendingUnderWay
  BY WholePending
<1> QED
  BY <1>2, <1>3, <1>4, SoundInit, WholeInit, PTL DEF Spec
=============================================================================
