--------------------------- MODULE ServiceProofs ---------------------------
(***************************************************************************)
(* Proofs about Account and Service: the stops that halt a day, the        *)
(* reconcile-first gate, the settlement backfill, the money the ledgers    *)
(* count, the balance check and the rotation of the journals, for any      *)
(* rosters, hours, outcomes, prices and number of faults.                  *)
(***************************************************************************)
EXTENDS Service, FiniteSetTheorems, WellFoundedInduction, TLAPS

\* where the processes of the first strategy, and those of the others, can be
ServicePcs == {"off", "prepare", "positions", "backfill", "s4", "discover", "rotate", "trading",
               "flush", "row"}
PinPcs == {"off", "sweep", "decide", "window", "append"}

ProcShape(r) ==
  LET p == proc[r]
  IN /\ p = [pc |-> p.pc, clean |-> p.clean, balance |-> p.balance, s4 |-> p.s4,
             armed |-> p.armed, plan |-> p.plan]
     /\ p.pc \in IF r = "v1" THEN ServicePcs ELSE PinPcs
     /\ p.clean \in BOOLEAN /\ p.armed \in BOOLEAN

GuardShape(g) ==
  /\ g = [start |-> g.start, legged |-> g.legged, s4 |-> g.s4, corrupt |-> g.corrupt,
          lost |-> g.lost]
  /\ g.start \in Int /\ g.legged \in Nat /\ g.lost \in Nat
  /\ g.s4 \in BOOLEAN /\ g.corrupt \in BOOLEAN

HeldType == [src : {"pin", "flip", "box", "strangle"}, legs : SUBSET Legs, price : Nat,
             out : Outcomes \cup {"open"}, settled : SUBSET Legs, core : SUBSET Legs]

RowType == [kind : {"window", "backfill", "torn", "glued"}, of : 0..Hours, delta : Int,
            floor : Int, legs : SUBSET Legs, flagged : BOOLEAN]

FileType == [flushed : BOOLEAN, raw : BOOLEAN, gz : {"none", "full"}, tmp : BOOLEAN]

Clock == rosters \in RosterSets /\ hour \in 1..Hours

Procs == proc = [r \in rosters |-> proc[r]] /\ \A r \in rosters : ProcShape(r)

Helds == held \in [rosters -> [1..Hours -> HeldType]]

Ledgers == ledger \in [rosters -> Seq(RowType)]

Guards == /\ guard = [r \in rosters |-> guard[r]]
          /\ \A r \in rosters : /\ guard[r] = [d \in Days |-> guard[r][d]]
                                /\ \A d \in Days : GuardShape(guard[r][d])

Files == files \in [1..Hours -> FileType]

Shape == Clock /\ Procs /\ Helds /\ Ledgers /\ Guards /\ Files

\* What the row of a window says: the legs that wait for their settlement, what is counted of it
\* already, and the money.
RowLegs(r, p) == IF r = V THEN unsettled_legs(p) ELSE p.core

RowFloor(r, p) ==
  IF r # V THEN v32_set_floor_dollars(Cardinality(p.core))
  ELSE IF p.src = "box" THEN Dollar * matched_pairs(p) ELSE 0

RowDelta(r, p) == IF r = V THEN realized_at_close(p) ELSE compute_ladder_money_math(p)

Written(r, p, row) ==
  /\ row.delta = RowDelta(r, p) /\ row.floor = RowFloor(r, p) /\ row.legs = RowLegs(r, p)
  /\ Reconciles(r) /\ p.legs # {} /\ p.core = {} => row.flagged

\* What the row of a settlement says: what the legs of a row have paid, but for its floor.
Paid(p, legs, floor, row) ==
  /\ legs # {} /\ SettledAll(p, legs)
  /\ row.delta = settlement_payoff(p.src, legs, p.out) - floor

-----------------------------------------------------------------------------
(* Money and rows *)

\* A set of legs is finite.
LEMMA LegsFinite == ASSUME NEW S, S \subseteq Legs PROVE IsFiniteSet(S) /\ Cardinality(S) \in Nat
<1>1. IsFiniteSet({"bucket"} \cup {"yes"} \cup {"no"})
  <2>1. IsFiniteSet({"bucket"})
    BY FS_Singleton
  <2>2. IsFiniteSet({"bucket"} \cup {"yes"})
    BY <2>1, FS_AddElement
  <2> QED
    BY <2>2, FS_AddElement
<1>2. S \in SUBSET ({"bucket"} \cup {"yes"} \cup {"no"})
  BY DEF Legs
<1> QED
  BY <1>1, <1>2, FS_Subset, FS_CardinalityType

\* What legs pay is a whole number of units.
LEMMA PayoffInt == ASSUME NEW src, NEW S, S \subseteq Legs, NEW out PROVE settlement_payoff(src, S, out) \in Int
<1>1. Cardinality({g \in S : Pays(src, g, out)}) \in Nat
  <2>1. {g \in S : Pays(src, g, out)} \subseteq Legs
    OBVIOUS
  <2> QED
    BY <2>1, LegsFinite
<1> QED
  BY <1>1, AccountAssumption DEF settlement_payoff

\* The floor of a set is a whole number of units.
LEMMA FloorInt == ASSUME NEW S, S \subseteq Legs PROVE v32_set_floor_dollars(Cardinality(S)) \in Int
  BY LegsFinite, AccountAssumption DEF v32_set_floor_dollars

\* The row of a window is a row.
LEMMA RowsOfWindows ==
  ASSUME NEW h \in 1..Hours, NEW p \in HeldType, NEW flagged \in BOOLEAN
  PROVE /\ EmptyRow(h) \in RowType /\ build_v32_ledger_row(h, p) \in RowType
        /\ build_v33_ledger_row(h, p, flagged) \in RowType
        /\ _build_ledger_entry(h, p) \in RowType /\ _build_box_ledger_entry(h, p) \in RowType
        /\ EmptyRow(h).kind = "window" /\ EmptyRow(h).of = h
        /\ build_v32_ledger_row(h, p).kind = "window" /\ build_v32_ledger_row(h, p).of = h
        /\ build_v33_ledger_row(h, p, flagged).kind = "window"
        /\ build_v33_ledger_row(h, p, flagged).of = h
        /\ _build_ledger_entry(h, p).kind = "window" /\ _build_ledger_entry(h, p).of = h
        /\ _build_box_ledger_entry(h, p).kind = "window" /\ _build_box_ledger_entry(h, p).of = h
<1>1. p.legs \subseteq Legs /\ p.core \subseteq Legs /\ p.price \in Nat
  BY DEF HeldType
<1>2. h \in 0..Hours
  BY AccountAssumption
<1>3. Cardinality(p.core) \in Nat /\ Cardinality(p.legs) \in Nat
  BY <1>1, LegsFinite
<1>4. v32_set_floor_dollars(Cardinality(p.core)) \in Int
  BY <1>1, FloorInt
<1>5. _compute_money_math(p) \in Int
  BY <1>1, <1>3, <1>4 DEF _compute_money_math
<1>6. compute_ladder_money_math(p) \in Int
  BY <1>5 DEF compute_ladder_money_math
<1>7. Dollar * matched_pairs(p) \in Int
  BY AccountAssumption DEF matched_pairs
<1>8. realized_at_close(p) \in Int
  BY <1>1, <1>3, <1>7 DEF realized_at_close
<1>9. unsettled_legs(p) \subseteq Legs
  BY <1>1 DEF unsettled_legs
<1>10. ASSUME NEW delta \in Int, NEW floor \in Int, NEW S \in SUBSET Legs, NEW f \in BOOLEAN
       PROVE [kind |-> "window", of |-> h, delta |-> delta, floor |-> floor, legs |-> S,
              flagged |-> f] \in RowType
  BY <1>2, <1>10 DEF RowType
<1>11. EmptyRow(h) \in RowType /\ EmptyRow(h).kind = "window" /\ EmptyRow(h).of = h
  <2>1. {} \in SUBSET Legs /\ 0 \in Int /\ FALSE \in BOOLEAN
    OBVIOUS
  <2> QED
    BY <1>10, <2>1 DEF EmptyRow, Row
<1>12. /\ build_v32_ledger_row(h, p) \in RowType
       /\ build_v32_ledger_row(h, p).kind = "window" /\ build_v32_ledger_row(h, p).of = h
  BY <1>10, <1>1, <1>4, <1>5 DEF build_v32_ledger_row, Row
<1>13. /\ build_v33_ledger_row(h, p, flagged) \in RowType
       /\ build_v33_ledger_row(h, p, flagged).kind = "window"
       /\ build_v33_ledger_row(h, p, flagged).of = h
  <2> DEFINE m == compute_ladder_money_math(p)
             n == v32_set_floor_dollars(Cardinality(p.core))
  <2>1. m \in Int /\ n \in Int /\ p.core \in SUBSET Legs
    BY <1>1, <1>4, <1>6
  <2>2. build_v33_ledger_row(h, p, flagged) = [Row("window", h, m, n, p.core) EXCEPT !.flagged = flagged]
    BY DEF build_v33_ledger_row
  <2> HIDE DEF m, n
  <2>3. build_v33_ledger_row(h, p, flagged) = [kind |-> "window", of |-> h, delta |-> m, floor |-> n,
                                               legs |-> p.core, flagged |-> flagged]
    BY <2>2 DEF Row
  <2> QED
    BY <2>1, <2>3, <1>10
<1>14. /\ _build_ledger_entry(h, p) \in RowType
       /\ _build_ledger_entry(h, p).kind = "window" /\ _build_ledger_entry(h, p).of = h
  <2> DEFINE m == realized_at_close(p)
             S == unsettled_legs(p)
  <2>1. m \in Int /\ 0 \in Int /\ S \in SUBSET Legs /\ FALSE \in BOOLEAN
    BY <1>8, <1>9
  <2>2. _build_ledger_entry(h, p) = Row("window", h, m, 0, S)
    BY DEF _build_ledger_entry
  <2> HIDE DEF m, S
  <2>3. _build_ledger_entry(h, p) = [kind |-> "window", of |-> h, delta |-> m, floor |-> 0,
                                     legs |-> S, flagged |-> FALSE]
    BY <2>2 DEF Row
  <2>4. _build_ledger_entry(h, p) \in RowType
    BY <2>1, <2>3, <1>2 DEF RowType
  <2> QED
    BY <2>3, <2>4
<1>15. /\ _build_box_ledger_entry(h, p) \in RowType
       /\ _build_box_ledger_entry(h, p).kind = "window" /\ _build_box_ledger_entry(h, p).of = h
  BY <1>10, <1>7, <1>8, <1>9 DEF _build_box_ledger_entry, Row
<1> QED
  BY <1>11, <1>12, <1>13, <1>14, <1>15

\* The row of a window says what the window holds.
LEMMA RowsWritten ==
  ASSUME NEW h \in 1..Hours, NEW p \in HeldType
  PROVE /\ Written("v32", p, build_v32_ledger_row(h, p))
        /\ \A r \in Rosters \ {V}, flagged \in BOOLEAN :
             (Mismatch(r, p) => flagged) => Written(r, p, build_v33_ledger_row(h, p, flagged))
        /\ p.src # "box" => Written(V, p, _build_ledger_entry(h, p))
        /\ p.src = "box" => Written(V, p, _build_box_ledger_entry(h, p))
<1>1. Written("v32", p, build_v32_ledger_row(h, p))
  <2>1. _compute_money_math(p) = compute_ladder_money_math(p)
    <3>1. CASE p.core = {}
      <4>1. Cardinality(p.core) = 0 /\ p.price \in Nat
        BY <3>1, FS_EmptySet DEF HeldType
      <4> QED
        BY <3>1, <4>1 DEF _compute_money_math, compute_ladder_money_math, v32_set_floor_dollars
    <3> QED
      BY <3>1 DEF compute_ladder_money_math
  <2> QED
    BY <2>1 DEF Written, build_v32_ledger_row, Row, RowDelta, RowFloor, RowLegs, V, Reconciles
<1>2. ASSUME NEW r \in Rosters \ {V}, NEW flagged \in BOOLEAN, Mismatch(r, p) => flagged
      PROVE  Written(r, p, build_v33_ledger_row(h, p, flagged))
  BY <1>2 DEF Written, build_v33_ledger_row, Row, RowDelta, RowFloor, RowLegs, Mismatch
<1>3. p.src # "box" => Written(V, p, _build_ledger_entry(h, p))
  BY DEF Written, _build_ledger_entry, Row, RowDelta, RowFloor, RowLegs, V, Reconciles
<1>4. p.src = "box" => Written(V, p, _build_box_ledger_entry(h, p))
  BY DEF Written, _build_box_ledger_entry, Row, RowDelta, RowFloor, RowLegs, V, Reconciles
<1> QED
  BY <1>1, <1>2, <1>3, <1>4

\* What an append does to the file: the row, or the torn line that it completes, comes last.
LEMMA AppendShape ==
  ASSUME NEW rows \in Seq(RowType), NEW row \in RowType,
         NEW new, new = append_v33_ledger_row(rows, row)
  PROVE /\ new \in Seq(RowType)
        /\ \A i \in DOMAIN new :
             \/ i \in DOMAIN rows /\ new[i] = rows[i]
             \/ new[i] = row /\ i = Len(rows) + 1
             \/ new[i] = Glued
<1>1. Glued \in RowType
  BY AccountAssumption DEF Glued, Row, RowType
<1>2. CASE TornTail(rows)
  <2>1. new = [rows EXCEPT ![Len(rows)] = Glued]
    BY <1>2 DEF append_v33_ledger_row
  <2>2. Len(rows) \in DOMAIN rows
    BY <1>2 DEF TornTail
  <2> QED
    BY <2>1, <2>2, <1>1
<1>3. CASE ~TornTail(rows)
  <2>1. new = Append(rows, row)
    BY <1>3 DEF append_v33_ledger_row
  <2> QED
    BY <2>1
<1> QED
  BY <1>2, <1>3

-----------------------------------------------------------------------------
(* Sums over finite sets *)

\* the equation of the recursion that adds the values of f over each subset of D
IsSum(g, f, D) ==
  g = [s \in SUBSET D |-> IF s = {} THEN 0
                          ELSE f[CHOOSE x \in s : TRUE] + g[s \ {CHOOSE x \in s : TRUE}]]

\* A family of subsets of a finite set has a smallest member.
LEMMA SmallestSubset ==
  ASSUME NEW D, IsFiniteSet(D), NEW T, T \subseteq SUBSET D, T # {}
  PROVE  \E s \in T : \A u \in T : u \subseteq s => u = s
<1>1. IsWellFoundedOn(StrictSubsetOrdering(D), SUBSET D)
  BY FS_StrictSubsetOrderingWellFounded, FS_FiniteSubsetsOfFinite
<1>2. PICK s \in T : \A u \in T : <<u, s>> \notin StrictSubsetOrdering(D)
  BY <1>1, WFMin
<1> QED
  BY <1>2 DEF StrictSubsetOrdering

\* What a sum is at a set that is not empty.
LEMMA SumStep ==
  ASSUME NEW D, NEW f, NEW g, IsSum(g, f, D), NEW s \in SUBSET D
  PROVE  /\ s = {} => g[s] = 0
         /\ s # {} => \E x \in s : /\ x = CHOOSE y \in s : TRUE
                                   /\ g[s] = f[x] + g[s \ {x}]
<1>1. g[s] = IF s = {} THEN 0 ELSE f[CHOOSE x \in s : TRUE] + g[s \ {CHOOSE x \in s : TRUE}]
  BY DEF IsSum
<1>2. s # {} => (CHOOSE y \in s : TRUE) \in s
  OBVIOUS
<1> QED
  BY <1>1, <1>2

\* There is one sum.
LEMMA SumUnique ==
  ASSUME NEW D, IsFiniteSet(D), NEW f, NEW g, NEW k, IsSum(g, f, D), IsSum(k, f, D)
  PROVE  g = k
<1> DEFINE T == {s \in SUBSET D : g[s] # k[s]}
<1>1. ASSUME T # {} PROVE FALSE
  <2>1. PICK s \in T : \A u \in T : u \subseteq s => u = s
    <3>1. T \subseteq SUBSET D
      OBVIOUS
    <3> HIDE DEF T
    <3> QED
      BY <1>1, <3>1, SmallestSubset
  <2>2. CASE s = {}
    BY <2>1, <2>2, SumStep
  <2>3. CASE s # {}
    <3>1. PICK x \in s : x = (CHOOSE y \in s : TRUE) /\ g[s] = f[x] + g[s \ {x}]
      <4>1. s \in SUBSET D
        BY <2>1
      <4> QED
        BY <4>1, <2>3, SumStep
    <3>2. k[s] = f[x] + k[s \ {x}]
      <4>1. s \in SUBSET D
        BY <2>1
      <4> QED
        <5>1. PICK z \in s : z = (CHOOSE y \in s : TRUE) /\ k[s] = f[z] + k[s \ {z}]
          BY <4>1, <2>3, SumStep
        <5>2. z = x
          BY <3>1, <5>1
        <5> QED
          BY <5>1, <5>2
    <3>3. s \ {x} \in SUBSET D /\ s \ {x} # s /\ s \ {x} \subseteq s
      BY <2>1
    <3>4. s \ {x} \notin T
      BY <2>1, <3>3
    <3> QED
      BY <2>1, <3>1, <3>2, <3>3, <3>4
  <2> QED
    BY <2>2, <2>3
<1>2. \A s \in SUBSET D : g[s] = k[s]
  BY <1>1
<1>3. g = [s \in SUBSET D |-> g[s]] /\ k = [s \in SUBSET D |-> k[s]]
  BY DEF IsSum
<1> QED
  BY <1>2, <1>3

\* A sum of which no more than two terms count.
LEMMA SumOfTwo ==
  ASSUME NEW D, IsFiniteSet(D), NEW f, \A x \in D : f[x] \in Int, NEW a, NEW b, a # b,
         \A x \in D \ {a, b} : f[x] = 0
  PROVE  \E g : /\ IsSum(g, f, D)
                /\ g[D] = (IF a \in D THEN f[a] ELSE 0) + (IF b \in D THEN f[b] ELSE 0)
<1> DEFINE A(s) == IF a \in s THEN f[a] ELSE 0
           B(s) == IF b \in s THEN f[b] ELSE 0
           g == [s \in SUBSET D |-> A(s) + B(s)]
<1>1. ASSUME NEW s \in SUBSET D
      PROVE  A(s) + B(s) = IF s = {} THEN 0
                           ELSE f[CHOOSE x \in s : TRUE] + g[s \ {CHOOSE x \in s : TRUE}]
  <2>1. CASE s = {}
    BY <2>1
  <2>2. CASE s # {}
    <3>1. PICK x : x = (CHOOSE y \in s : TRUE)
      OBVIOUS
    <3>2. x \in s
      BY <2>2, <3>1
    <3>3. s \ {x} \in SUBSET D
      OBVIOUS
    <3>4. g[s \ {x}] = A(s \ {x}) + B(s \ {x})
      BY <3>3
    <3>5. A(s) + B(s) = f[x] + (A(s \ {x}) + B(s \ {x}))
      <4>1. CASE x = a
        <5>1. A(s) = f[a] /\ A(s \ {x}) = 0 /\ B(s) = B(s \ {x})
          BY <4>1, <3>2
        <5>2. B(s) \in Int /\ f[a] \in Int
          BY <3>2, <4>1
        <5> QED
          BY <4>1, <5>1, <5>2
      <4>2. CASE x = b
        <5>1. B(s) = f[b] /\ B(s \ {x}) = 0 /\ A(s) = A(s \ {x})
          BY <4>2, <3>2
        <5>2. A(s) \in Int /\ f[b] \in Int
          BY <3>2, <4>2
        <5> QED
          BY <4>2, <5>1, <5>2
      <4>3. CASE x # a /\ x # b
        <5>1. B(s) = B(s \ {x}) /\ A(s) = A(s \ {x}) /\ f[x] = 0
          BY <4>3, <3>2
        <5>2. A(s) \in Int /\ B(s) \in Int
          OBVIOUS
        <5> QED
          BY <5>1, <5>2
      <4> QED
        BY <4>1, <4>2, <4>3
    <3> QED
      BY <2>2, <3>1, <3>4, <3>5
  <2> QED
    BY <2>1, <2>2
<1>2. IsSum(g, f, D)
  BY <1>1 DEF IsSum
<1>3. g[D] = A(D) + B(D)
  OBVIOUS
<1> QED
  BY <1>2, <1>3

\* The sum of a part of a set.
LEMMA SumPart ==
  ASSUME NEW D, NEW f, NEW g, IsSum(g, f, D), NEW s \in SUBSET D
  PROVE  IsSum([u \in SUBSET s |-> g[u]], f, s)
<1> DEFINE k == [u \in SUBSET s |-> g[u]]
<1>1. ASSUME NEW u \in SUBSET s
      PROVE  g[u] = IF u = {} THEN 0 ELSE f[CHOOSE x \in u : TRUE] + k[u \ {CHOOSE x \in u : TRUE}]
  <2>1. u \in SUBSET D /\ u \ {CHOOSE x \in u : TRUE} \in SUBSET s
    OBVIOUS
  <2>2. g[u] = IF u = {} THEN 0 ELSE f[CHOOSE x \in u : TRUE] + g[u \ {CHOOSE x \in u : TRUE}]
    BY <2>1 DEF IsSum
  <2> QED
    BY <2>1, <2>2
<1>2. k = [u \in SUBSET s |-> IF u = {} THEN 0
                              ELSE f[CHOOSE x \in u : TRUE] + k[u \ {CHOOSE x \in u : TRUE}]]
  BY <1>1
<1> QED
  BY <1>2 DEF IsSum

\* A finite set has a sum.
LEMMA SumExists == ASSUME NEW D, IsFiniteSet(D), NEW f PROVE \E g : IsSum(g, f, D)
<1> DEFINE T == {s \in SUBSET D : ~\E g : IsSum(g, f, s)}
<1>1. ASSUME T # {} PROVE FALSE
  <2>1. PICK s \in T : \A u \in T : u \subseteq s => u = s
    <3>1. T \subseteq SUBSET D
      OBVIOUS
    <3> HIDE DEF T
    <3> QED
      BY <1>1, <3>1, SmallestSubset
  <2>2. s \in SUBSET D /\ ~\E g : IsSum(g, f, s)
    BY <2>1
  <2> DEFINE G(u) == CHOOSE g : IsSum(g, f, u)
             x(u) == CHOOSE y \in u : TRUE
             v(u) == IF u = {} THEN 0 ELSE f[x(u)] + G(u \ {x(u)})[u \ {x(u)}]
             k == [u \in SUBSET s |-> v(u)]
  <2>3. ASSUME NEW u \in SUBSET s, u # s PROVE IsSum(G(u), f, u)
    <3>1. u \notin T /\ u \in SUBSET D
      BY <2>1, <2>2, <2>3
    <3>2. \E g : IsSum(g, f, u)
      BY <3>1
    <3> QED
      BY <3>2
  <2>4. ASSUME NEW u \in SUBSET s, u # s PROVE v(u) = G(u)[u]
    <3>1. IsSum(G(u), f, u)
      BY <2>3, <2>4
    <3>2. CASE u = {}
      <4>1. G(u)[u] = 0
        BY <3>1, <3>2, SumStep
      <4> QED
        BY <3>2, <4>1
    <3>3. CASE u # {}
      <4>1. PICK w : w = u \ {x(u)}
        OBVIOUS
      <4>2. x(u) \in u
        BY <3>3
      <4>3. w \in SUBSET u /\ w \in SUBSET s /\ w # s /\ w \in SUBSET D
        BY <2>2, <4>1, <4>2
      <4>4. G(u)[u] = f[x(u)] + G(u)[w]
        <5>1. \E y \in u : y = (CHOOSE z \in u : TRUE) /\ G(u)[u] = f[y] + G(u)[u \ {y}]
          <6> HIDE DEF G
          <6> QED
            BY <3>1, <3>3, SumStep
        <5> QED
          BY <4>1, <5>1
      <4>5. IsSum(G(w), f, w)
        BY <2>3, <4>3
      <4>6. IsSum([t \in SUBSET w |-> G(u)[t]], f, w)
        <5> HIDE DEF G
        <5> QED
          BY <3>1, <4>3, SumPart
      <4>7. IsFiniteSet(w)
        BY <4>3, FS_Subset
      <4>8. [t \in SUBSET w |-> G(u)[t]] = G(w)
        <5> HIDE DEF G
        <5> QED
          BY <4>5, <4>6, <4>7, SumUnique
      <4>9. G(w)[w] = G(u)[w]
        <5> HIDE DEF G
        <5>1. [t \in SUBSET w |-> G(u)[t]][w] = G(u)[w]
          OBVIOUS
        <5> QED
          BY <4>8, <5>1
      <4>10. v(u) = f[x(u)] + G(w)[w]
        BY <3>3, <4>1
      <4> QED
        BY <4>4, <4>9, <4>10
    <3> QED
      BY <3>2, <3>3
  <2>5. ASSUME NEW u \in SUBSET s
        PROVE  v(u) = IF u = {} THEN 0 ELSE f[x(u)] + k[u \ {x(u)}]
    <3>1. CASE u # {}
      <4>1. PICK w : w = u \ {x(u)}
        OBVIOUS
      <4>2. x(u) \in u
        BY <3>1
      <4>3. w \in SUBSET s /\ w # s
        BY <4>1, <4>2
      <4>4. k[w] = v(w) /\ v(w) = G(w)[w]
        <5>1. v(w) = G(w)[w]
          BY <2>4, <4>3
        <5> HIDE DEF v
        <5> QED
          BY <4>3, <5>1
      <4>5. v(u) = f[x(u)] + G(w)[w]
        BY <3>1, <4>1
      <4> HIDE DEF v, k, G
      <4> QED
        BY <3>1, <4>1, <4>4, <4>5
    <3> QED
      BY <3>1
  <2>6. IsSum(k, f, s)
    <3> HIDE DEF v
    <3> QED
      BY <2>5 DEF IsSum
  <2> HIDE DEF k
  <2> QED
    BY <2>2, <2>6
<1>2. D \notin T
  BY <1>1
<1> QED
  BY <1>2

\* A sum of whole numbers is one.
LEMMA SumInt ==
  ASSUME NEW D, IsFiniteSet(D), NEW f, \A x \in D : f[x] \in Int, NEW g, IsSum(g, f, D)
  PROVE  g[D] \in Int
<1> DEFINE T == {s \in SUBSET D : g[s] \notin Int}
<1>1. ASSUME T # {} PROVE FALSE
  <2>1. PICK s \in T : \A u \in T : u \subseteq s => u = s
    <3>1. T \subseteq SUBSET D
      OBVIOUS
    <3> HIDE DEF T
    <3> QED
      BY <1>1, <3>1, SmallestSubset
  <2>2. s \in SUBSET D /\ g[s] \notin Int
    BY <2>1
  <2>3. s # {}
    BY <2>2, SumStep
  <2>4. PICK x \in s : g[s] = f[x] + g[s \ {x}]
    BY <2>2, <2>3, SumStep
  <2>5. s \ {x} \in SUBSET D /\ s \ {x} # s /\ s \ {x} \subseteq s
    BY <2>2
  <2>6. g[s \ {x}] \in Int
    BY <2>1, <2>5
  <2> QED
    BY <2>2, <2>4, <2>6
<1>2. D \notin T
  BY <1>1
<1> QED
  BY <1>2

\* The balance is a whole number.
LEMMA BalanceInt == ASSUME Clock, Helds PROVE Balance \in Int
<1> DEFINE D == Traded
           term(w) == LET p == held[w[1]][w[2]]
                      IN settlement_payoff(p.src, p.settled, p.out) - p.price * Cardinality(p.legs)
           f == [w \in D |-> term(w)]
           P(g) == g = [s \in SUBSET D |-> IF s = {} THEN 0
                        ELSE term(CHOOSE x \in s : TRUE) + g[s \ {CHOOSE x \in s : TRUE}]]
<1>1. Balance = (CHOOSE g : P(g))[D]
  BY DEF Balance, MapThenSumSet, MapThenFoldSet
<1>2. IsFiniteSet(D)
  <2>1. rosters \subseteq Rosters
    BY AccountAssumption DEF Clock
  <2>2. IsFiniteSet(Rosters)
    <3>1. IsFiniteSet({} \cup {"v1"} \cup {"v32"} \cup {"v33"} \cup {"v33_eth"})
      <4>1. IsFiniteSet({} \cup {"v1"})
        BY FS_EmptySet, FS_AddElement
      <4>2. IsFiniteSet({} \cup {"v1"} \cup {"v32"})
        BY <4>1, FS_AddElement
      <4>3. IsFiniteSet({} \cup {"v1"} \cup {"v32"} \cup {"v33"})
        BY <4>2, FS_AddElement
      <4> QED
        BY <4>3, FS_AddElement
    <3>2. Rosters = {} \cup {"v1"} \cup {"v32"} \cup {"v33"} \cup {"v33_eth"}
      BY DEF Rosters
    <3> QED
      BY <3>1, <3>2
  <2>3. IsFiniteSet(rosters) /\ IsFiniteSet(1..Hours)
    BY <2>1, <2>2, FS_Subset, FS_Interval, AccountAssumption
  <2>4. IsFiniteSet(rosters \X (1..Hours))
    BY <2>3, FS_Product
  <2>5. Traded \subseteq rosters \X (1..Hours)
    BY DEF Traded
  <2> QED
    BY <2>4, <2>5, FS_Subset
<1>3. ASSUME NEW w \in D PROVE f[w] \in Int
  <2>1. PICK p : p = held[w[1]][w[2]]
    OBVIOUS
  <2>2. p \in HeldType
    BY <2>1 DEF Traded, Helds
  <2>3. p.settled \subseteq Legs /\ p.legs \subseteq Legs /\ p.price \in Nat
    BY <2>2 DEF HeldType
  <2>4. settlement_payoff(p.src, p.settled, p.out) \in Int /\ Cardinality(p.legs) \in Nat
    BY <2>3, PayoffInt, LegsFinite
  <2> QED
    BY <2>1, <2>3, <2>4
<1>4. ASSUME NEW s \in SUBSET D, s # {}
      PROVE  f[CHOOSE x \in s : TRUE] = term(CHOOSE x \in s : TRUE)
  <2>1. (CHOOSE x \in s : TRUE) \in D
    BY <1>4
  <2> HIDE DEF term
  <2> QED
    BY <2>1
<1>5. ASSUME NEW g PROVE P(g) <=> IsSum(g, f, D)
  <2> HIDE DEF D, f, term
  <2> QED
    BY <1>4 DEF IsSum
<1> HIDE DEF D, f
<1>6. PICK g : P(g)
  BY <1>2, <1>5, SumExists
<1> HIDE DEF P
<1>7. P(CHOOSE k : P(k))
  BY <1>6
<1>8. IsSum(CHOOSE k : P(k), f, D)
  BY <1>5, <1>7
<1> QED
  BY <1>1, <1>2, <1>3, <1>8, SumInt

-----------------------------------------------------------------------------
(* What a step does to each part of the state *)

\* The assignments to a process that a step of the first strategy makes keep its shape.
LEMMA ProceedShape ==
  ASSUME Procs, Runs, NEW pc \in ServicePcs, NEW p, NEW armed \in BOOLEAN, Proceed(pc, p, armed),
         rosters' = rosters
  PROVE /\ Procs'
        /\ proc'[V].pc = pc /\ proc'[V].armed = armed /\ proc'[V].clean = FALSE /\ proc'[V].plan = p
        /\ \A r \in rosters : r # V => proc'[r] = proc[r]
<1>1. V \in rosters /\ V = "v1"
  BY DEF Runs, V
<1>2. proc' = [proc EXCEPT ![V] = [pc |-> pc, clean |-> FALSE, balance |-> None, s4 |-> "none",
                                   armed |-> armed, plan |-> p]]
  <2>1. [Idle EXCEPT !.pc = pc, !.plan = p, !.armed = armed]
          = [pc |-> pc, clean |-> FALSE, balance |-> None, s4 |-> "none", armed |-> armed, plan |-> p]
    <3>1. PICK r : r = [Idle EXCEPT !.pc = pc, !.plan = p, !.armed = armed]
      OBVIOUS
    <3>2. /\ r = [pc |-> r.pc, clean |-> r.clean, balance |-> r.balance, s4 |-> r.s4,
                  armed |-> r.armed, plan |-> r.plan]
          /\ r.pc = pc /\ r.clean = FALSE /\ r.balance = None /\ r.s4 = "none" /\ r.plan = p
          /\ r.armed = armed
      BY <3>1 DEF Idle
    <3> QED
      BY <3>1, <3>2
  <2> QED
    BY <2>1 DEF Proceed
<1>3. /\ proc'[V] = [pc |-> pc, clean |-> FALSE, balance |-> None, s4 |-> "none",
                     armed |-> armed, plan |-> p]
      /\ \A r \in rosters : r # V => proc'[r] = proc[r]
      /\ proc' = [r \in rosters |-> proc'[r]]
  BY <1>1, <1>2 DEF Procs
<1>4. ASSUME NEW r \in rosters PROVE ProcShape(r)'
  <2>1. CASE r = V
    BY <2>1, <1>1, <1>3 DEF ProcShape
  <2>2. CASE r # V
    <3>1. ProcShape(r) /\ proc'[r] = proc[r]
      BY <2>2, <1>3 DEF Procs
    <3> QED
      BY <3>1 DEF ProcShape
  <2> QED
    BY <2>1, <2>2
<1> QED
  BY <1>1, <1>3, <1>4 DEF Procs

\* What a step without a plan of its own makes of another process.
LEMMA StopShape ==
  ASSUME Procs, NEW r \in rosters, Stop(r), rosters' = rosters
  PROVE /\ Procs'
        /\ proc'[r].pc = "off" /\ proc'[r].armed = FALSE /\ proc'[r].clean = FALSE
        /\ \A s \in rosters : s # r => proc'[s] = proc[s]
<1>1. /\ proc'[r] = Idle /\ \A s \in rosters : s # r => proc'[s] = proc[s]
      /\ proc' = [s \in rosters |-> proc'[s]]
  BY DEF Stop, Procs
<1>2. ASSUME NEW s \in rosters PROVE ProcShape(s)'
  <2>1. CASE s = r
    BY <2>1, <1>1 DEF ProcShape, Idle, ServicePcs, PinPcs
  <2>2. CASE s # r
    <3>1. ProcShape(s) /\ proc'[s] = proc[s]
      BY <2>2, <1>1 DEF Procs
    <3> QED
      BY <3>1 DEF ProcShape
  <2> QED
    BY <2>1, <2>2
<1> QED
  BY <1>1, <1>2 DEF Procs, Idle

\* A step of the first strategy takes its process on, and leaves the others alone.
LEMMA ServiceProc ==
  ASSUME Shape, ServiceStep
  PROVE /\ Procs' /\ rosters' = rosters /\ hour' = hour /\ Runs
        /\ \A r \in rosters : r # V => proc'[r] = proc[r]
<1>0. Procs /\ V = "v1"
  BY DEF Shape, V
<1>P. ASSUME Runs, NEW pc \in ServicePcs, NEW p, NEW armed, armed \in BOOLEAN, Proceed(pc, p, armed),
             UNCHANGED <<rosters, hour>>
      PROVE /\ Procs' /\ rosters' = rosters /\ hour' = hour /\ Runs
            /\ \A r \in rosters : r # V => proc'[r] = proc[r]
  BY <1>0, <1>P, ProceedShape
<1>B. Runs => proc[V].armed \in BOOLEAN
  BY <1>0 DEF Procs, ProcShape, Runs
<1>C. {"prepare", "positions", "backfill", "s4", "discover", "rotate", "trading", "flush", "row"}
        \subseteq ServicePcs
  BY DEF ServicePcs
<1>1. CASE prepare
  <2>1. Runs /\ UNCHANGED <<rosters, hour>>
    BY <1>1 DEF prepare, At
  <2>2. CASE StandDown
    BY <2>1, <2>2, <1>P, <1>C DEF StandDown
  <2>3. CASE ~StandDown
    <3>1. PICK mode \in {"armed", "dry", "shakedown"}, s5 \in arming_check, caps \in _caps_agree :
            Proceed("positions", [NoPlan EXCEPT !.mode = mode,
                               !.corrupt = mode # "shakedown" /\ guard[V][Today].corrupt],
                    mode = "armed" /\ s5 /\ caps /\ ~DayHalted(guard[V][Today]))
      BY <1>1, <2>3 DEF prepare
    <3>2. (mode = "armed" /\ s5 /\ caps /\ ~DayHalted(guard[V][Today])) \in BOOLEAN
      OBVIOUS
    <3> QED
      BY <2>1, <3>1, <3>2, <1>P, <1>C
  <2> QED
    BY <2>2, <2>3
<1>2. CASE _read_positions
  <2>1. Runs /\ UNCHANGED <<rosters, hour>>
    BY <1>2 DEF _read_positions, At
  <2>2. \/ Proceed("rotate", [NoPlan EXCEPT !.stand_down = TRUE], FALSE)
        \/ Proceed("s4", plan, FALSE)
        \/ \E x : Proceed("backfill", x, proc[V].armed)
    BY <1>2 DEF _read_positions, StandDown
  <2> QED
    BY <2>1, <2>2, <1>P, <1>B, <1>C
<1>3. CASE _settlement_backfill_sweep
  BY <1>0, <1>3 DEF _settlement_backfill_sweep, At, Procs, ProcShape
<1>4. CASE _reconcile_first
  <2>1. Runs /\ UNCHANGED <<rosters, hour>>
    BY <1>4 DEF _reconcile_first, At
  <2>2. \/ Proceed("rotate", [NoPlan EXCEPT !.stand_down = TRUE], FALSE)
        \/ \E x : Proceed("s4", x, proc[V].armed)
    BY <1>4 DEF _reconcile_first, StandDown
  <2> QED
    BY <2>1, <2>2, <1>P, <1>B, <1>C
<1>5. CASE SkipsS4
  <2>1. Runs /\ UNCHANGED <<rosters, hour>>
    BY <1>5 DEF SkipsS4, At
  <2>2. Proceed("discover", NoPlan, proc[V].armed)
    BY <1>5 DEF SkipsS4
  <2> QED
    BY <2>1, <2>2, <1>P, <1>B, <1>C
<1>6. CASE parse_balance_unusable
  <2>1. Runs /\ UNCHANGED <<rosters, hour>>
    BY <1>6 DEF parse_balance_unusable, At, ChecksS4
  <2>2. Proceed("discover", NoPlan, FALSE)
    BY <1>6 DEF parse_balance_unusable
  <2> QED
    BY <2>1, <2>2, <1>P, <1>B, <1>C
<1>7. CASE S4BalanceCheck
  <2>1. Runs /\ UNCHANGED <<rosters, hour>>
    BY <1>7 DEF S4BalanceCheck, At, ChecksS4
  <2>2. PICK kind : Proceed("discover", NoPlan, proc[V].armed /\ kind = "clear")
    BY <1>7 DEF S4BalanceCheck
  <2>3. (proc[V].armed /\ kind = "clear") \in BOOLEAN
    OBVIOUS
  <2> QED
    BY <2>1, <2>2, <2>3, <1>P, <1>C
<1>8. CASE _finalize_startup_failure
  <2>1. Runs /\ UNCHANGED <<rosters, hour>>
    BY <1>8 DEF _finalize_startup_failure, At, ChecksS4
  <2>2. Proceed("flush", NoPlan, FALSE)
    BY <1>8 DEF _finalize_startup_failure
  <2> QED
    BY <2>1, <2>2, <1>P, <1>B, <1>C
<1>9. CASE Discovery
  <2>1. Runs /\ UNCHANGED <<rosters, hour>>
    BY <1>9 DEF Discovery, At
  <2>2. \/ Proceed("rotate", [NoPlan EXCEPT !.stand_down = TRUE], FALSE)
        \/ Proceed("rotate", NoPlan, proc[V].armed)
    BY <1>9 DEF Discovery, StandDown
  <2> QED
    BY <2>1, <2>2, <1>P, <1>B, <1>C
<1>10. CASE rotate_closed_journals
  <2>1. Runs /\ UNCHANGED <<rosters, hour>>
    BY <1>10 DEF rotate_closed_journals, At, Rotates
  <2>2. \/ Proceed("flush", NoPlan, proc[V].armed)
        \/ Proceed("trading", NoPlan, proc[V].armed)
    BY <1>10 DEF rotate_closed_journals
  <2> QED
    BY <2>1, <2>2, <1>P, <1>B, <1>C
<1>11. CASE execute
  BY <1>0, <1>11 DEF execute, At, Procs, ProcShape
<1>12. CASE trip
  <2>1. Runs /\ proc[V].pc = "trading" /\ rosters' = rosters /\ hour' = hour
        /\ proc' = [proc EXCEPT ![V].armed = FALSE]
    BY <1>12 DEF trip, At
  <2>2. V \in rosters
    BY <2>1 DEF Runs
  <2>3. /\ proc'[V] = [proc[V] EXCEPT !.armed = FALSE] /\ proc' = [r \in rosters |-> proc'[r]]
        /\ \A r \in rosters : r # V => proc'[r] = proc[r]
    BY <1>0, <2>1, <2>2 DEF Procs
  <2>4. ASSUME NEW r \in rosters PROVE ProcShape(r)'
    <3>1. ProcShape(r)
      BY <1>0 DEF Procs
    <3>2. CASE r = V
      BY <1>0, <2>3, <3>1, <3>2 DEF ProcShape
    <3>3. CASE r # V
      <4>1. proc'[r] = proc[r]
        BY <2>3, <3>3
      <4> QED
        BY <3>1, <4>1 DEF ProcShape
    <3> QED
      BY <3>2, <3>3
  <2> QED
    BY <2>1, <2>3, <2>4 DEF Procs
<1>13. CASE WindowOver
  <2>1. Runs /\ UNCHANGED <<rosters, hour>>
    BY <1>13 DEF WindowOver, At
  <2>2. Proceed("flush", NoPlan, FALSE)
    BY <1>13 DEF WindowOver
  <2> QED
    BY <2>1, <2>2, <1>P, <1>B, <1>C
<1>14. CASE flush
  <2>1. Runs /\ UNCHANGED <<rosters, hour>>
    BY <1>14 DEF flush, At
  <2>2. Proceed("row", NoPlan, FALSE)
    BY <1>14 DEF flush
  <2> QED
    BY <2>1, <2>2, <1>P, <1>B, <1>C
<1>15. CASE _finalize_v1
  BY <1>0, <1>15, StopShape DEF _finalize_v1, At, Runs
<1>16. ASSUME NEW h \in 1..Hours, _gzip_one_crash_safe(h) \/ GzipDone(h) \/ _best_effort_remove(h)
       PROVE /\ Procs' /\ rosters' = rosters /\ hour' = hour /\ Runs
             /\ \A r \in rosters : r # V => proc'[r] = proc[r]
  <2>1. Runs /\ UNCHANGED <<rosters, hour>>
    BY <1>16 DEF _gzip_one_crash_safe, GzipDone, _best_effort_remove, Rotates, At
  <2>2. \E x : Proceed("rotate", x, proc[V].armed)
    BY <1>16 DEF _gzip_one_crash_safe, GzipDone, _best_effort_remove, Work
  <2> QED
    BY <2>1, <2>2, <1>P, <1>B, <1>C
<1> QED
  BY <1>0, <1>1, <1>2, <1>3, <1>4, <1>5, <1>6, <1>7, <1>8, <1>9, <1>10, <1>11, <1>12, <1>13, <1>14, <1>15, <1>16 DEF ServiceStep

\* A step that writes one process keeps the shape of all.
LEMMA WriteShape ==
  ASSUME Procs, NEW r \in rosters, NEW p, proc' = [proc EXCEPT ![r] = p], rosters' = rosters,
         p = [pc |-> p.pc, clean |-> p.clean, balance |-> p.balance, s4 |-> p.s4,
              armed |-> p.armed, plan |-> p.plan],
         p.pc \in IF r = "v1" THEN ServicePcs ELSE PinPcs, p.clean \in BOOLEAN, p.armed \in BOOLEAN
  PROVE /\ Procs' /\ proc'[r] = p /\ \A s \in rosters : s # r => proc'[s] = proc[s]
<1>1. /\ proc'[r] = p /\ \A s \in rosters : s # r => proc'[s] = proc[s]
      /\ proc' = [s \in rosters |-> proc'[s]]
  BY DEF Procs
<1>2. ASSUME NEW s \in rosters PROVE ProcShape(s)'
  <2>1. CASE s = r
    BY <2>1, <1>1 DEF ProcShape
  <2>2. CASE s # r
    <3>1. ProcShape(s) /\ proc'[s] = proc[s]
      BY <2>2, <1>1 DEF Procs
    <3> QED
      BY <3>1 DEF ProcShape
  <2> QED
    BY <2>1, <2>2
<1> QED
  BY <1>1, <1>2 DEF Procs

\* The processes that read the account.
LEMMA ReadAccountEffect ==
  ASSUME Shape, NEW r \in rosters, ReadAccount(r)
  PROVE /\ Procs' /\ r # "v1" /\ proc[r].pc = "sweep"
        /\ proc'[r].pc = "decide" /\ proc'[r].armed = proc[r].armed
        /\ proc'[r].clean => reconcile_positions_clean(r)
        /\ \A s \in rosters : s # r => proc'[s] = proc[s]
<1>1. PICK clean \in {reconcile_positions_clean(r), FALSE}, now \in {Balance, None} :
         proc' = [proc EXCEPT ![r].pc = "decide", ![r].clean = clean, ![r].balance = now]
  BY DEF ReadAccount
<1>2. Procs /\ r # "v1" /\ rosters' = rosters /\ proc[r].pc = "sweep" /\ ProcShape(r)
  BY DEF ReadAccount, Shape, Procs
<1>3. PICK p : p = [proc[r] EXCEPT !.pc = "decide", !.clean = clean, !.balance = now]
  OBVIOUS
<1>4. clean \in BOOLEAN
  BY DEF reconcile_positions_clean
<1>5. /\ p = [pc |-> p.pc, clean |-> p.clean, balance |-> p.balance, s4 |-> p.s4,
              armed |-> p.armed, plan |-> p.plan]
      /\ p.pc = "decide" /\ p.clean = clean /\ p.armed = proc[r].armed
  BY <1>2, <1>3 DEF ProcShape
<1>6. proc' = [proc EXCEPT ![r] = p]
  BY <1>1, <1>2, <1>3 DEF Procs
<1>7. p.pc \in PinPcs /\ p.clean \in BOOLEAN /\ p.armed \in BOOLEAN
  BY <1>2, <1>4, <1>5 DEF ProcShape, PinPcs
<1>8. Procs' /\ proc'[r] = p /\ \A s \in rosters : s # r => proc'[s] = proc[s]
  BY <1>2, <1>5, <1>6, <1>7, WriteShape
<1>9. p.clean => reconcile_positions_clean(r)
  BY <1>5
<1> QED
  BY <1>2, <1>5, <1>8, <1>9

\* The processes that arm, or do not.
LEMMA ResolveEffect ==
  ASSUME Shape, NEW r \in rosters, r # "v1", NEW arms \in BOOLEAN, Resolve(r, arms)
  PROVE /\ Procs' /\ proc'[r].pc = "window" /\ proc'[r].armed = arms /\ proc'[r].clean = FALSE
        /\ \A s \in rosters : s # r => proc'[s] = proc[s]
<1>1. PICK p : p = [Idle EXCEPT !.pc = "window", !.armed = arms, !.s4 = S4(r)]
  OBVIOUS
<1>2. /\ p = [pc |-> p.pc, clean |-> p.clean, balance |-> p.balance, s4 |-> p.s4,
              armed |-> p.armed, plan |-> p.plan]
      /\ p.pc = "window" /\ p.armed = arms /\ p.clean = FALSE
  BY <1>1 DEF Idle
<1>3. proc' = [proc EXCEPT ![r] = p] /\ rosters' = rosters
  BY <1>1 DEF Resolve
<1>4. p.pc \in PinPcs /\ p.clean \in BOOLEAN /\ p.armed \in BOOLEAN
  BY <1>2 DEF PinPcs
<1> QED
  BY <1>2, <1>3, <1>4, WriteShape DEF Shape

\* The processes whose window ends.
LEMMA EndWindowEffect ==
  ASSUME Shape, NEW r \in rosters, EndWindow(r)
  PROVE /\ Procs' /\ r # "v1" /\ proc'[r].pc = "append" /\ proc'[r].armed = FALSE
        /\ proc'[r].clean = FALSE
        /\ \A s \in rosters : s # r => proc'[s] = proc[s]
<1>1. PICK p : p = [Idle EXCEPT !.pc = "append"]
  OBVIOUS
<1>2. /\ p = [pc |-> p.pc, clean |-> p.clean, balance |-> p.balance, s4 |-> p.s4,
              armed |-> p.armed, plan |-> p.plan]
      /\ p.pc = "append" /\ p.armed = FALSE /\ p.clean = FALSE
  BY <1>1 DEF Idle
<1>3. proc' = [proc EXCEPT ![r] = p] /\ rosters' = rosters
  BY <1>1 DEF EndWindow
<1>4. r # "v1"
  BY DEF EndWindow, Shape, Procs, ProcShape, ServicePcs
<1>5. p.pc \in PinPcs /\ p.clean \in BOOLEAN /\ p.armed \in BOOLEAN
  BY <1>2 DEF PinPcs
<1> QED
  BY <1>2, <1>3, <1>4, <1>5, WriteShape DEF Shape

\* The processes of the next hour.
LEMMA NextHourEffect ==
  ASSUME Shape, NextHour
  PROVE /\ Procs' /\ Clock' /\ rosters' = rosters /\ hour' = hour + 1
        /\ \A r \in rosters : /\ proc'[r].pc = IF r = "v1" THEN "prepare" ELSE "sweep"
                              /\ proc'[r].armed = FALSE /\ proc'[r].clean = FALSE
<1>1. hour + 1 \in 1..Hours
  <2>1. MaxHour[rosters] \in 1..Hours
    BY AccountAssumption DEF Shape, Clock
  <2>2. hour \in 1..Hours /\ hour < MaxHour[rosters] /\ Hours \in Nat
    BY AccountAssumption DEF NextHour, Shape, Clock
  <2> QED
    BY <2>1, <2>2
<1>2. rosters' = rosters /\ hour' = hour + 1 /\ proc' = [r \in rosters |-> Spawned(r)]
  BY DEF NextHour
<1>3. ASSUME NEW r, NEW p, p = Spawned(r)
      PROVE /\ p = [pc |-> p.pc, clean |-> p.clean, balance |-> p.balance, s4 |-> p.s4,
                    armed |-> p.armed, plan |-> p.plan]
            /\ p.pc = (IF r = "v1" THEN "prepare" ELSE "sweep")
            /\ p.armed = FALSE /\ p.clean = FALSE
  BY <1>3 DEF Spawned, Idle
<1>4. \A r \in rosters : proc'[r] = Spawned(r)
  BY <1>2
<1>5. ASSUME NEW r \in rosters
      PROVE /\ ProcShape(r)'
            /\ proc'[r].pc = (IF r = "v1" THEN "prepare" ELSE "sweep")
            /\ proc'[r].armed = FALSE /\ proc'[r].clean = FALSE
  <2>1. PICK p : p = Spawned(r)
    OBVIOUS
  <2>2. proc'[r] = p
    BY <1>4, <2>1
  <2>3. /\ p = [pc |-> p.pc, clean |-> p.clean, balance |-> p.balance, s4 |-> p.s4,
                armed |-> p.armed, plan |-> p.plan]
        /\ p.pc = (IF r = "v1" THEN "prepare" ELSE "sweep")
        /\ p.armed = FALSE /\ p.clean = FALSE
    BY <1>3, <2>1
  <2>4. p.pc \in IF r = "v1" THEN ServicePcs ELSE PinPcs
    BY <2>3 DEF ServicePcs, PinPcs
  <2> QED
    BY <2>2, <2>3, <2>4 DEF ProcShape
<1> QED
  BY <1>1, <1>2, <1>4, <1>5 DEF Procs, Clock, Shape

\* A window that ends with a position writes what it holds, and nothing else.
Ends(r) ==
  /\ proc[r].armed /\ proc[r].pc \in {"window", "trading"} /\ held[r][hour].legs = {}
  /\ \E p \in HeldType : /\ p.settled = {} /\ p.core \subseteq p.legs
                         /\ r = V => p.src # "pin"
                         /\ held' = [held EXCEPT ![r][hour] = p]
  /\ UNCHANGED <<rosters, hour, proc, ledger, guard, faults, files, tripped>>

\* What a market that finalizes leaves of a position: the legs and what they cost, and an outcome that
\* was known.
Settled(p, new) ==
  /\ new.legs = p.legs /\ new.src = p.src /\ new.price = p.price /\ new.core = p.core
  /\ p.settled \subseteq new.settled
  /\ p.out # "open" => new.out = p.out
  /\ new = p \/ new.out # "open"

\* A market that finalizes settles legs, and changes nothing else.
Settles ==
  /\ \A r \in rosters, h \in 1..Hours :
       /\ Settled(held[r][h], held'[r][h])
       /\ held'[r][h].legs = held[r][h].legs
       /\ held[r][h].legs = held[r][h].settled => held'[r][h].legs = held'[r][h].settled
  /\ UNCHANGED <<rosters, hour, proc, ledger, guard, faults, files, tripped>>

\* What is held changes in these two ways.
LEMMA TradeEffect ==
  ASSUME Shape, NEW r \in rosters, Trade(r), UNCHANGED <<files, tripped>>
  PROVE Ends(r) /\ Helds' /\ r # "v1"
<1>1. PICK w \in Windows, price \in Prices :
         held' = [held EXCEPT ![r][hour] = [Flat EXCEPT !.legs = w.legs, !.price = price, !.core = w.core]]
  BY DEF Trade
<1>2. PICK p : p = [Flat EXCEPT !.legs = w.legs, !.price = price, !.core = w.core]
  OBVIOUS
<1>3. w.legs \in SUBSET Legs /\ w.core \in SUBSET Legs /\ price \in Nat
  BY AccountAssumption
<1>4. /\ p = [src |-> p.src, legs |-> p.legs, price |-> p.price, out |-> p.out,
              settled |-> p.settled, core |-> p.core]
      /\ p.src = "pin" /\ p.legs = w.legs /\ p.price = price /\ p.out = "open"
      /\ p.settled = {} /\ p.core = w.core
  BY <1>2 DEF Flat
<1>5. p \in HeldType
  <2>1. /\ p.src \in {"pin", "flip", "box", "strangle"} /\ p.legs \in SUBSET Legs /\ p.price \in Nat
        /\ p.out \in Outcomes \cup {"open"} /\ p.settled \in SUBSET Legs /\ p.core \in SUBSET Legs
    BY <1>3, <1>4
  <2> QED
    BY <1>4, <2>1 DEF HeldType
<1>6. held' = [held EXCEPT ![r][hour] = p]
  BY <1>1, <1>2
<1>7. Helds'
  BY <1>5, <1>6 DEF Shape, Helds, Trade, Clock
<1>8. r # "v1"
  BY DEF Trade, Shape, Procs, ProcShape, ServicePcs
<1> QED
  BY <1>4, <1>5, <1>6, <1>7, <1>8, AccountAssumption DEF Trade, Ends, V

\* V1 enters a position: flat until then, and of the hour at hand (execute).
LEMMA ExecuteEffect ==
  ASSUME Shape, execute
  PROVE Ends(V) /\ Helds' /\ V \in rosters
<1>1. PICK w \in Positions, price \in Prices :
         held' = [held EXCEPT ![V][hour] = [Flat EXCEPT !.src = w.src, !.legs = w.legs, !.price = price]]
  BY DEF execute
<1>2. PICK p : p = [Flat EXCEPT !.src = w.src, !.legs = w.legs, !.price = price]
  OBVIOUS
<1>3. w.src \in {"flip", "box", "strangle"} /\ w.legs \in SUBSET Legs /\ price \in Nat
  BY AccountAssumption, ServiceAssumption DEF Legs
<1>4. /\ p = [src |-> p.src, legs |-> p.legs, price |-> p.price, out |-> p.out,
              settled |-> p.settled, core |-> p.core]
      /\ p.src = w.src /\ p.legs = w.legs /\ p.price = price /\ p.out = "open"
      /\ p.settled = {} /\ p.core = {}
  BY <1>2 DEF Flat
<1>5. p \in HeldType
  <2>1. /\ p.src \in {"pin", "flip", "box", "strangle"} /\ p.legs \in SUBSET Legs /\ p.price \in Nat
        /\ p.out \in Outcomes \cup {"open"} /\ p.settled \in SUBSET Legs /\ p.core \in SUBSET Legs
    BY <1>3, <1>4
  <2> QED
    BY <1>4, <2>1 DEF HeldType
<1>6. held' = [held EXCEPT ![V][hour] = p] /\ V \in rosters
  BY <1>1, <1>2 DEF execute, At, Runs
<1>7. Helds'
  BY <1>5, <1>6 DEF Shape, Helds, execute, Clock
<1> QED
  BY <1>3, <1>4, <1>5, <1>6, <1>7 DEF execute, At, Ends

\* The exchange settles one position.
LEMMA FinalizedEffect ==
  ASSUME Shape, NEW r \in rosters, NEW h \in 1..Hours, Finalized(r, h), UNCHANGED <<files, tripped>>
  PROVE Settles /\ Helds'
<1>1. PICK event \in IF r = "v1" THEN {{"yes"}, {"no"}} ELSE {{"bucket"}, {"yes", "no"}}, out \in Outcomes :
         /\ held[r][h].out \in {"open", out}
         /\ held' = [held EXCEPT ![r][h].settled = @ \cup (event \cap held[r][h].legs), ![r][h].out = out]
  BY DEF Finalized
<1>2. PICK p : p = [held[r][h] EXCEPT !.settled = @ \cup (event \cap held[r][h].legs), !.out = out]
  OBVIOUS
<1>3. held[r][h] \in HeldType /\ held[r] \in [1..Hours -> HeldType]
  BY DEF Shape, Helds
<1>4. /\ p \in HeldType /\ p.legs = held[r][h].legs
      /\ p.settled = held[r][h].settled \cup (event \cap held[r][h].legs)
      /\ Settled(held[r][h], p)
  <2>1. /\ p = [src |-> p.src, legs |-> p.legs, price |-> p.price, out |-> p.out,
                settled |-> p.settled, core |-> p.core]
        /\ p.src = held[r][h].src /\ p.legs = held[r][h].legs /\ p.price = held[r][h].price
        /\ p.out = out /\ p.core = held[r][h].core
        /\ p.settled = held[r][h].settled \cup (event \cap held[r][h].legs)
    BY <1>2, <1>3 DEF HeldType
  <2>2. /\ p.src \in {"pin", "flip", "box", "strangle"} /\ p.legs \in SUBSET Legs /\ p.price \in Nat
        /\ p.out \in Outcomes \cup {"open"} /\ p.settled \in SUBSET Legs /\ p.core \in SUBSET Legs
    BY <2>1, <1>3 DEF HeldType
  <2>3. out # "open"
    BY AccountAssumption
  <2>4. Settled(held[r][h], p)
    BY <1>1, <2>1, <2>3 DEF Settled
  <2> QED
    BY <2>1, <2>2, <2>4 DEF HeldType
<1>5. held' = [held EXCEPT ![r] = [held[r] EXCEPT ![h] = p]]
  BY <1>1, <1>2, <1>3 DEF Shape, Helds
<1>6. Helds' /\ rosters' = rosters
  BY <1>4, <1>5, <1>3 DEF Shape, Helds, Finalized
<1>7. ASSUME NEW s \in rosters, NEW k \in 1..Hours
      PROVE /\ held'[s][k].legs = held[s][k].legs
            /\ held[s][k].legs = held[s][k].settled => held'[s][k].legs = held'[s][k].settled
            /\ Settled(held[s][k], held'[s][k])
  <2>1. CASE s = r /\ k = h
    <3>1. held'[s][k] = p
      BY <2>1, <1>5, <1>3 DEF Shape, Helds
    <3> QED
      BY <3>1, <2>1, <1>4
  <2>2. CASE ~(s = r /\ k = h)
    <3>1. held'[s][k] = held[s][k]
      BY <2>2, <1>5, <1>3 DEF Shape, Helds
    <3> QED
      BY <3>1 DEF Settled
  <2> QED
    BY <2>1, <2>2
<1> QED
  BY <1>6, <1>7 DEF Finalized, Settles

-----------------------------------------------------------------------------
(* The ledgers *)

\* A process ends with the row of its window.
Closes(r) ==
  /\ proc[r].pc \in {"sweep", "append", "row"} /\ Stop(r)
  /\ \E row \in RowType :
       /\ row.kind = "window" /\ row.of = hour /\ AppendRow(r, row)
       /\ \/ Written(r, held[r][hour], row)
          \/ r # V /\ proc[r].pc = "sweep" /\ row = EmptyRow(hour)
  /\ UNCHANGED <<rosters, hour, held, guard, files, tripped>>

\* A sweep writes the settlement of a window that has none.
Backfills(r) ==
  /\ Loads(ledger[r]) /\ proc[r].pc \in {"sweep", "backfill"}
  /\ \E row \in RowType, i \in DOMAIN ledger[r] :
       /\ row.kind = "backfill" /\ row.of \notin Done(ledger[r]) /\ AppendRow(r, row)
       /\ ledger[r][i].kind = "window" /\ ledger[r][i].of = row.of
       /\ Paid(held[r][row.of], ledger[r][i].legs, ledger[r][i].floor, row)
  /\ UNCHANGED <<rosters, hour, proc, held, guard, faults, files, tripped>>

\* A process is killed, perhaps inside an append.
Dies(r) ==
  /\ Stop(r)
  /\ \/ UNCHANGED ledger
     \/ ledger' = [ledger EXCEPT ![r] = IF TornTail(@) THEN @ ELSE Append(@, Torn)]
  /\ UNCHANGED <<rosters, hour, held, guard, files, tripped>>

\* The row that settles a window is a row, and there was none before.
LEMMA SettleEffect ==
  ASSUME Shape, NEW r \in rosters, proc[r].pc \in {"sweep", "backfill"}, Settle(r),
         UNCHANGED <<rosters, hour, proc, held, guard, faults, files, tripped>>
  PROVE Backfills(r)
<1>1. PICK i \in Due(r) :
        AppendRow(r, build_backfill_row(ledger[r][i],
                       settlement_payoff(held[r][ledger[r][i].of].src, ledger[r][i].legs,
                                         held[r][ledger[r][i].of].out)))
  BY DEF Settle
<1>2. Loads(ledger[r]) /\ i \in Unsettled(ledger[r])
  BY <1>1 DEF Due
<1>3. /\ i \in DOMAIN ledger[r] /\ ledger[r][i].of \notin Done(ledger[r])
      /\ ledger[r][i].kind = "window" /\ ledger[r][i].legs # {}
      /\ SettledAll(held[r][ledger[r][i].of], ledger[r][i].legs)
  BY <1>1, <1>2 DEF Unsettled, Due
<1>4. ledger[r][i] \in RowType
  BY <1>3 DEF Shape, Ledgers
<1>5. PICK pay : pay = settlement_payoff(held[r][ledger[r][i].of].src, ledger[r][i].legs,
                                         held[r][ledger[r][i].of].out)
  OBVIOUS
<1>6. pay \in Int
  BY <1>4, <1>5, PayoffInt DEF RowType
<1>7. PICK row : row = build_backfill_row(ledger[r][i], pay)
  OBVIOUS
<1>8. row = [kind |-> "backfill", of |-> ledger[r][i].of, delta |-> pay - ledger[r][i].floor,
             floor |-> 0, legs |-> ledger[r][i].legs, flagged |-> FALSE]
  BY <1>7 DEF build_backfill_row, Row, _v32_floor_booked_for_entry
<1>9. pay - ledger[r][i].floor \in Int
  BY <1>4, <1>6 DEF RowType
<1>10. row \in RowType /\ row.kind = "backfill" /\ row.of = ledger[r][i].of
  BY <1>8, <1>9, <1>4 DEF RowType
<1>11. Paid(held[r][row.of], ledger[r][i].legs, ledger[r][i].floor, row)
  BY <1>3, <1>5, <1>8, <1>10 DEF Paid
<1> QED
  BY <1>1, <1>2, <1>3, <1>5, <1>7, <1>10, <1>11 DEF Backfills

\* The rows that end a process.
LEMMA StandDownEffect ==
  ASSUME Shape, NEW r \in rosters, StandDownRow(r), UNCHANGED <<files, tripped>>
  PROVE Closes(r)
<1>1. EmptyRow(hour) \in RowType /\ EmptyRow(hour).kind = "window" /\ EmptyRow(hour).of = hour
  <2>1. [src |-> "pin", legs |-> {}, price |-> 0, out |-> "open", settled |-> {}, core |-> {}] \in HeldType
    BY DEF HeldType
  <2> QED
    BY <2>1, RowsOfWindows DEF Shape, Clock
<1>2. r # V
  BY DEF StandDownRow, Shape, Procs, ProcShape, ServicePcs, V
<1> QED
  BY <1>1, <1>2 DEF StandDownRow, Closes

\* V3.2 closes its hour: one row, of the position it holds.
LEMMA FinalizeV32Effect ==
  ASSUME Shape, _finalize_v32, UNCHANGED <<files, tripped>>
  PROVE "v32" \in rosters /\ Closes("v32")
<1>1. "v32" \in rosters
  BY DEF _finalize_v32
<1>2. held["v32"][hour] \in HeldType
  BY <1>1 DEF Shape, Helds, Clock
<1>3. /\ build_v32_ledger_row(hour, held["v32"][hour]) \in RowType
      /\ build_v32_ledger_row(hour, held["v32"][hour]).kind = "window"
      /\ build_v32_ledger_row(hour, held["v32"][hour]).of = hour
  BY <1>2, RowsOfWindows DEF Shape, Clock
<1>4. Written("v32", held["v32"][hour], build_v32_ledger_row(hour, held["v32"][hour]))
  BY <1>2, RowsWritten DEF Shape, Clock
<1> QED
  BY <1>1, <1>3, <1>4 DEF _finalize_v32, Closes

\* A V3.3 roster closes its hour: one row, flagged when its book disagrees or a step raised.
LEMMA FinalizeEffect ==
  ASSUME Shape, NEW r \in rosters, _finalize(r), UNCHANGED <<files, tripped>>
  PROVE Closes(r)
<1>1. held[r][hour] \in HeldType
  BY DEF Shape, Helds, Clock
<1>2. PICK raised \in {FALSE, held[r][hour].legs # {} /\ faults < MaxFaults[rosters]} :
        AppendRow(r, build_v33_ledger_row(hour, held[r][hour], raised \/ Mismatch(r, held[r][hour])))
  BY DEF _finalize
<1>3. PICK f \in BOOLEAN : f = (raised \/ Mismatch(r, held[r][hour]))
  OBVIOUS
<1>4. /\ build_v33_ledger_row(hour, held[r][hour], f) \in RowType
      /\ build_v33_ledger_row(hour, held[r][hour], f).kind = "window"
      /\ build_v33_ledger_row(hour, held[r][hour], f).of = hour
  BY <1>1, RowsOfWindows DEF Shape, Clock
<1>5. proc[r].pc = "append" /\ Stop(r) /\ UNCHANGED <<rosters, hour, held, guard>>
  BY DEF _finalize
<1>6. AppendRow(r, build_v33_ledger_row(hour, held[r][hour], f))
  BY <1>2, <1>3
<1>7. Written(r, held[r][hour], build_v33_ledger_row(hour, held[r][hour], f))
  <2>1. r \in Rosters \ {V}
    BY AccountAssumption DEF _finalize, Reconciles, V, Shape, Clock
  <2> QED
    BY <1>1, <1>3, <2>1, RowsWritten DEF Shape, Clock
<1> QED
  BY <1>4, <1>5, <1>6, <1>7 DEF Closes

\* V1 closes its hour: one row, of the box or of the other strategies.
LEMMA FinalizeV1Effect ==
  ASSUME Shape, _finalize_v1
  PROVE V \in rosters /\ Closes(V)
<1>1. V \in rosters /\ proc[V].pc = "row" /\ Stop(V) /\ UNCHANGED <<rosters, hour, held, guard, files, tripped>>
  BY DEF _finalize_v1, At, Runs
<1>2. held[V][hour] \in HeldType
  BY <1>1 DEF Shape, Helds, Clock
<1>3. \/ /\ held[V][hour].src = "box"
         /\ AppendRow(V, _build_box_ledger_entry(hour, held[V][hour]))
      \/ /\ held[V][hour].src # "box"
         /\ AppendRow(V, _build_ledger_entry(hour, held[V][hour]))
  BY DEF _finalize_v1
<1>4. CASE held[V][hour].src = "box"
  <2>1. Written(V, held[V][hour], _build_box_ledger_entry(hour, held[V][hour]))
    BY <1>2, <1>4, RowsWritten DEF Shape, Clock
  <2> QED
    BY <1>1, <1>2, <1>3, <1>4, <2>1, RowsOfWindows DEF Shape, Clock, Closes
<1>5. CASE held[V][hour].src # "box"
  <2>1. Written(V, held[V][hour], _build_ledger_entry(hour, held[V][hour]))
    BY <1>2, <1>5, RowsWritten DEF Shape, Clock
  <2> QED
    BY <1>1, <1>2, <1>3, <1>5, <2>1, RowsOfWindows DEF Shape, Clock, Closes
<1> QED
  BY <1>4, <1>5

\* A process dies: nothing on disk changes.
LEMMA KilledEffect ==
  ASSUME NEW r \in rosters, Killed(r), UNCHANGED <<files, tripped>>
  PROVE Dies(r)
  BY DEF Killed, Dies

\* An append to a ledger leaves ledgers, and the other rosters' alone.
LEMMA AppendLedgers ==
  ASSUME Ledgers, NEW r \in rosters, NEW row \in RowType, AppendRow(r, row), rosters' = rosters
  PROVE /\ Ledgers'
        /\ ledger'[r] = append_v33_ledger_row(ledger[r], row)
        /\ \A s \in rosters : s # r => ledger'[s] = ledger[s]
<1>1. ledger' = [ledger EXCEPT ![r] = append_v33_ledger_row(ledger[r], row)]
  BY DEF AppendRow
<1>2. append_v33_ledger_row(ledger[r], row) \in Seq(RowType)
  BY AppendShape DEF Ledgers
<1> HIDE DEF append_v33_ledger_row
<1> QED
  BY <1>1, <1>2 DEF Ledgers

\* A torn line is one more row of no window.
LEMMA DiesLedgers ==
  ASSUME Ledgers, NEW r \in rosters, Dies(r)
  PROVE /\ Ledgers'
        /\ \A s \in rosters : s # r => ledger'[s] = ledger[s]
        /\ \A i \in DOMAIN ledger'[r] : \/ i \in DOMAIN ledger[r] /\ ledger'[r][i] = ledger[r][i]
                                        \/ ledger'[r][i] = Torn
<1>1. CASE ledger' = ledger
  BY <1>1 DEF Ledgers, Dies
<1>2. CASE ledger' = [ledger EXCEPT ![r] = Append(ledger[r], Torn)]
  <2>1. Torn \in RowType
    BY AccountAssumption DEF Torn, Row, RowType
  <2>2. ledger[r] \in Seq(RowType) /\ rosters' = rosters
    BY DEF Ledgers, Dies
  <2>3. ledger'[r] = Append(ledger[r], Torn) /\ \A s \in rosters : s # r => ledger'[s] = ledger[s]
    BY <1>2 DEF Ledgers
  <2>4. Append(ledger[r], Torn) \in Seq(RowType)
    BY <2>1, <2>2
  <2>5. Ledgers'
    BY <1>2, <2>2, <2>4 DEF Ledgers
  <2>6. \A i \in DOMAIN Append(ledger[r], Torn) :
           \/ i \in DOMAIN ledger[r] /\ Append(ledger[r], Torn)[i] = ledger[r][i]
           \/ Append(ledger[r], Torn)[i] = Torn
    BY <2>1, <2>2
  <2> QED
    BY <2>3, <2>5, <2>6
<1>3. ledger' = ledger \/ ledger' = [ledger EXCEPT ![r] = Append(ledger[r], Torn)]
  BY DEF Dies, Ledgers
<1> QED
  BY <1>1, <1>2, <1>3

-----------------------------------------------------------------------------
(* The day guards *)

SetGuard(r, d, g) == guard' = [guard EXCEPT ![r] = [guard[r] EXCEPT ![d] = g]]

\* A write to the guard of a day leaves guards, and the others alone.
LEMMA GuardWrite ==
  ASSUME Guards, NEW r \in rosters, NEW d \in Days, NEW g, GuardShape(g), rosters' = rosters,
         SetGuard(r, d, g)
  PROVE /\ Guards' /\ guard'[r][d] = g
        /\ \A s \in rosters, e \in Days : <<s, e>> # <<r, d>> => guard'[s][e] = guard[s][e]
<1>1. /\ guard'[r] = [guard[r] EXCEPT ![d] = g] /\ guard' = [s \in rosters |-> guard'[s]]
      /\ \A s \in rosters : s # r => guard'[s] = guard[s]
  BY DEF Guards, SetGuard
<1>2. /\ guard'[r][d] = g /\ guard'[r] = [e \in Days |-> guard'[r][e]]
      /\ \A e \in Days : e # d => guard'[r][e] = guard[r][e]
  BY <1>1 DEF Guards
<1>3. ASSUME NEW s \in rosters, NEW e \in Days, <<s, e>> # <<r, d>> PROVE guard'[s][e] = guard[s][e]
  BY <1>1, <1>2, <1>3
<1>4. ASSUME NEW s \in rosters PROVE guard'[s] = [e \in Days |-> guard'[s][e]]
  <2>1. CASE s = r
    BY <2>1, <1>2
  <2>2. CASE s # r
    BY <2>2, <1>1 DEF Guards
  <2> QED
    BY <2>1, <2>2
<1>5. ASSUME NEW s \in rosters, NEW e \in Days PROVE GuardShape(guard'[s][e])
  <2>1. CASE s = r /\ e = d
    BY <2>1, <1>2
  <2>2. CASE ~(s = r /\ e = d)
    <3>1. guard'[s][e] = guard[s][e]
      BY <2>2, <1>3
    <3> QED
      BY <3>1 DEF Guards
  <2> QED
    BY <2>1, <2>2
<1>6. Days' = Days
  BY DEF Days
<1> QED
  BY <1>1, <1>2, <1>3, <1>4, <1>5, <1>6 DEF Guards

\* The hour at hand belongs to a day.
LEMMA TodayDay == Clock => Today \in Days
  BY AccountAssumption DEF Clock, Today, Days

\* The first balance of the day touches nothing else of its guard.
LEMMA EnsureShape ==
  ASSUME NEW g, GuardShape(g), NEW now \in Int, NEW h, h = ensure_balance_start(g, now)
  PROVE /\ GuardShape(h) /\ h.legged = g.legged /\ h.s4 = g.s4 /\ h.corrupt = g.corrupt
        /\ h.lost = g.lost
<1>1. CASE g.corrupt \/ g.start # None
  BY <1>1 DEF ensure_balance_start
<1>2. CASE ~(g.corrupt \/ g.start # None)
  <2>1. h = [g EXCEPT !.start = now]
    BY <1>2 DEF ensure_balance_start
  <2> QED
    BY <2>1 DEF GuardShape
<1> QED
  BY <1>1, <1>2

\* An occurrence whose record raised counts among those that are lost.
LEMMA UnrecordedShape ==
  ASSUME NEW g, GuardShape(g), NEW h, h = unrecorded_occurrence(g)
  PROVE GuardShape(h) /\ h.legged = g.legged /\ h.lost = g.lost + 1
<1>1. h = [g EXCEPT !.lost = g.lost + 1]
  BY DEF unrecorded_occurrence
<1> QED
  BY <1>1 DEF GuardShape

\* One more occurrence is counted, with those that a rebuilt guard has lost.
LEMMA RecordShape ==
  ASSUME NEW g, GuardShape(g), NEW h, h = record_legged_occurrence(g)
  PROVE /\ GuardShape(h) /\ h.legged >= 1 /\ h.legged + h.lost = g.legged + g.lost + 1
        /\ h.s4 => g.s4
<1>1. CASE g.corrupt
  <2>1. h = [start |-> None, legged |-> 1, s4 |-> FALSE, corrupt |-> FALSE, lost |-> g.lost + g.legged]
    BY <1>1 DEF record_legged_occurrence
  <2> QED
    BY <2>1 DEF GuardShape, None
<1>2. CASE ~g.corrupt
  <2>1. h = [g EXCEPT !.legged = g.legged + 1]
    BY <1>2 DEF record_legged_occurrence
  <2> QED
    BY <2>1 DEF GuardShape
<1> QED
  BY <1>1, <1>2

\* The guards that reading the account leaves.
LEMMA ReadAccountGuard ==
  ASSUME Shape, NEW r \in rosters, ReadAccount(r)
  PROVE /\ Guards'
        /\ \A s \in rosters, d \in Days :
             /\ guard'[s][d].legged = guard[s][d].legged /\ guard'[s][d].s4 = guard[s][d].s4
             /\ guard'[s][d].corrupt = guard[s][d].corrupt /\ guard'[s][d].lost = guard[s][d].lost
<1>1. PICK now \in {Balance, None} :
         guard' = IF now = None THEN guard
                  ELSE [guard EXCEPT ![r][Today] = ensure_balance_start(@, now)]
  BY DEF ReadAccount
<1>B. now \in Int
  BY BalanceInt DEF Shape, None
<1>2. Guards /\ Today \in Days /\ rosters' = rosters
  BY TodayDay DEF Shape, ReadAccount
<1>3. CASE now = None
  BY <1>1, <1>2, <1>3 DEF Guards, Days
<1>4. CASE now # None
  <2>1. PICK h : h = ensure_balance_start(guard[r][Today], now)
    OBVIOUS
  <2>2. /\ GuardShape(h) /\ h.legged = guard[r][Today].legged /\ h.s4 = guard[r][Today].s4
        /\ h.corrupt = guard[r][Today].corrupt /\ h.lost = guard[r][Today].lost
    BY <1>2, <1>B, <2>1, EnsureShape DEF Guards
  <2>3. SetGuard(r, Today, h)
    BY <1>1, <1>4, <2>1 DEF SetGuard
  <2>4. /\ Guards' /\ guard'[r][Today] = h
        /\ \A s \in rosters, e \in Days : <<s, e>> # <<r, Today>> => guard'[s][e] = guard[s][e]
    BY <1>2, <2>2, <2>3, GuardWrite
  <2>5. ASSUME NEW s \in rosters, NEW d \in Days
        PROVE /\ guard'[s][d].legged = guard[s][d].legged /\ guard'[s][d].s4 = guard[s][d].s4
              /\ guard'[s][d].corrupt = guard[s][d].corrupt /\ guard'[s][d].lost = guard[s][d].lost
    <3>1. CASE s = r /\ d = Today
      BY <3>1, <2>2, <2>4
    <3>2. CASE ~(s = r /\ d = Today)
      BY <3>2, <2>4
    <3> QED
      BY <3>1, <3>2
  <2> QED
    BY <2>4, <2>5
<1> QED
  BY <1>3, <1>4

\* The guards that the end of a window leaves.
LEMMA EndWindowGuard ==
  ASSUME Shape, NEW r \in rosters, EndWindow(r)
  PROVE /\ Guards' /\ UNCHANGED <<rosters, hour, held, ledger>>
        /\ \A s \in rosters, d \in Days : <<s, d>> # <<r, Today>> => guard'[s][d] = guard[s][d]
        /\ IF proc[r].armed /\ OneLegged(r, held[r][hour])
           THEN guard'[r][Today].legged + guard'[r][Today].lost = guard[r][Today].legged + guard[r][Today].lost + 1
           ELSE guard'[r][Today] = guard[r][Today]
<1>1. Guards /\ Today \in Days /\ UNCHANGED <<rosters, hour, held, ledger>>
  BY TodayDay DEF Shape, EndWindow
<1>2. CASE ~(proc[r].armed /\ OneLegged(r, held[r][hour]))
  <2>1. guard' = guard
    BY <1>2 DEF EndWindow
  <2> QED
    BY <1>1, <1>2, <2>1 DEF Guards, Days
<1>3. CASE proc[r].armed /\ OneLegged(r, held[r][hour])
  <2>1. PICK h : /\ \/ h = record_legged_occurrence(guard[r][Today])
                    \/ h = unrecorded_occurrence(guard[r][Today])
                 /\ guard' = [guard EXCEPT ![r][Today] = h]
    BY <1>3 DEF EndWindow
  <2>2. /\ GuardShape(h)
        /\ h.legged + h.lost = guard[r][Today].legged + guard[r][Today].lost + 1
    <3>1. GuardShape(guard[r][Today])
      BY <1>1 DEF Guards
    <3>2. CASE h = record_legged_occurrence(guard[r][Today])
      BY <3>1, <3>2, RecordShape
    <3>3. CASE h = unrecorded_occurrence(guard[r][Today])
      BY <3>1, <3>3, UnrecordedShape DEF GuardShape
    <3> QED
      BY <2>1, <3>2, <3>3
  <2>3. SetGuard(r, Today, h)
    BY <2>1 DEF SetGuard
  <2>4. /\ Guards' /\ guard'[r][Today] = h
        /\ \A s \in rosters, e \in Days : <<s, e>> # <<r, Today>> => guard'[s][e] = guard[s][e]
    <3>1. GuardShape(h) /\ rosters' = rosters /\ Today \in Days /\ Guards
      BY <1>1, <2>2
    <3> QED
      BY <1>1, <2>3, <3>1, GuardWrite
  <2> QED
    BY <1>1, <1>3, <2>2, <2>4
<1> QED
  BY <1>2, <1>3

\* The guards that damage leaves.
LEMMA CorruptedGuard ==
  ASSUME Shape, NEW r \in rosters, Corrupted(r)
  PROVE /\ Guards'
        /\ \A s \in rosters, d \in Days :
             /\ guard'[s][d].legged = guard[s][d].legged /\ guard'[s][d].s4 = guard[s][d].s4
             /\ guard[s][d].corrupt => guard'[s][d].corrupt
             /\ guard'[s][d].lost = guard[s][d].lost
<1>1. Guards /\ Today \in Days /\ rosters' = rosters /\ guard' = [guard EXCEPT ![r][Today].corrupt = TRUE]
  BY TodayDay DEF Shape, Corrupted
<1>2. PICK h : h = [guard[r][Today] EXCEPT !.corrupt = TRUE]
  OBVIOUS
<1>3. /\ GuardShape(h) /\ h.legged = guard[r][Today].legged /\ h.s4 = guard[r][Today].s4
      /\ h.corrupt = TRUE /\ h.lost = guard[r][Today].lost
  <2>1. GuardShape(guard[r][Today])
    BY <1>1 DEF Guards
  <2> QED
    BY <1>2, <2>1 DEF GuardShape
<1>4. SetGuard(r, Today, h)
  BY <1>1, <1>2 DEF Guards, SetGuard
<1>5. /\ Guards' /\ guard'[r][Today] = h
      /\ \A s \in rosters, e \in Days : <<s, e>> # <<r, Today>> => guard'[s][e] = guard[s][e]
  BY <1>1, <1>3, <1>4, GuardWrite
<1>6. ASSUME NEW s \in rosters, NEW d \in Days
      PROVE /\ guard'[s][d].legged = guard[s][d].legged /\ guard'[s][d].s4 = guard[s][d].s4
            /\ guard[s][d].corrupt => guard'[s][d].corrupt
            /\ guard'[s][d].lost = guard[s][d].lost
  <2>1. CASE s = r /\ d = Today
    BY <2>1, <1>3, <1>5
  <2>2. CASE ~(s = r /\ d = Today)
    BY <2>2, <1>5
  <2> QED
    BY <2>1, <2>2
<1> QED
  BY <1>5, <1>6

\* The guards that the balance check of the first strategy leaves.
LEMMA S4Guard ==
  ASSUME Shape, S4BalanceCheck
  PROVE /\ Guards'
        /\ \A s \in rosters, d \in Days : <<s, d>> # <<V, Today>> => guard'[s][d] = guard[s][d]
        /\ guard'[V][Today].legged = guard[V][Today].legged
        /\ guard'[V][Today].corrupt = guard[V][Today].corrupt
        /\ guard[V][Today].s4 => guard'[V][Today].s4
        /\ \/ tripped' = tripped /\ (proc'[V].armed => proc[V].armed)
           \/ tripped' = tripped \cup {hour} /\ guard'[V][Today].s4 /\ ~proc'[V].armed
        /\ guard'[V][Today].s4 /\ ~guard[V][Today].s4
             => guard'[V][Today].start - (Balance + s4_pending_value(plan.pending)) >= Cap
<1>1. Guards /\ Today \in Days /\ rosters' = rosters /\ V \in rosters /\ Procs
  BY TodayDay DEF Shape, S4BalanceCheck, ChecksS4, At, Runs
<1>2. PICK g : g = ensure_balance_start(guard[V][Today], Balance)
  OBVIOUS
<1>k. PICK kind : kind = s4_balance_decision(g.start, Balance, s4_pending_value(plan.pending))
  OBVIOUS
<1>3.    /\ guard' = [guard EXCEPT ![V][Today] = [g EXCEPT !.s4 = @ \/ kind = "latch"]]
         /\ tripped' = IF kind = "latch" THEN tripped \cup {hour} ELSE tripped
         /\ Proceed("discover", NoPlan, proc[V].armed /\ kind = "clear")
  BY <1>2, <1>k DEF S4BalanceCheck
<1>4. /\ GuardShape(g) /\ g.legged = guard[V][Today].legged /\ g.s4 = guard[V][Today].s4
      /\ g.corrupt = guard[V][Today].corrupt
  <2>1. Balance \in Int
    BY BalanceInt DEF Shape
  <2> QED
    BY <1>1, <1>2, <2>1, EnsureShape DEF Guards
<1>5. PICK h : h = [g EXCEPT !.s4 = @ \/ kind = "latch"]
  OBVIOUS
<1>6. /\ GuardShape(h) /\ h.legged = g.legged /\ h.corrupt = g.corrupt /\ h.start = g.start
      /\ h.s4 = (g.s4 \/ kind = "latch")
  BY <1>4, <1>5 DEF GuardShape
<1>7. SetGuard(V, Today, h)
  BY <1>3, <1>5 DEF SetGuard
<1>8. /\ Guards' /\ guard'[V][Today] = h
      /\ \A s \in rosters, e \in Days : <<s, e>> # <<V, Today>> => guard'[s][e] = guard[s][e]
  BY <1>1, <1>6, <1>7, GuardWrite
<1>9. proc'[V].armed = (proc[V].armed /\ kind = "clear")
  <2>1. (proc[V].armed /\ kind = "clear") \in BOOLEAN /\ "discover" \in ServicePcs
    BY DEF ServicePcs
  <2> QED
    BY <1>1, <1>3, <2>1, ProceedShape DEF Runs
<1>10. ASSUME h.s4, ~guard[V][Today].s4
       PROVE  h.start - (Balance + s4_pending_value(plan.pending)) >= Cap
  <2>1. kind = "latch"
    BY <1>4, <1>6, <1>10
  <2> QED
    BY <1>6, <1>k, <2>1 DEF s4_balance_decision
<1> QED
  BY <1>3, <1>4, <1>6, <1>8, <1>9, <1>10

\* The guards that a stop inside the window leaves.
LEMMA TripGuard ==
  ASSUME Shape, trip
  PROVE /\ Guards'
        /\ \A s \in rosters, d \in Days : <<s, d>> # <<V, Today>> => guard'[s][d] = guard[s][d]
        /\ \/ guard' = guard /\ tripped' = tripped
           \/ guard'[V][Today].legged >= 1 /\ tripped' = tripped \cup {hour}
        /\ guard'[V][Today].s4 => guard[V][Today].s4
<1>1. Guards /\ Today \in Days /\ rosters' = rosters /\ V \in rosters
  BY TodayDay DEF Shape, trip, At, Runs
<1>2. CASE guard' = guard /\ tripped' = tripped
  BY <1>1, <1>2 DEF Guards, Days
<1>3. CASE guard' = [guard EXCEPT ![V][Today] = _persist_latch(@)] /\ tripped' = tripped \cup {hour}
  <2>1. PICK h : h = record_legged_occurrence(guard[V][Today])
    OBVIOUS
  <2>2. GuardShape(h) /\ h.legged >= 1 /\ (h.s4 => guard[V][Today].s4)
    BY <1>1, <2>1, RecordShape DEF Guards
  <2>3. SetGuard(V, Today, h)
    BY <1>3, <2>1 DEF _persist_latch, SetGuard
  <2>4. /\ Guards' /\ guard'[V][Today] = h
        /\ \A s \in rosters, e \in Days : <<s, e>> # <<V, Today>> => guard'[s][e] = guard[s][e]
    <3>1. GuardShape(h) /\ rosters' = rosters /\ Today \in Days /\ Guards
      BY <1>1, <2>2
    <3> QED
      BY <1>1, <2>3, <3>1, GuardWrite
  <2> QED
    BY <1>3, <2>2, <2>4
<1> QED
  BY <1>2, <1>3 DEF trip

-----------------------------------------------------------------------------
(* The steps, by what they write *)

\* A process of the others arms, or does not.
Resolves(r) ==
  /\ r # "v1" /\ proc[r].pc = "decide"
  /\ \E arms \in BOOLEAN :
       /\ arms => proc[r].clean /\ ~v33_latched_stop_kind(r, guard[r][Today])
       /\ Resolve(r, arms)
  /\ UNCHANGED <<files, tripped>>

\* The process of the first strategy goes on, and arms only on a day without a stop.
GoesOn ==
  /\ ServiceStep /\ UNCHANGED <<held, ledger, guard, tripped>>
  /\ proc'[V].armed => proc[V].armed \/ ~DayHalted(guard[V][Today])

RosterStep(r) ==
  \/ Closes(r) \/ Backfills(r) \/ Dies(r) \/ Resolves(r)
  \/ Ends(r) /\ Helds'
  \/ ReadAccount(r) /\ UNCHANGED <<files, tripped>>
  \/ EndWindow(r) /\ UNCHANGED <<files, tripped>>
  \/ Corrupted(r) /\ UNCHANGED <<files, tripped>>

Step ==
  \/ UNCHANGED serviceVars
  \/ NextHour /\ UNCHANGED <<files, tripped>>
  \/ \E r \in rosters : RosterStep(r)
  \/ Settles /\ Helds'
  \/ GoesOn \/ S4BalanceCheck \/ trip

\* The steps of the first strategy that only take its process on.
LEMMA GoesOnSteps ==
  ASSUME Shape,
         \/ prepare \/ _read_positions \/ _reconcile_first \/ SkipsS4 \/ parse_balance_unusable
         \/ _finalize_startup_failure \/ Discovery \/ rotate_closed_journals
         \/ \E h \in 1..Hours : _gzip_one_crash_safe(h) \/ GzipDone(h) \/ _best_effort_remove(h)
         \/ WindowOver \/ flush
  PROVE GoesOn
<1>0. ServiceStep
  BY DEF ServiceStep
<1>1. UNCHANGED <<held, ledger, guard, tripped>>
  BY DEF prepare, _read_positions, _reconcile_first, SkipsS4, parse_balance_unusable,
     _finalize_startup_failure, Discovery, rotate_closed_journals, _gzip_one_crash_safe, GzipDone,
     _best_effort_remove, WindowOver, flush, Rotates
<1>2. Procs /\ Runs /\ rosters' = rosters
  BY <1>0, ServiceProc DEF Shape
<1>P. ASSUME NEW pc \in ServicePcs, NEW p, NEW armed, armed \in BOOLEAN, Proceed(pc, p, armed)
      PROVE proc'[V].armed = armed
  BY <1>2, <1>P, ProceedShape
<1>B. proc[V].armed \in BOOLEAN
  BY <1>2 DEF Procs, ProcShape, Runs
<1>C. {"prepare", "positions", "backfill", "s4", "discover", "rotate", "trading", "flush", "row"}
        \subseteq ServicePcs
  BY DEF ServicePcs
<1>3. CASE prepare
  <2>1. CASE StandDown
    BY <2>1, <1>0, <1>1, <1>P, <1>C DEF StandDown, GoesOn
  <2>2. CASE ~StandDown
    <3>1. PICK mode \in {"armed", "dry", "shakedown"}, s5 \in arming_check, caps \in _caps_agree :
            Proceed("positions", [NoPlan EXCEPT !.mode = mode,
                               !.corrupt = mode # "shakedown" /\ guard[V][Today].corrupt],
                    mode = "armed" /\ s5 /\ caps /\ ~DayHalted(guard[V][Today]))
      BY <1>3, <2>2 DEF prepare
    <3>2. PICK armed \in BOOLEAN : armed = (mode = "armed" /\ s5 /\ caps /\ ~DayHalted(guard[V][Today]))
      OBVIOUS
    <3>3. armed => ~DayHalted(guard[V][Today])
      BY <3>2
    <3> QED
      BY <3>1, <3>2, <3>3, <1>0, <1>1, <1>P, <1>C DEF GoesOn
  <2> QED
    BY <2>1, <2>2
<1>4. CASE ~prepare
  <2>1. \E pc \in ServicePcs : \E p : Proceed(pc, p, FALSE) \/ Proceed(pc, p, proc[V].armed)
    <3>1. CASE _read_positions
      BY <3>1, <1>C DEF _read_positions, StandDown
    <3>2. CASE _reconcile_first
      BY <3>2, <1>C DEF _reconcile_first, StandDown
    <3>3. CASE SkipsS4 \/ parse_balance_unusable \/ _finalize_startup_failure \/ Discovery
      BY <3>3, <1>C DEF SkipsS4, parse_balance_unusable, _finalize_startup_failure, Discovery, StandDown
    <3>4. CASE rotate_closed_journals
      BY <3>4, <1>C DEF rotate_closed_journals
    <3>5. CASE \E h \in 1..Hours : _gzip_one_crash_safe(h) \/ GzipDone(h) \/ _best_effort_remove(h)
      BY <3>5, <1>C DEF _gzip_one_crash_safe, GzipDone, _best_effort_remove, Work
    <3>6. CASE WindowOver \/ flush
      BY <3>6, <1>C DEF WindowOver, flush
    <3> QED
      BY <1>4, <3>1, <3>2, <3>3, <3>4, <3>5, <3>6
  <2> QED
    BY <2>1, <1>0, <1>1, <1>P, <1>B DEF GoesOn
<1> QED
  BY <1>3, <1>4

\* Every step is one of these.
LEMMA StepCases == ASSUME Shape, [ServiceNext]_serviceVars PROVE Step
<1>0. V = "v1" /\ (V \in rosters <=> Runs)
  BY DEF V, Runs
<1>R. ASSUME NEW r \in rosters, RosterStep(r) PROVE Step
  BY <1>R DEF Step
<1>1. CASE UNCHANGED serviceVars
  BY <1>1 DEF Step
<1>2. CASE ServiceStep
  <2>1. CASE _settlement_backfill_sweep
    <3>1. /\ V \in rosters /\ Settle(V)
          /\ UNCHANGED <<rosters, hour, proc, held, guard, faults, files, tripped>>
          /\ proc[V].pc \in {"sweep", "backfill"}
      BY <2>1 DEF _settlement_backfill_sweep, At, Runs
    <3>a. Backfills(V)
      BY <3>1, SettleEffect
    <3> QED
      BY <3>a, <3>1, <1>R DEF RosterStep
  <2>2. CASE execute
    BY <2>2, ExecuteEffect DEF Step, RosterStep
  <2>3. CASE _finalize_v1
    <3>1. V \in rosters /\ Closes(V)
      BY <2>3, FinalizeV1Effect
    <3> QED
      BY <3>1, <1>R DEF RosterStep
  <2>4. CASE S4BalanceCheck \/ trip
    BY <2>4 DEF Step
  <2>5. CASE ~(_settlement_backfill_sweep \/ execute \/ _finalize_v1 \/ S4BalanceCheck \/ trip)
    BY <1>2, <2>5, GoesOnSteps DEF ServiceStep, Step
  <2> QED
    BY <2>1, <2>2, <2>3, <2>4, <2>5
<1>3. CASE Next /\ UNCHANGED <<files, tripped>>
  <2>1. CASE NextHour
    BY <1>3, <2>1 DEF Step
  <2>2. CASE v32_settlement_backfill_sweep
    <3>1. /\ "v32" \in rosters /\ Settle("v32") /\ proc["v32"].pc \in {"sweep", "backfill"}
          /\ UNCHANGED <<rosters, hour, proc, held, guard, faults, files, tripped>>
      BY <1>3, <2>2 DEF v32_settlement_backfill_sweep
    <3>a. Backfills("v32")
      BY <3>1, SettleEffect
    <3> QED
      BY <3>a, <3>1, <1>R DEF RosterStep
  <2>3. CASE _stand_down_v32
    <3>1. "v32" \in rosters /\ StandDownRow("v32")
      BY <2>3 DEF _stand_down_v32
    <3>a. Closes("v32")
      BY <1>3, <3>1, StandDownEffect
    <3> QED
      BY <3>a, <3>1, <1>R DEF RosterStep
  <2>4. CASE DecideV32
    <3>1. PICK s5 \in v32_arming_check :
            Resolve("v32", decide_v32_arming(guard["v32"][Today], s5, proc["v32"].clean, S4("v32")))
      BY <2>4 DEF DecideV32
    <3>2. PICK arms \in BOOLEAN : arms = decide_v32_arming(guard["v32"][Today], s5, proc["v32"].clean, S4("v32"))
      BY DEF decide_v32_arming
    <3>3. arms => proc["v32"].clean /\ ~v33_latched_stop_kind("v32", guard["v32"][Today])
      BY <3>2 DEF decide_v32_arming
    <3>4. "v32" \in rosters /\ proc["v32"].pc = "decide"
      BY <2>4 DEF DecideV32
    <3> QED
      BY <1>3, <3>1, <3>2, <3>3, <3>4 DEF Step, RosterStep, Resolves
  <2>5. CASE _finalize_v32
    <3>1. "v32" \in rosters /\ Closes("v32")
      BY <1>3, <2>5, FinalizeV32Effect
    <3> QED
      BY <3>1, <1>R DEF RosterStep
  <2>6. ASSUME NEW r \in rosters,
               \/ v33_settlement_backfill_sweep(r) \/ _stand_down(r) \/ ReadAccount(r) \/ Decide(r)
               \/ Trade(r) \/ EndWindow(r) \/ _finalize(r) \/ Killed(r) \/ Corrupted(r)
               \/ \E h \in 1..Hours : Finalized(r, h)
        PROVE Step
    <3>1. CASE v33_settlement_backfill_sweep(r)
      <4>1. Backfills(r)
        BY <1>3, <3>1, SettleEffect DEF v33_settlement_backfill_sweep
      <4> QED
        BY <4>1, <1>R DEF RosterStep
    <3>2. CASE _stand_down(r)
      <4>1. Closes(r)
        BY <1>3, <3>2, StandDownEffect DEF _stand_down
      <4> QED
        BY <4>1, <1>R DEF RosterStep
    <3>3. CASE ReadAccount(r) \/ EndWindow(r) \/ Corrupted(r)
      BY <1>3, <3>3 DEF Step, RosterStep
    <3>4. CASE Decide(r)
      <4>1. PICK s5 \in v33_arming_check :
              Resolve(r, decide_v33_arming(r, guard[r][Today], s5, proc[r].clean, S4(r)))
        BY <3>4 DEF Decide
      <4>2. PICK arms \in BOOLEAN : arms = decide_v33_arming(r, guard[r][Today], s5, proc[r].clean, S4(r))
        BY DEF decide_v33_arming
      <4>3. arms => proc[r].clean /\ ~v33_latched_stop_kind(r, guard[r][Today])
        BY <4>2 DEF decide_v33_arming
      <4>4. r # "v1" /\ proc[r].pc = "decide"
        BY <3>4 DEF Decide, Reconciles
      <4> QED
        BY <1>3, <4>1, <4>2, <4>3, <4>4 DEF Step, RosterStep, Resolves
    <3>5. CASE Trade(r)
      BY <1>3, <3>5, TradeEffect DEF Step, RosterStep
    <3>6. CASE _finalize(r)
      <4>1. Closes(r)
        BY <1>3, <3>6, FinalizeEffect
      <4> QED
        BY <4>1, <1>R DEF RosterStep
    <3>7. CASE Killed(r)
      <4>1. Dies(r)
        BY <1>3, <3>7, KilledEffect
      <4> QED
        BY <4>1, <1>R DEF RosterStep
    <3>8. CASE \E h \in 1..Hours : Finalized(r, h)
      BY <1>3, <3>8, FinalizedEffect DEF Step
    <3> QED
      BY <2>6, <3>1, <3>2, <3>3, <3>4, <3>5, <3>6, <3>7, <3>8
  <2> QED
    BY <1>3, <2>1, <2>2, <2>3, <2>4, <2>5, <2>6 DEF Next
<1> QED
  BY <1>1, <1>2, <1>3 DEF ServiceNext

-----------------------------------------------------------------------------
(* The journals *)

\* A rotation, wherever it is killed, and a flush leave every journal readable.
LEMMA FilesStep ==
  ASSUME Shape, Step
  PROVE /\ Files'
        /\ JournalKept => JournalKept'
<1>0. Files /\ Clock
  BY DEF Shape
<1>1. CASE UNCHANGED files
  BY <1>0, <1>1 DEF Files, JournalKept
<1>2. ASSUME NEW h \in 1..Hours, NEW f \in FileType, files' = [files EXCEPT ![h] = f],
             f.flushed => files[h].flushed \/ f.raw,
             files[h].raw \/ files[h].gz = "full" => f.raw \/ f.gz = "full"
      PROVE Files' /\ (JournalKept => JournalKept')
  BY <1>0, <1>2 DEF Files, JournalKept
<1>3. CASE GoesOn /\ ~UNCHANGED files
  <2>1. CASE \E h \in 1..Hours : _gzip_one_crash_safe(h) \/ GzipDone(h) \/ _best_effort_remove(h)
    <3>1. PICK h \in 1..Hours : _gzip_one_crash_safe(h) \/ GzipDone(h) \/ _best_effort_remove(h)
      BY <2>1
    <3>2. files[h] \in FileType
      BY <1>0 DEF Files
    <3>3. CASE _gzip_one_crash_safe(h)
      <4>1. PICK f : f = [files[h] EXCEPT !.tmp = TRUE]
        OBVIOUS
      <4>2. files' = [files EXCEPT ![h] = f]
        BY <3>3, <4>1 DEF _gzip_one_crash_safe, Writing
      <4>3. f \in FileType /\ f.flushed = files[h].flushed /\ f.raw = files[h].raw /\ f.gz = files[h].gz
        BY <4>1, <3>2 DEF FileType
      <4> QED
        BY <4>2, <4>3, <1>2
    <3>4. CASE GzipDone(h)
      <4>1. CASE \E locked \in BOOLEAN :
                   files' = [files EXCEPT ![h] = [files[h] EXCEPT !.tmp = FALSE, !.gz = "full", !.raw = locked]]
        <5>1. PICK locked \in BOOLEAN :
                   files' = [files EXCEPT ![h] = [files[h] EXCEPT !.tmp = FALSE, !.gz = "full", !.raw = locked]]
          BY <4>1
        <5>2. PICK f : f = [files[h] EXCEPT !.tmp = FALSE, !.gz = "full", !.raw = locked]
          OBVIOUS
        <5>3. f \in FileType /\ f.flushed = files[h].flushed /\ f.gz = "full"
          BY <5>2, <3>2 DEF FileType
        <5> QED
          BY <5>1, <5>2, <5>3, <1>2
      <4>2. CASE files' = [files EXCEPT ![h] = [files[h] EXCEPT !.tmp = FALSE]]
        <5>1. PICK f : f = [files[h] EXCEPT !.tmp = FALSE]
          OBVIOUS
        <5>2. f \in FileType /\ f.flushed = files[h].flushed /\ f.raw = files[h].raw /\ f.gz = files[h].gz
          BY <5>1, <3>2 DEF FileType
        <5> QED
          BY <4>2, <5>1, <5>2, <1>2
      <4> QED
        BY <3>4, <4>1, <4>2 DEF GzipDone, Work
    <3>5. CASE _best_effort_remove(h)
      <4>1. PICK f : f = [files[h] EXCEPT !.raw = FALSE]
        OBVIOUS
      <4>2. files' = [files EXCEPT ![h] = f] /\ files[h].gz # "none"
        BY <3>5, <4>1 DEF _best_effort_remove, Work
      <4>3. f \in FileType /\ f.flushed = files[h].flushed /\ f.gz = files[h].gz /\ f.gz = "full"
        BY <4>1, <4>2, <3>2 DEF FileType
      <4> QED
        BY <4>2, <4>3, <1>2
    <3> QED
      BY <3>1, <3>3, <3>4, <3>5
  <2>2. CASE flush
    <3>1. PICK f : f = [NoFile EXCEPT !.flushed = TRUE, !.raw = TRUE]
      OBVIOUS
    <3>2. files' = [files EXCEPT ![hour] = f]
      BY <1>3, <2>2, <3>1 DEF flush
    <3>3. /\ f = [flushed |-> f.flushed, raw |-> f.raw, gz |-> f.gz, tmp |-> f.tmp]
          /\ f.flushed = TRUE /\ f.raw = TRUE /\ f.gz = "none" /\ f.tmp = FALSE
      BY <3>1 DEF NoFile
    <3>4. f \in FileType /\ f.raw
      BY <3>3 DEF FileType
    <3> QED
      BY <1>0, <3>2, <3>4, <1>2 DEF Clock
  <2>3. ServiceStep
    BY <1>3 DEF GoesOn
  <2> QED
    BY <1>3, <2>1, <2>2, <2>3 DEF ServiceStep, prepare, _read_positions, _reconcile_first, SkipsS4,
       parse_balance_unusable, _finalize_startup_failure, Discovery, rotate_closed_journals, WindowOver,
       S4BalanceCheck, trip, execute, _finalize_v1, _settlement_backfill_sweep
<1>4. CASE ~GoesOn /\ ~UNCHANGED files
  BY <1>4 DEF Step, RosterStep, Closes, Backfills, Dies, Ends, Resolves, Settles, S4BalanceCheck, trip,
     serviceVars
<1> QED
  BY <1>1, <1>3, <1>4

-----------------------------------------------------------------------------
(* The shape of the state *)

\* Every ledger is empty and nobody holds anything when the first day begins.
LEMMA InitShape == ServiceInit => Shape
<1> SUFFICES ASSUME ServiceInit PROVE Shape
  OBVIOUS
<1>0. Init /\ files = [h \in 1..Hours |-> NoFile]
  BY DEF ServiceInit
<1>1. Clock
  BY <1>0, AccountAssumption DEF Init, Clock
<1>2. Procs
  <2>1. proc = [r \in rosters |-> Spawned(r)]
    BY <1>0 DEF Init
  <2>2. ASSUME NEW r \in rosters PROVE ProcShape(r)
    <3>1. PICK p : p = Spawned(r)
      OBVIOUS
    <3>2. /\ p = [pc |-> p.pc, clean |-> p.clean, balance |-> p.balance, s4 |-> p.s4,
                  armed |-> p.armed, plan |-> p.plan]
          /\ p.pc = (IF r = "v1" THEN "prepare" ELSE "sweep")
          /\ p.armed = FALSE /\ p.clean = FALSE
      BY <3>1 DEF Spawned, Idle
    <3>3. p.pc \in IF r = "v1" THEN ServicePcs ELSE PinPcs
      BY <3>2 DEF ServicePcs, PinPcs
    <3>4. proc[r] = p
      BY <2>1, <3>1
    <3> QED
      BY <3>2, <3>3, <3>4 DEF ProcShape
  <2> QED
    BY <2>1, <2>2 DEF Procs
<1>3. Helds
  <2>1. Flat \in HeldType
    BY DEF Flat, HeldType
  <2> QED
    BY <1>0, <2>1 DEF Init, Helds
<1>4. Ledgers
  <2>1. <<>> \in Seq(RowType)
    OBVIOUS
  <2> QED
    BY <1>0, <2>1 DEF Init, Ledgers
<1>5. Guards
  <2>1. GuardShape(NewGuard)
    BY DEF NewGuard, GuardShape, None
  <2> QED
    BY <1>0, <2>1 DEF Init, Guards
<1>6. Files
  <2>1. NoFile \in FileType
    BY DEF NoFile, FileType
  <2> QED
    BY <1>0, <2>1 DEF Files
<1> QED
  BY <1>1, <1>2, <1>3, <1>4, <1>5, <1>6 DEF Shape

\* Every step keeps it.
LEMMA NextShape == ASSUME Shape, Step PROVE Shape'
<1>0. Clock /\ Procs /\ Helds /\ Ledgers /\ Guards
  BY DEF Shape
<1>1. Files'
  BY FilesStep
<1>C. UNCHANGED <<rosters, hour>> => Clock'
  BY <1>0 DEF Clock
<1>P. UNCHANGED <<rosters, proc>> => Procs'
  BY <1>0 DEF Procs, ProcShape
<1>H. UNCHANGED <<rosters, held>> => Helds'
  BY <1>0 DEF Helds
<1>L. UNCHANGED <<rosters, ledger>> => Ledgers'
  BY <1>0 DEF Ledgers
<1>G. UNCHANGED <<rosters, guard>> => Guards'
  BY <1>0 DEF Guards, Days
<1>2. CASE UNCHANGED serviceVars
  BY <1>1, <1>2, <1>C, <1>P, <1>H, <1>L, <1>G DEF serviceVars, vars, Shape
<1>3. CASE NextHour
  <2>1. UNCHANGED <<rosters, held, ledger, guard>>
    BY <1>3 DEF NextHour
  <2> QED
    BY <1>1, <1>3, <2>1, NextHourEffect, <1>H, <1>L, <1>G DEF Shape
<1>4. ASSUME NEW r \in rosters, RosterStep(r) PROVE Shape'
  <2>1. CASE Closes(r)
    <3>1. Procs'
      BY <1>0, <2>1, StopShape DEF Closes
    <3>2. Ledgers'
      <4>1. PICK row \in RowType : AppendRow(r, row)
        BY <2>1 DEF Closes
      <4> QED
        BY <1>0, <2>1, <4>1, AppendLedgers DEF Closes
    <3>3. UNCHANGED <<rosters, hour, held, guard>>
      BY <2>1 DEF Closes
    <3> QED
      BY <1>1, <3>1, <3>2, <3>3, <1>C, <1>H, <1>G DEF Shape
  <2>2. CASE Backfills(r)
    <3>1. Ledgers'
      <4>1. PICK row \in RowType : AppendRow(r, row)
        BY <2>2 DEF Backfills
      <4> QED
        BY <1>0, <2>2, <4>1, AppendLedgers DEF Backfills
    <3>2. UNCHANGED <<rosters, hour, proc, held, guard>>
      BY <2>2 DEF Backfills
    <3> QED
      BY <1>1, <3>1, <3>2, <1>C, <1>P, <1>H, <1>G DEF Shape
  <2>3. CASE Dies(r)
    <3>1. UNCHANGED <<rosters, hour, held, guard>> /\ Stop(r)
      BY <2>3 DEF Dies
    <3>2. Procs'
      BY <1>0, <3>1, StopShape
    <3>3. Ledgers'
      BY <1>0, <2>3, DiesLedgers
    <3> QED
      BY <1>1, <3>1, <3>2, <3>3, <1>C, <1>H, <1>G DEF Shape
  <2>4. CASE Ends(r) /\ Helds'
    <3>1. UNCHANGED <<rosters, hour, proc, ledger, guard>>
      BY <2>4 DEF Ends
    <3> QED
      BY <1>1, <2>4, <3>1, <1>C, <1>P, <1>L, <1>G DEF Shape
  <2>5. CASE Resolves(r)
    <3>1. UNCHANGED <<rosters, hour, held, ledger, guard>>
      BY <2>5 DEF Resolves, Resolve
    <3>2. Procs'
      BY <2>5, ResolveEffect DEF Resolves
    <3> QED
      BY <1>1, <3>1, <3>2, <1>C, <1>H, <1>L, <1>G DEF Shape
  <2>6. CASE ReadAccount(r)
    <3>1. UNCHANGED <<rosters, hour, held, ledger>>
      BY <2>6 DEF ReadAccount
    <3> QED
      BY <1>1, <2>6, <3>1, ReadAccountEffect, ReadAccountGuard, <1>C, <1>H, <1>L DEF Shape
  <2>7. CASE EndWindow(r)
    <3>1. UNCHANGED <<rosters, hour, held, ledger>>
      BY <2>7 DEF EndWindow
    <3> QED
      BY <1>1, <2>7, <3>1, EndWindowEffect, EndWindowGuard, <1>C, <1>H, <1>L DEF Shape
  <2>8. CASE Corrupted(r)
    <3>1. UNCHANGED <<rosters, hour, proc, held, ledger>>
      BY <2>8 DEF Corrupted
    <3> QED
      BY <1>1, <2>8, <3>1, CorruptedGuard, <1>C, <1>P, <1>H, <1>L DEF Shape
  <2> QED
    BY <1>4, <2>1, <2>2, <2>3, <2>4, <2>5, <2>6, <2>7, <2>8 DEF RosterStep
<1>5. CASE Settles /\ Helds'
  <2>1. UNCHANGED <<rosters, hour, proc, ledger, guard>>
    BY <1>5 DEF Settles
  <2> QED
    BY <1>1, <1>5, <2>1, <1>C, <1>P, <1>L, <1>G DEF Shape
<1>6. CASE GoesOn
  <2>1. UNCHANGED <<rosters, hour, held, ledger, guard>> /\ Procs'
    BY <1>6, ServiceProc DEF GoesOn
  <2> QED
    BY <1>1, <2>1, <1>C, <1>H, <1>L, <1>G DEF Shape
<1>7. CASE S4BalanceCheck
  <2>1. UNCHANGED <<rosters, hour, held, ledger>> /\ Procs'
    BY <1>7, ServiceProc DEF S4BalanceCheck, ServiceStep
  <2> QED
    BY <1>1, <1>7, <2>1, S4Guard, <1>C, <1>H, <1>L DEF Shape
<1>8. CASE trip
  <2>1. UNCHANGED <<rosters, hour, held, ledger>> /\ Procs'
    BY <1>8, ServiceProc DEF trip, ServiceStep
  <2> QED
    BY <1>1, <1>8, <2>1, TripGuard, <1>C, <1>H, <1>L DEF Shape
<1> QED
  BY <1>2, <1>3, <1>4, <1>5, <1>6, <1>7, <1>8 DEF Step

\* The parts of the state keep their shape.
THEOREM ShapeTheorem == ServiceSpec => []Shape
<1>1. Shape /\ [ServiceNext]_serviceVars => Shape'
  BY StepCases, NextShape
<1> QED
  BY InitShape, <1>1, PTL DEF ServiceSpec

\* journal_io.py, _gzip_one_crash_safe: a journal that was flushed can be read, whatever a rotation is
\* interrupted at, whatever files the next ones find, and however often.
THEOREM JournalKeptTheorem == ServiceSpec => []JournalKept
<1>1. ServiceInit => JournalKept
  BY DEF ServiceInit, NoFile, JournalKept
<1>2. Shape /\ JournalKept /\ [ServiceNext]_serviceVars => JournalKept'
  BY StepCases, FilesStep
<1> QED
  BY <1>1, <1>2, ShapeTheorem, PTL DEF ServiceSpec

-----------------------------------------------------------------------------
(* One settlement for each window *)

\* A settlement is only written for a window that has none, by whichever sweep comes first, and a torn
\* line never becomes one.
LEMMA BackfilledStep == ASSUME Shape, Step, BackfilledOnce PROVE BackfilledOnce'
<1>0. Ledgers /\ Procs
  BY DEF Shape
<1>1. CASE UNCHANGED <<rosters, ledger>>
  BY <1>1 DEF BackfilledOnce
<1>K. Glued.kind = "glued" /\ Torn.kind = "torn"
  BY DEF Glued, Torn, Row
<1>A. ASSUME NEW r \in rosters, NEW row \in RowType, AppendRow(r, row), rosters' = rosters,
             row.kind = "backfill" => row.of \notin Done(ledger[r])
      PROVE BackfilledOnce'
  <2>1. /\ ledger'[r] = append_v33_ledger_row(ledger[r], row)
        /\ \A s \in rosters : s # r => ledger'[s] = ledger[s]
    BY <1>0, <1>A, AppendLedgers
  <2>2. ledger[r] \in Seq(RowType)
    BY <1>0 DEF Ledgers
  <2>3. \A i \in DOMAIN ledger'[r] :
                \/ i \in DOMAIN ledger[r] /\ ledger'[r][i] = ledger[r][i]
                \/ ledger'[r][i] = row /\ i = Len(ledger[r]) + 1
                \/ ledger'[r][i] = Glued
    BY <2>1, <2>2, AppendShape
  <2>4. ASSUME NEW s \in rosters, NEW i \in DOMAIN ledger'[s], NEW j \in DOMAIN ledger'[s],
               ledger'[s][i].kind = "backfill", ledger'[s][j].kind = "backfill", i # j
        PROVE ledger'[s][i].of # ledger'[s][j].of
    <3>1. CASE s # r
      BY <3>1, <2>1, <2>4 DEF BackfilledOnce
    <3>2. CASE s = r
      <4>1. CASE i \in DOMAIN ledger[r] /\ ledger'[r][i] = ledger[r][i]
        <5>1. CASE j \in DOMAIN ledger[r] /\ ledger'[r][j] = ledger[r][j]
          BY <2>4, <3>2, <4>1, <5>1 DEF BackfilledOnce
        <5>2. CASE ledger'[r][j] = row
          BY <2>4, <3>2, <4>1, <5>2, <1>A DEF Done
        <5> QED
          BY <2>3, <2>4, <3>2, <5>1, <5>2, <1>K
      <4>2. CASE ledger'[r][i] = row /\ i = Len(ledger[r]) + 1
        <5>1. CASE j \in DOMAIN ledger[r] /\ ledger'[r][j] = ledger[r][j]
          BY <2>4, <3>2, <4>2, <5>1, <1>A DEF Done
        <5> QED
          BY <2>3, <2>4, <3>2, <4>2, <5>1, <1>K
      <4> QED
        BY <2>3, <2>4, <3>2, <4>1, <4>2, <1>K
    <3> QED
      BY <3>1, <3>2
  <2> QED
    BY <1>A, <2>4 DEF BackfilledOnce
<1>2. CASE NextHour
  BY <1>1, <1>2 DEF NextHour
<1>3. ASSUME NEW r \in rosters, RosterStep(r) PROVE BackfilledOnce'
  <2>1. CASE Closes(r)
    <3>1. PICK row \in RowType : row.kind = "window" /\ AppendRow(r, row)
      BY <2>1 DEF Closes
    <3> QED
      BY <2>1, <3>1, <1>A DEF Closes
  <2>2. CASE Backfills(r)
    BY <2>2, <1>A DEF Backfills
  <2>3. CASE Dies(r)
    <3>1. /\ \A s \in rosters : s # r => ledger'[s] = ledger[s]
          /\ \A i \in DOMAIN ledger'[r] : \/ i \in DOMAIN ledger[r] /\ ledger'[r][i] = ledger[r][i]
                                          \/ ledger'[r][i] = Torn
      BY <1>0, <2>3, DiesLedgers
    <3> QED
      BY <2>3, <3>1, <1>K DEF Dies, BackfilledOnce
  <2>4. CASE ~(Closes(r) \/ Backfills(r) \/ Dies(r))
    BY <1>1, <1>3, <2>4 DEF RosterStep, Ends, Resolves, Resolve, ReadAccount, EndWindow, Corrupted
  <2> QED
    BY <2>1, <2>2, <2>3, <2>4
<1>4. CASE GoesOn
  BY <1>1, <1>4, ServiceProc DEF GoesOn
<1> QED
  BY <1>1, <1>2, <1>3, <1>4 DEF Step, Settles, S4BalanceCheck, trip, serviceVars, vars

\* v33/ledger.py, v33_settlement_backfill_sweep ("Idempotent"): whatever is killed, torn or read in
\* part, and by however many sweeps, a window is settled once in its ledger.
THEOREM BackfilledOnceTheorem == ServiceSpec => []BackfilledOnce
<1>1. ServiceInit => BackfilledOnce
  BY DEF ServiceInit, Init, BackfilledOnce
<1>2. Shape /\ BackfilledOnce /\ [ServiceNext]_serviceVars => BackfilledOnce'
  BY StepCases, BackfilledStep
<1> QED
  BY <1>1, <1>2, ShapeTheorem, PTL DEF ServiceSpec

-----------------------------------------------------------------------------
(* Reconcile-first *)

\* every earlier window of the roster's series is settled
Flats(r) == \A s \in rosters, h \in 1..(hour - 1) :
              Prefix(s) = Prefix(r) => held[s][h].legs = held[s][h].settled

\* A process that has found its series flat, or has armed on that, is right about the earlier hours:
\* what any roster buys since is of this hour.
CleanIsFlat == \A r \in rosters \ {"v1"} : proc[r].armed \/ proc[r].clean => Flats(r)

\* Every kind of step keeps the processes that look flat, or armed on it, right about their series.
LEMMA CleanStep == ASSUME Shape, Step, CleanIsFlat PROVE CleanIsFlat'
<1>0. Clock /\ Procs /\ Helds
  BY DEF Shape
<1>1. ASSUME UNCHANGED <<rosters, hour>>,
             \A s \in rosters, h \in 1..(hour - 1) :
               held[s][h].legs = held[s][h].settled => held'[s][h].legs = held'[s][h].settled,
             NEW r \in rosters, Flats(r)
      PROVE Flats(r)'
  BY <1>1 DEF Flats
<1>2. ASSUME UNCHANGED <<rosters, hour>>,
             \A s \in rosters, h \in 1..(hour - 1) :
               held[s][h].legs = held[s][h].settled => held'[s][h].legs = held'[s][h].settled,
             \A r \in rosters \ {"v1"} : proc'[r].armed \/ proc'[r].clean
               => proc[r].armed \/ proc[r].clean \/ Flats(r)
      PROVE CleanIsFlat'
  BY <1>1, <1>2 DEF CleanIsFlat
<1>H. UNCHANGED <<rosters, hour, held>> =>
        /\ UNCHANGED <<rosters, hour>>
        /\ \A s \in rosters, h \in 1..(hour - 1) :
               held[s][h].legs = held[s][h].settled => held'[s][h].legs = held'[s][h].settled
  OBVIOUS
<1>3. CASE UNCHANGED serviceVars
  BY <1>3, <1>2, <1>H DEF serviceVars, vars
<1>4. CASE NextHour
  BY <1>4, NextHourEffect DEF CleanIsFlat
<1>5. ASSUME NEW r \in rosters, RosterStep(r) PROVE CleanIsFlat'
  <2>1. CASE Closes(r) \/ Dies(r)
    <3>1. UNCHANGED <<rosters, hour, held>> /\ Stop(r)
      BY <2>1 DEF Closes, Dies
    <3>2. /\ ~proc'[r].armed /\ ~proc'[r].clean /\ \A s \in rosters : s # r => proc'[s] = proc[s]
      BY <1>0, <3>1, StopShape
    <3> QED
      BY <3>1, <3>2, <1>2, <1>H
  <2>2. CASE Backfills(r) \/ Corrupted(r)
    BY <2>2, <1>2, <1>H DEF Backfills, Corrupted
  <2>3. CASE Ends(r)
    <3>1. PICK p \in HeldType : held' = [held EXCEPT ![r][hour] = p]
      BY <2>3 DEF Ends
    <3>2. ASSUME NEW s \in rosters, NEW h \in 1..(hour - 1) PROVE held'[s][h] = held[s][h]
      <4>1. h # hour /\ h \in 1..Hours
        BY <1>0, AccountAssumption DEF Clock
      <4> QED
        BY <1>0, <3>1, <4>1 DEF Helds
    <3> QED
      BY <2>3, <3>2, <1>2 DEF Ends
  <2>4. CASE Resolves(r)
    <3>1. PICK arms \in BOOLEAN : (arms => proc[r].clean) /\ Resolve(r, arms) /\ r # "v1"
      BY <2>4 DEF Resolves
    <3>2. /\ proc'[r].armed = arms /\ proc'[r].clean = FALSE
          /\ \A s \in rosters : s # r => proc'[s] = proc[s]
      BY <3>1, ResolveEffect
    <3>3. UNCHANGED <<rosters, hour, held>>
      BY <3>1 DEF Resolve
    <3> QED
      BY <3>1, <3>2, <3>3, <1>2, <1>H
  <2>5. CASE ReadAccount(r)
    <3>1. /\ proc'[r].armed = proc[r].armed
          /\ proc'[r].clean => reconcile_positions_clean(r)
          /\ \A s \in rosters : s # r => proc'[s] = proc[s]
      BY <2>5, ReadAccountEffect
    <3>2. reconcile_positions_clean(r) => Flats(r)
      <4>1. 1..(hour - 1) \subseteq 1..Hours
        BY <1>0, AccountAssumption DEF Clock
      <4> QED
        BY <4>1 DEF reconcile_positions_clean, Flats
    <3>3. UNCHANGED <<rosters, hour, held>>
      BY <2>5 DEF ReadAccount
    <3> QED
      BY <3>1, <3>2, <3>3, <1>2, <1>H
  <2>6. CASE EndWindow(r)
    <3>1. /\ ~proc'[r].armed /\ ~proc'[r].clean /\ \A s \in rosters : s # r => proc'[s] = proc[s]
      BY <2>6, EndWindowEffect
    <3>2. UNCHANGED <<rosters, hour, held>>
      BY <2>6 DEF EndWindow
    <3> QED
      BY <3>1, <3>2, <1>2, <1>H
  <2> QED
    BY <1>5, <2>1, <2>2, <2>3, <2>4, <2>5, <2>6 DEF RosterStep
<1>6. CASE Settles
  <2>1. \A s \in rosters, h \in 1..(hour - 1) :
           held[s][h].legs = held[s][h].settled => held'[s][h].legs = held'[s][h].settled
    BY <1>0, <1>6, AccountAssumption DEF Settles, Clock
  <2> QED
    BY <1>6, <2>1, <1>2 DEF Settles
<1>7. CASE GoesOn \/ S4BalanceCheck \/ trip
  <2>1. ServiceStep /\ held' = held
    BY <1>7 DEF GoesOn, S4BalanceCheck, trip, ServiceStep
  <2>2. /\ UNCHANGED <<rosters, hour, held>> /\ \A r \in rosters : r # "v1" => proc'[r] = proc[r]
    BY <2>1, ServiceProc DEF V
  <2> QED
    BY <2>2, <1>2, <1>H
<1> QED
  BY <1>3, <1>4, <1>5, <1>6, <1>7 DEF Step

\* stops.py, reconcile_positions_clean: the positions are read long before the orders go out, and other
\* processes trade the same series in between, but a window that is armed finds every earlier one of
\* its series settled.
THEOREM ArmedOnlyFlatTheorem == ServiceSpec => []ArmedOnlyFlat
<1>1. ServiceInit => CleanIsFlat
  <2> SUFFICES ASSUME ServiceInit PROVE CleanIsFlat
    OBVIOUS
  <2>1. hour = 1
    BY DEF ServiceInit, Init
  <2> QED
    BY <2>1 DEF CleanIsFlat, Flats
<1>2. Shape /\ CleanIsFlat /\ [ServiceNext]_serviceVars => CleanIsFlat'
  BY StepCases, CleanStep
<1>3. CleanIsFlat => ArmedOnlyFlat
  BY DEF CleanIsFlat, Flats, ArmedOnlyFlat
<1> QED
  BY <1>1, <1>2, <1>3, ShapeTheorem, PTL DEF ServiceSpec

-----------------------------------------------------------------------------
(* The stops of the first strategy *)

\* a stop that refuses the rest of the day, or a file that cannot be read
Halted(g) == g.corrupt \/ g.s4 \/ g.legged >= 1

\* A stop that was written halts its day, in whatever way the file is damaged or rebuilt afterwards,
\* and the process that is armed has read the file since.
StopsHold ==
  /\ tripped \subseteq 1..Hours
  /\ Runs => \A h \in tripped : Halted(guard[V][DayOf[h]])
  /\ TrippedDayStops

\* Every kind of step keeps a tripped day stopped.
LEMMA StopsStep == ASSUME Shape, Step, StopsHold PROVE StopsHold'
<1>0. Clock /\ Procs /\ Guards /\ V = "v1" /\ (Runs <=> V \in rosters)
  BY DEF Shape, V, Runs
<1>D. \A h \in 1..Hours : DayOf[h] \in Days
  BY DEF Days
<1>1. ASSUME UNCHANGED <<rosters, tripped>>, UNCHANGED hour \/ ~proc'[V].armed,
             Runs => \A d \in Days : Halted(guard[V][d]) => Halted(guard'[V][d]),
             Runs /\ proc'[V].armed => proc[V].armed
      PROVE StopsHold'
  BY <1>0, <1>1, <1>D DEF StopsHold, TrippedDayStops, Today, Runs
<1>2. CASE UNCHANGED serviceVars
  BY <1>1, <1>2 DEF serviceVars, vars
<1>3. CASE NextHour /\ UNCHANGED <<files, tripped>>
  <2>1. UNCHANGED <<rosters, guard, tripped>>
    BY <1>3 DEF NextHour
  <2>2. Runs => ~proc'[V].armed
    BY <1>0, <1>3, NextHourEffect
  <2> QED
    BY <2>1, <2>2, <1>0, <1>D DEF StopsHold, TrippedDayStops, Runs
<1>4. ASSUME NEW r \in rosters, RosterStep(r) PROVE StopsHold'
  <2>1. CASE Closes(r) \/ Dies(r)
    <3>1. UNCHANGED <<rosters, hour, guard, tripped>> /\ Stop(r)
      BY <2>1 DEF Closes, Dies
    <3>2. /\ ~proc'[r].armed /\ \A s \in rosters : s # r => proc'[s] = proc[s]
      BY <1>0, <3>1, StopShape
    <3> QED
      BY <3>1, <3>2, <1>1, <1>0
  <2>2. CASE Backfills(r) \/ Ends(r)
    BY <2>2, <1>1 DEF Backfills, Ends
  <2>3. CASE Corrupted(r) /\ UNCHANGED <<files, tripped>>
    <3>1. UNCHANGED <<rosters, hour, proc, tripped>>
      BY <2>3 DEF Corrupted
    <3>2. \A s \in rosters, d \in Days :
             /\ guard'[s][d].legged = guard[s][d].legged /\ guard'[s][d].s4 = guard[s][d].s4
             /\ guard[s][d].corrupt => guard'[s][d].corrupt
      BY <2>3, CorruptedGuard
    <3> QED
      BY <3>1, <3>2, <1>0, <1>1 DEF Halted
  <2>4. CASE Resolves(r)
    <3>1. PICK arms \in BOOLEAN : Resolve(r, arms) /\ r # "v1"
      BY <2>4 DEF Resolves
    <3>2. \A s \in rosters : s # r => proc'[s] = proc[s]
      BY <3>1, ResolveEffect
    <3>3. UNCHANGED <<rosters, hour, guard, tripped>>
      BY <2>4, <3>1 DEF Resolve, Resolves
    <3> QED
      BY <3>1, <3>2, <3>3, <1>1, <1>0
  <2>5. CASE ReadAccount(r) /\ UNCHANGED <<files, tripped>>
    <3>1. r # "v1" /\ \A s \in rosters : s # r => proc'[s] = proc[s]
      BY <2>5, ReadAccountEffect
    <3>2. \A s \in rosters, d \in Days :
             /\ guard'[s][d].legged = guard[s][d].legged /\ guard'[s][d].s4 = guard[s][d].s4
             /\ guard'[s][d].corrupt = guard[s][d].corrupt
      BY <2>5, ReadAccountGuard
    <3>3. UNCHANGED <<rosters, hour, tripped>>
      BY <2>5 DEF ReadAccount
    <3> QED
      BY <3>1, <3>2, <3>3, <1>1, <1>0 DEF Halted
  <2>6. CASE EndWindow(r) /\ UNCHANGED <<files, tripped>>
    <3>1. r # "v1" /\ \A s \in rosters : s # r => proc'[s] = proc[s]
      BY <2>6, EndWindowEffect
    <3>2. \A s \in rosters, d \in Days : s # r => guard'[s][d] = guard[s][d]
      BY <2>6, EndWindowGuard
    <3>3. UNCHANGED <<rosters, hour, tripped>>
      BY <2>6 DEF EndWindow
    <3> QED
      BY <3>1, <3>2, <3>3, <1>1, <1>0
  <2> QED
    BY <1>4, <2>1, <2>2, <2>3, <2>4, <2>5, <2>6 DEF RosterStep
<1>5. CASE Settles
  BY <1>5, <1>1 DEF Settles
<1>6. CASE GoesOn
  <2>1. UNCHANGED <<rosters, hour, guard, tripped>> /\ Runs
    BY <1>6, ServiceProc DEF GoesOn
  <2>2. CASE proc'[V].armed => proc[V].armed
    BY <2>1, <2>2, <1>1
  <2>3. CASE proc'[V].armed /\ ~proc[V].armed
    <3>1. ~DayHalted(guard[V][Today])
      BY <1>6, <2>3 DEF GoesOn
    <3>2. GuardShape(guard[V][Today]) /\ Threshold[V] = 1
      BY <1>0, <2>1, TodayDay, ServiceAssumption DEF Guards
    <3>3. ~Halted(guard[V][Today])
      BY <3>1, <3>2 DEF DayHalted, v33_latched_stop_kind, Halted
    <3>4. \A h \in tripped : DayOf[h] # Today
      BY <3>3, <2>1 DEF StopsHold
    <3> QED
      BY <2>1, <3>4, <1>0 DEF StopsHold, TrippedDayStops, Today, Runs
  <2> QED
    BY <2>2, <2>3
<1>7. CASE S4BalanceCheck
  <2>1. UNCHANGED <<rosters, hour>> /\ Runs /\ Today \in Days
    BY <1>0, <1>7, ServiceProc, TodayDay DEF ServiceStep
  <2>2. /\ \A d \in Days : d # Today => guard'[V][d] = guard[V][d]
        /\ guard'[V][Today].legged = guard[V][Today].legged
        /\ guard'[V][Today].corrupt = guard[V][Today].corrupt
        /\ guard[V][Today].s4 => guard'[V][Today].s4
    BY <1>0, <1>7, <2>1, S4Guard
  <2>3. \A d \in Days : Halted(guard[V][d]) => Halted(guard'[V][d])
    BY <2>2 DEF Halted
  <2>4. CASE tripped' = tripped /\ (proc'[V].armed => proc[V].armed)
    BY <2>1, <2>3, <2>4, <1>1
  <2>5. CASE tripped' = tripped \cup {hour} /\ guard'[V][Today].s4 /\ ~proc'[V].armed
    BY <2>1, <2>3, <2>5, <1>0, <1>D DEF StopsHold, TrippedDayStops, Today, Runs, Halted, Clock
  <2> QED
    BY <1>7, <2>4, <2>5, S4Guard
<1>8. CASE trip
  <2>1. UNCHANGED <<rosters, hour>> /\ Runs /\ Today \in Days
    BY <1>0, <1>8, ServiceProc, TodayDay DEF ServiceStep
  <2>2. \A d \in Days : d # Today => guard'[V][d] = guard[V][d]
    BY <1>0, <1>8, <2>1, TripGuard
  <2>3. ~proc'[V].armed
    BY <1>0, <1>8, <2>1 DEF trip, Procs, ProcShape
  <2>4. CASE guard' = guard /\ tripped' = tripped
    BY <2>1, <2>3, <2>4, <1>1
  <2>5. CASE guard'[V][Today].legged >= 1 /\ tripped' = tripped \cup {hour}
    <3>1. \A d \in Days : Halted(guard[V][d]) => Halted(guard'[V][d])
      BY <2>2, <2>5 DEF Halted
    <3> QED
      BY <2>1, <2>3, <2>5, <3>1, <1>0, <1>D DEF StopsHold, TrippedDayStops, Today, Runs, Halted, Clock
  <2> QED
    BY <1>8, <2>4, <2>5, TripGuard
<1> QED
  BY <1>2, <1>3, <1>4, <1>5, <1>6, <1>7, <1>8 DEF Step

\* stops.py ("a stop halts the DAY"): once a stop was written, no window of the day is armed, however
\* often the guard is damaged and rebuilt, and whatever is killed and started again.
THEOREM TrippedDayStopsTheorem == ServiceSpec => []TrippedDayStops
<1>1. ServiceInit => StopsHold
  BY DEF ServiceInit, StopsHold, TrippedDayStops
<1>2. Shape /\ StopsHold /\ [ServiceNext]_serviceVars => StopsHold'
  BY StepCases, StopsStep
<1>3. StopsHold => TrippedDayStops
  BY DEF StopsHold
<1> QED
  BY <1>1, <1>2, <1>3, ShapeTheorem, PTL DEF ServiceSpec

-----------------------------------------------------------------------------
(* The one-legged windows of a day *)

\* the windows of a day that ended with lots that lack a wing: they have their row, or will have it next
Occurrences(r, d) ==
  {h \in 1..Hours : /\ DayOf[h] = d
                    /\ Closed(r, h) \/ (h = hour /\ proc[r].pc = "append")
                    /\ held[r][h].legs \notin {{}, Legs}}

\* the row of an hour is the last that its process does
RowsEnd(r) ==
  \A i \in DOMAIN ledger[r] :
    ledger[r][i].kind = "window" => /\ ledger[r][i].of <= hour
                                    /\ ledger[r][i].of = hour => proc[r].pc = "off"

\* nothing is held of an hour before a window of it is armed
BuysArmed(r) ==
  /\ \A h \in 1..Hours : h > hour => held[r][h].legs = {}
  /\ \/ proc[r].pc \in {"sweep", "decide"}
     \/ proc[r].pc = "window" /\ ~proc[r].armed
     => held[r][hour].legs = {}

\* every occurrence is in the guard, or was in one that was damaged
Recorded(r) == \A d \in Days : Cardinality(Occurrences(r, d)) <= guard[r][d].legged + guard[r][d].lost

\* the latch has let the process through, and its own occurrence comes when it is not armed any more
Below(r) == proc[r].armed => guard[r][Today].legged < Threshold[r]

Counted(r) == RowsEnd(r) /\ BuysArmed(r) /\ Recorded(r) /\ Below(r)

AllCounted == \A r \in rosters : Reconciles(r) => Counted(r)

\* There are finitely many, and fewer of them are no more.
LEMMA OccurrencesFinite ==
  ASSUME NEW S, NEW T, S \subseteq T, T \subseteq 1..Hours
  PROVE Cardinality(S) \in Nat /\ Cardinality(T) \in Nat /\ Cardinality(S) <= Cardinality(T)
<1>1. IsFiniteSet(1..Hours)
  BY FS_Interval, AccountAssumption
<1>2. IsFiniteSet(T) /\ IsFiniteSet(S)
  BY <1>1, FS_Subset
<1> QED
  BY <1>2, FS_Subset, FS_CardinalityType

\* The guards keep count while no occurrence is added.
LEMMA RecordedKept ==
  ASSUME NEW r \in rosters, Recorded(r), Guards, Guards', rosters' = rosters,
         \A d \in Days : Occurrences(r, d)' \subseteq Occurrences(r, d),
         \A d \in Days : /\ guard'[r][d].legged = guard[r][d].legged
                         /\ guard'[r][d].lost = guard[r][d].lost
  PROVE Recorded(r)'
<1>1. ASSUME NEW d \in Days
      PROVE Cardinality(Occurrences(r, d)') <= guard'[r][d].legged + guard'[r][d].lost
  <2>1. Occurrences(r, d)' \subseteq Occurrences(r, d) /\ Occurrences(r, d) \subseteq 1..Hours
    BY DEF Occurrences
  <2>2. /\ Cardinality(Occurrences(r, d)') \in Nat /\ Cardinality(Occurrences(r, d)) \in Nat
        /\ Cardinality(Occurrences(r, d)') <= Cardinality(Occurrences(r, d))
    BY <2>1, OccurrencesFinite
  <2>3. /\ Cardinality(Occurrences(r, d)) <= guard[r][d].legged + guard[r][d].lost
        /\ guard[r][d].legged \in Nat /\ guard[r][d].lost \in Nat
    BY DEF Recorded, Guards, GuardShape
  <2>4. guard'[r][d].legged = guard[r][d].legged /\ guard'[r][d].lost = guard[r][d].lost
    OBVIOUS
  <2> QED
    BY <2>2, <2>3, <2>4
<1>2. Days' = Days
  BY DEF Days
<1> QED
  BY <1>1, <1>2 DEF Recorded

\* A step that leaves the roster's process, windows and guard alone, and its windows' rows.
LEMMA CountedKept ==
  ASSUME Shape, Shape', UNCHANGED <<rosters, hour>>, NEW r \in rosters, Counted(r),
         proc'[r] = proc[r],
         \A h \in 1..Hours : held'[r][h].legs = held[r][h].legs,
         \A i \in DOMAIN ledger'[r] : ledger'[r][i].kind = "window"
           => \E j \in DOMAIN ledger[r] : ledger[r][j] = ledger'[r][i],
         \A d \in Days : /\ guard'[r][d].legged = guard[r][d].legged
                         /\ guard'[r][d].lost = guard[r][d].lost
  PROVE Counted(r)'
<1>1. RowsEnd(r)'
  BY DEF Counted, RowsEnd
<1>2. BuysArmed(r)'
  BY DEF Counted, BuysArmed, Shape, Clock
<1>3. Below(r)'
  BY TodayDay DEF Counted, Below, Today, Shape
<1>4. ASSUME NEW d \in Days PROVE Occurrences(r, d)' \subseteq Occurrences(r, d)
  <2>1. \A h \in 1..Hours : Closed(r, h)' => Closed(r, h)
    BY DEF Closed
  <2> QED
    BY <2>1 DEF Occurrences
<1>5. Recorded(r)'
  BY <1>4, RecordedKept DEF Counted, Shape
<1> QED
  BY <1>1, <1>2, <1>3, <1>5 DEF Counted

\* Every kind of step keeps the count of the day's legged hours.
LEMMA CountedStep == ASSUME Shape, Step, AllCounted PROVE AllCounted'
<1>0. Shape' /\ Clock /\ Procs /\ Helds /\ Ledgers /\ Guards /\ Today \in Days
  BY NextShape, TodayDay DEF Shape
<1>K. Glued.kind = "glued" /\ Torn.kind = "torn"
  BY DEF Glued, Torn, Row
<1>S. ASSUME UNCHANGED <<rosters, hour>>, NEW r \in rosters, Counted(r), proc'[r] = proc[r],
             held'[r] = held[r], ledger'[r] = ledger[r],
             \A d \in Days : /\ guard'[r][d].legged = guard[r][d].legged
                             /\ guard'[r][d].lost = guard[r][d].lost
      PROVE Counted(r)'
  BY <1>0, <1>S, CountedKept
<1>1. CASE UNCHANGED serviceVars
  BY <1>1, <1>S DEF serviceVars, vars, AllCounted
<1>2. CASE NextHour
  <2>1. /\ rosters' = rosters /\ hour' = hour + 1 /\ UNCHANGED <<held, ledger, guard>>
        /\ \A r \in rosters : proc[r].pc = "off"
    BY <1>2 DEF NextHour
  <2>2. SUFFICES ASSUME NEW r \in rosters, Reconciles(r) PROVE Counted(r)'
    BY <2>1 DEF AllCounted
  <2>3. proc'[r].pc = "sweep" /\ ~proc'[r].armed
    BY <1>2, <2>2, NextHourEffect DEF Reconciles
  <2>4. Counted(r)
    BY <2>2 DEF AllCounted
  <2>5. RowsEnd(r)'
    <3>1. ASSUME NEW i \in DOMAIN ledger[r], ledger[r][i].kind = "window"
          PROVE ledger[r][i].of <= hour + 1 /\ ledger[r][i].of # hour + 1
      <4>1. ledger[r][i].of <= hour /\ ledger[r][i].of \in 0..Hours /\ hour \in Nat
        <5>1. ledger[r][i].of <= hour
          <6>1. RowsEnd(r)
            BY <2>4 DEF Counted
          <6> QED
            BY <6>1, <3>1 DEF RowsEnd
        <5>2. ledger[r][i] \in RowType
          BY <1>0, <3>1 DEF Ledgers
        <5>3. ledger[r][i].of \in 0..Hours
          BY <5>2 DEF RowType
        <5> QED
          BY <1>0, <5>1, <5>3, AccountAssumption DEF Clock
      <4> QED
        BY <4>1
    <3> QED
      BY <2>1, <3>1 DEF RowsEnd
  <2>6. BuysArmed(r)'
    <3>1. \A h \in 1..Hours : h > hour => held[r][h].legs = {}
      BY <2>4 DEF Counted, BuysArmed
    <3>2. hour + 1 \in 1..Hours /\ hour \in Nat
      BY <1>0, <2>1, AccountAssumption DEF Shape, Clock
    <3> QED
      BY <2>1, <3>1, <3>2 DEF BuysArmed
  <2>7. \A d \in Days : Occurrences(r, d)' \subseteq Occurrences(r, d)
    BY <2>1, <2>3 DEF Occurrences, Closed
  <2>8. Recorded(r)'
    BY <1>0, <2>1, <2>4, <2>7, RecordedKept DEF Counted, Shape
  <2>9. Below(r)'
    BY <2>3 DEF Below
  <2> QED
    BY <2>5, <2>6, <2>8, <2>9 DEF Counted
<1>3. ASSUME NEW r \in rosters, RosterStep(r) PROVE AllCounted'
  <2>1. CASE Closes(r)
    <3>1. PICK row \in RowType : row.kind = "window" /\ row.of = hour /\ AppendRow(r, row)
      BY <2>1 DEF Closes
    <3>2. UNCHANGED <<rosters, hour, held, guard>> /\ Stop(r) /\ proc[r].pc \in {"sweep", "append", "row"}
      BY <2>1 DEF Closes
    <3>3. /\ proc'[r].pc = "off" /\ ~proc'[r].armed /\ \A s \in rosters : s # r => proc'[s] = proc[s]
      BY <1>0, <3>2, StopShape
    <3>4. /\ ledger'[r] = append_v33_ledger_row(ledger[r], row)
          /\ \A s \in rosters : s # r => ledger'[s] = ledger[s]
      BY <1>0, <3>1, <3>2, AppendLedgers
    <3>5. \A i \in DOMAIN ledger'[r] :
                \/ i \in DOMAIN ledger[r] /\ ledger'[r][i] = ledger[r][i]
                \/ ledger'[r][i] = row
                \/ ledger'[r][i] = Glued
      BY <1>0, <3>4, AppendShape DEF Ledgers
    <3>6. ASSUME Reconciles(r) PROVE Counted(r)'
      <4>1. Counted(r) /\ proc[r].pc \in {"sweep", "append"}
        BY <1>0, <3>2, <3>6 DEF AllCounted, Procs, ProcShape, PinPcs, Reconciles
      <4>2. RowsEnd(r)'
        BY <1>0, <1>K, <3>1, <3>2, <3>3, <3>5, <4>1 DEF Counted, RowsEnd, Clock
      <4>3. BuysArmed(r)'
        BY <3>2, <3>3, <4>1 DEF Counted, BuysArmed
      <4>4. ASSUME NEW d \in Days, NEW h \in Occurrences(r, d)' PROVE h \in Occurrences(r, d)
        <5>1. /\ h \in 1..Hours /\ DayOf[h] = d /\ held[r][h].legs \notin {{}, Legs} /\ Closed(r, h)'
          BY <3>2, <3>3, <4>4 DEF Occurrences
        <5>2. PICK i \in DOMAIN ledger'[r] : ledger'[r][i].kind = "window" /\ ledger'[r][i].of = h
          BY <5>1 DEF Closed
        <5>3. CASE ledger'[r][i] = row
          <6>1. h = hour /\ proc[r].pc = "append"
            BY <3>1, <4>1, <5>1, <5>2, <5>3 DEF Counted, BuysArmed
          <6> QED
            BY <5>1, <6>1 DEF Occurrences
        <5>4. CASE i \in DOMAIN ledger[r] /\ ledger'[r][i] = ledger[r][i]
          BY <5>1, <5>2, <5>4 DEF Occurrences, Closed
        <5> QED
          BY <1>K, <3>5, <5>2, <5>3, <5>4
      <4>5. Recorded(r)'
        BY <1>0, <3>2, <4>1, <4>4, RecordedKept DEF Counted, Shape
      <4>6. Below(r)'
        BY <3>3 DEF Below
      <4> QED
        BY <4>2, <4>3, <4>5, <4>6 DEF Counted
    <3>7. ASSUME NEW s \in rosters, s # r, Reconciles(s) PROVE Counted(s)'
      BY <3>2, <3>3, <3>4, <3>7, <1>S DEF AllCounted
    <3> QED
      BY <3>2, <3>6, <3>7 DEF AllCounted
  <2>2. CASE Backfills(r)
    <3>1. PICK row \in RowType : row.kind = "backfill" /\ AppendRow(r, row)
      BY <2>2 DEF Backfills
    <3>2. UNCHANGED <<rosters, hour, proc, held, guard>>
      BY <2>2 DEF Backfills
    <3>3. /\ ledger'[r] = append_v33_ledger_row(ledger[r], row)
          /\ \A s \in rosters : s # r => ledger'[s] = ledger[s]
      BY <1>0, <3>1, <3>2, AppendLedgers
    <3>4. \A i \in DOMAIN ledger'[r] :
                \/ i \in DOMAIN ledger[r] /\ ledger'[r][i] = ledger[r][i]
                \/ ledger'[r][i] = row
                \/ ledger'[r][i] = Glued
      BY <1>0, <3>3, AppendShape DEF Ledgers
    <3>5. \A i \in DOMAIN ledger'[r] : ledger'[r][i].kind = "window"
             => \E j \in DOMAIN ledger[r] : ledger[r][j] = ledger'[r][i]
      BY <1>K, <3>1, <3>4
    <3>6. ASSUME Reconciles(r) PROVE Counted(r)'
      BY <1>0, <3>2, <3>5, <3>6, CountedKept DEF AllCounted
    <3>7. ASSUME NEW s \in rosters, s # r, Reconciles(s) PROVE Counted(s)'
      BY <3>2, <3>3, <3>7, <1>S DEF AllCounted
    <3> QED
      BY <3>2, <3>6, <3>7 DEF AllCounted
  <2>3. CASE Dies(r)
    <3>1. UNCHANGED <<rosters, hour, held, guard>> /\ Stop(r)
      BY <2>3 DEF Dies
    <3>2. /\ proc'[r].pc = "off" /\ ~proc'[r].armed /\ \A s \in rosters : s # r => proc'[s] = proc[s]
      BY <1>0, <3>1, StopShape
    <3>3. /\ \A s \in rosters : s # r => ledger'[s] = ledger[s]
          /\ \A i \in DOMAIN ledger'[r] : \/ i \in DOMAIN ledger[r] /\ ledger'[r][i] = ledger[r][i]
                                          \/ ledger'[r][i] = Torn
      BY <1>0, <2>3, DiesLedgers
    <3>4. ASSUME Reconciles(r) PROVE Counted(r)'
      <4>1. Counted(r)
        BY <3>4 DEF AllCounted
      <4>2. RowsEnd(r)'
        BY <1>K, <3>1, <3>2, <3>3, <4>1 DEF Counted, RowsEnd
      <4>3. BuysArmed(r)'
        BY <3>1, <3>2, <4>1 DEF Counted, BuysArmed
      <4>4. ASSUME NEW d \in Days PROVE Occurrences(r, d)' \subseteq Occurrences(r, d)
        <5>1. \A h \in 1..Hours : Closed(r, h)' => Closed(r, h)
          BY <1>K, <3>3 DEF Closed
        <5> QED
          BY <3>1, <3>2, <5>1 DEF Occurrences
      <4>5. Recorded(r)'
        BY <1>0, <3>1, <4>1, <4>4, RecordedKept DEF Counted, Shape
      <4>6. Below(r)'
        BY <3>2 DEF Below
      <4> QED
        BY <4>2, <4>3, <4>5, <4>6 DEF Counted
    <3>5. ASSUME NEW s \in rosters, s # r, Reconciles(s) PROVE Counted(s)'
      BY <3>1, <3>2, <3>3, <3>5, <1>S DEF AllCounted
    <3> QED
      BY <3>1, <3>4, <3>5 DEF AllCounted
  <2>4. CASE Ends(r)
    <3>1. PICK p \in HeldType : held' = [held EXCEPT ![r][hour] = p]
      BY <2>4 DEF Ends
    <3>2. /\ UNCHANGED <<rosters, hour, proc, ledger, guard>>
          /\ proc[r].armed /\ proc[r].pc \in {"window", "trading"}
      BY <2>4 DEF Ends
    <3>3. /\ \A s \in rosters : s # r => held'[s] = held[s]
          /\ \A h \in 1..Hours : h # hour => held'[r][h] = held[r][h]
      BY <1>0, <3>1 DEF Helds
    <3>4. ASSUME Reconciles(r) PROVE Counted(r)'
      <4>1. Counted(r) /\ proc[r].pc = "window"
        BY <1>0, <3>2, <3>4 DEF AllCounted, Procs, ProcShape, PinPcs, Reconciles
      <4>2. RowsEnd(r)' /\ Below(r)'
        BY <3>2, <4>1 DEF Counted, RowsEnd, Below, Today
      <4>3. BuysArmed(r)'
        <5>1. \A h \in 1..Hours : h > hour => h # hour
          BY <1>0, AccountAssumption DEF Clock
        <5>2. \A h \in 1..Hours : h > hour => held[r][h].legs = {}
          BY <4>1 DEF Counted, BuysArmed
        <5>3. proc'[r].armed /\ proc'[r].pc = "window" /\ hour' = hour
          BY <3>2, <4>1
        <5>4. \A h \in 1..Hours : h > hour => held'[r][h].legs = {}
          BY <3>3, <5>1, <5>2
        <5> QED
          BY <5>3, <5>4 DEF BuysArmed
      <4>4. ASSUME NEW d \in Days, NEW h \in Occurrences(r, d)' PROVE h \in Occurrences(r, d)
        <5>1. h \in 1..Hours /\ DayOf[h] = d /\ held'[r][h].legs \notin {{}, Legs} /\ Closed(r, h)
          BY <3>2, <4>1, <4>4 DEF Occurrences, Closed
        <5>2. h # hour
          BY <4>1, <5>1 DEF Closed, Counted, RowsEnd
        <5> QED
          BY <3>3, <5>1, <5>2 DEF Occurrences
      <4>5. Recorded(r)'
        BY <1>0, <3>2, <4>1, <4>4, RecordedKept DEF Counted, Shape
      <4> QED
        BY <4>2, <4>3, <4>5 DEF Counted
    <3>5. ASSUME NEW s \in rosters, s # r, Reconciles(s) PROVE Counted(s)'
      BY <3>2, <3>3, <3>5, <1>S DEF AllCounted
    <3> QED
      BY <3>2, <3>4, <3>5 DEF AllCounted
  <2>5. CASE Resolves(r)
    <3>1. PICK arms \in BOOLEAN : /\ arms => ~v33_latched_stop_kind(r, guard[r][Today])
                                  /\ Resolve(r, arms)
      BY <2>5 DEF Resolves
    <3>2. UNCHANGED <<rosters, hour, held, ledger, guard>> /\ proc[r].pc = "decide" /\ r # "v1"
      BY <2>5, <3>1 DEF Resolves, Resolve
    <3>3. /\ proc'[r].pc = "window" /\ proc'[r].armed = arms
          /\ \A s \in rosters : s # r => proc'[s] = proc[s]
      BY <3>1, <3>2, ResolveEffect
    <3>4. ASSUME Reconciles(r) PROVE Counted(r)'
      <4>1. Counted(r)
        BY <3>4 DEF AllCounted
      <4>2. RowsEnd(r)'
        BY <3>2, <3>3, <4>1 DEF Counted, RowsEnd
      <4>3. BuysArmed(r)'
        BY <3>2, <3>3, <4>1 DEF Counted, BuysArmed
      <4>4. \A d \in Days : Occurrences(r, d)' \subseteq Occurrences(r, d)
        BY <3>2, <3>3 DEF Occurrences, Closed
      <4>5. Recorded(r)'
        BY <1>0, <3>2, <4>1, <4>4, RecordedKept DEF Counted, Shape
      <4>6. Below(r)'
        <5>1. guard[r][Today].legged \in Nat
          BY <1>0 DEF Guards, GuardShape
        <5>2. r \in Rosters /\ Threshold[r] \in Nat
          BY <1>0, AccountAssumption DEF Clock
        <5>3. arms => guard[r][Today].legged < Threshold[r]
          BY <3>1, <5>1, <5>2 DEF v33_latched_stop_kind
        <5> QED
          BY <3>2, <3>3, <5>3 DEF Below, Today
      <4> QED
        BY <4>2, <4>3, <4>5, <4>6 DEF Counted
    <3>5. ASSUME NEW s \in rosters, s # r, Reconciles(s) PROVE Counted(s)'
      BY <3>2, <3>3, <3>5, <1>S DEF AllCounted
    <3> QED
      BY <3>2, <3>4, <3>5 DEF AllCounted
  <2>6. CASE ReadAccount(r)
    <3>1. UNCHANGED <<rosters, hour, held, ledger>>
      BY <2>6 DEF ReadAccount
    <3>2. /\ proc[r].pc = "sweep" /\ proc'[r].pc = "decide" /\ proc'[r].armed = proc[r].armed
          /\ \A s \in rosters : s # r => proc'[s] = proc[s]
      BY <2>6, ReadAccountEffect
    <3>3. \A s \in rosters, d \in Days : /\ guard'[s][d].legged = guard[s][d].legged
                                         /\ guard'[s][d].lost = guard[s][d].lost
      BY <2>6, ReadAccountGuard
    <3>4. ASSUME Reconciles(r) PROVE Counted(r)'
      <4>1. Counted(r)
        BY <3>4 DEF AllCounted
      <4>2. RowsEnd(r)'
        BY <3>1, <3>2, <4>1 DEF Counted, RowsEnd
      <4>3. BuysArmed(r)'
        BY <3>1, <3>2, <4>1 DEF Counted, BuysArmed
      <4>4. \A d \in Days : Occurrences(r, d)' \subseteq Occurrences(r, d)
        BY <3>1, <3>2 DEF Occurrences, Closed
      <4>5. Recorded(r)'
        BY <1>0, <3>1, <3>3, <4>1, <4>4, RecordedKept DEF Counted, Shape
      <4>6. Below(r)'
        BY <1>0, <3>1, <3>2, <3>3, <4>1 DEF Below, Today, Counted
      <4> QED
        BY <4>2, <4>3, <4>5, <4>6 DEF Counted
    <3>5. ASSUME NEW s \in rosters, s # r, Reconciles(s) PROVE Counted(s)'
      BY <3>1, <3>2, <3>3, <3>5, <1>S DEF AllCounted
    <3> QED
      BY <3>1, <3>4, <3>5 DEF AllCounted
  <2>7. CASE EndWindow(r)
    <3>1. /\ Guards' /\ UNCHANGED <<rosters, hour, held, ledger>>
          /\ \A s \in rosters, d \in Days : <<s, d>> # <<r, Today>> => guard'[s][d] = guard[s][d]
      BY <2>7, EndWindowGuard
    <3>2. /\ proc[r].pc = "window" /\ proc'[r].pc = "append" /\ ~proc'[r].armed
          /\ \A s \in rosters : s # r => proc'[s] = proc[s]
      BY <2>7, EndWindowEffect DEF EndWindow
    <3>4. ASSUME Reconciles(r) PROVE Counted(r)'
      <4>1. Counted(r)
        BY <3>4 DEF AllCounted
      <4>2. RowsEnd(r)'
        BY <3>1, <3>2, <4>1 DEF Counted, RowsEnd
      <4>3. BuysArmed(r)' /\ Below(r)'
        BY <3>1, <3>2, <4>1 DEF Counted, BuysArmed, Below
      <4>4. ASSUME NEW d \in Days, d # Today PROVE Occurrences(r, d)' \subseteq Occurrences(r, d)
        BY <3>1, <3>2, <4>4 DEF Occurrences, Closed, Today
      <4>5. CASE proc[r].armed /\ OneLegged(r, held[r][hour])
        <5>1. guard'[r][Today].legged + guard'[r][Today].lost = guard[r][Today].legged + guard[r][Today].lost + 1
          BY <2>7, <4>5, EndWindowGuard
        <5>2. Occurrences(r, Today)' \subseteq Occurrences(r, Today) \cup {hour}
          BY <3>1, <3>2 DEF Occurrences, Closed, Today
        <5>3. IsFiniteSet(Occurrences(r, Today)) /\ Occurrences(r, Today) \subseteq 1..Hours
          <6>1. IsFiniteSet(1..Hours) /\ Occurrences(r, Today) \subseteq 1..Hours
            BY FS_Interval, AccountAssumption DEF Occurrences
          <6> QED
            BY <6>1, FS_Subset
        <5>4. Cardinality(Occurrences(r, Today) \cup {hour}) <= Cardinality(Occurrences(r, Today)) + 1
          <6>1. Cardinality(Occurrences(r, Today)) \in Nat
            BY <5>3, FS_CardinalityType
          <6>2. Cardinality(Occurrences(r, Today) \cup {hour})
                  = IF hour \in Occurrences(r, Today) THEN Cardinality(Occurrences(r, Today))
                    ELSE Cardinality(Occurrences(r, Today)) + 1
            BY <5>3, FS_AddElement
          <6> QED
            BY <6>1, <6>2
        <5>5. /\ Cardinality(Occurrences(r, Today)') <= Cardinality(Occurrences(r, Today) \cup {hour})
              /\ Cardinality(Occurrences(r, Today)') \in Nat
              /\ Cardinality(Occurrences(r, Today) \cup {hour}) \in Nat
          BY <1>0, <5>2, <5>3, OccurrencesFinite DEF Clock
        <5>6. Cardinality(Occurrences(r, Today)) <= guard[r][Today].legged + guard[r][Today].lost
          BY <1>0, <4>1 DEF Counted, Recorded
        <5>7. /\ guard[r][Today].legged \in Nat /\ guard[r][Today].lost \in Nat
              /\ Cardinality(Occurrences(r, Today)) \in Nat
          BY <1>0, <5>3, FS_CardinalityType DEF Guards, GuardShape
        <5>8. Cardinality(Occurrences(r, Today)') <= guard[r][Today].legged + guard[r][Today].lost + 1
          BY <5>4, <5>5, <5>6, <5>7
        <5>9. ASSUME NEW d \in Days
              PROVE Cardinality(Occurrences(r, d)') <= guard'[r][d].legged + guard'[r][d].lost
          <6>1. CASE d = Today
            <7>1. Today' = Today
              BY <3>1 DEF Today
            <7>2. Occurrences(r, d)' = Occurrences(r, Today)'
              BY <6>1, <7>1 DEF Occurrences, Closed
            <7>3. /\ guard'[r][d].legged + guard'[r][d].lost = guard[r][Today].legged + guard[r][Today].lost + 1
                  /\ Cardinality(Occurrences(r, d)') <= guard[r][Today].legged + guard[r][Today].lost + 1
              BY <5>1, <5>8, <6>1, <7>1, <7>2
            <7> QED
              BY <7>3
          <6>2. CASE d # Today
            <7>1. Occurrences(r, d)' \subseteq Occurrences(r, d) /\ Occurrences(r, d) \subseteq 1..Hours
              BY <4>4, <6>2 DEF Occurrences
            <7>2. guard'[r][d] = guard[r][d]
              BY <3>1, <6>2
            <7>3. /\ Cardinality(Occurrences(r, d)') \in Nat /\ Cardinality(Occurrences(r, d)) \in Nat
                  /\ Cardinality(Occurrences(r, d)') <= Cardinality(Occurrences(r, d))
              BY <7>1, OccurrencesFinite
            <7>4. /\ Cardinality(Occurrences(r, d)) <= guard[r][d].legged + guard[r][d].lost
                  /\ guard[r][d].legged \in Nat /\ guard[r][d].lost \in Nat
              BY <1>0, <4>1 DEF Counted, Recorded, Guards, GuardShape
            <7> QED
              BY <7>2, <7>3, <7>4
          <6> QED
            BY <6>1, <6>2
        <5>10. Days' = Days
          BY DEF Days
        <5>11. Recorded(r)'
          BY <5>9, <5>10 DEF Recorded
        <5> QED
          BY <4>2, <4>3, <5>11 DEF Counted
      <4>6. CASE ~(proc[r].armed /\ OneLegged(r, held[r][hour]))
        <5>1. held[r][hour].legs \in {{}, Legs}
          BY <3>2, <3>4, <4>1, <4>6 DEF Counted, BuysArmed, OneLegged
        <5>2. guard'[r][Today] = guard[r][Today]
          BY <2>7, <4>6, EndWindowGuard
        <5>3. ASSUME NEW d \in Days PROVE guard'[r][d] = guard[r][d]
          BY <3>1, <5>2
        <5>4. \A d \in Days : Occurrences(r, d)' \subseteq Occurrences(r, d)
          BY <3>1, <3>2, <5>1 DEF Occurrences, Closed
        <5>5. Recorded(r)'
          BY <1>0, <3>1, <4>1, <5>3, <5>4, RecordedKept DEF Counted
        <5> QED
          BY <4>2, <4>3, <5>5 DEF Counted
      <4> QED
        BY <4>5, <4>6
    <3>5. ASSUME NEW s \in rosters, s # r, Reconciles(s) PROVE Counted(s)'
      BY <3>1, <3>2, <3>5, <1>S DEF AllCounted
    <3> QED
      BY <3>1, <3>4, <3>5 DEF AllCounted
  <2>8. CASE Corrupted(r)
    <3>1. UNCHANGED <<rosters, hour, proc, held, ledger>>
      BY <2>8 DEF Corrupted
    <3>2. \A s \in rosters, d \in Days : /\ guard'[s][d].legged = guard[s][d].legged
                                         /\ guard'[s][d].lost = guard[s][d].lost
      BY <2>8, CorruptedGuard
    <3> QED
      BY <3>1, <3>2, <1>S DEF AllCounted
  <2> QED
    BY <1>3, <2>1, <2>2, <2>3, <2>4, <2>5, <2>6, <2>7, <2>8 DEF RosterStep
<1>4. CASE Settles
  <2>1. UNCHANGED <<rosters, hour, proc, ledger, guard>>
    BY <1>4 DEF Settles
  <2>2. ASSUME NEW r \in rosters, Reconciles(r) PROVE Counted(r)'
    BY <1>0, <1>4, <2>1, <2>2, CountedKept DEF AllCounted, Settles
  <2> QED
    BY <2>1, <2>2 DEF AllCounted
<1>5. CASE GoesOn \/ S4BalanceCheck \/ trip
  <2>1. ServiceStep /\ UNCHANGED <<held, ledger>>
    BY <1>5 DEF GoesOn, S4BalanceCheck, trip, ServiceStep
  <2>2. UNCHANGED <<rosters, hour>> /\ \A r \in rosters : r # "v1" => proc'[r] = proc[r]
    BY <2>1, ServiceProc DEF V
  <2>3. ASSUME NEW r \in rosters, r # "v1", NEW d \in Days PROVE guard'[r][d] = guard[r][d]
    <3>1. V = "v1"
      BY DEF V
    <3>2. CASE GoesOn
      BY <3>2 DEF GoesOn
    <3>3. CASE S4BalanceCheck
      BY <2>3, <3>1, <3>3, S4Guard
    <3>4. CASE trip
      BY <2>3, <3>1, <3>4, TripGuard
    <3> QED
      BY <1>5, <3>2, <3>3, <3>4
  <2>4. ASSUME NEW r \in rosters, Reconciles(r) PROVE Counted(r)'
    <3>1. r # "v1" /\ Counted(r)
      BY <2>4 DEF Reconciles, AllCounted
    <3> QED
      BY <2>1, <2>2, <2>3, <3>1, <1>S
  <2> QED
    BY <2>2, <2>4 DEF AllCounted
<1> QED
  BY <1>1, <1>2, <1>3, <1>4, <1>5 DEF Step

\* The guards keep count of the occurrences.
LEMMA CountedTheorem == ServiceSpec => []AllCounted
<1>1. ServiceInit => AllCounted
  <2> SUFFICES ASSUME ServiceInit, NEW r \in rosters PROVE Counted(r)
    BY DEF AllCounted
  <2>0. Init /\ Shape
    BY InitShape DEF ServiceInit
  <2>1. ledger[r] = <<>> /\ proc[r] = Spawned(r)
    BY <2>0 DEF Init
  <2>2. \A h \in 1..Hours : held[r][h].legs = {}
    BY <2>0 DEF Init, Flat
  <2>3. \A d \in Days : guard[r][d].legged = 0 /\ guard[r][d].lost = 0
    BY <2>0 DEF Init, NewGuard
  <2>4. ~proc[r].armed
    BY <2>1 DEF Spawned, Idle
  <2>5. \A d \in Days : Occurrences(r, d) = {}
    BY <2>2 DEF Occurrences
  <2>6. Recorded(r)
    <3>1. Cardinality({}) = 0
      BY FS_EmptySet
    <3>2. \A d \in Days : Cardinality(Occurrences(r, d)) = 0
      BY <2>5, <3>1
    <3> QED
      BY <2>3, <3>2 DEF Recorded
  <2>7. RowsEnd(r)
    BY <2>1 DEF RowsEnd
  <2>8. BuysArmed(r)
    BY <2>0, <2>2 DEF BuysArmed, Shape, Clock
  <2> QED
    BY <2>4, <2>6, <2>7, <2>8 DEF Counted, Below
<1>2. Shape /\ AllCounted /\ [ServiceNext]_serviceVars => AllCounted'
  BY StepCases, CountedStep
<1> QED
  BY <1>1, <1>2, ShapeTheorem, PTL DEF ServiceSpec

\* v33/stops.py, S1: the guard is written before the row, so whatever is killed in between, a day with
\* Threshold one-legged windows arms no more, even those of which the core knew nothing -- but for the
\* occurrences whose record raised (run_v33.py main) and those that a damaged guard held when it was
\* rebuilt, of which each makes the day one window longer and no more.
THEOREM LeggedDayStopsTheorem == ServiceSpec => []LeggedDayStops
<1>1. Shape /\ AllCounted => LeggedDayStops
  <2> SUFFICES ASSUME Shape, AllCounted, NEW r \in rosters, Reconciles(r), proc[r].armed
               PROVE Cardinality(LeggedToday(r)) - guard[r][Today].lost < Threshold[r]
    BY DEF LeggedDayStops
  <2>1. Counted(r) /\ Clock /\ Guards /\ Today \in Days
    BY TodayDay DEF AllCounted, Shape
  <2>2. LeggedToday(r) \subseteq Occurrences(r, Today) /\ Occurrences(r, Today) \subseteq 1..Hours
    <3>1. 1..(hour - 1) \subseteq 1..Hours
      BY <2>1, AccountAssumption DEF Clock
    <3> QED
      BY <3>1 DEF LeggedToday, Occurrences
  <2>3. /\ Cardinality(LeggedToday(r)) \in Nat /\ Cardinality(Occurrences(r, Today)) \in Nat
        /\ Cardinality(LeggedToday(r)) <= Cardinality(Occurrences(r, Today))
    BY <2>2, OccurrencesFinite
  <2>4. /\ Cardinality(Occurrences(r, Today)) <= guard[r][Today].legged + guard[r][Today].lost
        /\ guard[r][Today].legged < Threshold[r]
    BY <2>1 DEF Counted, Recorded, Below
  <2>5. guard[r][Today].legged \in Nat /\ guard[r][Today].lost \in Nat /\ Threshold[r] \in Nat
    BY <2>1, AccountAssumption DEF Guards, GuardShape, Clock
  <2> QED
    BY <2>3, <2>4, <2>5
<1> QED
  BY <1>1, ShapeTheorem, CountedTheorem, PTL

-----------------------------------------------------------------------------
(* What the rows say *)

\* a row of an hour is written while its process ends, or later
RowsPast(r) ==
  \A i \in DOMAIN ledger[r] :
    ledger[r][i].kind \in {"window", "backfill"}
      => ledger[r][i].of \in 1..hour /\ (ledger[r][i].of = hour => proc[r].pc = "off")

\* an hour has one row
ClosedOnce(r) ==
  \A i, j \in DOMAIN ledger[r] :
    ledger[r][i].kind = "window" /\ ledger[r][j].kind = "window" /\ i # j
      => ledger[r][i].of # ledger[r][j].of

\* a row says what its window held and what its legs have paid
RowTells(r, row) ==
  /\ row.kind = "window" => Written(r, held[r][row.of], row)
  /\ row.kind = "backfill"
       => Paid(held[r][row.of], RowLegs(r, held[r][row.of]), RowFloor(r, held[r][row.of]), row)
  /\ row.kind \in {"torn", "glued"} => row.of = 0

RowsTell(r) == \A i \in DOMAIN ledger[r] : RowTells(r, ledger[r][i])

\* the core books what is held, what has settled has an outcome, and the first strategy holds no pin
HeldSound(r) ==
  \A h \in 1..Hours : /\ held[r][h].core \subseteq held[r][h].legs
                      /\ held[r][h].settled # {} => held[r][h].out # "open"
                      /\ r = V /\ held[r][h].src = "pin" => held[r][h].legs = {}

RowsSound(r) == RowsPast(r) /\ ClosedOnce(r) /\ RowsTell(r) /\ HeldSound(r)

AllSound == \A r \in rosters \ {"v32"} : RowsSound(r)

\* A step that adds no more than lines of no window.
LEMMA SoundKept ==
  ASSUME NEW r, RowsSound(r), hour' = hour, held'[r] = held[r],
         proc[r].pc = "off" => proc'[r].pc = "off",
         \A i \in DOMAIN ledger'[r] : \/ i \in DOMAIN ledger[r] /\ ledger'[r][i] = ledger[r][i]
                                      \/ ledger'[r][i] \in {Torn, Glued}
  PROVE  RowsSound(r)'
<1>K. /\ Torn.kind = "torn" /\ Torn.of = 0
      /\ Glued.kind = "glued" /\ Glued.of = 0
  BY DEF Torn, Glued, Row
<1>1. RowsPast(r)'
  BY <1>K DEF RowsSound, RowsPast
<1>2. ClosedOnce(r)'
  <2>1. ASSUME NEW i \in DOMAIN ledger'[r], ledger'[r][i].kind = "window"
        PROVE  i \in DOMAIN ledger[r] /\ ledger'[r][i] = ledger[r][i]
    BY <2>1, <1>K
  <2> QED
    BY <2>1 DEF RowsSound, ClosedOnce
<1>3. RowsTell(r)'
  <2>1. \A row : RowTells(r, row) => RowTells(r, row)'
    BY DEF RowTells
  <2>2. RowTells(r, Torn) /\ RowTells(r, Glued)
    BY <1>K DEF RowTells
  <2>3. \A i \in DOMAIN ledger'[r] : RowTells(r, ledger'[r][i])
    BY <2>2 DEF RowsSound, RowsTell
  <2> QED
    BY <2>1, <2>3 DEF RowsTell
<1>4. HeldSound(r)'
  BY DEF RowsSound, HeldSound
<1> QED
  BY <1>1, <1>2, <1>3, <1>4 DEF RowsSound

\* The row of a window, or of a settlement, that is written like this.
LEMMA SoundAppend ==
  ASSUME Ledgers, NEW r \in rosters, RowsSound(r), UNCHANGED <<rosters, hour, held>>,
         NEW row \in RowType, AppendRow(r, row), RowTells(r, row),
         row.kind \in {"window", "backfill"}, row.of \in 1..hour,
         row.of = hour => proc'[r].pc = "off", proc[r].pc = "off" => proc'[r].pc = "off",
         row.kind = "window"
           => \A i \in DOMAIN ledger[r] : ledger[r][i].kind = "window" => ledger[r][i].of # row.of
  PROVE  RowsSound(r)'
<1>K. /\ Torn.kind = "torn" /\ Torn.of = 0
      /\ Glued.kind = "glued" /\ Glued.of = 0
  BY DEF Torn, Glued, Row
<1>1. ledger'[r] = append_v33_ledger_row(ledger[r], row)
  BY AppendLedgers
<1>2. \A i \in DOMAIN ledger'[r] : \/ i \in DOMAIN ledger[r] /\ ledger'[r][i] = ledger[r][i]
                                   \/ ledger'[r][i] = row /\ i = Len(ledger[r]) + 1
                                   \/ ledger'[r][i] = Glued
  BY <1>1, AppendShape DEF Ledgers
<1>3. RowsPast(r)'
  BY <1>K, <1>2 DEF RowsSound, RowsPast
<1>4. ClosedOnce(r)'
  <2> SUFFICES ASSUME NEW i \in DOMAIN ledger'[r], NEW j \in DOMAIN ledger'[r], i # j,
                      ledger'[r][i].kind = "window", ledger'[r][j].kind = "window"
               PROVE  ledger'[r][i].of # ledger'[r][j].of
    BY DEF ClosedOnce
  <2>1. CASE i \in DOMAIN ledger[r] /\ ledger'[r][i] = ledger[r][i]
    <3>1. CASE j \in DOMAIN ledger[r] /\ ledger'[r][j] = ledger[r][j]
      BY <2>1, <3>1 DEF RowsSound, ClosedOnce
    <3>2. CASE ledger'[r][j] = row
      BY <2>1, <3>2
    <3> QED
      BY <1>K, <1>2, <3>1, <3>2
  <2>2. CASE ledger'[r][i] = row /\ i = Len(ledger[r]) + 1
    <3>1. CASE j \in DOMAIN ledger[r] /\ ledger'[r][j] = ledger[r][j]
      BY <2>2, <3>1
    <3> QED
      BY <1>K, <1>2, <2>2, <3>1
  <2> QED
    BY <1>K, <1>2, <2>1, <2>2
<1>5. RowsTell(r)'
  <2>1. \A line : RowTells(r, line) => RowTells(r, line)'
    BY DEF RowTells
  <2>2. RowTells(r, Glued)
    BY <1>K DEF RowTells
  <2>3. \A i \in DOMAIN ledger'[r] : RowTells(r, ledger'[r][i])
    BY <1>2, <2>2 DEF RowsSound, RowsTell
  <2> QED
    BY <2>1, <2>3 DEF RowsTell
<1>6. HeldSound(r)'
  BY DEF RowsSound, HeldSound
<1> QED
  BY <1>3, <1>4, <1>5, <1>6 DEF RowsSound

\* A step of the first strategy is one of a process that runs.
LEMMA ServiceRuns == ASSUME ServiceStep PROVE proc[V].pc # "off"
  BY DEF ServiceStep, At, prepare, _read_positions, _settlement_backfill_sweep, _reconcile_first,
     SkipsS4, parse_balance_unusable, S4BalanceCheck, _finalize_startup_failure, ChecksS4, Discovery,
     rotate_closed_journals, _gzip_one_crash_safe, GzipDone, _best_effort_remove, Rotates, execute,
     trip, WindowOver, flush, _finalize_v1

\* Every kind of step keeps the rows true to what the windows held and what the markets paid.
LEMMA SoundStep == ASSUME Shape, Step, AllCounted, AllSound PROVE AllSound'
<1>0. Shape' /\ Clock /\ Procs /\ Helds /\ Ledgers
  BY NextShape DEF Shape
<1>S. ASSUME UNCHANGED <<rosters, hour>>, NEW r \in rosters, r # "v32",
             held'[r] = held[r], ledger'[r] = ledger[r], proc[r].pc = "off" => proc'[r].pc = "off"
      PROVE RowsSound(r)'
  BY <1>S, SoundKept DEF AllSound
<1>1. CASE UNCHANGED serviceVars
  BY <1>1, <1>S DEF serviceVars, vars, AllSound
<1>2. CASE NextHour
  <2>1. /\ rosters' = rosters /\ hour' = hour + 1 /\ UNCHANGED <<held, ledger>>
    BY <1>2 DEF NextHour
  <2>2. SUFFICES ASSUME NEW r \in rosters, r # "v32" PROVE RowsSound(r)'
    BY <2>1 DEF AllSound
  <2>3. RowsSound(r)
    BY <2>2 DEF AllSound
  <2>4. RowsPast(r)'
    <3>1. ASSUME NEW i \in DOMAIN ledger[r], ledger[r][i].kind \in {"window", "backfill"}
          PROVE  ledger[r][i].of \in 1..(hour + 1) /\ ledger[r][i].of # hour + 1
      <4>1. ledger[r][i].of \in 1..hour /\ hour \in Nat
        BY <1>0, <2>3, <3>1, AccountAssumption DEF RowsSound, RowsPast, Clock
      <4> QED
        BY <4>1
    <3> QED
      BY <2>1, <3>1 DEF RowsPast
  <2>5. ClosedOnce(r)'
    BY <2>1, <2>3 DEF RowsSound, ClosedOnce
  <2>6. RowsTell(r)'
    BY <2>1, <2>3 DEF RowsSound, RowsTell, RowTells
  <2>7. HeldSound(r)'
    BY <2>1, <2>3 DEF RowsSound, HeldSound
  <2> QED
    BY <2>4, <2>5, <2>6, <2>7 DEF RowsSound
<1>3. ASSUME NEW r \in rosters, RosterStep(r) PROVE AllSound'
  <2>1. CASE Closes(r)
    <3>1. PICK row \in RowType :
            /\ row.kind = "window" /\ row.of = hour /\ AppendRow(r, row)
            /\ \/ Written(r, held[r][hour], row)
               \/ r # V /\ proc[r].pc = "sweep" /\ row = EmptyRow(hour)
      BY <2>1 DEF Closes
    <3>2. UNCHANGED <<rosters, hour, held>> /\ Stop(r) /\ proc[r].pc \in {"sweep", "append", "row"}
      BY <2>1 DEF Closes
    <3>3. proc'[r].pc = "off" /\ \A s \in rosters : s # r => proc'[s] = proc[s]
      BY <1>0, <3>2, StopShape
    <3>4. \A s \in rosters : s # r => ledger'[s] = ledger[s]
      BY <1>0, <3>1, <3>2, AppendLedgers
    <3>5. ASSUME r # "v32" PROVE RowsSound(r)'
      <4>1. RowsSound(r)
        BY <3>5 DEF AllSound
      <4>2. Written(r, held[r][hour], row)
        <5>1. CASE r # V /\ proc[r].pc = "sweep" /\ row = EmptyRow(hour)
          <6>1. held[r][hour].legs = {}
            BY <3>5, <5>1 DEF AllCounted, Counted, BuysArmed, Reconciles, V
          <6>2. held[r][hour].core = {}
            BY <1>0, <4>1, <6>1 DEF RowsSound, HeldSound, Clock
          <6>3. Cardinality(held[r][hour].core) = 0
            BY <6>2, FS_EmptySet
          <6> QED
            BY <5>1, <6>1, <6>2, <6>3 DEF EmptyRow, Row, Written, RowDelta, RowFloor, RowLegs,
               compute_ladder_money_math, v32_set_floor_dollars
        <5> QED
          BY <3>1, <5>1
      <4>3. RowTells(r, row)
        BY <3>1, <4>2 DEF RowTells
      <4>4. hour \in 1..hour
        BY <1>0, AccountAssumption DEF Clock
      <4>5. \A i \in DOMAIN ledger[r] : ledger[r][i].kind = "window" => ledger[r][i].of # row.of
        BY <3>1, <3>2, <4>1 DEF RowsSound, RowsPast
      <4> QED
        BY <1>0, <3>1, <3>2, <3>3, <4>1, <4>3, <4>4, <4>5, SoundAppend
    <3>6. ASSUME NEW s \in rosters, s # r, s # "v32" PROVE RowsSound(s)'
      BY <3>2, <3>3, <3>4, <3>6, <1>S
    <3> QED
      BY <3>2, <3>5, <3>6 DEF AllSound
  <2>2. CASE Backfills(r)
    <3>1. PICK row \in RowType, i \in DOMAIN ledger[r] :
            /\ row.kind = "backfill" /\ AppendRow(r, row)
            /\ ledger[r][i].kind = "window" /\ ledger[r][i].of = row.of
            /\ Paid(held[r][row.of], ledger[r][i].legs, ledger[r][i].floor, row)
      BY <2>2 DEF Backfills
    <3>2. UNCHANGED <<rosters, hour, proc, held>> /\ proc[r].pc # "off"
      BY <2>2 DEF Backfills
    <3>3. \A s \in rosters : s # r => ledger'[s] = ledger[s]
      BY <1>0, <3>1, <3>2, AppendLedgers
    <3>4. ASSUME r # "v32" PROVE RowsSound(r)'
      <4>1. RowsSound(r)
        BY <3>4 DEF AllSound
      <4>2. Written(r, held[r][row.of], ledger[r][i])
        BY <3>1, <4>1 DEF RowsSound, RowsTell, RowTells
      <4>3. RowTells(r, row)
        BY <3>1, <4>2 DEF RowTells, Written
      <4>4. row.of \in 1..hour /\ row.of # hour
        BY <3>1, <3>2, <4>1 DEF RowsSound, RowsPast
      <4> QED
        BY <1>0, <3>1, <3>2, <4>1, <4>3, <4>4, SoundAppend
    <3>5. ASSUME NEW s \in rosters, s # r, s # "v32" PROVE RowsSound(s)'
      BY <3>2, <3>3, <3>5, <1>S
    <3> QED
      BY <3>2, <3>4, <3>5 DEF AllSound
  <2>3. CASE Dies(r)
    <3>1. UNCHANGED <<rosters, hour, held>> /\ Stop(r)
      BY <2>3 DEF Dies
    <3>2. proc'[r].pc = "off" /\ \A s \in rosters : s # r => proc'[s] = proc[s]
      BY <1>0, <3>1, StopShape
    <3>3. /\ \A s \in rosters : s # r => ledger'[s] = ledger[s]
          /\ \A i \in DOMAIN ledger'[r] : \/ i \in DOMAIN ledger[r] /\ ledger'[r][i] = ledger[r][i]
                                          \/ ledger'[r][i] = Torn
      BY <1>0, <2>3, DiesLedgers
    <3>4. ASSUME r # "v32" PROVE RowsSound(r)'
      BY <3>1, <3>2, <3>3, <3>4, SoundKept DEF AllSound
    <3>5. ASSUME NEW s \in rosters, s # r, s # "v32" PROVE RowsSound(s)'
      BY <3>1, <3>2, <3>3, <3>5, <1>S
    <3> QED
      BY <3>1, <3>4, <3>5 DEF AllSound
  <2>4. CASE Ends(r)
    <3>1. PICK p \in HeldType : /\ p.settled = {} /\ p.core \subseteq p.legs
                                /\ r = V => p.src # "pin"
                                /\ held' = [held EXCEPT ![r][hour] = p]
      BY <2>4 DEF Ends
    <3>2. UNCHANGED <<rosters, hour, proc, ledger>> /\ proc[r].pc # "off"
      BY <2>4 DEF Ends
    <3>3. /\ \A s \in rosters : s # r => held'[s] = held[s]
          /\ \A h \in 1..Hours : h # hour => held'[r][h] = held[r][h]
          /\ held'[r][hour] = p
      BY <1>0, <3>1 DEF Helds, Clock
    <3>4. ASSUME r # "v32" PROVE RowsSound(r)'
      <4>1. RowsSound(r)
        BY <3>4 DEF AllSound
      <4>2. RowsPast(r)' /\ ClosedOnce(r)'
        BY <3>2, <4>1 DEF RowsSound, RowsPast, ClosedOnce
      <4>3. HeldSound(r)'
        BY <3>1, <3>3, <4>1 DEF RowsSound, HeldSound
      <4>4. ASSUME NEW i \in DOMAIN ledger[r] PROVE RowTells(r, ledger[r][i])'
        <5>1. RowTells(r, ledger[r][i]) /\ ledger'[r] = ledger[r]
          BY <3>2, <4>1 DEF RowsSound, RowsTell
        <5>2. CASE ledger[r][i].kind \in {"window", "backfill"}
          <6>1. ledger[r][i].of \in 1..hour /\ ledger[r][i].of # hour
            BY <3>2, <4>1, <5>2 DEF RowsSound, RowsPast
          <6>2. ledger[r][i].of \in 1..Hours
            BY <1>0, <6>1, AccountAssumption DEF Clock
          <6>3. held'[r][ledger[r][i].of] = held[r][ledger[r][i].of]
            BY <3>3, <6>1, <6>2
          <6> QED
            BY <5>1, <5>2, <6>3 DEF RowTells
        <5>3. CASE ledger[r][i].kind \notin {"window", "backfill"}
          BY <5>1, <5>3 DEF RowTells
        <5> QED
          BY <5>2, <5>3
      <4>5. RowsTell(r)'
        BY <3>2, <4>4 DEF RowsTell
      <4> QED
        BY <4>2, <4>3, <4>5 DEF RowsSound
    <3>5. ASSUME NEW s \in rosters, s # r, s # "v32" PROVE RowsSound(s)'
      BY <3>2, <3>3, <3>5, <1>S
    <3> QED
      BY <3>2, <3>4, <3>5 DEF AllSound
  <2>5. CASE Resolves(r)
    <3>1. PICK arms \in BOOLEAN : Resolve(r, arms)
      BY <2>5 DEF Resolves
    <3>2. UNCHANGED <<rosters, hour, held, ledger>> /\ proc[r].pc = "decide" /\ r # "v1"
      BY <2>5, <3>1 DEF Resolves, Resolve
    <3>3. \A s \in rosters : s # r => proc'[s] = proc[s]
      BY <3>1, <3>2, ResolveEffect
    <3> QED
      BY <3>2, <3>3, <1>S DEF AllSound
  <2>6. CASE ReadAccount(r)
    <3>1. UNCHANGED <<rosters, hour, held, ledger>>
      BY <2>6 DEF ReadAccount
    <3>2. proc[r].pc = "sweep" /\ \A s \in rosters : s # r => proc'[s] = proc[s]
      BY <2>6, ReadAccountEffect
    <3> QED
      BY <3>1, <3>2, <1>S DEF AllSound
  <2>7. CASE EndWindow(r)
    <3>1. UNCHANGED <<rosters, hour, held, ledger>>
      BY <2>7 DEF EndWindow
    <3>2. proc[r].pc = "window" /\ \A s \in rosters : s # r => proc'[s] = proc[s]
      BY <2>7, EndWindowEffect DEF EndWindow
    <3> QED
      BY <3>1, <3>2, <1>S DEF AllSound
  <2>8. CASE Corrupted(r)
    <3>1. UNCHANGED <<rosters, hour, proc, held, ledger>>
      BY <2>8 DEF Corrupted
    <3> QED
      BY <3>1, <1>S DEF AllSound
  <2> QED
    BY <1>3, <2>1, <2>2, <2>3, <2>4, <2>5, <2>6, <2>7, <2>8 DEF RosterStep
<1>4. CASE Settles
  <2>1. UNCHANGED <<rosters, hour, proc, ledger>>
    BY <1>4 DEF Settles
  <2>2. SUFFICES ASSUME NEW r \in rosters, r # "v32" PROVE RowsSound(r)'
    BY <2>1 DEF AllSound
  <2>3. RowsSound(r) /\ \A h \in 1..Hours : Settled(held[r][h], held'[r][h])
    BY <1>4, <2>2 DEF AllSound, Settles
  <2>4. RowsPast(r)' /\ ClosedOnce(r)'
    BY <2>1, <2>3 DEF RowsSound, RowsPast, ClosedOnce
  <2>5. HeldSound(r)'
    BY <2>3 DEF RowsSound, HeldSound, Settled
  <2>6. ASSUME NEW i \in DOMAIN ledger[r] PROVE RowTells(r, ledger[r][i])'
    <3> DEFINE row == ledger[r][i]
               p == held[r][row.of]
               new == held'[r][row.of]
    <3>1. RowTells(r, row) /\ ledger'[r] = ledger[r]
      BY <2>1, <2>3 DEF RowsSound, RowsTell
    <3>2. CASE row.kind \in {"window", "backfill"}
      <4>1. row.of \in 1..Hours
        BY <1>0, <2>3, <3>2, AccountAssumption DEF RowsSound, RowsPast, Clock
      <4>2. Settled(p, new) /\ (p.settled # {} => p.out # "open")
        BY <2>3, <4>1 DEF RowsSound, HeldSound
      <4>3. /\ RowLegs(r, new) = RowLegs(r, p) /\ RowFloor(r, new) = RowFloor(r, p)
            /\ RowDelta(r, new) = RowDelta(r, p)
        <5>1. new.legs = p.legs /\ new.src = p.src /\ new.price = p.price /\ new.core = p.core
          BY <4>2 DEF Settled
        <5> HIDE DEF p, new
        <5>2. matched_pairs(new) = matched_pairs(p)
          BY <5>1 DEF matched_pairs
        <5> QED
          BY <5>1, <5>2 DEF RowLegs, RowFloor, RowDelta, unsettled_legs, realized_at_close,
             compute_ladder_money_math, _compute_money_math
      <4>4. Written(r, p, row) => Written(r, new, row)
        BY <4>2, <4>3 DEF Written, Settled
      <4>5. Paid(p, RowLegs(r, p), RowFloor(r, p), row) => Paid(new, RowLegs(r, new), RowFloor(r, new), row)
        BY <4>2, <4>3 DEF Paid, Settled, SettledAll, fetch_market_result_v32
      <4> QED
        BY <3>1, <3>2, <4>4, <4>5 DEF RowTells
    <3>3. CASE row.kind \notin {"window", "backfill"}
      BY <3>1, <3>3 DEF RowTells
    <3> QED
      BY <3>2, <3>3
  <2>7. RowsTell(r)'
    BY <2>1, <2>6 DEF RowsTell
  <2> QED
    BY <2>4, <2>5, <2>7 DEF RowsSound
<1>5. CASE GoesOn \/ S4BalanceCheck \/ trip
  <2>1. ServiceStep /\ UNCHANGED <<held, ledger>>
    BY <1>5 DEF GoesOn, S4BalanceCheck, trip, ServiceStep
  <2>2. /\ UNCHANGED <<rosters, hour>> /\ \A r \in rosters : r # V => proc'[r] = proc[r]
        /\ proc[V].pc # "off"
    BY <2>1, ServiceProc, ServiceRuns
  <2> QED
    BY <2>1, <2>2, <1>S DEF AllSound
<1> QED
  BY <1>1, <1>2, <1>3, <1>4, <1>5 DEF Step

\* What a ledger has booked of an hour, when no more than two rows are about it.
LEMMA BookedTwo ==
  ASSUME NEW r, NEW h, IsFiniteSet(DOMAIN ledger[r]),
         \A i \in DOMAIN ledger[r] : ledger[r][i].delta \in Int,
         NEW a, NEW b, a # b, \A i \in DOMAIN ledger[r] \ {a, b} : ledger[r][i].of # h
  PROVE  Booked(r, h)
           = (IF a \in DOMAIN ledger[r] /\ ledger[r][a].of = h THEN ledger[r][a].delta ELSE 0)
             + (IF b \in DOMAIN ledger[r] /\ ledger[r][b].of = h THEN ledger[r][b].delta ELSE 0)
<1> DEFINE D == DOMAIN ledger[r]
           term(i) == IF ledger[r][i].of = h THEN ledger[r][i].delta ELSE 0
           f == [i \in D |-> term(i)]
           P(g) == g = [s \in SUBSET D |-> IF s = {} THEN 0
                        ELSE term(CHOOSE x \in s : TRUE) + g[s \ {CHOOSE x \in s : TRUE}]]
<1>1. Booked(r, h) = (CHOOSE g : P(g))[D]
  BY DEF Booked, MapThenSumSet, MapThenFoldSet
<1>2. ASSUME NEW s \in SUBSET D, s # {}
      PROVE  f[CHOOSE x \in s : TRUE] = term(CHOOSE x \in s : TRUE)
  <2>1. (CHOOSE x \in s : TRUE) \in D
    BY <1>2
  <2> QED
    BY <2>1
<1>3. ASSUME NEW g PROVE P(g) <=> IsSum(g, f, D)
  BY <1>2 DEF IsSum
<1>4. PICK g : /\ IsSum(g, f, D)
               /\ g[D] = (IF a \in D THEN f[a] ELSE 0) + (IF b \in D THEN f[b] ELSE 0)
  <2>1. /\ \A x \in D : f[x] \in Int
        /\ \A x \in D \ {a, b} : f[x] = 0
    OBVIOUS
  <2> HIDE DEF f, D
  <2> QED
    BY <2>1, SumOfTwo DEF D
<1>5. IsSum(CHOOSE k : P(k), f, D)
  <2>1. P(g)
    BY <1>3, <1>4
  <2> HIDE DEF P
  <2>2. P(CHOOSE k : P(k))
    BY <2>1
  <2> QED
    BY <2>2, <1>3
<1>6. (CHOOSE k : P(k)) = g
  BY <1>4, <1>5, SumUnique
<1> QED
  BY <1>1, <1>4, <1>6

\* What the ledger has booked of an hour that has its row.
LEMMA BookedClosed ==
  ASSUME Shape, BackfilledOnce, NEW r \in rosters, RowsSound(r), NEW h \in 1..Hours, Closed(r, h),
         NEW p, p = held[r][h]
  PROVE  /\ h \notin Done(ledger[r]) => Booked(r, h) = RowDelta(r, p)
         /\ h \in Done(ledger[r])
              => /\ RowLegs(r, p) # {} /\ RowLegs(r, p) \subseteq p.settled
                 /\ Booked(r, h) = RowDelta(r, p)
                                   + (settlement_payoff(p.src, RowLegs(r, p), p.out) - RowFloor(r, p))
         /\ Reconciles(r) /\ p.legs # {} /\ p.core = {} => Flagged(r, h)
<1>1. PICK a \in DOMAIN ledger[r] : ledger[r][a].kind = "window" /\ ledger[r][a].of = h
  BY DEF Closed
<1>2. Written(r, p, ledger[r][a])
  BY <1>1 DEF RowsSound, RowsTell, RowTells
<1>3. /\ \A i \in DOMAIN ledger[r] : ledger[r][i] \in RowType
      /\ DOMAIN ledger[r] = 1..Len(ledger[r]) /\ Len(ledger[r]) \in Nat
  BY DEF Shape, Ledgers
<1>4. \A i \in DOMAIN ledger[r] : ledger[r][i].delta \in Int
  BY <1>3 DEF RowType
<1>5. IsFiniteSet(DOMAIN ledger[r])
  BY <1>3, FS_Interval
<1>6. ASSUME NEW i \in DOMAIN ledger[r], ledger[r][i].of = h, i # a
      PROVE  ledger[r][i].kind = "backfill"
  <2>1. ledger[r][i].kind # "window"
    BY <1>1, <1>6 DEF RowsSound, ClosedOnce
  <2>2. ledger[r][i].kind \notin {"torn", "glued"}
    <3>1. RowTells(r, ledger[r][i])
      BY <1>6 DEF RowsSound, RowsTell
    <3>2. h # 0
      BY AccountAssumption
    <3> QED
      BY <1>6, <3>1, <3>2 DEF RowTells
  <2> QED
    BY <1>3, <1>6, <2>1, <2>2 DEF RowType
<1>7. CASE h \notin Done(ledger[r])
  <2>1. 0 \notin DOMAIN ledger[r] /\ a # 0
    BY <1>3
  <2>2. \A i \in DOMAIN ledger[r] \ {a, 0} : ledger[r][i].of # h
    BY <1>6, <1>7 DEF Done
  <2>3. Booked(r, h) = ledger[r][a].delta + 0
    BY <1>1, <1>4, <1>5, <2>1, <2>2, BookedTwo
  <2> QED
    BY <1>1, <1>2, <1>4, <1>7, <2>3 DEF Written, Flagged
<1>8. CASE h \in Done(ledger[r])
  <2>1. PICK b \in DOMAIN ledger[r] : ledger[r][b].kind = "backfill" /\ ledger[r][b].of = h
    BY <1>8 DEF Done
  <2>2. \A i \in DOMAIN ledger[r] \ {a, b} : ledger[r][i].of # h
    BY <1>6, <2>1 DEF BackfilledOnce
  <2>3. Booked(r, h) = ledger[r][a].delta + ledger[r][b].delta
    BY <1>1, <1>4, <1>5, <2>1, <2>2, BookedTwo
  <2>4. Paid(p, RowLegs(r, p), RowFloor(r, p), ledger[r][b])
    BY <2>1 DEF RowsSound, RowsTell, RowTells
  <2> QED
    BY <1>1, <1>2, <1>8, <2>3, <2>4 DEF Written, Flagged, Paid, SettledAll, fetch_market_result_v32
<1> QED
  BY <1>7, <1>8

\* The rows are true to what the windows held and what the markets paid.
LEMMA SoundTheorem == ServiceSpec => [](Shape /\ AllCounted /\ AllSound)
<1>1. ServiceInit => AllSound
  <2> SUFFICES ASSUME ServiceInit, NEW r \in rosters PROVE RowsSound(r)
    BY DEF AllSound
  <2>1. ledger[r] = <<>> /\ \A h \in 1..Hours : held[r][h] = Flat
    BY DEF ServiceInit, Init
  <2> QED
    BY <2>1 DEF RowsSound, RowsPast, ClosedOnce, RowsTell, HeldSound, Flat
<1>2. Shape /\ AllCounted /\ AllSound /\ [ServiceNext]_serviceVars => AllSound'
  BY StepCases, SoundStep
<1> QED
  BY <1>1, <1>2, ShapeTheorem, CountedTheorem, PTL DEF ServiceSpec

\* What legs pay is no less than nothing, and the two legs of a pair cannot both lose.
LEMMA PairPays ==
  ASSUME NEW p \in HeldType, NEW o \in Outcomes
  PROVE  realized_at_close(p) <= settlement_payoff(p.src, p.legs, o) - p.price * Cardinality(p.legs)
<1> DEFINE S == {g \in p.legs : Pays(p.src, g, o)}
<1>1. p.legs \subseteq Legs /\ S \subseteq p.legs
  BY DEF HeldType
<1>2. IsFiniteSet(S) /\ Cardinality(S) \in Nat /\ Cardinality(p.legs) \in Nat /\ p.price \in Nat
  BY <1>1, LegsFinite DEF HeldType
<1>3. settlement_payoff(p.src, p.legs, o) = Dollar * Cardinality(S)
  BY DEF settlement_payoff
<1>4. Dollar \in Nat /\ p.price * Cardinality(p.legs) \in Int
  BY <1>2, AccountAssumption
<1>5. CASE p.src # "strangle" /\ p.legs = {"yes", "no"}
  <2>1. S # {}
    BY <1>5 DEF Pays, LosesIn
  <2>2. Cardinality(S) # 0
    BY <1>2, <2>1, FS_EmptySet
  <2>3. Cardinality(S) >= 1 /\ matched_pairs(p) = 1
    BY <1>2, <1>5, <2>2 DEF matched_pairs
  <2> HIDE DEF S
  <2>4. Dollar * 1 <= Dollar * Cardinality(S)
    BY <1>2, <1>4, <2>3
  <2> QED
    BY <1>2, <1>3, <1>4, <1>5, <2>3, <2>4 DEF realized_at_close
<1>6. CASE ~(p.src # "strangle" /\ p.legs = {"yes", "no"})
  <2>1. realized_at_close(p) = 0 - p.price * Cardinality(p.legs)
    <3>1. CASE p.src = "strangle"
      BY <3>1 DEF realized_at_close
    <3>2. CASE p.src # "strangle"
      <4>1. matched_pairs(p) = 0 /\ Dollar * 0 = 0
        BY <1>4, <1>6, <3>2 DEF matched_pairs
      <4> QED
        BY <3>2, <4>1 DEF realized_at_close
    <3> QED
      BY <3>1, <3>2
  <2> HIDE DEF S
  <2>2. 0 <= Dollar * Cardinality(S)
    BY <1>2, <1>4
  <2>3. Dollar * Cardinality(S) \in Int
    BY <1>2, <1>4
  <2> QED
    BY <1>3, <1>4, <2>1, <2>2, <2>3
<1> QED
  BY <1>5, <1>6

\* run_window.py, _build_ledger_entry ("always in the SAFE direction"): through all the rows that are
\* torn, glued or written after a kill, the ledger never counts more for a window of the first strategy
\* than any outcome pays, and counts what it made once it is backfilled.
THEOREM BooksNoHopeTheorem == ServiceSpec => []BooksNoHope
<1>1. Shape /\ BackfilledOnce /\ AllSound => BooksNoHope
  <2> SUFFICES ASSUME Shape, BackfilledOnce, AllSound, Runs, NEW h \in 1..Hours, Closed(V, h),
                      NEW p, p = held[V][h]
               PROVE  /\ \A o \in Possible(p) : Booked(V, h) <= Truth([p EXCEPT !.out = o])
                      /\ h \in Done(ledger[V]) => Booked(V, h) = Truth(p)
    BY DEF BooksNoHope
  <2>1. V \in rosters /\ RowsSound(V) /\ p \in HeldType
    BY DEF Runs, AllSound, V, Shape, Helds
  <2>2. \A o : Truth([p EXCEPT !.out = o])
                 = settlement_payoff(p.src, p.legs, o) - p.price * Cardinality(p.legs)
    BY <2>1 DEF Truth, HeldType
  <2>3. RowDelta(V, p) = realized_at_close(p) /\ RowLegs(V, p) = unsettled_legs(p)
    BY DEF RowDelta, RowLegs
  <2>4. CASE h \notin Done(ledger[V])
    <3>1. Booked(V, h) = realized_at_close(p)
      BY <2>1, <2>3, <2>4, BookedClosed
    <3>2. Possible(p) \subseteq Outcomes
      BY <2>1 DEF Possible, HeldType
    <3> QED
      BY <2>1, <2>2, <2>4, <3>1, <3>2, PairPays
  <2>5. CASE h \in Done(ledger[V])
    <3>1. /\ RowLegs(V, p) # {} /\ RowLegs(V, p) \subseteq p.settled
          /\ Booked(V, h) = realized_at_close(p)
                            + (settlement_payoff(p.src, RowLegs(V, p), p.out) - RowFloor(V, p))
      BY <2>1, <2>3, <2>5, BookedClosed
    <3>2. RowLegs(V, p) = p.legs /\ ~(p.src = "flip" /\ matched_pairs(p) > 0)
      BY <2>3, <3>1 DEF unsettled_legs
    <3>3. p.out # "open"
      BY <2>1, <3>1 DEF RowsSound, HeldSound
    <3>4. Possible(p) = {p.out}
      BY <3>3 DEF Possible
    <3>5. /\ settlement_payoff(p.src, p.legs, p.out) \in Int
          /\ p.price * Cardinality(p.legs) \in Int
      <4>1. p.legs \subseteq Legs /\ p.price \in Nat
        BY <2>1 DEF HeldType
      <4>2. Cardinality(p.legs) \in Nat
        BY <4>1, LegsFinite
      <4> QED
        BY <4>1, <4>2, PayoffInt
    <3>6. realized_at_close(p) = RowFloor(V, p) - p.price * Cardinality(p.legs) /\ RowFloor(V, p) \in Int
      <4>1. matched_pairs(p) \in {0, 1} /\ Dollar \in Nat /\ Dollar * matched_pairs(p) \in Int
        BY AccountAssumption DEF matched_pairs
      <4>2. CASE p.src = "box"
        BY <4>1, <4>2 DEF realized_at_close, RowFloor
      <4>3. CASE p.src = "strangle"
        BY <4>3 DEF realized_at_close, RowFloor
      <4>4. CASE p.src \notin {"box", "strangle"}
        <5>1. CASE p.src = "flip"
          <6>1. matched_pairs(p) = 0 /\ Dollar * 0 = 0
            BY <3>2, <4>1, <5>1
          <6> QED
            BY <4>4, <6>1 DEF realized_at_close, RowFloor
        <5>2. CASE p.src = "pin"
          <6>1. p.legs = {}
            BY <2>1, <5>2 DEF RowsSound, HeldSound
          <6> QED
            BY <3>1, <3>2, <6>1
        <5> QED
          BY <2>1, <4>4, <5>1, <5>2 DEF HeldType
      <4> QED
        BY <4>2, <4>3, <4>4
    <3>7. Booked(V, h) = Truth(p)
      BY <3>1, <3>2, <3>5, <3>6 DEF Truth
    <3> QED
      BY <2>2, <3>4, <3>5, <3>7 DEF Truth
  <2> QED
    BY <2>4, <2>5
<1> QED
  BY <1>1, SoundTheorem, BackfilledOnceTheorem, PTL

\* v33/reconcile.py ("defence in depth"): a closed window of the ladder that has settled and is
\* backfilled has the money it made in the ledger, or its row is flagged, through kills, torn rows and
\* reconciliations that raise; but for the wing that filled after the core had stopped listening.
THEOREM LedgerTruthOrFlagTheorem == ServiceSpec => []LedgerTruthOrFlag
<1>1. Shape /\ BackfilledOnce /\ AllSound => LedgerTruthOrFlag
  <2> SUFFICES ASSUME Shape, BackfilledOnce, AllSound, NEW r \in rosters, NEW h \in 1..Hours,
                      NEW p, p = held[r][h], Reconciles(r), Closed(r, h),
                      p.core # {} => h \in Done(ledger[r]), p.core \in {{}, p.legs}, ~Flagged(r, h)
               PROVE  Booked(r, h) = Truth(p)
    BY DEF LedgerTruthOrFlag
  <2>1. RowsSound(r) /\ p \in HeldType /\ r # V
    BY DEF Reconciles, AllSound, V, Shape, Helds
  <2>2. /\ RowDelta(r, p) = compute_ladder_money_math(p) /\ RowLegs(r, p) = p.core
        /\ RowFloor(r, p) = v32_set_floor_dollars(Cardinality(p.core))
    BY <2>1 DEF RowDelta, RowLegs, RowFloor
  <2>3. p.legs \subseteq Legs /\ p.price \in Nat /\ Cardinality(p.legs) \in Nat
    BY <2>1, LegsFinite DEF HeldType
  <2>4. CASE p.core = {}
    <3>1. p.legs = {}
      BY <2>1, <2>4, BookedClosed
    <3>2. Booked(r, h) = 0
      BY <2>1, <2>2, <2>4, BookedClosed DEF compute_ladder_money_math
    <3>3. Truth(p) = 0
      <4>1. {g \in p.legs : Pays(p.src, g, p.out)} = {}
        BY <3>1
      <4>2. Cardinality({}) = 0
        BY FS_EmptySet
      <4>3. Dollar * 0 = 0 /\ p.price * 0 = 0
        BY <2>3, AccountAssumption
      <4> QED
        BY <3>1, <4>1, <4>2, <4>3 DEF Truth, settlement_payoff
    <3> QED
      BY <3>2, <3>3
  <2>5. CASE p.core # {}
    <3>1. p.core = p.legs /\ h \in Done(ledger[r])
      BY <2>5
    <3>2. Booked(r, h) = RowDelta(r, p) + (settlement_payoff(p.src, p.legs, p.out) - RowFloor(r, p))
      BY <2>1, <2>2, <3>1, BookedClosed
    <3>3. RowDelta(r, p) = v32_set_floor_dollars(Cardinality(p.legs)) - p.price * Cardinality(p.legs)
      BY <2>2, <2>5, <3>1 DEF compute_ladder_money_math, _compute_money_math
    <3>4. /\ settlement_payoff(p.src, p.legs, p.out) \in Int
          /\ v32_set_floor_dollars(Cardinality(p.legs)) \in Int /\ p.price * Cardinality(p.legs) \in Int
      BY <2>3, PayoffInt, FloorInt
    <3> QED
      BY <2>2, <3>1, <3>2, <3>3, <3>4 DEF Truth
  <2> QED
    BY <2>4, <2>5
<1> QED
  BY <1>1, SoundTheorem, BackfilledOnceTheorem, PTL

-----------------------------------------------------------------------------
(* The balance check of the first strategy *)

\* A sum is bounded by what grows by as much with each member.
LEMMA SumBound ==
  ASSUME NEW D, IsFiniteSet(D), NEW f, \A x \in D : f[x] \in Int, NEW g, IsSum(g, f, D),
         NEW c, \A s \in SUBSET D : c[s] \in Int, c[{}] >= 0,
         \A s \in SUBSET D : \A x \in s : c[s \ {x}] + f[x] <= c[s]
  PROVE  g[D] <= c[D]
<1> DEFINE T == {s \in SUBSET D : ~(g[s] \in Int /\ g[s] <= c[s])}
<1>1. ASSUME T # {} PROVE FALSE
  <2>1. PICK s \in T : \A u \in T : u \subseteq s => u = s
    <3>1. T \subseteq SUBSET D
      OBVIOUS
    <3> HIDE DEF T
    <3> QED
      BY <1>1, <3>1, SmallestSubset
  <2>2. s \in SUBSET D /\ ~(g[s] \in Int /\ g[s] <= c[s])
    BY <2>1
  <2>3. s # {}
    <3>1. g[{}] = 0 /\ c[{}] \in Int
      BY SumStep
    <3>2. s = {} => g[s] = g[{}] /\ c[s] = c[{}]
      OBVIOUS
    <3>3. s = {} => g[s] \in Int /\ g[s] <= c[s]
      BY <3>1, <3>2
    <3> QED
      BY <2>2, <3>3
  <2>4. PICK x \in s : g[s] = f[x] + g[s \ {x}]
    BY <2>2, <2>3, SumStep
  <2>5. s \ {x} \in SUBSET D /\ s \ {x} # s /\ s \ {x} \subseteq s
    BY <2>2
  <2>6. g[s \ {x}] \in Int /\ g[s \ {x}] <= c[s \ {x}]
    BY <2>1, <2>5
  <2>7. f[x] \in Int /\ c[s] \in Int /\ c[s \ {x}] \in Int /\ c[s \ {x}] + f[x] <= c[s]
    BY <2>2, <2>5
  <2> QED
    BY <2>2, <2>4, <2>6, <2>7
<1>2. D \notin T
  BY <1>1
<1> QED
  BY <1>2

\* the plan of the process, as it was made
PlanShape(p) ==
  /\ p = [mode |-> p.mode, corrupt |-> p.corrupt, swept |-> p.swept, pending |-> p.pending,
          stand_down |-> p.stand_down, file |-> p.file]
  /\ p.pending \subseteq (0..Hours) \X Legs

\* where a process has not traded yet
EarlyPcs == {"prepare", "positions", "backfill", "s4", "discover", "rotate"}

NotYet ==
  /\ \A h \in 1..Hours : h > hour => held[V][h].legs = {}
  /\ proc[V].pc \in EarlyPcs => held[V][hour].legs = {}

\* what the rows wait for, and the markets have not settled, is pending
Covers(pending) ==
  \A i \in Unsettled(ledger[V]) : \A leg \in ledger[V][i].legs :
    leg \notin held[V][ledger[V][i].of].settled => <<ledger[V][i].of, leg>> \in pending

PendingKept == proc[V].pc = "s4" /\ plan.swept /\ Loads(ledger[V]) => Covers(plan.pending)

CheckReady ==
  Runs => /\ PlanShape(plan) /\ NotYet /\ PendingKept
          /\ proc[V].pc = "positions" => ~plan.swept

\* A step of somebody else, or a market that settles.
LEMMA ReadyKept ==
  ASSUME Shape, AllSound, CheckReady, UNCHANGED <<rosters, hour>>,
         Runs => /\ proc'[V] = proc[V] /\ ledger'[V] = ledger[V]
                 /\ \A h \in 1..Hours : /\ held'[V][h].legs = held[V][h].legs
                                        /\ held[V][h].settled \subseteq held'[V][h].settled
  PROVE  CheckReady'
<1> SUFFICES ASSUME Runs PROVE /\ PlanShape(plan') /\ NotYet' /\ PendingKept'
                               /\ proc'[V].pc = "positions" => ~plan'.swept
  BY DEF CheckReady, Runs, PlanShape
<1>1. plan' = plan /\ proc'[V] = proc[V] /\ ledger'[V] = ledger[V]
  BY DEF plan
<1>2. NotYet'
  BY <1>1 DEF CheckReady, NotYet, Shape, Clock
<1>3. PendingKept'
  <2> SUFFICES ASSUME proc[V].pc = "s4", plan.swept, Loads(ledger[V]),
                      NEW i \in Unsettled(ledger[V]), NEW leg \in ledger[V][i].legs,
                      leg \notin held'[V][ledger[V][i].of].settled
               PROVE  <<ledger[V][i].of, leg>> \in plan.pending
    BY <1>1 DEF PendingKept, Covers
  <2>1. ledger[V][i].of \in 1..Hours
    <3>1. RowsPast(V)
      BY DEF AllSound, RowsSound, Runs, V
    <3> QED
      BY <3>1, AccountAssumption DEF RowsPast, Unsettled, Shape, Clock
  <2>2. leg \notin held[V][ledger[V][i].of].settled
    BY <2>1
  <2> QED
    BY <2>2 DEF CheckReady, PendingKept, Covers
<1> QED
  BY <1>1, <1>2, <1>3 DEF CheckReady

\* A step of the first strategy that only takes its process on.
LEMMA ReadyProceed ==
  ASSUME Shape, CheckReady, Runs, UNCHANGED <<rosters, hour, held, ledger>>,
         NEW pc \in ServicePcs, NEW p, NEW armed \in BOOLEAN, Proceed(pc, p, armed), PlanShape(p),
         pc \in EarlyPcs => proc[V].pc \in EarlyPcs,
         pc = "positions" => ~p.swept,
         pc = "s4" /\ p.swept /\ Loads(ledger[V]) => Covers(p.pending)
  PROVE  CheckReady'
<1>1. proc'[V].pc = pc /\ plan' = p
  BY ProceedShape DEF Shape, plan
<1>2. NotYet'
  BY <1>1 DEF CheckReady, NotYet
<1>3. PendingKept'
  BY <1>1 DEF PendingKept, Covers
<1> QED
  BY <1>1, <1>2, <1>3 DEF CheckReady, PlanShape

\* The plans of the first strategy.
LEMMA PlanShapes ==
  /\ PlanShape(NoPlan) /\ PlanShape([NoPlan EXCEPT !.stand_down = TRUE])
  /\ \A mode, corrupt : /\ PlanShape([NoPlan EXCEPT !.mode = mode, !.corrupt = corrupt])
                        /\ ~[NoPlan EXCEPT !.mode = mode, !.corrupt = corrupt].swept
  /\ \A p, x : PlanShape(p) => /\ PlanShape([p EXCEPT !.file = x])
                               /\ PlanShape([p EXCEPT !.stand_down = x, !.swept = TRUE])
<1>1. PlanShape(NoPlan)
  BY DEF PlanShape, NoPlan
<1>2. PlanShape([NoPlan EXCEPT !.stand_down = TRUE])
  <2>1. PICK q : q = [NoPlan EXCEPT !.stand_down = TRUE]
    OBVIOUS
  <2>2. q = [mode |-> "none", corrupt |-> FALSE, swept |-> FALSE, pending |-> {}, stand_down |-> TRUE,
             file |-> 0]
    BY <2>1 DEF NoPlan
  <2>3. PlanShape(q)
    BY <2>2 DEF PlanShape
  <2> QED
    BY <2>1, <2>3
<1>3. ASSUME NEW mode, NEW corrupt
      PROVE /\ PlanShape([NoPlan EXCEPT !.mode = mode, !.corrupt = corrupt])
            /\ ~[NoPlan EXCEPT !.mode = mode, !.corrupt = corrupt].swept
  <2>1. PICK q : q = [NoPlan EXCEPT !.mode = mode, !.corrupt = corrupt]
    OBVIOUS
  <2>2. PICK t : t = [NoPlan EXCEPT !.mode = mode]
    OBVIOUS
  <2>3. t = [mode |-> mode, corrupt |-> FALSE, swept |-> FALSE, pending |-> {}, stand_down |-> FALSE,
             file |-> 0]
    BY <2>2 DEF NoPlan
  <2>4. q = [t EXCEPT !.corrupt = corrupt]
    BY <2>1, <2>2 DEF NoPlan
  <2>5. q = [mode |-> mode, corrupt |-> corrupt, swept |-> FALSE, pending |-> {}, stand_down |-> FALSE,
             file |-> 0]
    BY <2>3, <2>4
  <2>6. PlanShape(q) /\ ~q.swept
    BY <2>5 DEF PlanShape
  <2> QED
    BY <2>1, <2>6
<1>4. ASSUME NEW p, NEW x, PlanShape(p)
      PROVE /\ PlanShape([p EXCEPT !.file = x])
            /\ PlanShape([p EXCEPT !.stand_down = x, !.swept = TRUE])
  <2>1. PICK q : q = [p EXCEPT !.file = x]
    OBVIOUS
  <2>2. q = [mode |-> p.mode, corrupt |-> p.corrupt, swept |-> p.swept, pending |-> p.pending,
             stand_down |-> p.stand_down, file |-> x]
    BY <1>4, <2>1 DEF PlanShape
  <2>3. PICK t : t = [p EXCEPT !.stand_down = x, !.swept = TRUE]
    OBVIOUS
  <2>4. t = [mode |-> p.mode, corrupt |-> p.corrupt, swept |-> TRUE, pending |-> p.pending,
             stand_down |-> x, file |-> p.file]
    BY <1>4, <2>3 DEF PlanShape
  <2>5. PlanShape(q) /\ PlanShape(t)
    BY <1>4, <2>2, <2>4 DEF PlanShape
  <2> QED
    BY <2>1, <2>3, <2>5
<1> QED
  BY <1>1, <1>2, <1>3, <1>4

\* A process of the first strategy that ends.
LEMMA ReadyStops ==
  ASSUME Shape, CheckReady, V \in rosters, Stop(V), UNCHANGED <<rosters, hour, held>>
  PROVE  CheckReady'
<1>1. proc'[V] = Idle
  BY DEF Stop, Shape, Procs
<1>2. plan' = NoPlan /\ proc'[V].pc = "off"
  BY <1>1 DEF plan, Idle
<1>3. PlanShape(plan') /\ PendingKept' /\ (proc'[V].pc = "positions" => ~plan'.swept)
  BY <1>2, PlanShapes DEF PendingKept
<1>4. NotYet'
  BY <1>2 DEF CheckReady, NotYet, Runs, EarlyPcs
<1> QED
  BY <1>3, <1>4 DEF CheckReady, PlanShape

\* The sweep of the rows leaves nothing out.
LEMMA SweepCovers ==
  ASSUME Shape, CheckReady, At("backfill"), NEW unread \in SUBSET AskedFor, NEW p,
         p = [plan EXCEPT !.pending = unread \cup {w \in AskedFor : ~_fetch_market_result(w)}]
  PROVE  PlanShape(p) /\ (Loads(ledger[V]) => Covers(p.pending))
<1>1. Runs /\ V \in rosters
  BY DEF At, Runs
<1>2. PICK P : P = unread \cup {w \in AskedFor : ~_fetch_market_result(w)}
  OBVIOUS
<1>3. AskedFor \subseteq (0..Hours) \X Legs
  <2> SUFFICES ASSUME NEW i \in Unsettled(ledger[V]) PROVE {ledger[V][i].of} \X ledger[V][i].legs \subseteq (0..Hours) \X Legs
    BY DEF AskedFor
  <2>1. ledger[V][i] \in RowType
    BY <1>1 DEF Shape, Ledgers, Unsettled
  <2> QED
    BY <2>1 DEF RowType
<1>4. p = [mode |-> plan.mode, corrupt |-> plan.corrupt, swept |-> plan.swept, pending |-> P,
           stand_down |-> plan.stand_down, file |-> plan.file]
  <2>1. PlanShape(plan)
    BY <1>1 DEF CheckReady
  <2> HIDE DEF plan
  <2> QED
    BY <1>2, <2>1 DEF PlanShape
<1>5. PlanShape(p)
  BY <1>2, <1>3, <1>4 DEF PlanShape
<1>6. ASSUME Loads(ledger[V]), NEW i \in Unsettled(ledger[V]), NEW leg \in ledger[V][i].legs,
             leg \notin held[V][ledger[V][i].of].settled
      PROVE  <<ledger[V][i].of, leg>> \in P
  <2>1. <<ledger[V][i].of, leg>> \in AskedFor
    BY <1>6 DEF AskedFor
  <2> QED
    BY <1>2, <1>6, <2>1 DEF _fetch_market_result
<1>7. p.pending = P
  BY <1>4
<1> QED
  BY <1>5, <1>6, <1>7 DEF Covers

\* The steps that only take the process of the first strategy on.
LEMMA ReadyService ==
  ASSUME Shape, CheckReady, ServiceStep, UNCHANGED <<rosters, hour, held, ledger>>
  PROVE  CheckReady'
<1>0. Procs /\ V = "v1"
  BY DEF Shape, V
<1>P. ASSUME Runs, NEW pc \in ServicePcs, NEW p, NEW armed, armed \in BOOLEAN, Proceed(pc, p, armed),
             PlanShape(p), pc \in EarlyPcs => proc[V].pc \in EarlyPcs,
             pc = "positions" => ~p.swept,
             pc = "s4" /\ p.swept /\ Loads(ledger[V]) => Covers(p.pending)
      PROVE CheckReady'
  BY <1>P, ReadyProceed
<1>B. Runs => proc[V].armed \in BOOLEAN
  BY <1>0 DEF Procs, ProcShape, Runs
<1>C. {"prepare", "positions", "backfill", "s4", "discover", "rotate", "trading", "flush", "row"}
        \subseteq ServicePcs
  BY DEF ServicePcs
<1>D. Runs => PlanShape(plan)
  BY DEF CheckReady
<1>E. ASSUME Runs, proc[V].pc \in EarlyPcs, StandDown PROVE CheckReady'
  <2>1. Proceed("rotate", [NoPlan EXCEPT !.stand_down = TRUE], FALSE)
    BY <1>E DEF StandDown
  <2>2. PICK p : p = [NoPlan EXCEPT !.stand_down = TRUE]
    OBVIOUS
  <2> QED
    BY <1>E, <2>1, <2>2, <1>P, <1>C, PlanShapes
<1>F. ASSUME Runs, NEW pc \in {"discover", "rotate", "trading", "flush", "row"}, NEW armed,
             armed \in BOOLEAN, Proceed(pc, NoPlan, armed),
             pc \in EarlyPcs => proc[V].pc \in EarlyPcs
      PROVE  CheckReady'
  BY <1>F, <1>P, <1>C, PlanShapes
<1>1. CASE prepare
  <2>1. Runs /\ proc[V].pc = "prepare"
    BY <1>1 DEF prepare, At
  <2>2. CASE StandDown
    BY <2>1, <2>2, <1>E DEF EarlyPcs
  <2>3. CASE ~StandDown
    <3>1. PICK mode \in {"armed", "dry", "shakedown"}, s5 \in arming_check, caps \in _caps_agree :
            Proceed("positions", [NoPlan EXCEPT !.mode = mode,
                               !.corrupt = mode # "shakedown" /\ guard[V][Today].corrupt],
                    mode = "armed" /\ s5 /\ caps /\ ~DayHalted(guard[V][Today]))
      BY <1>1, <2>3 DEF prepare
    <3>2. PICK armed \in BOOLEAN : armed = (mode = "armed" /\ s5 /\ caps /\ ~DayHalted(guard[V][Today]))
      OBVIOUS
    <3>3. PICK p : p = [NoPlan EXCEPT !.mode = mode,
                               !.corrupt = mode # "shakedown" /\ guard[V][Today].corrupt]
      OBVIOUS
    <3>4. PlanShape(p) /\ ~p.swept
      BY <3>3, PlanShapes
    <3>5. Proceed("positions", p, armed)
      BY <3>1, <3>2, <3>3
    <3> QED
      BY <2>1, <3>4, <3>5, <1>P, <1>C DEF EarlyPcs
  <2> QED
    BY <2>2, <2>3
<1>2. CASE _read_positions
  <2>1. Runs /\ proc[V].pc = "positions"
    BY <1>2 DEF _read_positions, At
  <2>2. CASE StandDown
    BY <2>1, <2>2, <1>E DEF EarlyPcs
  <2>3. CASE Proceed("s4", plan, FALSE)
    <3>1. ~plan.swept
      BY <2>1 DEF CheckReady
    <3> HIDE DEF plan
    <3> QED
      BY <2>1, <2>3, <3>1, <1>P, <1>C, <1>D DEF EarlyPcs
  <2>4. CASE \E inherited : Proceed("backfill", [plan EXCEPT !.stand_down = inherited, !.swept = TRUE],
                                   proc[V].armed)
    <3>1. PICK inherited : Proceed("backfill", [plan EXCEPT !.stand_down = inherited, !.swept = TRUE],
                                   proc[V].armed)
      BY <2>4
    <3> HIDE DEF plan
    <3>2. PICK p : p = [plan EXCEPT !.stand_down = inherited, !.swept = TRUE]
      OBVIOUS
    <3>3. PlanShape(p)
      BY <2>1, <3>2, <1>D, PlanShapes
    <3> QED
      BY <2>1, <3>1, <3>2, <3>3, <1>P, <1>B, <1>C DEF EarlyPcs
  <2> QED
    BY <1>2, <2>2, <2>3, <2>4 DEF _read_positions
<1>3. CASE _settlement_backfill_sweep
  <2>1. Runs /\ UNCHANGED proc
    BY <1>3 DEF _settlement_backfill_sweep, At
  <2>2. PlanShape(plan)' /\ NotYet' /\ PendingKept' /\ (proc'[V].pc = "positions" => ~plan'.swept)
    BY <2>1 DEF CheckReady, PlanShape, NotYet, PendingKept, Covers, plan
  <2> QED
    BY <2>2 DEF CheckReady, PlanShape, plan
<1>4. CASE _reconcile_first
  <2>1. At("backfill") /\ Runs /\ proc[V].pc = "backfill"
    BY <1>4 DEF _reconcile_first, At
  <2>2. CASE StandDown
    BY <2>1, <2>2, <1>E DEF EarlyPcs
  <2>3. CASE ~StandDown
    <3>1. PICK unread \in SUBSET {w \in AskedFor : _fetch_market_result(w)} :
             Proceed("s4", [plan EXCEPT !.pending = unread \cup {w \in AskedFor :
                                                                    ~_fetch_market_result(w)}],
                       proc[V].armed)
      BY <1>4, <2>3 DEF _reconcile_first
    <3>2. PICK p : p = [plan EXCEPT !.pending = unread \cup {w \in AskedFor : ~_fetch_market_result(w)}]
      OBVIOUS
    <3>3. PlanShape(p) /\ (Loads(ledger[V]) => Covers(p.pending))
      <4>1. unread \in SUBSET AskedFor
        OBVIOUS
      <4> HIDE DEF plan
      <4> QED
        BY <2>1, <3>2, <4>1, SweepCovers
    <3> QED
      BY <2>1, <3>1, <3>2, <3>3, <1>P, <1>B, <1>C DEF EarlyPcs
  <2> QED
    BY <2>2, <2>3
<1>5. CASE SkipsS4
  <2>1. Runs /\ proc[V].pc = "s4" /\ Proceed("discover", NoPlan, proc[V].armed)
    BY <1>5 DEF SkipsS4, At
  <2> QED
    BY <2>1, <1>F, <1>B DEF EarlyPcs
<1>6. CASE parse_balance_unusable
  <2>1. Runs /\ proc[V].pc = "s4" /\ Proceed("discover", NoPlan, FALSE)
    BY <1>6 DEF parse_balance_unusable, ChecksS4, At
  <2> QED
    BY <2>1, <1>F DEF EarlyPcs
<1>7. CASE S4BalanceCheck
  <2>1. Runs /\ proc[V].pc = "s4"
    BY <1>7 DEF S4BalanceCheck, ChecksS4, At
  <2>2. PICK kind : Proceed("discover", NoPlan, proc[V].armed /\ kind = "clear")
    BY <1>7 DEF S4BalanceCheck
  <2>3. PICK armed \in BOOLEAN : armed = (proc[V].armed /\ kind = "clear")
    OBVIOUS
  <2> QED
    BY <2>1, <2>2, <2>3, <1>F DEF EarlyPcs
<1>8. CASE _finalize_startup_failure
  <2>1. Runs /\ Proceed("flush", NoPlan, FALSE)
    BY <1>8 DEF _finalize_startup_failure, ChecksS4, At
  <2> QED
    BY <2>1, <1>F DEF EarlyPcs
<1>9. CASE Discovery
  <2>1. Runs /\ proc[V].pc = "discover"
    BY <1>9 DEF Discovery, At
  <2>2. StandDown \/ Proceed("rotate", NoPlan, proc[V].armed)
    BY <1>9 DEF Discovery
  <2> QED
    BY <2>1, <2>2, <1>E, <1>F, <1>B DEF EarlyPcs
<1>10. CASE rotate_closed_journals
  <2>1. Runs
    BY <1>10 DEF rotate_closed_journals, Rotates, At
  <2>2. \/ Proceed("flush", NoPlan, proc[V].armed)
        \/ Proceed("trading", NoPlan, proc[V].armed)
    BY <1>10 DEF rotate_closed_journals
  <2> QED
    BY <2>1, <2>2, <1>F, <1>B DEF EarlyPcs
<1>11. ASSUME NEW h \in 1..Hours, _gzip_one_crash_safe(h) \/ GzipDone(h) \/ _best_effort_remove(h)
       PROVE CheckReady'
  <2>1. Runs /\ proc[V].pc = "rotate"
    BY <1>11 DEF _gzip_one_crash_safe, GzipDone, _best_effort_remove, Rotates, At
  <2>2. \E x : Proceed("rotate", [plan EXCEPT !.file = x], proc[V].armed)
    BY <1>11 DEF _gzip_one_crash_safe, GzipDone, _best_effort_remove, Work
  <2>3. PICK x : Proceed("rotate", [plan EXCEPT !.file = x], proc[V].armed)
    BY <2>2
  <2> HIDE DEF plan
  <2>4. PICK p : p = [plan EXCEPT !.file = x]
    OBVIOUS
  <2>5. PlanShape(p)
    BY <2>1, <2>4, <1>D, PlanShapes
  <2> QED
    BY <2>1, <2>3, <2>4, <2>5, <1>P, <1>B, <1>C DEF EarlyPcs
<1>12. CASE WindowOver \/ flush
  <2>1. Runs /\ (Proceed("flush", NoPlan, FALSE) \/ Proceed("row", NoPlan, FALSE))
    BY <1>12 DEF WindowOver, flush, At
  <2> QED
    BY <2>1, <1>F DEF EarlyPcs
<1>13. CASE execute
  <2>1. Runs /\ UNCHANGED proc
    BY <1>13 DEF execute, At
  <2> QED
    BY <2>1 DEF CheckReady, PlanShape, NotYet, PendingKept, Covers, plan, Runs
<1>14. CASE _finalize_v1
  <2>1. V \in rosters /\ Stop(V)
    BY <1>14 DEF _finalize_v1, At, Runs
  <2> QED
    BY <2>1, ReadyStops
<1>15. CASE trip
  <2>1. /\ Runs /\ V \in rosters /\ proc[V].pc = "trading" /\ UNCHANGED <<rosters, hour, held, ledger>>
        /\ proc' = [proc EXCEPT ![V].armed = FALSE]
    BY <1>15 DEF trip, At, Runs
  <2>2. proc'[V].pc = "trading" /\ plan' = plan
    BY <1>0, <2>1 DEF Procs, ProcShape, plan
  <2>3. PlanShape(plan) /\ NotYet
    BY <2>1 DEF CheckReady
  <2>4. NotYet' /\ PendingKept' /\ (proc'[V].pc = "positions" => ~plan'.swept)
    BY <2>1, <2>2, <2>3 DEF NotYet, PendingKept, EarlyPcs
  <2> QED
    BY <2>2, <2>3, <2>4 DEF CheckReady, PlanShape
<1> QED
  BY <1>1, <1>2, <1>3, <1>4, <1>5, <1>6, <1>7, <1>8, <1>9, <1>10, <1>11, <1>12, <1>13, <1>14, <1>15
     DEF ServiceStep

\* Every kind of step leaves the first strategy with the rows that it waits for in its plan.
LEMMA ReadyStep == ASSUME Shape, Step, AllSound, CheckReady PROVE CheckReady'
<1>0. Clock /\ Procs /\ Helds /\ Ledgers /\ V = "v1" /\ (V \in rosters <=> Runs)
  BY DEF Shape, V, Runs
<1>1. CASE UNCHANGED serviceVars
  BY <1>1, ReadyKept DEF serviceVars, vars
<1>2. CASE NextHour
  <2>1. /\ rosters' = rosters /\ hour' = hour + 1 /\ UNCHANGED <<held, ledger>> /\ hour \in Nat
        /\ proc' = [r \in rosters |-> Spawned(r)]
    BY <1>0, <1>2, AccountAssumption DEF NextHour, Clock
  <2>2. SUFFICES ASSUME Runs PROVE /\ PlanShape(plan') /\ NotYet' /\ PendingKept'
                                   /\ proc'[V].pc = "positions" => ~plan'.swept
    BY <2>1 DEF CheckReady, PlanShape, Runs
  <2>3. proc'[V].pc = "prepare" /\ plan' = NoPlan
    BY <1>0, <2>1, <2>2 DEF Spawned, Idle, plan
  <2>4. NotYet'
    <3>1. NotYet /\ hour + 1 \in 1..Hours
      <4>1. hour < MaxHour[rosters] /\ MaxHour[rosters] \in 1..Hours
        BY <1>0, <1>2, AccountAssumption DEF NextHour, Clock
      <4> QED
        BY <2>1, <2>2, <4>1, AccountAssumption DEF CheckReady
    <3>2. \A h \in 1..Hours : h > hour + 1 => held[V][h].legs = {}
      BY <2>1, <3>1 DEF NotYet
    <3>3. held[V][hour + 1].legs = {}
      BY <2>1, <3>1 DEF NotYet
    <3> QED
      BY <2>1, <3>2, <3>3 DEF NotYet
  <2> QED
    BY <2>3, <2>4, PlanShapes DEF PendingKept
<1>3. ASSUME NEW r \in rosters, RosterStep(r) PROVE CheckReady'
  <2>0. UNCHANGED <<rosters, hour>>
    BY <1>3 DEF RosterStep, Closes, Backfills, Dies, Resolves, Resolve, Ends, ReadAccount, EndWindow,
       Corrupted
  <2>A. ASSUME Runs => /\ proc'[V] = proc[V] /\ ledger'[V] = ledger[V]
                       /\ \A h \in 1..Hours : /\ held'[V][h].legs = held[V][h].legs
                                              /\ held[V][h].settled \subseteq held'[V][h].settled
        PROVE  CheckReady'
    BY <2>0, <2>A, ReadyKept
  <2>1. CASE Closes(r)
    <3>1. UNCHANGED held /\ Stop(r) /\ \E row \in RowType : AppendRow(r, row)
      BY <2>1 DEF Closes
    <3>2. \A s \in rosters : s # r => proc'[s] = proc[s] /\ ledger'[s] = ledger[s]
      BY <1>0, <2>0, <3>1, StopShape, AppendLedgers
    <3>3. CASE r = V
      BY <2>0, <3>1, <3>3, ReadyStops
    <3>4. CASE r # V
      BY <1>0, <3>1, <3>2, <3>4, <2>A
    <3> QED
      BY <3>3, <3>4
  <2>2. CASE Backfills(r)
    <3>1. UNCHANGED <<proc, held>> /\ \E row \in RowType : AppendRow(r, row)
      BY <2>2 DEF Backfills
    <3>2. \A s \in rosters : s # r => ledger'[s] = ledger[s]
      BY <1>0, <2>0, <3>1, AppendLedgers
    <3>3. CASE r = V
      <4>1. proc[V].pc = "backfill"
        BY <1>0, <2>2, <3>3 DEF Backfills, Procs, ProcShape, ServicePcs
      <4>2. PlanShape(plan) /\ NotYet
        BY <1>0, <3>3 DEF CheckReady
      <4>3. UNCHANGED plan
        BY <3>1 DEF plan
      <4>4. NotYet'
        BY <2>0, <3>1, <4>2 DEF NotYet
      <4>5. PendingKept' /\ (proc'[V].pc = "positions" => ~plan'.swept)
        BY <3>1, <4>1 DEF PendingKept
      <4> QED
        BY <4>2, <4>3, <4>4, <4>5 DEF CheckReady, PlanShape
    <3>4. CASE r # V
      BY <1>0, <3>1, <3>2, <3>4, <2>A
    <3> QED
      BY <3>3, <3>4
  <2>3. CASE Dies(r)
    <3>1. UNCHANGED held /\ Stop(r)
      BY <2>3 DEF Dies
    <3>2. \A s \in rosters : s # r => proc'[s] = proc[s] /\ ledger'[s] = ledger[s]
      BY <1>0, <2>0, <2>3, <3>1, StopShape, DiesLedgers
    <3>3. CASE r = V
      BY <2>0, <3>1, <3>3, ReadyStops
    <3>4. CASE r # V
      BY <1>0, <3>1, <3>2, <3>4, <2>A
    <3> QED
      BY <3>3, <3>4
  <2>4. CASE Ends(r)
    <3>1. PICK p \in HeldType : held' = [held EXCEPT ![r][hour] = p]
      BY <2>4 DEF Ends
    <3>2. UNCHANGED <<proc, ledger>> /\ proc[r].pc \in {"window", "trading"}
      BY <2>4 DEF Ends
    <3>3. /\ \A s \in rosters : s # r => held'[s] = held[s]
          /\ \A h \in 1..Hours : h # hour => held'[r][h] = held[r][h]
      BY <1>0, <3>1 DEF Helds, Clock
    <3>4. CASE r = V
      <4>1. proc[V].pc = "trading"
        BY <1>0, <3>2, <3>4 DEF Procs, ProcShape, ServicePcs
      <4>2. PlanShape(plan) /\ NotYet
        BY <1>0, <3>4 DEF CheckReady
      <4>3. UNCHANGED plan
        BY <3>2 DEF plan
      <4>4. NotYet'
        <5>1. ASSUME NEW h \in 1..Hours, h > hour PROVE held'[V][h].legs = {}
          <6>1. h # hour
            BY <1>0, <5>1, AccountAssumption DEF Clock
          <6> QED
            BY <3>3, <3>4, <4>2, <5>1, <6>1 DEF NotYet
        <5> QED
          BY <2>0, <3>2, <4>1, <5>1 DEF NotYet, EarlyPcs
      <4>5. PendingKept' /\ (proc'[V].pc = "positions" => ~plan'.swept)
        BY <3>2, <4>1 DEF PendingKept
      <4> QED
        BY <4>2, <4>3, <4>4, <4>5 DEF CheckReady, PlanShape
    <3>5. CASE r # V
      BY <1>0, <3>2, <3>3, <3>5, <2>A
    <3> QED
      BY <3>4, <3>5
  <2>5. CASE Resolves(r)
    <3>1. PICK arms \in BOOLEAN : Resolve(r, arms)
      BY <2>5 DEF Resolves
    <3>2. UNCHANGED <<held, ledger>> /\ r # V
      BY <1>0, <2>5, <3>1 DEF Resolves, Resolve
    <3>3. \A s \in rosters : s # r => proc'[s] = proc[s]
      BY <2>5, <3>1, ResolveEffect DEF Resolves
    <3> QED
      BY <1>0, <3>2, <3>3, <2>A
  <2>6. CASE ReadAccount(r)
    <3>1. UNCHANGED <<held, ledger>> /\ r # V
      BY <1>0, <2>6 DEF ReadAccount
    <3>2. \A s \in rosters : s # r => proc'[s] = proc[s]
      BY <2>6, ReadAccountEffect
    <3> QED
      BY <1>0, <3>1, <3>2, <2>A
  <2>7. CASE EndWindow(r)
    <3>1. UNCHANGED <<held, ledger>> /\ r # V
      BY <1>0, <2>7 DEF EndWindow, Procs, ProcShape, ServicePcs
    <3>2. \A s \in rosters : s # r => proc'[s] = proc[s]
      BY <2>7, EndWindowEffect
    <3> QED
      BY <1>0, <3>1, <3>2, <2>A
  <2>8. CASE Corrupted(r)
    <3>1. UNCHANGED <<proc, held, ledger>>
      BY <2>8 DEF Corrupted
    <3> QED
      BY <3>1, <2>A
  <2> QED
    BY <1>3, <2>1, <2>2, <2>3, <2>4, <2>5, <2>6, <2>7, <2>8 DEF RosterStep
<1>4. CASE Settles
  <2>1. UNCHANGED <<rosters, hour, proc, ledger>>
    BY <1>4 DEF Settles
  <2>2. Runs => \A h \in 1..Hours : /\ held'[V][h].legs = held[V][h].legs
                                    /\ held[V][h].settled \subseteq held'[V][h].settled
    BY <1>0, <1>4 DEF Settles, Settled
  <2> QED
    BY <2>1, <2>2, ReadyKept
<1>5. CASE GoesOn \/ S4BalanceCheck \/ trip
  <2>1. ServiceStep /\ UNCHANGED <<held, ledger>>
    BY <1>5 DEF GoesOn, S4BalanceCheck, trip, ServiceStep
  <2>2. UNCHANGED <<rosters, hour>>
    BY <2>1, ServiceProc
  <2> QED
    BY <2>1, <2>2, ReadyService
<1> QED
  BY <1>1, <1>2, <1>3, <1>4, <1>5 DEF Step

\* The most that legs can pay is a dollar for each of them.
LEMMA MostPaid ==
  ASSUME NEW p \in HeldType, NEW S, S \subseteq Legs
  PROVE  LET m == Max({settlement_payoff(p.src, S, o) : o \in Possible(p)})
         IN m \in Int /\ m <= Dollar * Cardinality(S)
<1> DEFINE pay(o) == settlement_payoff(p.src, S, o)
           M == {pay(o) : o \in Possible(p)}
<1>1. ASSUME NEW o PROVE pay(o) \in Int /\ pay(o) <= Dollar * Cardinality(S)
  <2>1. {g \in S : Pays(p.src, g, o)} \in SUBSET S /\ IsFiniteSet(S)
    BY LegsFinite
  <2>2. PICK n \in Nat : n = Cardinality({g \in S : Pays(p.src, g, o)})
    BY <2>1, FS_Subset, FS_CardinalityType
  <2>3. PICK k \in Nat : k = Cardinality(S)
    BY LegsFinite
  <2>4. n <= k
    BY <2>1, <2>2, <2>3, FS_Subset
  <2>5. Dollar * n \in Int /\ Dollar * n <= Dollar * k
    BY <2>4, AccountAssumption
  <2> QED
    BY <2>2, <2>3, <2>5 DEF settlement_payoff
<1>2. Possible(p) # {} /\ Possible(p) \subseteq {"below", "inside", "above"}
  BY AccountAssumption DEF Possible, HeldType
<1> HIDE DEF pay
<1>3. \E o \in Possible(p) : \A u \in Possible(p) : pay(o) >= pay(u)
  <2>1. PICK a \in Int, b \in Int, c \in Int : a = pay("below") /\ b = pay("inside") /\ c = pay("above")
    BY <1>1
  <2>2. \A o \in Possible(p) : /\ o = "below" => pay(o) = a
                               /\ o = "inside" => pay(o) = b
                               /\ o = "above" => pay(o) = c
    BY <2>1
  <2>3. \A o \in Possible(p) : pay(o) \in Int
    BY <1>1
  <2> QED
    BY <1>2, <2>1, <2>2, <2>3
<1>4. \E m \in M : \A n \in M : m >= n
  BY <1>3
<1>5. Max(M) = CHOOSE m \in M : \A n \in M : m >= n
  BY DEF Max
<1>6. Max(M) \in M
  <2> HIDE DEF M
  <2> QED
    BY <1>4, <1>5
<1>7. PICK o \in Possible(p) : Max(M) = pay(o)
  BY <1>6
<1>8. M = {settlement_payoff(p.src, S, out) : out \in Possible(p)}
  BY DEF pay
<1> QED
  BY <1>1, <1>7, <1>8

\* What is still open of the hours of today is pending when the balance is checked.
LEMMA OpenIsPending ==
  ASSUME Shape, AllSound, CheckReady, Runs, SeesPending, proc[V].pc = "s4",
         NEW h \in 1..Hours, DayOf[h] = Today, NEW leg \in held[V][h].legs \ held[V][h].settled
  PROVE  <<h, leg>> \in plan.pending
<1>1. NotYet /\ PendingKept
  BY DEF CheckReady
<1>2. h \in 1..(hour - 1)
  <2>1. ~(h > hour) /\ h # hour
    BY <1>1 DEF NotYet, EarlyPcs
  <2> QED
    BY <2>1, AccountAssumption DEF Shape, Clock
<1>3. PICK i \in Unsettled(ledger[V]) : ledger[V][i].of = h
  BY <1>2 DEF SeesPending
<1>4. i \in DOMAIN ledger[V] /\ ledger[V][i].kind = "window" /\ ledger[V][i].legs # {}
  BY <1>3 DEF Unsettled
<1>5. ledger[V][i].legs = unsettled_legs(held[V][h])
  <2>1. RowTells(V, ledger[V][i])
    BY <1>4 DEF AllSound, Runs, V, RowsSound, RowsTell
  <2> QED
    BY <1>3, <1>4, <2>1 DEF RowTells, Written, RowLegs
<1>6. ledger[V][i].legs = held[V][h].legs
  BY <1>4, <1>5 DEF unsettled_legs
<1>7. Covers(plan.pending)
  BY <1>1 DEF PendingKept, SeesPending
<1> QED
  BY <1>3, <1>6, <1>7 DEF Covers

\* The pending value is no less than the best case.
LEMMA BestCaseBound ==
  ASSUME Shape, AllSound, CheckReady, Runs, SeesPending, proc[V].pc = "s4"
  PROVE  /\ BestCase \in Int /\ s4_pending_value(plan.pending) \in Int
         /\ BestCase <= s4_pending_value(plan.pending)
<1> DEFINE D == {h \in 1..Hours : DayOf[h] = Today}
           open(h) == held[V][h].legs \ held[V][h].settled
           term(h) == LET p == held[V][h]
                      IN Max({settlement_payoff(p.src, p.legs \ p.settled, o) : o \in Possible(p)})
           f == [h \in D |-> term(h)]
           P(g) == g = [s \in SUBSET D |-> IF s = {} THEN 0
                        ELSE term(CHOOSE x \in s : TRUE) + g[s \ {CHOOSE x \in s : TRUE}]]
           W == {w \in plan.pending : DayOf[w[1]] = Today}
           At1(s) == {w \in W : w[1] \in s}
           c == [s \in SUBSET D |-> Dollar * Cardinality(At1(s))]
<1>1. BestCase = (CHOOSE g : P(g))[D]
  BY DEF BestCase, MapThenSumSet, MapThenFoldSet
<1>2. IsFiniteSet(D)
  <2>1. IsFiniteSet(1..Hours) /\ D \in SUBSET (1..Hours)
    BY FS_Interval, AccountAssumption
  <2> QED
    BY <2>1, FS_Subset
<1>3. IsFiniteSet(W)
  <2>1. W \in SUBSET ((0..Hours) \X Legs)
    BY DEF CheckReady, PlanShape
  <2>2. IsFiniteSet(0..Hours) /\ IsFiniteSet(Legs)
    BY FS_Interval, LegsFinite, AccountAssumption
  <2>3. IsFiniteSet((0..Hours) \X Legs)
    BY <2>2, FS_Product
  <2> HIDE DEF W
  <2> QED
    BY <2>1, <2>3, FS_Subset
<1>4. ASSUME NEW h \in D
      PROVE  /\ open(h) \subseteq Legs /\ {h} \X open(h) \subseteq W
             /\ f[h] \in Int /\ f[h] <= Dollar * Cardinality(open(h))
  <2>1. PICK p : p = held[V][h]
    OBVIOUS
  <2>2. p \in HeldType /\ open(h) = p.legs \ p.settled
    BY <2>1 DEF Shape, Helds, Runs
  <2>3. open(h) \subseteq Legs
    BY <2>2 DEF HeldType
  <2>4. \A leg \in open(h) : <<h, leg>> \in W
    BY OpenIsPending
  <2>5. /\ Max({settlement_payoff(p.src, p.legs \ p.settled, o) : o \in Possible(p)}) \in Int
        /\ Max({settlement_payoff(p.src, p.legs \ p.settled, o) : o \in Possible(p)})
             <= Dollar * Cardinality(p.legs \ p.settled)
    BY <2>2, <2>3, MostPaid
  <2>6. f[h] = Max({settlement_payoff(p.src, p.legs \ p.settled, o) : o \in Possible(p)})
    BY <2>1
  <2>7. {h} \X open(h) \subseteq W
    <3> HIDE DEF open, W
    <3> QED
      BY <2>4
  <2>8. f[h] \in Int /\ f[h] <= Dollar * Cardinality(open(h))
    <3> HIDE DEF open, f
    <3> QED
      BY <2>2, <2>5, <2>6
  <2> HIDE DEF open, f, W
  <2> QED
    BY <2>3, <2>7, <2>8
<1>5. ASSUME NEW s \in SUBSET D
      PROVE  IsFiniteSet(At1(s)) /\ Cardinality(At1(s)) \in Nat
  <2>1. At1(s) \in SUBSET W
    OBVIOUS
  <2> HIDE DEF At1, W
  <2> QED
    BY <1>3, <2>1, FS_Subset, FS_CardinalityType
<1>6. ASSUME NEW s \in SUBSET D, NEW x \in s
      PROVE  c[s \ {x}] + f[x] <= c[s]
  <2> DEFINE B == {x} \X open(x)
             A == At1(s \ {x})
  <2>1. x \in D /\ s \ {x} \in SUBSET D
    OBVIOUS
  <2>2. B \subseteq W /\ open(x) \subseteq Legs
    BY <1>4, <2>1
  <2>3. A \cup B \in SUBSET At1(s) /\ A \cap B = {}
    BY <2>2
  <2>4. /\ IsFiniteSet(open(x)) /\ IsFiniteSet({x}) /\ Cardinality({x}) = 1
        /\ Cardinality(open(x)) \in Nat
    BY <2>2, LegsFinite, FS_Singleton
  <2>5. IsFiniteSet(B) /\ Cardinality(B) = Cardinality(open(x))
    <3> HIDE DEF open
    <3>1. IsFiniteSet(B) /\ Cardinality(B) = Cardinality({x}) * Cardinality(open(x))
      BY <2>4, FS_Product
    <3> QED
      BY <2>4, <3>1
  <2>6. IsFiniteSet(A) /\ Cardinality(A) \in Nat /\ IsFiniteSet(At1(s)) /\ Cardinality(At1(s)) \in Nat
    BY <1>5, <2>1
  <2>7. Cardinality(A) + Cardinality(open(x)) <= Cardinality(At1(s))
    <3> HIDE DEF A, B, At1, open
    <3>1. Cardinality(A \cup B) = Cardinality(A) + Cardinality(B) - Cardinality(A \cap B)
      BY <2>5, <2>6, FS_Union
    <3>2. Cardinality(A \cap B) = 0
      BY <2>3, FS_EmptySet
    <3>3. Cardinality(A \cup B) <= Cardinality(At1(s))
      BY <2>3, <2>6, FS_Subset
    <3> QED
      BY <2>4, <2>5, <2>6, <3>1, <3>2, <3>3
  <2>8. c[s] = Dollar * Cardinality(At1(s)) /\ c[s \ {x}] = Dollar * Cardinality(A)
    BY <2>1
  <2>9. f[x] \in Int /\ f[x] <= Dollar * Cardinality(open(x))
    BY <1>4, <2>1
  <2> HIDE DEF A, At1, c, f, open
  <2>10. PICK a \in Nat, b \in Nat, n \in Nat :
           a = Cardinality(A) /\ b = Cardinality(open(x)) /\ n = Cardinality(At1(s))
    BY <2>4, <2>6
  <2>11. Dollar * a \in Int /\ Dollar * b \in Int /\ Dollar * n \in Int /\ Dollar * a + Dollar * b <= Dollar * n
    <3>1. a + b <= n /\ Dollar \in Nat
      BY <2>7, <2>10, AccountAssumption
    <3>2. Dollar * (a + b) <= Dollar * n
      BY <3>1
    <3>3. Dollar * (a + b) = Dollar * a + Dollar * b
      BY <3>1
    <3> QED
      BY <3>1, <3>2, <3>3
  <2> QED
    BY <2>8, <2>9, <2>10, <2>11
<1>7. (\A s \in SUBSET D : c[s] \in Int) /\ c[{}] >= 0
  <2>1. ASSUME NEW s \in SUBSET D PROVE c[s] \in Int /\ c[s] >= 0
    <3>1. c[s] = Dollar * Cardinality(At1(s))
      OBVIOUS
    <3>2. PICK k \in Nat : k = Cardinality(At1(s))
      BY <1>5
    <3>3. Dollar * k \in Int /\ Dollar * k >= 0
      BY AccountAssumption
    <3> HIDE DEF At1, c
    <3> QED
      BY <3>1, <3>2, <3>3
  <2> HIDE DEF c, D
  <2> QED
    BY <2>1
<1>8. /\ s4_pending_value(plan.pending) \in Int
      /\ c[D] <= s4_pending_value(plan.pending)
  <2>1. At1(D) \in SUBSET W
    OBVIOUS
  <2>2. PICK k \in Nat, n \in Nat : k = Cardinality(At1(D)) /\ n = Cardinality(W)
    BY <1>3, <1>5, FS_CardinalityType
  <2>3. k <= n
    <3> HIDE DEF At1, W
    <3> QED
      BY <1>3, <2>1, <2>2, FS_Subset
  <2>4. Dollar * k <= Dollar * n /\ Dollar * k \in Int /\ Dollar * n \in Int
    BY <2>3, AccountAssumption
  <2>5. s4_pending_value(plan.pending) = Dollar * Cardinality(W)
    BY DEF s4_pending_value
  <2>6. c[D] = Dollar * Cardinality(At1(D))
    OBVIOUS
  <2> QED
    BY <2>2, <2>4, <2>5, <2>6
<1>9. ASSUME NEW s \in SUBSET D, s # {}
      PROVE  f[CHOOSE x \in s : TRUE] = term(CHOOSE x \in s : TRUE)
  <2>1. (CHOOSE x \in s : TRUE) \in D
    BY <1>9
  <2> HIDE DEF term
  <2> QED
    BY <2>1
<1>10. ASSUME NEW g PROVE P(g) <=> IsSum(g, f, D)
  <2> HIDE DEF D, f, term
  <2> QED
    BY <1>9 DEF IsSum
<1>11. \A x \in D : f[x] \in Int
  BY <1>4
<1> HIDE DEF D, f, c, P
<1>12. \E k : P(k)
  BY <1>2, <1>10, SumExists
<1>13. P(CHOOSE k : P(k))
  BY <1>12
<1>14. PICK g : g = (CHOOSE k : P(k))
  OBVIOUS
<1>15. IsSum(g, f, D) /\ BestCase = g[D]
  BY <1>1, <1>10, <1>13, <1>14
<1>16. g[D] \in Int
  BY <1>2, <1>11, <1>15, SumInt
<1>17. g[D] <= c[D]
  BY <1>2, <1>6, <1>7, <1>11, <1>15, SumBound
<1>18. c[D] \in Int
  BY <1>7
<1> QED
  BY <1>8, <1>15, <1>16, <1>17, <1>18

\* run_window.py prepare, S4 (the 16:40Z incident): a latch is only written for a loss that the legs
\* still to settle cannot undo, even when some of them are missing in the positions read.
THEOREM LatchMeansLostTheorem == ServiceSpec => LatchMeansLost
<1>1. ServiceInit => CheckReady
  <2> SUFFICES ASSUME ServiceInit, Runs
               PROVE  PlanShape(plan) /\ NotYet /\ PendingKept /\ (proc[V].pc = "positions" => ~plan.swept)
    BY DEF CheckReady
  <2>1. proc[V].pc = "prepare" /\ plan = NoPlan
    BY DEF ServiceInit, Init, Runs, V, Spawned, Idle, plan
  <2>2. \A h \in 1..Hours : held[V][h] = Flat
    BY DEF ServiceInit, Init, Runs
  <2>3. hour \in 1..Hours
    BY AccountAssumption DEF ServiceInit, Init
  <2>4. NotYet
    BY <2>2, <2>3 DEF NotYet, Flat
  <2> QED
    BY <2>1, <2>4, PlanShapes DEF PendingKept
<1>2. Shape /\ AllSound /\ CheckReady /\ [ServiceNext]_serviceVars => CheckReady'
  BY StepCases, ReadyStep
<1>3. Shape /\ AllSound /\ CheckReady /\ [ServiceNext]_serviceVars
        => [Runs /\ guard'[V][Today].s4 /\ ~guard[V][Today].s4 /\ SeesPending
              => guard'[V][Today].start - (Balance + BestCase) >= Cap]_serviceVars
  <2> SUFFICES ASSUME Shape, AllSound, CheckReady, [ServiceNext]_serviceVars, Runs,
                      guard'[V][Today].s4, ~guard[V][Today].s4, SeesPending
               PROVE  guard'[V][Today].start - (Balance + BestCase) >= Cap
    OBVIOUS
  <2>1. V \in rosters /\ Today \in Days
    BY TodayDay DEF Runs, Shape
  <2>2. S4BalanceCheck
    <3>1. CASE UNCHANGED serviceVars \/ NextHour \/ Settles \/ GoesOn
      BY <3>1 DEF serviceVars, vars, NextHour, Settles, GoesOn
    <3>2. ASSUME NEW r \in rosters, RosterStep(r) PROVE FALSE
      <4>1. CASE ReadAccount(r)
        BY <2>1, <4>1, ReadAccountGuard
      <4>2. CASE Corrupted(r)
        BY <2>1, <4>2, CorruptedGuard
      <4>3. CASE EndWindow(r)
        <5>1. r # V
          BY <4>3, EndWindowEffect DEF V
        <5>2. guard'[V][Today] = guard[V][Today]
          BY <2>1, <4>3, <5>1, EndWindowGuard
        <5> QED
          BY <5>2
      <4>4. CASE Closes(r) \/ Backfills(r) \/ Dies(r) \/ Resolves(r) \/ Ends(r)
        BY <4>4 DEF Closes, Backfills, Dies, Resolves, Resolve, Ends
      <4> QED
        BY <3>2, <4>1, <4>2, <4>3, <4>4 DEF RosterStep
    <3>3. CASE trip
      BY <3>3, TripGuard
    <3>4. Step
      BY StepCases
    <3> QED
      BY <3>1, <3>2, <3>3, <3>4 DEF Step
  <2>3. guard'[V][Today].start - (Balance + s4_pending_value(plan.pending)) >= Cap /\ Guards'
    BY <2>2, S4Guard
  <2>4. BestCase \in Int /\ s4_pending_value(plan.pending) \in Int
        /\ BestCase <= s4_pending_value(plan.pending)
    <3>1. proc[V].pc = "s4"
      BY <2>2 DEF S4BalanceCheck, ChecksS4, At
    <3> QED
      BY <3>1, BestCaseBound
  <2>5. Balance \in Int /\ Cap \in Int
    BY BalanceInt, AccountAssumption DEF Shape
  <2>6. guard'[V][Today].start \in Int
    <3>1. rosters' = rosters
      BY <2>2 DEF S4BalanceCheck
    <3> QED
      BY <2>1, <2>3, <3>1 DEF Guards, GuardShape
  <2> QED
    BY <2>3, <2>4, <2>5, <2>6
<1> QED
  BY <1>1, <1>2, <1>3, SoundTheorem, PTL DEF ServiceSpec, LatchMeansLost
=============================================================================
