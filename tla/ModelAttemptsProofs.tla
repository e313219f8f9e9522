------------------------ MODULE ModelAttemptsProofs ------------------------
(***************************************************************************)
(* Proofs about the credential group (Quota) and the model call            *)
(* (ModelAttempts).                                                        *)
(***************************************************************************)
EXTENDS ModelAttempts, FiniteSetTheorems, WellFoundedInduction, TLAPS

-----------------------------------------------------------------------------
(* Sums over finite sets *)

\* What the library's sum over a set is made of: the next index, and the
\* table it is read from.
Pick(s) == CHOOSE x \in s : TRUE
SumStep(f, g, s) == IF s = {} THEN 0 ELSE f[Pick(s)] + g[s \ {Pick(s)}]
IsTable(f, S, g) == g = [s \in SUBSET S |-> SumStep(f, g, s)]

\* A set of numbers has a least one.
LEMMA LeastNumber ==
  ASSUME NEW T, T \subseteq Nat, T # {}
  PROVE  \E n \in T : \A m \in T : ~(m < n)
<1>1. IsWellFoundedOn(OpToRel(<, Nat), Nat)
  BY NatLessThanWellFounded
<1>2. \E n \in T : \A m \in T : ~(<<m, n>> \in OpToRel(<, Nat))
  BY <1>1, WFMin
<1>3. \A m, n \in Nat : m < n => <<m, n>> \in OpToRel(<, Nat)
  BY DEF OpToRel
<1> QED BY <1>2, <1>3

\* Among subsets of a finite set there is a smallest one.
LEMMA SmallestSet ==
  ASSUME NEW S, IsFiniteSet(S), NEW T, T \subseteq SUBSET S, T # {}
  PROVE  \E t \in T : \A u \in T : u \subseteq t => u = t
<1>1. IsWellFoundedOn(StrictSubsetOrdering(S), FiniteSubsetsOf(S))
  BY FS_StrictSubsetOrderingWellFounded
<1>2. FiniteSubsetsOf(S) = SUBSET S
  BY FS_FiniteSubsetsOfFinite
<1>3. \E t \in T : \A u \in T : ~(<<u, t>> \in StrictSubsetOrdering(S))
  BY <1>1, <1>2, WFMin
<1>4. \A u, t \in SUBSET S : u \subseteq t /\ u # t => <<u, t>> \in StrictSubsetOrdering(S)
  BY DEF StrictSubsetOrdering
<1> QED BY <1>3, <1>4

\* Pick is an element.
LEMMA PickIn ==
  ASSUME NEW s, s # {} PROVE Pick(s) \in s
BY DEF Pick

\* The table that the sum is read from exists, by a smallest set without one.
LEMMA SumTable ==
  ASSUME NEW f, NEW S, IsFiniteSet(S)
  PROVE  \E g : g = [s \in SUBSET S |-> SumStep(f, g, s)]
<1> DEFINE Level(n) == {s \in SUBSET S : Cardinality(s) <= n}
           Good(n) == \E g : g = [s \in Level(n) |-> SumStep(f, g, s)]
           Bad == {n \in Nat : ~Good(n)}
<1>0. \A s \in SUBSET S : IsFiniteSet(s) /\ Cardinality(s) \in Nat /\ Cardinality(s) <= Cardinality(S)
  BY FS_Subset, FS_CardinalityType
<1>1. Good(0)
  <2>1. Level(0) = {{}}
    BY <1>0, FS_EmptySet
  <2>2. [s \in Level(0) |-> 0] = [s \in Level(0) |-> SumStep(f, [t \in Level(0) |-> 0], s)]
    BY <2>1 DEF SumStep
  <2> QED BY <2>2
<1>2. \A n \in Nat : Good(n) => Good(n + 1)
  <2> SUFFICES ASSUME NEW n \in Nat, Good(n) PROVE Good(n + 1)
    OBVIOUS
  <2>1. PICK g : g = [s \in Level(n) |-> SumStep(f, g, s)]
    OBVIOUS
  <2> DEFINE h == [s \in Level(n + 1) |-> SumStep(f, g, s)]
  <2>2. ASSUME NEW s \in Level(n + 1) PROVE SumStep(f, g, s) = SumStep(f, h, s)
    <3>1. CASE s = {}
      BY <3>1 DEF SumStep
    <3>2. CASE s # {}
      <4> DEFINE t == s \ {Pick(s)}
      <4>1. Pick(s) \in s
        BY <3>2, PickIn
      <4>2. IsFiniteSet(s) /\ Cardinality(s) \in Nat /\ Cardinality(s) <= n + 1
        BY <1>0
      <4>3. Cardinality(t) = Cardinality(s) - 1
        BY <4>1, <4>2, FS_RemoveElement
      <4>4. t \in SUBSET S /\ Cardinality(t) \in Nat
        BY <1>0
      <4>5. t \in Level(n) /\ t \in Level(n + 1)
        BY <4>2, <4>3, <4>4
      <4>6. g[t] = SumStep(f, g, t)
        <5> HIDE DEF t
        <5> QED BY <2>1, <4>5
      <4>7. h[t] = SumStep(f, g, t)
        <5> HIDE DEF t
        <5> QED BY <4>5
      <4> QED BY <4>6, <4>7 DEF SumStep
    <3> QED BY <3>1, <3>2
  <2>3. h = [s \in Level(n + 1) |-> SumStep(f, h, s)]
    <3> DEFINE k == [s \in Level(n + 1) |-> SumStep(f, h, s)]
    <3>1. DOMAIN h = Level(n + 1) /\ DOMAIN k = Level(n + 1)
      OBVIOUS
    <3>2. \A s \in Level(n + 1) : h[s] = k[s]
      BY <2>2
    <3> QED BY <2>2
  <2> HIDE DEF h
  <2> QED BY <2>3
<1>3. Bad = {}
  <2> SUFFICES ASSUME Bad # {} PROVE FALSE
    OBVIOUS
  <2>1. PICK n \in Bad : \A m \in Bad : ~(m < n)
    <3>1. Bad \subseteq Nat
      OBVIOUS
    <3> HIDE DEF Bad
    <3> QED BY <3>1, LeastNumber
  <2>2. n # 0
    <3> HIDE DEF Good
    <3> QED BY <1>1
  <2>3. n - 1 \in Nat /\ n - 1 < n /\ (n - 1) + 1 = n
    BY <2>2
  <2>4. Good(n - 1)
    <3> HIDE DEF Good
    <3> QED BY <2>1, <2>3
  <2>5. Good((n - 1) + 1)
    <3> HIDE DEF Good
    <3> QED BY <1>2, <2>3, <2>4
  <2> HIDE DEF Good
  <2> QED BY <2>3, <2>5
<1>4. Good(Cardinality(S))
  <2>1. Cardinality(S) \in Nat
    BY FS_CardinalityType
  <2> HIDE DEF Good
  <2> QED BY <1>3, <2>1
<1>5. Level(Cardinality(S)) = SUBSET S
  BY <1>0
<1> HIDE DEF Level
<1> QED BY <1>4, <1>5

\* The sum over a set is the entry of such a table.
LEMMA SumReads ==
  ASSUME NEW f, NEW S, IsFiniteSet(S)
  PROVE  \E g : /\ IsTable(f, S, g)
                /\ SumFunctionOnSet(f, S) = g[S]
<1> DEFINE Next(g, s) == IF s = {} THEN 0
                         ELSE f[CHOOSE x \in s : TRUE] + g[s \ {CHOOSE x \in s : TRUE}]
           h == CHOOSE g : g = [s \in SUBSET S |-> Next(g, s)]
<1>1. \A g, s : SumStep(f, g, s) = Next(g, s)
  BY DEF SumStep, Pick
<1>2. \E g : g = [s \in SUBSET S |-> Next(g, s)]
  <2>1. PICK g : g = [s \in SUBSET S |-> SumStep(f, g, s)]
    BY SumTable
  <2>2. g = [s \in SUBSET S |-> Next(g, s)]
    <3> HIDE DEF Next
    <3> QED BY <2>1, <1>1
  <2> HIDE DEF Next
  <2> QED BY <2>2
<1>3. h = [s \in SUBSET S |-> Next(h, s)]
  <2> HIDE DEF Next
  <2> QED BY <1>2
<1>4. SumFunctionOnSet(f, S) = h[S]
  BY DEF SumFunctionOnSet, FoldFunctionOnSet, MapThenFoldSet
<1>5. h = [s \in SUBSET S |-> SumStep(f, h, s)]
  <2> HIDE DEF Next, h
  <2> QED BY <1>1, <1>3
<1> HIDE DEF h
<1> QED BY <1>4, <1>5 DEF IsTable

\* Two functions with the same values on a set have the same sum over it, read
\* from whatever table.
LEMMA TablesAgree ==
  ASSUME NEW f, NEW e, NEW S, IsFiniteSet(S), NEW R, S \subseteq R,
         \A x \in S : e[x] = f[x],
         NEW g, IsTable(f, S, g),
         NEW h, IsTable(e, R, h)
  PROVE  \A s \in SUBSET S : g[s] = h[s]
<1> DEFINE Bad == {s \in SUBSET S : g[s] # h[s]}
<1> SUFFICES ASSUME Bad # {} PROVE FALSE
  OBVIOUS
<1>1. PICK s \in Bad : \A u \in Bad : u \subseteq s => u = s
  <2>1. Bad \subseteq SUBSET S
    OBVIOUS
  <2> HIDE DEF Bad
  <2> QED BY <2>1, SmallestSet
<1>2. s \in SUBSET S /\ s \in SUBSET R
  OBVIOUS
<1>3. g[s] = SumStep(f, g, s) /\ h[s] = SumStep(e, h, s)
  BY <1>2 DEF IsTable
<1>4. SumStep(f, g, s) = SumStep(e, h, s)
  <2>1. CASE s = {}
    BY <2>1 DEF SumStep
  <2>2. CASE s # {}
    <3>1. Pick(s) \in s
      BY <2>2, PickIn
    <3>2. e[Pick(s)] = f[Pick(s)]
      BY <3>1, <1>2
    <3>3. g[s \ {Pick(s)}] = h[s \ {Pick(s)}]
      BY <1>1, <1>2, <3>1
    <3> QED BY <3>2, <3>3 DEF SumStep
  <2> QED BY <2>1, <2>2
<1> QED BY <1>3, <1>4

\* The sum depends only on the values it adds.
LEMMA SumSame ==
  ASSUME NEW f, NEW e, NEW S, IsFiniteSet(S), \A x \in S : e[x] = f[x]
  PROVE  SumFunctionOnSet(f, S) = SumFunctionOnSet(e, S)
<1>1. PICK g : /\ IsTable(f, S, g)
               /\ SumFunctionOnSet(f, S) = g[S]
  BY SumReads
<1>2. PICK h : /\ IsTable(e, S, h)
               /\ SumFunctionOnSet(e, S) = h[S]
  BY SumReads
<1>3. \A s \in SUBSET S : g[s] = h[s]
  BY <1>1, <1>2, TablesAgree
<1> QED BY <1>1, <1>2, <1>3

\* The sum over no index.
LEMMA SumEmpty ==
  ASSUME NEW f PROVE SumFunctionOnSet(f, {}) = 0
<1>1. IsFiniteSet({})
  BY FS_EmptySet
<1>2. PICK g : /\ IsTable(f, {}, g)
               /\ SumFunctionOnSet(f, {}) = g[{}]
  BY <1>1, SumReads
<1>3. g[{}] = SumStep(f, g, {})
  <2>1. {} \in SUBSET {}
    OBVIOUS
  <2> QED BY <1>2, <2>1 DEF IsTable
<1> QED BY <1>2, <1>3 DEF SumStep

\* The sum takes one index at a time.
LEMMA SumPick ==
  ASSUME NEW f, NEW S, IsFiniteSet(S), S # {}
  PROVE  SumFunctionOnSet(f, S) = f[Pick(S)] + SumFunctionOnSet(f, S \ {Pick(S)})
<1> DEFINE T == S \ {Pick(S)}
<1>0. IsFiniteSet(T) /\ T \subseteq S /\ T \in SUBSET T /\ S \in SUBSET S
  BY FS_RemoveElement
<1> HIDE DEF T
<1>1. PICK h : /\ IsTable(f, S, h)
               /\ SumFunctionOnSet(f, S) = h[S]
  BY SumReads
<1>2. PICK g : /\ IsTable(f, T, g)
               /\ SumFunctionOnSet(f, T) = g[T]
  BY <1>0, SumReads
<1>3. \A s \in SUBSET T : g[s] = h[s]
  <2>1. \A x \in T : f[x] = f[x]
    OBVIOUS
  <2> QED BY <1>0, <1>1, <1>2, <2>1, TablesAgree
<1>4. h[S] = SumStep(f, h, S)
  BY <1>0, <1>1 DEF IsTable
<1> QED BY <1>0, <1>1, <1>2, <1>3, <1>4 DEF SumStep, T

\* A sum of integers is an integer.
LEMMA SumInt ==
  ASSUME NEW f, NEW S, IsFiniteSet(S), \A x \in S : f[x] \in Int
  PROVE  SumFunctionOnSet(f, S) \in Int
<1> DEFINE Bad == {s \in SUBSET S : SumFunctionOnSet(f, s) \notin Int}
<1> SUFFICES ASSUME Bad # {} PROVE FALSE
  OBVIOUS
<1>1. PICK s \in Bad : \A u \in Bad : u \subseteq s => u = s
  <2>1. Bad \subseteq SUBSET S
    OBVIOUS
  <2> HIDE DEF Bad
  <2> QED BY <2>1, SmallestSet
<1>2. s # {}
  BY SumEmpty
<1>3. IsFiniteSet(s) /\ Pick(s) \in s
  BY <1>2, PickIn, FS_Subset
<1>4. SumFunctionOnSet(f, s \ {Pick(s)}) \in Int
  BY <1>1, <1>3
<1>5. SumFunctionOnSet(f, s) = f[Pick(s)] + SumFunctionOnSet(f, s \ {Pick(s)})
  BY <1>2, <1>3, SumPick
<1> QED BY <1>3, <1>4, <1>5

\* A sum of numbers is a number.
LEMMA SumNat ==
  ASSUME NEW f, NEW S, IsFiniteSet(S), \A x \in S : f[x] \in Nat
  PROVE  SumFunctionOnSet(f, S) \in Nat
<1> DEFINE Bad == {s \in SUBSET S : SumFunctionOnSet(f, s) \notin Nat}
<1> SUFFICES ASSUME Bad # {} PROVE FALSE
  OBVIOUS
<1>1. PICK s \in Bad : \A u \in Bad : u \subseteq s => u = s
  <2>1. Bad \subseteq SUBSET S
    OBVIOUS
  <2> HIDE DEF Bad
  <2> QED BY <2>1, SmallestSet
<1>2. s # {}
  BY SumEmpty
<1>3. IsFiniteSet(s) /\ Pick(s) \in s
  BY <1>2, PickIn, FS_Subset
<1>4. SumFunctionOnSet(f, s \ {Pick(s)}) \in Nat
  BY <1>1, <1>3
<1>5. SumFunctionOnSet(f, s) = f[Pick(s)] + SumFunctionOnSet(f, s \ {Pick(s)})
  BY <1>2, <1>3, SumPick
<1> QED BY <1>3, <1>4, <1>5

\* The sum does not depend on the order of the indices.
LEMMA SumRemove ==
  ASSUME NEW f, NEW S, IsFiniteSet(S), \A x \in S : f[x] \in Int, NEW a \in S
  PROVE  SumFunctionOnSet(f, S) = f[a] + SumFunctionOnSet(f, S \ {a})
<1> DEFINE Good(s) == \A b \in s :
                        SumFunctionOnSet(f, s) = f[b] + SumFunctionOnSet(f, s \ {b})
           Bad == {s \in SUBSET S : ~Good(s)}
<1>0. \A s \in SUBSET S : IsFiniteSet(s) /\ SumFunctionOnSet(f, s) \in Int
  BY SumInt, FS_Subset
<1> SUFFICES ASSUME Bad # {} PROVE FALSE
  OBVIOUS
<1>1. PICK s \in Bad : \A u \in Bad : u \subseteq s => u = s
  <2>1. Bad \subseteq SUBSET S
    OBVIOUS
  <2> HIDE DEF Bad
  <2> QED BY <2>1, SmallestSet
<1>2. PICK b \in s : SumFunctionOnSet(f, s) # f[b] + SumFunctionOnSet(f, s \ {b})
  OBVIOUS
<1>3. IsFiniteSet(s) /\ Pick(s) \in s /\ s \subseteq S
  BY <1>0, <1>2, PickIn
<1> DEFINE c == Pick(s)
           t == (s \ {b}) \ {c}
<1>4. SumFunctionOnSet(f, s) = f[c] + SumFunctionOnSet(f, s \ {c})
  BY <1>2, <1>3, SumPick
<1>5. b # c
  BY <1>2, <1>4
<1>6. s \ {b} \in SUBSET S /\ s \ {c} \in SUBSET S /\ s \ {b} # s /\ s \ {c} # s
      /\ t = (s \ {c}) \ {b} /\ b \in s \ {c} /\ c \in s \ {b} /\ t \in SUBSET S
  BY <1>2, <1>3, <1>5
<1>7. f[b] \in Int /\ f[c] \in Int
  BY <1>2, <1>3
<1> HIDE DEF c, t
<1>8. Good(s \ {b}) /\ Good(s \ {c})
  <2> HIDE DEF Good
  <2> QED BY <1>1, <1>6
<1>9. SumFunctionOnSet(f, s \ {b}) = f[c] + SumFunctionOnSet(f, t)
  BY <1>6, <1>8 DEF t
<1>10. SumFunctionOnSet(f, s \ {c}) = f[b] + SumFunctionOnSet(f, t)
  BY <1>6, <1>8
<1>11. SumFunctionOnSet(f, t) \in Int
  BY <1>0, <1>6
<1> QED BY <1>2, <1>4, <1>7, <1>9, <1>10, <1>11

\* One more index adds its value, whichever index is taken first.
LEMMA SumAdd ==
  ASSUME NEW f, NEW S, IsFiniteSet(S), NEW a, a \notin S,
         \A x \in S \cup {a} : f[x] \in Int
  PROVE  SumFunctionOnSet(f, S \cup {a}) = f[a] + SumFunctionOnSet(f, S)
<1>1. IsFiniteSet(S \cup {a}) /\ (S \cup {a}) \ {a} = S
  BY FS_AddElement
<1> QED BY <1>1, SumRemove


-----------------------------------------------------------------------------
(* The credential group: its invariant, of a row g and reservations r *)

ReservationRow ==
  [amount : Nat, deadline : Nat, status : {"reserved", "unknown", "settled"},
   released : BOOLEAN, dispatched : BOOLEAN, used : Nat,
   kind : {"none", "actual_usage", "not_dispatched"},
   outcome : Outcomes \cup {"none"}, halfOpen : BOOLEAN]
GroupRow ==
  [slots : Nat, budget : Budgets, active : Int, reserved : Int,
   committed : Nat, windowEnd : Nat, breaker : Nat, failures : Nat,
   probe : Attempts \cup {NoAttempt}]

RowsFit(r) ==
  /\ r \in [DOMAIN r -> ReservationRow] /\ DOMAIN r \subseteq Attempts
  /\ \A a \in DOMAIN r : r[a].status = "settled" <=> r[a].kind # "none"

Held(r) == {a \in DOMAIN r : ~r[a].released}
Open(r) == {a \in DOMAIN r : r[a].status # "settled"}
AmountOf(r) == [a \in DOMAIN r |-> r[a].amount]
Excess(row) == IF row.status = "settled" /\ row.used > row.amount
               THEN row.used - row.amount ELSE 0
ExcessOf(r) == [a \in DOMAIN r |-> Excess(r[a])]
Reserves(r) == SumFunctionOnSet(AmountOf(r), Open(r))
Over(r) == SumFunctionOnSet(ExcessOf(r), DOMAIN r)
Charge(row) == IF row.status = "settled" THEN row.used ELSE row.amount
ChargeOf(r) == [a \in DOMAIN r |-> Charge(r[a])]
Charges(r) == SumFunctionOnSet(ChargeOf(r), DOMAIN r)

Counted(g, r) == g.active = Cardinality(Held(r)) /\ g.reserved = Reserves(r)
Within(g, r) == \E b \in Budgets : g.reserved + g.committed <= b + Over(r)
ProbeFits(g, r) ==
  g.probe # NoAttempt =>
    /\ g.breaker # 0 /\ g.probe \in DOMAIN r
    /\ r[g.probe].halfOpen /\ r[g.probe].outcome = "none"
    /\ r[g.probe].kind # "not_dispatched"

GroupFits(g, r) ==
  g \in GroupRow /\ Counted(g, r) /\ Within(g, r) /\ ProbeFits(g, r)

\* The clock, the rows, and the group's row with its counters, its budget and
\* its circuit.
QuotaInv == now \in Nat \ {0} /\ RowsFit(res) /\ GroupFits(group, res)

-----------------------------------------------------------------------------
(* What a change of the reservations does to the sums *)

\* The sums are numbers.
LEMMA SumsTyped ==
  ASSUME NEW r, RowsFit(r)
  PROVE  /\ IsFiniteSet(DOMAIN r) /\ IsFiniteSet(Held(r)) /\ IsFiniteSet(Open(r))
         /\ Cardinality(Held(r)) \in Nat /\ Reserves(r) \in Nat /\ Over(r) \in Nat
         /\ Charges(r) \in Nat
<1>1. IsFiniteSet(DOMAIN r)
  BY QuotaAssumption, FS_Subset DEF RowsFit
<1>2. IsFiniteSet(Held(r)) /\ IsFiniteSet(Open(r))
  <2>1. Held(r) \in SUBSET DOMAIN r /\ Open(r) \in SUBSET DOMAIN r
    BY DEF Held, Open
  <2> QED BY <1>1, <2>1, FS_Subset
<1>3. \A a \in Open(r) : AmountOf(r)[a] \in Nat
  BY DEF Open, AmountOf, RowsFit, ReservationRow
<1>4. \A a \in DOMAIN r : ExcessOf(r)[a] \in Nat
  BY DEF ExcessOf, Excess, RowsFit, ReservationRow
<1>5. Reserves(r) \in Nat
  BY <1>2, <1>3, SumNat DEF Reserves
<1>6. Over(r) \in Nat
  BY <1>1, <1>4, SumNat DEF Over
<1>7. \A a \in DOMAIN r : ChargeOf(r)[a] \in Nat
  BY DEF ChargeOf, Charge, RowsFit, ReservationRow
<1>8. Charges(r) \in Nat
  BY <1>1, <1>7, SumNat DEF Charges
<1> QED BY <1>1, <1>2, <1>5, <1>6, <1>8, FS_CardinalityType

\* One index of a sum gets another value.
LEMMA SumChange ==
  ASSUME NEW f, NEW e, NEW S, IsFiniteSet(S), NEW a \in S,
         \A x \in S : f[x] \in Int /\ e[x] \in Int,
         \A x \in S \ {a} : e[x] = f[x]
  PROVE  SumFunctionOnSet(e, S) = SumFunctionOnSet(f, S) + e[a] - f[a]
<1>1. /\ SumFunctionOnSet(e, S) = e[a] + SumFunctionOnSet(e, S \ {a})
      /\ SumFunctionOnSet(f, S) = f[a] + SumFunctionOnSet(f, S \ {a})
  BY SumRemove
<1>2. IsFiniteSet(S \ {a})
  BY FS_RemoveElement
<1>3. SumFunctionOnSet(f, S \ {a}) = SumFunctionOnSet(e, S \ {a})
  BY <1>2, SumSame
<1>4. SumFunctionOnSet(f, S \ {a}) \in Int
  BY <1>2, SumInt
<1> QED BY <1>1, <1>3, <1>4

\* One reservation changes, keeps its amount, and stays settled if it was.
RowMove(r, a, row, s) ==
  /\ RowsFit(r) /\ a \in DOMAIN r /\ row \in ReservationRow
  /\ row.amount = r[a].amount
  /\ row.status = "settled" <=> row.kind # "none"
  /\ r[a].status = "settled" => row.status = "settled"
  /\ s = [r EXCEPT ![a] = row]

\* What that does to the rows and their sums.
RowMoved(r, a, row, s) ==
  /\ RowsFit(s) /\ DOMAIN s = DOMAIN r /\ s[a] = row
  /\ \A x \in DOMAIN r \ {a} : s[x] = r[x]
  /\ row.released = r[a].released => Cardinality(Held(s)) = Cardinality(Held(r))
  /\ row.released => Cardinality(Held(s)) = IF r[a].released THEN Cardinality(Held(r))
                                            ELSE Cardinality(Held(r)) - 1
  /\ (row.status = "settled" <=> r[a].status = "settled") => Reserves(s) = Reserves(r)
  /\ r[a].status # "settled" /\ row.status = "settled" =>
       Reserves(s) = Reserves(r) - row.amount
  /\ Over(s) = Over(r) + Excess(row) - Excess(r[a])
  /\ Charges(s) = Charges(r) + Charge(row) - Charge(r[a])

\* What the change of one reservation does to counters, reserves and charges.
LEMMA RowChange ==
  ASSUME NEW r, NEW a, NEW row, NEW s, RowMove(r, a, row, s)
  PROVE  RowMoved(r, a, row, s)
<1> USE DEF RowMove
<1>1. /\ DOMAIN s = DOMAIN r /\ s[a] = row
      /\ \A x \in DOMAIN r \ {a} : s[x] = r[x]
      /\ s \in [DOMAIN r -> ReservationRow]
  BY DEF RowsFit
<1>2. RowsFit(s)
  BY <1>1 DEF RowsFit
<1>3. /\ IsFiniteSet(DOMAIN r) /\ IsFiniteSet(Held(r)) /\ IsFiniteSet(Open(r))
      /\ IsFiniteSet(Open(s))
      /\ Cardinality(Held(r)) \in Nat /\ Reserves(r) \in Nat
      /\ Reserves(s) \in Nat
  BY <1>2, SumsTyped
<1>4. /\ r[a].released /\ row.released => Held(s) = Held(r)
      /\ ~r[a].released /\ ~row.released => Held(s) = Held(r)
      /\ ~r[a].released /\ row.released => Held(s) = Held(r) \ {a} /\ a \in Held(r)
  BY <1>1 DEF Held
<1>5. ~r[a].released /\ row.released => Cardinality(Held(s)) = Cardinality(Held(r)) - 1
  BY <1>3, <1>4, FS_RemoveElement
<1>6. \A x \in DOMAIN r : AmountOf(s)[x] = AmountOf(r)[x] /\ AmountOf(r)[x] \in Int
  BY <1>1 DEF AmountOf, RowsFit, ReservationRow
<1>7. Open(s) \in SUBSET DOMAIN r /\ Open(r) \in SUBSET DOMAIN r
  BY <1>1 DEF Open
<1>8. Reserves(s) = SumFunctionOnSet(AmountOf(r), Open(s))
  <2>1. \A x \in Open(s) : AmountOf(r)[x] = AmountOf(s)[x]
    BY <1>6, <1>7
  <2>2. SumFunctionOnSet(AmountOf(s), Open(s)) = SumFunctionOnSet(AmountOf(r), Open(s))
    <3> DEFINE f == AmountOf(s)  e == AmountOf(r)  S == Open(s)
    <3>1. IsFiniteSet(S) /\ \A x \in S : e[x] = f[x]
      BY <1>3, <2>1
    <3> HIDE DEF f, e, S
    <3>2. SumFunctionOnSet(f, S) = SumFunctionOnSet(e, S)
      BY <3>1, SumSame
    <3> QED BY <3>2 DEF f, e, S
  <2> QED BY <2>2 DEF Reserves
<1>9. /\ r[a].status = "settled" => Open(s) = Open(r)
      /\ row.status # "settled" => Open(s) = Open(r)
      /\ r[a].status # "settled" /\ row.status = "settled" =>
           Open(s) = Open(r) \ {a} /\ a \in Open(r)
  BY <1>1 DEF Open
<1>10. ASSUME r[a].status # "settled", row.status = "settled"
       PROVE  Reserves(s) = Reserves(r) - row.amount
  <2>1. SumFunctionOnSet(AmountOf(r), Open(r))
          = AmountOf(r)[a] + SumFunctionOnSet(AmountOf(r), Open(r) \ {a})
    BY <1>3, <1>6, <1>7, <1>9, <1>10, SumRemove
  <2>2. AmountOf(r)[a] = row.amount /\ row.amount \in Nat
    BY DEF AmountOf, ReservationRow
  <2>3. Reserves(r) = row.amount + Reserves(s)
    BY <1>8, <1>9, <1>10, <2>1, <2>2 DEF Reserves
  <2> QED BY <1>3, <2>2, <2>3
<1>11. Over(s) = Over(r) + Excess(row) - Excess(r[a])
  <2>1. \A x \in DOMAIN r : ExcessOf(r)[x] \in Int /\ ExcessOf(s)[x] \in Int
    BY <1>1, <1>2 DEF ExcessOf, Excess, RowsFit, ReservationRow
  <2>2. \A x \in DOMAIN r \ {a} : ExcessOf(s)[x] = ExcessOf(r)[x]
    BY <1>1 DEF ExcessOf
  <2>3. ExcessOf(r)[a] = Excess(r[a]) /\ ExcessOf(s)[a] = Excess(row)
    BY <1>1 DEF ExcessOf
  <2>4. SumFunctionOnSet(ExcessOf(s), DOMAIN r)
          = SumFunctionOnSet(ExcessOf(r), DOMAIN r) + ExcessOf(s)[a] - ExcessOf(r)[a]
    <3> DEFINE f == ExcessOf(r)  e == ExcessOf(s)  S == DOMAIN r
    <3>1. /\ IsFiniteSet(S) /\ a \in S
          /\ \A x \in S : f[x] \in Int /\ e[x] \in Int
          /\ \A x \in S \ {a} : e[x] = f[x]
      BY <1>3, <2>1, <2>2
    <3> HIDE DEF f, e, S
    <3>2. SumFunctionOnSet(e, S) = SumFunctionOnSet(f, S) + e[a] - f[a]
      BY <3>1, SumChange
    <3> QED BY <3>2 DEF f, e, S
  <2> QED BY <1>1, <2>3, <2>4 DEF Over
<1>13. Charges(s) = Charges(r) + Charge(row) - Charge(r[a])
  <2>1. \A x \in DOMAIN r : ChargeOf(r)[x] \in Int /\ ChargeOf(s)[x] \in Int
    BY <1>1, <1>2 DEF ChargeOf, Charge, RowsFit, ReservationRow
  <2>2. \A x \in DOMAIN r \ {a} : ChargeOf(s)[x] = ChargeOf(r)[x]
    BY <1>1 DEF ChargeOf
  <2>3. ChargeOf(r)[a] = Charge(r[a]) /\ ChargeOf(s)[a] = Charge(row)
    BY <1>1 DEF ChargeOf
  <2>4. SumFunctionOnSet(ChargeOf(s), DOMAIN r)
          = SumFunctionOnSet(ChargeOf(r), DOMAIN r) + ChargeOf(s)[a] - ChargeOf(r)[a]
    <3> DEFINE f == ChargeOf(r)  e == ChargeOf(s)  S == DOMAIN r
    <3>1. /\ IsFiniteSet(S) /\ a \in S
          /\ \A x \in S : f[x] \in Int /\ e[x] \in Int
          /\ \A x \in S \ {a} : e[x] = f[x]
      BY <1>3, <2>1, <2>2
    <3> HIDE DEF f, e, S
    <3>2. SumFunctionOnSet(e, S) = SumFunctionOnSet(f, S) + e[a] - f[a]
      BY <3>1, SumChange
    <3> QED BY <3>2 DEF f, e, S
  <2> QED BY <1>1, <2>3, <2>4 DEF Charges
<1>12. r[a].released \in BOOLEAN /\ row.released \in BOOLEAN
  BY DEF RowsFit, ReservationRow
<1> QED BY <1>1, <1>2, <1>4, <1>5, <1>8, <1>9, <1>10, <1>11, <1>12, <1>13
        DEF Reserves, RowMoved

\* A reservation is added.
LEMMA RowAdd ==
  ASSUME NEW r, RowsFit(r), NEW a \in Attempts, a \notin DOMAIN r,
         NEW row \in ReservationRow, row.status = "reserved", row.kind = "none",
         ~row.released,
         NEW s, s = [i \in DOMAIN r \cup {a} |-> IF i = a THEN row ELSE r[i]]
  PROVE  /\ RowsFit(s) /\ DOMAIN s = DOMAIN r \cup {a} /\ s[a] = row
         /\ \A x \in DOMAIN r : s[x] = r[x]
         /\ Cardinality(Held(s)) = Cardinality(Held(r)) + 1
         /\ Reserves(s) = Reserves(r) + row.amount
         /\ Over(s) = Over(r) /\ Charges(s) = Charges(r) + row.amount
<1>1. /\ DOMAIN s = DOMAIN r \cup {a} /\ s[a] = row
      /\ \A x \in DOMAIN r : s[x] = r[x]
  OBVIOUS
<1>2. RowsFit(s)
  <2>1. s \in [DOMAIN s -> ReservationRow]
    BY <1>1 DEF RowsFit
  <2> QED BY <1>1, <2>1 DEF RowsFit
<1>3. /\ IsFiniteSet(DOMAIN r) /\ IsFiniteSet(Held(r)) /\ IsFiniteSet(Open(r))
      /\ Cardinality(Held(r)) \in Nat /\ Reserves(r) \in Nat /\ Over(r) \in Nat
  BY SumsTyped
<1>4. Held(s) = Held(r) \cup {a} /\ a \notin Held(r)
  BY <1>1 DEF Held
<1>5. Cardinality(Held(s)) = Cardinality(Held(r)) + 1
  BY <1>3, <1>4, FS_AddElement
<1>6. Open(s) = Open(r) \cup {a} /\ a \notin Open(r)
  BY <1>1 DEF Open
<1>7. Reserves(s) = Reserves(r) + row.amount
  <2> DEFINE f == AmountOf(s)  e == AmountOf(r)  S == Open(r)
  <2>1. /\ IsFiniteSet(S) /\ a \notin S
        /\ \A x \in S : e[x] = f[x]
        /\ \A x \in S \cup {a} : f[x] \in Int
    BY <1>1, <1>2, <1>3, <1>6 DEF Open, AmountOf, RowsFit, ReservationRow
  <2>2. f[a] = row.amount /\ row.amount \in Int
    BY <1>1 DEF AmountOf, ReservationRow
  <2> HIDE DEF f, e, S
  <2>3. SumFunctionOnSet(f, S \cup {a}) = f[a] + SumFunctionOnSet(f, S)
    BY <2>1, SumAdd
  <2>4. SumFunctionOnSet(f, S) = SumFunctionOnSet(e, S)
    BY <2>1, SumSame
  <2>5. Reserves(s) = SumFunctionOnSet(f, S \cup {a})
    BY <1>6 DEF f, S, Reserves
  <2>6. Reserves(r) = SumFunctionOnSet(e, S)
    BY DEF e, S, Reserves
  <2> QED BY <1>3, <2>2, <2>3, <2>4, <2>5, <2>6
<1>8. Over(s) = Over(r)
  <2> DEFINE f == ExcessOf(s)  e == ExcessOf(r)  S == DOMAIN r
  <2>1. /\ IsFiniteSet(S) /\ a \notin S
        /\ \A x \in S : e[x] = f[x]
        /\ \A x \in S \cup {a} : f[x] \in Int
    BY <1>1, <1>2, <1>3 DEF ExcessOf, Excess, RowsFit, ReservationRow
  <2>2. f[a] = 0
    BY <1>1 DEF ExcessOf, Excess
  <2> HIDE DEF f, e, S
  <2>3. SumFunctionOnSet(f, S \cup {a}) = f[a] + SumFunctionOnSet(f, S)
    BY <2>1, SumAdd
  <2>4. SumFunctionOnSet(f, S) = SumFunctionOnSet(e, S)
    BY <2>1, SumSame
  <2> QED BY <1>1, <1>3, <2>2, <2>3, <2>4 DEF f, e, S, Over
<1>9. Charges(s) = Charges(r) + row.amount
  <2> DEFINE f == ChargeOf(s)  e == ChargeOf(r)  S == DOMAIN r
  <2>1. /\ IsFiniteSet(S) /\ a \notin S
        /\ \A x \in S : e[x] = f[x]
        /\ \A x \in S \cup {a} : f[x] \in Int
    BY <1>1, <1>2, <1>3 DEF ChargeOf, Charge, RowsFit, ReservationRow
  <2>2. f[a] = row.amount /\ row.amount \in Int
    BY <1>1 DEF ChargeOf, Charge, ReservationRow
  <2> HIDE DEF f, e, S
  <2>3. SumFunctionOnSet(f, S \cup {a}) = f[a] + SumFunctionOnSet(f, S)
    BY <2>1, SumAdd
  <2>4. SumFunctionOnSet(f, S) = SumFunctionOnSet(e, S)
    BY <2>1, SumSame
  <2>5. Charges(s) = SumFunctionOnSet(f, S \cup {a})
    BY <1>1 DEF f, S, Charges
  <2>6. Charges(r) = SumFunctionOnSet(e, S) /\ Charges(r) \in Nat
    BY SumsTyped DEF e, S, Charges
  <2> QED BY <2>2, <2>3, <2>4, <2>5, <2>6
<1> QED BY <1>1, <1>2, <1>5, <1>7, <1>8, <1>9

\* Reservations past their deadline give up their slots and nothing else.
LEMMA RowsExpire ==
  ASSUME now \in Nat, RowsFit(res)
  PROVE  /\ RowsFit(ExpiredRows) /\ DOMAIN ExpiredRows = DOMAIN res
         /\ \A x \in DOMAIN res :
              LET row == ExpiredRows[x]
              IN /\ row.amount = res[x].amount /\ row.deadline = res[x].deadline
                 /\ row.dispatched = res[x].dispatched /\ row.used = res[x].used
                 /\ row.kind = res[x].kind /\ row.outcome = res[x].outcome
                 /\ row.halfOpen = res[x].halfOpen
                 /\ row.status = "settled" <=> res[x].status = "settled"
                 /\ res[x].released => row = res[x]
         /\ Cardinality(Held(ExpiredRows)) = Cardinality(Held(res)) - Cardinality(Expired)
         /\ Cardinality(Expired) \in Nat
         /\ Reserves(ExpiredRows) = Reserves(res) /\ Over(ExpiredRows) = Over(res)
         /\ Charges(ExpiredRows) = Charges(res)
<1> DEFINE s == ExpiredRows
           new(x) == [res[x] EXCEPT !.released = TRUE,
                        !.status = IF @ = "settled" THEN @ ELSE "unknown"]
<1>1. \A x \in DOMAIN res :
        /\ res[x] \in ReservationRow /\ new(x) \in ReservationRow
        /\ res[x].status = "settled" <=> res[x].kind # "none"
        /\ new(x).amount = res[x].amount /\ new(x).deadline = res[x].deadline
        /\ new(x).dispatched = res[x].dispatched /\ new(x).used = res[x].used
        /\ new(x).kind = res[x].kind /\ new(x).outcome = res[x].outcome
        /\ new(x).halfOpen = res[x].halfOpen /\ new(x).released
        /\ new(x).status = "settled" <=> res[x].status = "settled"
  BY ZenonT(60) DEF RowsFit, ReservationRow
<1>2. /\ DOMAIN s = DOMAIN res
      /\ \A x \in DOMAIN res : s[x] = IF x \in Expired THEN new(x) ELSE res[x]
  BY DEF ExpiredRows
<1>3. s = [x \in DOMAIN res |-> s[x]]
  BY DEF ExpiredRows
<1> HIDE DEF s, new
<1>4. RowsFit(s)
  BY <1>1, <1>2, <1>3 DEF RowsFit
<1>5. \A x \in DOMAIN res :
        /\ s[x].amount = res[x].amount /\ s[x].deadline = res[x].deadline
        /\ s[x].dispatched = res[x].dispatched /\ s[x].used = res[x].used
        /\ s[x].kind = res[x].kind /\ s[x].outcome = res[x].outcome
        /\ s[x].halfOpen = res[x].halfOpen
        /\ s[x].status = "settled" <=> res[x].status = "settled"
        /\ res[x].released => s[x] = res[x]
  BY <1>1, <1>2 DEF Expired
<1>6. /\ IsFiniteSet(DOMAIN res) /\ IsFiniteSet(Held(res)) /\ IsFiniteSet(Open(res))
  BY SumsTyped
<1>7. Expired \subseteq Held(res) /\ Held(s) = Held(res) \ Expired
  BY <1>1, <1>2 DEF Expired, Held
<1>8. /\ Cardinality(Held(s)) = Cardinality(Held(res)) - Cardinality(Expired)
      /\ Cardinality(Expired) \in Nat
  <2>1. Held(res) \cap Expired = Expired
    BY <1>7
  <2>2. IsFiniteSet(Expired)
    BY <1>6, <1>7, FS_Subset
  <2> QED BY <1>6, <1>7, <2>1, <2>2, FS_Difference, FS_CardinalityType
<1>9. Open(s) = Open(res)
  BY <1>2, <1>5 DEF Open
<1>10. Reserves(s) = Reserves(res)
  <2> DEFINE f == AmountOf(s)  e == AmountOf(res)  S == Open(res)
  <2>1. IsFiniteSet(S) /\ \A x \in S : e[x] = f[x]
    BY <1>2, <1>5, <1>6 DEF Open, AmountOf
  <2> HIDE DEF f, e, S
  <2>2. SumFunctionOnSet(f, S) = SumFunctionOnSet(e, S)
    BY <2>1, SumSame
  <2> QED BY <1>9, <2>2 DEF f, e, S, Reserves
<1>11. Over(s) = Over(res)
  <2> DEFINE f == ExcessOf(s)  e == ExcessOf(res)  S == DOMAIN res
  <2>1. IsFiniteSet(S) /\ \A x \in S : e[x] = f[x]
    BY <1>2, <1>5, <1>6 DEF ExcessOf, Excess
  <2> HIDE DEF f, e, S
  <2>2. SumFunctionOnSet(f, S) = SumFunctionOnSet(e, S)
    BY <2>1, SumSame
  <2> QED BY <1>2, <2>2 DEF f, e, S, Over
<1>12. Charges(s) = Charges(res)
  <2> DEFINE f == ChargeOf(s)  e == ChargeOf(res)  S == DOMAIN res
  <2>1. IsFiniteSet(S) /\ \A x \in S : e[x] = f[x]
    BY <1>2, <1>5, <1>6 DEF ChargeOf, Charge
  <2> HIDE DEF f, e, S
  <2>2. SumFunctionOnSet(f, S) = SumFunctionOnSet(e, S)
    BY <2>1, SumSame
  <2> QED BY <1>2, <2>2 DEF f, e, S, Charges
<1> QED BY <1>2, <1>4, <1>5, <1>8, <1>10, <1>11, <1>12 DEF s


-----------------------------------------------------------------------------
(* Steps of the credential group *)

\* The fields of a row of the group.
LEMMA GroupFields ==
  ASSUME NEW g \in GroupRow
  PROVE  /\ g.slots \in Nat /\ g.budget \in Budgets /\ g.active \in Int
         /\ g.reserved \in Int /\ g.committed \in Nat /\ g.windowEnd \in Nat
         /\ g.breaker \in Nat /\ g.failures \in Nat
         /\ g.probe \in Attempts \cup {NoAttempt} /\ g.budget \in Nat
BY QuotaAssumption DEF GroupRow

\* A window that has ended takes nothing but what was committed in it.
LEMMA LockFits ==
  ASSUME QuotaInv
  PROVE  /\ GroupFits(lockGroup, res)
         /\ lockGroup.probe = group.probe /\ lockGroup.breaker = group.breaker
<1>1. CASE now < group.windowEnd
  BY <1>1 DEF lockGroup, QuotaInv
<1>2. CASE ~(now < group.windowEnd)
  <2> DEFINE g == lockGroup
  <2>1. now + Window \in Nat /\ group \in GroupRow
    BY QuotaAssumption DEF QuotaInv, GroupFits
  <2>2. g = [group EXCEPT !.committed = 0, !.windowEnd = now + Window]
    BY <1>2 DEF lockGroup
  <2>3. /\ g \in GroupRow /\ g.active = group.active /\ g.reserved = group.reserved
        /\ g.probe = group.probe /\ g.breaker = group.breaker /\ g.committed = 0
    BY <2>1, <2>2 DEF GroupRow
  <2> HIDE DEF g
  <2>4. Within(g, res)
    <3>1. PICK b \in Budgets : group.reserved + group.committed <= b + Over(res)
      BY DEF QuotaInv, GroupFits, Within
    <3>2. b \in Nat /\ Over(res) \in Nat
      BY QuotaAssumption, SumsTyped DEF QuotaInv
    <3> QED BY <2>1, <2>3, <3>1, <3>2, GroupFields DEF Within
  <2> QED BY <2>3, <2>4 DEF QuotaInv, GroupFits, Counted, ProbeFits, g
<1> QED BY <1>1, <1>2

\* A circuit that is opened again has no probe.
LEMMA ReopenFits ==
  ASSUME now \in Nat \ {0}, NEW g, NEW r, g \in GroupRow, Counted(g, r), Within(g, r)
  PROVE  GroupFits(reopen(g), r)
<1>1. now + Cooldown \in Nat
  BY QuotaAssumption
<1>2. /\ reopen(g) \in GroupRow /\ reopen(g).active = g.active
      /\ reopen(g).reserved = g.reserved /\ reopen(g).committed = g.committed
      /\ reopen(g).probe = NoAttempt
  BY <1>1 DEF reopen, GroupRow
<1> QED BY <1>2 DEF GroupFits, Counted, Within, ProbeFits

\* The sweep: slots and the vanished probe.
LEMMA ExpireFits ==
  ASSUME now \in Nat \ {0}, RowsFit(res), NEW g, GroupFits(g, res)
  PROVE  /\ GroupFits(expireSlots(g), ExpiredRows)
         /\ expireSlots(g).budget = g.budget
<1> DEFINE n == Cardinality(Expired)
           h == [g EXCEPT !.active = @ - n]
<1>1. /\ n \in Nat /\ RowsFit(ExpiredRows)
      /\ Cardinality(Held(ExpiredRows)) = Cardinality(Held(res)) - n
      /\ Reserves(ExpiredRows) = Reserves(res) /\ Over(ExpiredRows) = Over(res)
      /\ DOMAIN ExpiredRows = DOMAIN res
  BY RowsExpire
<1>2. \A x \in DOMAIN res :
        /\ ExpiredRows[x].kind = res[x].kind /\ ExpiredRows[x].outcome = res[x].outcome
        /\ ExpiredRows[x].halfOpen = res[x].halfOpen
  BY RowsExpire
<1> HIDE DEF n
<1>3. g \in GroupRow /\ g.active \in Int /\ g.active - n \in Int
  BY <1>1, GroupFields DEF GroupFits
<1>4. /\ h \in GroupRow /\ h.active = g.active - n /\ h.reserved = g.reserved
      /\ h.committed = g.committed /\ h.probe = g.probe /\ h.breaker = g.breaker
      /\ h.budget = g.budget
  BY <1>3 DEF GroupRow
<1>5. expireSlots(g) = IF h.probe # NoAttempt /\ res[h.probe].deadline <= now
                       THEN reopen(h) ELSE h
  BY DEF expireSlots, n
<1> HIDE DEF h
<1>6. Counted(h, ExpiredRows) /\ Within(h, ExpiredRows) /\ ProbeFits(h, ExpiredRows)
  BY <1>1, <1>2, <1>4 DEF GroupFits, Counted, Within, ProbeFits
<1>7. GroupFits(h, ExpiredRows) /\ GroupFits(reopen(h), ExpiredRows)
  BY <1>4, <1>6, ReopenFits DEF GroupFits
<1>8. reopen(h).budget = h.budget
  BY <1>4 DEF reopen, GroupRow
<1> QED BY <1>4, <1>5, <1>7, <1>8

\* ExpireRequestSlots and the rotation of the window.
LEMMA SweepInv ==
  ASSUME QuotaInv, ExpireRequestSlots
  PROVE  QuotaInv'
<1>1. GroupFits(lockGroup, res)
  BY LockFits
<1>2. GroupFits(expireSlots(lockGroup), ExpiredRows)
  <2> DEFINE g == lockGroup
  <2> HIDE DEF g
  <2>1. now \in Nat \ {0} /\ RowsFit(res) /\ GroupFits(g, res)
    BY <1>1 DEF QuotaInv, g
  <2>2. GroupFits(expireSlots(g), ExpiredRows)
    BY <2>1, ExpireFits
  <2> QED BY <2>2 DEF g
<1>3. RowsFit(ExpiredRows)
  BY RowsExpire DEF QuotaInv
<1> QED BY <1>2, <1>3 DEF QuotaInv, ExpireRequestSlots

\* Reserve takes a slot and the amount, or is denied.
LEMMA ReserveInv ==
  ASSUME QuotaInv, NEW a \in Attempts, NEW n \in Nat, NEW t \in Nat, Reserve(a, n, t)
  PROVE  QuotaInv'
<1> DEFINE g == expireSlots(lockGroup)
           row == [amount |-> n, deadline |-> t, status |-> "reserved",
                   released |-> FALSE, dispatched |-> FALSE, used |-> 0,
                   kind |-> "none", outcome |-> "none", halfOpen |-> g.breaker # 0]
           r == ExpiredRows
           s == [i \in DOMAIN r \cup {a} |-> IF i = a THEN row ELSE r[i]]
           h == [g EXCEPT !.active = @ + 1, !.reserved = @ + n,
                          !.probe = IF g.breaker # 0 THEN a ELSE @]
<1>1. CASE ExpireRequestSlots
  BY <1>1, SweepInv
<1>2. CASE /\ a \notin DOMAIN res /\ now < t /\ Admits(g, n)
           /\ res' = [i \in DOMAIN res \cup {a} |-> IF i = a THEN row ELSE r[i]]
           /\ group' = h /\ UNCHANGED now
  <2>1. GroupFits(g, r) /\ RowsFit(r) /\ DOMAIN r = DOMAIN res
    <3> DEFINE k == lockGroup
    <3>1. GroupFits(k, res)
      BY LockFits
    <3> HIDE DEF k
    <3>2. GroupFits(expireSlots(k), r)
      BY <3>1, ExpireFits DEF QuotaInv
    <3> QED BY <3>2, RowsExpire DEF k, QuotaInv
  <2>2. row \in ReservationRow /\ row.status = "reserved" /\ row.kind = "none"
        /\ ~row.released /\ row.amount = n /\ row.outcome = "none"
        /\ row.halfOpen = (g.breaker # 0)
    BY DEF ReservationRow
  <2>3. res' = s
    BY <1>2, <2>1
  <2> HIDE DEF g, row, r
  <2>4. /\ RowsFit(s) /\ DOMAIN s = DOMAIN r \cup {a} /\ s[a] = row
        /\ \A x \in DOMAIN r : s[x] = r[x]
        /\ Cardinality(Held(s)) = Cardinality(Held(r)) + 1
        /\ Reserves(s) = Reserves(r) + row.amount
        /\ Over(s) = Over(r)
    BY <1>2, <2>1, <2>2, RowAdd
  <2> HIDE DEF s
  <2>5. /\ g \in GroupRow /\ g.active + 1 \in Int /\ g.reserved + n \in Int
        /\ g.reserved \in Int /\ g.active \in Int /\ g.committed \in Nat
        /\ g.budget \in Budgets /\ g.budget \in Nat
    BY <2>1, GroupFields DEF GroupFits
  <2>6. /\ h \in GroupRow /\ h.active = g.active + 1 /\ h.reserved = g.reserved + n
        /\ h.committed = g.committed /\ h.breaker = g.breaker
        /\ h.probe = IF g.breaker # 0 THEN a ELSE g.probe
    BY <2>5 DEF GroupRow
  <2> HIDE DEF h
  <2>7. Counted(h, s)
    BY <2>1, <2>2, <2>4, <2>6 DEF Counted, GroupFits
  <2>8. Within(h, s)
    <3>1. Over(s) \in Nat
      BY <2>4, SumsTyped
    <3>2. n <= g.budget - g.committed - g.reserved
      BY <1>2 DEF Admits
    <3>3. h.reserved + h.committed <= g.budget + Over(s)
      BY <2>5, <2>6, <3>1, <3>2
    <3> QED BY <2>5, <3>3 DEF Within
  <2>9. ProbeFits(h, s)
    <3>1. CASE g.breaker # 0
      BY <2>2, <2>4, <2>6, <3>1 DEF ProbeFits
    <3>2. CASE g.breaker = 0
      BY <2>1, <2>6, <3>2 DEF ProbeFits, GroupFits
    <3> QED BY <3>1, <3>2
  <2>10. group' = h /\ now' = now
    BY <1>2
  <2> QED BY <2>3, <2>4, <2>6, <2>7, <2>8, <2>9, <2>10 DEF QuotaInv, GroupFits
<1> QED BY <1>1, <1>2 DEF Reserve

\* A reservation changes and neither its slot, its settlement nor its report.
LEMMA QuietInv ==
  ASSUME QuotaInv, NEW a \in DOMAIN res, NEW row \in ReservationRow,
         row.amount = res[a].amount, row.released = res[a].released,
         row.kind = res[a].kind, row.used = res[a].used,
         row.outcome = res[a].outcome, row.halfOpen = res[a].halfOpen,
         row.status = "settled" <=> res[a].status = "settled",
         res' = [res EXCEPT ![a] = row], group' = lockGroup, now' = now
  PROVE  QuotaInv'
<1> DEFINE s == [res EXCEPT ![a] = row]
<1>1. RowsFit(res) /\ res[a] \in ReservationRow
      /\ (res[a].status = "settled" <=> res[a].kind # "none")
  BY DEF QuotaInv, RowsFit
<1>2. /\ RowsFit(s) /\ DOMAIN s = DOMAIN res /\ s[a] = row
      /\ \A x \in DOMAIN res \ {a} : s[x] = res[x]
      /\ Cardinality(Held(s)) = Cardinality(Held(res))
      /\ Reserves(s) = Reserves(res)
      /\ Over(s) = Over(res) + Excess(row) - Excess(res[a])
  <2>1. RowMove(res, a, row, s)
    BY <1>1 DEF RowMove
  <2> HIDE DEF s
  <2>2. RowMoved(res, a, row, s)
    BY <2>1, RowChange
  <2> QED BY <2>2 DEF RowMoved
<1> HIDE DEF s
<1>3. Excess(row) = Excess(res[a]) /\ Excess(row) \in Nat /\ Over(res) \in Nat
  BY <1>1, SumsTyped DEF Excess, ReservationRow
<1>4. Over(s) = Over(res)
  BY <1>2, <1>3
<1>5. GroupFits(lockGroup, res)
  BY LockFits
<1>6. \A x \in DOMAIN res : /\ s[x].kind = res[x].kind /\ s[x].outcome = res[x].outcome
                            /\ s[x].halfOpen = res[x].halfOpen
  BY <1>2
<1>7. GroupFits(lockGroup, s)
  BY <1>2, <1>4, <1>5, <1>6 DEF GroupFits, Counted, Within, ProbeFits
<1>8. res' = s
  BY DEF s
<1> QED BY <1>2, <1>7, <1>8 DEF QuotaInv

\* MarkDispatched turns a reservation into a request under way.
LEMMA MarkDispatchedInv ==
  ASSUME QuotaInv, NEW a, MarkDispatched(a)
  PROVE  QuotaInv'
<1> DEFINE row == [res[a] EXCEPT !.dispatched = TRUE]
<1>1. a \in DOMAIN res /\ res \in [DOMAIN res -> ReservationRow]
  BY DEF MarkDispatched, QuotaInv, RowsFit
<1>2. res' = [res EXCEPT ![a] = row] /\ group' = lockGroup /\ now' = now
  BY <1>1 DEF MarkDispatched
<1>3. res[a] \in ReservationRow
  BY <1>1
<1>4. /\ row \in ReservationRow /\ row.amount = res[a].amount
      /\ row.released = res[a].released /\ row.kind = res[a].kind
      /\ row.used = res[a].used /\ row.outcome = res[a].outcome
      /\ row.halfOpen = res[a].halfOpen /\ row.status = res[a].status
  BY <1>3 DEF ReservationRow
<1> HIDE DEF row
<1> QED BY <1>1, <1>2, <1>4, QuietInv

\* MarkUnknown keeps the reserve of a request whose end is not known.
LEMMA MarkUnknownInv ==
  ASSUME QuotaInv, NEW a, MarkUnknown(a)
  PROVE  QuotaInv'
<1> DEFINE row == [res[a] EXCEPT !.status = "unknown"]
<1>1. /\ a \in DOMAIN res /\ res \in [DOMAIN res -> ReservationRow]
      /\ res[a].status # "settled"
  BY DEF MarkUnknown, QuotaInv, RowsFit
<1>2. res' = [res EXCEPT ![a] = row] /\ group' = lockGroup /\ now' = now
  BY <1>1 DEF MarkUnknown
<1>3. res[a] \in ReservationRow
  BY <1>1
<1>4. /\ row \in ReservationRow /\ row.amount = res[a].amount
      /\ row.released = res[a].released /\ row.kind = res[a].kind
      /\ row.used = res[a].used /\ row.outcome = res[a].outcome
      /\ row.halfOpen = res[a].halfOpen /\ row.status = "unknown"
  BY <1>3 DEF ReservationRow
<1> HIDE DEF row
<1> QED BY <1>1, <1>2, <1>4, QuietInv

\* The slot of a reservation is given back, if it was held.
LEMMA SlotFits ==
  ASSUME NEW g, NEW h, NEW r, NEW s, NEW a \in DOMAIN r, RowsFit(r), Counted(g, r),
         g.active \in Int,
         Cardinality(Held(s)) = IF r[a].released THEN Cardinality(Held(r))
                                ELSE Cardinality(Held(r)) - 1,
         h.active = g.active - (IF r[a].released THEN 0 ELSE 1)
  PROVE  h.active = Cardinality(Held(s))
<1>1. g.active = Cardinality(Held(r))
  BY DEF Counted
<1> QED BY <1>1

\* CompleteWithUnknownUsage gives back the slot and keeps the reserve.
LEMMA CompleteWithUnknownUsageInv ==
  ASSUME QuotaInv, NEW a, CompleteWithUnknownUsage(a)
  PROVE  QuotaInv'
<1> DEFINE row == [res[a] EXCEPT !.status = "unknown", !.released = TRUE]
           s == [res EXCEPT ![a] = row]
           g == lockGroup
           d == IF res[a].released THEN 0 ELSE 1
           h == [g EXCEPT !.active = @ - d]
<1>1. /\ a \in DOMAIN res /\ res \in [DOMAIN res -> ReservationRow]
      /\ res[a].status # "settled" /\ res[a].kind = "none" /\ RowsFit(res)
  BY DEF CompleteWithUnknownUsage, QuotaInv, RowsFit
<1>2. res' = s /\ group' = h /\ now' = now
  BY <1>1 DEF CompleteWithUnknownUsage
<1>3. res[a] \in ReservationRow /\ res[a].released \in BOOLEAN
  BY <1>1 DEF ReservationRow
<1>4. /\ row \in ReservationRow /\ row.amount = res[a].amount
      /\ row.released /\ row.kind = res[a].kind
      /\ row.used = res[a].used /\ row.outcome = res[a].outcome
      /\ row.halfOpen = res[a].halfOpen /\ row.status = "unknown"
  BY <1>3 DEF ReservationRow
<1> HIDE DEF row
<1>5. /\ RowsFit(s) /\ DOMAIN s = DOMAIN res /\ s[a] = row
      /\ \A x \in DOMAIN res \ {a} : s[x] = res[x]
      /\ Cardinality(Held(s)) = IF res[a].released THEN Cardinality(Held(res))
                                ELSE Cardinality(Held(res)) - 1
      /\ Reserves(s) = Reserves(res)
      /\ Over(s) = Over(res) + Excess(row) - Excess(res[a])
  <2>1. RowMove(res, a, row, s)
    BY <1>1, <1>4 DEF RowMove
  <2> HIDE DEF s
  <2>2. RowMoved(res, a, row, s)
    BY <2>1, RowChange
  <2> QED BY <1>1, <1>4, <2>2 DEF RowMoved
<1> HIDE DEF s
<1>6. Over(s) = Over(res)
  <2>1. Excess(row) = 0 /\ Excess(res[a]) = 0 /\ Over(res) \in Nat
    BY <1>1, <1>4, SumsTyped DEF Excess
  <2> QED BY <1>5, <2>1
<1>7. GroupFits(g, res)
  BY LockFits
<1>8. d \in Int /\ g \in GroupRow /\ g.active \in Int /\ g.active - d \in Int
  BY <1>7, GroupFields DEF GroupFits
<1> HIDE DEF g
<1>9. /\ h \in GroupRow /\ h.active = g.active - (IF res[a].released THEN 0 ELSE 1)
      /\ h.reserved = g.reserved /\ h.committed = g.committed
      /\ h.probe = g.probe /\ h.breaker = g.breaker
  <2> HIDE DEF d
  <2>1. /\ h \in GroupRow /\ h.active = g.active - d
        /\ h.reserved = g.reserved /\ h.committed = g.committed
        /\ h.probe = g.probe /\ h.breaker = g.breaker
    BY <1>8 DEF GroupRow
  <2> QED BY <2>1 DEF d
<1> HIDE DEF h
<1>10. Counted(h, s)
  BY <1>1, <1>5, <1>7, <1>8, <1>9, SlotFits DEF Counted, GroupFits
<1>11. Within(h, s)
  BY <1>6, <1>7, <1>9 DEF Within, GroupFits
<1>12. \A x \in DOMAIN res : /\ s[x].kind = res[x].kind /\ s[x].outcome = res[x].outcome
                             /\ s[x].halfOpen = res[x].halfOpen
  BY <1>4, <1>5
<1>13. ProbeFits(h, s)
  BY <1>5, <1>7, <1>9, <1>12 DEF ProbeFits, GroupFits
<1> QED BY <1>2, <1>5, <1>9, <1>10, <1>11, <1>13 DEF QuotaInv, GroupFits

\* settle charges what was used and gives back the rest.
LEMMA settleInv ==
  ASSUME QuotaInv, NEW a, NEW used \in Nat,
         NEW kind \in {"actual_usage", "not_dispatched"}, settle(a, used, kind)
  PROVE  QuotaInv'
<1> DEFINE g == lockGroup
           row == [res[a] EXCEPT !.status = "settled", !.used = used,
                                 !.kind = kind, !.released = TRUE]
           s == [res EXCEPT ![a] = row]
           d == IF res[a].released THEN 0 ELSE 1
           h == [g EXCEPT !.reserved = @ - res[a].amount, !.committed = @ + used,
                          !.active = @ - d]
<1>1. /\ a \in DOMAIN res /\ res \in [DOMAIN res -> ReservationRow]
      /\ RowsFit(res) /\ now' = now
  BY DEF settle, QuotaInv, RowsFit
<1>2. CASE group' = g /\ UNCHANGED res
  BY <1>1, <1>2, LockFits DEF QuotaInv
<1>3. CASE /\ res[a].status # "settled"
           /\ res' = [res EXCEPT ![a].status = "settled", ![a].used = used,
                                 ![a].kind = kind, ![a].released = TRUE]
           /\ group' = IF kind = "not_dispatched" /\ h.probe = a
                       THEN reopen(h) ELSE h
  <2>1. res' = s
    BY <1>1, <1>3
  <2>2. /\ res[a] \in ReservationRow /\ res[a].released \in BOOLEAN
        /\ res[a].amount \in Nat /\ res[a].kind = "none"
    BY <1>1, <1>3 DEF ReservationRow, RowsFit
  <2>3. /\ row \in ReservationRow /\ row.amount = res[a].amount
        /\ row.released /\ row.kind = kind /\ row.used = used
        /\ row.outcome = res[a].outcome /\ row.halfOpen = res[a].halfOpen
        /\ row.status = "settled"
    BY <2>2 DEF ReservationRow
  <2> HIDE DEF row
  <2>4. /\ RowsFit(s) /\ DOMAIN s = DOMAIN res /\ s[a] = row
        /\ \A x \in DOMAIN res \ {a} : s[x] = res[x]
        /\ Cardinality(Held(s)) = IF res[a].released THEN Cardinality(Held(res))
                                  ELSE Cardinality(Held(res)) - 1
        /\ Reserves(s) = Reserves(res) - res[a].amount
        /\ Over(s) = Over(res) + Excess(row) - Excess(res[a])
    <3>1. RowMove(res, a, row, s)
      BY <1>1, <2>3 DEF RowMove
    <3> HIDE DEF s
    <3>2. RowMoved(res, a, row, s)
      BY <3>1, RowChange
    <3> QED BY <1>3, <2>3, <3>2 DEF RowMoved
  <2> HIDE DEF s
  <2>5. Over(s) = Over(res) + (IF used > res[a].amount THEN used - res[a].amount ELSE 0)
        /\ Over(res) \in Nat
    <3>1. Excess(res[a]) = 0 /\ Over(res) \in Nat
      BY <1>1, <1>3, SumsTyped DEF Excess
    <3>2. Excess(row) = IF used > res[a].amount THEN used - res[a].amount ELSE 0
      BY <2>3 DEF Excess
    <3> QED BY <2>2, <2>4, <3>1, <3>2
  <2>6. GroupFits(g, res)
    BY LockFits
  <2>7. /\ d \in Int /\ g \in GroupRow /\ g.active \in Int /\ g.active - d \in Int
        /\ g.reserved \in Int /\ g.reserved - res[a].amount \in Int
        /\ g.committed \in Nat /\ g.committed + used \in Nat
    BY <2>2, <2>6, GroupFields DEF GroupFits
  <2> HIDE DEF g
  <2>8. /\ h \in GroupRow /\ h.active = g.active - (IF res[a].released THEN 0 ELSE 1)
        /\ h.reserved = g.reserved - res[a].amount
        /\ h.committed = g.committed + used
        /\ h.probe = g.probe /\ h.breaker = g.breaker
    <3> DEFINE n == res[a].amount
    <3> HIDE DEF d, n
    <3>1. /\ h \in GroupRow /\ h.active = g.active - d
          /\ h.reserved = g.reserved - n /\ h.committed = g.committed + used
          /\ h.probe = g.probe /\ h.breaker = g.breaker
      BY <2>7 DEF GroupRow, n
    <3> QED BY <3>1 DEF d, n
  <2> HIDE DEF h
  <2>9. Counted(h, s)
    BY <1>1, <2>4, <2>6, <2>7, <2>8, SlotFits DEF Counted, GroupFits
  <2>10. Within(h, s)
    <3>1. PICK b \in Budgets : g.reserved + g.committed <= b + Over(res)
      BY <2>6 DEF Within, GroupFits
    <3>2. b \in Nat
      BY QuotaAssumption
    <3>3. h.reserved + h.committed <= b + Over(s)
      BY <2>2, <2>5, <2>7, <2>8, <3>1, <3>2
    <3> QED BY <3>3 DEF Within
  <2>11. GroupFits(reopen(h), s)
    BY <2>8, <2>9, <2>10, ReopenFits DEF QuotaInv
  <2>12. ASSUME ~(kind = "not_dispatched" /\ h.probe = a) PROVE ProbeFits(h, s)
    BY <2>3, <2>4, <2>6, <2>8, <2>12 DEF ProbeFits, GroupFits
  <2> QED BY <1>1, <1>3, <2>1, <2>4, <2>8, <2>9, <2>10, <2>11, <2>12
          DEF QuotaInv, GroupFits
<1> QED BY <1>2, <1>3 DEF settle

\* What an outcome does to the circuit keeps the group's row in order, if the
\* attempt that reports is no longer waited for.
LEMMA OutcomeFits ==
  ASSUME now \in Nat \ {0}, NEW g, NEW r, NEW a, NEW o \in Outcomes,
         g \in GroupRow, Counted(g, r), Within(g, r),
         g.probe # a => ProbeFits(g, r), g.probe = a => g.breaker # 0
  PROVE  GroupFits(AfterOutcome(g, o, g.probe = a), r)
<1> DEFINE p == g.probe = a
           n == g.failures + (IF g.failures < Threshold THEN 1 ELSE 0)
           c == [g EXCEPT !.failures = 0, !.breaker = 0, !.probe = NoAttempt]
           h == [g EXCEPT !.failures = n]
<1>1. n \in Nat
  BY GroupFields
<1>2. /\ c \in GroupRow /\ c.active = g.active /\ c.reserved = g.reserved
      /\ c.committed = g.committed /\ c.probe = NoAttempt
  BY DEF GroupRow
<1>3. GroupFits(c, r)
  <2> HIDE DEF c
  <2> QED BY <1>2 DEF GroupFits, Counted, Within, ProbeFits
<1>4. /\ h \in GroupRow /\ h.active = g.active /\ h.reserved = g.reserved
      /\ h.committed = g.committed /\ h.probe = g.probe /\ h.breaker = g.breaker
  <2> HIDE DEF n
  <2> QED BY <1>1 DEF GroupRow
<1>5. CASE o = "success"
  <2>1. AfterOutcome(g, o, p) = IF g.breaker = 0 \/ p THEN c ELSE g
    BY <1>5 DEF AfterOutcome
  <2>2. ~p => GroupFits(g, r)
    BY DEF GroupFits
  <2> QED BY <1>3, <2>1, <2>2
<1>6. CASE o = "failure"
  <2>1. AfterOutcome(g, o, p) = IF n >= Threshold \/ p THEN reopen(h) ELSE h
    BY <1>6 DEF AfterOutcome
  <2> HIDE DEF n, h
  <2>2. Counted(h, r) /\ Within(h, r) /\ (~p => ProbeFits(h, r))
    BY <1>4 DEF Counted, Within, ProbeFits
  <2>3. GroupFits(reopen(h), r)
    BY <1>4, <2>2, ReopenFits
  <2> QED BY <1>4, <2>1, <2>2, <2>3 DEF GroupFits
<1>7. CASE o = "neutral"
  <2>1. AfterOutcome(g, o, p) = IF p THEN reopen(g) ELSE g
    BY <1>7 DEF AfterOutcome
  <2>2. GroupFits(reopen(g), r)
    BY ReopenFits
  <2> QED BY <2>1, <2>2 DEF GroupFits
<1> QED BY <1>5, <1>6, <1>7 DEF Outcomes

\* RecordOutcome moves the circuit and gives up the probe.
LEMMA RecordOutcomeInv ==
  ASSUME QuotaInv, NEW a, NEW o \in Outcomes, RecordOutcome(a, o)
  PROVE  QuotaInv'
<1> DEFINE g == lockGroup
           row == [res[a] EXCEPT !.outcome = o]
           s == [res EXCEPT ![a] = row]
<1>1. /\ a \in DOMAIN res /\ res \in [DOMAIN res -> ReservationRow]
      /\ RowsFit(res) /\ now' = now
  BY DEF RecordOutcome, QuotaInv, RowsFit
<1>2. CASE group' = g /\ UNCHANGED res
  BY <1>1, <1>2, LockFits DEF QuotaInv
<1>3. CASE /\ res' = [res EXCEPT ![a].outcome = o]
           /\ group' = AfterOutcome(g, o, group.probe = a)
  <2>1. res' = s
    BY <1>1, <1>3
  <2>2. res[a] \in ReservationRow
    BY <1>1
  <2>3. /\ row \in ReservationRow /\ row.amount = res[a].amount
        /\ row.released = res[a].released /\ row.kind = res[a].kind
        /\ row.used = res[a].used /\ row.halfOpen = res[a].halfOpen
        /\ row.status = res[a].status
    BY <2>2 DEF ReservationRow, Outcomes
  <2> HIDE DEF row
  <2>4. /\ RowsFit(s) /\ DOMAIN s = DOMAIN res /\ s[a] = row
        /\ \A x \in DOMAIN res \ {a} : s[x] = res[x]
        /\ Cardinality(Held(s)) = Cardinality(Held(res))
        /\ Reserves(s) = Reserves(res)
        /\ Over(s) = Over(res) + Excess(row) - Excess(res[a])
    <3>1. RowMove(res, a, row, s)
      BY <1>1, <2>3 DEF RowMove, RowsFit
    <3> HIDE DEF s
    <3>2. RowMoved(res, a, row, s)
      BY <3>1, RowChange
    <3> QED BY <2>3, <3>2 DEF RowMoved
  <2> HIDE DEF s
  <2>5. Over(s) = Over(res)
    <3>1. Excess(row) = Excess(res[a]) /\ Excess(row) \in Nat /\ Over(res) \in Nat
      BY <1>1, <2>2, <2>3, SumsTyped DEF Excess, ReservationRow
    <3> QED BY <2>4, <3>1
  <2>6. GroupFits(g, res) /\ g.probe = group.probe /\ g.breaker = group.breaker
    BY LockFits
  <2> HIDE DEF g
  <2>7. /\ g \in GroupRow /\ Counted(g, s) /\ Within(g, s)
        /\ g.probe # a => ProbeFits(g, s)
    BY <2>4, <2>5, <2>6 DEF GroupFits, Counted, Within, ProbeFits
  <2>8. g.probe = a => g.breaker # 0
    BY <1>1, <2>6, QuotaAssumption DEF GroupFits, ProbeFits, RowsFit
  <2>9. GroupFits(AfterOutcome(g, o, g.probe = a), s)
    BY <2>7, <2>8, OutcomeFits DEF QuotaInv
  <2>10. group' = AfterOutcome(g, o, g.probe = a)
    BY <1>3, <2>6
  <2> QED BY <1>1, <2>1, <2>4, <2>9, <2>10 DEF QuotaInv
<1> QED BY <1>2, <1>3 DEF RecordOutcome

\* Whatever the operations are called with: what QuotaNext and the model call
\* have in common.
QuotaMoves ==
  \/ ExpireRequestSlots \/ Tick
  \/ \E s \in Slots, b \in Budgets : Configure(s, b)
  \/ \E a \in Attempts :
       \/ \E n, t \in Nat : Reserve(a, n, t)
       \/ MarkDispatched(a) \/ MarkUnknown(a) \/ CompleteWithUnknownUsage(a)
       \/ \E u \in Nat : Settle(a, u)
       \/ AbandonBeforeDispatch(a)
       \/ \E o \in Outcomes : RecordOutcome(a, o)

\* Every transaction on the group keeps QuotaInv.
LEMMA QuotaStepInv ==
  ASSUME QuotaInv, QuotaMoves \/ UNCHANGED quotaVars
  PROVE  QuotaInv'
<1>1. CASE ExpireRequestSlots
  BY <1>1, SweepInv
<1>2. CASE Tick
  BY <1>2 DEF Tick, QuotaInv
<1>3. ASSUME NEW s \in Slots, NEW b \in Budgets, Configure(s, b) PROVE QuotaInv'
  <2> DEFINE h == [group EXCEPT !.slots = s, !.budget = b]
  <2>1. GroupFits(group, res) /\ group \in GroupRow /\ s \in Nat
    BY QuotaAssumption DEF QuotaInv, GroupFits
  <2>2. /\ h \in GroupRow /\ h.active = group.active /\ h.reserved = group.reserved
        /\ h.committed = group.committed /\ h.probe = group.probe
        /\ h.breaker = group.breaker
    BY <2>1 DEF GroupRow
  <2> HIDE DEF h
  <2>3. GroupFits(h, res)
    BY <2>1, <2>2 DEF GroupFits, Counted, Within, ProbeFits
  <2>4. group' = h /\ res' = res /\ now' = now
    BY <1>3 DEF Configure, h
  <2> QED BY <2>3, <2>4 DEF QuotaInv
<1>4. ASSUME NEW a \in Attempts, NEW n \in Nat, NEW t \in Nat, Reserve(a, n, t)
      PROVE  QuotaInv'
  BY <1>4, ReserveInv
<1>5. ASSUME NEW a \in Attempts, MarkDispatched(a) PROVE QuotaInv'
  BY <1>5, MarkDispatchedInv
<1>6. ASSUME NEW a \in Attempts, MarkUnknown(a) PROVE QuotaInv'
  BY <1>6, MarkUnknownInv
<1>7. ASSUME NEW a \in Attempts, CompleteWithUnknownUsage(a) PROVE QuotaInv'
  BY <1>7, CompleteWithUnknownUsageInv
<1>8. ASSUME NEW a \in Attempts, NEW u \in Nat, Settle(a, u) PROVE QuotaInv'
  BY <1>8, settleInv DEF Settle
<1>9. ASSUME NEW a \in Attempts, AbandonBeforeDispatch(a) PROVE QuotaInv'
  BY <1>9, settleInv DEF AbandonBeforeDispatch
<1>10. ASSUME NEW a \in Attempts, NEW o \in Outcomes, RecordOutcome(a, o)
       PROVE  QuotaInv'
  BY <1>10, RecordOutcomeInv
<1>11. CASE UNCHANGED quotaVars
  BY <1>11 DEF quotaVars, QuotaInv
<1> QED BY <1>1, <1>2, <1>3, <1>4, <1>5, <1>6, <1>7, <1>8, <1>9, <1>10, <1>11
        DEF QuotaMoves

\* A new group has no reservation and a closed circuit.
LEMMA QuotaInitInv ==
  ASSUME QuotaInit
  PROVE  QuotaInv
<1>1. PICK s \in Slots, b \in Budgets :
        group = [slots |-> s, budget |-> b, active |-> 0, reserved |-> 0,
                 committed |-> 0, windowEnd |-> 1 + Window, breaker |-> 0,
                 failures |-> 0, probe |-> NoAttempt]
  BY DEF QuotaInit
<1>2. DOMAIN res = {} /\ res = [a \in {} |-> res[a]] /\ now = 1
  BY DEF QuotaInit
<1>3. RowsFit(res)
  BY <1>2 DEF RowsFit
<1>4. Held(res) = {} /\ Open(res) = {}
  BY <1>2 DEF Held, Open
<1>5. Cardinality(Held(res)) = 0 /\ Reserves(res) = 0 /\ Over(res) = 0
  BY <1>2, <1>4, FS_EmptySet, SumEmpty DEF Reserves, Over
<1>6. s \in Nat /\ b \in Nat /\ 1 + Window \in Nat
  BY QuotaAssumption
<1>7. /\ group \in GroupRow /\ group.active = 0 /\ group.reserved = 0
      /\ group.committed = 0 /\ group.probe = NoAttempt
  BY <1>1, <1>6 DEF GroupRow
<1>8. Within(group, res)
  BY <1>5, <1>6, <1>7 DEF Within
<1> QED BY <1>2, <1>3, <1>5, <1>7, <1>8 DEF QuotaInv, GroupFits, Counted, ProbeFits

\* The invariant says what the runs check.
LEMMA QuotaInvImplies ==
  ASSUME QuotaInv
  PROVE  CountersMatchRows /\ BudgetHeld /\ ProbeMayReport
<1>1. Unsettled = Open(res) /\ Amount = AmountOf(res)
      /\ {a \in DOMAIN res : ~res[a].released} = Held(res)
  BY DEF Unsettled, Open, Amount, AmountOf, Held
<1>2. Overage = ExcessOf(res) /\ DOMAIN Overage = DOMAIN res
  BY DEF Overage, ExcessOf, Excess, Unsettled
<1>3. CountersMatchRows
  BY <1>1 DEF QuotaInv, GroupFits, Counted, Reserves, CountersMatchRows
<1>4. SumFunction(Overage) = Over(res)
  BY <1>2 DEF SumFunction, Over
<1>5. BudgetHeld
  BY <1>4 DEF QuotaInv, GroupFits, Within, BudgetHeld
<1>6. ProbeMayReport
  BY DEF QuotaInv, GroupFits, ProbeFits, ProbeMayReport
<1> QED BY <1>3, <1>5, <1>6

\* Every step of Quota is one of these transactions.
LEMMA QuotaNextMoves ==
  ASSUME QuotaInv, QuotaNext
  PROVE  QuotaMoves
<1>1. ASSUME NEW a \in Attempts, NEW n \in Amounts, NEW t \in Timeouts,
             Reserve(a, n, now + t)
      PROVE  QuotaMoves
  <2>1. n \in Nat /\ now + t \in Nat
    BY QuotaAssumption DEF QuotaInv
  <2> QED BY <1>1, <2>1 DEF QuotaMoves
<1>2. ASSUME NEW a \in Attempts, NEW u \in Usages, Settle(a, u) PROVE QuotaMoves
  BY <1>2, QuotaAssumption DEF QuotaMoves
<1> QED BY <1>1, <1>2 DEF QuotaNext, QuotaMoves

\* QuotaInv always holds for Quota alone.
LEMMA QuotaAlways == QuotaSpec => []QuotaInv
<1>1. QuotaInit => QuotaInv
  BY QuotaInitInv
<1>2. QuotaInv /\ [QuotaNext]_quotaVars => QuotaInv'
  BY QuotaStepInv, QuotaNextMoves
<1> QED BY <1>1, <1>2, PTL DEF QuotaSpec

\* For any number of attempts and any limits: the slots and the reserves the
\* row of the group counts are those of its reservations, whichever of
\* settlement, completion and expiry comes first (settle, expireSlots).
THEOREM QuotaCountersExact == QuotaSpec => []CountersMatchRows
<1>1. QuotaInv => CountersMatchRows
  BY QuotaInvImplies
<1> QED BY <1>1, QuotaAlways, PTL

\* For any number of attempts and any limits: no interleaving spends more than
\* a configured budget but for what requests used beyond their reserve (Reserve).
THEOREM QuotaBudgetHeld == QuotaSpec => []BudgetHeld
<1>1. QuotaInv => BudgetHeld
  BY QuotaInvImplies
<1> QED BY <1>1, QuotaAlways, PTL

\* For any number of attempts: the circuit waits for no probe that cannot report
\* any more (RecordOutcome, settle, expireSlots).
THEOREM ProbeCanReport == QuotaSpec => []ProbeMayReport
<1>1. QuotaInv => ProbeMayReport
  BY QuotaInvImplies
<1> QED BY <1>1, QuotaAlways, PTL


-----------------------------------------------------------------------------
(* The model call: its inductive invariant *)

Codes == {"none", "unconfirmed_previous_dispatch", "request_expired_before_dispatch",
          "input_bound", "consumer", "unavailable", "other",
          "response_identity_mismatch"}
PlanRow == [code : Codes, retry : BOOLEAN, outcome : Outcomes \cup {"none"}]
PolicyRow == [plan : PlanRow, notBefore : Int]
AttemptRow ==
  [status : {"prepared", "completed", "failed"}, route : Routes, deadline : Int,
   started : Int, policy : PolicyRow, usage : Usages \cup {Unknown}]
RunRow ==
  [status : {"model", "done", "failed", "cancelled", "budget"},
   owner : Workers \cup {NoWorker}, epoch : Nat, notBefore : Int, maxCost : Nat]
Steps ==
  {"idle", "route", "begin", "get", "missing", "reserved", "dispatched", "cost",
   "abandon", "reserve", "unsure", "wait", "ready", "mark", "send", "stream",
   "unknown", "finish", "record", "replay",
   "complete", "settle", "success", "advance"}
WorkerState ==
  [pc : Steps, epoch : Nat, n : Nat, route : Routes, plan : PlanRow, fed : Nat,
   done : Nat, usage : Usages \cup {Unknown}]

CallTyped ==
  /\ run \in RunRow
  /\ attempts \in Seq(AttemptRow) /\ Len(attempts) <= Len(Own)
  /\ worker \in [Workers -> WorkerState]
  /\ sent \in [1..Len(Own) -> Nat]
  /\ log \in [1..Len(Own) -> Seq(Nat)]

\* A plan tells the circuit something, and of an unavailable provider a failure.
PlanFits(plan) ==
  /\ plan.outcome \in Outcomes
  /\ plan.code = "unavailable" => plan.outcome = "failure"

\* What the call keeps for every reservation: those of the attempts, dispatched
\* or given back, and settled without its slot.
ReservationFits(a) ==
  /\ \E n \in DOMAIN attempts : a = Own[n]
  /\ res[a].kind = "not_dispatched" => ~res[a].dispatched
  /\ res[a].kind # "none" => res[a].released

\* The attempts but the last, as OutcomeAgrees has them.
RetriesFit ==
  \A n \in DOMAIN attempts :
    n < Len(attempts) =>
      /\ attempts[n].status = "failed" /\ attempts[n].policy.plan.retry
      /\ attempts[n].route # attempts[n + 1].route =>
           attempts[n].route = "primary" /\ attempts[n].policy.plan.outcome = "failure"

HasReservation(n) == Own[n] \in DOMAIN res
HasMarker(n) == HasReservation(n) /\ res[Own[n]].dispatched

\* An attempt and its reservation.
AttemptFits(n) ==
  /\ attempts[n].status = "completed" => HasMarker(n) /\ Len(log[n]) = Chunks
  /\ attempts[n].status = "failed" =>
       /\ PlanFits(attempts[n].policy.plan)
       /\ HasReservation(n) \/ now >= attempts[n].deadline
  /\ HasReservation(n) =>
       /\ res[Own[n]].kind = "actual_usage" =>
            attempts[n].status = "completed" /\ res[Own[n]].used = attempts[n].usage
       /\ res[Own[n]].outcome # "none" =>
            \/ attempts[n].status = "completed" /\ res[Own[n]].outcome = "success"
            \/ /\ attempts[n].status = "failed"
               /\ res[Own[n]].outcome = attempts[n].policy.plan.outcome

DoneFits ==
  run.status = "done" =>
    \A n \in DOMAIN attempts :
      n = Len(attempts) =>
        /\ attempts[n].status = "completed" /\ res[Own[n]].released
        /\ res[Own[n]].outcome = "success"

\* What was sent and stored of the n-th attempt.
RequestFits(n) ==
  /\ sent[n] <= 1 /\ (sent[n] > 0 => HasMarker(n))
  /\ Len(log[n]) <= Chunks /\ \A i \in DOMAIN log[n] : log[n][i] = i
  /\ Len(log[n]) > 0 => HasMarker(n)

\* What a worker has seen and will rely on.
WorkerFits(x) ==
  /\ x.n <= Len(attempts)
  /\ x.pc \notin {"idle", "route", "begin"} => x.n > 0
  /\ x.plan = NoPlan \/ PlanFits(x.plan)
  /\ x.pc \in {"reserved", "abandon", "ready", "mark"} => HasReservation(x.n)
  /\ x.pc \in {"dispatched", "unsure", "wait", "send", "stream", "unknown", "complete",
               "settle", "success", "advance"} => HasMarker(x.n)
  /\ x.pc \in {"abandon", "unknown", "finish"} => x.plan # NoPlan
  /\ x.pc = "cost" => x.plan = NoPlan
  /\ x.pc = "finish" => HasReservation(x.n) \/ now >= attempts[x.n].deadline
  /\ x.pc \in {"record", "replay"} => attempts[x.n].status = "failed"
  /\ x.pc \in {"settle", "success", "advance"} => attempts[x.n].status = "completed"
  /\ x.pc \in {"success", "advance"} => res[Own[x.n]].released
  /\ x.pc = "advance" => res[Own[x.n]].outcome = "success"
  /\ x.pc = "send" => sent[x.n] = 0 /\ Len(log[x.n]) = 0
  /\ x.pc = "stream" => Len(log[x.n]) = x.done /\ x.done <= x.fed /\ x.fed <= Chunks
  /\ x.pc = "complete" => Len(log[x.n]) = Chunks
  /\ x.pc \notin {"stream", "complete"} => x.fed = 0 /\ x.done = 0

\* A request has one sender.
Streaming(x) == x.pc \in {"send", "stream", "complete"}
SendersApart ==
  \A v, w \in Workers :
    Streaming(worker[v]) /\ Streaming(worker[w]) /\ worker[v].n = worker[w].n => v = w

\* The run's own limit, also for what a worker is about to reserve in time.
ReserveFits(x) ==
  /\ run.maxCost > 0 /\ x.pc = "reserve"
  /\ ~HasReservation(x.n) /\ now < attempts[x.n].deadline
  => Charges(res) + Cost[attempts[x.n].route] <= run.maxCost + Over(res)
BudgetFits ==
  /\ run.maxCost > 0 => Charges(res) <= run.maxCost + Over(res)
  /\ \A w \in Workers : ReserveFits(worker[w])

CallInv ==
  /\ QuotaInv /\ CallTyped /\ RetriesFit /\ DoneFits /\ SendersApart /\ BudgetFits
  /\ \A a \in DOMAIN res : ReservationFits(a)
  /\ \A n \in DOMAIN attempts : AttemptFits(n)
  /\ \A n \in 1..Len(Own) : RequestFits(n)
  /\ \A w \in Workers : WorkerFits(worker[w])


-----------------------------------------------------------------------------
(* What lasts from one step of the call to the next *)

\* No step takes back what a worker has seen.
Later ==
  /\ now' >= now /\ DOMAIN res \subseteq DOMAIN res'
  /\ \A a \in DOMAIN res :
       /\ res[a].dispatched => res'[a].dispatched
       /\ res[a].released => res'[a].released
       /\ res[a].outcome = "success" => res'[a].outcome = "success"
  /\ Len(attempts) <= Len(attempts')
  /\ \A n \in DOMAIN attempts :
       /\ attempts'[n].route = attempts[n].route
       /\ attempts'[n].deadline = attempts[n].deadline
       /\ attempts[n].status # "prepared" => attempts'[n].status = attempts[n].status

\* The attempts are a sequence of rows.
LEMMA AttemptsTyped ==
  ASSUME CallTyped
  PROVE  /\ Len(attempts) \in Nat /\ DOMAIN attempts = 1..Len(attempts)
         /\ Len(Own) \in Nat /\ Len(attempts) <= Len(Own)
         /\ \A n \in DOMAIN attempts :
              /\ attempts[n] \in AttemptRow /\ n \in 1..Len(Own)
              /\ attempts[n].deadline \in Int /\ attempts[n].route \in Routes
              /\ attempts[n].status \in {"prepared", "completed", "failed"}
<1>1. /\ Len(attempts) \in Nat /\ DOMAIN attempts = 1..Len(attempts)
      /\ \A n \in DOMAIN attempts : attempts[n] \in AttemptRow
      /\ Len(attempts) <= Len(Own)
  BY DEF CallTyped
<1>2. Len(Own) \in Nat
  BY AttemptAssumption
<1> QED BY <1>1, <1>2 DEF AttemptRow

\* What a worker knows lasts while nobody else writes to its stream.
LEMMA WorkerKept ==
  ASSUME CallInv, CallTyped', Later, NEW x \in WorkerState, WorkerFits(x),
         Streaming(x) => log'[x.n] = log[x.n] /\ sent'[x.n] = sent[x.n],
         QuotaInv'
  PROVE  WorkerFits(x)'
<1>0. /\ Len(attempts) \in Nat /\ DOMAIN attempts = 1..Len(attempts)
      /\ \A n \in DOMAIN attempts : attempts[n].deadline \in Int
  BY AttemptsTyped DEF CallInv
<1>1. /\ x.n \in Nat /\ Len(attempts) \in Nat /\ Len(attempts') \in Nat
      /\ DOMAIN attempts = 1..Len(attempts) /\ x.n <= Len(attempts)
      /\ now \in Nat /\ now' \in Nat
      /\ \A n \in DOMAIN attempts : attempts[n].deadline \in Int
  <2>1. Len(attempts') \in Nat
    BY DEF CallTyped
  <2>2. x.n \in Nat /\ x.n <= Len(attempts)
    BY DEF WorkerState, WorkerFits
  <2>3. now \in Nat /\ now' \in Nat
    BY DEF CallInv, QuotaInv
  <2> QED BY <1>0, <2>1, <2>2, <2>3
<1>2. x.n <= Len(attempts')
  BY <1>1 DEF Later
<1>3. x.n > 0 => x.n \in DOMAIN attempts
  BY <1>1
<1>4. /\ HasReservation(x.n) => HasReservation(x.n)'
      /\ HasMarker(x.n) => HasMarker(x.n)'
  BY DEF HasReservation, HasMarker, Later
<1>5. HasMarker(x.n) =>
        /\ res[Own[x.n]].released => res'[Own[x.n]].released
        /\ res[Own[x.n]].outcome = "success" => res'[Own[x.n]].outcome = "success"
  BY DEF HasReservation, HasMarker, Later
<1>6. x.n > 0 =>
        /\ attempts[x.n].status # "prepared" => attempts'[x.n].status = attempts[x.n].status
        /\ now >= attempts[x.n].deadline => now' >= attempts'[x.n].deadline
  BY <1>1, <1>3 DEF Later
<1>7. x.pc \in {"send", "stream", "complete"} =>
        log'[x.n] = log[x.n] /\ sent'[x.n] = sent[x.n]
  BY DEF Streaming
<1> QED BY <1>2, <1>4, <1>5, <1>6, <1>7 DEF WorkerFits

\* A step that does not spend leaves what a worker may still reserve.
LEMMA ReserveKept ==
  ASSUME CallInv, CallTyped', Later, QuotaInv', NEW x \in WorkerState, WorkerFits(x),
         ReserveFits(x), run'.maxCost = run.maxCost,
         Charges(res') + Over(res) <= Charges(res) + Over(res')
  PROVE  ReserveFits(x)'
<1> SUFFICES ASSUME run.maxCost > 0, x.pc = "reserve", ~HasReservation(x.n)',
                    now' < attempts'[x.n].deadline
             PROVE  Charges(res') + Cost[attempts'[x.n].route] <= run'.maxCost + Over(res')
  BY DEF ReserveFits
<1>0. /\ Len(attempts) \in Nat /\ DOMAIN attempts = 1..Len(attempts)
      /\ \A n \in DOMAIN attempts : /\ attempts[n].deadline \in Int
                                    /\ attempts[n].route \in Routes
  BY AttemptsTyped DEF CallInv
<1>1. /\ x.n \in Nat /\ Len(attempts) \in Nat
      /\ DOMAIN attempts = 1..Len(attempts) /\ x.n <= Len(attempts)
      /\ now \in Nat /\ now' \in Nat /\ x.n > 0
      /\ \A n \in DOMAIN attempts : /\ attempts[n].deadline \in Int
                                    /\ attempts[n].route \in Routes
  <2>1. x.n \in Nat /\ x.n <= Len(attempts) /\ x.n > 0
    BY DEF WorkerState, WorkerFits
  <2>2. now \in Nat /\ now' \in Nat
    BY DEF CallInv, QuotaInv
  <2> QED BY <1>0, <2>1, <2>2
<1>2. x.n \in DOMAIN attempts
  BY <1>1
<1>3. /\ attempts'[x.n].route = attempts[x.n].route
      /\ attempts'[x.n].deadline = attempts[x.n].deadline /\ now' >= now
  BY <1>2 DEF Later
<1>4. ~HasReservation(x.n) /\ now < attempts[x.n].deadline
  BY <1>1, <1>2, <1>3 DEF HasReservation, Later
<1>5. Charges(res) + Cost[attempts[x.n].route] <= run.maxCost + Over(res)
  BY <1>4 DEF ReserveFits
<1>6. /\ Charges(res) \in Nat /\ Over(res) \in Nat
      /\ Charges(res') \in Nat /\ Over(res') \in Nat
  <2>1. RowsFit(res) /\ RowsFit(res')
    BY DEF CallInv, QuotaInv
  <2> QED BY <2>1, SumsTyped
<1>7. run.maxCost \in Nat /\ Cost[attempts[x.n].route] \in Nat
  BY <1>1, <1>2, AttemptAssumption DEF CallInv, CallTyped, RunRow
<1> QED BY <1>3, <1>5, <1>6, <1>7

\* Charges that grow no faster than the excess keep the run in its budget.
LEMMA BudgetKept ==
  ASSUME CallInv, CallTyped', Later, QuotaInv', run'.maxCost = run.maxCost,
         Charges(res') + Over(res) <= Charges(res) + Over(res'),
         NEW w, w \in Workers => ReserveFits(worker[w])',
         \A v \in Workers : v # w => worker'[v] = worker[v]
  PROVE  BudgetFits'
<1>1. run'.maxCost > 0 => Charges(res') <= run'.maxCost + Over(res')
  <2>1. /\ Charges(res) \in Nat /\ Over(res) \in Nat
        /\ Charges(res') \in Nat /\ Over(res') \in Nat
    <3>1. RowsFit(res) /\ RowsFit(res')
      BY DEF CallInv, QuotaInv
    <3> QED BY <3>1, SumsTyped
  <2>2. run.maxCost \in Nat
    BY DEF CallInv, CallTyped, RunRow
  <2> QED BY <2>1, <2>2 DEF CallInv, BudgetFits
<1>2. ASSUME NEW v \in Workers PROVE ReserveFits(worker[v])'
  <2>1. CASE v = w
    BY <2>1
  <2>2. CASE v # w
    <3>1. PICK x : x = worker[v]
      OBVIOUS
    <3>2. x \in WorkerState /\ WorkerFits(x) /\ ReserveFits(x)
      BY <3>1 DEF CallInv, CallTyped, BudgetFits
    <3>3. ReserveFits(x)'
      BY <3>2, ReserveKept
    <3>4. worker'[v] = x
      BY <2>2, <3>1
    <3> QED BY <3>3, <3>4 DEF ReserveFits, HasReservation
  <2> QED BY <2>1, <2>2
<1> QED BY <1>1, <1>2 DEF BudgetFits

\* A step of the call, of worker w or of none.
LEMMA CallStep ==
  ASSUME CallInv, QuotaInv', CallTyped', Later, RetriesFit', DoneFits', BudgetFits',
         \A a \in DOMAIN res' : ReservationFits(a)',
         \A n \in DOMAIN attempts' : AttemptFits(n)',
         \A n \in 1..Len(Own) : RequestFits(n)',
         NEW w, w \in Workers => WorkerFits(worker[w])',
         \A v \in Workers : v # w =>
           /\ worker'[v] = worker[v]
           /\ Streaming(worker[v]) =>
                /\ log'[worker[v].n] = log[worker[v].n]
                /\ sent'[worker[v].n] = sent[worker[v].n]
                /\ w \in Workers /\ Streaming(worker'[w]) => worker[v].n # worker'[w].n
  PROVE  CallInv'
<1>1. ASSUME NEW v \in Workers PROVE WorkerFits(worker[v])'
  <2>1. CASE v = w
    BY <2>1
  <2>2. CASE v # w
    <3>1. PICK x : x = worker[v]
      OBVIOUS
    <3>2. x \in WorkerState /\ WorkerFits(x)
      BY <3>1 DEF CallInv, CallTyped
    <3>3. Streaming(x) => log'[x.n] = log[x.n] /\ sent'[x.n] = sent[x.n]
      BY <2>2, <3>1
    <3>4. WorkerFits(x)'
      BY <3>2, <3>3, WorkerKept
    <3>5. worker'[v] = x
      BY <2>2, <3>1
    <3> QED BY <3>4, <3>5 DEF WorkerFits, HasReservation, HasMarker
  <2> QED BY <2>1, <2>2
<1>2. SendersApart'
  <2> SUFFICES ASSUME NEW v \in Workers, NEW u \in Workers,
                      Streaming(worker'[v]), Streaming(worker'[u]),
                      worker'[v].n = worker'[u].n, v # u
               PROVE  FALSE
    BY DEF SendersApart, Streaming
  <2>1. CASE v # w /\ u # w
    BY <2>1 DEF CallInv, SendersApart
  <2>2. CASE v = w \/ u = w
    BY <2>2
  <2> QED BY <2>1, <2>2
<1> QED BY <1>1, <1>2 DEF CallInv

\* A reservation looks the same to the call, but for a slot given back.
Alike(row, new) ==
  /\ new.dispatched = row.dispatched /\ new.used = row.used
  /\ new.kind = row.kind /\ new.outcome = row.outcome
  /\ row.released => new.released

\* A reservation goes forward.
Kept(row, new) ==
  /\ row.dispatched => new.dispatched
  /\ row.released => new.released
  /\ row.outcome # "none" => new.outcome = row.outcome

\* A step of the credential group that takes no new reservation, and moves that
\* of a if it has one.
RowsKept(a) ==
  /\ now' >= now /\ DOMAIN res' = DOMAIN res
  /\ \A x \in DOMAIN res \ {a} : Alike(res[x], res'[x])
  /\ a \in DOMAIN res => Kept(res[a], res'[a])
  /\ Charges(res') + Over(res) <= Charges(res) + Over(res')

\* Such a step takes back nothing.
LEMMA GroupLater ==
  ASSUME CallInv, QuotaInv', UNCHANGED attempts, NEW a, RowsKept(a)
  PROVE  Later
<1>1. /\ Len(attempts) \in Nat /\ DOMAIN attempts = 1..Len(attempts)
      /\ now \in Nat /\ now' \in Nat /\ now' >= now
  BY AttemptsTyped DEF CallInv, QuotaInv, RowsKept
<1>2. \A x \in DOMAIN res :
        /\ res[x].dispatched => res'[x].dispatched
        /\ res[x].released => res'[x].released
        /\ res[x].outcome = "success" => res'[x].outcome = "success"
  BY DEF RowsKept, Alike, Kept
<1> QED BY <1>1, <1>2 DEF Later, RowsKept

\* A transaction on one reservation, with the worker that made it.
LEMMA QuotaCallStep ==
  ASSUME CallInv, QuotaInv', UNCHANGED <<attempts, sent, log>>, NEW a, RowsKept(a),
         a \in DOMAIN res => ReservationFits(a)',
         \A n \in DOMAIN attempts : Own[n] = a => AttemptFits(n)',
         run' \in RunRow, run'.maxCost = run.maxCost,
         run'.status = "done" => run.status = "done" \/ DoneFits',
         worker' \in [Workers -> WorkerState],
         NEW w, w \in Workers => WorkerFits(worker[w])' /\ ReserveFits(worker[w])',
         \A v \in Workers : v # w =>
           /\ worker'[v] = worker[v]
           /\ w \in Workers /\ Streaming(worker[v]) /\ Streaming(worker'[w]) =>
                worker[v].n # worker'[w].n
  PROVE  CallInv'
<1>1. CallTyped'
  BY DEF CallInv, CallTyped
<1>2. /\ Len(attempts) \in Nat /\ DOMAIN attempts = 1..Len(attempts)
      /\ \A n \in DOMAIN attempts : attempts[n].deadline \in Int
      /\ now \in Nat /\ now' \in Nat /\ now' >= now
  BY AttemptsTyped DEF CallInv, QuotaInv, RowsKept
<1>3. Later
  BY GroupLater
<1>4. RetriesFit'
  BY DEF CallInv, RetriesFit
<1>5. ASSUME NEW n \in DOMAIN attempts PROVE AttemptFits(n)'
  <2>1. CASE Own[n] = a
    BY <2>1
  <2>2. CASE Own[n] # a
    <3>1. AttemptFits(n)
      BY DEF CallInv
    <3>2. HasReservation(n)' <=> HasReservation(n)
      BY DEF HasReservation, RowsKept
    <3>3. HasReservation(n) => Alike(res[Own[n]], res'[Own[n]])
      BY <2>2 DEF HasReservation, RowsKept
    <3>4. HasMarker(n) => HasMarker(n)'
      BY <3>2, <3>3 DEF HasMarker, Alike
    <3> QED BY <1>2, <3>1, <3>2, <3>3, <3>4 DEF AttemptFits, Alike
  <2> QED BY <2>1, <2>2
<1>6. ASSUME NEW x \in DOMAIN res' PROVE ReservationFits(x)'
  <2>1. x \in DOMAIN res
    BY DEF RowsKept
  <2>2. CASE x = a
    BY <2>1, <2>2
  <2>3. CASE x # a
    <3>1. ReservationFits(x) /\ Alike(res[x], res'[x])
      BY <2>1, <2>3 DEF CallInv, RowsKept
    <3> QED BY <3>1 DEF ReservationFits, Alike
  <2> QED BY <2>2, <2>3
<1>7. ASSUME NEW n \in 1..Len(Own) PROVE RequestFits(n)'
  <2>1. RequestFits(n)
    BY DEF CallInv
  <2>2. HasMarker(n) => HasMarker(n)'
    BY <1>3 DEF HasMarker, HasReservation, Later
  <2> QED BY <2>1, <2>2 DEF RequestFits
<1>8. DoneFits'
  <2>1. ASSUME run.status = "done", NEW n \in DOMAIN attempts, n = Len(attempts)
        PROVE  /\ attempts[n].status = "completed" /\ res'[Own[n]].released
               /\ res'[Own[n]].outcome = "success"
    <3>1. /\ attempts[n].status = "completed" /\ res[Own[n]].released
          /\ res[Own[n]].outcome = "success"
      BY <2>1 DEF CallInv, DoneFits
    <3>2. Own[n] \in DOMAIN res
      BY <3>1 DEF CallInv, AttemptFits, HasMarker, HasReservation
    <3> QED BY <1>3, <3>1, <3>2 DEF Later
  <2> QED BY <2>1 DEF DoneFits
<1>9. BudgetFits'
  BY <1>1, <1>3, BudgetKept DEF RowsKept
<1> QED BY <1>1, <1>3, <1>4, <1>5, <1>6, <1>7, <1>8, <1>9, CallStep

\* The rows of a group nothing happens to, but for the clock.
LEMMA RowsKeptStill ==
  ASSUME CallInv, UNCHANGED res, now' >= now
  PROVE  \A a : RowsKept(a)
<1>1. RowsFit(res)
  BY DEF CallInv, QuotaInv
<1>2. Charges(res) \in Nat /\ Over(res) \in Nat
  BY <1>1, SumsTyped
<1> QED BY <1>2 DEF RowsKept, Alike, Kept

\* The rows of a sweep.
LEMMA RowsKeptSweep ==
  ASSUME CallInv, ExpireRequestSlots
  PROVE  \A a : RowsKept(a)
<1>1. RowsFit(res) /\ now \in Nat /\ res' = ExpiredRows /\ now' = now
  BY DEF CallInv, QuotaInv, ExpireRequestSlots
<1>2. /\ DOMAIN res' = DOMAIN res
      /\ Charges(res') = Charges(res) /\ Over(res') = Over(res)
      /\ \A x \in DOMAIN res :
           /\ res'[x].dispatched = res[x].dispatched /\ res'[x].used = res[x].used
           /\ res'[x].kind = res[x].kind /\ res'[x].outcome = res[x].outcome
           /\ res[x].released => res'[x] = res[x]
  BY <1>1, RowsExpire
<1>3. Charges(res) \in Nat /\ Over(res) \in Nat
  BY <1>1, SumsTyped
<1> QED BY <1>1, <1>2, <1>3 DEF RowsKept, Alike, Kept

\* The rows when one of them moves.
LEMMA RowsKeptMove ==
  ASSUME CallInv, now' = now, NEW a, NEW row, RowMove(res, a, row, res'),
         Kept(res[a], row), row.kind = "none" => row.used = res[a].used,
         res[a].kind # "none" => row.kind = res[a].kind /\ row.used = res[a].used
  PROVE  RowsKept(a) /\ DOMAIN res' = DOMAIN res /\ res'[a] = row
<1>1. RowMoved(res, a, row, res')
  BY RowChange
<1>2. /\ DOMAIN res' = DOMAIN res /\ res'[a] = row /\ RowsFit(res')
      /\ \A x \in DOMAIN res \ {a} : res'[x] = res[x]
      /\ Over(res') = Over(res) + Excess(row) - Excess(res[a])
      /\ Charges(res') = Charges(res) + Charge(row) - Charge(res[a])
  BY <1>1 DEF RowMoved
<1>3. /\ RowsFit(res) /\ a \in DOMAIN res /\ row \in ReservationRow
      /\ res[a] \in ReservationRow /\ row.amount = res[a].amount
      /\ row.status = "settled" <=> row.kind # "none"
      /\ res[a].status = "settled" <=> res[a].kind # "none"
  BY DEF RowMove, RowsFit
<1>4. /\ Charges(res) \in Nat /\ Over(res) \in Nat
      /\ Charges(res') \in Nat /\ Over(res') \in Nat
  BY <1>2, <1>3, SumsTyped
<1>5. /\ Excess(row) \in Nat /\ Excess(res[a]) \in Nat
      /\ Charge(row) \in Nat /\ Charge(res[a]) \in Nat
      /\ Charge(row) + Excess(res[a]) <= Charge(res[a]) + Excess(row)
  <2>1. /\ row.amount \in Nat /\ row.used \in Nat
        /\ res[a].amount \in Nat /\ res[a].used \in Nat
    BY <1>3 DEF ReservationRow
  <2>2. CASE res[a].kind # "none"
    BY <1>3, <2>1, <2>2 DEF Excess, Charge
  <2>3. CASE res[a].kind = "none" /\ row.kind = "none"
    BY <1>3, <2>1, <2>3 DEF Excess, Charge
  <2>4. CASE res[a].kind = "none" /\ row.kind # "none"
    BY <1>3, <2>1, <2>4 DEF Excess, Charge
  <2> QED BY <2>2, <2>3, <2>4
<1>6. Charges(res') + Over(res) <= Charges(res) + Over(res')
  BY <1>2, <1>4, <1>5
<1>7. now' >= now
  BY DEF CallInv, QuotaInv
<1> QED BY <1>2, <1>6, <1>7 DEF RowsKept, Alike


-----------------------------------------------------------------------------
(* Steps of the group, as the call makes them *)

\* The group makes a step for the reservation of a, and the rows of the call
\* stay as they are.
GroupStep(a) ==
  /\ QuotaInv' /\ UNCHANGED <<attempts, sent, log>> /\ RowsKept(a)
  /\ a \in DOMAIN res => ReservationFits(a)'
  /\ \A n \in DOMAIN attempts : Own[n] = a => AttemptFits(n)'

\* The attempts of the step are different reservations.
LEMMA OwnTyped ==
  ASSUME CallInv
  PROVE  /\ NoAttempt \notin DOMAIN res
         /\ \A n \in DOMAIN attempts : Own[n] \in Attempts /\ Own[n] # NoAttempt
         /\ \A m, n \in DOMAIN attempts : Own[m] = Own[n] => m = n
<1>1. \A n \in DOMAIN attempts : n \in 1..Len(Own)
  BY AttemptsTyped DEF CallInv
<1>2. DOMAIN Own = 1..Len(Own) /\ \A n \in DOMAIN Own : Own[n] \in Attempts
  BY AttemptAssumption
<1>3. \A m, n \in DOMAIN Own : Own[m] = Own[n] => m = n
  BY AttemptAssumption DEF IsInjective
<1>4. DOMAIN res \subseteq Attempts
  BY DEF CallInv, QuotaInv, RowsFit
<1> QED BY <1>1, <1>2, <1>3, <1>4, QuotaAssumption

\* A transaction that touches no reservation of this run.
LEMMA GroupQuiet ==
  ASSUME CallInv, QuotaInv', UNCHANGED <<attempts, sent, log>>, RowsKept(NoAttempt)
  PROVE  GroupStep(NoAttempt)
BY OwnTyped DEF GroupStep

\* A step that leaves the group alone.
LEMMA GroupStill ==
  ASSUME CallInv, UNCHANGED quotaVars, UNCHANGED <<attempts, sent, log>>
  PROVE  GroupStep(NoAttempt)
<1>1. QuotaInv'
  BY QuotaStepInv DEF CallInv
<1>2. RowsKept(NoAttempt)
  <2>1. UNCHANGED res /\ now' >= now
    BY DEF quotaVars, CallInv, QuotaInv
  <2> QED BY <2>1, RowsKeptStill
<1> QED BY <1>1, <1>2, GroupQuiet

\* Maintenance and time.
LEMMA GroupSweeps ==
  ASSUME CallInv, ExpireRequestSlots \/ Tick, UNCHANGED <<attempts, sent, log>>
  PROVE  GroupStep(NoAttempt)
<1>1. QuotaInv'
  BY QuotaStepInv DEF CallInv, QuotaMoves
<1>2. RowsKept(NoAttempt)
  <2>1. CASE ExpireRequestSlots
    BY <2>1, RowsKeptSweep
  <2>2. CASE Tick
    <3>1. UNCHANGED res /\ now' >= now
      BY <2>2 DEF Tick, CallInv, QuotaInv
    <3> QED BY <3>1, RowsKeptStill
  <2> QED BY <2>1, <2>2
<1> QED BY <1>1, <1>2, GroupQuiet

\* A row that moves and looks the same.
LEMMA RowsKeptAlike ==
  ASSUME CallInv, NEW a, RowsKept(a), a \in DOMAIN res, Alike(res[a], res'[a])
  PROVE  RowsKept(NoAttempt)
BY OwnTyped DEF RowsKept

\* MarkUnknown, as the call sees it.
LEMMA GroupMarksUnknown ==
  ASSUME CallInv, NEW a, MarkUnknown(a), UNCHANGED <<attempts, sent, log>>
  PROVE  GroupStep(NoAttempt) /\ a \in DOMAIN res /\ DOMAIN res' = DOMAIN res
         /\ res'[a].dispatched = res[a].dispatched
<1> DEFINE row == [res[a] EXCEPT !.status = "unknown"]
<1>1. /\ a \in DOMAIN res /\ res \in [DOMAIN res -> ReservationRow] /\ RowsFit(res)
      /\ res[a].status # "settled" /\ res' = [res EXCEPT ![a].status = "unknown"]
      /\ now' = now
  BY DEF MarkUnknown, CallInv, QuotaInv, RowsFit
<1>2. res[a] \in ReservationRow /\ res[a].kind = "none"
  BY <1>1 DEF RowsFit, ReservationRow
<1>3. /\ row \in ReservationRow /\ row.amount = res[a].amount
      /\ row.released = res[a].released /\ row.kind = res[a].kind
      /\ row.used = res[a].used /\ row.outcome = res[a].outcome
      /\ row.dispatched = res[a].dispatched /\ row.status = "unknown"
  BY <1>2 DEF ReservationRow
<1>4. res' = [res EXCEPT ![a] = row]
  BY <1>1
<1> HIDE DEF row
<1>5. RowMove(res, a, row, res') /\ Kept(res[a], row) /\ Alike(res[a], row)
  BY <1>1, <1>2, <1>3, <1>4 DEF RowMove, Kept, Alike
<1>6. RowsKept(a) /\ DOMAIN res' = DOMAIN res /\ res'[a] = row
  BY <1>1, <1>2, <1>3, <1>5, RowsKeptMove
<1>7. RowsKept(NoAttempt)
  BY <1>1, <1>5, <1>6, RowsKeptAlike
<1>8. QuotaInv'
  BY MarkUnknownInv DEF CallInv
<1> QED BY <1>1, <1>3, <1>6, <1>7, <1>8, GroupQuiet

\* CompleteWithUnknownUsage, as the call sees it.
LEMMA GroupCompletes ==
  ASSUME CallInv, NEW a, CompleteWithUnknownUsage(a), UNCHANGED <<attempts, sent, log>>
  PROVE  /\ GroupStep(NoAttempt) /\ a \in DOMAIN res /\ DOMAIN res' = DOMAIN res
         /\ res'[a].released /\ res'[a].dispatched = res[a].dispatched
<1> DEFINE row == [res[a] EXCEPT !.status = "unknown", !.released = TRUE]
<1>1. /\ a \in DOMAIN res /\ res \in [DOMAIN res -> ReservationRow] /\ RowsFit(res)
      /\ res[a].status # "settled" /\ now' = now
      /\ res' = [res EXCEPT ![a].status = "unknown", ![a].released = TRUE]
  BY DEF CompleteWithUnknownUsage, CallInv, QuotaInv, RowsFit
<1>2. res[a] \in ReservationRow /\ res[a].kind = "none"
  BY <1>1 DEF RowsFit, ReservationRow
<1>3. /\ row \in ReservationRow /\ row.amount = res[a].amount
      /\ row.released /\ row.kind = res[a].kind
      /\ row.used = res[a].used /\ row.outcome = res[a].outcome
      /\ row.dispatched = res[a].dispatched /\ row.status = "unknown"
  BY <1>2 DEF ReservationRow
<1>4. res' = [res EXCEPT ![a] = row]
  BY <1>1
<1> HIDE DEF row
<1>5. RowMove(res, a, row, res') /\ Kept(res[a], row) /\ Alike(res[a], row)
  BY <1>1, <1>2, <1>3, <1>4 DEF RowMove, Kept, Alike
<1>6. RowsKept(a) /\ DOMAIN res' = DOMAIN res /\ res'[a] = row
  BY <1>1, <1>2, <1>3, <1>5, RowsKeptMove
<1>7. RowsKept(NoAttempt)
  BY <1>1, <1>5, <1>6, RowsKeptAlike
<1>8. QuotaInv'
  BY CompleteWithUnknownUsageInv DEF CallInv
<1> QED BY <1>1, <1>3, <1>6, <1>7, <1>8, GroupQuiet

\* What a step for the reservation of the n-th attempt has to keep.
LEMMA GroupOwn ==
  ASSUME CallInv, QuotaInv', UNCHANGED <<attempts, sent, log>>,
         NEW n \in DOMAIN attempts, NEW a, a = Own[n], a \in DOMAIN res,
         RowsKept(a),
         /\ res'[a].kind = "not_dispatched" => ~res'[a].dispatched
         /\ res'[a].kind # "none" => res'[a].released
         /\ res'[a].kind = "actual_usage" =>
              \/ res[a].kind = "actual_usage" /\ res'[a].used = res[a].used
              \/ attempts[n].status = "completed" /\ res'[a].used = attempts[n].usage
         /\ res'[a].outcome # "none" =>
              \/ res'[a].outcome = res[a].outcome
              \/ attempts[n].status = "completed" /\ res'[a].outcome = "success"
              \/ /\ attempts[n].status = "failed"
                 /\ res'[a].outcome = attempts[n].policy.plan.outcome
  PROVE  GroupStep(a)
<1>1. AttemptFits(n) /\ ReservationFits(a)
  BY DEF CallInv
<1>2. DOMAIN res' = DOMAIN res /\ Kept(res[a], res'[a])
  BY DEF RowsKept
<1>3. ReservationFits(a)'
  BY <1>1, <1>2 DEF ReservationFits
<1>4. HasReservation(n) /\ HasReservation(n)' /\ (HasMarker(n) => HasMarker(n)')
  BY <1>2 DEF HasReservation, HasMarker, Kept
<1>5. AttemptFits(n)'
  BY <1>1, <1>4 DEF AttemptFits
<1>6. \A m \in DOMAIN attempts : Own[m] = a => m = n
  BY OwnTyped
<1> QED BY <1>3, <1>5, <1>6 DEF GroupStep

\* MarkDispatched, as the call sees it.
LEMMA GroupMarksDispatched ==
  ASSUME CallInv, NEW n \in DOMAIN attempts, NEW a, a = Own[n], MarkDispatched(a),
         UNCHANGED <<attempts, sent, log>>
  PROVE  /\ GroupStep(a) /\ a \in DOMAIN res /\ a \in DOMAIN res'
         /\ res'[a].dispatched /\ ~res[a].dispatched
<1> DEFINE row == [res[a] EXCEPT !.dispatched = TRUE]
<1>1. /\ a \in DOMAIN res /\ res \in [DOMAIN res -> ReservationRow] /\ RowsFit(res)
      /\ res[a].status = "reserved" /\ ~res[a].dispatched /\ now' = now
      /\ res' = [res EXCEPT ![a].dispatched = TRUE]
  BY DEF MarkDispatched, CallInv, QuotaInv, RowsFit
<1>2. res[a] \in ReservationRow /\ res[a].kind = "none"
  BY <1>1 DEF RowsFit, ReservationRow
<1>3. /\ row \in ReservationRow /\ row.amount = res[a].amount
      /\ row.released = res[a].released /\ row.kind = res[a].kind
      /\ row.used = res[a].used /\ row.outcome = res[a].outcome
      /\ row.dispatched /\ row.status = res[a].status
  BY <1>2 DEF ReservationRow
<1>4. res' = [res EXCEPT ![a] = row]
  BY <1>1
<1> HIDE DEF row
<1>5. RowMove(res, a, row, res') /\ Kept(res[a], row)
  BY <1>1, <1>2, <1>3, <1>4 DEF RowMove, Kept
<1>6. RowsKept(a) /\ DOMAIN res' = DOMAIN res /\ res'[a] = row
  BY <1>1, <1>2, <1>3, <1>5, RowsKeptMove
<1>7. QuotaInv'
  BY MarkDispatchedInv DEF CallInv
<1>8. GroupStep(a)
  BY <1>1, <1>2, <1>3, <1>6, <1>7, GroupOwn
<1> QED BY <1>1, <1>3, <1>6, <1>8

\* settle with the usage of the attempt, as the call sees it.
LEMMA GroupSettles ==
  ASSUME CallInv, NEW n \in DOMAIN attempts, NEW a, a = Own[n], NEW used \in Nat,
         NEW kind \in {"actual_usage", "not_dispatched"}, settle(a, used, kind),
         kind = "actual_usage" =>
           attempts[n].status = "completed" /\ used = attempts[n].usage,
         UNCHANGED <<attempts, sent, log>>
  PROVE  /\ GroupStep(a) /\ a \in DOMAIN res /\ DOMAIN res' = DOMAIN res
         /\ res'[a].dispatched = res[a].dispatched /\ res'[a].released
<1> DEFINE row == [res[a] EXCEPT !.status = "settled", !.used = used,
                                 !.kind = kind, !.released = TRUE]
<1>1. /\ a \in DOMAIN res /\ res \in [DOMAIN res -> ReservationRow] /\ RowsFit(res)
      /\ now' = now
  BY DEF settle, CallInv, QuotaInv, RowsFit
<1>2. /\ res[a] \in ReservationRow
      /\ res[a].status = "settled" <=> res[a].kind # "none"
      /\ ReservationFits(a)
  BY <1>1 DEF RowsFit, CallInv
<1>3. QuotaInv'
  BY settleInv DEF CallInv
<1>4. CASE res[a].status = "settled" /\ UNCHANGED res
  <2>1. RowsKept(a)
    <3>1. now' >= now
      BY <1>1 DEF CallInv, QuotaInv
    <3> QED BY <1>4, <3>1, RowsKeptStill
  <2>2. GroupStep(a)
    BY <1>1, <1>2, <1>3, <1>4, <2>1, GroupOwn DEF ReservationFits
  <2> QED BY <1>1, <1>2, <1>4, <2>2 DEF ReservationFits
<1>5. CASE /\ res[a].status # "settled"
           /\ kind = "not_dispatched" <=> ~res[a].dispatched
           /\ res' = [res EXCEPT ![a].status = "settled", ![a].used = used,
                                 ![a].kind = kind, ![a].released = TRUE]
  <2>1. /\ row \in ReservationRow /\ row.amount = res[a].amount
        /\ row.released /\ row.kind = kind /\ row.used = used
        /\ row.outcome = res[a].outcome
        /\ row.dispatched = res[a].dispatched /\ row.status = "settled"
    BY <1>2 DEF ReservationRow
  <2>2. res' = [res EXCEPT ![a] = row]
    BY <1>1, <1>5
  <2> HIDE DEF row
  <2>3. RowMove(res, a, row, res') /\ Kept(res[a], row)
    BY <1>1, <2>1, <2>2 DEF RowMove, Kept
  <2>4. RowsKept(a) /\ DOMAIN res' = DOMAIN res /\ res'[a] = row
    BY <1>1, <1>2, <1>5, <2>1, <2>3, RowsKeptMove
  <2>5. GroupStep(a)
    BY <1>1, <1>3, <1>5, <2>1, <2>4, GroupOwn
  <2> QED BY <1>1, <2>1, <2>4, <2>5
<1> QED BY <1>4, <1>5 DEF settle

\* RecordOutcome with the outcome of the attempt, as the call sees it.
LEMMA GroupRecords ==
  ASSUME CallInv, NEW n \in DOMAIN attempts, NEW a, a = Own[n], NEW o \in Outcomes,
         RecordOutcome(a, o), UNCHANGED <<attempts, sent, log>>,
         \/ attempts[n].status = "completed" /\ o = "success"
         \/ attempts[n].status = "failed" /\ o = attempts[n].policy.plan.outcome
  PROVE  /\ GroupStep(a) /\ a \in DOMAIN res /\ DOMAIN res' = DOMAIN res
         /\ res'[a].dispatched = res[a].dispatched
         /\ res'[a].released = res[a].released /\ res'[a].outcome = o
<1> DEFINE row == [res[a] EXCEPT !.outcome = o]
<1>1. /\ a \in DOMAIN res /\ res \in [DOMAIN res -> ReservationRow] /\ RowsFit(res)
      /\ now' = now
  BY DEF RecordOutcome, CallInv, QuotaInv, RowsFit
<1>2. /\ res[a] \in ReservationRow
      /\ res[a].status = "settled" <=> res[a].kind # "none"
      /\ ReservationFits(a)
  BY <1>1 DEF RowsFit, CallInv
<1>3. QuotaInv'
  BY RecordOutcomeInv DEF CallInv
<1>4. CASE res[a].outcome = o /\ UNCHANGED res
  <2>1. RowsKept(a)
    <3>1. now' >= now
      BY <1>1 DEF CallInv, QuotaInv
    <3> QED BY <1>4, <3>1, RowsKeptStill
  <2>2. GroupStep(a)
    BY <1>1, <1>2, <1>3, <1>4, <2>1, GroupOwn DEF ReservationFits
  <2> QED BY <1>1, <1>2, <1>4, <2>2
<1>5. CASE res[a].outcome = "none" /\ res' = [res EXCEPT ![a].outcome = o]
  <2>1. /\ row \in ReservationRow /\ row.amount = res[a].amount
        /\ row.released = res[a].released /\ row.kind = res[a].kind
        /\ row.used = res[a].used /\ row.outcome = o
        /\ row.dispatched = res[a].dispatched /\ row.status = res[a].status
    BY <1>2 DEF ReservationRow, Outcomes
  <2>2. res' = [res EXCEPT ![a] = row]
    BY <1>1, <1>5
  <2> HIDE DEF row
  <2>3. RowMove(res, a, row, res') /\ Kept(res[a], row)
    BY <1>1, <1>2, <1>5, <2>1, <2>2 DEF RowMove, Kept
  <2>4. RowsKept(a) /\ DOMAIN res' = DOMAIN res /\ res'[a] = row
    BY <1>1, <1>2, <1>5, <2>1, <2>3, RowsKeptMove
  <2>5. /\ res'[a].kind = "not_dispatched" => ~res'[a].dispatched
        /\ res'[a].kind # "none" => res'[a].released
        /\ res'[a].kind = "actual_usage" =>
             res[a].kind = "actual_usage" /\ res'[a].used = res[a].used
        /\ \/ attempts[n].status = "completed" /\ res'[a].outcome = "success"
           \/ /\ attempts[n].status = "failed"
              /\ res'[a].outcome = attempts[n].policy.plan.outcome
    BY <1>2, <2>1, <2>4 DEF ReservationFits
  <2>6. GroupStep(a)
    BY <1>1, <1>3, <2>4, <2>5, GroupOwn
  <2> QED BY <1>1, <2>1, <2>4, <2>6
<1> QED BY <1>4, <1>5 DEF RecordOutcome


-----------------------------------------------------------------------------
(* Steps of a worker *)

\* The row of the run keeps its limit and is not finished by this step.
RunKept ==
  /\ run' \in RunRow /\ run'.maxCost = run.maxCost
  /\ run'.status = "done" => run.status = "done"

\* What a step of worker w makes of it.
Becomes(w, pc, n, plan) ==
  /\ worker' \in [Workers -> WorkerState]
  /\ \A v \in Workers : v # w => worker'[v] = worker[v]
  /\ worker'[w].pc = pc /\ worker'[w].n = n /\ worker'[w].plan = plan

\* Nothing is known of the text yet.
Fresh(x) == x.fed = 0 /\ x.done = 0

\* An idle worker.
LEMMA IdleTyped ==
  Idle \in WorkerState /\ NoPlan \in PlanRow /\ Idle.pc = "idle" /\ Idle.n = 0
  /\ Idle.plan = NoPlan /\ Fresh(Idle) /\ Idle.route = "primary"
<1>1. NoPlan \in PlanRow
  BY DEF NoPlan, Plan, PlanRow, Codes
<1>2. "primary" \in Routes
  BY AttemptAssumption
<1> QED BY <1>1, <1>2 DEF Idle, WorkerState, Steps, Fresh, Unknown

\* The facts about one worker that its next step needs.
LEMMA WorkerTyped ==
  ASSUME CallInv, NEW w \in Workers
  PROVE  /\ worker[w] \in WorkerState /\ WorkerFits(worker[w])
         /\ worker \in [Workers -> WorkerState]
         /\ worker[w].n \in Nat /\ worker[w].n <= Len(attempts)
         /\ Len(attempts) \in Nat /\ DOMAIN attempts = 1..Len(attempts)
         /\ worker[w].pc \notin {"idle", "route", "begin"} =>
              /\ worker[w].n \in DOMAIN attempts /\ Own[worker[w].n] \in Attempts
              /\ worker[w].n \in 1..Len(Own)
         /\ worker[w].plan \in PlanRow /\ run \in RunRow
<1>1. /\ worker[w] \in WorkerState /\ WorkerFits(worker[w])
      /\ worker \in [Workers -> WorkerState] /\ run \in RunRow
  BY DEF CallInv, CallTyped
<1>2. /\ Len(attempts) \in Nat /\ DOMAIN attempts = 1..Len(attempts)
      /\ \A n \in DOMAIN attempts : n \in 1..Len(Own)
  BY AttemptsTyped DEF CallInv
<1>3. worker[w].n \in Nat /\ worker[w].plan \in PlanRow
  BY <1>1 DEF WorkerState
<1>4. worker[w].n <= Len(attempts)
  BY <1>1 DEF WorkerFits
<1>5. worker[w].pc \notin {"idle", "route", "begin"} => worker[w].n \in DOMAIN attempts
  BY <1>1, <1>2, <1>3, <1>4 DEF WorkerFits
<1> QED BY <1>1, <1>2, <1>3, <1>4, <1>5, OwnTyped

\* A worker that leaves is idle.
LEMMA LeaveBecomes ==
  ASSUME CallInv, NEW w \in Workers, Leave(w)
  PROVE  Becomes(w, "idle", 0, NoPlan) /\ worker'[w] = Idle
BY WorkerTyped, IdleTyped DEF Leave, Becomes

\* A worker that goes on keeps its attempt and its plan.
LEMMA GotoBecomes ==
  ASSUME CallInv, NEW w \in Workers, NEW pc \in Steps, Goto(w, pc)
  PROVE  /\ Becomes(w, pc, worker[w].n, worker[w].plan)
         /\ worker'[w].fed = worker[w].fed /\ worker'[w].done = worker[w].done
<1> DEFINE x == [worker[w] EXCEPT !.pc = pc]
<1>1. worker[w] \in WorkerState /\ worker \in [Workers -> WorkerState]
  BY WorkerTyped
<1>2. /\ x \in WorkerState /\ x.pc = pc /\ x.n = worker[w].n /\ x.plan = worker[w].plan
      /\ x.fed = worker[w].fed /\ x.done = worker[w].done
  BY <1>1 DEF WorkerState
<1>3. worker' = [worker EXCEPT ![w] = x]
  BY <1>1 DEF Goto
<1> HIDE DEF x
<1> QED BY <1>1, <1>2, <1>3 DEF Becomes

\* A worker that goes on with a plan for its attempt.
LEMMA GoOnBecomes ==
  ASSUME CallInv, NEW w \in Workers, NEW pc \in Steps, NEW plan \in PlanRow,
         GoOn(w, pc, plan)
  PROVE  Becomes(w, pc, worker[w].n, plan) /\ Fresh(worker'[w])
<1> DEFINE x == [Idle EXCEPT !.pc = pc, !.n = worker[w].n,
                             !.epoch = worker[w].epoch, !.plan = plan]
<1>1. worker[w] \in WorkerState /\ worker \in [Workers -> WorkerState]
  BY WorkerTyped
<1>2. /\ x \in WorkerState /\ x.pc = pc /\ x.n = worker[w].n /\ x.plan = plan
      /\ x.fed = 0 /\ x.done = 0
  <2>1. worker[w].n \in Nat /\ worker[w].epoch \in Nat
    BY <1>1 DEF WorkerState
  <2> QED BY <2>1, IdleTyped DEF WorkerState, Fresh
<1>3. worker' = [worker EXCEPT ![w] = x]
  BY DEF GoOn
<1> HIDE DEF x
<1> QED BY <1>1, <1>2, <1>3 DEF Becomes, Fresh

\* A worker that goes on to a step in which it neither sends nor reserves.
LEMMA GoStep ==
  ASSUME CallInv, NEW a, GroupStep(a), RunKept, NEW w \in Workers,
         NEW pc, NEW n, NEW plan, Becomes(w, pc, n, plan),
         pc \notin {"send", "stream", "complete", "reserve"}, WorkerFits(worker[w])'
  PROVE  CallInv'
<1>1. ReserveFits(worker[w])'
  BY DEF ReserveFits, Becomes
<1>2. ~Streaming(worker'[w])
  BY DEF Streaming, Becomes
<1> QED BY <1>1, <1>2, QuotaCallStep DEF GroupStep, RunKept, Becomes

\* A transaction on the group, after which the worker leaves.
LEMMA LeaveStep ==
  ASSUME CallInv, NEW a, GroupStep(a), RunKept, NEW w \in Workers, Leave(w)
  PROVE  CallInv'
<1>1. Becomes(w, "idle", 0, NoPlan) /\ worker'[w] = Idle
  BY LeaveBecomes
<1>2. /\ worker'[w].pc = "idle" /\ worker'[w].n = 0 /\ worker'[w].plan = NoPlan
      /\ worker'[w].fed = 0 /\ worker'[w].done = 0
  BY <1>1, IdleTyped DEF Fresh
<1>3. Len(attempts') \in Nat
  BY AttemptsTyped DEF CallInv, GroupStep
<1>4. WorkerFits(worker[w])'
  BY <1>2, <1>3 DEF WorkerFits
<1> QED BY <1>1, <1>4, GoStep

\* The run stays as it is, or the worker ends it or puts it off.
LEMMA RunKeptStill ==
  ASSUME CallInv, UNCHANGED run
  PROVE  RunKept
BY DEF CallInv, CallTyped, RunKept

\* Advance writes a status and ends the worker's part.
LEMMA AdvanceRun ==
  ASSUME CallInv, NEW w \in Workers,
         NEW status \in {"model", "done", "failed", "cancelled", "budget"},
         Advance(w, status)
  PROVE  /\ run' \in RunRow /\ run'.maxCost = run.maxCost /\ Leave(w)
         /\ run'.status \in {run.status, status}
<1>1. run \in RunRow
  BY DEF CallInv, CallTyped
<1> DEFINE r == [run EXCEPT !.status = status, !.owner = NoWorker]
<1>2. r \in RunRow /\ r.maxCost = run.maxCost /\ r.status = status
  BY <1>1 DEF RunRow
<1>3. run' \in {r, run} /\ Leave(w)
  BY DEF Advance
<1> HIDE DEF r
<1> QED BY <1>1, <1>2, <1>3

\* The run fails or is out of budget, if the worker still holds it.
LEMMA FailsStep ==
  ASSUME CallInv, NEW a, GroupStep(a), NEW w \in Workers,
         Fails(w) \/ Advance(w, "budget")
  PROVE  CallInv'
<1>1. PICK status \in {"failed", "budget"} : Advance(w, status)
  BY DEF Fails
<1>2. RunKept /\ Leave(w)
  BY <1>1, AdvanceRun DEF RunKept
<1> QED BY <1>2, LeaveStep

\* deferRun puts the run off and gives it back.
LEMMA deferRunStep ==
  ASSUME CallInv, NEW a, GroupStep(a), NEW w \in Workers, NEW until \in Int,
         deferRun(w, until)
  PROVE  CallInv'
<1>1. run \in RunRow
  BY DEF CallInv, CallTyped
<1> DEFINE r == [run EXCEPT !.owner = NoWorker, !.notBefore = until]
<1>2. r \in RunRow /\ r.maxCost = run.maxCost /\ r.status = run.status
  BY <1>1 DEF RunRow
<1>3. run' \in {r, run} /\ Leave(w)
  BY DEF deferRun
<1> HIDE DEF r
<1>4. RunKept
  BY <1>1, <1>2, <1>3 DEF RunKept
<1> QED BY <1>3, <1>4, LeaveStep

\* Driver.step postpones what must be reconciled.
LEMMA ReconcileStep ==
  ASSUME CallInv, NEW a, GroupStep(a), NEW w \in Workers, Reconcile(w)
  PROVE  CallInv'
<1>1. now + 1 \in Int
  BY DEF CallInv, QuotaInv
<1> QED BY <1>1, deferRunStep DEF Reconcile

\* A worker that goes on to such a step and finds there what it needs.
LEMMA OnStep ==
  ASSUME CallInv, NEW a, GroupStep(a), RunKept, NEW w \in Workers,
         NEW pc, NEW n, NEW plan, Becomes(w, pc, n, plan),
         pc \notin {"send", "stream", "complete", "reserve"}, WorkerFits(worker'[w])
  PROVE  CallInv'
<1>1. CallTyped' /\ QuotaInv'
  BY DEF CallInv, CallTyped, GroupStep, RunKept, Becomes
<1>2. Later
  BY <1>1, GroupLater DEF GroupStep
<1>3. PICK x : x = worker'[w]
  OBVIOUS
<1>4. x \in WorkerState /\ WorkerFits(x) /\ ~Streaming(x)
  BY <1>3 DEF Becomes, Streaming
<1>5. WorkerFits(x)'
  BY <1>1, <1>2, <1>4, WorkerKept
<1>6. WorkerFits(worker[w])'
  BY <1>3, <1>5 DEF WorkerFits, HasReservation, HasMarker
<1> QED BY <1>6, GoStep

-----------------------------------------------------------------------------
(* The actions of the call that leave the group and the attempts alone *)

\* Other runs, the clock, maintenance, a lost lease or a cancellation.
LEMMA OthersStepInv ==
  ASSUME CallInv, OthersStep \/ LeaseExpires \/ Cancel
  PROVE  CallInv'
<1>1. GroupStep(NoAttempt)
  BY GroupStill, GroupSweeps DEF OthersStep, callVars, LeaseExpires, Cancel
<1>2. run \in RunRow /\ worker \in [Workers -> WorkerState] /\ UNCHANGED worker
  BY DEF CallInv, CallTyped, OthersStep, callVars, LeaseExpires, Cancel
<1>3. RunKept
  BY <1>2 DEF RunKept, RunRow, OthersStep, callVars, LeaseExpires, Cancel
<1>4. NoWorker \notin Workers
  BY AttemptAssumption
<1> QED BY <1>1, <1>2, <1>3, <1>4, QuotaCallStep DEF GroupStep, RunKept

\* A worker dies; its attempt stays as it is.
LEMMA DieInv ==
  ASSUME CallInv, NEW w \in Workers, Die(w)
  PROVE  CallInv'
<1>1. GroupStep(NoAttempt) /\ RunKept
  BY GroupStill, RunKeptStill DEF Die
<1> QED BY <1>1, LeaveStep DEF Die

\* Another worker claims the run.
LEMMA ClaimInv ==
  ASSUME CallInv, NEW w \in Workers, Claim(w)
  PROVE  CallInv'
<1> DEFINE m == Len(attempts)
           x == [Idle EXCEPT !.pc = Resume(m), !.n = m, !.epoch = run.epoch + 1]
<1>1. GroupStep(NoAttempt)
  BY GroupStill DEF Claim
<1>2. /\ run \in RunRow /\ run.epoch + 1 \in Nat
      /\ run' = [run EXCEPT !.owner = w, !.epoch = run.epoch + 1]
  BY DEF CallInv, CallTyped, RunRow, Claim
<1>3. RunKept
  BY <1>2 DEF RunKept, RunRow
<1>4. /\ m \in Nat /\ DOMAIN attempts = 1..m
      /\ \A n \in DOMAIN attempts :
           attempts[n].status \in {"prepared", "completed", "failed"}
  BY AttemptsTyped DEF CallInv
<1>5. /\ Resume(m) \in {"route", "get", "settle", "replay"}
      /\ Resume(m) # "route" => m > 0
      /\ Resume(m) = "settle" => attempts[m].status = "completed"
      /\ Resume(m) = "replay" => attempts[m].status = "failed"
  BY <1>4 DEF Resume
<1>6. /\ x \in WorkerState /\ x.pc = Resume(m) /\ x.n = m /\ x.plan = NoPlan
      /\ x.fed = 0 /\ x.done = 0
  BY <1>2, <1>4, <1>5, IdleTyped DEF WorkerState, Steps, Fresh
<1>7. worker' = [worker EXCEPT ![w] = x]
  BY DEF Claim
<1> HIDE DEF x
<1>8. Becomes(w, Resume(m), m, NoPlan) /\ worker'[w] = x
  BY <1>6, <1>7, WorkerTyped DEF Becomes
<1>9. WorkerFits(worker'[w])
  <2>1. m > 0 /\ attempts[m].status = "completed" => HasMarker(m)
    BY <1>4 DEF CallInv, AttemptFits
  <2> QED BY <1>4, <1>5, <1>6, <1>8, <2>1 DEF WorkerFits
<1> QED BY <1>1, <1>3, <1>5, <1>8, <1>9, OnStep

\* The route of the next attempt is chosen.
LEMMA SelectRouteInv ==
  ASSUME CallInv, NEW w \in Workers, SelectRoute(w)
  PROVE  CallInv'
<1>1. GroupStep(NoAttempt) /\ worker[w].pc = "route"
  BY GroupStill DEF SelectRoute
<1>2. CASE Fails(w) \/ Advance(w, "budget") \/ Reconcile(w)
  BY <1>1, <1>2, FailsStep, ReconcileStep
<1>3. ASSUME NEW r \in Routes, UNCHANGED run,
             worker' = [worker EXCEPT ![w].pc = "begin", ![w].route = r]
      PROVE  CallInv'
  <2> DEFINE x == [worker[w] EXCEPT !.pc = "begin", !.route = r]
  <2>1. /\ worker[w] \in WorkerState /\ worker \in [Workers -> WorkerState]
        /\ WorkerFits(worker[w])
    BY WorkerTyped
  <2>2. /\ x \in WorkerState /\ x.pc = "begin" /\ x.n = worker[w].n
        /\ x.plan = worker[w].plan /\ x.fed = worker[w].fed
        /\ x.done = worker[w].done
    BY <2>1 DEF WorkerState, Steps
  <2>3. worker' = [worker EXCEPT ![w] = x]
    BY <1>3, <2>1
  <2> HIDE DEF x
  <2>4. Becomes(w, "begin", worker[w].n, worker[w].plan) /\ worker'[w] = x
    BY <2>1, <2>2, <2>3 DEF Becomes
  <2>5. WorkerFits(worker'[w])
    BY <1>1, <2>1, <2>2, <2>4 DEF WorkerFits
  <2>6. RunKept
    BY <1>3, RunKeptStill
  <2> QED BY <1>1, <2>4, <2>5, <2>6, OnStep
<1>4. ActiveModelRoute \in Routes
  <2>1. attempts # << >> => Len(attempts) \in DOMAIN attempts
    BY DEF CallInv, CallTyped
  <2> QED BY <2>1, AttemptsTyped, AttemptAssumption DEF ActiveModelRoute, CallInv
<1>5. MayFallBack(w) => "fallback" \in Routes
  BY DEF MayFallBack
<1> QED BY <1>2, <1>3, <1>4, <1>5 DEF SelectRoute

\* The checks between the reserve and the dispatch.
LEMMA ReadyInv ==
  ASSUME CallInv, NEW w \in Workers, Ready(w)
  PROVE  CallInv'
<1>1. GroupStep(NoAttempt) /\ worker[w].pc = "ready"
  BY GroupStill DEF Ready
<1>2. WorkerFits(worker[w]) /\ worker[w].n \in Nat
  BY WorkerTyped
<1>3. CASE Fails(w) \/ Reconcile(w)
  BY <1>1, <1>3, FailsStep, ReconcileStep
<1>4. CASE Leave(w) /\ UNCHANGED run
  BY <1>1, <1>4, LeaveStep, RunKeptStill
<1>5. CASE Goto(w, "mark") /\ UNCHANGED run
  <2>1. "mark" \in Steps
    BY DEF Steps
  <2>2. /\ Becomes(w, "mark", worker[w].n, worker[w].plan)
        /\ worker'[w].fed = worker[w].fed /\ worker'[w].done = worker[w].done
    BY <1>5, <2>1, GotoBecomes
  <2>3. WorkerFits(worker'[w])
    BY <1>1, <1>2, <2>2 DEF WorkerFits, Becomes
  <2> QED BY <1>1, <1>5, <2>2, <2>3, OnStep, RunKeptStill
<1>6. CASE /\ GoOn(w, "abandon", Plan("input_bound", FALSE, "neutral"))
           /\ UNCHANGED run
  <2> DEFINE plan == Plan("input_bound", FALSE, "neutral")
  <2>1. "abandon" \in Steps /\ plan \in PlanRow /\ PlanFits(plan) /\ plan # NoPlan
    BY DEF Steps, Plan, PlanRow, Codes, Outcomes, PlanFits, NoPlan
  <2>2. Becomes(w, "abandon", worker[w].n, plan) /\ Fresh(worker'[w])
    BY <1>6, <2>1, GoOnBecomes
  <2> HIDE DEF plan
  <2>3. WorkerFits(worker'[w])
    BY <1>1, <1>2, <2>1, <2>2 DEF WorkerFits, Becomes, Fresh
  <2> QED BY <1>1, <1>6, <2>2, <2>3, OnStep, RunKeptStill
<1> QED BY <1>3, <1>4, <1>5, <1>6 DEF Ready

\* A worker that streams and goes on streaming the same answer.
LEMMA StreamStep ==
  ASSUME CallInv, GroupStep(NoAttempt), RunKept, NEW w \in Workers, Streaming(worker[w]),
         NEW pc, NEW plan, pc # "reserve", Becomes(w, pc, worker[w].n, plan),
         WorkerFits(worker[w])'
  PROVE  CallInv'
<1>1. ReserveFits(worker[w])'
  BY DEF ReserveFits, Becomes
<1>2. \A v \in Workers : v # w /\ Streaming(worker[v]) => worker[v].n # worker'[w].n
  BY DEF CallInv, SendersApart, Becomes
<1> QED BY <1>1, <1>2, QuotaCallStep DEF GroupStep, RunKept, Becomes

\* emit: a piece of the answer comes in.
LEMMA emitInv ==
  ASSUME CallInv, NEW w \in Workers, emit(w)
  PROVE  CallInv'
<1> DEFINE x == [worker[w] EXCEPT !.fed = worker[w].fed + 1]
<1>1. /\ GroupStep(NoAttempt) /\ RunKept /\ worker[w].pc = "stream"
      /\ worker[w].fed < Chunks /\ UNCHANGED <<quotaVars, attempts, sent, log>>
  BY GroupStill, RunKeptStill DEF emit
<1>2. /\ worker[w] \in WorkerState /\ worker \in [Workers -> WorkerState]
      /\ WorkerFits(worker[w])
  BY WorkerTyped
<1>3. worker[w].fed \in Nat /\ worker[w].fed + 1 \in Nat /\ worker[w].done \in Nat
  BY <1>2 DEF WorkerState
<1>4. /\ x \in WorkerState /\ x.pc = "stream" /\ x.n = worker[w].n
      /\ x.plan = worker[w].plan /\ x.fed = worker[w].fed + 1
      /\ x.done = worker[w].done
  BY <1>1, <1>2, <1>3 DEF WorkerState
<1>5. worker' = [worker EXCEPT ![w] = x]
  BY <1>2 DEF emit
<1> HIDE DEF x
<1>6. Becomes(w, "stream", worker[w].n, worker[w].plan) /\ worker'[w] = x
  BY <1>2, <1>4, <1>5 DEF Becomes
<1>7. x.done <= x.fed /\ x.fed <= Chunks
  BY <1>1, <1>2, <1>3, <1>4, AttemptAssumption DEF WorkerFits
<1>8. WorkerFits(worker[w])'
  BY <1>1, <1>2, <1>4, <1>6, <1>7 DEF WorkerFits, HasReservation, HasMarker, quotaVars
<1> QED BY <1>1, <1>6, <1>8, StreamStep DEF Streaming

\* What an attempt is given up for.
LEMMA PlanTyped ==
  ASSUME NEW code \in Codes, code # "none", NEW retry \in BOOLEAN,
         NEW outcome \in Outcomes, code = "unavailable" => outcome = "failure"
  PROVE  /\ Plan(code, retry, outcome) \in PlanRow
         /\ PlanFits(Plan(code, retry, outcome)) /\ Plan(code, retry, outcome) # NoPlan
<1> DEFINE plan == Plan(code, retry, outcome)
<1>1. /\ plan = [code |-> code, retry |-> retry, outcome |-> outcome]
      /\ NoPlan.code = "none"
  BY DEF Plan, NoPlan
<1>2. plan.code = code /\ plan.outcome = outcome /\ plan \in PlanRow
  BY <1>1 DEF PlanRow
<1> QED BY <1>1, <1>2 DEF PlanFits

\* The plans of a stream that ends without an answer.
LEMMA StreamPlans ==
  \A plan \in {Plan("unavailable", TRUE, "failure"), Plan("other", FALSE, "neutral"),
               Plan("consumer", FALSE, "neutral"),
               Plan("response_identity_mismatch", FALSE, "neutral")} :
    plan \in PlanRow /\ PlanFits(plan) /\ plan # NoPlan
BY PlanTyped DEF Codes, Outcomes

\* A stream that ends without an answer, with its plan.
LEMMA StreamStops ==
  ASSUME CallInv, NEW w \in Workers, worker[w].pc = "stream", GroupStep(NoAttempt),
         UNCHANGED run, NEW pc \in {"unknown", "finish"},
         NEW plan \in PlanRow, PlanFits(plan), plan # NoPlan, GoOn(w, pc, plan)
  PROVE  CallInv'
<1>1. WorkerFits(worker[w]) /\ worker[w].n \in Nat
  BY WorkerTyped
<1>2. pc \in Steps
  BY DEF Steps
<1>3. Becomes(w, pc, worker[w].n, plan) /\ Fresh(worker'[w])
  BY <1>2, GoOnBecomes
<1>4. WorkerFits(worker'[w])
  BY <1>1, <1>3 DEF WorkerFits, Becomes, Fresh, HasMarker
<1> QED BY <1>3, <1>4, OnStep, RunKeptStill

\* The provider, the consumer or the identity check ends the stream.
LEMMA StreamFailsInv ==
  ASSUME CallInv, NEW w \in Workers, StreamFails(w)
  PROVE  CallInv'
<1>1. GroupStep(NoAttempt) /\ worker[w].pc = "stream" /\ UNCHANGED run
  BY GroupStill DEF StreamFails
<1>2. PICK plan \in {Plan("unavailable", TRUE, "failure"), Plan("other", FALSE, "neutral")} :
        GoOn(w, "unknown", plan)
  BY DEF StreamFails
<1>3. plan \in PlanRow /\ PlanFits(plan) /\ plan # NoPlan
  BY StreamPlans
<1> QED BY <1>1, <1>2, <1>3, StreamStops

\* The stream ends with an answer.
LEMMA StreamEndsInv ==
  ASSUME CallInv, NEW w \in Workers, StreamEnds(w)
  PROVE  CallInv'
<1>1. /\ GroupStep(NoAttempt) /\ RunKept /\ worker[w].pc = "stream" /\ UNCHANGED run
      /\ worker[w].done = Chunks /\ UNCHANGED <<quotaVars, attempts, sent, log>>
  BY GroupStill, RunKeptStill DEF StreamEnds
<1>2. ASSUME GoOn(w, "finish", Plan("response_identity_mismatch", FALSE, "neutral"))
      PROVE  CallInv'
  <2>1. PICK plan : plan = Plan("response_identity_mismatch", FALSE, "neutral")
    OBVIOUS
  <2>2. plan \in PlanRow /\ PlanFits(plan) /\ plan # NoPlan
    BY <2>1, StreamPlans
  <2> QED BY <1>1, <1>2, <2>1, <2>2, StreamStops
<1>3. ASSUME NEW u \in Usages \cup {Unknown},
             worker' = [worker EXCEPT ![w].pc = "complete", ![w].usage = u]
      PROVE  CallInv'
  <2> DEFINE x == [worker[w] EXCEPT !.pc = "complete", !.usage = u]
  <2>1. /\ worker[w] \in WorkerState /\ worker \in [Workers -> WorkerState]
        /\ WorkerFits(worker[w])
    BY WorkerTyped
  <2>2. /\ x \in WorkerState /\ x.pc = "complete" /\ x.n = worker[w].n
        /\ x.plan = worker[w].plan
    BY <2>1 DEF WorkerState, Steps
  <2>3. worker' = [worker EXCEPT ![w] = x]
    BY <1>3, <2>1
  <2> HIDE DEF x
  <2>4. Becomes(w, "complete", worker[w].n, worker[w].plan) /\ worker'[w] = x
    BY <2>1, <2>2, <2>3 DEF Becomes
  <2>5. WorkerFits(worker[w])'
    BY <1>1, <2>1, <2>2, <2>4 DEF WorkerFits, HasReservation, HasMarker, quotaVars
  <2> QED BY <1>1, <2>4, <2>5, StreamStep DEF Streaming
<1> QED BY <1>2, <1>3 DEF StreamEnds

\* ModelCompleted: the answer of the attempt becomes the run's.
LEMMA ModelCompletedInv ==
  ASSUME CallInv, NEW w \in Workers, ModelCompleted(w)
  PROVE  CallInv'
<1>1. /\ GroupStep(NoAttempt) /\ worker[w].pc = "advance" /\ Advance(w, "done")
      /\ UNCHANGED <<quotaVars, attempts, sent, log>>
  BY GroupStill DEF ModelCompleted
<1>2. /\ run' \in RunRow /\ run'.maxCost = run.maxCost /\ Leave(w)
  BY <1>1, AdvanceRun
<1>3. /\ WorkerFits(worker[w]) /\ worker[w].n \in DOMAIN attempts
      /\ worker[w].n \in Nat /\ Len(attempts) \in Nat /\ worker[w].n <= Len(attempts)
  BY <1>1, WorkerTyped
<1>4. /\ attempts[worker[w].n].status = "completed"
      /\ res[Own[worker[w].n]].released /\ res[Own[worker[w].n]].outcome = "success"
  BY <1>1, <1>3 DEF WorkerFits
<1>5. worker[w].n = Len(attempts)
  BY <1>3, <1>4 DEF CallInv, RetriesFit
<1>6. DoneFits'
  BY <1>1, <1>4, <1>5 DEF DoneFits, quotaVars
<1>7. Becomes(w, "idle", 0, NoPlan) /\ worker'[w] = Idle
  BY <1>2, LeaveBecomes
<1>8. /\ worker'[w].pc = "idle" /\ worker'[w].n = 0 /\ worker'[w].plan = NoPlan
      /\ worker'[w].fed = 0 /\ worker'[w].done = 0
  BY <1>7, IdleTyped DEF Fresh
<1>9. Len(attempts') \in Nat
  BY <1>1, <1>3
<1>10. WorkerFits(worker[w])' /\ ReserveFits(worker[w])' /\ ~Streaming(worker'[w])
  BY <1>8, <1>9 DEF WorkerFits, ReserveFits, Streaming
<1> QED BY <1>1, <1>2, <1>6, <1>7, <1>10, QuotaCallStep DEF GroupStep, Becomes

\* The reservations are those of the run.
LEMMA RunCostIs ==
  ASSUME CallInv
  PROVE  /\ Range(Own) \cap DOMAIN res = DOMAIN res
         /\ RunCost = Charges(res)
         /\ SumFunctionOnSet(Overage, Range(Own) \cap DOMAIN res) = Over(res)
<1>1. DOMAIN res \subseteq Range(Own)
  <2>1. \A n \in DOMAIN attempts : n \in 1..Len(Own)
    BY AttemptsTyped DEF CallInv
  <2>2. DOMAIN Own = 1..Len(Own)
    BY AttemptAssumption
  <2> QED BY <2>1, <2>2 DEF CallInv, ReservationFits, Range
<1>2. Range(Own) \cap DOMAIN res = DOMAIN res
  BY <1>1
<1>3. [a \in DOMAIN res |-> IF res[a].status = "settled"
                            THEN res[a].used ELSE res[a].amount] = ChargeOf(res)
  BY DEF ChargeOf, Charge
<1>4. Overage = ExcessOf(res)
  BY DEF Overage, ExcessOf, Excess, Unsettled
<1> QED BY <1>2, <1>3, <1>4 DEF RunCost, Charges, Over

\* The worker reads the reservation of an attempt it found.
LEMMA GetReservationInv ==
  ASSUME CallInv, NEW w \in Workers, GetReservation(w)
  PROVE  CallInv'
<1>1. /\ GroupStep(NoAttempt) /\ worker[w].pc = "get" /\ RunKept
      /\ WorkerFits(worker[w]) /\ worker[w].n \in Nat /\ worker[w].n > 0
  BY GroupStill, RunKeptStill, WorkerTyped DEF GetReservation, WorkerFits
<1>2. PICK pc \in {"missing", "reserved", "dispatched"} :
        /\ Goto(w, pc) /\ (pc = "reserved" => HasReservation(worker[w].n))
        /\ pc = "dispatched" => HasMarker(worker[w].n)
  BY DEF GetReservation, Reserved, Dispatched, Id, HasReservation, HasMarker
<1>3. pc \in Steps
  BY DEF Steps
<1>4. /\ Becomes(w, pc, worker[w].n, worker[w].plan)
      /\ worker'[w].fed = worker[w].fed /\ worker'[w].done = worker[w].done
  BY <1>2, <1>3, GotoBecomes
<1>5. WorkerFits(worker'[w])
  BY <1>1, <1>2, <1>4 DEF WorkerFits, Becomes
<1> QED BY <1>1, <1>4, <1>5, OnStep

\* A worker that leaves everything but itself alone and goes on to reserve what is
\* reserved already or fits the run's limit.
LEMMA ReserveNext ==
  ASSUME CallInv, NEW w \in Workers, worker[w].n > 0,
         UNCHANGED <<quotaVars, run, attempts, sent, log>>,
         NEW plan, plan = NoPlan \/ PlanFits(plan),
         Becomes(w, "reserve", worker[w].n, plan), Fresh(worker'[w]),
         \/ HasReservation(worker[w].n)
         \/ ~OverBudget(attempts[worker[w].n].route)
  PROVE  CallInv'
<1>1. GroupStep(NoAttempt) /\ RunKept /\ UNCHANGED <<now, res, run, attempts>>
  BY GroupStill, RunKeptStill DEF quotaVars
<1>2. PICK n : n = worker[w].n
  OBVIOUS
<1>3. n \in Nat /\ n \in DOMAIN attempts /\ n <= Len(attempts) /\ n > 0
  BY <1>2, WorkerTyped, AttemptsTyped DEF CallInv
<1>4. /\ worker'[w].pc = "reserve" /\ worker'[w].n = n /\ worker'[w].plan = plan
      /\ worker'[w].fed = 0 /\ worker'[w].done = 0
  BY <1>2 DEF Becomes, Fresh
<1>5. WorkerFits(worker[w])'
  BY <1>1, <1>3, <1>4 DEF WorkerFits
<1>6. ReserveFits(worker[w])'
  <2>1. /\ Charges(res) \in Nat /\ Over(res) \in Nat /\ run.maxCost \in Nat
        /\ Cost[attempts[n].route] \in Nat
    <3>1. RowsFit(res) /\ run.maxCost \in Nat
      BY DEF CallInv, QuotaInv, CallTyped, RunRow
    <3>2. attempts[n].route \in Routes
      BY <1>3, AttemptsTyped DEF CallInv
    <3> QED BY <3>1, <3>2, SumsTyped, AttemptAssumption
  <2>2. run.maxCost > 0 /\ ~HasReservation(n) =>
          Charges(res) + Cost[attempts[n].route] <= run.maxCost
    BY <1>2, <2>1, RunCostIs DEF OverBudget
  <2>3. run.maxCost > 0 /\ ~HasReservation(n) =>
          Charges(res) + Cost[attempts[n].route] <= run.maxCost + Over(res)
    BY <2>1, <2>2
  <2> QED BY <1>1, <1>4, <2>3 DEF ReserveFits, HasReservation
<1>7. ~Streaming(worker'[w])
  BY <1>4 DEF Streaming
<1> QED BY <1>1, <1>5, <1>6, <1>7, QuotaCallStep DEF GroupStep, RunKept, Becomes

\* The worker proves its lease and looks at the clock.
LEMMA ProveLeaseInv ==
  ASSUME CallInv, NEW w \in Workers, ProveLease(w)
  PROVE  CallInv'
<1>1. /\ worker[w].pc \in {"missing", "reserved", "dispatched"}
      /\ UNCHANGED <<quotaVars, run, attempts, sent, log>>
  BY DEF ProveLease
<1>2. GroupStep(NoAttempt) /\ RunKept
  BY <1>1, GroupStill, RunKeptStill
<1>3. /\ WorkerFits(worker[w]) /\ worker[w].n \in Nat /\ worker[w].n > 0
      /\ worker[w].n \in DOMAIN attempts
  BY <1>1, WorkerTyped DEF WorkerFits
<1>4. CASE Leave(w)
  BY <1>2, <1>4, LeaveStep
<1>5. ASSUME NEW code \in {"unconfirmed_previous_dispatch",
                           "request_expired_before_dispatch"}
      PROVE  Late(code) \in PlanRow /\ PlanFits(Late(code)) /\ Late(code) # NoPlan
  <2>1. code \in Codes /\ code \notin {"none", "unavailable"} /\ "neutral" \in Outcomes
    BY DEF Codes, Outcomes
  <2> QED BY <2>1, PlanTyped DEF Late
<1>6. NoPlan \in PlanRow /\ {"reserve", "abandon", "finish", "cost"} \subseteq Steps
  BY IdleTyped DEF Steps
<1>7. ASSUME NEW plan \in PlanRow, plan = NoPlan \/ PlanFits(plan),
             GoOn(w, "reserve", plan), worker[w].pc \in {"reserved", "dispatched"}
      PROVE  CallInv'
  <2>1. Becomes(w, "reserve", worker[w].n, plan) /\ Fresh(worker'[w])
    BY <1>6, <1>7, GoOnBecomes
  <2>2. HasReservation(worker[w].n)
    BY <1>3, <1>7 DEF WorkerFits, HasMarker
  <2> QED BY <1>1, <1>3, <1>7, <2>1, <2>2, ReserveNext
<1>8. ASSUME NEW pc \in {"abandon", "finish", "cost"}, NEW plan \in PlanRow,
             plan = NoPlan \/ PlanFits(plan), GoOn(w, pc, plan),
             pc = "cost" <=> plan = NoPlan,
             pc = "abandon" => worker[w].pc = "reserved",
             pc = "finish" => now >= attempts[worker[w].n].deadline
      PROVE  CallInv'
  <2>1. Becomes(w, pc, worker[w].n, plan) /\ Fresh(worker'[w])
    BY <1>6, <1>8, GoOnBecomes
  <2>2. WorkerFits(worker'[w])
    BY <1>3, <1>8, <2>1 DEF WorkerFits, Becomes, Fresh
  <2> QED BY <1>2, <1>8, <2>1, <2>2, OnStep
<1>9. PICK p, q : /\ p = Late("unconfirmed_previous_dispatch")
                  /\ q = Late("request_expired_before_dispatch")
  OBVIOUS
<1>10. /\ p \in PlanRow /\ PlanFits(p) /\ p # NoPlan
       /\ q \in PlanRow /\ PlanFits(q) /\ q # NoPlan
  BY <1>5, <1>9
<1>11. \/ Leave(w)
       \/ worker[w].pc = "dispatched" /\ (GoOn(w, "reserve", p) \/ GoOn(w, "reserve", NoPlan))
       \/ /\ now >= attempts[worker[w].n].deadline
          /\ \/ worker[w].pc = "reserved" /\ GoOn(w, "abandon", q)
             \/ GoOn(w, "finish", q)
       \/ worker[w].pc = "reserved" /\ GoOn(w, "reserve", NoPlan)
       \/ GoOn(w, "cost", NoPlan)
  BY <1>9 DEF ProveLease, Row
<1> QED BY <1>4, <1>6, <1>7, <1>8, <1>10, <1>11

\* A missing reservation must fit the budget of the run.
LEMMA CheckCostInv ==
  ASSUME CallInv, NEW w \in Workers, CheckCost(w)
  PROVE  CallInv'
<1>1. worker[w].pc = "cost" /\ UNCHANGED <<quotaVars, attempts, sent, log>>
  BY DEF CheckCost
<1>2. /\ WorkerFits(worker[w]) /\ worker[w].n > 0 /\ "reserve" \in Steps
      /\ (worker[w].plan = NoPlan \/ PlanFits(worker[w].plan))
      /\ worker[w].fed = 0 /\ worker[w].done = 0
  BY <1>1, WorkerTyped DEF WorkerFits, Steps
<1>3. CASE Advance(w, "budget")
  BY <1>1, <1>3, GroupStill, FailsStep
<1>4. CASE ~OverBudget(Row(w).route) /\ Goto(w, "reserve") /\ UNCHANGED run
  <2>1. /\ Becomes(w, "reserve", worker[w].n, worker[w].plan)
        /\ worker'[w].fed = worker[w].fed /\ worker'[w].done = worker[w].done
    BY <1>2, <1>4, GotoBecomes
  <2>2. Fresh(worker'[w])
    BY <1>2, <2>1 DEF Fresh
  <2> QED BY <1>1, <1>2, <1>4, <2>1, <2>2, ReserveNext DEF Row
<1> QED BY <1>3, <1>4 DEF CheckCost

-----------------------------------------------------------------------------
(* The actions of the call that move a reservation *)

\* The attempt of a worker, by its number and its ID.
LEMMA WorkerAttempt ==
  ASSUME CallInv, NEW w \in Workers, worker[w].pc \notin {"idle", "route", "begin"}
  PROVE  /\ worker[w].n \in DOMAIN attempts /\ worker[w].n \in Nat
         /\ worker[w].n > 0 /\ WorkerFits(worker[w])
         /\ Id(w) = Own[worker[w].n] /\ Id(w) \in Attempts
         /\ Row(w) = attempts[worker[w].n] /\ Row(w) \in AttemptRow
         /\ AttemptFits(worker[w].n)
         /\ HasReservation(worker[w].n) <=> Id(w) \in DOMAIN res
         /\ HasMarker(worker[w].n) <=> Dispatched(w)
         /\ Reserved(w) <=> Id(w) \in DOMAIN res
<1>1. /\ worker[w].n \in DOMAIN attempts /\ worker[w].n \in Nat
      /\ Own[worker[w].n] \in Attempts /\ WorkerFits(worker[w])
  BY WorkerTyped
<1>2. attempts[worker[w].n] \in AttemptRow
  BY <1>1, AttemptsTyped DEF CallInv
<1>3. AttemptFits(worker[w].n) /\ worker[w].n > 0
  BY <1>1 DEF CallInv, WorkerFits
<1> QED BY <1>1, <1>2, <1>3
        DEF Id, Row, HasReservation, HasMarker, Dispatched, Reserved

\* A reserve that was not dispatched is given back.
LEMMA AbandonInv ==
  ASSUME CallInv, NEW w \in Workers, Abandon(w)
  PROVE  CallInv'
<1>1. worker[w].pc = "abandon" /\ UNCHANGED <<attempts, sent, log>>
  BY DEF Abandon
<1>2. PICK n, a : n = worker[w].n /\ a = Id(w)
  OBVIOUS
<1>3. n \in DOMAIN attempts /\ n > 0 /\ a = Own[n] /\ WorkerFits(worker[w]) /\ n \in Nat
  BY <1>1, <1>2, WorkerAttempt
<1>4. CASE Fails(w) /\ UNCHANGED quotaVars
  BY <1>1, <1>4, GroupStill, FailsStep
<1>5. CASE AbandonBeforeDispatch(a) /\ Goto(w, "finish") /\ UNCHANGED run
  <2>1. settle(a, 0, "not_dispatched") /\ 0 \in Nat
    BY <1>5 DEF AbandonBeforeDispatch
  <2>2. GroupStep(a)
    BY <1>1, <1>3, <2>1, GroupSettles
  <2>3. "finish" \in Steps
    BY DEF Steps
  <2>4. /\ Becomes(w, "finish", n, worker[w].plan)
        /\ worker'[w].fed = worker[w].fed /\ worker'[w].done = worker[w].done
    BY <1>2, <1>5, <2>3, GotoBecomes
  <2>5. WorkerFits(worker'[w])
    BY <1>1, <1>2, <1>3, <2>4 DEF WorkerFits, Becomes
  <2>6. RunKept
    BY <1>5, RunKeptStill
  <2> QED BY <2>2, <2>4, <2>5, <2>6, OnStep
<1> QED BY <1>2, <1>4, <1>5 DEF Abandon

\* A request that may have been sent keeps its reserve.
LEMMA UnsureInv ==
  ASSUME CallInv, NEW w \in Workers, Unsure(w)
  PROVE  CallInv'
<1>1. worker[w].pc = "unsure" /\ UNCHANGED <<attempts, sent, log>>
  BY DEF Unsure
<1>2. /\ worker[w].n \in DOMAIN attempts /\ worker[w].n > 0 /\ worker[w].n \in Nat
      /\ WorkerFits(worker[w])
  BY <1>1, WorkerAttempt
<1>3. CASE Fails(w) /\ UNCHANGED quotaVars
  BY <1>1, <1>3, GroupStill, FailsStep
<1>4. CASE MarkUnknown(Id(w)) /\ Goto(w, "wait") /\ UNCHANGED run
  <2>1. GroupStep(NoAttempt) /\ RunKept /\ "wait" \in Steps
    BY <1>1, <1>4, GroupMarksUnknown, RunKeptStill DEF Steps
  <2>2. /\ Becomes(w, "wait", worker[w].n, worker[w].plan)
        /\ worker'[w].fed = worker[w].fed /\ worker'[w].done = worker[w].done
    BY <1>4, <2>1, GotoBecomes
  <2>3. WorkerFits(worker'[w])
    BY <1>1, <1>2, <2>2 DEF WorkerFits, Becomes
  <2> QED BY <2>1, <2>2, <2>3, OnStep
<1> QED BY <1>3, <1>4 DEF Unsure

\* The answer is waited for or, after its deadline, given up.
LEMMA WaitInv ==
  ASSUME CallInv, NEW w \in Workers, Wait(w)
  PROVE  CallInv'
<1>1. worker[w].pc = "wait" /\ UNCHANGED <<attempts, sent, log>>
  BY DEF Wait
<1>2. /\ worker[w].n \in DOMAIN attempts /\ worker[w].n > 0 /\ worker[w].n \in Nat
      /\ WorkerFits(worker[w]) /\ Row(w) \in AttemptRow
  BY <1>1, WorkerAttempt
<1>3. CASE /\ worker[w].plan # NoPlan /\ ExpireRequestSlots /\ Goto(w, "finish")
           /\ UNCHANGED run
  <2>1. GroupStep(NoAttempt) /\ RunKept /\ "finish" \in Steps
    BY <1>1, <1>3, GroupSweeps, RunKeptStill DEF Steps
  <2>2. /\ Becomes(w, "finish", worker[w].n, worker[w].plan)
        /\ worker'[w].fed = worker[w].fed /\ worker'[w].done = worker[w].done
    BY <1>3, <2>1, GotoBecomes
  <2>3. WorkerFits(worker'[w])
    BY <1>1, <1>2, <1>3, <2>2 DEF WorkerFits, Becomes, HasMarker
  <2> QED BY <2>1, <2>2, <2>3, OnStep
<1>4. CASE deferRun(w, Row(w).deadline) /\ UNCHANGED quotaVars
  <2>1. Row(w).deadline \in Int /\ GroupStep(NoAttempt)
    BY <1>1, <1>2, <1>4, GroupStill DEF AttemptRow
  <2> QED BY <1>4, <2>1, deferRunStep
<1> QED BY <1>3, <1>4 DEF Wait

\* The slot of a request without an answer is given back.
LEMMA StreamUnknownInv ==
  ASSUME CallInv, NEW w \in Workers, StreamUnknown(w)
  PROVE  CallInv'
<1>1. worker[w].pc = "unknown" /\ UNCHANGED <<attempts, sent, log>>
  BY DEF StreamUnknown
<1>2. /\ worker[w].n \in DOMAIN attempts /\ worker[w].n > 0 /\ worker[w].n \in Nat
      /\ WorkerFits(worker[w])
  BY <1>1, WorkerAttempt
<1>3. CASE Fails(w) /\ UNCHANGED quotaVars
  BY <1>1, <1>3, GroupStill, FailsStep
<1>4. CASE MarkUnknown(Id(w)) /\ Goto(w, "finish") /\ UNCHANGED run
  <2>1. GroupStep(NoAttempt) /\ RunKept
    BY <1>1, <1>4, GroupMarksUnknown, RunKeptStill
  <2>2. "finish" \in Steps
    BY DEF Steps
  <2>3. /\ Becomes(w, "finish", worker[w].n, worker[w].plan)
        /\ worker'[w].fed = worker[w].fed /\ worker'[w].done = worker[w].done
    BY <1>4, <2>2, GotoBecomes
  <2>4. WorkerFits(worker'[w])
    BY <1>1, <1>2, <2>3 DEF WorkerFits, Becomes, HasMarker
  <2> QED BY <2>1, <2>3, <2>4, OnStep
<1> QED BY <1>3, <1>4 DEF StreamUnknown

\* Once the failure is accounted for, whatever that took.
LEMMA AfterFailureStep ==
  ASSUME CallInv, NEW a, GroupStep(a), NEW w \in Workers,
         worker[w].pc \in {"record", "replay"}, AfterFailure(w)
  PROVE  CallInv'
<1>1. /\ worker[w].n \in DOMAIN attempts /\ worker[w].n > 0 /\ worker[w].n \in Nat
      /\ WorkerFits(worker[w]) /\ Row(w) \in AttemptRow
  BY WorkerAttempt
<1>2. CASE Fails(w) \/ Reconcile(w)
  BY <1>2, FailsStep, ReconcileStep
<1>3. CASE deferRun(w, Row(w).policy.notBefore)
  <2>1. Row(w).policy.notBefore \in Int
    BY <1>1 DEF AttemptRow, PolicyRow
  <2> QED BY <1>3, <2>1, deferRunStep
<1>4. CASE Goto(w, "route") /\ UNCHANGED run
  <2>1. "route" \in Steps /\ RunKept
    BY <1>4, RunKeptStill DEF Steps
  <2>2. /\ Becomes(w, "route", worker[w].n, worker[w].plan)
        /\ worker'[w].fed = worker[w].fed /\ worker'[w].done = worker[w].done
    BY <1>4, <2>1, GotoBecomes
  <2>3. WorkerFits(worker'[w])
    BY <1>1, <2>2 DEF WorkerFits, Becomes
  <2> QED BY <2>1, <2>2, <2>3, OnStep
<1> QED BY <1>2, <1>3, <1>4 DEF AfterFailure

\* replayFailureOutcome records what the failed attempt says.
LEMMA replayFailureOutcomeInv ==
  ASSUME CallInv, NEW w \in Workers, replayFailureOutcome(w)
  PROVE  CallInv'
<1>1. /\ worker[w].pc \in {"record", "replay"} /\ UNCHANGED <<attempts, sent, log>>
  BY DEF replayFailureOutcome
<1>2. PICK n, a, o : n = worker[w].n /\ a = Id(w) /\ o = Row(w).policy.plan.outcome
  OBVIOUS
<1>3. /\ n \in DOMAIN attempts /\ a = Own[n] /\ WorkerFits(worker[w])
      /\ o = attempts[n].policy.plan.outcome /\ AttemptFits(n)
  BY <1>1, <1>2, WorkerAttempt
<1>4. attempts[n].status = "failed" /\ o \in Outcomes
  BY <1>1, <1>2, <1>3 DEF WorkerFits, AttemptFits, PlanFits
<1>5. CASE UNCHANGED quotaVars /\ (AfterFailure(w) \/ Fails(w))
  BY <1>1, <1>5, GroupStill, AfterFailureStep, FailsStep
<1>6. CASE AbandonBeforeDispatch(a) /\ AfterFailure(w)
  <2>1. settle(a, 0, "not_dispatched") /\ 0 \in Nat
    BY <1>6 DEF AbandonBeforeDispatch
  <2>2. GroupStep(a)
    BY <1>1, <1>3, <2>1, GroupSettles
  <2> QED BY <1>1, <1>6, <2>2, AfterFailureStep
<1>7. CASE MarkUnknown(a) /\ UNCHANGED <<run, worker>>
  <2>1. GroupStep(NoAttempt) /\ RunKept
    BY <1>1, <1>7, GroupMarksUnknown, RunKeptStill
  <2>2. worker' \in [Workers -> WorkerState] /\ NoWorker \notin Workers
    BY <1>7, AttemptAssumption DEF CallInv, CallTyped
  <2> QED BY <1>7, <2>1, <2>2, QuotaCallStep DEF GroupStep, RunKept
<1>8. CASE RecordOutcome(a, o) /\ AfterFailure(w)
  <2>1. GroupStep(a)
    BY <1>1, <1>3, <1>4, <1>8, GroupRecords
  <2> QED BY <1>1, <1>8, <2>1, AfterFailureStep
<1> QED BY <1>2, <1>5, <1>6, <1>7, <1>8 DEF replayFailureOutcome

\* The answer's usage is settled.
LEMMA SettleUsageInv ==
  ASSUME CallInv, NEW w \in Workers, SettleUsage(w)
  PROVE  CallInv'
<1>1. worker[w].pc = "settle" /\ UNCHANGED <<attempts, sent, log>>
  BY DEF SettleUsage
<1>2. PICK n, a, u : n = worker[w].n /\ a = Id(w) /\ u = Row(w).usage
  OBVIOUS
<1>3. /\ n \in DOMAIN attempts /\ n > 0 /\ n \in Nat /\ a = Own[n]
      /\ WorkerFits(worker[w]) /\ u = attempts[n].usage /\ Row(w) \in AttemptRow
  BY <1>1, <1>2, WorkerAttempt
<1>4. attempts[n].status = "completed" /\ HasMarker(n)
  BY <1>1, <1>2, <1>3 DEF WorkerFits
<1>5. CASE (Fails(w) \/ Reconcile(w)) /\ UNCHANGED quotaVars
  BY <1>1, <1>5, GroupStill, FailsStep, ReconcileStep
<1>6. ASSUME NEW b, GroupStep(b), DOMAIN res' = DOMAIN res, res'[a].released,
             res'[a].dispatched = res[a].dispatched, Goto(w, "success"), UNCHANGED run
      PROVE  CallInv'
  <2>1. "success" \in Steps /\ RunKept
    BY <1>6, RunKeptStill DEF Steps
  <2>2. /\ Becomes(w, "success", n, worker[w].plan)
        /\ worker'[w].fed = worker[w].fed /\ worker'[w].done = worker[w].done
    BY <1>2, <1>6, <2>1, GotoBecomes
  <2>3. HasMarker(n)'
    BY <1>3, <1>4, <1>6 DEF HasMarker, HasReservation
  <2>4. WorkerFits(worker[w])'
    BY <1>1, <1>2, <1>3, <1>4, <1>6, <2>2, <2>3
    DEF WorkerFits, Becomes, HasMarker, HasReservation
  <2> QED BY <1>6, <2>1, <2>2, <2>4, GoStep
<1>7. CASE u # Unknown /\ Settle(a, u) /\ Goto(w, "success") /\ UNCHANGED run
  <2>1. u \in Nat /\ settle(a, u, "actual_usage")
    BY <1>2, <1>3, <1>7, QuotaAssumption DEF AttemptRow, Settle
  <2>2. /\ GroupStep(a) /\ DOMAIN res' = DOMAIN res
        /\ res'[a].dispatched = res[a].dispatched /\ res'[a].released
    BY <1>1, <1>3, <1>4, <2>1, GroupSettles
  <2> QED BY <1>6, <1>7, <2>2
<1>8. CASE CompleteWithUnknownUsage(a) /\ Goto(w, "success") /\ UNCHANGED run
  <2>1. /\ GroupStep(NoAttempt) /\ DOMAIN res' = DOMAIN res
        /\ res'[a].dispatched = res[a].dispatched /\ res'[a].released
    BY <1>1, <1>8, GroupCompletes
  <2> QED BY <1>6, <1>8, <2>1
<1>9. CASE /\ res[a].status = "settled" /\ UNCHANGED quotaVars
           /\ Goto(w, "success") /\ UNCHANGED run
  <2>1. a \in DOMAIN res
    BY <1>3, <1>4 DEF HasMarker, HasReservation
  <2>2. res[a].released
    BY <1>9, <2>1 DEF CallInv, QuotaInv, RowsFit, ReservationFits
  <2>3. GroupStep(NoAttempt) /\ UNCHANGED res
    BY <1>1, <1>9, GroupStill DEF quotaVars
  <2> QED BY <1>6, <1>9, <2>2, <2>3
<1> QED BY <1>2, <1>5, <1>7, <1>8, <1>9 DEF SettleUsage

\* The answer is recorded as a success with the circuit.
LEMMA RecordSuccessInv ==
  ASSUME CallInv, NEW w \in Workers, RecordSuccess(w)
  PROVE  CallInv'
<1>1. worker[w].pc = "success" /\ UNCHANGED <<attempts, sent, log>>
  BY DEF RecordSuccess
<1>2. PICK n, a : n = worker[w].n /\ a = Id(w)
  OBVIOUS
<1>3. n \in DOMAIN attempts /\ n > 0 /\ n \in Nat /\ a = Own[n] /\ WorkerFits(worker[w])
  BY <1>1, <1>2, WorkerAttempt
<1>4. attempts[n].status = "completed" /\ HasMarker(n) /\ res[a].released
  BY <1>1, <1>2, <1>3 DEF WorkerFits
<1>5. CASE Fails(w) /\ UNCHANGED quotaVars
  BY <1>1, <1>5, GroupStill, FailsStep
<1>6. CASE RecordOutcome(a, "success") /\ Goto(w, "advance") /\ UNCHANGED run
  <2>1. /\ GroupStep(a) /\ DOMAIN res' = DOMAIN res
        /\ res'[a].dispatched = res[a].dispatched
        /\ res'[a].released = res[a].released /\ res'[a].outcome = "success"
    <3>1. "success" \in Outcomes
      BY DEF Outcomes
    <3> QED BY <1>1, <1>3, <1>4, <1>6, <3>1, GroupRecords
  <2>2. "advance" \in Steps /\ RunKept
    BY <1>6, RunKeptStill DEF Steps
  <2>3. /\ Becomes(w, "advance", n, worker[w].plan)
        /\ worker'[w].fed = worker[w].fed /\ worker'[w].done = worker[w].done
    BY <1>2, <1>6, <2>2, GotoBecomes
  <2>4. HasMarker(n)'
    BY <1>3, <1>4, <2>1 DEF HasMarker, HasReservation
  <2>5. WorkerFits(worker[w])'
    BY <1>1, <1>2, <1>3, <1>4, <2>1, <2>3, <2>4
    DEF WorkerFits, Becomes, HasMarker, HasReservation
  <2> QED BY <2>1, <2>2, <2>3, <2>5, GoStep
<1> QED BY <1>2, <1>5, <1>6 DEF RecordSuccess

\* The reservation is marked before the request goes out.
LEMMA MarkInv ==
  ASSUME CallInv, NEW w \in Workers, Mark(w)
  PROVE  CallInv'
<1>1. worker[w].pc = "mark" /\ UNCHANGED <<attempts, sent, log>>
  BY DEF Mark
<1>2. PICK n, a : n = worker[w].n /\ a = Id(w)
  OBVIOUS
<1>3. /\ n \in DOMAIN attempts /\ n > 0 /\ n \in Nat /\ a = Own[n]
      /\ WorkerFits(worker[w]) /\ n \in 1..Len(Own)
  BY <1>1, <1>2, WorkerAttempt, WorkerTyped
<1>4. CASE Fails(w) /\ UNCHANGED quotaVars
  BY <1>1, <1>4, GroupStill, FailsStep
<1>5. CASE MarkDispatched(a) /\ Goto(w, "send") /\ UNCHANGED run
  <2>1. /\ GroupStep(a) /\ a \in DOMAIN res /\ a \in DOMAIN res'
        /\ res'[a].dispatched /\ ~res[a].dispatched
    BY <1>1, <1>3, <1>5, GroupMarksDispatched
  <2>2. "send" \in Steps /\ RunKept
    BY <1>5, RunKeptStill DEF Steps
  <2>3. /\ Becomes(w, "send", n, worker[w].plan)
        /\ worker'[w].fed = worker[w].fed /\ worker'[w].done = worker[w].done
    BY <1>2, <1>5, <2>2, GotoBecomes
  <2>4. HasMarker(n)' /\ HasReservation(n)' /\ ~HasMarker(n)
    BY <1>3, <2>1 DEF HasMarker, HasReservation
  <2>5. sent'[n] = 0 /\ Len(log'[n]) = 0
    <3>1. RequestFits(n) /\ sent[n] \in Nat /\ Len(log[n]) \in Nat
      BY <1>3 DEF CallInv, CallTyped
    <3> QED BY <1>1, <2>4, <3>1 DEF RequestFits
  <2>6. WorkerFits(worker[w])'
    BY <1>1, <1>2, <1>3, <2>3, <2>4, <2>5
    DEF WorkerFits, Becomes, HasMarker, HasReservation
  <2>7. ReserveFits(worker[w])'
    BY <2>3 DEF ReserveFits, Becomes
  <2>8. \A v \in Workers : Streaming(worker[v]) => worker[v].n # n
    BY <2>4 DEF CallInv, WorkerFits, Streaming
  <2> QED BY <2>1, <2>2, <2>3, <2>6, <2>7, <2>8, QuotaCallStep
          DEF GroupStep, RunKept, Becomes
<1> QED BY <1>2, <1>4, <1>5 DEF Mark

\* The earlier of two moments is a moment.
LEMMA MinTyped ==
  ASSUME NEW x \in Int, NEW y \in Int
  PROVE  Min({x, y}) \in Int
<1>1. \E z \in {x, y} : \A u \in {x, y} : z <= u
  <2>1. CASE x <= y
    BY <2>1
  <2>2. CASE y <= x
    BY <2>2
  <2> QED BY <2>1, <2>2
<1>2. Min({x, y}) \in {x, y}
  BY <1>1 DEF Min
<1> QED BY <1>2

\* A new reservation of the n-th attempt: the others are swept.
NewReservation(a, cost) ==
  /\ DOMAIN res' = DOMAIN res \cup {a} /\ now' = now
  /\ \A x \in DOMAIN res : Alike(res[x], res'[x])
  /\ ~res'[a].dispatched /\ res'[a].kind = "none" /\ res'[a].outcome = "none"
  /\ Charges(res') = Charges(res) + cost /\ Over(res') = Over(res)

\* Reserve adds one reservation or only sweeps.
LEMMA ReserveRows ==
  ASSUME QuotaInv, NEW a \in Attempts, NEW cost \in Nat, NEW t \in Nat, Reserve(a, cost, t)
  PROVE  \/ ExpireRequestSlots
         \/ a \notin DOMAIN res /\ now < t /\ NewReservation(a, cost)
<1> DEFINE g == expireSlots(lockGroup)
           row == [amount |-> cost, deadline |-> t, status |-> "reserved",
                   released |-> FALSE, dispatched |-> FALSE, used |-> 0,
                   kind |-> "none", outcome |-> "none", halfOpen |-> g.breaker # 0]
           r == ExpiredRows
           s == [i \in DOMAIN r \cup {a} |-> IF i = a THEN row ELSE r[i]]
<1> SUFFICES ASSUME a \notin DOMAIN res, now < t, UNCHANGED now,
                    res' = [i \in DOMAIN res \cup {a} |-> IF i = a THEN row ELSE r[i]]
             PROVE  NewReservation(a, cost)
  BY DEF Reserve
<1>1. /\ row \in ReservationRow /\ row.status = "reserved" /\ row.kind = "none"
      /\ ~row.released /\ row.amount = cost /\ row.outcome = "none" /\ ~row.dispatched
  BY DEF ReservationRow
<1>2. /\ RowsFit(r) /\ DOMAIN r = DOMAIN res
      /\ Over(r) = Over(res) /\ Charges(r) = Charges(res)
      /\ \A x \in DOMAIN res :
           /\ r[x].dispatched = res[x].dispatched /\ r[x].used = res[x].used
           /\ r[x].kind = res[x].kind /\ r[x].outcome = res[x].outcome
           /\ res[x].released => r[x] = res[x]
  BY RowsExpire DEF QuotaInv
<1>3. res' = s
  BY <1>2
<1> HIDE DEF g, row, r
<1>4. /\ DOMAIN s = DOMAIN r \cup {a} /\ s[a] = row
      /\ \A x \in DOMAIN r : s[x] = r[x]
      /\ Over(s) = Over(r) /\ Charges(s) = Charges(r) + row.amount
  BY <1>1, <1>2, RowAdd
<1> HIDE DEF s
<1>5. \A x \in DOMAIN res : Alike(res[x], res'[x])
  BY <1>2, <1>3, <1>4 DEF Alike
<1> QED BY <1>1, <1>2, <1>3, <1>4, <1>5 DEF NewReservation

\* An attempt that is not reserved and is in time is the last one.
LEMMA InTimeIsLast ==
  ASSUME CallInv, NEW n \in DOMAIN attempts, ~HasReservation(n),
         now < attempts[n].deadline
  PROVE  n = Len(attempts) /\ attempts[n].status = "prepared"
<1>1. /\ Len(attempts) \in Nat /\ DOMAIN attempts = 1..Len(attempts)
      /\ attempts[n].deadline \in Int
      /\ attempts[n].status \in {"prepared", "completed", "failed"}
  BY AttemptsTyped DEF CallInv
<1>2. AttemptFits(n) /\ now \in Nat
  BY DEF CallInv, QuotaInv
<1>3. attempts[n].status = "prepared"
  BY <1>1, <1>2 DEF AttemptFits, HasMarker
<1> QED BY <1>1, <1>3 DEF CallInv, RetriesFit

\* The reservation of the worker's attempt is new.
LEMMA NewReservationStep ==
  ASSUME CallInv, QuotaInv', NEW w \in Workers, worker[w].pc = "reserve",
         NEW n \in DOMAIN attempts, n = worker[w].n, NEW a, a = Own[n],
         a \notin DOMAIN res, now < attempts[n].deadline,
         NewReservation(a, Cost[attempts[n].route]),
         UNCHANGED <<run, attempts, sent, log>>, Goto(w, "ready")
  PROVE  CallInv'
<1>1. /\ Becomes(w, "ready", n, worker[w].plan)
      /\ worker'[w].fed = worker[w].fed /\ worker'[w].done = worker[w].done
  BY GotoBecomes DEF Steps
<1>2. CallTyped'
  BY <1>1 DEF CallInv, CallTyped, Becomes
<1>3. /\ Len(attempts) \in Nat /\ DOMAIN attempts = 1..Len(attempts) /\ n \in Nat /\ n > 0
      /\ \A m \in DOMAIN attempts : /\ attempts[m].deadline \in Int
                                    /\ attempts[m].route \in Routes
  BY AttemptsTyped DEF CallInv
<1>4. /\ now \in Nat /\ now' = now /\ DOMAIN res' = DOMAIN res \cup {a}
      /\ \A x \in DOMAIN res : Alike(res[x], res'[x])
      /\ ~res'[a].dispatched /\ res'[a].kind = "none" /\ res'[a].outcome = "none"
      /\ Charges(res') = Charges(res) + Cost[attempts[n].route]
      /\ Over(res') = Over(res)
  BY DEF CallInv, QuotaInv, NewReservation
<1>5. Later
  BY <1>3, <1>4 DEF Later, Alike
<1>6. RetriesFit'
  BY DEF CallInv, RetriesFit
<1>7. ~HasReservation(n) /\ HasReservation(n)'
  BY <1>4 DEF HasReservation
<1>8. n = Len(attempts) /\ attempts[n].status = "prepared"
  BY <1>7, InTimeIsLast
<1>9. DoneFits'
  BY <1>3, <1>8 DEF CallInv, DoneFits
<1>10. BudgetFits'
  <2>1. ReserveFits(worker[w])
    BY DEF CallInv, BudgetFits
  <2>2. run.maxCost > 0 =>
          Charges(res) + Cost[attempts[n].route] <= run.maxCost + Over(res)
    BY <1>7, <2>1 DEF ReserveFits
  <2>3. ASSUME NEW v \in Workers PROVE ReserveFits(worker[v])'
    <3>1. CASE v = w
      BY <1>1, <3>1 DEF ReserveFits, Becomes
    <3>2. CASE v # w
      <4>1. worker'[v] = worker[v]
        BY <1>1, <3>2 DEF Becomes
      <4>2. ASSUME worker[v].pc = "reserve", ~HasReservation(worker[v].n)',
                   now < attempts[worker[v].n].deadline
            PROVE  FALSE
        <5>1. worker[v].n \in DOMAIN attempts
          BY <4>2, WorkerTyped
        <5>2. PICK m : m = worker[v].n
          OBVIOUS
        <5>3. Own[m] \notin DOMAIN res'
          BY <4>1, <4>2, <5>2 DEF HasReservation
        <5>4. ~HasReservation(m) /\ m # n
          BY <1>4, <5>3 DEF HasReservation
        <5>5. m = Len(attempts)
          BY <4>2, <5>1, <5>2, <5>4, InTimeIsLast
        <5> QED BY <1>8, <5>4, <5>5
      <4> QED BY <1>4, <4>1, <4>2 DEF ReserveFits, HasReservation
    <3> QED BY <3>1, <3>2
  <2> QED BY <1>4, <2>2, <2>3 DEF BudgetFits
<1>11. ASSUME NEW x \in DOMAIN res' PROVE ReservationFits(x)'
  <2>1. CASE x = a
    BY <1>4, <2>1 DEF ReservationFits
  <2>2. CASE x # a
    <3>1. x \in DOMAIN res
      BY <1>4, <2>2
    <3>2. ReservationFits(x) /\ Alike(res[x], res'[x])
      BY <1>4, <3>1 DEF CallInv
    <3> QED BY <3>2 DEF ReservationFits, Alike
  <2> QED BY <2>1, <2>2
<1>12. ASSUME NEW m \in DOMAIN attempts PROVE AttemptFits(m)'
  <2>1. AttemptFits(m)
    BY DEF CallInv
  <2>2. CASE m = n
    BY <1>4, <1>7, <1>8, <2>1, <2>2 DEF AttemptFits
  <2>3. CASE m # n
    <3>1. Own[m] # a
      BY <2>3, OwnTyped
    <3>2. HasReservation(m)' <=> HasReservation(m)
      BY <1>4, <3>1 DEF HasReservation
    <3>3. HasReservation(m) => Alike(res[Own[m]], res'[Own[m]])
      BY <1>4 DEF HasReservation
    <3>4. HasMarker(m) => HasMarker(m)'
      BY <3>2, <3>3 DEF HasMarker, Alike
    <3> QED BY <1>4, <2>1, <3>2, <3>3, <3>4 DEF AttemptFits, Alike
  <2> QED BY <2>2, <2>3
<1>13. ASSUME NEW m \in 1..Len(Own) PROVE RequestFits(m)'
  <2>1. RequestFits(m)
    BY DEF CallInv
  <2>2. HasMarker(m) => HasMarker(m)'
    BY <1>5 DEF HasMarker, HasReservation, Later
  <2> QED BY <2>1, <2>2 DEF RequestFits
<1>14. WorkerFits(worker[w])'
  <2>1. WorkerFits(worker[w])
    BY DEF CallInv
  <2> QED BY <1>1, <1>3, <1>7, <2>1 DEF WorkerFits, Becomes, HasReservation
<1>15. ~Streaming(worker'[w])
  BY <1>1 DEF Streaming, Becomes
<1> QED BY <1>1, <1>2, <1>5, <1>6, <1>9, <1>10, <1>11, <1>12, <1>13, <1>14, <1>15,
           CallStep DEF Becomes

\* The worker reserves for its attempt, or is denied.
LEMMA ReserveQuotaInv ==
  ASSUME CallInv, NEW w \in Workers, ReserveQuota(w)
  PROVE  CallInv'
<1>1. worker[w].pc = "reserve" /\ UNCHANGED <<attempts, sent, log>>
  BY DEF ReserveQuota
<1>2. PICK n, a, t, cost : /\ n = worker[w].n /\ a = Id(w) /\ t = Row(w).deadline
                           /\ cost = Cost[Row(w).route]
  OBVIOUS
<1>3. /\ n \in DOMAIN attempts /\ n > 0 /\ n \in Nat /\ a = Own[n] /\ a \in Attempts
      /\ WorkerFits(worker[w]) /\ t = attempts[n].deadline /\ t \in Int
      /\ cost = Cost[attempts[n].route] /\ cost \in Nat
      /\ (Reserved(w) <=> a \in DOMAIN res)
  <2>1. Row(w) \in AttemptRow
    BY <1>1, WorkerAttempt
  <2>2. t \in Int /\ Row(w).route \in Routes
    BY <1>2, <2>1 DEF AttemptRow
  <2> QED BY <1>1, <1>2, <2>2, WorkerAttempt, AttemptAssumption
<1>4. CASE Fails(w) /\ UNCHANGED quotaVars
  BY <1>1, <1>4, GroupStill, FailsStep
<1>5. ASSUME Reserve(a, cost, t), a \in DOMAIN res \/ now < t,
             IF a \notin DOMAIN res' THEN deferRun(w, Min({now + 1, t}))
             ELSE /\ Goto(w, IF ~res'[a].dispatched THEN "ready"
                             ELSE IF res'[a].status = "settled" THEN "wait"
                             ELSE "unsure")
                  /\ UNCHANGED run
      PROVE  CallInv'
  <2>1. QuotaInv /\ now \in Nat
    BY DEF CallInv, QuotaInv
  <2>2. CASE ExpireRequestSlots
    <3>1. GroupStep(NoAttempt)
      BY <1>1, <2>2, GroupSweeps
    <3>2. DOMAIN res' = DOMAIN res /\ (a \in DOMAIN res => Alike(res[a], res'[a]))
      BY <1>3, <3>1, QuotaAssumption DEF GroupStep, RowsKept
    <3>3. CASE deferRun(w, Min({now + 1, t}))
      <4>1. Min({now + 1, t}) \in Int
        <5>1. now + 1 \in Int
          BY <2>1
        <5> QED BY <1>3, <5>1, MinTyped
      <4> QED BY <3>1, <3>3, <4>1, deferRunStep
    <3>4. ASSUME NEW pc \in {"unsure", "wait", "ready"}, Goto(w, pc), UNCHANGED run,
                 a \in DOMAIN res, pc # "ready" => res'[a].dispatched
          PROVE  CallInv'
      <4>1. pc \in Steps /\ RunKept
        BY <3>4, RunKeptStill DEF Steps
      <4>2. /\ Becomes(w, pc, n, worker[w].plan)
            /\ worker'[w].fed = worker[w].fed /\ worker'[w].done = worker[w].done
        BY <1>2, <3>4, <4>1, GotoBecomes
      <4>3. HasReservation(n) /\ (pc # "ready" => HasMarker(n))
        BY <1>3, <3>2, <3>4 DEF HasReservation, HasMarker, Alike
      <4>4. WorkerFits(worker'[w])
        BY <1>1, <1>2, <1>3, <4>2, <4>3 DEF WorkerFits, Becomes
      <4> QED BY <3>1, <4>1, <4>2, <4>4, OnStep
    <3> QED BY <1>5, <3>2, <3>3, <3>4
  <2>3. CASE ~ExpireRequestSlots
    <3>1. t \in Nat
      <4>1. a \notin DOMAIN res
        BY <1>5, <2>3 DEF Reserve
      <4> QED BY <1>3, <1>5, <2>1, <4>1
    <3>2. a \notin DOMAIN res /\ now < t /\ NewReservation(a, cost)
      BY <1>3, <1>5, <2>1, <2>3, <3>1, ReserveRows
    <3>3. QuotaInv'
      BY <1>3, <1>5, <2>1, <3>1, ReserveInv
    <3>4. a \in DOMAIN res' /\ ~res'[a].dispatched
      BY <3>2 DEF NewReservation
    <3>5. Goto(w, "ready") /\ UNCHANGED run
      BY <1>5, <3>4
    <3> QED BY <1>1, <1>2, <1>3, <3>2, <3>3, <3>5, NewReservationStep
  <2> QED BY <2>2, <2>3
<1>6. now \in Nat
  BY DEF CallInv, QuotaInv
<1> QED BY <1>2, <1>3, <1>4, <1>5, <1>6 DEF ReserveQuota

-----------------------------------------------------------------------------
(* The actions of the call that change its attempts *)

\* BeginPricedAttempt: a new attempt within the run's budget.
LEMMA BeginPricedAttemptInv ==
  ASSUME CallInv, NEW w \in Workers, BeginPricedAttempt(w)
  PROVE  CallInv'
<1> DEFINE n == Len(attempts)
           deadline == Min({now + RequestTime, RunDeadline})
<1>1. worker[w].pc = "begin" /\ UNCHANGED <<quotaVars, sent, log>>
  BY DEF BeginPricedAttempt
<1>2. /\ worker[w] \in WorkerState /\ worker \in [Workers -> WorkerState]
      /\ WorkerFits(worker[w]) /\ worker[w].plan \in PlanRow
      /\ n \in Nat /\ DOMAIN attempts = 1..n
  BY WorkerTyped
<1>3. worker[w].fed = 0 /\ worker[w].done = 0
  BY <1>1, <1>2 DEF WorkerFits
<1>4. CASE Fails(w) /\ UNCHANGED attempts
  BY <1>1, <1>4, GroupStill, FailsStep
<1>5. ASSUME NEW k \in Nat,
             worker' = [worker EXCEPT ![w].pc = "get", ![w].n = k, ![w].route = "primary"]
      PROVE  /\ Becomes(w, "get", k, worker[w].plan)
             /\ worker'[w].fed = 0 /\ worker'[w].done = 0
  <2> DEFINE x == [worker[w] EXCEPT !.pc = "get", !.n = k, !.route = "primary"]
  <2>1. /\ x \in WorkerState /\ x.pc = "get" /\ x.n = k /\ x.plan = worker[w].plan
        /\ x.fed = 0 /\ x.done = 0
    BY <1>2, <1>3, AttemptAssumption DEF WorkerState, Steps
  <2>2. worker' = [worker EXCEPT ![w] = x]
    BY <1>2, <1>5
  <2> HIDE DEF x
  <2> QED BY <1>2, <2>1, <2>2 DEF Becomes
<1>6. CASE /\ n > 0 /\ UNCHANGED <<run, attempts>>
           /\ worker' = [worker EXCEPT ![w].pc = "get", ![w].n = n,
                                       ![w].route = "primary"]
  <2>1. Becomes(w, "get", n, worker[w].plan) /\ worker'[w].fed = 0 /\ worker'[w].done = 0
    BY <1>2, <1>5, <1>6
  <2>2. WorkerFits(worker'[w])
    BY <1>2, <1>6, <2>1 DEF WorkerFits, Becomes
  <2>3. GroupStep(NoAttempt) /\ RunKept
    BY <1>1, <1>6, GroupStill, RunKeptStill
  <2> QED BY <2>1, <2>2, <2>3, OnStep
<1>7. CASE /\ Owner(w) /\ n < Len(Own) /\ UNCHANGED run
           /\ n > 0 => attempts[n].status = "failed" /\ attempts[n].policy.plan.retry
           /\ validateModelRoute(worker[w].route)
           /\ attempts' = Append(attempts, NewAttempt(worker[w].route, deadline))
           /\ worker' = [worker EXCEPT ![w].pc = "get", ![w].n = n + 1,
                                       ![w].route = "primary"]
  <2> DEFINE row == NewAttempt(worker[w].route, deadline)
  <2>1. row \in AttemptRow /\ row.status = "prepared" /\ row.route = worker[w].route
    <3>1. now \in Int /\ now + RequestTime \in Int /\ RunDeadline \in Int
      BY AttemptAssumption DEF CallInv, QuotaInv
    <3>2. deadline \in Int /\ worker[w].route \in Routes
      BY <1>2, <3>1, MinTyped DEF WorkerState
    <3>3. NoPolicy \in PolicyRow
      BY IdleTyped DEF NoPolicy, PolicyRow
    <3> QED BY <3>1, <3>2, <3>3 DEF NewAttempt, AttemptRow
  <2> HIDE DEF row
  <2>2. /\ attempts' \in Seq(AttemptRow) /\ Len(attempts') = n + 1 /\ n + 1 \in Nat
        /\ DOMAIN attempts' = 1..(n + 1) /\ attempts'[n + 1] = row
        /\ \A m \in 1..n : attempts'[m] = attempts[m]
    <3>1. attempts' = Append(attempts, row) /\ attempts \in Seq(AttemptRow)
      BY <1>7 DEF row, CallInv, CallTyped
    <3>2. attempts' \in Seq(AttemptRow) /\ Len(attempts') = n + 1
      BY <2>1, <3>1
    <3> QED BY <2>1, <3>1, <3>2
  <2>3. /\ Becomes(w, "get", n + 1, worker[w].plan)
        /\ worker'[w].fed = 0 /\ worker'[w].done = 0
    BY <1>5, <1>7, <2>2
  <2>4. Len(Own) \in Nat /\ n + 1 <= Len(Own)
    BY <1>2, <1>7, AttemptAssumption
  <2>5. CallTyped' /\ QuotaInv'
    <3>1. QuotaInv'
      BY <1>1, QuotaStepInv DEF CallInv
    <3> QED BY <1>1, <1>7, <2>2, <2>3, <2>4, <3>1 DEF CallInv, CallTyped, Becomes
  <2>6. /\ now' = now /\ res' = res /\ now \in Nat /\ run' = run
        /\ sent' = sent /\ log' = log
    BY <1>1, <1>7 DEF quotaVars, CallInv, QuotaInv
  <2>7. Later
    BY <1>2, <2>2, <2>6 DEF Later
  <2>8. RetriesFit'
    <3> SUFFICES ASSUME NEW m \in 1..n
                 PROVE  /\ attempts'[m].status = "failed"
                        /\ attempts'[m].policy.plan.retry
                        /\ attempts'[m].route # attempts'[m + 1].route =>
                             /\ attempts'[m].route = "primary"
                             /\ attempts'[m].policy.plan.outcome = "failure"
      BY <1>2, <2>2 DEF RetriesFit
    <3>1. CASE m < n
      <4>1. m + 1 \in 1..n /\ m \in DOMAIN attempts
        BY <1>2, <3>1
      <4> QED BY <2>2, <3>1, <4>1 DEF CallInv, RetriesFit
    <3>2. CASE m = n
      <4>1. n > 0 /\ attempts[n].status = "failed" /\ attempts[n].policy.plan.retry
            /\ n \in DOMAIN attempts /\ attempts # << >>
        BY <1>2, <1>7, <3>2
      <4>2. PlanFits(attempts[n].policy.plan)
        BY <4>1 DEF CallInv, AttemptFits
      <4>3. row.route # attempts[n].route =>
              attempts[n].route = "primary" /\ FallbackFailure(n)
        BY <1>7, <2>1, <4>1 DEF validateModelRoute, ActiveModelRoute
      <4> QED BY <2>2, <3>2, <4>1, <4>2, <4>3 DEF FallbackFailure, PlanFits
    <3> QED BY <1>2, <3>1, <3>2
  <2>9. DoneFits'
    BY <1>7 DEF Owner, DoneFits
  <2>10. BudgetFits'
    <3>1. Charges(res') + Over(res) <= Charges(res) + Over(res')
      <4>1. Charges(res) \in Nat /\ Over(res) \in Nat
        BY SumsTyped DEF CallInv, QuotaInv
      <4> QED BY <2>6, <4>1
    <3>2. ReserveFits(worker[w])'
      BY <2>3 DEF ReserveFits, Becomes
    <3> QED BY <2>3, <2>5, <2>6, <2>7, <3>1, <3>2, BudgetKept DEF Becomes
  <2>11. ASSUME NEW x \in DOMAIN res' PROVE ReservationFits(x)'
    <3>1. ReservationFits(x)
      BY <2>6 DEF CallInv
    <3>2. \A m \in DOMAIN attempts : m \in DOMAIN attempts'
      BY <1>2, <2>2
    <3> QED BY <2>6, <3>1, <3>2 DEF ReservationFits
  <2>12. ASSUME NEW m \in DOMAIN attempts' PROVE AttemptFits(m)'
    <3>1. CASE m \in 1..n
      <4>1. AttemptFits(m)
        BY <1>2, <3>1 DEF CallInv
      <4> QED BY <2>2, <2>6, <3>1, <4>1 DEF AttemptFits, HasReservation, HasMarker
    <3>2. CASE m = n + 1
      <4>1. Own[m] \notin DOMAIN res
        <5> SUFFICES ASSUME Own[m] \in DOMAIN res PROVE FALSE
          OBVIOUS
        <5>1. PICK k \in 1..n : Own[m] = Own[k]
          BY <1>2 DEF CallInv, ReservationFits
        <5>2. m \in DOMAIN Own /\ k \in DOMAIN Own
          BY <1>2, <2>4, <3>2, AttemptAssumption
        <5>3. m = k
          BY <5>1, <5>2, AttemptAssumption DEF IsInjective
        <5> QED BY <1>2, <3>2, <5>3
      <4> QED BY <2>1, <2>2, <2>6, <3>2, <4>1 DEF AttemptFits, HasReservation
    <3> QED BY <1>2, <2>2, <3>1, <3>2
  <2>13. ASSUME NEW m \in 1..Len(Own) PROVE RequestFits(m)'
    BY <2>6 DEF CallInv, RequestFits, HasReservation, HasMarker
  <2>14. WorkerFits(worker[w])'
    BY <1>2, <2>2, <2>3 DEF WorkerFits, Becomes
  <2>15. ~Streaming(worker'[w])
    BY <2>3 DEF Streaming, Becomes
  <2> QED BY <2>3, <2>5, <2>6, <2>7, <2>8, <2>9, <2>10, <2>11, <2>12, <2>13, <2>14,
             <2>15, CallStep DEF Becomes
<1>8. n > 0 => attempts[n].status \in {"prepared", "completed", "failed"}
  BY <1>2, AttemptsTyped DEF CallInv
<1> QED BY <1>2, <1>4, <1>6, <1>7, <1>8 DEF BeginPricedAttempt

\* The row of an attempt is finished, or written again as it is.
LEMMA RowStep ==
  ASSUME CallInv, NEW w \in Workers, UNCHANGED <<quotaVars, run, sent, log>>,
         NEW n \in DOMAIN attempts, NEW row \in AttemptRow,
         attempts' = [attempts EXCEPT ![n] = row], row.route = attempts[n].route,
         row.deadline = attempts[n].deadline,
         attempts[n].status # "prepared" => row = attempts[n],
         AttemptFits(n)',
         NEW pc, NEW plan, Becomes(w, pc, n, plan), WorkerFits(worker[w])',
         pc \notin {"send", "stream", "complete", "reserve"}
  PROVE  CallInv'
<1>1. /\ Len(attempts) \in Nat /\ DOMAIN attempts = 1..Len(attempts)
      /\ attempts \in Seq(AttemptRow)
  BY AttemptsTyped DEF CallInv, CallTyped
<1>2. /\ attempts' \in Seq(AttemptRow) /\ Len(attempts') = Len(attempts)
      /\ DOMAIN attempts' = DOMAIN attempts /\ attempts'[n] = row
      /\ \A m \in DOMAIN attempts : m # n => attempts'[m] = attempts[m]
  BY <1>1
<1>3. CallTyped' /\ QuotaInv'
  <2>1. QuotaInv'
    BY QuotaStepInv DEF CallInv
  <2> QED BY <1>2, <2>1 DEF CallInv, CallTyped, Becomes
<1>4. /\ now' = now /\ res' = res /\ now \in Nat /\ run' = run
      /\ sent' = sent /\ log' = log
  BY DEF quotaVars, CallInv, QuotaInv
<1>5. \A m \in DOMAIN attempts :
        /\ attempts'[m].route = attempts[m].route
        /\ attempts'[m].deadline = attempts[m].deadline
        /\ attempts[m].status # "prepared" => attempts'[m] = attempts[m]
  BY <1>2
<1>6. Later
  BY <1>1, <1>2, <1>4, <1>5 DEF Later
<1>7. RetriesFit'
  <2> SUFFICES ASSUME NEW m \in DOMAIN attempts, m < Len(attempts)
               PROVE  /\ attempts'[m].status = "failed"
                      /\ attempts'[m].policy.plan.retry
                      /\ attempts'[m].route # attempts'[m + 1].route =>
                           /\ attempts'[m].route = "primary"
                           /\ attempts'[m].policy.plan.outcome = "failure"
    BY <1>2 DEF RetriesFit
  <2>1. m + 1 \in DOMAIN attempts
    BY <1>1
  <2>2. attempts[m].status = "failed"
    BY DEF CallInv, RetriesFit
  <2> QED BY <1>5, <2>1, <2>2 DEF CallInv, RetriesFit
<1>8. DoneFits'
  BY <1>2, <1>4, <1>5 DEF CallInv, DoneFits
<1>9. BudgetFits'
  <2>1. Charges(res') + Over(res) <= Charges(res) + Over(res')
    <3>1. Charges(res) \in Nat /\ Over(res) \in Nat
      BY SumsTyped DEF CallInv, QuotaInv
    <3> QED BY <1>4, <3>1
  <2>2. ReserveFits(worker[w])'
    BY DEF ReserveFits, Becomes
  <2> QED BY <1>3, <1>4, <1>6, <2>1, <2>2, BudgetKept DEF Becomes
<1>10. ASSUME NEW x \in DOMAIN res' PROVE ReservationFits(x)'
  BY <1>2, <1>4 DEF CallInv, ReservationFits
<1>11. ASSUME NEW m \in DOMAIN attempts' PROVE AttemptFits(m)'
  <2>1. CASE m = n
    BY <2>1
  <2>2. CASE m # n
    <3>1. AttemptFits(m) /\ attempts'[m] = attempts[m]
      BY <1>2, <2>2 DEF CallInv
    <3> QED BY <1>4, <3>1 DEF AttemptFits, HasReservation, HasMarker
  <2> QED BY <2>1, <2>2
<1>12. ASSUME NEW m \in 1..Len(Own) PROVE RequestFits(m)'
  BY <1>4 DEF CallInv, RequestFits, HasReservation, HasMarker
<1>13. ~Streaming(worker'[w])
  BY DEF Streaming, Becomes
<1> QED BY <1>3, <1>4, <1>6, <1>7, <1>8, <1>9, <1>10, <1>11, <1>12, <1>13, CallStep
        DEF Becomes

\* The policy of the next attempt has its type.
LEMMA NextRetryTyped ==
  ASSUME CallInv, NEW w \in Workers, NEW delay \in Delays, PlanFits(worker[w].plan)
  PROVE  NextRetry(w, delay) \in PolicyRow /\ PlanFits(NextRetry(w, delay).plan)
<1> DEFINE plan == worker[w].plan
           stop == [plan EXCEPT !.retry = FALSE]
<1>1. plan \in PlanRow
  BY WorkerTyped
<1>2. stop \in PlanRow /\ stop.code = plan.code /\ stop.outcome = plan.outcome
  BY <1>1 DEF PlanRow
<1>3. PlanFits(stop)
  BY <1>2 DEF PlanFits
<1>4. now + delay \in Int
  BY AttemptAssumption DEF CallInv, QuotaInv
<1>5. NextRetry(w, delay) \in {[plan |-> plan, notBefore |-> now + delay],
                               [plan |-> stop, notBefore |-> 0]}
  BY DEF NextRetry
<1> HIDE DEF plan, stop
<1> QED BY <1>1, <1>2, <1>3, <1>4, <1>5 DEF PolicyRow, plan

\* FinishFailedAttempt records the failure and its plan.
LEMMA FinishFailedAttemptInv ==
  ASSUME CallInv, NEW w \in Workers, FinishFailedAttempt(w)
  PROVE  CallInv'
<1>1. worker[w].pc = "finish" /\ UNCHANGED <<quotaVars, sent, log>>
  BY DEF FinishFailedAttempt
<1>2. PICK n : n = worker[w].n
  OBVIOUS
<1>3. /\ n \in DOMAIN attempts /\ n > 0 /\ n \in Nat /\ WorkerFits(worker[w])
      /\ Row(w) = attempts[n] /\ attempts[n] \in AttemptRow /\ AttemptFits(n)
  BY <1>1, <1>2, WorkerAttempt
<1>4. PlanFits(worker[w].plan)
  BY <1>1, <1>3 DEF WorkerFits
<1>5. CASE Fails(w) /\ UNCHANGED attempts
  BY <1>1, <1>5, GroupStill, FailsStep
<1>6. ASSUME NEW policy \in PolicyRow, PlanFits(policy.plan),
             \/ attempts[n].status = "prepared"
             \/ attempts[n].status = "failed" /\ attempts[n].policy = policy,
             attempts' = Failed(w, policy), GoOn(w, "record", NoPlan), UNCHANGED run
      PROVE  CallInv'
  <2> DEFINE row == [attempts[n] EXCEPT !.status = "failed", !.policy = policy]
  <2>1. /\ row \in AttemptRow /\ row.status = "failed" /\ row.policy = policy
        /\ row.route = attempts[n].route /\ row.deadline = attempts[n].deadline
    BY <1>3, <1>6 DEF AttemptRow
  <2>2. attempts[n].status # "prepared" => row = attempts[n]
    BY <1>3, <1>6 DEF AttemptRow
  <2>3. attempts' = [attempts EXCEPT ![n] = row] /\ attempts \in Seq(AttemptRow)
    BY <1>2, <1>3, <1>6 DEF Failed, CallInv, CallTyped
  <2> HIDE DEF row
  <2>4. attempts'[n] = row /\ DOMAIN attempts' = DOMAIN attempts
        /\ Len(attempts') = Len(attempts)
    BY <1>3, <2>3
  <2>5. HasReservation(n) \/ now >= attempts[n].deadline
    BY <1>1, <1>2, <1>3 DEF WorkerFits
  <2>6. res' = res /\ now' = now
    BY <1>1 DEF quotaVars
  <2>7. AttemptFits(n)'
    BY <1>3, <1>6, <2>1, <2>4, <2>5, <2>6 DEF AttemptFits, HasReservation
  <2>8. "record" \in Steps /\ NoPlan \in PlanRow
    BY IdleTyped DEF Steps
  <2>9. Becomes(w, "record", n, NoPlan) /\ Fresh(worker'[w])
    BY <1>2, <1>6, <2>8, GoOnBecomes
  <2>10. WorkerFits(worker[w])'
    BY <1>2, <1>3, <2>1, <2>4, <2>9 DEF WorkerFits, Becomes, Fresh
  <2> QED BY <1>1, <1>3, <1>6, <2>1, <2>2, <2>3, <2>7, <2>9, <2>10, RowStep
<1>7. \A delay \in Delays :
        NextRetry(w, delay) \in PolicyRow /\ PlanFits(NextRetry(w, delay).plan)
  BY <1>4, NextRetryTyped
<1> QED BY <1>3, <1>5, <1>6, <1>7 DEF FinishFailedAttempt

\* CompleteAttempt records the answer and its usage.
LEMMA CompleteAttemptInv ==
  ASSUME CallInv, NEW w \in Workers, CompleteAttempt(w)
  PROVE  CallInv'
<1>1. worker[w].pc = "complete" /\ UNCHANGED <<quotaVars, sent, log>>
  BY DEF CompleteAttempt
<1>2. PICK n : n = worker[w].n
  OBVIOUS
<1>3. /\ n \in DOMAIN attempts /\ n > 0 /\ n \in Nat /\ WorkerFits(worker[w])
      /\ Row(w) = attempts[n] /\ attempts[n] \in AttemptRow /\ AttemptFits(n)
      /\ worker[w].usage \in Usages \cup {Unknown}
  BY <1>1, <1>2, WorkerAttempt, WorkerTyped DEF WorkerState
<1>4. HasMarker(n) /\ Len(log[n]) = Chunks
  BY <1>1, <1>2, <1>3 DEF WorkerFits
<1>5. CASE Fails(w) /\ UNCHANGED attempts
  BY <1>1, <1>5, GroupStill, FailsStep
<1>6. CASE /\ attempts[n].status = "prepared" /\ GoOn(w, "settle", NoPlan) /\ UNCHANGED run
           /\ attempts' = [attempts EXCEPT ![n].status = "completed",
                                           ![n].usage = worker[w].usage]
  <2> DEFINE row == [attempts[n] EXCEPT !.status = "completed", !.usage = worker[w].usage]
  <2>1. /\ row \in AttemptRow /\ row.status = "completed"
        /\ row.route = attempts[n].route /\ row.deadline = attempts[n].deadline
    BY <1>3 DEF AttemptRow
  <2>2. attempts' = [attempts EXCEPT ![n] = row] /\ attempts \in Seq(AttemptRow)
    BY <1>3, <1>6 DEF CallInv, CallTyped
  <2> HIDE DEF row
  <2>3. attempts'[n] = row /\ DOMAIN attempts' = DOMAIN attempts
        /\ Len(attempts') = Len(attempts)
    BY <1>3, <2>2
  <2>4. HasMarker(n)' /\ res' = res /\ log' = log
    BY <1>1, <1>4 DEF HasMarker, HasReservation, quotaVars
  <2>5. AttemptFits(n)'
    BY <1>3, <1>4, <1>6, <2>1, <2>3, <2>4 DEF AttemptFits, HasReservation, HasMarker
  <2>6. "settle" \in Steps /\ NoPlan \in PlanRow
    BY IdleTyped DEF Steps
  <2>7. Becomes(w, "settle", n, NoPlan) /\ Fresh(worker'[w])
    BY <1>2, <1>6, <2>6, GoOnBecomes
  <2>8. WorkerFits(worker[w])'
    BY <1>2, <1>3, <2>1, <2>3, <2>4, <2>7 DEF WorkerFits, Becomes, Fresh, HasMarker,
       HasReservation
  <2> QED BY <1>1, <1>3, <1>6, <2>1, <2>2, <2>5, <2>7, <2>8, RowStep
<1> QED BY <1>2, <1>3, <1>5, <1>6 DEF CompleteAttempt

-----------------------------------------------------------------------------
(* The request and its text *)

\* A worker that streams changes what was sent and stored of its own attempt.
LEMMA RequestStep ==
  ASSUME CallInv, NEW w \in Workers, UNCHANGED <<quotaVars, run, attempts>>,
         Streaming(worker[w]), NEW n, n = worker[w].n,
         sent' \in [1..Len(Own) -> Nat], log' \in [1..Len(Own) -> Seq(Nat)],
         \A m \in 1..Len(Own) : m # n => sent'[m] = sent[m] /\ log'[m] = log[m],
         RequestFits(n)', attempts[n].status = "completed" => log'[n] = log[n],
         NEW pc, NEW plan, Becomes(w, pc, n, plan), pc # "reserve", WorkerFits(worker[w])'
  PROVE  CallInv'
<1>1. n \in DOMAIN attempts /\ n \in 1..Len(Own)
  BY WorkerTyped DEF Streaming
<1>2. CallTyped' /\ QuotaInv'
  <2>1. QuotaInv'
    BY QuotaStepInv DEF CallInv
  <2> QED BY <2>1 DEF CallInv, CallTyped, Becomes
<1>3. now' = now /\ res' = res /\ now \in Nat /\ run' = run /\ attempts' = attempts
  BY DEF quotaVars, CallInv, QuotaInv
<1>4. Len(attempts) \in Nat /\ DOMAIN attempts = 1..Len(attempts)
      /\ \A m \in DOMAIN attempts : m \in 1..Len(Own)
  BY AttemptsTyped DEF CallInv
<1>5. Later
  BY <1>3, <1>4 DEF Later
<1>6. RetriesFit' /\ DoneFits'
  BY <1>3 DEF CallInv, RetriesFit, DoneFits
<1>7. BudgetFits'
  <2>1. Charges(res') + Over(res) <= Charges(res) + Over(res')
    <3>1. Charges(res) \in Nat /\ Over(res) \in Nat
      BY SumsTyped DEF CallInv, QuotaInv
    <3> QED BY <1>3, <3>1
  <2>2. ReserveFits(worker[w])'
    BY DEF ReserveFits, Becomes
  <2> QED BY <1>2, <1>3, <1>5, <2>1, <2>2, BudgetKept DEF Becomes
<1>8. ASSUME NEW x \in DOMAIN res' PROVE ReservationFits(x)'
  BY <1>3 DEF CallInv, ReservationFits
<1>9. ASSUME NEW m \in DOMAIN attempts' PROVE AttemptFits(m)'
  <2>1. AttemptFits(m) /\ (attempts[m].status = "completed" => log'[m] = log[m])
    BY <1>3, <1>4 DEF CallInv
  <2> QED BY <1>3, <2>1 DEF AttemptFits, HasReservation, HasMarker
<1>10. ASSUME NEW m \in 1..Len(Own) PROVE RequestFits(m)'
  <2>1. CASE m = n
    BY <2>1
  <2>2. CASE m # n
    <3>1. RequestFits(m) /\ sent'[m] = sent[m] /\ log'[m] = log[m]
      BY <2>2 DEF CallInv
    <3> QED BY <1>3, <3>1 DEF RequestFits, HasReservation, HasMarker
  <2> QED BY <2>1, <2>2
<1>11. ASSUME NEW v \in Workers, v # w, Streaming(worker[v])
       PROVE  /\ worker[v].n # n /\ log'[worker[v].n] = log[worker[v].n]
              /\ sent'[worker[v].n] = sent[worker[v].n]
  <2>1. worker[v].n # n
    BY <1>11 DEF CallInv, SendersApart
  <2>2. worker[v].n \in 1..Len(Own)
    BY <1>11, WorkerTyped DEF Streaming
  <2> QED BY <2>1, <2>2
<1>12. worker'[w].n = n /\ \A v \in Workers : v # w => worker'[v] = worker[v]
  BY DEF Becomes
<1> QED BY <1>2, <1>5, <1>6, <1>7, <1>8, <1>9, <1>10, <1>11, <1>12, CallStep

\* The request goes out.
LEMMA SendInv ==
  ASSUME CallInv, NEW w \in Workers, Send(w)
  PROVE  CallInv'
<1>1. /\ worker[w].pc = "send" /\ UNCHANGED <<quotaVars, run, attempts, log>>
      /\ sent' = [sent EXCEPT ![worker[w].n] = sent[worker[w].n] + 1]
      /\ Goto(w, "stream")
  BY DEF Send
<1>2. PICK n : n = worker[w].n
  OBVIOUS
<1>3. /\ n \in DOMAIN attempts /\ n > 0 /\ n \in Nat /\ WorkerFits(worker[w])
      /\ n \in 1..Len(Own)
  BY <1>1, <1>2, WorkerAttempt, WorkerTyped
<1>4. /\ HasMarker(n) /\ sent[n] = 0 /\ Len(log[n]) = 0
      /\ worker[w].fed = 0 /\ worker[w].done = 0
  BY <1>1, <1>2, <1>3 DEF WorkerFits
<1>5. /\ sent \in [1..Len(Own) -> Nat] /\ log' \in [1..Len(Own) -> Seq(Nat)]
      /\ log' = log /\ RequestFits(n)
  BY <1>1, <1>3 DEF CallInv, CallTyped
<1>6. /\ sent' \in [1..Len(Own) -> Nat] /\ sent'[n] = 1
      /\ \A m \in 1..Len(Own) : m # n => sent'[m] = sent[m]
  BY <1>1, <1>2, <1>3, <1>4, <1>5
<1>7. HasMarker(n)' /\ attempts' = attempts
  BY <1>1, <1>4 DEF HasMarker, HasReservation, quotaVars
<1>8. RequestFits(n)'
  BY <1>5, <1>6, <1>7 DEF RequestFits
<1>9. "stream" \in Steps
  BY DEF Steps
<1>10. /\ Becomes(w, "stream", n, worker[w].plan)
       /\ worker'[w].fed = worker[w].fed /\ worker'[w].done = worker[w].done
  BY <1>1, <1>2, <1>9, GotoBecomes
<1>11. WorkerFits(worker[w])'
  BY <1>1, <1>2, <1>3, <1>4, <1>5, <1>7, <1>10, AttemptAssumption
  DEF WorkerFits, Becomes, HasMarker, HasReservation
<1> QED BY <1>1, <1>2, <1>5, <1>6, <1>8, <1>10, <1>11, RequestStep DEF Streaming

\* The first f pieces of an answer, and the pieces d + 1 to f.
Pieces(s, f) == s \in Seq(Nat) /\ Len(s) = f /\ \A i \in DOMAIN s : s[i] = i
More(d, f) == [i \in 1..(f - d) |-> d + i]

\* The next piece of text begins where the stored ones end.
LEMMA Continued ==
  ASSUME NEW d \in Nat, NEW f \in Nat, d <= f, NEW s, Pieces(s, d),
         NEW p, p = More(d, f)
  PROVE  Pieces(s \o p, f)
<1>0. s \in Seq(Nat) /\ Len(s) = d /\ \A i \in 1..d : s[i] = i
  BY DEF Pieces
<1>1. f - d \in Nat
  OBVIOUS
<1>2. p \in Seq(Nat) /\ Len(p) = f - d
  <2>1. \A i \in 1..(f - d) : d + i \in Nat
    BY <1>1
  <2> QED BY <1>1, <2>1 DEF More
<1>3. s \o p \in Seq(Nat) /\ Len(s \o p) = f
  BY <1>0, <1>2
<1>4. ASSUME NEW i \in 1..f PROVE (s \o p)[i] = i
  <2>1. CASE i <= d
    <3>1. i \in 1..Len(s) /\ (s \o p)[i] = s[i]
      BY <1>0, <1>2, <2>1
    <3> QED BY <1>0, <3>1
  <2>2. CASE i > d
    <3>1. i - d \in 1..(f - d) /\ (s \o p)[i] = p[i - d]
      BY <1>0, <1>1, <1>2, <2>2
    <3>2. p[i - d] = d + (i - d)
      BY <3>1 DEF More
    <3> QED BY <3>1, <3>2
  <2>3. i <= d \/ i > d
    OBVIOUS
  <2> QED BY <2>1, <2>2, <2>3
<1> QED BY <1>3, <1>4 DEF Pieces

\* Flush stores the text that has come in since.
LEMMA FlushInv ==
  ASSUME CallInv, NEW w \in Workers, Flush(w)
  PROVE  CallInv'
<1>1. /\ worker[w].pc = "stream" /\ worker[w].fed > worker[w].done
      /\ UNCHANGED <<quotaVars, run, attempts, sent>>
  BY DEF Flush
<1>2. PICK stored \in BOOLEAN, told \in BOOLEAN :
        (told => stored) /\ flush(w, stored, told)
  BY DEF Flush
<1>3. PICK n, f, d : n = worker[w].n /\ f = worker[w].fed /\ d = worker[w].done
  OBVIOUS
<1>4. /\ n \in DOMAIN attempts /\ n > 0 /\ n \in Nat /\ WorkerFits(worker[w])
      /\ n \in 1..Len(Own) /\ worker[w] \in WorkerState /\ AttemptFits(n)
      /\ worker \in [Workers -> WorkerState]
  BY <1>1, <1>3, WorkerAttempt, WorkerTyped
<1>5. /\ HasMarker(n) /\ Len(log[n]) = d /\ d < f /\ f <= Chunks
      /\ f \in Nat /\ d \in Nat /\ Chunks \in Nat
  BY <1>1, <1>3, <1>4, AttemptAssumption DEF WorkerFits, WorkerState
<1>6. /\ log \in [1..Len(Own) -> Seq(Nat)] /\ sent' = sent
      /\ sent' \in [1..Len(Own) -> Nat] /\ RequestFits(n) /\ log[n] \in Seq(Nat)
  BY <1>1, <1>4 DEF CallInv, CallTyped
<1>7. PICK plan : plan = Plan("consumer", FALSE, "neutral")
  OBVIOUS
<1>8. plan \in PlanRow /\ PlanFits(plan) /\ plan # NoPlan
  BY <1>7, StreamPlans
<1>9. CASE ~stored
  <2>1. UNCHANGED log /\ GoOn(w, "unknown", plan)
    BY <1>2, <1>7, <1>9 DEF flush
  <2>2. GroupStep(NoAttempt) /\ UNCHANGED run
    BY <1>1, <2>1, GroupStill
  <2> QED BY <1>1, <1>8, <2>1, <2>2, StreamStops
<1>10. CASE stored
  <2>1. PICK p : p = More(d, f)
    OBVIOUS
  <2>2. log' = [log EXCEPT ![n] = log[n] \o p]
    BY <1>2, <1>3, <1>10, <2>1 DEF flush, Pending, More
  <2>3. Pieces(log[n] \o p, f)
    <3>1. Pieces(log[n], d) /\ d <= f
      BY <1>5, <1>6 DEF RequestFits, Pieces
    <3> QED BY <1>5, <2>1, <3>1, Continued
  <2>4. PICK t : t = log[n] \o p
    OBVIOUS
  <2>5. /\ log' \in [1..Len(Own) -> Seq(Nat)] /\ log'[n] = t
        /\ \A m \in 1..Len(Own) : m # n => log'[m] = log[m]
    BY <1>4, <1>6, <2>2, <2>3, <2>4 DEF Pieces
  <2>6. Len(log'[n]) = f /\ \A i \in DOMAIN log'[n] : log'[n][i] = i
    BY <2>3, <2>4, <2>5 DEF Pieces
  <2>7. HasMarker(n)' /\ attempts' = attempts
    BY <1>1, <1>5 DEF HasMarker, HasReservation, quotaVars
  <2>8. RequestFits(n)'
    BY <1>5, <1>6, <2>6, <2>7 DEF RequestFits
  <2>9. attempts[n].status # "completed"
    BY <1>4, <1>5 DEF AttemptFits
  <2>10. CASE told
    <3> DEFINE x == [worker[w] EXCEPT !.done = f]
    <3>1. /\ x \in WorkerState /\ x.pc = "stream" /\ x.n = n
          /\ x.plan = worker[w].plan /\ x.fed = f /\ x.done = f
      BY <1>1, <1>3, <1>4, <1>5 DEF WorkerState
    <3>2. worker' = [worker EXCEPT ![w] = x]
      BY <1>2, <1>3, <1>4, <2>10 DEF flush
    <3> HIDE DEF x
    <3>3. Becomes(w, "stream", n, worker[w].plan) /\ worker'[w] = x
      BY <1>4, <3>1, <3>2 DEF Becomes
    <3>4. WorkerFits(worker[w])'
      BY <1>1, <1>4, <1>5, <2>6, <2>7, <3>1, <3>3
      DEF WorkerFits, HasMarker, HasReservation
    <3> QED BY <1>1, <1>3, <1>6, <2>5, <2>8, <2>9, <3>3, <3>4, RequestStep DEF Streaming
  <2>11. CASE ~told
    <3>1. GoOn(w, "unknown", plan) /\ "unknown" \in Steps
      BY <1>2, <1>7, <2>11 DEF flush, Steps
    <3>2. Becomes(w, "unknown", n, plan) /\ Fresh(worker'[w])
      BY <1>3, <1>8, <3>1, GoOnBecomes
    <3>3. WorkerFits(worker[w])'
      BY <1>3, <1>4, <1>8, <2>7, <3>2
      DEF WorkerFits, Becomes, Fresh, HasMarker, HasReservation
    <3> QED BY <1>1, <1>3, <1>6, <2>5, <2>8, <2>9, <3>2, <3>3, RequestStep DEF Streaming
  <2> QED BY <2>10, <2>11
<1> QED BY <1>9, <1>10

-----------------------------------------------------------------------------
(* The theorems of the model call *)

\* No attempt, no reservation and no worker.
LEMMA CallInitInv ==
  ASSUME AttemptInit
  PROVE  CallInv
<1>1. QuotaInv /\ DOMAIN res = {}
  BY QuotaInitInv DEF AttemptInit, QuotaInit
<1>2. PICK m \in MaxCosts :
        run = [status |-> "model", owner |-> NoWorker, epoch |-> 0,
               notBefore |-> 0, maxCost |-> m]
  BY DEF AttemptInit
<1>3. run \in RunRow /\ run.maxCost \in Nat /\ run.status = "model"
  BY <1>2, AttemptAssumption DEF RunRow
<1>4. /\ attempts \in Seq(AttemptRow) /\ Len(attempts) = 0 /\ DOMAIN attempts = {}
      /\ Len(Own) \in Nat
  BY AttemptAssumption DEF AttemptInit
<1>5. /\ worker \in [Workers -> WorkerState]
      /\ \A w \in Workers : worker[w] = Idle
  BY IdleTyped DEF AttemptInit
<1>6. /\ sent \in [1..Len(Own) -> Nat] /\ log \in [1..Len(Own) -> Seq(Nat)]
      /\ \A n \in 1..Len(Own) : sent[n] = 0 /\ log[n] = << >>
  BY DEF AttemptInit
<1>7. CallTyped
  BY <1>3, <1>4, <1>5, <1>6 DEF CallTyped
<1>8. RetriesFit /\ DoneFits
  BY <1>3, <1>4 DEF RetriesFit, DoneFits
<1>9. /\ Idle.pc = "idle" /\ Idle.n = 0 /\ Idle.plan = NoPlan
      /\ Idle.fed = 0 /\ Idle.done = 0
  BY IdleTyped DEF Fresh
<1>10. \A w \in Workers : /\ WorkerFits(worker[w]) /\ ReserveFits(worker[w])
                          /\ ~Streaming(worker[w])
  BY <1>4, <1>5, <1>9 DEF WorkerFits, ReserveFits, Streaming
<1>11. \A n \in 1..Len(Own) : RequestFits(n)
  <2>1. Len(<< >>) = 0 /\ DOMAIN << >> = {} /\ 0 <= Chunks
    BY AttemptAssumption
  <2> QED BY <1>6, <2>1 DEF RequestFits
<1>12. run.maxCost > 0 => Charges(res) <= run.maxCost + Over(res)
  <2>1. Charges(res) = 0 /\ Over(res) = 0
    BY <1>1, SumEmpty DEF Charges, Over
  <2> QED BY <1>3, <2>1
<1> QED BY <1>1, <1>4, <1>7, <1>8, <1>10, <1>11, <1>12
        DEF CallInv, SendersApart, BudgetFits

\* Every step of the call keeps CallInv.
LEMMA CallNextInv ==
  ASSUME CallInv, [AttemptNext]_attemptVars
  PROVE  CallInv'
<1>1. ASSUME NEW w \in Workers, WorkerStep(w) PROVE CallInv'
  BY <1>1, ClaimInv, SelectRouteInv, BeginPricedAttemptInv,
     GetReservationInv, ProveLeaseInv, CheckCostInv, AbandonInv,
     ReserveQuotaInv, UnsureInv, WaitInv, ReadyInv, MarkInv, SendInv, emitInv,
     FlushInv, StreamFailsInv, StreamEndsInv, StreamUnknownInv,
     FinishFailedAttemptInv, replayFailureOutcomeInv, CompleteAttemptInv,
     SettleUsageInv, RecordSuccessInv, ModelCompletedInv
  DEF WorkerStep
<1>2. CASE UNCHANGED attemptVars
  <2>1. UNCHANGED quotaVars /\ UNCHANGED <<attempts, sent, log>> /\ UNCHANGED <<run, worker>>
    BY <1>2 DEF attemptVars, quotaVars
  <2>2. GroupStep(NoAttempt) /\ RunKept
    BY <2>1, GroupStill, RunKeptStill
  <2>3. worker' \in [Workers -> WorkerState] /\ NoWorker \notin Workers
    BY <2>1, AttemptAssumption DEF CallInv, CallTyped
  <2> QED BY <2>1, <2>2, <2>3, QuotaCallStep DEF GroupStep, RunKept
<1> QED BY <1>1, <1>2, DieInv, OthersStepInv DEF AttemptNext

\* CallInv always holds.
LEMMA CallAlways == AttemptSpec => []CallInv
<1>1. AttemptInit => CallInv
  BY CallInitInv
<1>2. CallInv /\ [AttemptNext]_attemptVars => CallInv'
  BY CallNextInv
<1> QED BY <1>1, <1>2, PTL DEF AttemptSpec

\* For any number of workers, claims and attempts: a request goes to the provider
\* at most once, and once it went its reserve is never given back as if it had
\* not (MarkDispatched, AbandonBeforeDispatch).
THEOREM RequestSentOnce == AttemptSpec => []SentOnce
<1>1. CallInv => SentOnce
  <2> SUFFICES ASSUME CallInv, NEW n \in DOMAIN sent
               PROVE  /\ sent[n] <= 1
                      /\ sent[n] > 0 => /\ Own[n] \in DOMAIN res
                                        /\ res[Own[n]].kind # "not_dispatched"
    BY DEF SentOnce
  <2>1. n \in 1..Len(Own)
    BY DEF CallInv, CallTyped
  <2>2. RequestFits(n)
    BY <2>1 DEF CallInv
  <2>3. HasMarker(n) => ReservationFits(Own[n])
    BY DEF CallInv, HasMarker, HasReservation
  <2> QED BY <2>2, <2>3 DEF RequestFits, ReservationFits, HasMarker, HasReservation
<1> QED BY <1>1, CallAlways, PTL

\* For any number of workers, claims and attempts: the attempts, their
\* reservations and the circuit tell the same story, and a step that is done has
\* stored, settled and reported its answer (CompleteAttempt, FinishFailedAttempt,
\* replayFailureOutcome, completedModel).
THEOREM OutcomesAgree == AttemptSpec => []OutcomeAgrees
<1>1. CallInv => OutcomeAgrees
  <2> SUFFICES ASSUME CallInv, NEW n \in DOMAIN attempts, NEW a, a = Own[n]
               PROVE  /\ n < Len(attempts) =>
                           /\ attempts[n].status = "failed"
                           /\ attempts[n].policy.plan.retry
                           /\ attempts[n].route # attempts[n + 1].route =>
                                /\ attempts[n].route = "primary"
                                /\ attempts[n].policy.plan.outcome = "failure"
                      /\ n = Len(attempts) /\ run.status = "done" =>
                           /\ attempts[n].status = "completed" /\ res[a].released
                           /\ res[a].outcome = "success"
                      /\ attempts[n].status = "completed" =>
                           a \in DOMAIN res /\ res[a].dispatched
                      /\ a \in DOMAIN res =>
                           /\ res[a].kind = "actual_usage" =>
                                /\ attempts[n].status = "completed"
                                /\ res[a].used = attempts[n].usage
                           /\ res[a].outcome # "none" =>
                                CASE attempts[n].status = "completed" ->
                                       res[a].outcome = "success"
                                  [] attempts[n].status = "failed" ->
                                       res[a].outcome = attempts[n].policy.plan.outcome
                                  [] OTHER -> FALSE
    BY DEF OutcomeAgrees
  <2>1. AttemptFits(n) /\ RetriesFit /\ DoneFits
    BY DEF CallInv
  <2> QED BY <2>1 DEF AttemptFits, RetriesFit, DoneFits, HasMarker, HasReservation
<1> QED BY <1>1, CallAlways, PTL

\* For any number of workers, claims and attempts, any costs and any limit: what
\* the run has reserved and spent stays within its own limit, but for usage
\* beyond a reserve, although it is checked and reserved in two transactions
\* (RunCost).
THEOREM RunStaysInBudget == AttemptSpec => []RunBudgetHeld
<1>1. CallInv => RunBudgetHeld
  BY RunCostIs DEF CallInv, BudgetFits, RunBudgetHeld
<1> QED BY <1>1, CallAlways, PTL

\* For any number of workers, claims and attempts and answers of any length: the
\* stored text of an attempt is a prefix of its answer, each piece once, and all
\* of it when the answer is stored (streamSink).
THEOREM TextStoredOnce == AttemptSpec => []TextOnce
<1>1. CallInv => TextOnce
  <2> SUFFICES ASSUME CallInv, NEW n \in DOMAIN log
               PROVE  /\ IsPrefix(log[n], [i \in 1..Chunks |-> i])
                      /\ n \in DOMAIN attempts /\ attempts[n].status = "completed" =>
                           Len(log[n]) = Chunks
    BY DEF TextOnce
  <2>1. n \in 1..Len(Own) /\ log[n] \in Seq(Nat)
    BY DEF CallInv, CallTyped
  <2>2. Len(log[n]) <= Chunks /\ \A i \in DOMAIN log[n] : log[n][i] = i
    BY <2>1 DEF CallInv, RequestFits
  <2>3. Chunks \in Nat
    BY AttemptAssumption
  <2>4. ASSUME NEW s \in Seq(Nat), NEW k \in Nat, Len(s) <= k,
               \A i \in DOMAIN s : s[i] = i, NEW t, t = [i \in 1..k |-> i]
        PROVE  IsPrefix(s, t)
    <3>1. t \in Seq(Nat) /\ Len(t) = k
      BY <2>4
    <3>2. Len(s) \in Nat
      BY <2>4
    <3>3. SubSeq(s, 1, Len(s)) = SubSeq(t, 1, Len(s))
      BY <2>4, <3>1, <3>2
    <3> QED BY <2>4, <3>1, <3>2, <3>3 DEF IsPrefix
  <2>5. IsPrefix(log[n], [i \in 1..Chunks |-> i])
    BY <2>1, <2>2, <2>3, <2>4
  <2> QED BY <2>5 DEF CallInv, AttemptFits
<1> QED BY <1>1, CallAlways, PTL

-----------------------------------------------------------------------------
(* What is recorded is final *)

\* What a reservation keeps from one step to the next: what it was made for, its
\* marker, its outcome and its settlement.  A request whose slot was given back or
\* whose reserve was settled is not marked any more.
RowForward(row, new) ==
  /\ new.amount = row.amount /\ new.deadline = row.deadline
  /\ new.halfOpen = row.halfOpen
  /\ row.dispatched => new.dispatched
  /\ row.released => new.released /\ new.dispatched = row.dispatched
  /\ row.outcome # "none" => new.outcome = row.outcome
  /\ row.status = "unknown" => new.status # "reserved"
  /\ row.status = "settled" =>
       /\ new.status = "settled" /\ new.used = row.used /\ new.kind = row.kind
       /\ new.dispatched = row.dispatched

RowsForward ==
  /\ DOMAIN res \subseteq DOMAIN res'
  /\ \A a \in DOMAIN res : RowForward(res[a], res'[a])

\* A row that is swept goes forward.
LEMMA SweepForward ==
  ASSUME QuotaInv
  PROVE  /\ DOMAIN ExpiredRows = DOMAIN res
         /\ \A a \in DOMAIN res : RowForward(res[a], ExpiredRows[a])
<1>1. DOMAIN ExpiredRows = DOMAIN res
  BY DEF ExpiredRows
<1>2. ASSUME NEW a \in DOMAIN res PROVE RowForward(res[a], ExpiredRows[a])
  <2> DEFINE new == [res[a] EXCEPT !.released = TRUE,
                                   !.status = IF @ = "settled" THEN @ ELSE "unknown"]
  <2>1. res[a] \in ReservationRow
    BY DEF QuotaInv, RowsFit
  <2>2. ExpiredRows[a] = res[a] \/ ExpiredRows[a] = new
    BY DEF ExpiredRows
  <2>3. RowForward(res[a], res[a])
    BY DEF RowForward
  <2>4. RowForward(res[a], new)
    BY <2>1 DEF RowForward, ReservationRow
  <2> HIDE DEF new
  <2> QED BY <2>2, <2>3, <2>4
<1> QED BY <1>1, <1>2

\* One row changes and goes forward.
LEMMA OneForward ==
  ASSUME QuotaInv, NEW a \in DOMAIN res, NEW row, RowForward(res[a], row),
         res' = [res EXCEPT ![a] = row]
  PROVE  RowsForward
<1>1. res \in [DOMAIN res -> ReservationRow]
  BY DEF QuotaInv, RowsFit
<1>2. /\ DOMAIN res' = DOMAIN res /\ res'[a] = row
      /\ \A x \in DOMAIN res \ {a} : res'[x] = res[x]
  BY <1>1
<1>3. \A x \in DOMAIN res : RowForward(res[x], res[x])
  BY DEF RowForward
<1>4. ASSUME NEW x \in DOMAIN res PROVE RowForward(res[x], res'[x])
  BY <1>2, <1>3
<1> QED BY <1>2, <1>4 DEF RowsForward

\* Every transaction on the group takes its reservations forward.
LEMMA MovesForward ==
  ASSUME QuotaInv, QuotaMoves \/ UNCHANGED quotaVars
  PROVE  RowsForward
<1>1. /\ DOMAIN ExpiredRows = DOMAIN res
      /\ \A a \in DOMAIN res : RowForward(res[a], ExpiredRows[a])
  BY SweepForward
<1>2. \A a \in DOMAIN res : res[a] \in ReservationRow
  BY DEF QuotaInv, RowsFit
<1>3. UNCHANGED res => RowsForward
  BY DEF RowsForward, RowForward
<1>4. res \in [DOMAIN res -> ReservationRow]
  BY DEF QuotaInv, RowsFit
<1>5. ASSUME ExpireRequestSlots PROVE RowsForward
  <2>1. res' = ExpiredRows
    BY <1>5 DEF ExpireRequestSlots
  <2> QED BY <1>1, <2>1 DEF RowsForward
<1>6. ASSUME NEW a \in Attempts, NEW n \in Nat, NEW t \in Nat, Reserve(a, n, t),
             ~ExpireRequestSlots
      PROVE  RowsForward
  <2>1. PICK row : /\ a \notin DOMAIN res
                   /\ res' = [i \in DOMAIN res \cup {a} |->
                                IF i = a THEN row ELSE ExpiredRows[i]]
    BY <1>6 DEF Reserve
  <2>2. DOMAIN res \subseteq DOMAIN res'
    BY <2>1
  <2>3. ASSUME NEW x \in DOMAIN res PROVE res'[x] = ExpiredRows[x]
    BY <2>1
  <2> QED BY <1>1, <2>2, <2>3 DEF RowsForward
<1>7. ASSUME NEW a \in Attempts, MarkDispatched(a) PROVE RowsForward
  <2> DEFINE row == [res[a] EXCEPT !.dispatched = TRUE]
  <2>1. /\ a \in DOMAIN res /\ res[a].status = "reserved" /\ ~res[a].released
        /\ res' = [res EXCEPT ![a] = row]
    BY <1>4, <1>7 DEF MarkDispatched
  <2>2. RowForward(res[a], row)
    BY <1>2, <2>1 DEF RowForward, ReservationRow
  <2> HIDE DEF row
  <2> QED BY <2>1, <2>2, OneForward
<1>8. ASSUME NEW a \in Attempts, MarkUnknown(a) PROVE RowsForward
  <2> DEFINE row == [res[a] EXCEPT !.status = "unknown"]
  <2>1. /\ a \in DOMAIN res /\ res[a].status # "settled"
        /\ res' = [res EXCEPT ![a] = row]
    BY <1>4, <1>8 DEF MarkUnknown
  <2>2. RowForward(res[a], row)
    BY <1>2, <2>1 DEF RowForward, ReservationRow
  <2> HIDE DEF row
  <2> QED BY <2>1, <2>2, OneForward
<1>9. ASSUME NEW a \in Attempts, CompleteWithUnknownUsage(a) PROVE RowsForward
  <2> DEFINE row == [res[a] EXCEPT !.status = "unknown", !.released = TRUE]
  <2>1. /\ a \in DOMAIN res /\ res[a].status # "settled"
        /\ res' = [res EXCEPT ![a] = row]
    BY <1>4, <1>9 DEF CompleteWithUnknownUsage
  <2>2. RowForward(res[a], row)
    BY <1>2, <2>1 DEF RowForward, ReservationRow
  <2> HIDE DEF row
  <2> QED BY <2>1, <2>2, OneForward
<1>10. ASSUME NEW a \in Attempts, NEW u, NEW kind, settle(a, u, kind)
       PROVE  RowsForward
  <2> DEFINE row == [res[a] EXCEPT !.status = "settled", !.used = u,
                                   !.kind = kind, !.released = TRUE]
  <2>1. CASE UNCHANGED res
    BY <1>3, <2>1
  <2>2. CASE ~UNCHANGED res
    <3>1. /\ a \in DOMAIN res /\ res[a].status # "settled"
          /\ res' = [res EXCEPT ![a] = row]
      BY <1>4, <1>10, <2>2 DEF settle
    <3>2. RowForward(res[a], row)
      BY <1>2, <3>1 DEF RowForward, ReservationRow
    <3> HIDE DEF row
    <3> QED BY <3>1, <3>2, OneForward
  <2> QED BY <2>1, <2>2
<1>11. ASSUME NEW a \in Attempts, NEW o \in Outcomes, RecordOutcome(a, o)
       PROVE  RowsForward
  <2> DEFINE row == [res[a] EXCEPT !.outcome = o]
  <2>1. CASE UNCHANGED res
    BY <1>3, <2>1
  <2>2. CASE ~UNCHANGED res
    <3>1. /\ a \in DOMAIN res /\ res[a].outcome = "none"
          /\ res' = [res EXCEPT ![a] = row]
      BY <1>4, <1>11, <2>2 DEF RecordOutcome
    <3>2. RowForward(res[a], row)
      BY <1>2, <3>1 DEF RowForward, ReservationRow
    <3> HIDE DEF row
    <3> QED BY <3>1, <3>2, OneForward
  <2> QED BY <2>1, <2>2
<1>12. Tick \/ (\E s \in Slots, b \in Budgets : Configure(s, b))
         \/ UNCHANGED quotaVars => UNCHANGED res
  BY DEF Tick, Configure, quotaVars
<1> QED BY <1>3, <1>5, <1>6, <1>7, <1>8, <1>9, <1>10, <1>11, <1>12
        DEF QuotaMoves, Settle, AbandonBeforeDispatch

\* For every finite set of attempts and every configuration, a reservation is
\* never forgotten, re-priced or reopened: what it was made for stays, a slot is
\* given back and a marker set once, what is settled and what the circuit heard
\* is final, and a request that gave its slot back or was settled is not
\* dispatched later (Reserve, MarkDispatched, settle, RecordOutcome, expireSlots).
THEOREM ReservationsGoForward == QuotaSpec => [][RowsForward]_quotaVars
<1>1. QuotaInv /\ [QuotaNext]_quotaVars => RowsForward
  BY MovesForward, QuotaNextMoves
<1> QED BY <1>1, QuotaAlways, PTL DEF QuotaSpec

\* A reservation that is new has the deadline of its attempt.
NewRowsFit ==
  \A n \in DOMAIN attempts :
    Own[n] \in DOMAIN res' \ DOMAIN res =>
      res'[Own[n]].deadline = attempts[n].deadline

\* A transaction other than an admission makes no reservation.
LEMMA NoNewRows ==
  ASSUME QuotaInv,
         \/ ExpireRequestSlots \/ Tick \/ UNCHANGED quotaVars
         \/ \E a \in Attempts :
              \/ MarkDispatched(a) \/ MarkUnknown(a) \/ CompleteWithUnknownUsage(a)
              \/ (\E u \in Nat : Settle(a, u)) \/ AbandonBeforeDispatch(a)
              \/ \E o \in Outcomes : RecordOutcome(a, o)
  PROVE  (QuotaMoves \/ UNCHANGED quotaVars) /\ NewRowsFit
<1>1. \/ UNCHANGED res \/ res' = ExpiredRows
      \/ \E a : DOMAIN res' = DOMAIN [res EXCEPT ![a] = res'[a]]
  BY DEF ExpireRequestSlots, Tick, quotaVars, MarkDispatched, MarkUnknown,
         CompleteWithUnknownUsage, Settle, AbandonBeforeDispatch, settle,
         RecordOutcome
<1>2. DOMAIN res' = DOMAIN res
  <2>1. res \in [DOMAIN res -> ReservationRow]
    BY DEF QuotaInv, RowsFit
  <2> QED BY <1>1, <2>1 DEF ExpiredRows
<1>3. NewRowsFit
  BY <1>2 DEF NewRowsFit
<1> QED BY <1>3 DEF QuotaMoves

\* What the model call does to the group is one of its transactions.
LEMMA CallMoves ==
  ASSUME CallInv, [AttemptNext]_attemptVars
  PROVE  (QuotaMoves \/ UNCHANGED quotaVars) /\ NewRowsFit
<1>1. QuotaInv /\ now \in Nat
  BY DEF CallInv, QuotaInv
<1>2. CASE ExpireRequestSlots \/ Tick \/ UNCHANGED quotaVars
  BY <1>1, <1>2, NoNewRows
<1>3. ASSUME NEW w \in Workers, WorkerStep(w),
             ~(ExpireRequestSlots \/ Tick \/ UNCHANGED quotaVars)
      PROVE  (QuotaMoves \/ UNCHANGED quotaVars) /\ NewRowsFit
  <2>1. \/ Abandon(w) \/ ReserveQuota(w) \/ Unsure(w) \/ Mark(w)
        \/ StreamUnknown(w) \/ replayFailureOutcome(w) \/ SettleUsage(w)
        \/ RecordSuccess(w)
    BY <1>3 DEF WorkerStep, Claim, SelectRoute, BeginPricedAttempt,
                GetReservation, ProveLease, CheckCost, Wait, Ready,
                Send, emit, Flush, StreamFails, StreamEnds,
                FinishFailedAttempt, CompleteAttempt, ModelCompleted
  <2>2. worker[w].pc \notin {"idle", "route", "begin"}
    BY <2>1 DEF Abandon, ReserveQuota, Unsure, Mark, StreamUnknown,
                replayFailureOutcome, SettleUsage, RecordSuccess
  <2>3. PICK n, a : n = worker[w].n /\ a = Id(w)
    OBVIOUS
  <2>4. /\ n \in DOMAIN attempts /\ a = Own[n] /\ a \in Attempts
        /\ WorkerFits(worker[w]) /\ Row(w) = attempts[n]
        /\ Row(w) \in AttemptRow /\ AttemptFits(n)
        /\ Reserved(w) <=> a \in DOMAIN res
    BY <2>2, <2>3, WorkerAttempt
  <2>5. CASE Abandon(w) \/ Unsure(w) \/ Mark(w) \/ StreamUnknown(w)
    <3>1. AbandonBeforeDispatch(a) \/ MarkUnknown(a) \/ MarkDispatched(a)
      BY <1>3, <2>3, <2>5 DEF Abandon, Unsure, Mark, StreamUnknown
    <3> QED BY <1>1, <2>4, <3>1, NoNewRows
  <2>6. CASE SettleUsage(w)
    <3>1. \/ Row(w).usage # Unknown /\ Settle(a, Row(w).usage)
          \/ CompleteWithUnknownUsage(a)
      BY <1>3, <2>3, <2>6 DEF SettleUsage
    <3>2. Row(w).usage # Unknown => Row(w).usage \in Nat
      BY <2>4, QuotaAssumption DEF AttemptRow
    <3> QED BY <1>1, <2>4, <3>1, <3>2, NoNewRows
  <2>7. CASE RecordSuccess(w)
    <3>1. RecordOutcome(a, "success") /\ "success" \in Outcomes
      BY <1>3, <2>3, <2>7 DEF RecordSuccess, Outcomes
    <3> QED BY <1>1, <2>4, <3>1, NoNewRows
  <2>8. CASE replayFailureOutcome(w)
    <3>1. PICK o : o = Row(w).policy.plan.outcome
      OBVIOUS
    <3>2. \/ AbandonBeforeDispatch(a) \/ MarkUnknown(a) \/ RecordOutcome(a, o)
      BY <1>3, <2>3, <2>8, <3>1 DEF replayFailureOutcome
    <3>3. o \in Outcomes
      BY <2>3, <2>4, <2>8, <3>1
         DEF replayFailureOutcome, WorkerFits, AttemptFits, PlanFits
    <3> QED BY <1>1, <2>4, <3>2, <3>3, NoNewRows
  <2>9. CASE ReserveQuota(w)
    <3>1. PICK t, cost : t = Row(w).deadline /\ cost = Cost[Row(w).route]
      OBVIOUS
    <3>2. t \in Int /\ cost \in Nat /\ t = attempts[n].deadline
      BY <2>4, <3>1, AttemptAssumption DEF AttemptRow
    <3>3. Reserve(a, cost, t)
      BY <1>3, <2>3, <2>9, <3>1 DEF ReserveQuota
    <3>4. /\ a \notin DOMAIN res /\ now < t
          /\ \E row : /\ row.deadline = t
                      /\ res' = [i \in DOMAIN res \cup {a} |->
                                   IF i = a THEN row ELSE ExpiredRows[i]]
      BY <1>3, <3>3 DEF Reserve
    <3>5. t \in Nat
      BY <1>1, <3>2, <3>4
    <3>6. QuotaMoves
      BY <2>4, <3>2, <3>3, <3>5 DEF QuotaMoves
    <3>7. DOMAIN res' = DOMAIN res \cup {a} /\ res'[a].deadline = t
      BY <3>4
    <3>8. \A m \in DOMAIN attempts : Own[m] = a => m = n
      BY <2>4, OwnTyped
    <3>9. NewRowsFit
      BY <3>2, <3>7, <3>8 DEF NewRowsFit
    <3> QED BY <3>6, <3>9
  <2> QED BY <2>1, <2>5, <2>6, <2>7, <2>8, <2>9
<1>4. \/ ExpireRequestSlots \/ Tick \/ UNCHANGED quotaVars
      \/ \E w \in Workers : WorkerStep(w)
  BY DEF AttemptNext, Die, LeaseExpires, Cancel, OthersStep, attemptVars, quotaVars
<1> QED BY <1>2, <1>3, <1>4

\* What an attempt keeps: its route and its deadline, and, once it is decided,
\* all of it.  A worker about to decide is the one that fails it.
AttemptsForward ==
  /\ \A n \in DOMAIN attempts :
       /\ n \in DOMAIN attempts'
       /\ attempts'[n].route = attempts[n].route
       /\ attempts'[n].deadline = attempts[n].deadline
       /\ attempts[n].status # "prepared" => attempts'[n] = attempts[n]
       /\ attempts'[n].status = "failed" =>
            \/ attempts[n].status = "failed"
            \/ \E w \in Workers : worker[w].pc = "finish" /\ worker[w].n = n
                                    /\ worker'[w].pc \in {"record", "idle"}
  /\ \A n \in DOMAIN attempts' \ DOMAIN attempts : attempts'[n].status = "prepared"

\* Decisions are not taken back.
LEMMA CallAttempts ==
  ASSUME CallInv, [AttemptNext]_attemptVars
  PROVE  AttemptsForward
<1>1. CASE UNCHANGED attempts
  BY <1>1 DEF AttemptsForward
<1>2. PICK m : m = Len(attempts)
  OBVIOUS
<1>3. m \in Nat /\ DOMAIN attempts = 1..m /\ attempts \in Seq(AttemptRow)
  BY <1>2, AttemptsTyped DEF CallInv, CallTyped
<1>4. ASSUME NEW w \in Workers, NEW n \in DOMAIN attempts, n = worker[w].n,
             NEW row, attempts' = [attempts EXCEPT ![n] = row],
             row.route = attempts[n].route, row.deadline = attempts[n].deadline,
             attempts[n].status # "prepared" => row = attempts[n],
             row.status = "failed" =>
               worker[w].pc = "finish" /\ worker'[w].pc \in {"record", "idle"}
      PROVE  AttemptsForward
  <2>1. /\ DOMAIN attempts' = DOMAIN attempts /\ attempts'[n] = row
        /\ \A k \in DOMAIN attempts : k # n => attempts'[k] = attempts[k]
    BY <1>3, <1>4
  <2>2. ASSUME NEW k \in DOMAIN attempts
        PROVE  /\ k \in DOMAIN attempts'
               /\ attempts'[k].route = attempts[k].route
               /\ attempts'[k].deadline = attempts[k].deadline
               /\ attempts[k].status # "prepared" => attempts'[k] = attempts[k]
               /\ attempts'[k].status = "failed" =>
                    \/ attempts[k].status = "failed"
                    \/ \E v \in Workers : worker[v].pc = "finish" /\ worker[v].n = k
                                            /\ worker'[v].pc \in {"record", "idle"}
    <3>1. CASE k = n
      BY <1>4, <2>1, <3>1
    <3>2. CASE k # n
      BY <2>1, <3>2
    <3> QED BY <3>1, <3>2
  <2> QED BY <2>1, <2>2 DEF AttemptsForward
<1>5. ASSUME NEW w \in Workers, BeginPricedAttempt(w), ~UNCHANGED attempts
      PROVE  AttemptsForward
  <2>1. PICK row : attempts' = Append(attempts, row) /\ row.status = "prepared"
    BY <1>5 DEF BeginPricedAttempt, NewAttempt
  <2>2. /\ DOMAIN attempts' = 1..(m + 1) /\ attempts'[m + 1] = row
        /\ \A k \in 1..m : attempts'[k] = attempts[k]
    BY <1>2, <1>3, <2>1
  <2>3. \A k \in 1..(m + 1) : k \notin 1..m => k = m + 1
    BY <1>3
  <2> QED BY <1>3, <2>1, <2>2, <2>3 DEF AttemptsForward
<1>6. ASSUME NEW w \in Workers, FinishFailedAttempt(w), ~UNCHANGED attempts
      PROVE  AttemptsForward
  <2>1. worker[w].pc = "finish"
    BY <1>6 DEF FinishFailedAttempt
  <2>2. PICK n : n = worker[w].n
    OBVIOUS
  <2>3. n \in DOMAIN attempts /\ Row(w) = attempts[n] /\ attempts[n] \in AttemptRow
    BY <2>1, <2>2, WorkerAttempt
  <2>4. PICK policy :
          /\ \/ attempts[n].status = "prepared"
             \/ attempts[n].status = "failed" /\ attempts[n].policy = policy
          /\ attempts' = Failed(w, policy) /\ GoOn(w, "record", NoPlan)
    BY <1>6, <2>3 DEF FinishFailedAttempt
  <2> DEFINE row == [attempts[n] EXCEPT !.status = "failed", !.policy = policy]
  <2>5. /\ row.route = attempts[n].route /\ row.deadline = attempts[n].deadline
        /\ attempts[n].status # "prepared" => row = attempts[n]
    BY <2>3, <2>4 DEF AttemptRow
  <2>6. attempts' = [attempts EXCEPT ![n] = row]
    BY <1>3, <2>2, <2>3, <2>4 DEF Failed
  <2>7. worker'[w].pc = "record"
    <3>1. "record" \in Steps /\ NoPlan \in PlanRow
      BY IdleTyped DEF Steps
    <3> QED BY <2>4, <3>1, GoOnBecomes DEF Becomes
  <2> HIDE DEF row
  <2> QED BY <1>4, <2>1, <2>2, <2>3, <2>5, <2>6, <2>7
<1>7. ASSUME NEW w \in Workers, CompleteAttempt(w), ~UNCHANGED attempts
      PROVE  AttemptsForward
  <2>1. worker[w].pc = "complete"
    BY <1>7 DEF CompleteAttempt
  <2>2. PICK n : n = worker[w].n
    OBVIOUS
  <2>3. n \in DOMAIN attempts /\ Row(w) = attempts[n] /\ attempts[n] \in AttemptRow
    BY <2>1, <2>2, WorkerAttempt
  <2> DEFINE row == [attempts[n] EXCEPT !.status = "completed",
                                        !.usage = worker[w].usage]
  <2>4. attempts[n].status = "prepared" /\ attempts' = [attempts EXCEPT ![n] = row]
    BY <1>3, <1>7, <2>2, <2>3 DEF CompleteAttempt
  <2>5. /\ row.route = attempts[n].route /\ row.deadline = attempts[n].deadline
        /\ row.status = "completed"
    BY <2>3 DEF AttemptRow
  <2> HIDE DEF row
  <2> QED BY <1>4, <2>1, <2>2, <2>3, <2>4, <2>5
<1>8. \/ UNCHANGED attempts
      \/ \E w \in Workers : \/ BeginPricedAttempt(w) \/ FinishFailedAttempt(w)
                            \/ CompleteAttempt(w)
  BY DEF AttemptNext, Die, LeaseExpires, Cancel, OthersStep, callVars, attemptVars,
         WorkerStep, Claim, SelectRoute, GetReservation, ProveLease, CheckCost, Abandon,
         ReserveQuota, Unsure, Wait, Ready, Mark,
         Send, emit, Flush, StreamFails, StreamEnds, StreamUnknown,
         replayFailureOutcome, SettleUsage, RecordSuccess, ModelCompleted
<1> QED BY <1>1, <1>5, <1>6, <1>7, <1>8

-----------------------------------------------------------------------------
(* Who may still write to a decided attempt *)

\* A worker that has decided that its attempt fails, or is about to.
Deciding(x) ==
  x.plan # NoPlan /\ x.pc \in {"reserve", "unsure", "wait", "unknown", "finish"}

\* A request that may be marked now, and one that nobody will mark any more.
Sendable(n) ==
  /\ HasReservation(n) /\ ~HasMarker(n)
  /\ res[Own[n]].status # "settled" /\ now < res[Own[n]].deadline
Unsendable(n) ==
  \/ HasMarker(n) \/ now >= attempts[n].deadline
  \/ HasReservation(n) /\ res[Own[n]].status = "settled"

\* Every claim has an epoch of its own, and the last one is the run's.
EpochsFit ==
  /\ \A w \in Workers : /\ worker[w].epoch <= run.epoch
                        /\ worker[w].pc # "idle" => worker[w].epoch > 0
  /\ \A v, w \in Workers :
       worker[v].epoch = worker[w].epoch => v = w \/ worker[v].epoch = 0

\* An attempt is failed, or about to be, only when nobody can begin to send it,
\* and a worker that still sends it has lost the run to a later claim: the one
\* that decides.
DecisionsFit ==
  /\ \A n \in DOMAIN attempts :
       /\ HasReservation(n) => res[Own[n]].deadline = attempts[n].deadline
       /\ attempts[n].status = "failed" => Unsendable(n)
  /\ \A w \in Workers : Deciding(worker[w]) => Unsendable(worker[w].n)
  /\ \A v, w \in Workers :
       /\ Streaming(worker[w]) /\ Deciding(worker[v])
       /\ worker[v].n = worker[w].n
       => worker[w].epoch < worker[v].epoch
  /\ \A w \in Workers :
       Streaming(worker[w]) /\ attempts[worker[w].n].status = "failed" =>
         worker[w].epoch < run.epoch

\* What a step of worker w makes of it: it begins to send what may be marked, and
\* to decide as a sender, as the owner of the run, or by giving the reserve back.
Abandoned(a) ==
  a \in DOMAIN res' /\ res'[a].status = "settled" /\ ~res'[a].dispatched
GoesOn(w, x) ==
  /\ worker[w].pc # "idle" /\ x.epoch = worker[w].epoch
  /\ Streaming(x) => /\ x.n = worker[w].n
                     /\ Streaming(worker[w]) \/ Sendable(worker[w].n)
  /\ Deciding(x) =>
       /\ x.n = worker[w].n
       /\ \/ Deciding(worker[w]) \/ Streaming(worker[w])
          \/ Owner(w) /\ Unsendable(worker[w].n)
          \/ Abandoned(Own[worker[w].n])
Goes(w) ==
  /\ run'.epoch = run.epoch
  /\ \A v \in Workers : v # w => worker'[v] = worker[v]
  /\ worker'[w] = Idle \/ GoesOn(w, worker'[w])
Claims(w) ==
  /\ run'.epoch = run.epoch + 1 /\ worker'[w].epoch = run.epoch + 1
  /\ \A v \in Workers : v # w => worker'[v] = worker[v]
  /\ ~Streaming(worker'[w]) /\ ~Deciding(worker'[w])

\* A worker that leaves, whatever becomes of the run.
LEMMA LeaveGoes ==
  ASSUME CallInv, NEW w \in Workers,
         \/ Leave(w) /\ UNCHANGED run
         \/ Fails(w) \/ (\E status : Advance(w, status))
         \/ Reconcile(w) \/ \E until : deferRun(w, until)
  PROVE  Goes(w)
<1>1. run \in RunRow /\ worker \in [Workers -> WorkerState]
  BY WorkerTyped
<1>2. Leave(w)
  BY DEF Fails, Advance, Reconcile, deferRun
<1>3. \/ run' = run
      \/ \E status : run' = [run EXCEPT !.status = status, !.owner = NoWorker]
      \/ \E until : run' = [run EXCEPT !.owner = NoWorker, !.notBefore = until]
  BY DEF Fails, Advance, Reconcile, deferRun
<1>4. run'.epoch = run.epoch
  BY <1>1, <1>3 DEF RunRow
<1>5. worker'[w] = Idle /\ \A v \in Workers : v # w => worker'[v] = worker[v]
  BY <1>1, <1>2 DEF Leave
<1> QED BY <1>4, <1>5 DEF Goes

\* A worker that goes on as x.
LEMMA OnGoes ==
  ASSUME CallInv, NEW w \in Workers, NEW x, worker' = [worker EXCEPT ![w] = x],
         UNCHANGED run, GoesOn(w, x)
  PROVE  Goes(w)
<1>1. worker'[w] = x /\ \A v \in Workers : v # w => worker'[v] = worker[v]
  BY WorkerTyped
<1> QED BY <1>1 DEF Goes

\* Goto changes the step only.
LEMMA GotoWorker ==
  ASSUME CallInv, NEW w \in Workers, NEW pc, Goto(w, pc)
  PROVE  \E x : /\ worker' = [worker EXCEPT ![w] = x] /\ x.pc = pc
                /\ x.n = worker[w].n /\ x.epoch = worker[w].epoch
                /\ x.plan = worker[w].plan
<1> DEFINE x == [worker[w] EXCEPT !.pc = pc]
<1>1. worker[w] \in WorkerState /\ worker \in [Workers -> WorkerState]
  BY WorkerTyped
<1>2. /\ x.pc = pc /\ x.n = worker[w].n /\ x.epoch = worker[w].epoch
      /\ x.plan = worker[w].plan
  BY <1>1 DEF WorkerState
<1>3. worker' = [worker EXCEPT ![w] = x]
  BY <1>1 DEF Goto
<1> HIDE DEF x
<1> QED BY <1>2, <1>3

\* GoOn keeps the attempt and the epoch.
LEMMA GoOnWorker ==
  ASSUME CallInv, NEW w \in Workers, NEW pc, NEW plan, GoOn(w, pc, plan)
  PROVE  \E x : /\ worker' = [worker EXCEPT ![w] = x] /\ x.pc = pc
                /\ x.n = worker[w].n /\ x.epoch = worker[w].epoch
                /\ x.plan = plan
<1> DEFINE x == [Idle EXCEPT !.pc = pc, !.n = worker[w].n,
                             !.epoch = worker[w].epoch, !.plan = plan]
<1>1. /\ x.pc = pc /\ x.n = worker[w].n /\ x.epoch = worker[w].epoch
      /\ x.plan = plan
  BY DEF Idle
<1>2. worker' = [worker EXCEPT ![w] = x]
  BY DEF GoOn
<1> HIDE DEF x
<1> QED BY <1>1, <1>2

\* A worker that neither sends nor decides afterwards.
LEMMA QuietGoes ==
  ASSUME CallInv, NEW w \in Workers, worker[w].pc # "idle", UNCHANGED run,
         NEW pc \in {"missing", "reserved", "dispatched", "cost", "abandon",
                     "ready", "mark", "route", "record", "settle", "success",
                     "advance"},
         Goto(w, pc) \/ \E plan : GoOn(w, pc, plan)
  PROVE  Goes(w)
<1>1. PICK x : /\ worker' = [worker EXCEPT ![w] = x] /\ x.pc = pc
               /\ x.n = worker[w].n /\ x.epoch = worker[w].epoch
  BY GotoWorker, GoOnWorker
<1>2. GoesOn(w, x)
  BY <1>1 DEF GoesOn, Streaming, Deciding
<1> QED BY <1>1, <1>2, OnGoes

\* A worker that decides and goes on to decide.
LEMMA DecidesGoes ==
  ASSUME CallInv, NEW w \in Workers, UNCHANGED run,
         worker[w].pc \in {"reserve", "unsure", "wait", "unknown", "finish"},
         NEW pc \in {"unsure", "wait", "finish"}, Goto(w, pc)
  PROVE  Goes(w)
<1>1. PICK x : /\ worker' = [worker EXCEPT ![w] = x] /\ x.pc = pc
               /\ x.n = worker[w].n /\ x.epoch = worker[w].epoch
               /\ x.plan = worker[w].plan
  BY GotoWorker
<1>2. GoesOn(w, x)
  BY <1>1 DEF GoesOn, Streaming, Deciding
<1> QED BY <1>1, <1>2, OnGoes

\* A worker that streams goes on to stream or to give up.
LEMMA StreamGoes ==
  ASSUME CallInv, NEW w \in Workers, UNCHANGED run, Streaming(worker[w]),
         NEW x, worker' = [worker EXCEPT ![w] = x],
         x.n = worker[w].n, x.epoch = worker[w].epoch
  PROVE  Goes(w)
<1>1. GoesOn(w, x)
  BY DEF GoesOn, Streaming
<1> QED BY <1>1, OnGoes

\* The steps up to the reservation.
LEMMA BeforeGoes ==
  ASSUME CallInv, NEW w \in Workers,
         \/ SelectRoute(w) \/ BeginPricedAttempt(w) \/ GetReservation(w)
         \/ ProveLease(w) \/ CheckCost(w) \/ Abandon(w) \/ ReserveQuota(w)
  PROVE  Goes(w)
<1>1. worker[w] \in WorkerState /\ worker \in [Workers -> WorkerState]
  BY WorkerTyped
<1>2. CASE SelectRoute(w)
  <2>1. CASE (\E status : Advance(w, status)) \/ Fails(w) \/ Reconcile(w)
    BY <2>1, LeaveGoes
  <2>2. ASSUME NEW route, UNCHANGED run,
               worker' = [worker EXCEPT ![w].pc = "begin", ![w].route = route]
        PROVE  Goes(w)
    <3> DEFINE x == [worker[w] EXCEPT !.pc = "begin", !.route = route]
    <3>1. x.pc = "begin" /\ x.epoch = worker[w].epoch
      BY <1>1 DEF WorkerState
    <3>2. worker' = [worker EXCEPT ![w] = x] /\ worker[w].pc = "route"
      BY <1>1, <1>2, <2>2 DEF SelectRoute
    <3> HIDE DEF x
    <3>3. GoesOn(w, x)
      BY <3>1, <3>2 DEF GoesOn, Streaming, Deciding
    <3> QED BY <2>2, <3>2, <3>3, OnGoes
  <2> QED BY <1>2, <2>1, <2>2 DEF SelectRoute
<1>3. CASE BeginPricedAttempt(w)
  <2>1. CASE Fails(w)
    BY <2>1, LeaveGoes
  <2>2. ASSUME NEW k, UNCHANGED run,
               worker' = [worker EXCEPT ![w].pc = "get", ![w].n = k,
                                        ![w].route = "primary"]
        PROVE  Goes(w)
    <3> DEFINE x == [worker[w] EXCEPT !.pc = "get", !.n = k, !.route = "primary"]
    <3>1. x.pc = "get" /\ x.epoch = worker[w].epoch
      BY <1>1 DEF WorkerState
    <3>2. worker' = [worker EXCEPT ![w] = x] /\ worker[w].pc = "begin"
      BY <1>1, <1>3, <2>2 DEF BeginPricedAttempt
    <3> HIDE DEF x
    <3>3. GoesOn(w, x)
      BY <3>1, <3>2 DEF GoesOn, Streaming, Deciding
    <3> QED BY <2>2, <3>2, <3>3, OnGoes
  <2> QED BY <1>3, <2>1, <2>2 DEF BeginPricedAttempt
<1>4. CASE GetReservation(w)
  <2>1. /\ worker[w].pc = "get" /\ UNCHANGED run
        /\ \E pc \in {"missing", "reserved", "dispatched"} : Goto(w, pc)
    BY <1>4 DEF GetReservation
  <2> QED BY <2>1, QuietGoes
<1>7. CASE CheckCost(w)
  <2>1. worker[w].pc = "cost"
    BY <1>7 DEF CheckCost
  <2>2. CASE Advance(w, "budget")
    BY <2>2, LeaveGoes
  <2>3. CASE Goto(w, "reserve") /\ UNCHANGED run
    <3>1. PICK x : /\ worker' = [worker EXCEPT ![w] = x] /\ x.pc = "reserve"
                   /\ x.n = worker[w].n /\ x.epoch = worker[w].epoch
                   /\ x.plan = worker[w].plan
      BY <2>3, GotoWorker
    <3>2. worker[w].plan = NoPlan
      BY <2>1 DEF CallInv, WorkerFits
    <3>3. GoesOn(w, x)
      BY <2>1, <3>1, <3>2 DEF GoesOn, Streaming, Deciding
    <3> QED BY <2>3, <3>1, <3>3, OnGoes
  <2> QED BY <1>7, <2>2, <2>3 DEF CheckCost
<1>8. CASE ProveLease(w)
  <2>1. worker[w].pc \in {"missing", "reserved", "dispatched"} /\ UNCHANGED run
    BY <1>8 DEF ProveLease
  <2>2. CASE Leave(w)
    BY <2>1, <2>2, LeaveGoes
  <2>3. CASE ~Leave(w)
    <3>1. PICK pc, plan :
            /\ pc \in {"reserve", "abandon", "finish", "cost"}
            /\ GoOn(w, pc, plan) /\ Owner(w)
            /\ plan # NoPlan => now >= Row(w).deadline
      BY <1>8, <2>3 DEF ProveLease
    <3>2. PICK x : /\ worker' = [worker EXCEPT ![w] = x] /\ x.pc = pc
                   /\ x.n = worker[w].n /\ x.epoch = worker[w].epoch
                   /\ x.plan = plan
      BY <3>1, GoOnWorker
    <3>3. Deciding(x) => now >= attempts[worker[w].n].deadline
      BY <3>1, <3>2 DEF Deciding, Row
    <3>4. Deciding(x) => Owner(w) /\ Unsendable(worker[w].n)
      BY <3>1, <3>3 DEF Unsendable
    <3>5. ~Streaming(x)
      BY <3>1, <3>2 DEF Streaming
    <3>6. GoesOn(w, x)
      BY <2>1, <3>2, <3>4, <3>5 DEF GoesOn
    <3> QED BY <2>1, <3>2, <3>6, OnGoes
  <2> QED BY <2>2, <2>3
<1>5. CASE Abandon(w)
  <2>1. worker[w].pc = "abandon"
    BY <1>5 DEF Abandon
  <2>2. CASE Fails(w)
    BY <2>2, LeaveGoes
  <2>3. CASE ~Fails(w)
    <3>1. /\ ~res[Id(w)].dispatched /\ AbandonBeforeDispatch(Id(w))
          /\ Goto(w, "finish") /\ UNCHANGED run
      BY <1>5, <2>3 DEF Abandon
    <3>2. PICK x : /\ worker' = [worker EXCEPT ![w] = x] /\ x.pc = "finish"
                   /\ x.n = worker[w].n /\ x.epoch = worker[w].epoch
      BY <3>1, GotoWorker
    <3>3. PICK a : a = Own[worker[w].n]
      OBVIOUS
    <3>4. settle(a, 0, "not_dispatched") /\ ~res[a].dispatched
      BY <3>1, <3>3 DEF AbandonBeforeDispatch, Id
    <3>5. a \in DOMAIN res /\ res[a] \in ReservationRow
          /\ res \in [DOMAIN res -> ReservationRow]
      BY <3>4 DEF settle, CallInv, QuotaInv, RowsFit
    <3>6. Abandoned(a)
      <4>1. CASE UNCHANGED res /\ res[a].status = "settled"
        BY <3>4, <3>5, <4>1 DEF Abandoned
      <4>2. CASE ~(UNCHANGED res /\ res[a].status = "settled")
        <5> DEFINE row == [res[a] EXCEPT !.status = "settled", !.used = 0,
                                         !.kind = "not_dispatched",
                                         !.released = TRUE]
        <5>1. res' = [res EXCEPT ![a] = row]
          BY <3>4, <3>5, <4>2 DEF settle
        <5>2. row.status = "settled" /\ ~row.dispatched
          BY <3>4, <3>5 DEF ReservationRow
        <5> HIDE DEF row
        <5> QED BY <3>5, <5>1, <5>2 DEF Abandoned
      <4> QED BY <4>1, <4>2
    <3>7. GoesOn(w, x)
      BY <2>1, <3>2, <3>3, <3>6 DEF GoesOn, Streaming
    <3> QED BY <3>1, <3>2, <3>7, OnGoes
  <2> QED BY <2>2, <2>3
<1>6. CASE ReserveQuota(w)
  <2>1. worker[w].pc = "reserve"
    BY <1>6 DEF ReserveQuota
  <2>2. \/ Fails(w) \/ \E until : deferRun(w, until)
        \/ (Goto(w, "unsure") \/ Goto(w, "wait") \/ Goto(w, "ready")) /\ UNCHANGED run
    BY <1>6 DEF ReserveQuota
  <2> QED BY <2>1, <2>2, LeaveGoes, QuietGoes, DecidesGoes
<1> QED BY <1>2, <1>3, <1>4, <1>5, <1>6, <1>7, <1>8

\* The request, and what comes after it.
LEMMA AfterGoes ==
  ASSUME CallInv, NEW w \in Workers,
         \/ Unsure(w) \/ Wait(w) \/ Ready(w) \/ Mark(w) \/ Send(w) \/ emit(w)
         \/ Flush(w) \/ StreamFails(w) \/ StreamEnds(w) \/ StreamUnknown(w)
         \/ FinishFailedAttempt(w) \/ CompleteAttempt(w) \/ SettleUsage(w)
         \/ RecordSuccess(w) \/ ModelCompleted(w) \/ Die(w)
  PROVE  Goes(w)
<1>1. worker[w] \in WorkerState /\ worker \in [Workers -> WorkerState]
  BY WorkerTyped
<1>2. CASE Unsure(w)
  <2>1. /\ worker[w].pc = "unsure"
        /\ (Goto(w, "wait") /\ UNCHANGED run) \/ Fails(w)
    BY <1>2 DEF Unsure
  <2> QED BY <2>1, LeaveGoes, DecidesGoes
<1>3. CASE Wait(w)
  <2>1. /\ worker[w].pc = "wait"
        /\ (Goto(w, "finish") /\ UNCHANGED run) \/ \E until : deferRun(w, until)
    BY <1>3 DEF Wait
  <2> QED BY <2>1, LeaveGoes, DecidesGoes
<1>4. CASE StreamUnknown(w)
  <2>1. /\ worker[w].pc = "unknown"
        /\ (Goto(w, "finish") /\ UNCHANGED run) \/ Fails(w)
    BY <1>4 DEF StreamUnknown
  <2> QED BY <2>1, LeaveGoes, DecidesGoes
<1>5. CASE Ready(w)
  <2>1. /\ worker[w].pc = "ready"
        /\ \/ Fails(w) \/ Reconcile(w) \/ (Leave(w) /\ UNCHANGED run)
           \/ Goto(w, "mark") /\ UNCHANGED run
           \/ (\E plan : GoOn(w, "abandon", plan)) /\ UNCHANGED run
    BY <1>5 DEF Ready
  <2> QED BY <2>1, LeaveGoes, QuietGoes
<1>6. CASE Mark(w)
  <2>1. worker[w].pc = "mark"
    BY <1>6 DEF Mark
  <2>2. CASE Fails(w)
    BY <2>2, LeaveGoes
  <2>3. CASE ~Fails(w)
    <3>1. MarkDispatched(Id(w)) /\ Goto(w, "send") /\ UNCHANGED run
      BY <1>6, <2>3 DEF Mark
    <3>2. Sendable(worker[w].n)
      BY <3>1 DEF MarkDispatched, Sendable, HasMarker, HasReservation, Id
    <3>3. PICK x : /\ worker' = [worker EXCEPT ![w] = x] /\ x.pc = "send"
                   /\ x.n = worker[w].n /\ x.epoch = worker[w].epoch
      BY <3>1, GotoWorker
    <3>4. GoesOn(w, x)
      BY <2>1, <3>2, <3>3 DEF GoesOn, Streaming, Deciding
    <3> QED BY <3>1, <3>3, <3>4, OnGoes
  <2> QED BY <2>2, <2>3
<1>7. CASE Send(w)
  <2>1. worker[w].pc = "send" /\ Goto(w, "stream") /\ UNCHANGED run
    BY <1>7 DEF Send
  <2>2. Streaming(worker[w])
    BY <2>1 DEF Streaming
  <2> QED BY <2>1, <2>2, GotoWorker, StreamGoes
<1>8. CASE emit(w)
  <2> DEFINE x == [worker[w] EXCEPT !.fed = @ + 1]
  <2>1. /\ worker[w].pc = "stream" /\ UNCHANGED run
        /\ worker' = [worker EXCEPT ![w] = x]
    BY <1>1, <1>8 DEF emit
  <2>2. x.n = worker[w].n /\ x.epoch = worker[w].epoch /\ Streaming(worker[w])
    BY <1>1, <2>1 DEF WorkerState, Streaming
  <2> HIDE DEF x
  <2> QED BY <2>1, <2>2, StreamGoes
<1>9. CASE Flush(w)
  <2> DEFINE x == [worker[w] EXCEPT !.done = worker[w].fed]
  <2>1. /\ worker[w].pc = "stream" /\ UNCHANGED run
        /\ \/ worker' = [worker EXCEPT ![w] = x]
           \/ \E plan : GoOn(w, "unknown", plan)
    BY <1>1, <1>9 DEF Flush, flush
  <2>2. x.n = worker[w].n /\ x.epoch = worker[w].epoch /\ Streaming(worker[w])
    BY <1>1, <2>1 DEF WorkerState, Streaming
  <2> HIDE DEF x
  <2> QED BY <2>1, <2>2, StreamGoes, GoOnWorker
<1>10. CASE StreamFails(w)
  <2>1. /\ worker[w].pc = "stream" /\ UNCHANGED run
        /\ \E plan : GoOn(w, "unknown", plan)
    BY <1>10 DEF StreamFails
  <2>2. Streaming(worker[w])
    BY <2>1 DEF Streaming
  <2> QED BY <2>1, <2>2, StreamGoes, GoOnWorker
<1>11. CASE StreamEnds(w)
  <2> DEFINE x(u) == [worker[w] EXCEPT !.pc = "complete", !.usage = u]
  <2>1. /\ worker[w].pc = "stream" /\ UNCHANGED run
        /\ \/ \E u : worker' = [worker EXCEPT ![w] = x(u)]
           \/ \E plan : GoOn(w, "finish", plan)
    BY <1>1, <1>11 DEF StreamEnds
  <2>2. /\ \A u : x(u).n = worker[w].n /\ x(u).epoch = worker[w].epoch
        /\ Streaming(worker[w])
    BY <1>1, <2>1 DEF WorkerState, Streaming
  <2> HIDE DEF x
  <2> QED BY <2>1, <2>2, StreamGoes, GoOnWorker
<1>12. CASE FinishFailedAttempt(w)
  <2>1. /\ worker[w].pc = "finish"
        /\ (GoOn(w, "record", NoPlan) /\ UNCHANGED run) \/ Fails(w)
    BY <1>12 DEF FinishFailedAttempt
  <2> QED BY <2>1, LeaveGoes, QuietGoes
<1>13. CASE CompleteAttempt(w)
  <2>1. /\ worker[w].pc = "complete"
        /\ (GoOn(w, "settle", NoPlan) /\ UNCHANGED run) \/ Fails(w)
    BY <1>13 DEF CompleteAttempt
  <2> QED BY <2>1, LeaveGoes, QuietGoes
<1>14. CASE SettleUsage(w)
  <2>1. /\ worker[w].pc = "settle"
        /\ (Goto(w, "success") /\ UNCHANGED run) \/ Fails(w) \/ Reconcile(w)
    BY <1>14 DEF SettleUsage
  <2> QED BY <2>1, LeaveGoes, QuietGoes
<1>15. CASE RecordSuccess(w)
  <2>1. /\ worker[w].pc = "success"
        /\ (Goto(w, "advance") /\ UNCHANGED run) \/ Fails(w)
    BY <1>15 DEF RecordSuccess
  <2> QED BY <2>1, LeaveGoes, QuietGoes
<1>16. CASE ModelCompleted(w) \/ Die(w)
  <2>1. Advance(w, "done") \/ (Leave(w) /\ UNCHANGED run)
    BY <1>16 DEF ModelCompleted, Die
  <2> QED BY <2>1, LeaveGoes
<1> QED BY <1>2, <1>3, <1>4, <1>5, <1>6, <1>7, <1>8, <1>9, <1>10, <1>11, <1>12,
           <1>13, <1>14, <1>15, <1>16

\* A claim.
LEMMA ClaimClaims ==
  ASSUME CallInv, NEW w \in Workers, Claim(w)
  PROVE  Claims(w)
<1>1. worker \in [Workers -> WorkerState] /\ run \in RunRow
  BY WorkerTyped
<1> DEFINE x == [Idle EXCEPT !.pc = Resume(Len(attempts)), !.n = Len(attempts),
                             !.epoch = run.epoch + 1]
<1>2. x.epoch = run.epoch + 1 /\ x.plan = NoPlan /\ x.pc = Resume(Len(attempts))
  BY DEF Idle
<1>3. Resume(Len(attempts)) \notin {"send", "stream", "complete"}
  <2>1. Len(attempts) \in Nat /\ DOMAIN attempts = 1..Len(attempts)
        /\ \A n \in DOMAIN attempts :
             attempts[n].status \in {"prepared", "completed", "failed"}
    BY AttemptsTyped DEF CallInv
  <2>2. CASE Len(attempts) = 0
    BY <2>2 DEF Resume
  <2>3. CASE Len(attempts) > 0
    <3>1. Len(attempts) \in DOMAIN attempts
      BY <2>1, <2>3
    <3> QED BY <2>1, <2>3, <3>1 DEF Resume
  <2> QED BY <2>1, <2>2, <2>3
<1>4. worker' = [worker EXCEPT ![w] = x]
      /\ run' = [run EXCEPT !.owner = w, !.epoch = @ + 1]
  BY DEF Claim
<1> HIDE DEF x
<1>5. worker'[w] = x /\ \A v \in Workers : v # w => worker'[v] = worker[v]
  BY <1>1, <1>4
<1>6. run'.epoch = run.epoch + 1
  BY <1>1, <1>4 DEF RunRow
<1> QED BY <1>2, <1>3, <1>5, <1>6 DEF Claims, Streaming, Deciding

\* Every step is a claim, a step of one worker, or leaves the workers alone.
LEMMA CallWorkers ==
  ASSUME CallInv, [AttemptNext]_attemptVars
  PROVE  \/ UNCHANGED worker /\ run'.epoch = run.epoch
         \/ \E w \in Workers : Claims(w) \/ Goes(w)
<1>1. run \in RunRow
  BY DEF CallInv, CallTyped
<1>2. CASE \/ UNCHANGED attemptVars \/ OthersStep \/ LeaseExpires \/ Cancel
  <2>1. /\ UNCHANGED worker
        /\ \/ UNCHANGED run
           \/ run' = [run EXCEPT !.owner = NoWorker]
           \/ run' = [run EXCEPT !.status = "cancelled", !.owner = NoWorker]
    BY <1>2 DEF attemptVars, OthersStep, callVars, LeaseExpires, Cancel
  <2> QED BY <1>1, <2>1 DEF RunRow
<1>3. ASSUME NEW w \in Workers, replayFailureOutcome(w)
      PROVE  Goes(w) \/ (UNCHANGED worker /\ run'.epoch = run.epoch)
  <2>1. worker[w].pc \in {"record", "replay"}
    BY <1>3 DEF replayFailureOutcome
  <2>2. UNCHANGED <<run, worker>> \/ AfterFailure(w) \/ Fails(w)
    BY <1>3 DEF replayFailureOutcome
  <2>3. AfterFailure(w) => \/ Fails(w) \/ Reconcile(w) \/ \E until : deferRun(w, until)
                           \/ Goto(w, "route") /\ UNCHANGED run
    BY DEF AfterFailure
  <2> QED BY <2>1, <2>2, <2>3, LeaveGoes, QuietGoes
<1>4. ASSUME NEW w \in Workers, WorkerStep(w) \/ Die(w)
      PROVE  Claims(w) \/ Goes(w) \/ (UNCHANGED worker /\ run'.epoch = run.epoch)
  BY <1>3, <1>4, ClaimClaims, BeforeGoes, AfterGoes DEF WorkerStep
<1> QED BY <1>2, <1>4 DEF AttemptNext

\* An idle worker neither sends nor decides, and has no epoch.
LEMMA IdleQuiet ==
  Idle.epoch = 0 /\ Idle.pc = "idle" /\ ~Streaming(Idle) /\ ~Deciding(Idle)
BY DEF Idle, Streaming, Deciding

\* Epochs are given out once.
LEMMA EpochsStep ==
  ASSUME CallInv, EpochsFit, [AttemptNext]_attemptVars
  PROVE  EpochsFit' /\ run'.epoch >= run.epoch
<1>1. /\ run.epoch \in Nat /\ \A w \in Workers : worker[w].epoch \in Nat
  BY DEF CallInv, CallTyped, RunRow, WorkerState
<1>2. /\ \A w \in Workers : /\ worker[w].epoch <= run.epoch
                            /\ worker[w].pc # "idle" => worker[w].epoch > 0
      /\ \A v, w \in Workers :
           worker[v].epoch = worker[w].epoch => v = w \/ worker[v].epoch = 0
  BY DEF EpochsFit
<1>3. CASE UNCHANGED worker /\ run'.epoch = run.epoch
  BY <1>1, <1>2, <1>3 DEF EpochsFit
<1>4. ASSUME NEW w \in Workers, Claims(w)
      PROVE  EpochsFit' /\ run'.epoch >= run.epoch
  <2>1. /\ run'.epoch = run.epoch + 1 /\ worker'[w].epoch = run.epoch + 1
        /\ \A v \in Workers : v # w => worker'[v] = worker[v]
    BY <1>4 DEF Claims
  <2>2. ASSUME NEW v \in Workers
        PROVE  /\ worker'[v].epoch <= run'.epoch
               /\ worker'[v].pc # "idle" => worker'[v].epoch > 0
    BY <1>1, <1>2, <2>1
  <2>3. ASSUME NEW u \in Workers, NEW v \in Workers,
               worker'[u].epoch = worker'[v].epoch
        PROVE  u = v \/ worker'[u].epoch = 0
    BY <1>1, <1>2, <2>1, <2>3
  <2>4. run'.epoch >= run.epoch
    BY <1>1, <2>1
  <2> QED BY <2>2, <2>3, <2>4 DEF EpochsFit
<1>5. ASSUME NEW w \in Workers, Goes(w)
      PROVE  EpochsFit' /\ run'.epoch >= run.epoch
  <2>1. /\ run'.epoch = run.epoch
        /\ \A v \in Workers : v # w => worker'[v] = worker[v]
        /\ \/ worker'[w].epoch = 0 /\ worker'[w].pc = "idle"
           \/ worker[w].pc # "idle" /\ worker'[w].epoch = worker[w].epoch
    BY <1>5, IdleQuiet DEF Goes, GoesOn
  <2>2. ASSUME NEW v \in Workers
        PROVE  /\ worker'[v].epoch <= run'.epoch
               /\ worker'[v].pc # "idle" => worker'[v].epoch > 0
    BY <1>1, <1>2, <2>1
  <2>3. ASSUME NEW u \in Workers, NEW v \in Workers,
               worker'[u].epoch = worker'[v].epoch
        PROVE  u = v \/ worker'[u].epoch = 0
    BY <1>1, <1>2, <2>1, <2>3
  <2>4. run'.epoch >= run.epoch
    BY <1>1, <2>1
  <2> QED BY <2>2, <2>3, <2>4 DEF EpochsFit
<1> QED BY <1>3, <1>4, <1>5, CallWorkers

\* Where a worker that sends or decides comes from.
Sender(w) ==
  /\ worker'[w].n = worker[w].n /\ worker'[w].epoch = worker[w].epoch
  /\ Streaming(worker[w]) \/ Sendable(worker[w].n)
Decider(w) ==
  /\ worker'[w].n = worker[w].n /\ worker'[w].epoch = worker[w].epoch
  /\ \/ Deciding(worker[w]) \/ Streaming(worker[w])
     \/ worker[w].pc # "idle" /\ Owner(w) /\ Unsendable(worker[w].n)
     \/ Abandoned(Own[worker[w].n])

\* Every worker that sends or decides after a step was a sender or a decider.
LEMMA WorkerPast ==
  ASSUME CallInv, [AttemptNext]_attemptVars, NEW w \in Workers
  PROVE  /\ Streaming(worker'[w]) => Sender(w)
         /\ Deciding(worker'[w]) => Decider(w)
<1>1. CASE worker'[w] = worker[w]
  BY <1>1 DEF Sender, Decider
<1>2. CASE worker'[w] = Idle
  BY <1>2, IdleQuiet
<1>3. CASE GoesOn(w, worker'[w])
  BY <1>3 DEF GoesOn, Sender, Decider
<1>4. CASE ~Streaming(worker'[w]) /\ ~Deciding(worker'[w])
  BY <1>4
<1>5. \/ worker'[w] = worker[w] \/ worker'[w] = Idle \/ GoesOn(w, worker'[w])
      \/ ~Streaming(worker'[w]) /\ ~Deciding(worker'[w])
  BY CallWorkers DEF Claims, Goes
<1> QED BY <1>1, <1>2, <1>3, <1>4, <1>5

\* A step does not both begin an attempt and make a reservation.
LEMMA CallApart ==
  ASSUME [AttemptNext]_attemptVars
  PROVE  UNCHANGED attempts \/ UNCHANGED res
BY DEF AttemptNext, Die, LeaseExpires, Cancel, OthersStep, callVars, attemptVars,
       quotaVars, WorkerStep, Claim, SelectRoute, BeginPricedAttempt, GetReservation,
       ProveLease, CheckCost, Abandon, ReserveQuota, Unsure, Wait,
       Ready, Mark, Send, emit, Flush, StreamFails,
       StreamEnds, StreamUnknown, FinishFailedAttempt, replayFailureOutcome,
       CompleteAttempt, SettleUsage, RecordSuccess, ModelCompleted

\* The clock does not go back.
LEMMA CallClock ==
  ASSUME CallInv, [AttemptNext]_attemptVars
  PROVE  now \in Nat /\ now' \in Nat /\ now' >= now
<1>1. now \in Nat /\ now' \in Nat
  BY CallNextInv DEF CallInv, QuotaInv
<1>2. now' = now \/ now' = now + 1
  <2>1. CASE UNCHANGED quotaVars
    BY <2>1 DEF quotaVars
  <2>2. CASE QuotaMoves
    BY <2>2 DEF QuotaMoves, ExpireRequestSlots, Tick, Configure, Reserve,
       MarkDispatched, MarkUnknown, CompleteWithUnknownUsage, Settle,
       AbandonBeforeDispatch, settle, RecordOutcome
  <2> QED BY <2>1, <2>2, CallMoves
<1> QED BY <1>1, <1>2

\* What nobody can send stays so, and a marker stays.
LEMMA UnsendableStays ==
  ASSUME CallInv, [AttemptNext]_attemptVars, NEW n \in DOMAIN attempts
  PROVE  /\ Unsendable(n) => Unsendable(n)'
         /\ HasMarker(n) => HasMarker(n)'
         /\ HasReservation(n) =>
              /\ HasReservation(n)' /\ res'[Own[n]].deadline = res[Own[n]].deadline
<1>1. RowsForward /\ AttemptsForward
  BY CallMoves, MovesForward, CallAttempts DEF CallInv
<1>2. now \in Nat /\ now' \in Nat /\ now' >= now
  BY CallClock
<1>3. attempts[n].deadline \in Int /\ attempts'[n].deadline = attempts[n].deadline
  BY <1>1, AttemptsTyped DEF CallInv, AttemptsForward
<1>4. HasReservation(n) =>
        HasReservation(n)' /\ RowForward(res[Own[n]], res'[Own[n]])
  BY <1>1 DEF RowsForward, HasReservation
<1>5. HasMarker(n) => HasMarker(n)'
  BY <1>4 DEF HasMarker, RowForward
<1>6. Unsendable(n) => Unsendable(n)'
  BY <1>2, <1>3, <1>4, <1>5 DEF Unsendable, RowForward
<1> QED BY <1>4, <1>5, <1>6 DEF RowForward

\* A worker that is about to fail its attempt decides.
LEMMA FinishDecides ==
  ASSUME CallInv, NEW w \in Workers, worker[w].pc = "finish"
  PROVE  Deciding(worker[w])
BY DEF CallInv, WorkerFits, Deciding

\* An attempt that can be marked has not been decided, and nobody decides it.
LEMMA SendableOpen ==
  ASSUME CallInv, DecisionsFit, NEW n \in DOMAIN attempts, Sendable(n)
  PROVE  /\ ~Unsendable(n) /\ attempts[n].status # "failed"
         /\ \A v \in Workers : worker[v].n = n => /\ ~Deciding(worker[v])
                                                  /\ ~Streaming(worker[v])
<1>1. res[Own[n]].deadline = attempts[n].deadline
  BY DEF DecisionsFit, Sendable
<1>2. attempts[n].deadline \in Int /\ now \in Nat
  BY AttemptsTyped DEF CallInv, QuotaInv
<1>3. ~Unsendable(n)
  BY <1>1, <1>2 DEF Unsendable, Sendable
<1>4. \A v \in Workers : Streaming(worker[v]) => HasMarker(worker[v].n)
  BY DEF CallInv, WorkerFits, Streaming
<1> QED BY <1>3, <1>4 DEF DecisionsFit, Sendable

\* DecisionsFit is kept.
LEMMA DecisionsStep ==
  ASSUME CallInv, EpochsFit, DecisionsFit, [AttemptNext]_attemptVars
  PROVE  DecisionsFit'
<1>1. CallInv' /\ EpochsFit' /\ run'.epoch >= run.epoch
  BY CallNextInv, EpochsStep
<1>2. AttemptsForward /\ NewRowsFit
  BY CallMoves, CallAttempts
<1>3. /\ run.epoch \in Nat /\ run'.epoch \in Nat
      /\ \A w \in Workers : worker[w].epoch \in Nat
  BY <1>1 DEF CallInv, CallTyped, RunRow, WorkerState
<1>4. /\ Len(attempts) \in Nat /\ DOMAIN attempts = 1..Len(attempts)
      /\ \A n \in DOMAIN attempts : n \in 1..Len(Own)
      /\ DOMAIN attempts' = 1..Len(attempts')
      /\ \A n \in DOMAIN attempts' : n \in 1..Len(Own)
  <2>1. Len(Own) \in Nat
    BY AttemptAssumption
  <2>2. attempts' \in Seq(AttemptRow) /\ Len(attempts') <= Len(Own)
    BY <1>1 DEF CallInv, CallTyped
  <2>3. Len(attempts') \in Nat /\ DOMAIN attempts' = 1..Len(attempts')
    BY <2>2
  <2>4. \A n \in DOMAIN attempts' : n \in 1..Len(Own)
    BY <2>1, <2>2, <2>3
  <2> QED BY <2>3, <2>4, AttemptsTyped DEF CallInv
<1>5. ASSUME NEW w \in Workers, Streaming(worker'[w]) \/ Deciding(worker'[w])
      PROVE  worker[w].n \in DOMAIN attempts
  <2>1. worker'[w].n = worker[w].n
    BY <1>5, WorkerPast DEF Sender, Decider
  <2>2. worker'[w].n > 0
    BY <1>1, <1>5 DEF CallInv, WorkerFits, Streaming, Deciding
  <2>3. worker[w].n \in Nat /\ worker[w].n <= Len(attempts)
    BY WorkerTyped
  <2> QED BY <1>4, <2>1, <2>2, <2>3
<1>6. ASSUME NEW n \in DOMAIN attempts' \ DOMAIN attempts
      PROVE  ~HasReservation(n)'
  <2>1. attempts' # attempts
    BY <1>6
  <2>2. res' = res
    BY <2>1, CallApart
  <2>3. \A a \in DOMAIN res : \E m \in DOMAIN attempts : a = Own[m]
    BY DEF CallInv, ReservationFits
  <2>4. \A k, m \in DOMAIN attempts' : Own[k] = Own[m] => k = m
    <3>1. DOMAIN Own = 1..Len(Own) /\ \A k, m \in DOMAIN Own : Own[k] = Own[m] => k = m
      BY AttemptAssumption DEF IsInjective
    <3> QED BY <1>4, <3>1
  <2>5. DOMAIN attempts \subseteq DOMAIN attempts'
    BY <1>2 DEF AttemptsForward
  <2> QED BY <1>6, <2>2, <2>3, <2>4, <2>5 DEF HasReservation
<1>7. ASSUME NEW n \in DOMAIN attempts', HasReservation(n)'
      PROVE  res'[Own[n]].deadline = attempts'[n].deadline
  <2>1. n \in DOMAIN attempts /\ attempts'[n].deadline = attempts[n].deadline
    BY <1>2, <1>6, <1>7 DEF AttemptsForward
  <2>2. CASE HasReservation(n)
    BY <2>1, <2>2, UnsendableStays DEF DecisionsFit
  <2>3. CASE ~HasReservation(n)
    BY <1>2, <1>7, <2>1, <2>3 DEF NewRowsFit, HasReservation
  <2> QED BY <2>2, <2>3
<1>8. ASSUME NEW n \in DOMAIN attempts', attempts'[n].status = "failed"
      PROVE  /\ n \in DOMAIN attempts /\ Unsendable(n)'
             /\ \/ attempts[n].status = "failed"
                \/ \E v \in Workers : /\ Deciding(worker[v]) /\ worker[v].n = n
                                       /\ worker'[v].pc \in {"record", "idle"}
  <2>1. /\ n \in DOMAIN attempts
        /\ \/ attempts[n].status = "failed"
           \/ \E v \in Workers : worker[v].pc = "finish" /\ worker[v].n = n
                                    /\ worker'[v].pc \in {"record", "idle"}
    BY <1>2, <1>8 DEF AttemptsForward
  <2>2. \/ attempts[n].status = "failed"
        \/ \E v \in Workers : /\ Deciding(worker[v]) /\ worker[v].n = n
                               /\ worker'[v].pc \in {"record", "idle"}
    BY <2>1, FinishDecides
  <2>3. Unsendable(n)
    BY <2>1, <2>2 DEF DecisionsFit
  <2> QED BY <2>1, <2>2, <2>3, UnsendableStays
<1>9. ASSUME NEW w \in Workers, Deciding(worker'[w])
      PROVE  Unsendable(worker[w].n)'
  <2>1. PICK n : n = worker[w].n
    OBVIOUS
  <2>2. n \in DOMAIN attempts /\ Decider(w)
    BY <1>5, <1>9, <2>1, WorkerPast
  <2>3. Streaming(worker[w]) => HasMarker(n)
    BY <2>1 DEF CallInv, WorkerFits, Streaming
  <2>4. Unsendable(n) => Unsendable(n)'
    BY <2>2, UnsendableStays
  <2>5. Abandoned(Own[n]) => Unsendable(n)'
    BY DEF Abandoned, Unsendable, HasReservation
  <2>6. Unsendable(n)'
    BY <2>1, <2>2, <2>3, <2>4, <2>5 DEF Decider, DecisionsFit, Unsendable
  <2>7. worker'[w].n = n
    BY <2>1, <2>2 DEF Decider
  <2> QED BY <2>6, <2>7
<1>10. ASSUME NEW w \in Workers, Streaming(worker'[w]),
              NEW n, n = worker[w].n
       PROVE  /\ n \in DOMAIN attempts /\ worker'[w].n = n
              /\ worker'[w].epoch = worker[w].epoch
              /\ Streaming(worker[w]) \/ Sendable(n)
              /\ HasMarker(n)'
  <2>1. Sender(w) /\ n \in DOMAIN attempts
    BY <1>5, <1>10, WorkerPast
  <2>2. HasMarker(worker[w].n)'
    BY <1>1, <1>10 DEF CallInv, WorkerFits, Streaming
  <2>3. worker'[w].n = n
    BY <1>10, <2>1 DEF Sender
  <2>4. HasMarker(n)'
    BY <2>2, <2>3 DEF HasMarker, HasReservation
  <2> QED BY <1>10, <2>1, <2>3, <2>4 DEF Sender
<1>11. ASSUME NEW v \in Workers, NEW w \in Workers, Streaming(worker'[w]),
              Deciding(worker'[v]), worker'[v].n = worker'[w].n
       PROVE  worker'[w].epoch < worker'[v].epoch
  <2>1. PICK n : n = worker[w].n
    OBVIOUS
  <2>2. /\ n \in DOMAIN attempts /\ worker'[w].n = n
        /\ worker'[w].epoch = worker[w].epoch
        /\ Streaming(worker[w]) \/ Sendable(n)
        /\ HasMarker(n)'
    BY <1>10, <1>11, <2>1
  <2>3. v # w
    BY <1>11 DEF Streaming, Deciding
  <2>4. Decider(v) /\ worker[v].n = n
    BY <1>11, <2>2, WorkerPast DEF Decider
  <2>5. ~Abandoned(Own[n])
    BY <2>2 DEF Abandoned, HasMarker
  <2>6. \/ Deciding(worker[v]) \/ Streaming(worker[v])
        \/ worker[v].pc # "idle" /\ Owner(v) /\ Unsendable(n)
    BY <2>4, <2>5 DEF Decider
  <2>7. ~Sendable(n)
    BY <2>2, <2>4, <2>6, SendableOpen
  <2>8. Streaming(worker[w]) /\ worker[w].pc # "idle"
    BY <2>2, <2>7 DEF Streaming
  <2>9. ~Streaming(worker[v])
    BY <2>1, <2>3, <2>4, <2>8 DEF CallInv, SendersApart
  <2>10. worker[w].epoch < worker[v].epoch
    <3>1. CASE Deciding(worker[v])
      BY <2>1, <2>4, <2>8, <3>1 DEF DecisionsFit
    <3>2. CASE worker[v].pc # "idle" /\ Owner(v)
      <4>1. worker[v].epoch = run.epoch /\ worker[w].epoch <= run.epoch
        BY <3>2 DEF Owner, EpochsFit
      <4>2. worker[v].epoch # worker[w].epoch
        BY <1>3, <2>3, <2>8, <3>2 DEF EpochsFit
      <4> QED BY <1>3, <4>1, <4>2
    <3> QED BY <2>6, <2>9, <3>1, <3>2
  <2>11. worker'[v].epoch = worker[v].epoch
    BY <2>4 DEF Decider
  <2> QED BY <2>2, <2>10, <2>11
<1>12. ASSUME NEW w \in Workers, Streaming(worker'[w]),
              attempts'[worker'[w].n].status = "failed"
       PROVE  worker'[w].epoch < run'.epoch
  <2>1. PICK n : n = worker[w].n
    OBVIOUS
  <2>2. /\ n \in DOMAIN attempts /\ worker'[w].n = n
        /\ worker'[w].epoch = worker[w].epoch
        /\ Streaming(worker[w]) \/ Sendable(n)
    BY <1>10, <1>12, <2>1
  <2>3. /\ n \in DOMAIN attempts' /\ attempts'[n].status = "failed"
    BY <1>2, <1>12, <2>2 DEF AttemptsForward
  <2>4. \/ attempts[n].status = "failed"
        \/ \E v \in Workers : Deciding(worker[v]) /\ worker[v].n = n
    BY <1>8, <2>3
  <2>5. Streaming(worker[w])
    BY <2>2, <2>4, SendableOpen
  <2>6. worker[w].epoch < run.epoch
    <3>1. CASE attempts[n].status = "failed"
      BY <2>1, <2>5, <3>1 DEF DecisionsFit
    <3>2. ASSUME NEW v \in Workers, Deciding(worker[v]), worker[v].n = n
          PROVE  worker[w].epoch < run.epoch
      <4>1. worker[w].epoch < worker[v].epoch
        BY <2>1, <2>5, <3>2 DEF DecisionsFit
      <4>2. worker[v].epoch <= run.epoch
        BY DEF EpochsFit
      <4> QED BY <1>3, <4>1, <4>2
    <3> QED BY <2>4, <3>1, <3>2
  <2> QED BY <1>1, <1>3, <2>2, <2>6
<1>13. \A n \in DOMAIN attempts' :
         /\ HasReservation(n)' => res'[Own[n]].deadline = attempts'[n].deadline
         /\ attempts'[n].status = "failed" => Unsendable(n)'
  BY <1>7, <1>8
<1>14. /\ \A w \in Workers : Deciding(worker'[w]) => Unsendable(worker[w].n)'
       /\ \A v, w \in Workers :
            /\ Streaming(worker'[w]) /\ Deciding(worker'[v])
            /\ worker'[v].n = worker'[w].n
            => worker'[w].epoch < worker'[v].epoch
       /\ \A w \in Workers :
            Streaming(worker'[w]) /\ attempts'[worker'[w].n].status = "failed" =>
              worker'[w].epoch < run'.epoch
  BY <1>9, <1>11, <1>12
<1> QED BY <1>13, <1>14, Zenon DEF DecisionsFit


\* No claim, no worker and no attempt.
LEMMA DecisionsInit ==
  ASSUME AttemptInit
  PROVE  EpochsFit /\ DecisionsFit
<1>1. DOMAIN attempts = {} /\ \A w \in Workers : worker[w] = Idle
  BY DEF AttemptInit
<1>2. run.epoch = 0
  BY DEF AttemptInit
<1> QED BY <1>1, <1>2, IdleQuiet DEF EpochsFit, DecisionsFit

\* Both always hold.
LEMMA DecisionsAlways == AttemptSpec => [](CallInv /\ EpochsFit /\ DecisionsFit)
<1>1. AttemptInit => CallInv /\ EpochsFit /\ DecisionsFit
  BY CallInitInv, DecisionsInit
<1>2. CallInv /\ EpochsFit /\ DecisionsFit /\ [AttemptNext]_attemptVars
        => CallInv' /\ EpochsFit' /\ DecisionsFit'
  BY CallNextInv, EpochsStep, DecisionsStep
<1> QED BY <1>1, <1>2, PTL DEF AttemptSpec

\* What was sent and stored of a request stays, and nothing is added to the text
\* of an attempt that was failed.
LogForward ==
  \A n \in 1..Len(Own) :
    /\ sent'[n] >= sent[n] /\ Len(log[n]) <= Len(log'[n])
    /\ \A i \in DOMAIN log[n] : log'[n][i] = log[n][i]
    /\ n \in DOMAIN attempts /\ attempts[n].status = "failed" => log'[n] = log[n]

\* Only the run's owner stores text.
LEMMA CallLog ==
  ASSUME CallInv, DecisionsFit, [AttemptNext]_attemptVars
  PROVE  LogForward
<1>1. /\ sent \in [1..Len(Own) -> Nat] /\ log \in [1..Len(Own) -> Seq(Nat)]
      /\ \A n \in 1..Len(Own) : Len(log[n]) \in Nat /\ DOMAIN log[n] = 1..Len(log[n])
  BY DEF CallInv, CallTyped
<1>2. CASE UNCHANGED <<sent, log>>
  BY <1>1, <1>2 DEF LogForward
<1>3. ASSUME NEW w \in Workers, Send(w) PROVE LogForward
  <2>1. sent' = [sent EXCEPT ![worker[w].n] = sent[worker[w].n] + 1] /\ log' = log
    BY <1>3 DEF Send
  <2>2. \A n \in 1..Len(Own) : sent'[n] = sent[n] \/ sent'[n] = sent[n] + 1
    BY <1>1, <2>1
  <2> QED BY <1>1, <2>1, <2>2 DEF LogForward
<1>4. ASSUME NEW w \in Workers, Flush(w), ~UNCHANGED <<sent, log>> PROVE LogForward
  <2>1. PICK n, p : n = worker[w].n /\ p = Pending(w)
    OBVIOUS
  <2>2. /\ worker[w].pc = "stream" /\ Owner(w) /\ sent' = sent
        /\ log' = [log EXCEPT ![n] = log[n] \o p]
    BY <1>4, <2>1 DEF Flush, flush
  <2>3. n \in 1..Len(Own) /\ worker[w].fed \in Nat /\ worker[w].done \in Nat
        /\ worker[w].done <= worker[w].fed /\ worker[w].epoch \in Nat
        /\ run.epoch \in Nat
    BY <2>1, <2>2, WorkerTyped DEF WorkerState, WorkerFits, RunRow
  <2>4. attempts[n].status # "failed"
    BY <2>1, <2>2, <2>3 DEF DecisionsFit, Streaming, Owner
  <2>5. p \in Seq(Nat)
    <3>1. worker[w].fed - worker[w].done \in Nat
      BY <2>3
    <3>2. \A i \in 1..(worker[w].fed - worker[w].done) : worker[w].done + i \in Nat
      BY <2>3, <3>1
    <3> QED BY <2>1, <3>1, <3>2 DEF Pending
  <2>6. ASSUME NEW s \in Seq(Nat)
        PROVE  Len(s) <= Len(s \o p) /\ \A i \in DOMAIN s : (s \o p)[i] = s[i]
    BY <2>5
  <2>7. /\ log'[n] = log[n] \o p
        /\ \A m \in 1..Len(Own) : m # n => log'[m] = log[m]
    BY <1>1, <2>2, <2>3
  <2>8. Len(log[n]) <= Len(log'[n]) /\ \A i \in DOMAIN log[n] : log'[n][i] = log[n][i]
    BY <1>1, <2>3, <2>6, <2>7
  <2> QED BY <1>1, <2>2, <2>4, <2>7, <2>8 DEF LogForward
<1>5. \/ UNCHANGED <<sent, log>> \/ \E w \in Workers : Send(w) \/ Flush(w)
  <2>1. CASE UNCHANGED attemptVars
    BY <2>1 DEF attemptVars
  <2>2. CASE LeaseExpires \/ Cancel \/ OthersStep
    BY <2>2 DEF LeaseExpires, Cancel, OthersStep, callVars
  <2>3. ASSUME NEW w \in Workers, WorkerStep(w) \/ Die(w)
        PROVE  UNCHANGED <<sent, log>> \/ Send(w) \/ Flush(w)
    <3>1. CASE \/ Claim(w) \/ SelectRoute(w) \/ BeginPricedAttempt(w)
               \/ GetReservation(w) \/ ProveLease(w) \/ CheckCost(w) \/ Die(w)
      BY <3>1 DEF Claim, SelectRoute, BeginPricedAttempt, GetReservation, ProveLease,
           CheckCost, Die
    <3>2. CASE Abandon(w) \/ ReserveQuota(w) \/ Unsure(w) \/ Wait(w) \/ Ready(w) \/ Mark(w)
      BY <3>2 DEF Abandon, ReserveQuota, Unsure, Wait, Ready, Mark
    <3>3. CASE emit(w) \/ StreamFails(w) \/ StreamEnds(w) \/ StreamUnknown(w)
      BY <3>3 DEF emit, StreamFails, StreamEnds, StreamUnknown
    <3>4. CASE FinishFailedAttempt(w) \/ replayFailureOutcome(w) \/ CompleteAttempt(w)
      BY <3>4 DEF FinishFailedAttempt, replayFailureOutcome, CompleteAttempt
    <3>5. CASE SettleUsage(w) \/ RecordSuccess(w) \/ ModelCompleted(w)
      BY <3>5 DEF SettleUsage, RecordSuccess, ModelCompleted
    <3> QED BY <2>3, <3>1, <3>2, <3>3, <3>4, <3>5 DEF WorkerStep
  <2> QED BY <2>1, <2>2, <2>3 DEF AttemptNext
<1> QED BY <1>2, <1>3, <1>4, <1>5

\* What is on record of the model call: its reservations, its attempts with
\* their text, and its requests.
RecordsForward ==
  /\ RowsForward
  /\ \A n \in DOMAIN attempts :
       /\ n \in DOMAIN attempts'
       /\ attempts'[n].route = attempts[n].route
       /\ attempts'[n].deadline = attempts[n].deadline
       /\ attempts[n].status # "prepared" =>
            attempts'[n] = attempts[n] /\ log'[n] = log[n]
  /\ \A n \in DOMAIN log :
       /\ sent'[n] >= sent[n] /\ Len(log[n]) <= Len(log'[n])
       /\ \A i \in DOMAIN log[n] : log'[n][i] = log[n][i]

\* For any number of workers, claims and attempts and answers of any length, what
\* is on record only grows: a reservation is never reopened, an attempt that is
\* completed or failed keeps its answer or its failure, its retry and its usage,
\* and its text, whichever worker is still sending, flushing or replaying it after
\* the lease was lost; a request that went out stays counted and stored text is
\* not rewritten (CompleteAttempt, FinishFailedAttempt, streamSink, LeaseProof).
THEOREM RecordsAreFinal == AttemptSpec => [][RecordsForward]_attemptVars
<1>1. ASSUME CallInv, EpochsFit, DecisionsFit, [AttemptNext]_attemptVars
      PROVE  RecordsForward
  <2>1. RowsForward
    BY <1>1, CallMoves, MovesForward DEF CallInv
  <2>2. AttemptsForward /\ LogForward /\ CallInv'
    BY <1>1, CallAttempts, CallLog, CallNextInv
  <2>3. DOMAIN log = 1..Len(Own) /\ \A n \in DOMAIN attempts : n \in 1..Len(Own)
    BY <1>1, AttemptsTyped DEF CallInv, CallTyped
  <2>4. ASSUME NEW n \in DOMAIN attempts, attempts[n].status = "completed"
        PROVE  log'[n] = log[n]
    <3>1. n \in 1..Len(Own) /\ n \in DOMAIN attempts' /\ attempts'[n] = attempts[n]
      BY <2>2, <2>3, <2>4 DEF AttemptsForward
    <3>2. Len(log[n]) = Chunks /\ Len(log'[n]) = Chunks
      BY <1>1, <2>2, <2>4, <3>1 DEF CallInv, AttemptFits
    <3>3. log[n] \in Seq(Nat) /\ log'[n] \in Seq(Nat)
      BY <1>1, <2>2, <3>1 DEF CallInv, CallTyped
    <3>4. \A i \in DOMAIN log[n] : log'[n][i] = log[n][i]
      BY <2>2, <3>1 DEF LogForward
    <3>5. ASSUME NEW s \in Seq(Nat), NEW t \in Seq(Nat), Len(s) = Len(t),
                 \A i \in DOMAIN s : t[i] = s[i]
          PROVE  t = s
      BY <3>5
    <3> QED BY <3>2, <3>3, <3>4, <3>5
  <2>5. ASSUME NEW n \in DOMAIN attempts
        PROVE  /\ n \in DOMAIN attempts'
               /\ attempts'[n].route = attempts[n].route
               /\ attempts'[n].deadline = attempts[n].deadline
               /\ attempts[n].status # "prepared" =>
                    attempts'[n] = attempts[n] /\ log'[n] = log[n]
    <3>1. attempts[n].status \in {"prepared", "completed", "failed"}
      BY <1>1, AttemptsTyped DEF CallInv
    <3> QED BY <2>2, <2>3, <2>4, <3>1 DEF AttemptsForward, LogForward
  <2> QED BY <2>1, <2>2, <2>3, <2>5 DEF RecordsForward, LogForward
<1>2. CallInv /\ EpochsFit /\ DecisionsFit /\ [AttemptNext]_attemptVars
        => RecordsForward
  BY <1>1
<1> QED BY <1>2, DecisionsAlways, PTL DEF AttemptSpec
=============================================================================
