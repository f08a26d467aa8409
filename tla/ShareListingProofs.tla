-------------------------- MODULE ShareListingProofs --------------------------
(***************************************************************************)
(* Proofs about the listing, for any bucket, page size and policies, over  *)
(* each of the three stores, and whatever others publish and delete.       *)
(***************************************************************************)
EXTENDS ShareListing, FiniteSetTheorems, FunctionTheorems, SequenceTheorems, TLAPS

(***************************************************************************)
(* Finite sets of numbers, counted from the least on.                      *)
(***************************************************************************)
\* Every set of numbers has a least one: what induction over numbers rests on.
LEMMA LeastNumber ==
  ASSUME NEW T, T \subseteq Nat, T # {}
  PROVE  \E m \in T : \A k \in T : m <= k
<1> DEFINE R == OpToRel(<, Nat)
<1>1. IsWellFoundedOn(R, Nat)
  BY NatLessThanWellFounded
<1>2. \A x, y \in Nat : x < y => <<x, y>> \in R
  BY DEF OpToRel
<1> HIDE DEF R
<1>3. PICK x \in T : \A y \in T : ~ (<<y, x>> \in R)
  BY <1>1, WFMin
<1>4. ASSUME NEW k \in T, ~ (x <= k) PROVE FALSE
  <2>1. k \in Nat /\ x \in Nat /\ k < x
    BY <1>4
  <2>2. QED
    BY <1>2, <1>3, <2>1
<1>5. QED
  BY <1>4

\* What the stores look at next is the first of what they found.
LEMMA LeastIsLeast ==
  ASSUME NEW S, S \subseteq Nat, S # {}
  PROVE  Least(S) \in S /\ \A j \in S : Least(S) <= j
BY LeastNumber DEF Least

\* A number has fewer below it than a greater one, and than there are.
LEMMA BelowGrows ==
  ASSUME NEW S, IsFiniteSet(S), S \subseteq Nat, NEW i \in S
  PROVE  /\ Below(S, i) \in 0 .. Cardinality(S) - 1
         /\ \A k \in S : i < k => Below(S, i) < Below(S, k)
<1> DEFINE under(k) == {j \in S : j < k}
<1>1. ASSUME NEW k PROVE IsFiniteSet(under(k)) /\ Cardinality(under(k)) \in Nat
  BY FS_Subset, FS_CardinalityType
<1>2. Cardinality(S) \in Nat
  BY FS_CardinalityType
<1>3. i \notin under(i)
  OBVIOUS
<1>4. Cardinality(under(i)) <= Cardinality(S) /\ Cardinality(under(i)) # Cardinality(S)
  BY <1>3, FS_Subset
<1>5. ASSUME NEW k \in S, i < k
      PROVE  Cardinality(under(i)) < Cardinality(under(k))
  <2>1. under(i) \in SUBSET under(k) /\ i \in under(k)
    <3>1. i \in under(k)
      BY <1>5
    <3>2. \A j \in S : j < i => j < k
      BY <1>5
    <3>3. QED
      BY <3>1, <3>2
  <2>2. /\ Cardinality(under(i)) <= Cardinality(under(k))
        /\ Cardinality(under(i)) # Cardinality(under(k))
    BY <1>1, <1>3, <2>1, FS_Subset
  <2>3. QED
    BY <1>1, <2>2
<1>6. QED
  BY <1>1, <1>2, <1>4, <1>5 DEF Below

\* So each of them is told by how many are below it, and every count is met.
LEMMA BelowCounts ==
  ASSUME NEW S, IsFiniteSet(S), S \subseteq Nat
  PROVE  /\ Cardinality(S) \in Nat
         /\ \A i, k \in S : Below(S, i) = Below(S, k) => i = k
         /\ \A n \in 0 .. Cardinality(S) - 1 : \E i \in S : Below(S, i) = n
<1> DEFINE N == 0 .. Cardinality(S) - 1
           count == [i \in S |-> Below(S, i)]
<1>1. Cardinality(S) \in Nat
  BY FS_CardinalityType
<1>2. IsFiniteSet(N) /\ Cardinality(N) = Cardinality(S)
  <2>1. 0 \in Int /\ Cardinality(S) - 1 \in Int
    BY <1>1
  <2>2. IsFiniteSet(N) /\ Cardinality(N) = IF 0 > Cardinality(S) - 1 THEN 0
                                           ELSE (Cardinality(S) - 1) - 0 + 1
    BY <2>1, FS_Interval
  <2>3. QED
    BY <1>1, <2>2
<1>3. /\ \A i \in S : Below(S, i) \in N
      /\ \A i, k \in S : i < k => Below(S, i) < Below(S, k)
  BY BelowGrows
<1>4. \A i, k \in S : Below(S, i) = Below(S, k) => i = k
  <2> SUFFICES ASSUME NEW i \in S, NEW k \in S, i # k PROVE Below(S, i) # Below(S, k)
    OBVIOUS
  <2>1. i < k \/ k < i
    OBVIOUS
  <2>2. Below(S, i) \in Nat /\ Below(S, k) \in Nat
    BY <1>1, <1>3
  <2>3. QED
    BY <2>1, <2>2, <1>3
<1>5. count \in Injection(S, N)
  <2>1. count \in [S -> N]
    BY <1>3
  <2>2. \A i, k \in S : count[i] = count[k] => i = k
    BY <1>4
  <2>3. QED
    BY <2>1, <2>2, Fun_IsInj
<1>6. count \in Surjection(S, N)
  BY <1>2, <1>5, FS_Injection
<1>7. \A n \in N : \E i \in S : Below(S, i) = n
  <2>1. \A n \in N : \E i \in S : count[i] = n
    <3> HIDE DEF count, N
    <3>1. QED
      BY <1>6, Fun_SurjectionProperties
  <2>2. QED
    BY <2>1
<1>8. QED
  BY <1>1, <1>4, <1>7

\* The enumeration goes through the set from the least on.
LEMMA InOrderProperties ==
  ASSUME NEW S, IsFiniteSet(S), S \subseteq Nat
  PROVE  /\ Cardinality(S) \in Nat
         /\ InOrder(S) \in [1 .. Cardinality(S) -> S]
         /\ \A m, n \in 1 .. Cardinality(S) : m < n => InOrder(S)[m] < InOrder(S)[n]
         /\ \A i \in S : \E n \in 1 .. Cardinality(S) : InOrder(S)[n] = i
<1> DEFINE N == 1 .. Cardinality(S)
<1>1. Cardinality(S) \in Nat
  BY BelowCounts
<1>2. ASSUME NEW n \in N PROVE InOrder(S)[n] \in S /\ Below(S, InOrder(S)[n]) = n - 1
  <2>1. n - 1 \in 0 .. Cardinality(S) - 1
    BY <1>1
  <2>2. \E i \in S : Below(S, i) = n - 1
    BY <2>1, BelowCounts
  <2>3. InOrder(S)[n] = CHOOSE i \in S : Below(S, i) = n - 1
    BY DEF InOrder
  <2>4. QED
    BY <2>2, <2>3
<1>3. InOrder(S) \in [N -> S]
  BY <1>2 DEF InOrder
<1>4. ASSUME NEW m \in N, NEW n \in N, m < n PROVE InOrder(S)[m] < InOrder(S)[n]
  <2> DEFINE i == InOrder(S)[m]
             k == InOrder(S)[n]
  <2>1. i \in S /\ k \in S /\ Below(S, i) = m - 1 /\ Below(S, k) = n - 1
    BY <1>2
  <2> HIDE DEF i, k
  <2>2. i # k /\ ~ (k < i)
    <3>1. Below(S, i) < Below(S, k) /\ ~ (Below(S, k) < Below(S, i))
      BY <1>1, <1>4, <2>1
    <3>2. i # k
      BY <3>1
    <3>3. ~ (k < i)
      BY <2>1, <3>1, BelowGrows
    <3>4. QED
      BY <3>2, <3>3
  <2>3. i < k
    BY <2>1, <2>2
  <2>4. QED
    BY <2>3 DEF i, k
<1>5. ASSUME NEW i \in S PROVE \E n \in N : InOrder(S)[n] = i
  <2>1. Below(S, i) \in 0 .. Cardinality(S) - 1
    BY BelowGrows
  <2>2. PICK n \in N : n - 1 = Below(S, i)
    BY <1>1, <2>1
  <2>3. Below(S, InOrder(S)[n]) = Below(S, i) /\ InOrder(S)[n] \in S
    BY <1>2, <2>2
  <2>4. InOrder(S)[n] = i
    BY <2>3, BelowCounts
  <2>5. QED
    BY <2>2, <2>4
<1>6. QED
  BY <1>1, <1>3, <1>4, <1>5

\* The first n are below all others; they are n, or all there are.
LEMMA FirstOfProperties ==
  ASSUME NEW S, IsFiniteSet(S), S \subseteq Nat, NEW n \in Nat
  PROVE  /\ FirstOf(S, n) \subseteq S /\ IsFiniteSet(FirstOf(S, n))
         /\ \A i \in FirstOf(S, n), k \in S \ FirstOf(S, n) : i < k
         /\ Cardinality(FirstOf(S, n)) \in 0 .. n
         /\ Cardinality(S) <= n => FirstOf(S, n) = S
         /\ Cardinality(FirstOf(S, n)) < n => FirstOf(S, n) = S
<1> DEFINE F == FirstOf(S, n)
           N == 0 .. n - 1
           count == [i \in F |-> Below(S, i)]
<1>1. F \subseteq S /\ IsFiniteSet(F) /\ Cardinality(F) \in Nat /\ Cardinality(S) \in Nat
  BY FS_Subset, FS_CardinalityType DEF FirstOf
<1>2. \A i \in S : Below(S, i) \in 0 .. Cardinality(S) - 1 /\ (i \in F <=> Below(S, i) < n)
  BY BelowGrows DEF FirstOf
<1> HIDE DEF F
<1>3. ASSUME NEW i \in F, NEW k \in S \ F PROVE i < k
  <2>1. i \in S /\ k \in S /\ i # k /\ Below(S, i) < n /\ ~ (Below(S, k) < n)
    BY <1>1, <1>2, <1>3
  <2>2. ~ (k < i)
    <3>1. Below(S, i) \in Nat /\ Below(S, k) \in Nat
      BY <1>1, <1>2, <2>1
    <3>2. ~ (Below(S, k) < Below(S, i))
      BY <2>1, <3>1
    <3>3. QED
      BY <2>1, <3>2, BelowGrows
  <2>3. QED
    BY <2>1, <2>2
<1>4. IsFiniteSet(N) /\ Cardinality(N) = n
  BY FS_Interval
<1>5. count \in Injection(F, N)
  <2>1. \A i \in F : Below(S, i) \in N
    BY <1>1, <1>2
  <2>2. \A i, k \in F : count[i] = count[k] => i = k
    BY <1>1, BelowCounts
  <2>3. QED
    BY <2>1, <2>2, Fun_IsInj
<1>6. Cardinality(F) <= n
  BY <1>4, <1>5, FS_Injection
<1>7. ASSUME Cardinality(S) <= n PROVE F = S
  <2>1. \A i \in S : i \in F
    <3>1. ASSUME NEW i \in S PROVE i \in F
      <4>1. Below(S, i) < n
        BY <1>1, <1>2, <1>7
      <4>2. QED
        BY <1>2, <4>1
    <3>2. QED
      BY <3>1
  <2>2. QED
    BY <1>1, <2>1
<1>8. ASSUME Cardinality(F) < n PROVE F = S
  <2>1. ASSUME Cardinality(S) > n PROVE FALSE
    <3>1. ASSUME NEW m \in N PROVE \E i \in F : count[i] = m
      <4>1. m \in 0 .. Cardinality(S) - 1
        BY <1>1, <2>1
      <4>2. PICK i \in S : Below(S, i) = m
        BY <4>1, BelowCounts
      <4>3. i \in F
        BY <1>2, <4>2
      <4>4. QED
        BY <4>2, <4>3
    <3>2. count \in Surjection(F, N)
      <4>1. count \in [F -> N]
        BY <1>5, Fun_InjectionProperties
      <4>2. QED
        BY <3>1, <4>1, Fun_IsSurj
    <3>3. Cardinality(N) <= Cardinality(F)
      BY <1>1, <3>2, FS_Surjection
    <3>4. QED
      BY <1>1, <1>4, <1>8, <3>3
  <2>2. Cardinality(S) <= n
    BY <1>1, <2>1
  <2>3. QED
    BY <1>7, <2>2
<1>9. QED
  BY <1>1, <1>3, <1>6, <1>7, <1>8 DEF F
(***************************************************************************)
(* What http.rs leaves of a page.                                          *)
(***************************************************************************)
\* The loop over a page, as far as its n-th object.
Step(kept, shown, n) ==
  IF n = 0 THEN <<>>
  ELSE IF Denied(kept[n]) THEN shown[n - 1] ELSE Append(shown[n - 1], kept[n])

\* The loop has a result after every object, however long the page is.
LEMMA ShownExists ==
  ASSUME NEW kept, NEW k \in Nat
  PROVE  \E shown : shown = [n \in 0 .. k |-> Step(kept, shown, n)]
<1> DEFINE Runs(j) == \E shown : shown = [n \in 0 .. j |-> Step(kept, shown, n)]
           T == {j \in Nat : ~ Runs(j)}
<1>1. SUFFICES ASSUME T # {} PROVE FALSE
  OBVIOUS
<1>2. PICK m \in T : \A j \in T : m <= j
  BY <1>1, LeastNumber
<1>3. CASE m = 0
  <2> DEFINE g == [n \in 0 .. 0 |-> <<>>]
  <2>1. g = [n \in 0 .. 0 |-> Step(kept, g, n)]
    BY DEF Step
  <2>2. QED
    BY <1>3, <2>1
<1>4. CASE m # 0
  <2>1. m - 1 \in Nat /\ ~ (m - 1 \in T)
    BY <1>2, <1>4
  <2>2. PICK h : h = [n \in 0 .. m - 1 |-> Step(kept, h, n)]
    BY <2>1
  <2> DEFINE g == [n \in 0 .. m |-> IF n = m THEN Step(kept, h, m) ELSE h[n]]
  <2>3. ASSUME NEW n \in 0 .. m PROVE g[n] = Step(kept, g, n)
    <3>1. n # 0 => n - 1 \in 0 .. m /\ n - 1 # m
      BY <1>2
    <3>2. n # 0 => g[n - 1] = h[n - 1]
      BY <3>1
    <3>3. Step(kept, g, n) = Step(kept, h, n)
      BY <3>2 DEF Step
    <3>4. CASE n = m
      BY <3>3, <3>4
    <3>5. CASE n # m
      <4>1. n \in 0 .. m - 1
        BY <1>2, <3>5
      <4>2. h[n] = Step(kept, h, n)
        BY <2>2, <4>1
      <4>3. QED
        BY <3>3, <3>5, <4>2
    <3>6. QED
      BY <3>4, <3>5
  <2>4. g = [n \in 0 .. m |-> Step(kept, g, n)]
    BY <2>3
  <2>5. QED
    BY <1>2, <2>4
<1>5. QED
  BY <1>3, <1>4

Sorted(list) == \A m, n \in 1 .. Len(list) : m < n => list[m].rank < list[n].rank

\* A list holds what the first n objects of a page hold, but for what is denied.
Leaves(kept, n, list) ==
  /\ list \in Seq(Metas)
  /\ \A i \in 1 .. Len(list) : \E m \in 1 .. n : list[i] = kept[m] /\ ~ Denied(kept[m])
  /\ \A m \in 1 .. n : ~ Denied(kept[m]) => \E i \in 1 .. Len(list) : list[i] = kept[m]
  /\ Sorted(list)

\* Shown leaves exactly what the policy lets the caller read, in the same order.
LEMMA ShownLeaves ==
  ASSUME NEW kept \in Seq(Metas), Sorted(kept)
  PROVE  Leaves(kept, Len(kept), Shown(kept))
<1> DEFINE N == Len(kept)
           shown == CHOOSE g : g = [n \in 0 .. N |-> Step(kept, g, n)]
<1>1. N \in Nat /\ \A n \in 1 .. N : kept[n] \in Metas
  OBVIOUS
<1>2. shown = [n \in 0 .. N |-> Step(kept, shown, n)]
  BY <1>1, ShownExists
<1>3. Shown(kept) = shown[N]
  BY DEF Shown, Step
<1> HIDE DEF shown
<1> DEFINE T == {n \in 0 .. N : ~ Leaves(kept, n, shown[n])}
<1>4. SUFFICES ASSUME T # {} PROVE FALSE
  BY <1>1, <1>3
<1>5. PICK n \in T : \A j \in T : n <= j
  <2>1. T \subseteq Nat
    BY <1>1
  <2>2. QED
    BY <1>4, <2>1, LeastNumber
<1>6. n \in 0 .. N /\ shown[n] = Step(kept, shown, n)
  BY <1>2, <1>5
<1>7. CASE n = 0
  <2>1. shown[n] = <<>>
    BY <1>6, <1>7 DEF Step
  <2>2. <<>> \in Seq(Metas) /\ Len(<<>>) = 0 /\ \A m \in 1 .. 0 : FALSE
    OBVIOUS
  <2>3. Leaves(kept, 0, <<>>)
    BY <2>2 DEF Leaves, Sorted
  <2>4. QED
    BY <1>5, <1>7, <2>1, <2>3
<1>8. CASE n # 0
  <2> DEFINE before == shown[n - 1]
  <2>1. n \in 1 .. N /\ n - 1 \in 0 .. N /\ ~ (n - 1 \in T)
    BY <1>1, <1>5, <1>6, <1>8
  <2>2. Leaves(kept, n - 1, before)
    BY <2>1
  <2>3. CASE Denied(kept[n])
    <3>1. shown[n] = before
      BY <1>6, <1>8, <2>3 DEF Step
    <3>2. \A m \in 1 .. n : m = n \/ m \in 1 .. n - 1
      BY <2>1
    <3>3. \A m \in 1 .. n - 1 : m \in 1 .. n
      BY <2>1
    <3>4. Leaves(kept, n, before)
      BY <2>2, <2>3, <3>2, <3>3 DEF Leaves
    <3>5. QED
      BY <1>5, <3>1, <3>4
  <2>4. CASE ~ Denied(kept[n])
    <3> DEFINE after == Append(before, kept[n])
    <3>1. shown[n] = after
      BY <1>6, <1>8, <2>4 DEF Step
    <3>2. before \in Seq(Metas) /\ kept[n] \in Metas /\ Len(before) \in Nat
      BY <1>1, <2>1, <2>2 DEF Leaves
    <3>3. /\ after \in Seq(Metas) /\ Len(after) = Len(before) + 1
          /\ \A i \in 1 .. Len(before) : after[i] = before[i]
          /\ after[Len(before) + 1] = kept[n]
      BY <3>2
    <3> HIDE DEF after, before
    <3>4. \A i \in 1 .. Len(after) : i = Len(before) + 1 \/ i \in 1 .. Len(before)
      BY <3>2, <3>3
    <3>5. \A i \in 1 .. Len(before) : i \in 1 .. Len(after)
      BY <3>2, <3>3
    <3>6. Len(before) + 1 \in 1 .. Len(after)
      BY <3>2, <3>3
    <3>7. ASSUME NEW i \in 1 .. Len(after)
          PROVE  \E m \in 1 .. n : after[i] = kept[m] /\ ~ Denied(kept[m])
      <4>1. CASE i = Len(before) + 1
        BY <1>8, <2>1, <2>4, <3>3, <4>1
      <4>2. CASE i \in 1 .. Len(before)
        <5>1. PICK m \in 1 .. n - 1 : before[i] = kept[m] /\ ~ Denied(kept[m])
          BY <2>2, <4>2 DEF Leaves
        <5>2. m \in 1 .. n
          BY <2>1
        <5>3. QED
          BY <3>3, <4>2, <5>1, <5>2
      <4>3. QED
        BY <3>4, <4>1, <4>2
    <3>8. ASSUME NEW m \in 1 .. n, ~ Denied(kept[m])
          PROVE  \E i \in 1 .. Len(after) : after[i] = kept[m]
      <4>1. CASE m = n
        BY <3>3, <3>6, <4>1
      <4>2. CASE m # n
        <5>1. m \in 1 .. n - 1
          BY <2>1, <4>2
        <5>2. PICK i \in 1 .. Len(before) : before[i] = kept[m]
          BY <2>2, <3>8, <5>1 DEF Leaves
        <5>3. QED
          BY <3>3, <3>5, <5>2
      <4>3. QED
        BY <4>1, <4>2
    <3>9. ASSUME NEW i \in 1 .. Len(after), NEW j \in 1 .. Len(after), i < j
          PROVE  after[i].rank < after[j].rank
      <4>1. i \in 1 .. Len(before)
        BY <3>2, <3>3, <3>9
      <4>2. CASE j \in 1 .. Len(before)
        BY <2>2, <3>3, <3>9, <4>1, <4>2 DEF Leaves, Sorted
      <4>3. CASE j = Len(before) + 1
        <5>1. PICK m \in 1 .. n - 1 : before[i] = kept[m] /\ ~ Denied(kept[m])
          BY <2>2, <4>1 DEF Leaves
        <5>2. m \in 1 .. N /\ m < n
          BY <1>1, <2>1
        <5>3. kept[m].rank < kept[n].rank
          BY <2>1, <5>2 DEF Sorted
        <5>4. QED
          BY <3>3, <4>1, <4>3, <5>1, <5>3
      <4>4. QED
        BY <3>4, <4>2, <4>3
    <3>10. Leaves(kept, n, after)
      BY <3>3, <3>7, <3>8, <3>9 DEF Leaves, Sorted
    <3>11. QED
      BY <1>5, <3>1, <3>10
  <2>5. QED
    BY <2>3, <2>4
<1>9. QED
  BY <1>7, <1>8
(***************************************************************************)
(* The inductive invariant.                                                *)
(***************************************************************************)
Listing == phase \in {"paging", "walking", "heading"}

Holds(list, key) == \E n \in 1 .. Len(list) : list[n].rank = Rank(key)

PlanInv == plan \in {list_scope(policy, scope) : scope \in Scopes}

PhaseInv ==
  /\ phase \in {"paging", "done", "failed"} => page = NoPage
  /\ phase = "walking" => backend = "filesystem" /\ page.kept = <<>>
  /\ phase = "failed" => entries = <<>>
  /\ backend = "filesystem" => ~ page.truncated

\* Objects a page may be made of: behind the cursor, in scope, in order, and
\* those the caller could always read with a team that lets it read them.
PageOf(kept) ==
  /\ Sorted(kept)
  /\ \A n \in 1 .. Len(kept) :
       /\ cursor < kept[n].rank
       /\ Order[kept[n].rank] \in Keys /\ InScope(Order[kept[n].rank])
       /\ Order[kept[n].rank] \in always => MayList(Order[kept[n].rank], kept[n].team)

\* What is still to be looked at comes after everything looked at so far.
FoundInv ==
  \A i \in page.found :
    /\ cursor < i
    /\ Order[i] \in Keys => InScope(Order[i])
    /\ backend = "filesystem" => Order[i] \in Keys
    /\ \A n \in 1 .. Len(page.kept) : page.kept[n].rank < i

\* The S3 cursor is at or behind every object of the page, before every name
\* not looked at, and somewhere as soon as more is said to follow.
LastSeenInv ==
  backend = "s3" /\ phase = "heading" =>
    /\ \A n \in 1 .. Len(page.kept) : page.kept[n].rank <= page.last
    /\ \A i \in page.found : page.last < i
    /\ page.last = NoCursor \/ cursor < page.last
    /\ page.truncated => page.last # NoCursor \/ page.found # {}

EntriesInv ==
  /\ Sorted(entries)
  /\ \A n \in 1 .. Len(entries) :
       /\ Order[entries[n].rank] \in Keys /\ InScope(Order[entries[n].rank])
       /\ MayList(Order[entries[n].rank], entries[n].team)
       /\ Listing => entries[n].rank <= cursor

\* Where an object the caller could always read is on its way to the answer.
CoverInv ==
  \A key \in always :
    /\ Readable(key) /\ InScope(key)
    /\ Listing /\ Rank(key) <= cursor => Holds(entries, key)
    /\ phase = "done" => Holds(entries, key)
    /\ phase = "walking" /\ cursor < Rank(key) =>
         key.owner \in page.owners \/ Rank(key) \in page.found
    /\ phase = "heading" /\ cursor < Rank(key) =>
         \/ Rank(key) \in page.found
         \/ Holds(page.kept, key)
         \/ /\ page.truncated /\ page.last < Rank(key)
            /\ \A i \in page.found : i < Rank(key)

ListingInv ==
  /\ TypeOK /\ PlanInv /\ PhaseInv /\ PageOf(page.kept)
  /\ FoundInv /\ LastSeenInv /\ EntriesInv /\ CoverInv

\* The bucket is finite, and its ranks begin at one.
LEMMA RankNumbers ==
  /\ Len(Order) \in Nat /\ 0 \in 0 .. Len(Order)
  /\ IsFiniteSet(Ranks) /\ Ranks \subseteq Nat
  /\ \A i \in Ranks : 0 < i /\ i \in 0 .. Len(Order)
  /\ \A i \in Ranks : Order[i] \in Keys \/ Order[i] \in Strays
<1>1. Len(Order) \in Nat
  BY ListingAssumption
<1>2. IsFiniteSet(Ranks)
  BY <1>1, FS_Interval DEF Ranks
<1>3. \A i \in Ranks : Order[i] \in Keys \cup Strays
  BY ListingAssumption DEF Ranks
<1>4. QED
  BY <1>1, <1>2, <1>3 DEF Ranks

\* A key of the service has one rank in the order of the bucket.
LEMMA RankOfKey ==
  ASSUME NEW key \in Keys
  PROVE  /\ Rank(key) \in Ranks /\ Order[Rank(key)] = key
         /\ \A i \in Ranks : Order[i] = key => i = Rank(key)
<1>1. \E i \in Ranks : Order[i] = key
  BY ListingAssumption DEF Ranks
<1>2. Rank(key) \in Ranks /\ Order[Rank(key)] = key
  BY <1>1 DEF Rank
<1>3. QED
  BY <1>2, ListingAssumption DEF Ranks

\* The attributes of a name under the service's keys are an entry of a page.
LEMMA MetaType ==
  ASSUME TypeOK, NEW i \in Ranks, Order[i] \in Keys
  PROVE  Meta(i) \in Metas /\ Meta(i).rank = i /\ Meta(i).team = objects[Order[i]].team
<1>1. objects[Order[i]] \in [body : Docs, team : CutTeams] \cup {Absent}
  BY DEF TypeOK
<1>2. objects[Order[i]].team \in CutTeams
  BY <1>1 DEF Absent, CutTeams
<1>3. QED
  BY <1>2 DEF Meta, Metas

\* Where the policy need not decide each entry, the prefix or the policy has
\* decided them all (list.rs list_scope).
LEMMA PrefixDecides ==
  ASSUME TypeOK, PlanInv, ~ plan.authorize_each, NEW key, InScope(key), NEW team
  PROVE  MayList(key, team)
<1>1. PICK scope \in Scopes : plan = list_scope(policy, scope)
  BY DEF PlanInv
<1>2. scope = "Mine" \/ policy.rule # "TeamScoped"
  BY <1>1 DEF list_scope, Scopes
<1>3. CASE scope = "Mine"
  <2>1. plan.mine
    BY <1>1, <1>3 DEF list_scope
  <2>2. QED
    BY <2>1 DEF InScope, MayList, MayRead
<1>4. CASE policy.rule # "TeamScoped"
  BY <1>4 DEF MayList, MayRead
<1>5. QED
  BY <1>2, <1>3, <1>4

\* The team recorded on an object is a sequence, whatever is cut off it.
LEMMA StoredTeamType ==
  ASSUME NEW doc \in Docs, NEW team \in RecordedTeams
  PROVE  StoredTeam(doc, team) \in CutTeams
<1> DEFINE room == AttrRoom[doc] - TeamNameBytes
<1>1. room \in Int
  BY CoreAssumption DEF TeamNameBytes
<1>2. CASE team = NoTeam \/ room <= 0
  BY <1>2 DEF StoredTeam, CutTeams
<1>3. CASE ~ (team = NoTeam \/ room <= 0)
  <2>1. team \in Seq(Nat)
    BY <1>3, CoreAssumption DEF RecordedTeams
  <2>2. CASE Len(team) <= room
    BY <1>3, <2>1, <2>2 DEF StoredTeam, CutTeams
  <2>3. CASE ~ (Len(team) <= room)
    <3>1. Len(team) \in Nat /\ \A i \in 1 .. room : team[i] \in Nat
      BY <1>1, <2>1, <2>3
    <3>2. SubSeq(team, 1, room) \in Seq(Nat)
      BY <1>1, <3>1, SubSeqProperties
    <3>3. QED
      BY <1>3, <2>3, <3>2 DEF StoredTeam, CutTeams
  <2>4. QED
    BY <2>2, <2>3
<1>4. QED
  BY <1>2, <1>3

\* Between two pages nothing is kept of the last one.
LEMMA NoPageType ==
  /\ NoPage \in Pages /\ Len(NoPage.kept) = 0
  /\ NoPage.owners = {} /\ NoPage.found = {} /\ NoPage.kept = <<>>
  /\ NoPage.last = 0 /\ NoPage.truncated = FALSE
BY RankNumbers DEF NoPage, Pages

(***************************************************************************)
(* A page is answered.                                                     *)
(***************************************************************************)
\* http.rs adds what a page shows, and goes on from its cursor or is done.
LEMMA AnswerKeepsInv ==
  ASSUME ListingInv, Listing, NEW kept \in Seq(Metas), PageOf(kept),
         NEW next \in 0 .. Len(Order),
         next # NoCursor =>
           cursor < next /\ \A n \in 1 .. Len(kept) : kept[n].rank <= next,
         \A key \in always : cursor < Rank(key) /\ (next = NoCursor \/ Rank(key) <= next)
                               => Holds(kept, key),
         Answer(kept, next)
  PROVE  ListingInv'
<1> DEFINE shown == Shown(kept)
           K == Len(entries)
           S == Len(shown)
<1> USE DEF ListingInv
<1>1. /\ entries' = entries \o shown
      /\ phase' = IF next = NoCursor THEN "done" ELSE "paging"
      /\ cursor' = next /\ page' = NoPage
      /\ policy' = policy /\ plan' = plan /\ backend' = backend
      /\ objects' = objects /\ always' = always
  BY DEF Answer, asked
<1>2. Leaves(kept, Len(kept), shown)
  BY ShownLeaves DEF PageOf
<1> HIDE DEF shown
<1>3. /\ entries \in Seq(Metas) /\ shown \in Seq(Metas) /\ entries' \in Seq(Metas)
      /\ K \in Nat /\ S \in Nat /\ Len(entries') = K + S
      /\ \A i \in 1 .. K : entries'[i] = entries[i]
      /\ \A i \in 1 .. S : entries'[K + i] = shown[i]
  <2>1. entries \in Seq(Metas) /\ shown \in Seq(Metas)
    BY <1>2 DEF TypeOK, Leaves
  <2>2. QED
    BY <1>1, <2>1
<1>4. \A i \in 1 .. K + S : i \in 1 .. K \/ (i - K \in 1 .. S /\ i = K + (i - K))
  BY <1>3
<1>5. \A i \in 1 .. K : i \in 1 .. K + S
  BY <1>3
<1>6. \A i \in 1 .. S : K + i \in 1 .. K + S
  BY <1>3
<1>7. (\A i \in 1 .. K : entries[i].rank \in Nat) /\ (\A i \in 1 .. S : shown[i].rank \in Nat)
  <2>1. \A meta \in Metas : meta.rank \in Nat
    BY DEF Metas, Ranks
  <2>2. (\A i \in 1 .. K : entries[i] \in Metas) /\ (\A i \in 1 .. S : shown[i] \in Metas)
    BY <1>3
  <2>3. QED
    BY <2>1, <2>2
<1>8. ASSUME NEW i \in 1 .. S
      PROVE  \E m \in 1 .. Len(kept) : shown[i] = kept[m] /\ ~ Denied(kept[m])
  BY <1>2 DEF Leaves
<1>9. TypeOK'
  <2>1. phase' \in {"paging", "done"}
    BY <1>1
  <2>2. page' = NoPage /\ PageSize \in Nat
    BY <1>1, ListingAssumption
  <2>3. cursor' \in 0 .. Len(Order)
    BY <1>1
  <2>4. page' \in Pages /\ Len(page'.kept) <= PageSize + 1
    BY <2>2, NoPageType
  <2>5. QED
    BY <1>1, <1>3, <2>1, <2>3, <2>4 DEF TypeOK
<1>10. PlanInv' /\ PhaseInv'
  BY <1>1, NoPageType DEF PlanInv, PhaseInv
<1>11. (PageOf(page.kept))' /\ FoundInv' /\ LastSeenInv'
  <2>1. page'.found = {} /\ page'.kept = <<>> /\ Len(page'.kept) = 0
    BY <1>1, NoPageType
  <2>2. phase' # "heading"
    BY <1>1
  <2>3. QED
    BY <2>1, <2>2 DEF PageOf, Sorted, FoundInv, LastSeenInv
<1>12. EntriesInv'
  <2>1. ASSUME NEW i \in 1 .. S
        PROVE  /\ cursor < shown[i].rank
               /\ Order[shown[i].rank] \in Keys /\ InScope(Order[shown[i].rank])
               /\ MayList(Order[shown[i].rank], shown[i].team)
               /\ next # NoCursor => shown[i].rank <= next
    <3>1. PICK m \in 1 .. Len(kept) : shown[i] = kept[m] /\ ~ Denied(kept[m])
      BY <1>8
    <3>2. /\ cursor < kept[m].rank
          /\ Order[kept[m].rank] \in Keys /\ InScope(Order[kept[m].rank])
      BY DEF PageOf
    <3>3. MayList(Order[kept[m].rank], kept[m].team)
      <4>1. CASE plan.authorize_each
        BY <3>1, <4>1 DEF Denied
      <4>2. CASE ~ plan.authorize_each
        BY <3>2, <4>2, PrefixDecides
      <4>3. QED
        BY <4>1, <4>2
    <3>4. QED
      BY <3>1, <3>2, <3>3
  <2>2. ASSUME NEW i \in 1 .. K + S
        PROVE  /\ Order[entries'[i].rank] \in Keys /\ InScope(Order[entries'[i].rank])
               /\ MayList(Order[entries'[i].rank], entries'[i].team)
    <3>1. CASE i \in 1 .. K
      BY <1>3, <3>1 DEF EntriesInv
    <3>2. CASE i - K \in 1 .. S /\ i = K + (i - K)
      <4>1. entries'[i] = shown[i - K]
        BY <1>3, <3>2
      <4>2. QED
        BY <2>1, <3>2, <4>1
    <3>3. QED
      BY <1>4, <3>1, <3>2
  <2>3. ASSUME NEW i \in 1 .. K + S, next # NoCursor
        PROVE  entries'[i].rank <= next
    <3>1. CASE i \in 1 .. K
      <4>1. entries'[i] = entries[i] /\ entries[i].rank <= cursor
        BY <1>3, <3>1 DEF EntriesInv
      <4>2. entries[i].rank \in Nat /\ cursor \in Nat /\ next \in Nat
        BY <3>1, <1>7 DEF TypeOK
      <4>3. QED
        BY <2>3, <4>1, <4>2
    <3>2. CASE i - K \in 1 .. S /\ i = K + (i - K)
      <4>1. entries'[i] = shown[i - K]
        BY <1>3, <3>2
      <4>2. QED
        BY <2>1, <2>3, <3>2, <4>1
    <3>3. QED
      BY <1>4, <3>1, <3>2
  <2>4. ASSUME NEW i \in 1 .. K + S, NEW j \in 1 .. K + S, i < j
        PROVE  entries'[i].rank < entries'[j].rank
    <3>1. CASE i \in 1 .. K /\ j \in 1 .. K
      BY <1>3, <2>4, <3>1 DEF EntriesInv, Sorted
    <3>2. CASE i \in 1 .. K /\ j - K \in 1 .. S /\ j = K + (j - K)
      <4>1. entries'[i] = entries[i] /\ entries'[j] = shown[j - K]
        BY <1>3, <3>2
      <4> DEFINE low  == entries[i].rank
                 high == shown[j - K].rank
      <4>2. low <= cursor /\ cursor < high
        BY <2>1, <3>2 DEF EntriesInv
      <4>3. low \in Nat /\ cursor \in Nat /\ high \in Nat
        BY <3>2, <1>7 DEF TypeOK
      <4> HIDE DEF low, high
      <4>4. low < high
        BY <4>2, <4>3
      <4>5. QED
        BY <4>1, <4>4 DEF low, high
    <3>3. CASE i - K \in 1 .. S /\ i = K + (i - K) /\ j - K \in 1 .. S /\ j = K + (j - K)
      <4>1. entries'[i] = shown[i - K] /\ entries'[j] = shown[j - K]
        BY <1>3, <3>3
      <4>2. i - K < j - K
        BY <1>3, <2>4
      <4>3. shown[i - K].rank < shown[j - K].rank
        BY <1>2, <3>3, <4>2 DEF Leaves, Sorted
      <4>4. QED
        BY <4>1, <4>3
    <3>4. i \in 1 .. K \/ j - K \in 1 .. S
      BY <1>3, <2>4
    <3>5. QED
      BY <1>3, <1>4, <2>4, <3>1, <3>2, <3>3, <3>4
  <2>5. Listing' => next # NoCursor
    BY <1>1 DEF Listing
  <2> HIDE DEF K, S
  <2>6. Sorted(entries)'
    BY <1>3, <2>4 DEF Sorted
  <2>7. (\A i \in 1 .. Len(entries) :
           /\ Order[entries[i].rank] \in Keys /\ InScope(Order[entries[i].rank])
           /\ MayList(Order[entries[i].rank], entries[i].team))'
    BY <1>1, <1>3, <2>2 DEF InScope, MayList
  <2>8. (\A i \in 1 .. Len(entries) : Listing => entries[i].rank <= cursor)'
    BY <1>1, <1>3, <2>3, <2>5
  <2>9. QED
    BY <2>6, <2>7, <2>8 DEF EntriesInv
<1>13. CoverInv'
  <2>1. ASSUME NEW key \in always, next = NoCursor \/ Rank(key) <= next
        PROVE  Holds(entries', key)
    <3>1. key \in Keys /\ Rank(key) \in Ranks /\ Order[Rank(key)] = key /\ cursor \in Nat
      BY RankOfKey DEF TypeOK
    <3>2. CASE Rank(key) <= cursor
      <4>1. PICK n \in 1 .. K : entries[n].rank = Rank(key)
        BY <3>2 DEF CoverInv, Holds
      <4>2. QED
        BY <1>3, <1>5, <4>1 DEF Holds
    <3>3. CASE cursor < Rank(key)
      <4>1. PICK m \in 1 .. Len(kept) : kept[m].rank = Rank(key)
        BY <2>1, <3>3 DEF Holds
      <4>2. MayList(key, kept[m].team)
        BY <3>1, <4>1 DEF PageOf
      <4>3. ~ Denied(kept[m])
        BY <3>1, <4>1, <4>2 DEF Denied
      <4>4. PICK i \in 1 .. S : shown[i] = kept[m]
        BY <1>2, <4>3 DEF Leaves
      <4>5. QED
        BY <1>3, <1>6, <4>1, <4>4 DEF Holds
    <3>4. QED
      BY <3>1, <3>2, <3>3 DEF Ranks
  <2>2. \A key \in always : Readable(key)' /\ InScope(key)'
    BY <1>1 DEF CoverInv, Readable, InScope, MayList
  <2>3. phase' # "walking" /\ phase' # "heading" /\ (phase' = "done" => next = NoCursor)
    BY <1>1
  <2>4. QED
    BY <1>1, <2>1, <2>2, <2>3 DEF CoverInv, Holds, Rank
<1>14. QED
  BY <1>9, <1>10, <1>11, <1>12, <1>13

\* The same for a page that the in-memory and filesystem stores cut at the limit.
LEMMA TruncatedKeepsInv ==
  ASSUME ListingInv, Listing, NEW kept \in Seq(Metas), PageOf(kept),
         \A key \in always : cursor < Rank(key) =>
            \/ Holds(kept, key)
            \/ /\ PageSize < Len(kept)
               /\ \A n \in 1 .. Len(kept) : kept[n].rank < Rank(key),
         Truncated(kept)
  PROVE  ListingInv'
<1>1. /\ Len(kept) \in Nat /\ PageSize \in Nat /\ 0 < PageSize
      /\ \A n \in 1 .. Len(kept) : kept[n] \in Metas
  BY ListingAssumption
<1>2. CASE Len(kept) <= PageSize
  <2>1. Answer(kept, NoCursor)
    BY <1>1, <1>2 DEF Truncated
  <2>2. \A key \in always : cursor < Rank(key) => Holds(kept, key)
    BY <1>1, <1>2
  <2>3. NoCursor \in 0 .. Len(Order)
    BY RankNumbers DEF NoCursor
  <2>4. QED
    BY <2>1, <2>2, <2>3, AnswerKeepsInv
<1>3. CASE PageSize < Len(kept)
  <2> DEFINE first == SubSeq(kept, 1, PageSize)
             next  == kept[PageSize].rank
  <2>1. Answer(first, next)
    BY <1>1, <1>3 DEF Truncated
  <2>2. PageSize \in 1 .. Len(kept) /\ \A n \in 1 .. PageSize : n \in 1 .. Len(kept)
    BY <1>1, <1>3
  <2>3. /\ first \in Seq(Metas) /\ Len(first) = PageSize
        /\ \A n \in 1 .. PageSize : first[n] = kept[n]
    <3>1. \A n \in 1 .. PageSize : kept[n] \in Metas
      BY <1>1, <2>2
    <3>2. 1 <= PageSize /\ PageSize - 1 + 1 = PageSize
      BY <1>1
    <3>3. /\ first \in Seq(Metas)
          /\ Len(first) = IF 1 <= PageSize THEN PageSize - 1 + 1 ELSE 0
          /\ \A n \in 1 .. PageSize - 1 + 1 : first[n] = kept[1 + n - 1]
      BY <1>1, <3>1, SubSeqProperties
    <3>4. \A n \in 1 .. PageSize : 1 + n - 1 = n
      OBVIOUS
    <3>5. QED
      BY <3>2, <3>3, <3>4
  <2>4. next \in Ranks /\ next \in Nat /\ 0 < next
    <3>1. next \in Ranks
      BY <1>1, <2>2 DEF Metas
    <3> HIDE DEF next
    <3>2. QED
      BY <3>1, RankNumbers
  <2> HIDE DEF first
  <2>5. PageOf(first)
    BY <2>2, <2>3 DEF PageOf, Sorted
  <2>6. \A n \in 1 .. Len(kept) : kept[n].rank \in Nat /\ (n < PageSize => kept[n].rank < next)
                                                /\ (PageSize < n => next < kept[n].rank)
    <3>1. \A n \in 1 .. Len(kept) : kept[n].rank \in Nat
      BY <1>1, RankNumbers DEF Metas
    <3>2. QED
      BY <2>2, <3>1 DEF PageOf, Sorted
  <2>7. cursor < next /\ \A n \in 1 .. Len(first) : first[n].rank <= next
    <3>1. cursor < next
      BY <2>2 DEF PageOf
    <3>2. ASSUME NEW n \in 1 .. PageSize PROVE kept[n].rank <= next
      <4>1. n < PageSize \/ n = PageSize
        BY <1>1
      <4>2. QED
        BY <2>2, <2>6, <4>1
    <3>3. QED
      BY <2>3, <3>1, <3>2
  <2>8. ASSUME NEW key \in always, cursor < Rank(key), next = NoCursor \/ Rank(key) <= next
        PROVE  Holds(first, key)
    <3>1. next # NoCursor /\ Rank(key) \in Nat /\ next \in Nat
      <4>1. key \in Keys
        BY DEF ListingInv, TypeOK
      <4>2. Rank(key) \in Ranks
        BY <4>1, RankOfKey
      <4> HIDE DEF next
      <4>3. Rank(key) \in Nat
        BY <4>2, RankNumbers
      <4>4. QED
        BY <2>4, <4>3 DEF NoCursor
    <3>2. Rank(key) <= next /\ ~ (next < Rank(key))
      BY <2>8, <3>1
    <3>3. PICK n \in 1 .. Len(kept) : kept[n].rank = Rank(key)
      BY <2>2, <2>8, <3>2 DEF Holds
    <3>4. n \in 1 .. PageSize
      BY <1>1, <2>6, <3>2, <3>3
    <3>5. QED
      BY <2>3, <3>3, <3>4 DEF Holds
  <2>9. next \in 0 .. Len(Order)
    BY <2>4, RankNumbers
  <2> HIDE DEF next
  <2>10. QED
    BY <2>1, <2>3, <2>5, <2>7, <2>8, <2>9, AnswerKeepsInv
<1>4. QED
  BY <1>1, <1>2, <1>3

(***************************************************************************)
(* The steps of the listing.                                               *)
(***************************************************************************)
\* What the store offers after the cursor, and that it offers every object
\* the caller could always read.
LEMMA WhatMatches ==
  ASSUME ListingInv
  PROVE  /\ MatchingKeys \subseteq Matching /\ Matching \subseteq Ranks
         /\ IsFiniteSet(Matching) /\ IsFiniteSet(MatchingKeys)
         /\ \A i \in Matching : cursor < i /\ (Order[i] \in Keys => InScope(Order[i]))
         /\ \A i \in MatchingKeys : Order[i] \in Keys /\ objects[Order[i]] # Absent
         /\ \A key \in always : cursor < Rank(key) => Rank(key) \in MatchingKeys
<1>1. MatchingKeys \subseteq Matching /\ Matching \subseteq Ranks
  BY DEF MatchingKeys, Matching
<1>2. IsFiniteSet(Matching) /\ IsFiniteSet(MatchingKeys)
  BY <1>1, RankNumbers, FS_Subset
<1>3. \A i \in Matching : cursor < i /\ (Order[i] \in Keys => InScope(Order[i]))
  BY ListingAssumption DEF Matching
<1>4. \A i \in MatchingKeys : Order[i] \in Keys /\ objects[Order[i]] # Absent
  BY ListingAssumption DEF MatchingKeys, Matching
<1>5. ASSUME NEW key \in always, cursor < Rank(key) PROVE Rank(key) \in MatchingKeys
  <2>1. key \in Keys /\ key \notin Strays
    BY ListingAssumption DEF ListingInv, TypeOK
  <2>2. Rank(key) \in Ranks /\ Order[Rank(key)] = key
    BY <2>1, RankOfKey
  <2>3. objects[key] # Absent /\ InScope(key)
    BY DEF ListingInv, CoverInv, Readable
  <2>4. QED
    BY <1>5, <2>1, <2>2, <2>3 DEF MatchingKeys, Matching
<1>6. QED
  BY <1>1, <1>2, <1>3, <1>4, <1>5

\* A name whose object was there when it was looked at is an entry of the page.
LEMMA LookedAt ==
  ASSUME ListingInv, NEW i \in Ranks, Order[i] \in Keys
  PROVE  Order[i] \in always => MayList(Order[i], Meta(i).team)
BY MetaType DEF ListingInv, CoverInv, Readable

\* The in-memory store answers a page under one lock.
LEMMA MemoryPageKeepsInv ==
  ASSUME ListingInv, MemoryPage
  PROVE  ListingInv'
<1> DEFINE S     == FirstOf(MatchingKeys, PageSize + 1)
           first == InOrder(S)
           kept  == [n \in DOMAIN first |-> Meta(first[n])]
           N     == Cardinality(S)
<1>1. /\ IsFiniteSet(MatchingKeys) /\ MatchingKeys \subseteq Nat /\ MatchingKeys \subseteq Ranks
      /\ PageSize + 1 \in Nat
  <2>1. PageSize + 1 \in Nat
    BY ListingAssumption
  <2>2. IsFiniteSet(MatchingKeys) /\ MatchingKeys \subseteq Ranks
    BY WhatMatches
  <2>3. Ranks \subseteq Nat
    BY RankNumbers
  <2>4. QED
    BY <2>1, <2>2, <2>3
<1>2. /\ S \subseteq MatchingKeys /\ IsFiniteSet(S)
      /\ \A i \in S, k \in MatchingKeys \ S : i < k
      /\ N < PageSize + 1 => S = MatchingKeys
  BY <1>1, FirstOfProperties
<1>3. /\ N \in Nat /\ first \in [1 .. N -> S]
      /\ \A m, n \in 1 .. N : m < n => first[m] < first[n]
      /\ \A i \in S : \E n \in 1 .. N : first[n] = i
  <2> HIDE DEF S
  <2>1. S \subseteq Nat
    BY <1>1, <1>2
  <2>2. QED
    BY <1>2, <2>1, InOrderProperties
<1>4. Truncated(kept) /\ Listing
  BY DEF MemoryPage, Listing
<1> HIDE DEF S, first, N
<1>5. \A n \in 1 .. N : /\ first[n] \in Ranks /\ first[n] \in Matching
                        /\ Order[first[n]] \in Keys /\ first[n] \in S
  BY <1>1, <1>2, <1>3, WhatMatches
<1>6. ASSUME NEW n \in 1 .. N
      PROVE  /\ kept[n] \in Metas /\ kept[n].rank = first[n]
             /\ Order[first[n]] \in always => MayList(Order[first[n]], kept[n].team)
  <2>1. kept[n] = Meta(first[n])
    BY <1>3
  <2>2. QED
    BY <1>5, <2>1, MetaType, LookedAt DEF ListingInv
<1>7. kept \in Seq(Metas) /\ Len(kept) = N
  <2>1. kept \in [1 .. N -> Metas]
    BY <1>3, <1>6
  <2>2. QED
    BY <1>3, <2>1
<1> HIDE DEF kept
<1>8. PageOf(kept)
  <2>1. Sorted(kept)
    BY <1>3, <1>6, <1>7 DEF Sorted
  <2>2. QED
    BY <1>5, <1>6, <1>7, <2>1, WhatMatches DEF PageOf
<1>9. ASSUME NEW key \in always, cursor < Rank(key)
      PROVE  \/ Holds(kept, key)
             \/ /\ PageSize < Len(kept)
                /\ \A n \in 1 .. Len(kept) : kept[n].rank < Rank(key)
  <2>1. Rank(key) \in MatchingKeys
    BY <1>9, WhatMatches
  <2>2. CASE Rank(key) \in S
    BY <1>3, <1>6, <1>7, <2>2 DEF Holds
  <2>3. CASE Rank(key) \notin S
    <3>1. \A n \in 1 .. N : first[n] < Rank(key)
      BY <1>2, <1>5, <2>1, <2>3
    <3>2. ~ (N < PageSize + 1)
      BY <1>2, <2>1, <2>3
    <3>3. PageSize < N
      BY <1>3, <3>2, ListingAssumption
    <3>4. QED
      BY <1>6, <1>7, <3>1, <3>3
  <2>4. QED
    BY <2>2, <2>3
<1>10. QED
  BY <1>4, <1>7, <1>8, <1>9, TruncatedKeepsInv

\* The filesystem sets out with every owner still to walk.
LEMMA StartWalkKeepsInv ==
  ASSUME ListingInv, StartWalk
  PROVE  ListingInv'
<1> USE DEF ListingInv
<1>1. /\ page'.owners = Principals /\ page'.found = {} /\ page'.kept = <<>>
      /\ page'.last = 0 /\ page'.truncated = FALSE /\ Len(page'.kept) = 0
      /\ page' \in Pages
  <2>1. page' = [NoPage EXCEPT !.owners = Principals]
    BY DEF StartWalk
  <2>2. page' = [owners |-> Principals, found |-> {}, kept |-> <<>>, last |-> 0, truncated |-> FALSE]
    BY <2>1 DEF NoPage
  <2>3. QED
    BY <2>2, RankNumbers DEF Pages
<1>2. /\ phase = "paging" /\ phase' = "walking" /\ backend = "filesystem"
      /\ UNCHANGED <<asked, objects, cursor, entries, always>>
  BY DEF StartWalk
<1>3. TypeOK'
  <2>1. Len(page'.kept) <= PageSize + 1
    BY <1>1, ListingAssumption
  <2>2. QED
    BY <1>1, <1>2, <2>1 DEF TypeOK, asked
<1>4. PlanInv' /\ PhaseInv' /\ (PageOf(page.kept))' /\ FoundInv' /\ LastSeenInv'
  BY <1>1, <1>2 DEF PlanInv, PhaseInv, PageOf, Sorted, FoundInv, LastSeenInv, asked
<1>5. EntriesInv'
  BY <1>2 DEF EntriesInv, Sorted, Listing, InScope, MayList, asked
<1>6. CoverInv'
  <2>1. \A key \in always : key.owner \in page'.owners
    BY <1>1 DEF TypeOK, Keys
  <2>2. QED
    BY <1>2, <2>1 DEF CoverInv, Listing, Holds, Readable, InScope, MayList, asked
<1>7. QED
  BY <1>3, <1>4, <1>5, <1>6

\* One owner's directory is read: its keys are found from now on.
LEMMA WalkOwnerKeepsInv ==
  ASSUME ListingInv, WalkOwner
  PROVE  ListingInv'
<1> USE DEF ListingInv
<1>1. PICK owner \in page.owners :
        page' = [page EXCEPT !.owners = @ \ {owner},
                             !.found = @ \cup {i \in MatchingKeys : Order[i].owner = owner}]
  BY DEF WalkOwner
<1> DEFINE new == {i \in MatchingKeys : Order[i].owner = owner}
<1>2. /\ phase = "walking" /\ phase' = IF page'.owners = {} THEN "heading" ELSE "walking"
      /\ UNCHANGED <<asked, objects, cursor, entries, always>>
      /\ backend = "filesystem" /\ page.kept = <<>>
  BY DEF WalkOwner, PhaseInv
<1>3. \A i \in new : i \in Ranks /\ i \in MatchingKeys /\ i \in Matching /\ Order[i] \in Keys
  BY WhatMatches
<1>4. /\ page' \in Pages /\ page'.owners = page.owners \ {owner} /\ page'.found = page.found \cup new
      /\ page'.kept = <<>> /\ page'.last = page.last /\ page'.truncated = page.truncated
      /\ Len(page'.kept) = 0
  <2>1. page \in Pages
    BY DEF TypeOK
  <2>2. QED
    BY <1>1, <1>2, <1>3, <2>1 DEF Pages
<1>5. TypeOK'
  BY <1>2, <1>3, <1>4, ListingAssumption DEF TypeOK, asked
<1>6. PlanInv' /\ PhaseInv' /\ (PageOf(page.kept))' /\ LastSeenInv'
  BY <1>2, <1>4 DEF PlanInv, PhaseInv, PageOf, Sorted, LastSeenInv, asked
<1>7. FoundInv'
  BY <1>2, <1>3, <1>4, WhatMatches DEF FoundInv, InScope, asked
<1>8. EntriesInv'
  BY <1>2 DEF EntriesInv, Sorted, Listing, InScope, MayList, asked
<1>9. CoverInv'
  <2>1. ASSUME NEW key \in always, cursor < Rank(key)
        PROVE  key.owner \in page'.owners \/ Rank(key) \in page'.found
    <3>1. key.owner \in page.owners \/ Rank(key) \in page.found
      BY <1>2, <2>1 DEF CoverInv
    <3>2. Rank(key) \in MatchingKeys /\ Order[Rank(key)] = key
      BY <2>1, WhatMatches, RankOfKey DEF TypeOK
    <3>3. QED
      BY <1>4, <3>1, <3>2
  <2>2. ASSUME NEW key \in always, cursor < Rank(key), phase' = "heading"
        PROVE  Rank(key) \in page'.found
    BY <1>2, <2>1, <2>2
  <2>3. \A key \in always : Readable(key)' /\ InScope(key)'
    BY <1>2 DEF CoverInv, Readable, InScope, MayList, asked
  <2>4. Listing /\ phase' # "done"
    BY <1>2 DEF Listing
  <2>5. QED
    BY <1>2, <2>1, <2>2, <2>3, <2>4 DEF CoverInv, Holds, Rank
<1>10. QED
  BY <1>5, <1>6, <1>7, <1>8, <1>9

\* The next name is looked at: taken off what was found, and added to the page
\* unless its object is gone, as in ReadNextSidecar and HeadNext.
LEMMA LookKeepsInv ==
  ASSUME ListingInv, phase = "heading", page.found # {}, NEW last \in 0 .. Len(Order),
         Len(page.kept) <= PageSize,
         NEW i, i = Least(page.found), backend = "s3" => last = i,
         backend # "s3" => last = page.last,
         NEW kept, NEW meta, Order[i] \in always => kept # page.kept,
         kept = page.kept \/ (kept = Append(page.kept, meta) /\ Order[i] \in Keys),
         Order[i] \in Keys => meta \in Metas /\ meta.rank = i,
         Order[i] \in always' => MayList(Order[i], meta.team),
         page' = [page EXCEPT !.found = @ \ {i}, !.last = last, !.kept = kept],
         always' \subseteq always,
         UNCHANGED <<asked, objects, phase, cursor, entries>>
  PROVE  ListingInv'
<1> USE DEF ListingInv
<1> DEFINE K == Len(page.kept)
<1>1. i \in page.found /\ i \in Ranks /\ \A j \in page.found : i <= j
  <2>1. page.found \subseteq Nat /\ page.found \subseteq Ranks
    BY RankNumbers DEF TypeOK, Pages
  <2>2. QED
    BY <2>1, LeastIsLeast
<1>2. /\ kept = page.kept \/ (kept = Append(page.kept, meta) /\ Order[i] \in Keys)
      /\ Order[i] \in always => kept # page.kept
      /\ backend = "s3" => last = i
      /\ backend # "s3" => last = page.last
      /\ always' \subseteq always
      /\ UNCHANGED <<asked, objects, phase, cursor, entries>>
      /\ phase = "heading" /\ Len(page.kept) <= PageSize
  OBVIOUS
<1>3. /\ page' = [owners |-> page.owners, found |-> page.found \ {i}, kept |-> kept,
                  last |-> last, truncated |-> page.truncated]
      /\ page'.owners = page.owners /\ page'.found = page.found \ {i}
      /\ page'.kept = kept /\ page'.last = last /\ page'.truncated = page.truncated
  <2>1. page \in Pages
    BY DEF TypeOK
  <2>2. QED
    BY <2>1 DEF Pages
<1>4. Order[i] \in Keys => meta \in Metas /\ meta.rank = i /\ InScope(Order[i])
                             /\ (Order[i] \in always' => MayList(Order[i], meta.team))
  BY <1>1 DEF FoundInv
<1>5. /\ kept \in Seq(Metas) /\ K \in Nat /\ page.kept \in Seq(Metas)
      /\ \A n \in 1 .. K : n \in 1 .. Len(kept) /\ kept[n] = page.kept[n]
      /\ \A n \in 1 .. Len(kept) :
           n \in 1 .. K \/ (n = K + 1 /\ kept[n] = meta /\ Order[i] \in Keys)
      /\ Len(kept) <= K + 1
      /\ kept # page.kept => K + 1 \in 1 .. Len(kept) /\ kept[K + 1].rank = i
  <2>1. page.kept \in Seq(Metas) /\ K \in Nat
    BY DEF TypeOK, Pages
  <2>2. CASE kept = page.kept
    BY <2>1, <2>2
  <2>3. CASE kept = Append(page.kept, meta) /\ Order[i] \in Keys
    BY <1>4, <2>1, <2>3
  <2>4. QED
    BY <1>2, <2>2, <2>3
<1> HIDE DEF K
<1>6. \A n \in 1 .. K : page.kept[n].rank < i /\ page.kept[n].rank \in Nat
  <2>1. \A n \in 1 .. K : page.kept[n] \in Metas
    BY <1>5 DEF K
  <2>2. QED
    BY <1>1, <2>1, RankNumbers DEF FoundInv, K, Metas
<1>7. i \in Nat /\ 0 < i /\ cursor < i /\ i \in 0 .. Len(Order)
  BY <1>1, RankNumbers DEF FoundInv
<1>8. \A j \in page'.found : j \in page.found /\ i < j /\ j \in Nat
  <2>1. \A j \in page.found : j \in Nat
    BY RankNumbers DEF TypeOK, Pages
  <2>2. QED
    BY <1>1, <1>3, <1>7, <2>1
<1>9. TypeOK'
  <2>1. Len(kept) <= PageSize + 1
    BY <1>2, <1>5, ListingAssumption DEF K
  <2>2. page' \in Pages
    BY <1>3, <1>5 DEF TypeOK, Pages
  <2>3. QED
    BY <1>2, <1>3, <2>1, <2>2 DEF TypeOK, asked
<1>10. PlanInv' /\ PhaseInv'
  BY <1>2, <1>3 DEF PlanInv, PhaseInv, asked
<1>11. \A n \in 1 .. Len(kept) :
         /\ cursor < kept[n].rank /\ kept[n].rank <= i
         /\ Order[kept[n].rank] \in Keys /\ InScope(Order[kept[n].rank])
         /\ Order[kept[n].rank] \in always' => MayList(Order[kept[n].rank], kept[n].team)
  <2> TAKE n \in 1 .. Len(kept)
  <2>1. CASE n \in 1 .. K
    <3>1. kept[n] = page.kept[n] /\ page.kept[n].rank < i /\ page.kept[n].rank \in Nat
      BY <1>5, <1>6, <2>1
    <3>2. n \in 1 .. Len(page.kept)
      BY <2>1 DEF K
    <3>3. QED
      BY <1>2, <1>7, <3>1, <3>2 DEF PageOf
  <2>2. CASE n = K + 1 /\ kept[n] = meta /\ Order[i] \in Keys
    BY <1>4, <1>7, <2>2
  <2>3. QED
    BY <1>5, <2>1, <2>2
<1>12. Sorted(kept)
  <2> SUFFICES ASSUME NEW m \in 1 .. Len(kept), NEW n \in 1 .. Len(kept), m < n
               PROVE  kept[m].rank < kept[n].rank
    BY DEF Sorted
  <2>1. m \in 1 .. K
    BY <1>5
  <2>2. CASE n \in 1 .. K
    BY <1>5, <2>1, <2>2 DEF PageOf, Sorted, K
  <2>3. CASE n = K + 1 /\ kept[n] = meta /\ Order[i] \in Keys
    BY <1>4, <1>5, <1>6, <2>1, <2>3
  <2>4. QED
    BY <1>5, <2>2, <2>3
<1>13. (PageOf(page.kept))'
  BY <1>2, <1>3, <1>11, <1>12 DEF PageOf, Sorted, InScope, MayList, asked
<1>14. FoundInv'
  <2>1. \A j \in page'.found, n \in 1 .. Len(kept) : kept[n].rank < j
    <3> TAKE j \in page'.found, n \in 1 .. Len(kept)
    <3>1. kept[n].rank <= i /\ i < j /\ j \in Nat /\ i \in Nat
      BY <1>7, <1>8, <1>11
    <3>2. kept[n].rank \in Nat
      <4>1. kept[n] \in Metas
        BY <1>5
      <4>2. QED
        BY <4>1, RankNumbers DEF Metas
    <3>3. QED
      BY <3>1, <3>2
  <2>2. QED
    BY <1>2, <1>3, <1>8, <2>1 DEF FoundInv, InScope, asked
<1>15. LastSeenInv'
  BY <1>2, <1>3, <1>7, <1>8, <1>11 DEF LastSeenInv, NoCursor, asked
<1>16. EntriesInv'
  BY <1>2 DEF EntriesInv, Sorted, Listing, InScope, MayList, asked
<1>17. CoverInv'
  <2>1. ASSUME NEW key \in always, cursor < Rank(key)
        PROVE  \/ Rank(key) \in page'.found
               \/ Holds(kept, key)
               \/ /\ page.truncated /\ last < Rank(key)
                  /\ \A j \in page'.found : j < Rank(key)
    <3>1. CASE Rank(key) \in page.found
      <4>1. CASE Rank(key) = i
        <5>1. Order[i] = key
          BY <4>1, RankOfKey DEF TypeOK
        <5>2. K + 1 \in 1 .. Len(kept) /\ kept[K + 1].rank = i
          BY <1>2, <1>5, <5>1
        <5>3. QED
          BY <4>1, <5>2 DEF Holds
      <4>2. QED
        BY <1>3, <3>1, <4>1
    <3>2. CASE Holds(page.kept, key)
      BY <1>5, <3>2 DEF Holds, K
    <3>3. CASE /\ page.truncated /\ page.last < Rank(key)
               /\ \A j \in page.found : j < Rank(key)
      BY <1>1, <1>2, <1>8, <3>3
    <3>4. QED
      BY <1>2, <2>1, <3>1, <3>2, <3>3 DEF CoverInv
  <2>2. \A key \in always' : Readable(key)' /\ InScope(key)'
    BY <1>2 DEF CoverInv, Readable, InScope, MayList, asked
  <2>3. Listing /\ phase' = "heading"
    BY <1>2 DEF Listing
  <2>4. ASSUME NEW key \in always
        PROVE  (Rank(key) <= cursor => Holds(entries, key))'
    BY <1>2, <2>3 DEF CoverInv, Holds, Rank
  <2>5. ASSUME NEW key \in always
        PROVE  (phase = "heading" /\ cursor < Rank(key) =>
                  \/ Rank(key) \in page.found
                  \/ Holds(page.kept, key)
                  \/ /\ page.truncated /\ page.last < Rank(key)
                     /\ \A j \in page.found : j < Rank(key))'
    BY <1>2, <1>3, <2>1 DEF Holds, Rank
  <2>6. QED
    BY <1>2, <2>2, <2>3, <2>4, <2>5 DEF CoverInv
<1>18. QED
  BY <1>9, <1>10, <1>13, <1>14, <1>15, <1>16, <1>17

\* The filesystem reads a sidecar: only an object that is gone is left out, and
\* one whose sidecar cannot be read is kept as one of no team.
LEMMA ReadNextSidecarKeepsInv ==
  ASSUME ListingInv, ReadNextSidecar
  PROVE  ListingInv'
<1> DEFINE i == Least(page.found)
           Looked(kept) == [page EXCEPT !.found = @ \ {i}, !.kept = kept]
           gone == objects[Order[i]] = Absent
           seen == IF gone THEN page.kept ELSE Append(page.kept, Meta(i))
           bare == Append(page.kept, Bare(i))
<1>1. /\ phase = "heading" /\ page.found # {} /\ backend = "filesystem"
      /\ Len(page.kept) <= PageSize
      /\ UNCHANGED <<asked, objects, phase, cursor, entries>>
  <2>1. Len(page.kept) \in Nat /\ PageSize \in Nat
    BY ListingAssumption DEF ListingInv, TypeOK, Pages
  <2>2. QED
    BY <2>1 DEF ReadNextSidecar, EnoughRead
<1>2. page \in Pages /\ page.last \in 0 .. Len(Order)
  BY DEF ListingInv, TypeOK, Pages
<1>3. ASSUME NEW kept, page' = Looked(kept)
      PROVE  page' = [page EXCEPT !.found = @ \ {i}, !.last = page.last, !.kept = kept]
  <2> HIDE DEF i
  <2>1. QED
    BY <1>2, <1>3 DEF Pages
<1>4. i \in page.found /\ i \in Ranks /\ Order[i] \in Keys
  <2>1. i \in page.found
    BY <1>1, <1>2, RankNumbers, LeastIsLeast DEF Pages
  <2>2. QED
    BY <1>1, <1>2, <2>1 DEF ListingInv, FoundInv, Pages
<1>5. \A meta : page.kept # Append(page.kept, meta)
  BY <1>2 DEF Pages
<1>6. /\ \/ page' = Looked(seen) /\ always' = always
         \/ /\ ~ gone /\ page' = Looked(bare)
            /\ always' = IF MayList(Order[i], NoTeam) THEN always ELSE always \ {Order[i]}
  BY DEF ReadNextSidecar
<1>7. i = Least(page.found) /\ (backend = "s3" => page.last = i)
  BY <1>1
<1>8. CASE page' = Looked(seen) /\ always' = always
  <2>1. Order[i] \in always => ~ gone /\ MayList(Order[i], Meta(i).team)
    BY <1>4, LookedAt DEF ListingInv, CoverInv, Readable
  <2>2. Meta(i) \in Metas /\ Meta(i).rank = i
    BY <1>4, MetaType DEF ListingInv
  <2>3. seen = page.kept \/ (seen = Append(page.kept, Meta(i)) /\ Order[i] \in Keys)
    BY <1>4
  <2>4. Order[i] \in always => seen # page.kept
    BY <1>5, <2>1
  <2>5. page' = [page EXCEPT !.found = @ \ {i}, !.last = page.last, !.kept = seen]
    BY <1>3, <1>8
  <2>6. /\ always' \subseteq always
        /\ Order[i] \in always' => MayList(Order[i], Meta(i).team)
        /\ UNCHANGED <<asked, objects, phase, cursor, entries>>
    BY <1>1, <1>8, <2>1
  <2> HIDE DEF i, seen, Looked, gone
  <2>7. QED
    BY <1>1, <1>2, <1>7, <2>2, <2>3, <2>4, <2>5, <2>6, LookKeepsInv
<1>9. CASE /\ page' = Looked(bare)
           /\ always' = IF MayList(Order[i], NoTeam) THEN always ELSE always \ {Order[i]}
  <2>1. Bare(i) \in Metas /\ Bare(i).rank = i /\ Bare(i).team = NoTeam
    BY <1>4 DEF Bare, Metas, CutTeams
  <2>2. always' \subseteq always /\ (Order[i] \in always' => MayList(Order[i], Bare(i).team))
    BY <1>9, <2>1
  <2>3. bare = Append(page.kept, Bare(i)) /\ Order[i] \in Keys /\ bare # page.kept
    BY <1>4, <1>5
  <2>4. page' = [page EXCEPT !.found = @ \ {i}, !.last = page.last, !.kept = bare]
    BY <1>3, <1>9
  <2> HIDE DEF i, bare, Looked, gone
  <2>5. QED
    BY <1>1, <1>2, <1>7, <2>1, <2>2, <2>3, <2>4, LookKeepsInv
<1>10. QED
  BY <1>6, <1>8, <1>9

\* S3 asks for the attributes of a name: only what is gone or no key is left out.
LEMMA HeadNextKeepsInv ==
  ASSUME ListingInv, HeadNext
  PROVE  ListingInv'
<1> DEFINE i    == Least(page.found)
           kept == IF Skipped(i) THEN page.kept ELSE Append(page.kept, Meta(i))
<1>1. /\ phase = "heading" /\ page.found # {} /\ backend = "s3"
      /\ Len(page.kept) <= PageSize
      /\ UNCHANGED <<asked, objects, phase, cursor, entries, always>>
  <2>1. Len(page.kept) \in Nat /\ PageSize \in Nat
    BY ListingAssumption DEF ListingInv, TypeOK, Pages
  <2>2. QED
    BY <2>1 DEF HeadNext
<1>2. page \in Pages
  BY DEF ListingInv, TypeOK
<1>3. page' = [page EXCEPT !.found = @ \ {i}, !.last = i, !.kept = kept]
  BY DEF HeadNext, LastSeen
<1>4. i \in page.found /\ i \in Ranks /\ i \in 0 .. Len(Order)
  <2>1. i \in page.found
    BY <1>1, <1>2, RankNumbers, LeastIsLeast DEF Pages
  <2>2. QED
    BY <1>2, <2>1, RankNumbers DEF Pages
<1>5. Order[i] \in always => kept # page.kept
  <2>1. Order[i] \in always => objects[Order[i]] # Absent
    BY DEF ListingInv, CoverInv, Readable
  <2>2. Order[i] \in always => Order[i] \notin Strays
    BY ListingAssumption DEF ListingInv, TypeOK
  <2>3. page.kept # Append(page.kept, Meta(i))
    BY <1>2 DEF Pages
  <2>4. QED
    BY <2>1, <2>2, <2>3 DEF Skipped
<1>6. kept = page.kept \/ (kept = Append(page.kept, Meta(i)) /\ Order[i] \in Keys)
  BY <1>4, RankNumbers DEF Skipped
<1>7. i = Least(page.found) /\ always' \subseteq always
  BY <1>1
<1>8. /\ Order[i] \in Keys => Meta(i) \in Metas /\ Meta(i).rank = i
      /\ Order[i] \in always' => MayList(Order[i], Meta(i).team)
  <2>1. Order[i] \in Keys => Meta(i) \in Metas /\ Meta(i).rank = i
    BY <1>4, MetaType DEF ListingInv
  <2>2. Order[i] \in always => Order[i] \in Keys
    BY DEF ListingInv, TypeOK
  <2>3. Order[i] \in always => MayList(Order[i], Meta(i).team)
    BY <1>4, <2>2, LookedAt
  <2>4. QED
    BY <1>1, <2>1, <2>3
<1> HIDE DEF i, kept
<1>9. QED
  BY <1>1, <1>3, <1>4, <1>5, <1>6, <1>7, <1>8, LookKeepsInv

\* The filesystem stops at one object above the limit, which tells of a next page.
LEMMA FinishWalkKeepsInv ==
  ASSUME ListingInv, FinishWalk
  PROVE  ListingInv'
<1>1. /\ phase = "heading" /\ Listing /\ backend = "filesystem" /\ ~ page.truncated
      /\ page.found = {} \/ Len(page.kept) > PageSize
      /\ Truncated(page.kept)
  BY DEF FinishWalk, EnoughRead, Listing, ListingInv, PhaseInv
<1>2. page.kept \in Seq(Metas) /\ PageOf(page.kept) /\ Len(page.kept) \in Nat /\ PageSize \in Nat
  BY ListingAssumption DEF ListingInv, TypeOK, Pages
<1>3. ASSUME NEW key \in always, cursor < Rank(key)
      PROVE  \/ Holds(page.kept, key)
             \/ /\ PageSize < Len(page.kept)
                /\ \A n \in 1 .. Len(page.kept) : page.kept[n].rank < Rank(key)
  <2>1. Rank(key) \in page.found \/ Holds(page.kept, key)
    BY <1>1, <1>3 DEF ListingInv, CoverInv
  <2>2. CASE Rank(key) \in page.found
    <3>1. \A n \in 1 .. Len(page.kept) : page.kept[n].rank < Rank(key)
      BY <2>2 DEF ListingInv, FoundInv
    <3>2. PageSize < Len(page.kept)
      BY <1>1, <1>2, <2>2
    <3>3. QED
      BY <3>1, <3>2
  <2>3. QED
    BY <2>1, <2>2
<1>4. QED
  BY <1>1, <1>2, <1>3, TruncatedKeepsInv

\* LIST may be short, but then it says that more follows.
LEMMA ListKeysKeepsInv ==
  ASSUME ListingInv, ListKeys
  PROVE  ListingInv'
<1> USE DEF ListingInv
<1>1. PICK n \in 1 .. PageSize + 1 :
        page' = [NoPage EXCEPT !.found = FirstOf(Matching, n),
                               !.truncated = Cardinality(Matching) > n]
  BY DEF ListKeys
<1> DEFINE F    == FirstOf(Matching, n)
           more == Cardinality(Matching) > n
<1>2. /\ phase = "paging" /\ phase' = "heading" /\ backend = "s3"
      /\ UNCHANGED <<asked, objects, cursor, entries, always>>
  BY DEF ListKeys
<1>3. IsFiniteSet(Matching) /\ Matching \subseteq Ranks /\ Matching \subseteq Nat
      /\ Cardinality(Matching) \in Nat /\ n \in Nat /\ 0 < n
  <2>1. IsFiniteSet(Matching) /\ Matching \subseteq Ranks /\ Ranks \subseteq Nat
    BY WhatMatches, RankNumbers
  <2>2. Cardinality(Matching) \in Nat
    BY <2>1, FS_CardinalityType
  <2>3. n \in Nat /\ 0 < n
    BY ListingAssumption
  <2>4. QED
    BY <2>1, <2>2, <2>3
<1>4. /\ F \subseteq Matching
      /\ \A i \in F, k \in Matching \ F : i < k
      /\ Cardinality(F) \in 0 .. n
      /\ Cardinality(Matching) <= n => F = Matching
      /\ Cardinality(F) < n => F = Matching
  BY <1>3, FirstOfProperties
<1>5. more \/ F = Matching
  BY <1>3, <1>4
<1>6. more => F # {}
  <2> SUFFICES ASSUME more, F = {} PROVE FALSE
    OBVIOUS
  <2>1. Cardinality({}) = 0
    BY FS_EmptySet
  <2>2. F = Matching
    BY <1>3, <1>4, <2>1
  <2>3. Cardinality(Matching) = 0
    BY <2>1, <2>2
  <2>4. QED
    BY <1>3, <2>3
<1>7. more \in BOOLEAN
  OBVIOUS
<1> HIDE DEF F, more
<1>8. /\ page' = [owners |-> {}, found |-> F, kept |-> <<>>, last |-> 0, truncated |-> more]
      /\ page'.found = F /\ page'.kept = <<>> /\ Len(page'.kept) = 0
      /\ page'.last = 0 /\ page'.truncated = more
  <2>1. page' = [owners |-> {}, found |-> F, kept |-> <<>>, last |-> 0, truncated |-> more]
    BY <1>1 DEF NoPage, F, more
  <2>2. QED
    BY <2>1
<1>9. TypeOK'
  <2>1. page' \in Pages
    BY <1>3, <1>4, <1>7, <1>8, RankNumbers DEF Pages
  <2>2. Len(page'.kept) <= PageSize + 1
    BY <1>8, ListingAssumption
  <2>3. QED
    BY <1>2, <2>1, <2>2 DEF TypeOK, asked
<1>10. PlanInv' /\ PhaseInv' /\ (PageOf(page.kept))'
  BY <1>2, <1>8 DEF PlanInv, PhaseInv, PageOf, Sorted, asked
<1>11. FoundInv'
  BY <1>2, <1>4, <1>8, WhatMatches DEF FoundInv, InScope, asked
<1>12. LastSeenInv'
  <2>1. \A i \in F : 0 < i
    BY <1>3, <1>4, RankNumbers
  <2>2. QED
    BY <1>2, <1>6, <1>8, <2>1 DEF LastSeenInv, NoCursor, asked
<1>13. EntriesInv'
  BY <1>2 DEF EntriesInv, Sorted, Listing, InScope, MayList, asked
<1>14. CoverInv'
  <2>1. ASSUME NEW key \in always, cursor < Rank(key)
        PROVE  \/ Rank(key) \in F
               \/ more /\ 0 < Rank(key) /\ \A j \in F : j < Rank(key)
    <3>1. Rank(key) \in Matching
      BY <2>1, WhatMatches
    <3>2. 0 < Rank(key)
      BY <1>3, <3>1, RankNumbers
    <3>3. QED
      BY <1>4, <1>5, <3>1, <3>2
  <2>2. ASSUME NEW key \in always
        PROVE  (phase = "heading" /\ cursor < Rank(key) =>
                  \/ Rank(key) \in page.found
                  \/ Holds(page.kept, key)
                  \/ /\ page.truncated /\ page.last < Rank(key)
                     /\ \A j \in page.found : j < Rank(key))'
    BY <1>2, <1>8, <2>1 DEF Rank
  <2>3. \A key \in always : Readable(key)' /\ InScope(key)'
    BY <1>2 DEF CoverInv, Readable, InScope, MayList, asked
  <2>4. \A key \in always : Rank(key) <= cursor => Holds(entries', key)
    BY <1>2 DEF CoverInv, Holds, Listing
  <2>5. QED
    BY <1>2, <2>2, <2>3, <2>4 DEF CoverInv, Holds, Rank
<1>15. QED
  BY <1>9, <1>10, <1>11, <1>12, <1>13, <1>14

\* The cursor S3 hands on is where it stopped looking.
LEMMA FinishHeadsKeepsInv ==
  ASSUME ListingInv, FinishHeads
  PROVE  ListingInv'
<1> DEFINE next == IF More THEN page.last ELSE NoCursor
<1>1. /\ phase = "heading" /\ backend = "s3" /\ Listing
      /\ page.found = {} \/ Len(page.kept) = PageSize
      /\ Answer(page.kept, next)
  BY DEF FinishHeads, Listing
<1>2. /\ page.kept \in Seq(Metas) /\ PageOf(page.kept) /\ Len(page.kept) \in Nat
      /\ PageSize \in Nat /\ 0 < PageSize
      /\ page.last \in 0 .. Len(Order) /\ page.last \in Nat /\ 0 \in 0 .. Len(Order)
  BY ListingAssumption, RankNumbers DEF ListingInv, TypeOK, Pages
<1>3. next \in 0 .. Len(Order)
  BY <1>2 DEF NoCursor
<1>4. LastSeenInv
  BY DEF ListingInv
<1>5. More => page.last # NoCursor
  <2>1. CASE page.found = {}
    BY <1>1, <1>4, <2>1 DEF More, LastSeenInv
  <2>2. CASE Len(page.kept) = PageSize
    <3>1. 1 \in 1 .. Len(page.kept)
      BY <1>2, <2>2
    <3>2. page.kept[1].rank \in Ranks
      <4>1. page.kept[1] \in Metas
        BY <1>2, <3>1, ElementOfSeq
      <4>2. QED
        BY <4>1 DEF Metas
    <3>3. 0 < page.kept[1].rank /\ page.kept[1].rank \in Nat
      BY <3>2, RankNumbers
    <3>4. page.kept[1].rank <= page.last
      BY <1>1, <1>4, <3>1 DEF LastSeenInv
    <3>5. QED
      BY <1>2, <3>3, <3>4 DEF NoCursor
  <2>3. QED
    BY <1>1, <2>1, <2>2
<1>6. next # NoCursor =>
        cursor < next /\ \A m \in 1 .. Len(page.kept) : page.kept[m].rank <= next
  BY <1>1, <1>4 DEF LastSeenInv
<1>7. ASSUME NEW key \in always, cursor < Rank(key), next = NoCursor \/ Rank(key) <= next
      PROVE  Holds(page.kept, key)
  <2>1. Rank(key) \in Nat /\ Rank(key) \in Ranks
    BY RankOfKey, RankNumbers DEF ListingInv, TypeOK
  <2>2. \/ Rank(key) \in page.found
        \/ Holds(page.kept, key)
        \/ page.truncated /\ page.last < Rank(key)
    BY <1>1, <1>7 DEF ListingInv, CoverInv
  <2>3. CASE More
    <3>1. Rank(key) <= page.last
      BY <1>5, <1>7, <2>3
    <3>2. ~ (page.last < Rank(key))
      BY <1>2, <2>1, <3>1
    <3>3. Rank(key) \in page.found => page.last < Rank(key)
      BY <1>1, <1>4 DEF LastSeenInv
    <3>4. QED
      BY <2>2, <3>2, <3>3
  <2>4. CASE ~ More
    BY <2>2, <2>4 DEF More
  <2>5. QED
    BY <2>3, <2>4
<1> HIDE DEF next
<1>8. QED
  BY <1>1, <1>2, <1>3, <1>6, <1>7, AnswerKeepsInv

\* Whatever error it is, nothing is answered.
LEMMA StoreFailsKeepsInv ==
  ASSUME ListingInv, StoreFails
  PROVE  ListingInv'
<1>1. /\ phase' = "failed" /\ page' = NoPage /\ entries' = <<>>
      /\ UNCHANGED <<asked, objects, cursor, always>>
  BY DEF StoreFails
<1>2. Len(<<>>) = 0 /\ <<>> \in Seq(Metas) /\ \A n \in 1 .. 0 : FALSE
  OBVIOUS
<1>3. TypeOK'
  <2>1. Len(page'.kept) <= PageSize + 1
    BY <1>1, NoPageType, ListingAssumption
  <2>2. QED
    BY <1>1, <1>2, <2>1, NoPageType DEF ListingInv, TypeOK, asked
<1>4. PlanInv' /\ PhaseInv' /\ (PageOf(page.kept))' /\ FoundInv' /\ LastSeenInv'
  BY <1>1, NoPageType
  DEF ListingInv, PlanInv, PhaseInv, PageOf, Sorted, FoundInv, LastSeenInv, asked
<1>5. EntriesInv'
  BY <1>1, <1>2 DEF EntriesInv, Sorted
<1>6. CoverInv'
  BY <1>1 DEF ListingInv, CoverInv, Listing, Readable, InScope, MayList, asked
<1>7. QED
  BY <1>3, <1>4, <1>5, <1>6 DEF ListingInv

\* Others change what the store holds, and what the caller could always read.
LEMMA OthersWriteKeepsInv ==
  ASSUME ListingInv, OthersWrite
  PROVE  ListingInv'
<1> USE DEF ListingInv
<1>1. /\ always' = {key \in always : Readable(key)'}
      /\ UNCHANGED <<asked, phase, cursor, page, entries>>
      /\ phase \in {"paging", "walking", "heading"}
  BY DEF OthersWrite
<1>2. objects' \in [Keys -> [body : Docs, team : CutTeams] \cup {Absent}]
  <2>1. PICK key \in Keys :
          \/ \E doc \in Docs :
               objects' = [objects EXCEPT ![key] =
                 [body |-> doc, team |-> StoredTeam(doc, team_of(policy, key.owner))]]
          \/ objects' = [objects EXCEPT ![key] = Absent]
          \/ /\ objects[key] # Absent
             /\ objects' = [objects EXCEPT ![key].team = NoTeam]
    BY DEF OthersWrite
  <2>2. objects \in [Keys -> [body : Docs, team : CutTeams] \cup {Absent}]
    BY DEF TypeOK
  <2>3. team_of(policy, key.owner) \in RecordedTeams
    <3>1. policy \in Policies /\ key.owner \in Principals
      BY ListingAssumption DEF TypeOK, Keys
    <3>2. policy.rule = "TeamScoped" => policy.member \in [Principals -> RecordedTeams]
      BY <3>1 DEF Policies
    <3>3. QED
      BY <3>1, <3>2 DEF team_of, RecordedTeams
  <2>4. ASSUME NEW doc \in Docs
        PROVE  [body |-> doc, team |-> StoredTeam(doc, team_of(policy, key.owner))]
                 \in [body : Docs, team : CutTeams]
    BY <2>3, StoredTeamType
  <2>5. ASSUME objects[key] # Absent
        PROVE  [objects[key] EXCEPT !.team = NoTeam] \in [body : Docs, team : CutTeams]
    BY <2>2, <2>5 DEF CutTeams
  <2>6. QED
    BY <2>1, <2>2, <2>4, <2>5
<1>3. always' \subseteq always
  BY <1>1
<1>4. TypeOK'
  BY <1>1, <1>2, <1>3 DEF TypeOK, asked
<1>5. PlanInv' /\ PhaseInv' /\ FoundInv' /\ LastSeenInv'
  BY <1>1 DEF PlanInv, PhaseInv, FoundInv, LastSeenInv, InScope, asked
<1>6. (PageOf(page.kept))'
  BY <1>1, <1>3 DEF PageOf, Sorted, InScope, MayList, asked
<1>7. EntriesInv'
  BY <1>1 DEF EntriesInv, Sorted, Listing, InScope, MayList, asked
<1>8. CoverInv'
  <2>1. \A key \in always' : key \in always /\ Readable(key)'
    BY <1>1
  <2>2. \A key \in always' : InScope(key)'
    BY <1>1, <2>1 DEF CoverInv, InScope, asked
  <2>3. QED
    BY <1>1, <2>1, <2>2 DEF CoverInv, Holds, Listing
<1>9. QED
  BY <1>4, <1>5, <1>6, <1>7, <1>8

(***************************************************************************)
(* The theorems.                                                           *)
(***************************************************************************)
\* A listing begins before the first key.
LEMMA InitInv == Init => ListingInv
<1> SUFFICES ASSUME Init PROVE ListingInv
  OBVIOUS
<1>1. /\ phase = "paging" /\ cursor = 0 /\ page = NoPage /\ entries = <<>>
      /\ policy \in Configured /\ plan \in {list_scope(policy, scope) : scope \in Scopes}
      /\ backend \in {"memory", "s3", "filesystem"}
      /\ objects \in [Keys -> Objects]
      /\ always = {key \in Keys : Readable(key) /\ InScope(key)}
  BY DEF Init
<1>2. Len(<<>>) = 0 /\ <<>> \in Seq(Metas) /\ \A n \in 1 .. 0 : FALSE
  OBVIOUS
<1>3. TypeOK
  <2>1. \A scope \in Scopes : list_scope(policy, scope) \in [mine : BOOLEAN, authorize_each : BOOLEAN]
    BY DEF list_scope
  <2>2. Objects \subseteq [body : Docs, team : CutTeams] \cup {Absent}
    <3>1. RecordedTeams \subseteq CutTeams
      BY CoreAssumption DEF RecordedTeams, CutTeams
    <3>2. QED
      BY <3>1 DEF Objects
  <2>3. objects \in [Keys -> [body : Docs, team : CutTeams] \cup {Absent}]
    BY <1>1, <2>2
  <2>4. cursor \in 0 .. Len(Order) /\ Len(page.kept) <= PageSize + 1
    BY <1>1, RankNumbers, NoPageType, ListingAssumption
  <2>5. QED
    BY <1>1, <1>2, <2>1, <2>3, <2>4, NoPageType DEF TypeOK
<1>4. PlanInv /\ PhaseInv /\ PageOf(page.kept) /\ FoundInv /\ LastSeenInv
  BY <1>1, NoPageType DEF PlanInv, PhaseInv, PageOf, Sorted, FoundInv, LastSeenInv
<1>5. EntriesInv
  BY <1>1, <1>2 DEF EntriesInv, Sorted
<1>6. CoverInv
  <2>1. ASSUME NEW key \in always PROVE ~ (Rank(key) <= cursor)
    <3>1. Rank(key) \in Ranks
      BY <1>1, RankOfKey
    <3>2. 0 < Rank(key) /\ Rank(key) \in Nat
      BY <3>1, RankNumbers
    <3>3. QED
      BY <1>1, <3>2
  <2>2. QED
    BY <1>1, <2>1 DEF CoverInv
<1>7. QED
  BY <1>3, <1>4, <1>5, <1>6 DEF ListingInv

\* Every step of the listing and of the others preserves the invariant.
LEMMA NextInv == ListingInv /\ [Next]_vars => ListingInv'
<1> SUFFICES ASSUME ListingInv, [Next]_vars PROVE ListingInv'
  OBVIOUS
<1>1. CASE MemoryPage
  BY <1>1, MemoryPageKeepsInv
<1>2. CASE StartWalk
  BY <1>2, StartWalkKeepsInv
<1>3. CASE WalkOwner
  BY <1>3, WalkOwnerKeepsInv
<1>4. CASE ReadNextSidecar
  BY <1>4, ReadNextSidecarKeepsInv
<1>5. CASE FinishWalk
  BY <1>5, FinishWalkKeepsInv
<1>6. CASE ListKeys
  BY <1>6, ListKeysKeepsInv
<1>7. CASE HeadNext
  BY <1>7, HeadNextKeepsInv
<1>8. CASE FinishHeads
  BY <1>8, FinishHeadsKeepsInv
<1>9. CASE StoreFails
  BY <1>9, StoreFailsKeepsInv
<1>10. CASE OthersWrite
  BY <1>10, OthersWriteKeepsInv
<1>11. CASE UNCHANGED vars
  BY <1>11 DEF vars, asked, ListingInv, TypeOK, PlanInv, PhaseInv, PageOf, Sorted, FoundInv,
               LastSeenInv, EntriesInv, CoverInv, Listing, Holds, Readable, InScope, MayList
<1>12. QED
  BY <1>1, <1>2, <1>3, <1>4, <1>5, <1>6, <1>7, <1>8, <1>9, <1>10, <1>11
  DEF Next, ListerSteps

\* So it holds for as long as the listing runs.
LEMMA Invariant == Spec => []ListingInv
BY InitInv, NextInv, PTL DEF Spec

\* The listing keeps to its types: no page holds more than one object above
\* the limit, and the cursor never leaves the bucket.
THEOREM ListingTypeCorrect == Spec => []TypeOK
<1>1. ListingInv => TypeOK
  BY DEF ListingInv
<1>2. QED
  BY <1>1, Invariant, PTL

\* A complete answer of any of the three stores holds every object that the
\* caller could read all along (http.rs list, over memory.rs, fs.rs and s3.rs).
THEOREM StableObjectsAreListed == Spec => []NothingStableIsLost
<1>1. ListingInv => NothingStableIsLost
  BY DEF ListingInv, CoverInv, NothingStableIsLost, Holds
<1>2. QED
  BY <1>1, Invariant, PTL

\* No object is listed twice, and all come in the order of their keys.
THEOREM PagesFollowTheOrder == Spec => []ListedOnceInOrder
<1>1. ListingInv => ListedOnceInOrder
  BY DEF ListingInv, EntriesInv, Sorted, ListedOnceInOrder
<1>2. QED
  BY <1>1, Invariant, PTL

\* Whatever is listed, a GET would have answered when the store looked at it.
THEOREM ListingIsReadable == Spec => []ListingShowsWhatReadAllows
<1>1. ListingInv => ListingShowsWhatReadAllows
  BY DEF ListingInv, EntriesInv, ListingShowsWhatReadAllows
<1>2. QED
  BY <1>1, Invariant, PTL
=============================================================================
