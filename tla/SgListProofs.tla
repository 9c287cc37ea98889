---------------------------- MODULE SgListProofs ----------------------------
(***************************************************************************)
(* Proofs about SgList: what the folds that add up lengths compute, where  *)
(* the entries of a list lie in the data buffer and its descriptors in     *)
(* theirs, for buffers in any number of physical runs and any sequence of  *)
(* calls.                                                                  *)
(***************************************************************************)
EXTENDS SgList, WellFoundedInduction, TLAPS

-----------------------------------------------------------------------------
(* Induction over the natural numbers, with a set in place of a predicate. *)

LEMMA NatLeast ==
    ASSUME NEW T \in SUBSET Nat, T # {}
    PROVE  \E x \in T : \A y \in T : x <= y
<1>1. IsWellFoundedOn(OpToRel(<, Nat), Nat)
  BY NatLessThanWellFounded
<1>2. \E x \in T : \A y \in T : ~ (<<y, x>> \in OpToRel(<, Nat))
  BY <1>1, WFMin
<1>3. ASSUME NEW x \in Nat, NEW y \in Nat, ~(<<y, x>> \in OpToRel(<, Nat))
      PROVE  x <= y
  BY <1>3 DEF OpToRel
<1> QED
  BY <1>2, <1>3

LEMMA NatSetInduction ==
    ASSUME NEW S, 0 \in S, \A n \in Nat : n \in S => n + 1 \in S
    PROVE  Nat \subseteq S
<1> SUFFICES ASSUME Nat \ S # {} PROVE FALSE
  OBVIOUS
<1>1. PICK x \in Nat \ S : \A y \in Nat \ S : x <= y
  BY NatLeast
<1>2. x # 0 /\ x - 1 \in Nat
  BY <1>1
<1>3. x - 1 \in S
  BY <1>1, <1>2
<1>4. (x - 1) + 1 = x
  BY <1>1
<1> QED
  BY <1>1, <1>2, <1>3, <1>4

LEMMA MaxUpTo ==
    ASSUME NEW n \in Nat, NEW t \in SUBSET (1..n), t # {}
    PROVE  Max(t) \in t /\ \A y \in t : y <= Max(t)
<1> DEFINE T == {n - x : x \in t}
<1>1. T \in SUBSET Nat /\ T # {}
  <2>1. \A x \in t : x \in 1..n
    OBVIOUS
  <2>2. \A x \in 1..n : n - x \in Nat
    OBVIOUS
  <2> QED
    BY <2>1, <2>2
<1>2. PICK d \in T : \A y \in T : d <= y
  BY <1>1, NatLeast
<1>3. PICK m \in t : d = n - m
  BY <1>2
<1>4. ASSUME NEW y \in t PROVE m >= y
  <2>1. y \in 1..n /\ m \in 1..n
    OBVIOUS
  <2>2. n - y \in T
    OBVIOUS
  <2>3. n - m <= n - y
    BY <2>2, <1>2, <1>3
  <2> QED
    BY <2>1, <2>3
<1>5. \E m1 \in t : \A y \in t : m1 >= y
  BY <1>4
<1>6. Max(t) \in t /\ \A y \in t : Max(t) >= y
  BY <1>5 DEF Max
<1> QED
  BY <1>6

LEMMA MinUpTo ==
    ASSUME NEW t \in SUBSET Nat, t # {}
    PROVE  Min(t) \in t /\ \A y \in t : Min(t) <= y
BY NatLeast DEF Min

-----------------------------------------------------------------------------
(* The recursion of MapThenFoldSet over the indices of a sequence.  Step   *)
(* takes the value so far and the next index to the next value.            *)

IsFold(it, b, Step, n) ==
    it = [t \in SUBSET (1..n) |->
            IF t = {} THEN b ELSE Step[<<it[t \ {Max(t)}], Max(t)>>]]

LEMMA FoldExists ==
    ASSUME NEW V, NEW b \in V, NEW N \in Nat, NEW Step \in [V \X (1..N) -> V]
    PROVE  \E it \in [SUBSET (1..N) -> V] : IsFold(it, b, Step, N)
<1> DEFINE Has(n) == \E it \in [SUBSET (1..n) -> V] : IsFold(it, b, Step, n)
           S == {n \in Nat : n <= N => Has(n)}
<1>1. 0 \in S
  <2> DEFINE it0 == [t \in SUBSET (1..0) |-> b]
  <2>1. it0 \in [SUBSET (1..0) -> V] /\ 1..0 = {} /\ SUBSET (1..0) = {{}}
    OBVIOUS
  <2>2. IsFold(it0, b, Step, 0)
    BY <2>1 DEF IsFold
  <2>3. Has(0)
    BY <2>1, <2>2
  <2> QED
    BY <2>3
<1>2. ASSUME NEW n \in Nat, n \in S PROVE n + 1 \in S
  <2> SUFFICES ASSUME n + 1 <= N
               PROVE  Has(n + 1)
    <3> HIDE DEF Has
    <3> QED
      OBVIOUS
  <2>0. Has(n)
    <3> HIDE DEF Has
    <3> QED
      BY <1>2
  <2>1. PICK it \in [SUBSET (1..n) -> V] : IsFold(it, b, Step, n)
    BY <2>0
  <2> DEFINE it1 == [t \in SUBSET (1..n + 1) |->
                       IF n + 1 \in t THEN Step[<<it[t \ {n + 1}], n + 1>>] ELSE it[t]]
  <2>2. \A t \in SUBSET (1..n + 1) : t \ {n + 1} \in SUBSET (1..n)
    OBVIOUS
  <2>3. \A t \in SUBSET (1..n + 1) : n + 1 \notin t => t \in SUBSET (1..n)
    OBVIOUS
  <2>4. \A t \in SUBSET (1..n + 1) : it1[t] \in V
    <3> SUFFICES ASSUME NEW t \in SUBSET (1..n + 1) PROVE it1[t] \in V
      OBVIOUS
    <3>1. CASE n + 1 \in t
      <4>1. it[t \ {n + 1}] \in V /\ n + 1 \in 1..N
        BY <2>2, <2>1
      <4> QED
        BY <3>1, <4>1
    <3>2. CASE n + 1 \notin t
      BY <3>2, <2>3, <2>1
    <3> QED
      BY <3>1, <3>2
  <2>5. ASSUME NEW t \in SUBSET (1..n + 1), t # {}
        PROVE  it1[t] = Step[<<it1[t \ {Max(t)}], Max(t)>>]
    <3>0. n + 1 \in Nat
      OBVIOUS
    <3>1. Max(t) \in t /\ \A y \in t : y <= Max(t)
      BY ONLY <2>5, <3>0, MaxUpTo, t \in SUBSET (1..n + 1)
    <3>2. CASE n + 1 \in t
      <4>1. Max(t) = n + 1
        <5>1. n + 1 <= Max(t) /\ Max(t) \in 1..n + 1
          BY <3>1, <3>2
        <5> QED
          BY <5>1
      <4>2. it1[t \ {n + 1}] = it[t \ {n + 1}]
        BY <2>2
      <4> QED
        BY <3>2, <4>1, <4>2
    <3>3. CASE n + 1 \notin t
      <4>1. t \in SUBSET (1..n) /\ t \ {Max(t)} \in SUBSET (1..n)
        BY <3>3, <2>3
      <4>2. it1[t] = it[t] /\ it1[t \ {Max(t)}] = it[t \ {Max(t)}]
        BY <4>1, <3>3
      <4>3. it[t] = Step[<<it[t \ {Max(t)}], Max(t)>>]
        BY <2>1, <2>5, <4>1 DEF IsFold
      <4> QED
        BY <4>2, <4>3
    <3> QED
      BY <3>2, <3>3
  <2>6. it1[{}] = b
    <3>1. {} \in SUBSET (1..n) /\ {} \in SUBSET (1..n + 1)
      OBVIOUS
    <3>2. it[{}] = b
      BY <2>1, <3>1 DEF IsFold
    <3> QED
      BY <3>1, <3>2
  <2>7. it1 \in [SUBSET (1..n + 1) -> V]
    BY <2>4
  <2> HIDE DEF it1
  <2>8. IsFold(it1, b, Step, n + 1)
    BY <2>5, <2>6, <2>7 DEF IsFold
  <2> QED
    BY <2>7, <2>8
<1>3. Nat \subseteq S
  <2> HIDE DEF S
  <2> QED
    BY <1>1, <1>2, NatSetInduction
<1>4. Has(N)
  <2> HIDE DEF Has
  <2> QED
    BY <1>3
<1> QED
  BY <1>4

(* What a fold has computed after each index. *)
LEMMA FoldValues ==
    ASSUME NEW V, NEW b \in V, NEW N \in Nat, NEW Step \in [V \X (1..N) -> V],
           NEW it \in [SUBSET (1..N) -> V], IsFold(it, b, Step, N)
    PROVE  /\ it[1..0] = b
           /\ \A i \in 1..N : it[1..i] = Step[<<it[1..i - 1], i>>]
<1>1. it[1..0] = b
  <2>1. 1..0 = {} /\ {} \in SUBSET (1..N)
    OBVIOUS
  <2> QED
    BY <2>1 DEF IsFold
<1>2. ASSUME NEW i \in 1..N
      PROVE  it[1..i] = Step[<<it[1..i - 1], i>>]
  <2>1. 1..i \in SUBSET (1..N) /\ 1..i # {} /\ i \in Nat
    OBVIOUS
  <2>2. Max(1..i) = i
    <3>1. Max(1..i) \in 1..i /\ \A y \in 1..i : y <= Max(1..i)
      BY <2>1, MaxUpTo
    <3> QED
      BY <2>1, <3>1
  <2>3. (1..i) \ {i} = 1..i - 1
    OBVIOUS
  <2> QED
    BY <2>1, <2>2, <2>3 DEF IsFold
<1> QED
  BY <1>1, <1>2

-----------------------------------------------------------------------------
(* Lengths added up. *)

Total(s) == FoldLeft(LAMBDA n, e : n + e.len, 0, s)

(* s is a sequence of n elements with lengths. *)
Lengthy(s, n) == DOMAIN s = 1..n /\ \A i \in 1..n : s[i].len \in Nat

(* f[i] is the sum of the first i lengths. *)
Sums(s, n, f) ==
    /\ f \in [0..n -> Nat]
    /\ f[0] = 0
    /\ \A i \in 1..n : f[i] = f[i - 1] + s[i].len

LEMMA TotalSums ==
    ASSUME NEW s, NEW N \in Nat, Lengthy(s, N)
    PROVE  \E f : Sums(s, N, f) /\ Total(s) = f[N]
<1> DEFINE Step == [vi \in Nat \X (1..N) |-> vi[1] + s[vi[2]].len]
           Is(it) == it = [t \in SUBSET (1..N) |->
                             IF t = {} THEN 0 ELSE it[t \ {Max(t)}] + s[Max(t)].len]
           chosen == CHOOSE it : Is(it)
<1>1. \A v \in Nat, i \in 1..N : Step[<<v, i>>] = v + s[i].len
  OBVIOUS
<1>2. Step \in [Nat \X (1..N) -> Nat]
  BY DEF Lengthy
<1>3. Total(s) = chosen[1..N]
  <2>1. Total(s) = (CHOOSE it : it = [t \in SUBSET DOMAIN s |->
                      IF t = {} THEN 0 ELSE it[t \ {Max(t)}] + s[Max(t)].len])[DOMAIN s]
    BY DEF Total, FoldLeft, MapThenFoldSet
  <2> QED
    BY <2>1 DEF Lengthy
<1> HIDE DEF Step
<1>4. ASSUME NEW it \in [SUBSET (1..N) -> Nat]
      PROVE  Is(it) <=> IsFold(it, 0, Step, N)
  <2>1. ASSUME NEW t \in SUBSET (1..N), t # {}
        PROVE  Step[<<it[t \ {Max(t)}], Max(t)>>] = it[t \ {Max(t)}] + s[Max(t)].len
    <3>1. Max(t) \in 1..N
      BY <2>1, MaxUpTo
    <3>2. it[t \ {Max(t)}] \in Nat
      OBVIOUS
    <3> QED
      BY <3>1, <3>2, <1>1
  <2> QED
    BY <2>1 DEF IsFold
<1>5. PICK it \in [SUBSET (1..N) -> Nat] : IsFold(it, 0, Step, N)
  BY <1>2, FoldExists
<1>6. Is(it)
  BY <1>4, <1>5
<1>7. Is(chosen)
  <2> HIDE DEF Is
  <2> QED
    BY <1>6
<1>8. ASSUME NEW i \in 1..N
      PROVE  chosen[1..i] = chosen[1..i - 1] + s[i].len
  <2>1. 1..i \in SUBSET (1..N) /\ 1..i # {} /\ i \in Nat
    OBVIOUS
  <2>2. Max(1..i) = i
    <3>1. Max(1..i) \in 1..i /\ \A y \in 1..i : y <= Max(1..i)
      BY <2>1, MaxUpTo
    <3> QED
      BY <2>1, <3>1
  <2>3. (1..i) \ {i} = 1..i - 1
    OBVIOUS
  <2> HIDE DEF chosen
  <2> QED
    BY <2>1, <2>2, <2>3, <1>7
<1>9. chosen[1..0] = 0
  <2>1. 1..0 = {} /\ {} \in SUBSET (1..N)
    OBVIOUS
  <2> HIDE DEF chosen
  <2> QED
    BY <2>1, <1>7
<1> HIDE DEF chosen
<1> DEFINE S == {i \in Nat : i <= N => chosen[1..i] \in Nat}
<1>10. Nat \subseteq S
  <2>1. 0 \in S
    BY <1>9
  <2>2. ASSUME NEW i \in Nat, i \in S PROVE i + 1 \in S
    <3> SUFFICES ASSUME i + 1 <= N PROVE chosen[1..i + 1] \in Nat
      OBVIOUS
    <3>1. chosen[1..i + 1] = chosen[1..(i + 1) - 1] + s[i + 1].len
      BY <1>8
    <3>2. chosen[1..i] \in Nat /\ s[i + 1].len \in Nat /\ (i + 1) - 1 = i
      BY <2>2 DEF Lengthy
    <3> QED
      BY <3>1, <3>2
  <2> HIDE DEF S
  <2> QED
    BY <2>1, <2>2, NatSetInduction
<1>11. \A i \in 0..N : chosen[1..i] \in Nat
  BY <1>10
<1> DEFINE f == [i \in 0..N |-> chosen[1..i]]
<1>12. Sums(s, N, f)
  BY <1>8, <1>9, <1>11 DEF Sums
<1> QED
  BY <1>3, <1>12

LEMMA SumsUnique ==
    ASSUME NEW s, NEW r, NEW N \in Nat, NEW M \in Nat, NEW f, NEW g,
           Sums(s, N, f), Sums(r, M, g), NEW m \in Nat, m <= N, m <= M,
           \A i \in 1..m : s[i].len = r[i].len
    PROVE  f[m] = g[m]
<1> DEFINE S == {i \in Nat : i <= m => f[i] = g[i]}
<1>1. 0 \in S
  BY DEF Sums
<1>2. ASSUME NEW i \in Nat, i \in S PROVE i + 1 \in S
  <2> SUFFICES ASSUME i + 1 <= m PROVE f[i + 1] = g[i + 1]
    OBVIOUS
  <2>1. i + 1 \in 1..N /\ i + 1 \in 1..M /\ i + 1 \in 1..m /\ (i + 1) - 1 = i
    OBVIOUS
  <2>2. /\ f[i + 1] = f[i] + s[i + 1].len
        /\ g[i + 1] = g[i] + r[i + 1].len
    BY <2>1 DEF Sums
  <2>3. f[i] = g[i]
    BY <1>2
  <2> QED
    BY <2>1, <2>2, <2>3
<1>3. Nat \subseteq S
  <2> HIDE DEF S
  <2> QED
    BY <1>1, <1>2, NatSetInduction
<1> QED
  BY <1>3

LEMMA SumsMonotone ==
    ASSUME NEW s, NEW N \in Nat, Lengthy(s, N), NEW f, Sums(s, N, f),
           NEW i \in 0..N, NEW j \in i..N
    PROVE  f[i] <= f[j]
<1> DEFINE S == {d \in Nat : i + d <= N => f[i] <= f[i + d]}
<1>1. 0 \in S
  BY DEF Sums
<1>2. ASSUME NEW d \in Nat, d \in S PROVE d + 1 \in S
  <2> SUFFICES ASSUME i + (d + 1) <= N PROVE f[i] <= f[i + (d + 1)]
    OBVIOUS
  <2>1. f[i] <= f[i + d]
    BY <1>2
  <2>2. i + (d + 1) \in 1..N /\ (i + (d + 1)) - 1 = i + d /\ i + d \in 0..N
    OBVIOUS
  <2>3. f[i + (d + 1)] = f[i + d] + s[i + (d + 1)].len /\ s[i + (d + 1)].len \in Nat
    BY <2>2 DEF Sums, Lengthy
  <2>4. f[i] \in Nat /\ f[i + d] \in Nat
    BY <2>2 DEF Sums
  <2> QED
    BY <2>1, <2>3, <2>4
<1>3. Nat \subseteq S
  <2> HIDE DEF S
  <2> QED
    BY <1>1, <1>2, NatSetInduction
<1>4. j - i \in S /\ i + (j - i) = j
  BY <1>3
<1> QED
  BY <1>4

LEMMA TotalIs ==
    ASSUME NEW s, NEW N \in Nat, Lengthy(s, N), NEW f, Sums(s, N, f)
    PROVE  Total(s) = f[N]
<1>1. PICK g : Sums(s, N, g) /\ Total(s) = g[N]
  BY TotalSums
<1>2. g[N] = f[N]
  BY <1>1, SumsUnique
<1> QED
  BY <1>1, <1>2

-----------------------------------------------------------------------------
(* Offsets in a physlist. *)

LEMMA ElementType ==
    ASSUME NEW S, NEW s \in Seq(S), NEW i \in 1..Len(s)
    PROVE  s[i] \in S
OBVIOUS

LEMMA PhyslistType ==
    ASSUME NEW p \in Physlists
    PROVE  /\ Len(p) \in Nat /\ DOMAIN p = 1..Len(p) /\ Lengthy(p, Len(p))
           /\ \A i \in 1..Len(p) : p[i].len \in Nat /\ p[i].addr \in Nat
<1>1. Len(p) \in Nat /\ DOMAIN p = 1..Len(p)
  BY DEF Physlists
<1>2. \A i \in 1..Len(p) : p[i] \in [addr : Nat, len : Nat]
  BY ElementType DEF Physlists
<1>3. \A i \in 1..Len(p) : p[i].len \in Nat /\ p[i].addr \in Nat
  BY <1>2
<1> QED
  BY <1>1, <1>3 DEF Lengthy

LEMMA BeforeSums ==
    ASSUME NEW p \in Physlists
    PROVE  \E f : /\ Sums(p, Len(p), f)
                  /\ \A i \in 1..Len(p) + 1 : Before(p, i) = f[i - 1]
<1>1. Len(p) \in Nat /\ Lengthy(p, Len(p))
  BY PhyslistType
<1>2. PICK f : Sums(p, Len(p), f)
  BY <1>1, TotalSums
<1>3. ASSUME NEW i \in 1..Len(p) + 1
      PROVE  Before(p, i) = f[i - 1]
  <2> DEFINE s == SubSeq(p, 1, i - 1)
  <2>1. DOMAIN s = 1..i - 1 /\ \A j \in 1..i - 1 : s[j] = p[j]
    BY <1>1 DEF Physlists
  <2>2. i - 1 \in Nat /\ i - 1 <= Len(p) /\ Lengthy(s, i - 1)
    BY <1>1, <2>1 DEF Lengthy
  <2> HIDE DEF s
  <2>3. PICK g : Sums(s, i - 1, g) /\ Total(s) = g[i - 1]
    BY <2>2, TotalSums
  <2>4. g[i - 1] = f[i - 1]
    <3>1. \A j \in 1..i - 1 : s[j].len = p[j].len
      BY <2>1
    <3> QED
      BY ONLY <1>1, <1>2, <2>2, <2>3, <3>1, SumsUnique
  <2> QED
    BY <2>3, <2>4 DEF Before, Total, s
<1> QED
  BY <1>2, <1>3

LEMMA Offsets ==
    ASSUME NEW p \in Physlists
    PROVE  /\ Before(p, 1) = 0
           /\ \A i \in 1..Len(p) + 1 : Before(p, i) \in Nat
           /\ \A i \in 1..Len(p) : Before(p, i + 1) = Before(p, i) + p[i].len
           /\ \A i \in 1..Len(p) + 1, j \in 1..Len(p) + 1 :
                i <= j => Before(p, i) <= Before(p, j)
           /\ \A i \in 1..Len(p) : p[i].len \in Nat /\ p[i].addr \in Nat
           /\ Len(p) \in Nat /\ DOMAIN p = 1..Len(p)
<1>1. Len(p) \in Nat /\ Lengthy(p, Len(p)) /\ \A i \in 1..Len(p) : p[i].addr \in Nat
  BY PhyslistType
<1>2. PICK f : /\ Sums(p, Len(p), f)
               /\ \A i \in 1..Len(p) + 1 : Before(p, i) = f[i - 1]
  BY BeforeSums
<1>3. ASSUME NEW i \in 1..Len(p)
      PROVE  Before(p, i + 1) = Before(p, i) + p[i].len
  <2>1. i + 1 \in 1..Len(p) + 1 /\ i \in 1..Len(p) + 1 /\ (i + 1) - 1 = i
    BY <1>1
  <2> QED
    BY <2>1, <1>2 DEF Sums
<1>4. ASSUME NEW i \in 1..Len(p) + 1, NEW j \in 1..Len(p) + 1, i <= j
      PROVE  Before(p, i) <= Before(p, j)
  <2>1. i - 1 \in 0..Len(p) /\ j - 1 \in i - 1..Len(p)
    BY <1>1, <1>4
  <2>2. f[i - 1] <= f[j - 1]
    BY <2>1, <1>1, <1>2, SumsMonotone
  <2> QED
    BY <2>2, <1>2
<1>5. ASSUME NEW i \in 1..Len(p) + 1 PROVE Before(p, i) \in Nat
  <2>1. i - 1 \in 0..Len(p)
    BY <1>1
  <2> QED
    BY <2>1, <1>2 DEF Sums
<1>6. Before(p, 1) = 0
  <2>1. 1 \in 1..Len(p) + 1 /\ 1 - 1 = 0
    BY <1>1
  <2> QED
    BY <2>1, <1>2 DEF Sums
<1>7. DOMAIN p = 1..Len(p)
  BY DEF Physlists
<1> QED
  BY <1>1, <1>3, <1>4, <1>5, <1>6, <1>7 DEF Lengthy

(* Byte offset of the buffer is in entry i. *)
Holds(p, i, offset) ==
    /\ i \in 1..Len(p)
    /\ Before(p, i) <= offset /\ offset < Before(p, i) + p[i].len

LEMMA HoldsOne ==
    ASSUME NEW p \in Physlists, NEW offset \in Nat, NEW i, NEW j,
           Holds(p, i, offset), Holds(p, j, offset)
    PROVE  i = j
<1>1. ASSUME NEW a \in 1..Len(p), NEW b \in 1..Len(p), a < b
      PROVE  ~(Holds(p, a, offset) /\ Holds(p, b, offset))
  <2>1. /\ a + 1 \in 1..Len(p) + 1 /\ b \in 1..Len(p) + 1 /\ a + 1 <= b
        /\ a \in 1..Len(p) + 1
    BY <1>1, Offsets
  <2>2. Before(p, a) + p[a].len <= Before(p, b)
    BY <2>1, Offsets
  <2>3. /\ Before(p, a) \in Nat /\ Before(p, b) \in Nat /\ p[a].len \in Nat
    BY <2>1, Offsets
  <2> QED
    BY <2>2, <2>3 DEF Holds
<1>2. i \in 1..Len(p) /\ j \in 1..Len(p) /\ Len(p) \in Nat
  BY Offsets DEF Holds
<1> QED
  BY <1>1, <1>2

LEMMA IndexIs ==
    ASSUME NEW p \in Physlists, NEW offset \in Nat, NEW i, Holds(p, i, offset)
    PROVE  /\ GetEntryIndex(p, offset) = i
           /\ VirtToPhys(p, offset) = p[i].addr + offset - Before(p, i)
<1> DEFINE holding == {j \in DOMAIN p :
                         offset \in Before(p, j)..Before(p, j) + p[j].len - 1}
<1>1. ASSUME NEW j \in DOMAIN p
      PROVE  j \in holding <=> Holds(p, j, offset)
  <2>1. j \in 1..Len(p) /\ j \in 1..Len(p) + 1
    BY Offsets
  <2>2. Before(p, j) \in Nat /\ p[j].len \in Nat
    BY <2>1, Offsets
  <2> QED
    BY <2>1, <2>2 DEF Holds
<1>2. i \in DOMAIN p
  BY Offsets DEF Holds
<1>3. holding = {i}
  <2> HIDE DEF holding
  <2>1. holding \subseteq DOMAIN p
    BY DEF holding
  <2> QED
    BY <1>1, <1>2, <2>1, HoldsOne
<1>4. GetEntryIndex(p, offset) = IF holding = {} THEN 0 ELSE CHOOSE j \in holding : TRUE
  BY DEF GetEntryIndex
<1>5. GetEntryIndex(p, offset) = i
  <2> HIDE DEF holding
  <2> QED
    BY <1>3, <1>4
<1>6. i # 0
  BY Offsets DEF Holds
<1> QED
  BY <1>5, <1>6 DEF VirtToPhys

LEMMA IndexHolds ==
    ASSUME NEW p \in Physlists, NEW offset \in Nat, GetEntryIndex(p, offset) # 0
    PROVE  Holds(p, GetEntryIndex(p, offset), offset)
<1> DEFINE holding == {j \in DOMAIN p :
                         offset \in Before(p, j)..Before(p, j) + p[j].len - 1}
<1>1. GetEntryIndex(p, offset) = IF holding = {} THEN 0 ELSE CHOOSE j \in holding : TRUE
  BY DEF GetEntryIndex
<1>2. GetEntryIndex(p, offset) \in holding
  <2> HIDE DEF holding
  <2> QED
    BY <1>1
<1>3. ASSUME NEW j \in holding PROVE Holds(p, j, offset)
  <2>1. j \in 1..Len(p) /\ j \in 1..Len(p) + 1
    BY Offsets
  <2>2. Before(p, j) \in Nat /\ p[j].len \in Nat
    BY <2>1, Offsets
  <2> QED
    BY <2>1, <2>2 DEF Holds
<1> QED
  BY <1>2, <1>3

-----------------------------------------------------------------------------
(* The invariant: what the list holds between two turns of                 *)
(* axidma_add_entry's loop.                                                *)

Entry == [sg_offset : Nat, data_offset : Nat, buf_phys : Nat, len : Nat,
          is_SOF : BOOLEAN, is_EOF : BOOLEAN]

(* The entries of s take the bytes from a to b, one after another. *)
Follow(s, a, b) ==
    /\ IF s = <<>> THEN a = b
       ELSE s[1].data_offset = a /\ s[Len(s)].data_offset + s[Len(s)].len = b
    /\ \A k \in 2..Len(s) : s[k].data_offset = s[k - 1].data_offset + s[k - 1].len

(* An entry is in one run of the data buffer. *)
InOneRun(e) ==
    /\ e.buf_phys = VirtToPhys(data_plist, e.data_offset)
    /\ \E i \in 1..Len(data_plist) :
          /\ Before(data_plist, i) <= e.data_offset
          /\ e.data_offset + e.len <= Before(data_plist, i + 1)

(* Whole calls' entries, as EntriesTile has it. *)
WellFramed(s) ==
    /\ \A k \in 1..Len(s) : s[k].is_SOF <=> (k = 1 \/ s[k - 1].is_EOF)
    /\ s # <<>> => s[Len(s)].is_EOF

NoMarks(s) == \A k \in 1..Len(s) : ~s[k].is_SOF /\ ~s[k].is_EOF

ListType ==
    /\ entries \in Seq(Entry) /\ offsets \in [sg : Nat, data : Nat]
    /\ IF pc = "none"
       THEN sg_plist = <<>> /\ data_plist = <<>> /\ Empty
       ELSE sg_plist \in SgPlists /\ data_plist \in DataPlists

ListTiles ==
    /\ Follow(entries, 0, offsets.data)
    /\ WellFramed(entries)
    /\ \A k \in 1..Len(entries) : InOneRun(entries[k])

(* The call under way. *)
AddType ==
    /\ add.new \in Seq(Entry)
    /\ add.sz \in Nat \ {0}
    /\ add.sg_offset \in Nat /\ add.data_offset \in Nat
    /\ add.ind \in 1..Len(data_plist)
    /\ add.offset_in_entry \in 0..data_plist[add.ind].len
    /\ add = [sz |-> add.sz, ind |-> add.ind, offset_in_entry |-> add.offset_in_entry,
              sg_offset |-> add.sg_offset, data_offset |-> add.data_offset,
              new |-> add.new]

AddTiles ==
    /\ add.data_offset = Before(data_plist, add.ind) + add.offset_in_entry
    /\ Follow(add.new, offsets.data, add.data_offset)
    /\ NoMarks(add.new)
    /\ \A k \in 1..Len(add.new) : InOneRun(add.new[k])

SgInv == ListType /\ ListTiles /\ (pc = "add" => AddType /\ AddTiles)

-----------------------------------------------------------------------------
(* Lists of entries. *)

LEMMA FollowAppend ==
    ASSUME NEW s \in Seq(Entry), NEW a \in Nat, NEW b \in Nat, Follow(s, a, b),
           NEW e \in Entry, e.data_offset = b, NEW c \in Nat, c = b + e.len
    PROVE  Follow(Append(s, e), a, c)
<1> DEFINE t == Append(s, e)
<1>1. Len(s) \in Nat /\ Len(t) = Len(s) + 1 /\ t # <<>>
  OBVIOUS
<1>2. \A k \in 1..Len(s) : t[k] = s[k]
  OBVIOUS
<1>3. t[Len(s) + 1] = e
  OBVIOUS
<1>4. s = <<>> <=> Len(s) = 0
  OBVIOUS
<1> HIDE DEF t
<1>5. t[1].data_offset = a
  BY <1>1, <1>2, <1>3, <1>4 DEF Follow
<1>6. ASSUME NEW k \in 2..Len(s) + 1
      PROVE  t[k].data_offset = t[k - 1].data_offset + t[k - 1].len
  <2>1. CASE k \in 2..Len(s)
    <3>1. k \in 1..Len(s) /\ k - 1 \in 1..Len(s)
      BY <2>1, <1>1
    <3> QED
      BY <2>1, <3>1, <1>2 DEF Follow
  <2>2. CASE k = Len(s) + 1
    <3>1. k - 1 = Len(s) /\ Len(s) \in 1..Len(s) /\ s # <<>>
      BY <2>2, <1>1, <1>4
    <3> QED
      BY <2>2, <3>1, <1>2, <1>3 DEF Follow
  <2> QED
    BY <2>1, <2>2, <1>1
<1> QED
  BY <1>1, <1>3, <1>5, <1>6 DEF Follow, t

LEMMA FollowConcat ==
    ASSUME NEW s \in Seq(Entry), NEW t \in Seq(Entry),
           NEW a \in Nat, NEW b \in Nat, NEW c \in Nat,
           Follow(s, a, b), Follow(t, b, c)
    PROVE  Follow(s \o t, a, c)
<1> DEFINE u == s \o t
<1>1. Len(s) \in Nat /\ Len(t) \in Nat /\ Len(u) = Len(s) + Len(t)
  OBVIOUS
<1>2. \A k \in 1..Len(s) : u[k] = s[k]
  OBVIOUS
<1>3. \A k \in 1..Len(t) : u[Len(s) + k] = t[k]
  OBVIOUS
<1>4. /\ s = <<>> <=> Len(s) = 0
      /\ t = <<>> <=> Len(t) = 0
      /\ u = <<>> <=> Len(u) = 0
  OBVIOUS
<1> HIDE DEF u
<1>5. u = <<>> => a = c
  BY <1>1, <1>4 DEF Follow
<1>6. u # <<>> => u[1].data_offset = a
  <2>1. CASE s # <<>>
    BY <2>1, <1>1, <1>2, <1>4 DEF Follow
  <2>2. CASE s = <<>>
    <3>1. Len(s) = 0 /\ (u # <<>> => 1 \in 1..Len(t) /\ t # <<>>) /\ a = b
      BY <2>2, <1>1, <1>4 DEF Follow
    <3> QED
      BY <3>1, <1>3 DEF Follow
  <2> QED
    BY <2>1, <2>2
<1>7. u # <<>> => u[Len(u)].data_offset + u[Len(u)].len = c
  <2>1. CASE t # <<>>
    <3>1. Len(t) \in 1..Len(t)
      BY <2>1, <1>1, <1>4
    <3> QED
      BY <2>1, <3>1, <1>1, <1>3 DEF Follow
  <2>2. CASE t = <<>>
    <3>1. Len(u) = Len(s) /\ b = c /\ (u # <<>> => Len(s) \in 1..Len(s) /\ s # <<>>)
      BY <2>2, <1>1, <1>4 DEF Follow
    <3> QED
      BY <3>1, <1>2 DEF Follow
  <2> QED
    BY <2>1, <2>2
<1>8. ASSUME NEW k \in 2..Len(u)
      PROVE  u[k].data_offset = u[k - 1].data_offset + u[k - 1].len
  <2>1. CASE k <= Len(s)
    <3>1. k \in 1..Len(s) /\ k - 1 \in 1..Len(s) /\ k \in 2..Len(s)
      BY <2>1, <1>1
    <3> QED
      BY <3>1, <1>2 DEF Follow
  <2>2. CASE k = Len(s) + 1
    <3>1. /\ 1 \in 1..Len(t) /\ t # <<>> /\ s # <<>>
          /\ k - 1 = Len(s) /\ Len(s) \in 1..Len(s)
      BY <2>2, <1>1, <1>4
    <3>2. u[k] = t[1] /\ u[k - 1] = s[Len(s)]
      BY <2>2, <3>1, <1>2, <1>3
    <3> QED
      BY <3>1, <3>2 DEF Follow
  <2>3. CASE Len(s) + 1 < k
    <3> DEFINE j == k - Len(s)
    <3>1. /\ j \in 2..Len(t) /\ j \in 1..Len(t) /\ j - 1 \in 1..Len(t)
          /\ k = Len(s) + j /\ k - 1 = Len(s) + (j - 1)
      BY <2>3, <1>1
    <3>2. u[k] = t[j] /\ u[k - 1] = t[j - 1]
      BY <3>1, <1>3
    <3> QED
      BY <3>1, <3>2 DEF Follow
  <2> QED
    BY <2>1, <2>2, <2>3, <1>1
<1> QED
  BY <1>5, <1>6, <1>7, <1>8 DEF Follow, u

LEMMA IsSequence ==
    ASSUME NEW S, NEW f, NEW n \in Nat, f = [k \in 1..n |-> f[k]],
           \A k \in 1..n : f[k] \in S
    PROVE  f \in Seq(S) /\ Len(f) = n
<1>1. f \in [1..n -> S]
  OBVIOUS
<1> QED
  BY ONLY <1>1, n \in Nat

(* Framing marks the ends and leaves the rest. *)
LEMMA EndsMarked ==
    ASSUME NEW x \in Entry, NEW y, y = [x EXCEPT !.is_EOF = TRUE]
    PROVE  /\ y \in Entry /\ y.is_EOF
           /\ y.sg_offset = x.sg_offset /\ y.data_offset = x.data_offset
           /\ y.buf_phys = x.buf_phys /\ y.len = x.len /\ y.is_SOF = x.is_SOF
BY DEF Entry

(* r is t with the first entry marked as SOF and the last as EOF. *)
FrameOf(r, t, n) ==
    /\ r \in Seq(Entry) /\ Len(r) = n /\ t \in Seq(Entry) /\ Len(t) = n
    /\ \A k \in 1..n : /\ r[k].sg_offset = t[k].sg_offset
                       /\ r[k].data_offset = t[k].data_offset
                       /\ r[k].buf_phys = t[k].buf_phys
                       /\ r[k].len = t[k].len
                       /\ r[k].is_SOF <=> k = 1
                       /\ r[k].is_EOF <=> k = n

LEMMA FramedIs ==
    ASSUME NEW s \in Seq(Entry), NEW e \in Entry, NoMarks(s), ~e.is_SOF, ~e.is_EOF
    PROVE  FrameOf(Framed(Append(s, e)), Append(s, e), Len(s) + 1)
<1> DEFINE t == Append(s, e)
           n == Len(s) + 1
           u == [t EXCEPT ![1].is_SOF = TRUE]
<1>1. Len(s) \in Nat /\ Len(t) = n /\ t \in Seq(Entry) /\ n \in Nat /\ 1 \in 1..n /\ n \in 1..n
  OBVIOUS
<1>2. ASSUME NEW k \in 1..n
      PROVE  t[k] \in Entry /\ ~t[k].is_SOF /\ ~t[k].is_EOF
  <2>1. CASE k \in 1..Len(s)
    <3>1. t[k] = s[k]
      BY <2>1
    <3>2. s[k] \in Entry
      BY <2>1, ElementType
    <3> QED
      BY <2>1, <3>1, <3>2 DEF NoMarks
  <2>2. CASE k = n
    <3>1. t[k] = e
      BY <2>2
    <3> QED
      BY <3>1
  <2> QED
    BY <2>1, <2>2, <1>1
<1>3. DOMAIN t = 1..n
  OBVIOUS
<1> HIDE DEF t, n
<1>4. /\ DOMAIN u = 1..n
      /\ u[1] = [t[1] EXCEPT !.is_SOF = TRUE]
      /\ \A k \in 1..n : k # 1 => u[k] = t[k]
  BY <1>1, <1>3
<1> HIDE DEF u
<1>5. /\ DOMAIN Framed(t) = 1..n
      /\ Framed(t)[n] = [u[n] EXCEPT !.is_EOF = TRUE]
      /\ \A k \in 1..n : k # n => Framed(t)[k] = u[k]
  BY <1>1, <1>4 DEF Framed, u
<1>6. ASSUME NEW k \in 1..n
      PROVE  /\ u[k] \in Entry
             /\ u[k].sg_offset = t[k].sg_offset
             /\ u[k].data_offset = t[k].data_offset
             /\ u[k].buf_phys = t[k].buf_phys
             /\ u[k].len = t[k].len
             /\ u[k].is_SOF <=> k = 1
             /\ u[k].is_EOF <=> FALSE
  <2>1. CASE k = 1
    BY <2>1, <1>2, <1>4 DEF Entry
  <2>2. CASE k # 1
    BY <2>2, <1>2, <1>4 DEF Entry
  <2> QED
    BY <2>1, <2>2
<1>7. ASSUME NEW k \in 1..n
      PROVE  /\ Framed(t)[k] \in Entry
             /\ Framed(t)[k].sg_offset = t[k].sg_offset
             /\ Framed(t)[k].data_offset = t[k].data_offset
             /\ Framed(t)[k].buf_phys = t[k].buf_phys
             /\ Framed(t)[k].len = t[k].len
             /\ Framed(t)[k].is_SOF <=> k = 1
             /\ Framed(t)[k].is_EOF <=> k = n
  <2>1. CASE k = n
    <3>1. Framed(t)[k] = [u[k] EXCEPT !.is_EOF = TRUE]
      BY <2>1, <1>5
    <3> HIDE DEF Framed
    <3>2. u[k] \in Entry
      BY <1>6
    <3> QED
      BY <2>1, <3>1, <3>2, <1>6, EndsMarked
  <2>2. CASE k # n
    BY <2>2, <1>5, <1>6 DEF Entry
  <2> QED
    BY <2>1, <2>2
<1>8. Framed(t) \in Seq(Entry) /\ Len(Framed(t)) = n
  <2>1. Framed(t) = [k \in 1..n |-> Framed(t)[k]]
    BY <1>5 DEF Framed, u
  <2>2. \A k \in 1..n : Framed(t)[k] \in Entry
    BY <1>7
  <2> DEFINE f == Framed(t)
  <2>3. n \in Nat
    BY <1>1
  <2>4. f = [k \in 1..n |-> f[k]] /\ \A k \in 1..n : f[k] \in Entry
    BY <2>1, <2>2
  <2> HIDE DEF f
  <2>5. f \in Seq(Entry) /\ Len(f) = n
    BY ONLY <2>3, <2>4, IsSequence
  <2> QED
    BY <2>5 DEF f
<1> QED
  BY <1>1, <1>7, <1>8 DEF t, n, FrameOf

-----------------------------------------------------------------------------
(* What the helpers return. *)

LEMMA VirtToPhysType ==
    ASSUME NEW p \in Physlists, NEW offset \in Nat
    PROVE  VirtToPhys(p, offset) \in Nat
<1> DEFINE i == GetEntryIndex(p, offset)
<1>1. CASE i = 0
  BY <1>1 DEF VirtToPhys
<1>2. CASE i # 0
  <2>1. Holds(p, i, offset)
    BY <1>2, IndexHolds
  <2> HIDE DEF i
  <2>2. VirtToPhys(p, offset) = p[i].addr + offset - Before(p, i)
    BY <2>1, IndexIs
  <2>3. i \in 1..Len(p) /\ i \in 1..Len(p) + 1
    BY <2>1, Offsets DEF Holds
  <2>4. Before(p, i) \in Nat /\ p[i].addr \in Nat
    BY <2>3, Offsets
  <2> QED
    BY <2>1, <2>2, <2>4 DEF Holds
<1> QED
  BY <1>1, <1>2

LEMMA ModRange ==
    ASSUME NEW x \in Int, NEW m \in Nat \ {0}
    PROVE  x % m \in 0..m - 1
OBVIOUS

LEMMA ModKeeps ==
    ASSUME NEW m \in Nat \ {0}, NEW x \in 0..m - 1
    PROVE  x % m = x
OBVIOUS

LEMMA Positive == /\ UINT \in Nat \ {0} /\ ALIGN \in Nat \ {0} /\ DESC \in Nat \ {0}
                  /\ Sizes \subseteq 0..UINT - 1
BY SgListAssumption

LEMMA Buffers ==
    ASSUME NEW p \in SgPlists \cup DataPlists
    PROVE  /\ p \in Physlists
           /\ \A i \in 1..Len(p) + 1 : Before(p, i) < UINT
           /\ \A i \in 1..Len(p) : Before(p, i) + p[i].len < UINT /\ p[i].len < UINT
<1>1. p \in Physlists /\ SizeOf(p) < UINT /\ UINT \in Nat
  BY SgListAssumption, SizeAssumption
<1>2. Len(p) \in Nat /\ Len(p) + 1 \in 1..Len(p) + 1
  BY <1>1, Offsets
<1>3. ASSUME NEW i \in 1..Len(p) + 1 PROVE Before(p, i) < UINT
  <2>1. i <= Len(p) + 1
    BY <1>2
  <2>2. Before(p, i) <= Before(p, Len(p) + 1)
    BY <1>1, <1>2, <2>1, Offsets
  <2>3. Before(p, i) \in Nat /\ Before(p, Len(p) + 1) \in Nat
    BY <1>1, <1>2, Offsets
  <2> QED
    BY <1>1, <2>2, <2>3 DEF SizeOf
<1>4. ASSUME NEW i \in 1..Len(p)
      PROVE  Before(p, i) + p[i].len < UINT /\ p[i].len < UINT
  <2>1. i + 1 \in 1..Len(p) + 1 /\ i \in 1..Len(p) + 1
    BY <1>2
  <2>2. Before(p, i + 1) = Before(p, i) + p[i].len /\ Before(p, i + 1) < UINT
    BY <1>1, <1>3, <2>1, Offsets
  <2>3. Before(p, i) \in Nat /\ p[i].len \in Nat
    BY <1>1, <2>1, Offsets
  <2> QED
    BY <1>1, <2>2, <2>3
<1> QED
  BY <1>1, <1>3, <1>4

LEMMA AlignedType ==
    ASSUME NEW e, e.addr \in Nat, NEW o \in Nat
    PROVE  Aligned(e, o) \in Nat /\ o <= Aligned(e, o) /\ Aligned(e, o) < o + ALIGN
<1>1. (ALIGN - ((e.addr + o) % ALIGN)) % ALIGN \in 0..ALIGN - 1
  <2>0. e.addr + o \in Int
    OBVIOUS
  <2>1. (e.addr + o) % ALIGN \in 0..ALIGN - 1
    BY ONLY <2>0, Positive, ModRange
  <2> DEFINE x == (e.addr + o) % ALIGN
  <2>2. ALIGN - x \in Int
    BY <2>1, Positive
  <2> HIDE DEF x
  <2>3. (ALIGN - x) % ALIGN \in 0..ALIGN - 1
    BY <2>2, Positive, ModRange
  <2> QED
    BY <2>3 DEF x
<1> QED
  BY <1>1, Positive DEF Aligned

(* The run that find_contiguous_aligned_after stops at. *)
Start(p, offset, i) ==
    Aligned(p[i], IF i = GetEntryIndex(p, offset) THEN offset - Before(p, i) ELSE 0)

LEMMA SearchStops ==
    ASSUME NEW p \in Physlists, NEW offset \in Nat, NEW sz \in Nat,
           FindContiguousAlignedAfter(p, offset, sz) # AXIDMA_NOT_FOUND
    PROVE  \E i \in 1..Len(p) :
              /\ GetEntryIndex(p, offset) # 0 /\ GetEntryIndex(p, offset) <= i
              /\ sz <= SpaceLeft(p[i], Start(p, offset, i))
              /\ FindContiguousAlignedAfter(p, offset, sz) =
                   (Before(p, i) + Start(p, offset, i)) % UINT
<1> DEFINE ind == GetEntryIndex(p, offset)
           at(i) == Aligned(p[i], IF i = ind THEN offset - Before(p, i) ELSE 0)
           fitting == {i \in ind..Len(p) : sz <= SpaceLeft(p[i], at(i))}
<1>1. FindContiguousAlignedAfter(p, offset, sz) =
        IF ind = 0 \/ fitting = {} THEN AXIDMA_NOT_FOUND
        ELSE (Before(p, Min(fitting)) + at(Min(fitting))) % UINT
  BY DEF FindContiguousAlignedAfter
<1>2. ind # 0 /\ fitting # {}
  BY <1>1
<1>3. Holds(p, ind, offset)
  BY <1>2, IndexHolds
<1>4. ind \in 1..Len(p) /\ Len(p) \in Nat
  BY <1>3, Offsets DEF Holds
<1>5. fitting \in SUBSET Nat
  <2> HIDE DEF ind, at
  <2> QED
    BY <1>4
<1>6. Min(fitting) \in fitting
  <2> HIDE DEF fitting
  <2> QED
    BY <1>2, <1>5, MinUpTo
<1> DEFINE m == Min(fitting)
<1>7. m \in ind..Len(p) /\ sz <= SpaceLeft(p[m], at(m))
  BY <1>6
<1>8. FindContiguousAlignedAfter(p, offset, sz) = (Before(p, m) + at(m)) % UINT
  BY <1>1, <1>2
<1> HIDE DEF m, fitting
<1>9. at(m) = Start(p, offset, m)
  BY DEF Start
<1> HIDE DEF at, ind
<1>10. m \in 1..Len(p) /\ ind <= m
  BY <1>4, <1>7
<1> QED
  BY <1>2, <1>7, <1>8, <1>9, <1>10 DEF ind

LEMMA SearchType ==
    ASSUME NEW p \in Physlists, NEW offset \in Nat, NEW sz \in Nat
    PROVE  FindContiguousAlignedAfter(p, offset, sz) \in 0..UINT - 1
<1>1. CASE FindContiguousAlignedAfter(p, offset, sz) = AXIDMA_NOT_FOUND
  BY <1>1, Positive DEF AXIDMA_NOT_FOUND
<1>2. CASE FindContiguousAlignedAfter(p, offset, sz) # AXIDMA_NOT_FOUND
  <2>1. PICK i \in 1..Len(p) :
              /\ GetEntryIndex(p, offset) # 0
              /\ FindContiguousAlignedAfter(p, offset, sz) =
                   (Before(p, i) + Start(p, offset, i)) % UINT
    BY <1>2, SearchStops
  <2>2. i \in 1..Len(p) + 1 /\ p[i].addr \in Nat
    BY Offsets
  <2>3. Before(p, i) \in Nat
    BY <2>2, Offsets
  <2>4. i = GetEntryIndex(p, offset) => offset - Before(p, i) \in Nat
    <3>1. Holds(p, GetEntryIndex(p, offset), offset)
      BY <2>1, IndexHolds
    <3> QED
      BY <3>1, <2>3 DEF Holds
  <2>5. Start(p, offset, i) \in Nat
    BY <2>2, <2>4, AlignedType DEF Start
  <2>6. Before(p, i) + Start(p, offset, i) \in Int
    BY <2>3, <2>5
  <2>7. (Before(p, i) + Start(p, offset, i)) % UINT \in 0..UINT - 1
    BY ONLY <2>6, Positive, ModRange
  <2> QED
    BY <2>1, <2>7
<1> QED
  BY <1>1, <1>2

-----------------------------------------------------------------------------
(* The invariant holds. *)

(* What the turns of the loop have in common. *)
LEMMA Turn ==
    ASSUME SgInv, pc = "add"
    PROVE  LET e == data_plist[add.ind] IN
           /\ data_plist \in Physlists /\ sg_plist \in Physlists
           /\ data_plist \in DataPlists /\ sg_plist \in SgPlists
           /\ Len(data_plist) \in Nat
           /\ add.ind \in 1..Len(data_plist) /\ add.ind \in 1..Len(data_plist) + 1
           /\ add.ind + 1 \in 1..Len(data_plist) + 1
           /\ e.len \in 0..UINT - 1 /\ e.addr \in Nat
           /\ Space \in Nat /\ Space = e.len - add.offset_in_entry
           /\ Before(data_plist, add.ind) \in Nat
           /\ Before(data_plist, add.ind + 1) = Before(data_plist, add.ind) + e.len
           /\ Before(data_plist, add.ind + 1) < UINT
           /\ add.data_offset + Space = Before(data_plist, add.ind + 1)
           /\ DescriptorAt \in Nat /\ NextSgOffset \in Nat
<1>1. /\ data_plist \in DataPlists /\ sg_plist \in SgPlists /\ AddType /\ AddTiles
  BY DEF SgInv, ListType
<1>2. data_plist \in Physlists /\ sg_plist \in Physlists
  BY <1>1, Buffers
<1>3. /\ Len(data_plist) \in Nat /\ add.ind \in 1..Len(data_plist)
  BY <1>1, <1>2, Offsets DEF AddType
<1>4. /\ add.ind \in 1..Len(data_plist) + 1 /\ add.ind + 1 \in 1..Len(data_plist) + 1
  BY <1>3
<1> DEFINE e == data_plist[add.ind]
<1>5. e.len \in Nat /\ e.addr \in Nat /\ e.len < UINT
  BY <1>1, <1>2, <1>3, Offsets, Buffers
<1>6. /\ Before(data_plist, add.ind) \in Nat
      /\ Before(data_plist, add.ind + 1) = Before(data_plist, add.ind) + e.len
      /\ Before(data_plist, add.ind + 1) < UINT
  BY <1>1, <1>2, <1>3, <1>4, Offsets, Buffers
<1>7. add.offset_in_entry \in 0..e.len
  BY <1>1 DEF AddType
<1> HIDE DEF e
<1>8. Space = e.len - add.offset_in_entry /\ Space \in Nat
  <2>1. e.len - add.offset_in_entry \in 0..UINT - 1
    BY <1>5, <1>7, Positive
  <2>2. (e.len - add.offset_in_entry) % UINT = e.len - add.offset_in_entry
    BY ONLY <2>1, Positive, ModKeeps
  <2> QED
    BY <2>1, <2>2 DEF Space, SpaceLeft, e
<1>9. add.data_offset + Space = Before(data_plist, add.ind + 1)
  BY <1>1, <1>5, <1>6, <1>7, <1>8 DEF AddTiles
<1>10. DescriptorAt \in 0..UINT - 1
  <2>1. add.sg_offset \in Nat /\ DESC \in Nat
    BY <1>1, Positive DEF AddType
  <2> QED
    BY <1>2, <2>1, SearchType DEF DescriptorAt
<1>11. NextSgOffset \in 0..UINT - 1
  <2>1. DescriptorAt + DESC \in Int
    BY <1>10, Positive
  <2> QED
    BY <2>1, Positive, ModRange DEF NextSgOffset
<1>12. DescriptorAt \in Nat /\ NextSgOffset \in Nat /\ e.len \in 0..UINT - 1
  BY <1>5, <1>10, <1>11, Positive
<1> QED
  BY <1>1, <1>2, <1>3, <1>4, <1>5, <1>6, <1>8, <1>9, <1>12 DEF e

LEMMA Built ==
    ASSUME SgInv, pc = "add", NEW n \in 0..Space
    PROVE  LET e == SgEntry(n) IN
           /\ e \in Entry /\ InOneRun(e) /\ ~e.is_SOF /\ ~e.is_EOF
           /\ e.data_offset = add.data_offset /\ e.len = n
           /\ n \in Nat /\ add.data_offset + n < UINT /\ add.data_offset \in Nat
           /\ Follow(Append(add.new, e), offsets.data, add.data_offset + n)
<1> DEFINE e == SgEntry(n)
<1>0. AddType /\ AddTiles /\ offsets.data \in Nat
  BY DEF SgInv, ListType
<1>1. n \in Nat /\ add.data_offset \in Nat /\ n <= Space
  BY <1>0, Turn DEF AddType
<1>2. /\ VirtToPhys(data_plist, add.data_offset) \in Nat /\ DescriptorAt \in Nat
  BY <1>1, Turn, VirtToPhysType
<1>3. e \in Entry /\ ~e.is_SOF /\ ~e.is_EOF /\ e.data_offset = add.data_offset /\ e.len = n
  BY <1>1, <1>2 DEF SgEntry, Entry
<1>4. e.buf_phys = VirtToPhys(data_plist, e.data_offset)
  BY DEF SgEntry
<1> HIDE DEF e
<1>5. Before(data_plist, add.ind) <= add.data_offset
  <2>1. add.offset_in_entry >= 0 /\ add.offset_in_entry \in Int
    BY <1>0, Turn DEF AddType
  <2> QED
    BY <1>0, <2>1, Turn DEF AddTiles
<1>6. /\ add.data_offset + n <= Before(data_plist, add.ind + 1)
      /\ add.data_offset + n < UINT
  <2>1. /\ add.data_offset + Space = Before(data_plist, add.ind + 1)
        /\ Before(data_plist, add.ind + 1) < UINT
        /\ Before(data_plist, add.ind + 1) \in Nat /\ Space \in Nat
    BY Turn
  <2> HIDE DEF e
  <2> QED
    BY ONLY <1>1, <2>1, Positive
<1>7. InOneRun(e)
  BY <1>3, <1>4, <1>5, <1>6, Turn DEF InOneRun
<1>8. Follow(Append(add.new, e), offsets.data, add.data_offset + n)
  <2>1. add.new \in Seq(Entry) /\ Follow(add.new, offsets.data, add.data_offset)
    BY <1>0 DEF AddType, AddTiles
  <2>2. add.data_offset + n \in Nat
    BY <1>1
  <2> QED
    BY <1>0, <1>1, <1>3, <2>1, <2>2, FollowAppend
<1> QED
  BY <1>1, <1>3, <1>6, <1>7, <1>8 DEF e

LEMMA SgInit == Init => SgInv
<1> SUFFICES ASSUME Init PROVE SgInv
  OBVIOUS
<1>1. <<>> \in Seq(Entry) /\ Len(<<>>) = 0
  OBVIOUS
<1>2. ListType
  BY <1>1 DEF Init, Empty, ListType
<1>3. ListTiles
  <2>1. entries = <<>> /\ Len(entries) = 0 /\ offsets.data = 0
    BY <1>1 DEF Init, Empty
  <2>2. Follow(entries, 0, 0) /\ WellFramed(entries)
    BY <2>1 DEF Follow, WellFramed
  <2> QED
    BY <2>1, <2>2 DEF ListTiles
<1> QED
  BY <1>2, <1>3 DEF SgInv, Init

(* The data buffer and the list stay, whatever the program does. *)
LEMMA SgKeeps ==
    ASSUME SgInv, UNCHANGED <<sg_plist, data_plist, entries, offsets>>,
           pc' = "none" <=> pc = "none",
           pc' = "add" => pc = "add" /\ UNCHANGED add
    PROVE  SgInv'
<1>1. ListType'
  BY DEF SgInv, ListType, Empty
<1>2. ListTiles'
  BY DEF SgInv, ListTiles, InOneRun
<1>3. ASSUME pc' = "add" PROVE AddType' /\ AddTiles'
  <2>1. AddType /\ AddTiles /\ UNCHANGED add
    BY <1>3 DEF SgInv
  <2>2. AddType'
    BY <2>1 DEF AddType
  <2>3. AddTiles'
    BY <2>1 DEF AddTiles, InOneRun
  <2> QED
    BY <2>2, <2>3
<1> QED
  BY <1>1, <1>2, <1>3 DEF SgInv

LEMMA SgListNew ==
    ASSUME SgInv, NEW sp \in SgPlists, NEW dp \in DataPlists, ListNew(sp, dp)
    PROVE  SgInv'
<1>1. /\ Empty /\ pc = "none" /\ pc' = "idle" /\ sg_plist' = sp /\ data_plist' = dp
      /\ entries' = <<>> /\ offsets' = [sg |-> 0, data |-> 0]
  BY DEF SgInv, ListType, ListNew, Empty
<1>2. <<>> \in Seq(Entry) /\ Len(<<>>) = 0
  OBVIOUS
<1>3. ListType'
  BY <1>1, <1>2 DEF ListType
<1>4. ListTiles'
  <2>1. Len(entries') = 0 /\ offsets'.data = 0
    BY <1>1, <1>2
  <2>2. Follow(entries', 0, 0) /\ WellFramed(entries')
    BY <1>1, <2>1 DEF Follow, WellFramed
  <2> QED
    BY <2>1, <2>2 DEF ListTiles
<1> QED
  BY <1>1, <1>3, <1>4 DEF SgInv

LEMMA SgListDel ==
    ASSUME SgInv, ListDel
    PROVE  SgInv'
<1>1. /\ pc' = "none" /\ sg_plist' = <<>> /\ data_plist' = <<>>
      /\ entries' = <<>> /\ offsets' = [sg |-> 0, data |-> 0]
  BY DEF ListDel
<1>2. <<>> \in Seq(Entry) /\ Len(<<>>) = 0
  OBVIOUS
<1>3. ListType'
  BY <1>1, <1>2 DEF ListType, Empty
<1>4. ListTiles'
  <2>1. Len(entries') = 0 /\ offsets'.data = 0
    BY <1>1, <1>2
  <2>2. Follow(entries', 0, 0) /\ WellFramed(entries')
    BY <1>1, <2>1 DEF Follow, WellFramed
  <2> QED
    BY <2>1, <2>2 DEF ListTiles
<1> QED
  BY <1>1, <1>3, <1>4 DEF SgInv

LEMMA SgAddFails ==
    ASSUME SgInv, pc \in {"idle", "add"}, NEW code, AddFails(code)
    PROVE  SgInv'
BY SgKeeps DEF AddFails, AddReturns

LEMMA SgAddEntry ==
    ASSUME SgInv, NEW sz \in Sizes, AddEntry(sz)
    PROVE  SgInv'
<1> DEFINE ind == GetEntryIndex(data_plist, offsets.data)
<1>1. CASE \E code : AddFails(code)
  BY <1>1, SgAddFails DEF AddEntry
<1>2. CASE ~\E code : AddFails(code)
  <2>1. /\ pc = "idle" /\ sz # 0 /\ ind # 0 /\ pc' = "add"
        /\ add' = [sz |-> sz, ind |-> ind,
                   offset_in_entry |-> offsets.data - Before(data_plist, ind),
                   sg_offset |-> offsets.sg,
                   data_offset |-> offsets.data, new |-> <<>>]
        /\ UNCHANGED <<sg_plist, data_plist, entries, offsets, ret>>
    BY <1>2 DEF AddEntry
  <2>2. /\ data_plist \in DataPlists /\ sg_plist \in SgPlists
        /\ offsets.data \in Nat /\ offsets.sg \in Nat
    BY <2>1 DEF SgInv, ListType
  <2>3. data_plist \in Physlists
    BY <2>2, Buffers
  <2>4. Holds(data_plist, ind, offsets.data)
    BY <2>1, <2>2, <2>3, IndexHolds
  <2>5. ind \in 1..Len(data_plist) /\ ind \in 1..Len(data_plist) + 1
    BY <2>3, <2>4, Offsets DEF Holds
  <2>6. Before(data_plist, ind) \in Nat /\ data_plist[ind].len \in Nat
    BY <2>3, <2>5, Offsets
  <2> HIDE DEF ind
  <2>7. offsets.data - Before(data_plist, ind) \in 0..data_plist[ind].len
    BY <2>2, <2>4, <2>6 DEF Holds
  <2>8. ListType' /\ ListTiles'
    <3>1. ListType'
      BY <2>1 DEF SgInv, ListType, Empty
    <3>2. ListTiles'
      BY <2>1 DEF SgInv, ListTiles, InOneRun
    <3> QED
      BY <3>1, <3>2
  <2>9. <<>> \in Seq(Entry) /\ Len(<<>>) = 0 /\ sz \in Nat \ {0}
    BY <2>1, Positive
  <2>10. AddType'
    BY <2>1, <2>2, <2>5, <2>7, <2>9 DEF AddType
  <2>11. AddTiles'
    <3>1. Follow(<<>>, offsets.data, offsets.data) /\ NoMarks(<<>>)
      BY <2>9 DEF Follow, NoMarks
    <3> QED
      BY <2>1, <2>2, <2>6, <2>9, <3>1 DEF AddTiles
  <2> QED
    BY <2>8, <2>10, <2>11 DEF SgInv
<1> QED
  BY <1>1, <1>2

LEMMA SgNextPart ==
    ASSUME SgInv, NextPart
    PROVE  SgInv'
<1> DEFINE e == SgEntry(Space)
<1>1. /\ pc = "add" /\ pc' = "add" /\ Space < add.sz /\ add.ind < Len(data_plist)
      /\ UNCHANGED <<sg_plist, data_plist, entries, offsets>>
      /\ add' = [add EXCEPT !.sz = @ - Space, !.ind = @ + 1,
                          !.offset_in_entry = 0,
                          !.sg_offset = NextSgOffset,
                          !.data_offset = (@ + Space) % UINT,
                          !.new = Append(@, e)]
  BY DEF NextPart
<1>2. AddType /\ AddTiles /\ Space \in 0..Space
  BY <1>1, Turn DEF SgInv
<1>3. /\ e \in Entry /\ InOneRun(e) /\ ~e.is_SOF /\ ~e.is_EOF
      /\ add.data_offset + Space < UINT /\ add.data_offset \in Nat
      /\ Follow(Append(add.new, e), offsets.data, add.data_offset + Space)
  BY <1>1, <1>2, Built
<1>4. (add.data_offset + Space) % UINT = add.data_offset + Space
  <2>0. Space \in Nat
    BY <1>1, Turn
  <2>1. add.data_offset + Space \in 0..UINT - 1
    BY ONLY <1>3, <2>0, Positive
  <2> QED
    BY ONLY <2>1, Positive, ModKeeps
<1>5. add' = [sz |-> add.sz - Space, ind |-> add.ind + 1, offset_in_entry |-> 0,
              sg_offset |-> NextSgOffset,
              data_offset |-> Before(data_plist, add.ind + 1),
              new |-> Append(add.new, e)]
  <2>1. (add.data_offset + Space) % UINT = Before(data_plist, add.ind + 1)
    BY <1>1, <1>4, Turn
  <2> HIDE DEF e
  <2> QED
    BY <1>1, <1>2, <2>1 DEF AddType
<1> HIDE DEF e
<1>6. ListType' /\ ListTiles'
  <2>1. ListType'
    BY <1>1 DEF SgInv, ListType, Empty
  <2>2. ListTiles'
    BY <1>1 DEF SgInv, ListTiles, InOneRun
  <2> QED
    BY <2>1, <2>2
<1>7. /\ add.ind + 1 \in 1..Len(data_plist) /\ Before(data_plist, add.ind + 1) \in Nat
      /\ data_plist[add.ind + 1].len \in Nat
  BY <1>1, Turn, Offsets
<1>8. Append(add.new, e) \in Seq(Entry)
  BY <1>2, <1>3 DEF AddType
<1>9. AddType'
  <2>0. add.sz \in Nat /\ Space \in Nat /\ Space < add.sz /\ NextSgOffset \in Nat
    BY <1>1, <1>2, Turn DEF AddType
  <2>1. add.sz - Space \in Nat \ {0} /\ 0 \in 0..data_plist[add.ind + 1].len
    BY <1>7, <2>0
  <2> DEFINE a == [sz |-> add.sz - Space, ind |-> add.ind + 1, offset_in_entry |-> 0,
                   sg_offset |-> NextSgOffset,
                   data_offset |-> Before(data_plist, add.ind + 1),
                   new |-> Append(add.new, e)]
  <2>2. add' = a /\ data_plist' = data_plist
    BY <1>1, <1>5
  <2> QED
    BY <1>7, <1>8, <2>0, <2>1, <2>2 DEF AddType
<1>10. AddTiles'
  <2>1. Follow(Append(add.new, e), offsets.data, Before(data_plist, add.ind + 1))
    BY <1>1, <1>3, Turn
  <2>2. ASSUME NEW k \in 1..Len(Append(add.new, e))
        PROVE  /\ ~Append(add.new, e)[k].is_SOF /\ ~Append(add.new, e)[k].is_EOF
               /\ InOneRun(Append(add.new, e)[k])
    <3>1. /\ k \in 1..Len(add.new) /\ Append(add.new, e)[k] = add.new[k]
          \/ Append(add.new, e)[k] = e
      BY <1>2 DEF AddType
    <3> QED
      BY <1>2, <1>3, <3>1 DEF AddTiles, NoMarks
  <2>3. Before(data_plist, add.ind + 1) = Before(data_plist, add.ind + 1) + 0
    BY <1>7
  <2>4. /\ add'.new = Append(add.new, e) /\ add'.ind = add.ind + 1
        /\ add'.data_offset = Before(data_plist, add.ind + 1)
        /\ add'.offset_in_entry = 0
        /\ data_plist' = data_plist /\ offsets' = offsets
    <3>1. UNCHANGED <<data_plist, offsets>>
      BY <1>1
    <3> QED
      BY ONLY <1>5, <3>1
  <2>5. \A k \in 1..Len(add'.new) : InOneRun(add.new[k])'
    BY <2>2, <2>4 DEF InOneRun
  <2>6. NoMarks(add.new)'
    BY <2>2, <2>4 DEF NoMarks
  <2>7. Follow(add.new, offsets.data, add.data_offset)'
    BY <2>1, <2>4 DEF Follow
  <2> QED
    BY <2>3, <2>4, <2>5, <2>6, <2>7 DEF AddTiles
<1> QED
  BY <1>1, <1>6, <1>9, <1>10 DEF SgInv

LEMMA FollowSame ==
    ASSUME NEW s \in Seq(Entry), NEW t \in Seq(Entry), NEW a, NEW b, Follow(s, a, b),
           Len(s) = Len(t),
           \A k \in 1..Len(s) : /\ t[k].data_offset = s[k].data_offset
                                /\ t[k].len = s[k].len
    PROVE  Follow(t, a, b)
<1>1. /\ Len(s) \in Nat
      /\ s = <<>> <=> Len(s) = 0
      /\ t = <<>> <=> Len(s) = 0
  OBVIOUS
<1>2. \A k \in 2..Len(s) : k \in 1..Len(s) /\ k - 1 \in 1..Len(s)
  BY <1>1
<1>3. Len(s) # 0 => 1 \in 1..Len(s) /\ Len(s) \in 1..Len(s)
  BY <1>1
<1> QED
  BY <1>1, <1>2, <1>3 DEF Follow

LEMMA FramedConcat ==
    ASSUME NEW s \in Seq(Entry), NEW t \in Seq(Entry), WellFramed(s), t # <<>>,
           \A k \in 1..Len(t) : /\ t[k].is_SOF <=> k = 1
                                /\ t[k].is_EOF <=> k = Len(t)
    PROVE  WellFramed(s \o t)
<1> DEFINE u == s \o t
<1>1. Len(s) \in Nat /\ Len(t) \in Nat \ {0} /\ Len(u) = Len(s) + Len(t)
  OBVIOUS
<1>2. \A k \in 1..Len(s) : u[k] = s[k]
  OBVIOUS
<1>3. \A k \in 1..Len(t) : u[Len(s) + k] = t[k]
  OBVIOUS
<1>4. s = <<>> <=> Len(s) = 0
  OBVIOUS
<1> HIDE DEF u
<1>5. u[Len(u)].is_EOF
  <2>1. Len(t) \in 1..Len(t)
    BY <1>1
  <2> QED
    BY <2>1, <1>1, <1>3
<1>6. ASSUME NEW k \in 1..Len(u)
      PROVE  u[k].is_SOF <=> (k = 1 \/ u[k - 1].is_EOF)
  <2>1. CASE k <= Len(s)
    <3>1. k \in 1..Len(s) /\ (k # 1 => k - 1 \in 1..Len(s))
      BY <2>1, <1>1
    <3> QED
      BY <3>1, <1>2 DEF WellFramed
  <2>2. CASE k = Len(s) + 1
    <3>1. 1 \in 1..Len(t) /\ u[k] = t[1]
      BY <2>2, <1>1, <1>3
    <3>2. k # 1 => /\ k - 1 = Len(s) /\ Len(s) \in 1..Len(s) /\ s # <<>>
                   /\ u[k - 1] = s[Len(s)]
      BY <2>2, <1>1, <1>2, <1>4
    <3> QED
      BY <3>1, <3>2 DEF WellFramed
  <2>3. CASE Len(s) + 1 < k
    <3> DEFINE j == k - Len(s)
    <3>1. /\ j \in 1..Len(t) /\ j - 1 \in 1..Len(t) /\ j # 1 /\ j - 1 # Len(t) /\ k # 1
          /\ k = Len(s) + j /\ k - 1 = Len(s) + (j - 1)
      BY <2>3, <1>1
    <3>2. u[k] = t[j] /\ u[k - 1] = t[j - 1]
      BY <3>1, <1>3
    <3> QED
      BY <3>1, <3>2
  <2> QED
    BY <2>1, <2>2, <2>3, <1>1
<1> QED
  BY <1>5, <1>6 DEF WellFramed, u

LEMMA SgLastPart ==
    ASSUME SgInv, LastPart
    PROVE  SgInv'
<1> DEFINE e == SgEntry(add.sz)
           t == Append(add.new, e)
           r == Framed(t)
<1>1. /\ pc = "add" /\ pc' = "idle" /\ add.sz <= Space
      /\ entries' = entries \o r
      /\ offsets' = [sg |-> NextSgOffset, data |-> (add.data_offset + add.sz) % UINT]
      /\ UNCHANGED <<sg_plist, data_plist>>
  BY DEF LastPart, AddReturns
<1>2. AddType /\ AddTiles /\ ListType /\ ListTiles /\ add.sz \in Nat /\ Space \in Nat
  BY <1>1, Turn DEF SgInv, AddType
<1>3. add.sz \in 0..Space
  BY <1>1, <1>2
<1>4. /\ e \in Entry /\ InOneRun(e) /\ ~e.is_SOF /\ ~e.is_EOF
      /\ add.data_offset + add.sz < UINT /\ add.data_offset \in Nat
      /\ Follow(t, offsets.data, add.data_offset + add.sz)
  BY <1>1, <1>3, Built
<1> HIDE DEF e
<1>5. add.new \in Seq(Entry) /\ NoMarks(add.new)
  BY <1>2 DEF AddType, AddTiles
<1>6. /\ r \in Seq(Entry) /\ Len(r) = Len(add.new) + 1
      /\ t \in Seq(Entry) /\ Len(t) = Len(add.new) + 1
      /\ \A k \in 1..Len(r) :
           /\ r[k].data_offset = t[k].data_offset
           /\ r[k].buf_phys = t[k].buf_phys
           /\ r[k].len = t[k].len
           /\ r[k].is_SOF <=> k = 1
           /\ r[k].is_EOF <=> k = Len(r)
  <2>1. FrameOf(r, t, Len(add.new) + 1)
    BY <1>4, <1>5, FramedIs
  <2> HIDE DEF t, r
  <2> QED
    BY <2>1 DEF FrameOf
<1>7. \A k \in 1..Len(t) : InOneRun(t[k])
  <2>1. ASSUME NEW k \in 1..Len(t) PROVE InOneRun(t[k])
    <3>1. (k \in 1..Len(add.new) /\ t[k] = add.new[k]) \/ t[k] = e
      BY <1>5
    <3> QED
      BY <1>2, <1>4, <3>1 DEF AddTiles
  <2> QED
    BY <2>1
<1>8. (add.data_offset + add.sz) % UINT = add.data_offset + add.sz
  <2>1. add.data_offset + add.sz \in 0..UINT - 1
    BY <1>2, <1>4, Positive
  <2> QED
    BY ONLY <2>1, Positive, ModKeeps
<1>9. r # <<>> /\ Len(add.new) \in Nat
  BY <1>5, <1>6
<1> HIDE DEF r, t
<1>10. \A k \in 1..Len(r) : InOneRun(r[k])
  BY <1>6, <1>7 DEF InOneRun
<1>11. entries \in Seq(Entry) /\ offsets.data \in Nat
  BY <1>2 DEF ListType
<1>12. Follow(entries \o r, 0, add.data_offset + add.sz)
  <2>1. Follow(r, offsets.data, add.data_offset + add.sz)
    BY <1>4, <1>6, FollowSame
  <2>2. Follow(entries, 0, offsets.data)
    BY <1>2 DEF ListTiles
  <2>3. add.data_offset + add.sz \in Nat
    BY <1>2, <1>4
  <2> QED
    BY <1>6, <1>11, <2>1, <2>2, <2>3, FollowConcat
<1>13. WellFramed(entries \o r)
  BY <1>2, <1>6, <1>9, <1>11, FramedConcat DEF ListTiles
<1>14. \A k \in 1..Len(entries \o r) : InOneRun((entries \o r)[k])
  <2>1. ASSUME NEW k \in 1..Len(entries \o r) PROVE InOneRun((entries \o r)[k])
    <3>1. \/ k \in 1..Len(entries) /\ (entries \o r)[k] = entries[k]
          \/ /\ k - Len(entries) \in 1..Len(r)
             /\ (entries \o r)[k] = r[k - Len(entries)]
      BY <1>6, <1>11
    <3> QED
      BY <1>2, <1>10, <3>1 DEF ListTiles
  <2> QED
    BY <2>1
<1>15. ListType'
  <2>1. entries \o r \in Seq(Entry)
    BY <1>6, <1>11
  <2>2. NextSgOffset \in Nat /\ add.data_offset + add.sz \in Nat
    BY <1>1, <1>2, <1>4, Turn
  <2> QED
    BY <1>1, <1>2, <1>8, <2>1, <2>2 DEF ListType
<1>16. ListTiles'
  <2>1. Follow(entries', 0, offsets'.data) /\ WellFramed(entries')
    BY <1>1, <1>8, <1>12, <1>13
  <2>2. \A k \in 1..Len(entries') : InOneRun(entries[k])'
    BY <1>1, <1>14 DEF InOneRun
  <2> QED
    BY <2>1, <2>2 DEF ListTiles
<1> QED
  BY <1>1, <1>15, <1>16 DEF SgInv

LEMMA SgNext ==
    ASSUME SgInv, [Next]_vars
    PROVE  SgInv'
<1>1. ASSUME NEW sp \in SgPlists, NEW dp \in DataPlists, ListNew(sp, dp) PROVE SgInv'
  BY <1>1, SgListNew
<1>2. ASSUME NEW sz \in Sizes, AddEntry(sz) PROVE SgInv'
  BY <1>2, SgAddEntry
<1>3. CASE NoDescriptor \/ NoMemory \/ NoNextPart
  BY <1>3, SgAddFails DEF NoDescriptor, NoMemory, NoNextPart
<1>4. CASE NextPart
  BY <1>4, SgNextPart
<1>5. CASE LastPart
  BY <1>5, SgLastPart
<1>6. CASE ListDel
  BY <1>6, SgListDel
<1>7. CASE UNCHANGED vars
  BY <1>7, SgKeeps DEF vars
<1> QED
  BY <1>1, <1>2, <1>3, <1>4, <1>5, <1>6, <1>7 DEF Next, Building

-----------------------------------------------------------------------------

LEMMA FollowTotal ==
    ASSUME NEW s \in Seq(Entry), NEW a \in Nat, NEW b \in Nat, Follow(s, a, b)
    PROVE  Total(s) \in Nat /\ b = a + Total(s)
<1> DEFINE n == Len(s)
<1>1. n \in Nat /\ DOMAIN s = 1..n /\ (s = <<>> <=> n = 0)
  OBVIOUS
<1>2. \A k \in 1..n : s[k].data_offset \in Nat /\ s[k].len \in Nat
  <2>1. \A k \in 1..n : s[k] \in Entry
    BY ElementType
  <2> QED
    BY <2>1 DEF Entry
<1>3. Lengthy(s, n)
  BY <1>1, <1>2 DEF Lengthy
<1> HIDE DEF n
<1>4. PICK f : Sums(s, n, f) /\ Total(s) = f[n]
  BY <1>1, <1>3, TotalSums
<1>5. \A k \in 0..n : f[k] \in Nat
  BY <1>4 DEF Sums
<1> DEFINE S == {k \in Nat : k + 1 <= n =>
                   s[k + 1].data_offset + s[k + 1].len = a + f[k + 1]}
<1>6. 0 \in S
  <2> SUFFICES ASSUME 1 <= n PROVE s[1].data_offset + s[1].len = a + f[1]
    OBVIOUS
  <2>1. s # <<>> /\ 1 \in 1..n /\ 1 - 1 = 0
    BY <1>1
  <2>2. s[1].data_offset = a /\ f[1] = 0 + s[1].len
    BY <1>4, <2>1 DEF Follow, Sums
  <2> QED
    BY <1>2, <2>1, <2>2
<1>7. ASSUME NEW k \in Nat, k \in S PROVE k + 1 \in S
  <2> SUFFICES ASSUME (k + 1) + 1 <= n
               PROVE  s[(k + 1) + 1].data_offset + s[(k + 1) + 1].len
                        = a + f[(k + 1) + 1]
    OBVIOUS
  <2> DEFINE m == (k + 1) + 1
  <2>1. m \in 2..n /\ m \in 1..n /\ m - 1 = k + 1 /\ k + 1 \in 1..n /\ k + 1 \in 0..n
    BY <1>1
  <2>2. s[k + 1].data_offset + s[k + 1].len = a + f[k + 1]
    BY <1>1, <1>7
  <2> HIDE DEF m
  <2>3. /\ s[m].data_offset = s[k + 1].data_offset + s[k + 1].len
        /\ f[m] = f[k + 1] + s[m].len
    BY <1>4, <2>1 DEF Follow, Sums, n
  <2>4. f[k + 1] \in Nat /\ s[m].len \in Nat /\ s[m].data_offset \in Nat
    BY <1>2, <1>5, <2>1
  <2>5. s[m].data_offset + s[m].len = a + f[m]
    BY <2>2, <2>3, <2>4
  <2> QED
    BY <2>5 DEF m
<1>8. Nat \subseteq S
  <2> HIDE DEF S
  <2> QED
    BY <1>6, <1>7, NatSetInduction
<1>9. b = a + f[n]
  <2>1. CASE n = 0
    BY <2>1, <1>1, <1>4 DEF Follow, Sums
  <2>2. CASE n # 0
    <3>1. n - 1 \in S /\ (n - 1) + 1 = n
      BY <2>2, <1>1, <1>8
    <3>2. s[n].data_offset + s[n].len = a + f[n]
      BY <3>1, <1>1
    <3> QED
      BY <2>2, <3>2, <1>1 DEF Follow, n
  <2> QED
    BY <2>1, <2>2
<1> QED
  BY <1>1, <1>4, <1>5, <1>9

LEMMA InvTiles == SgInv => EntriesTile
<1> SUFFICES ASSUME SgInv PROVE EntriesTile
  OBVIOUS
<1>1. /\ entries \in Seq(Entry) /\ offsets.data \in Nat
      /\ Follow(entries, 0, offsets.data) /\ WellFramed(entries)
  BY DEF SgInv, ListType, ListTiles
<1>2. offsets.data = FoldLeft(LAMBDA n, e : n + e.len, 0, entries)
  <2>1. offsets.data = 0 + Total(entries) /\ Total(entries) \in Nat
    BY <1>1, FollowTotal
  <2>2. offsets.data = Total(entries)
    BY <2>1
  <2> QED
    BY <2>2 DEF Total
<1>3. DOMAIN entries = 1..Len(entries) /\ Len(entries) \in Nat
      /\ (entries = <<>> <=> Len(entries) = 0)
  BY <1>1
<1>4. ASSUME NEW k \in DOMAIN entries
      PROVE  /\ entries[k].data_offset = IF k = 1 THEN 0
                                         ELSE entries[k - 1].data_offset + entries[k - 1].len
             /\ entries[k].is_SOF <=> (k = 1 \/ entries[k - 1].is_EOF)
  <2>1. k \in 1..Len(entries) /\ (k # 1 => k \in 2..Len(entries)) /\ entries # <<>>
    BY <1>3
  <2> QED
    BY <2>1, <1>1 DEF Follow, WellFramed
<1>5. entries # <<>> => entries[Len(entries)].is_EOF
  BY <1>1 DEF WellFramed
<1> QED
  BY <1>2, <1>4, <1>5 DEF EntriesTile

(* EntriesTile: over any physlists and for any sequence of calls, the      *)
(* entries axidma_add_entry has made take the data buffer from its start,  *)
(* byte after byte, and each call's entries are framed.                    *)
THEOREM EntriesTileBuffer == Spec => []EntriesTile
<1>1. SgInv /\ [Next]_vars => SgInv'
  BY SgNext
<1> QED
  BY <1>1, SgInit, InvTiles, PTL DEF Spec

(* Every byte of an entry, where virtual and physical memory have it. *)
LEMMA RunBytes ==
    ASSUME NEW p \in Physlists, NEW o \in Nat, NEW n \in Nat, NEW i \in 1..Len(p),
           Before(p, i) <= o, o + n <= Before(p, i + 1), NEW x \in 0..n - 1
    PROVE  /\ o + x < SizeOf(p)
           /\ VirtToPhys(p, o + x) = VirtToPhys(p, o) + x
           /\ VirtToPhys(p, o) = p[i].addr + o - Before(p, i)
           /\ VirtToPhys(p, o) \in Nat
<1>1. Len(p) \in Nat /\ i \in 1..Len(p) + 1 /\ i + 1 \in 1..Len(p) + 1
      /\ Len(p) + 1 \in 1..Len(p) + 1 /\ i + 1 <= Len(p) + 1
  BY Offsets
<1>2. /\ Before(p, i) \in Nat /\ p[i].len \in Nat /\ p[i].addr \in Nat
      /\ Before(p, i + 1) = Before(p, i) + p[i].len
      /\ Before(p, i + 1) <= Before(p, Len(p) + 1)
      /\ Before(p, Len(p) + 1) \in Nat
  BY <1>1, Offsets
<1>3. Holds(p, i, o) /\ Holds(p, i, o + x) /\ o + x \in Nat
  BY <1>2 DEF Holds
<1>4. /\ VirtToPhys(p, o) = p[i].addr + o - Before(p, i)
      /\ VirtToPhys(p, o + x) = p[i].addr + (o + x) - Before(p, i)
  BY <1>3, IndexIs
<1>5. o + x < SizeOf(p)
  BY <1>2 DEF SizeOf
<1>6. VirtToPhys(p, o) \in Nat
  BY VirtToPhysType
<1>7. VirtToPhys(p, o + x) = VirtToPhys(p, o) + x
  BY ONLY <1>2, <1>4, o \in Nat, x \in Int
<1> QED
  BY <1>4, <1>5, <1>6, <1>7

LEMMA InvPhysical == SgInv => EntriesArePhysical
<1> SUFFICES ASSUME SgInv, NEW k \in DOMAIN entries, NEW x \in 0..entries[k].len - 1
             PROVE  /\ entries[k].data_offset + x < SizeOf(data_plist)
                    /\ entries[k].buf_phys + x =
                         VirtToPhys(data_plist, entries[k].data_offset + x)
  BY DEF EntriesArePhysical
<1> DEFINE e == entries[k]
<1>1. entries \in Seq(Entry) /\ k \in 1..Len(entries)
  BY DEF SgInv, ListType
<1>2. e \in Entry
  BY <1>1, ElementType
<1>3. InOneRun(e)
  BY <1>1 DEF SgInv, ListTiles
<1>4. data_plist \in Physlists
  <2>1. pc = "none" => Len(entries) = 0
    BY DEF SgInv, ListType, Empty
  <2>2. pc # "none"
    BY <1>1, <2>1
  <2> QED
    BY <2>2, Buffers DEF SgInv, ListType
<1> HIDE DEF e
<1>5. PICK i \in 1..Len(data_plist) :
         /\ Before(data_plist, i) <= e.data_offset
         /\ e.data_offset + e.len <= Before(data_plist, i + 1)
  BY <1>3 DEF InOneRun
<1>6. e.data_offset \in Nat /\ e.len \in Nat /\ x \in 0..e.len - 1
  BY <1>2 DEF Entry, e
<1>7. /\ e.data_offset + x < SizeOf(data_plist)
      /\ VirtToPhys(data_plist, e.data_offset + x) =
           VirtToPhys(data_plist, e.data_offset) + x
  BY <1>4, <1>5, <1>6, RunBytes
<1>8. e.buf_phys = VirtToPhys(data_plist, e.data_offset)
  BY <1>3 DEF InOneRun
<1> QED
  BY <1>7, <1>8 DEF e

(* EntriesArePhysical: the DMA puts each byte of an entry where the        *)
(* program reads it, however the buffer is scattered over physical runs.   *)
THEOREM EntriesMapBuffer == Spec => []EntriesArePhysical
<1>1. SgInv /\ [Next]_vars => SgInv'
  BY SgNext
<1> QED
  BY <1>1, SgInit, InvPhysical, PTL DEF Spec

-----------------------------------------------------------------------------
(* Alignment. *)

LEMMA Multiple ==
    ASSUME NEW y \in Int, NEW a \in Nat \ {0}, y % a = 0
    PROVE  \E k \in Int : y = k * a
OBVIOUS

LEMMA MultipleMod ==
    ASSUME NEW k \in Int, NEW a \in Nat \ {0}
    PROVE  (k * a) % a = 0
OBVIOUS

LEMMA NextMultiple ==
    ASSUME NEW k \in Int, NEW a \in Nat \ {0}
    PROVE  k * a + a = (k + 1) * a
OBVIOUS

LEMMA LessMultiple ==
    ASSUME NEW j \in Int, NEW k \in Int, NEW a \in Nat \ {0}, j * a < k * a
    PROVE  j + 1 <= k
OBVIOUS

LEMMA MultipleMono ==
    ASSUME NEW j \in Int, NEW k \in Int, NEW a \in Nat \ {0}, j <= k
    PROVE  j * a <= k * a
OBVIOUS

LEMMA RoundDown ==
    ASSUME NEW x \in Nat, NEW a \in Nat \ {0}
    PROVE  (x - (x % a)) % a = 0
<1>1. x = (x \div a) * a + (x % a) /\ x % a \in Int /\ x \div a \in Int
  OBVIOUS
<1>2. x - (x % a) = (x \div a) * a
  BY <1>1
<1> QED
  BY <1>1, <1>2, MultipleMod

LEMMA RestOf ==
    ASSUME NEW x \in Nat, NEW a \in Nat \ {0}
    PROVE  /\ x % a \in 0..a - 1
           /\ x % a = 0 => (a - (x % a)) % a = 0
           /\ x % a # 0 => (a - (x % a)) % a = a - (x % a)
<1>1. x % a \in 0..a - 1
  OBVIOUS
<1>2. ASSUME x % a = 0 PROVE (a - (x % a)) % a = 0
  <2>1. a % a = 0
    OBVIOUS
  <2>2. a - (x % a) = a
    BY <1>2
  <2> QED
    BY <2>1, <2>2
<1>3. ASSUME x % a # 0 PROVE (a - (x % a)) % a = a - (x % a)
  <2>1. a - (x % a) \in 0..a - 1
    BY <1>1, <1>3
  <2> QED
    BY ONLY <2>1, ModKeeps, a \in Nat \ {0}
<1> QED
  BY <1>1, <1>2, <1>3

(* The next multiple of a after x is one, and the least. *)
LEMMA RoundUp ==
    ASSUME NEW x \in Nat, NEW a \in Nat \ {0}
    PROVE  LET y == x + ((a - (x % a)) % a) IN
           /\ y \in Nat /\ y % a = 0
           /\ \A z \in Nat : z % a = 0 /\ x <= z => y <= z
<1> DEFINE r == x % a
           y == x + ((a - r) % a)
<1>0. /\ r \in 0..a - 1
      /\ r = 0 => (a - r) % a = 0
      /\ r # 0 => (a - r) % a = a - r
      /\ (x - r) % a = 0
  BY RestOf, RoundDown
<1> HIDE DEF r
<1>1. CASE r = 0
  <2>1. y = x
    BY <1>0, <1>1
  <2>2. x % a = 0
    BY <1>1 DEF r
  <2> QED
    BY <2>1, <2>2 DEF r
<1>2. CASE r # 0
  <2>1. y = (x - r) + a
    BY <1>0, <1>2
  <2>2. x - r \in Int /\ (x - r) % a = 0 /\ x - r < x
    BY <1>0, <1>2
  <2> HIDE DEF y
  <2>3. PICK k \in Int : x - r = k * a
    BY ONLY <2>2, Multiple, a \in Nat \ {0}
  <2>4. y = (k + 1) * a
    BY <2>1, <2>3, NextMultiple
  <2>5. y % a = 0
    BY <2>4, MultipleMod
  <2>6. ASSUME NEW z \in Nat, z % a = 0, x <= z PROVE y <= z
    <3>1. PICK j \in Int : z = j * a
      BY <2>6, Multiple
    <3>2. k * a < j * a
      BY <2>2, <2>3, <2>6, <3>1
    <3>3. k + 1 <= j
      BY ONLY <3>2, LessMultiple, a \in Nat \ {0}, k \in Int, j \in Int
    <3>4. (k + 1) * a <= j * a
      BY ONLY <3>3, MultipleMono, a \in Nat \ {0}, k \in Int, j \in Int
    <3> QED
      BY <2>4, <3>1, <3>4
  <2>7. y \in Nat
    BY <1>0, <2>1
  <2>8. /\ y \in Nat /\ y % a = 0
        /\ \A z \in Nat : z % a = 0 /\ x <= z => y <= z
    BY <2>5, <2>6, <2>7
  <2> QED
    BY ONLY <2>8 DEF y, r
<1> QED
  BY <1>1, <1>2

LEMMA AlignedIs ==
    ASSUME NEW e, e.addr \in Nat, NEW o \in Nat
    PROVE  /\ (e.addr + Aligned(e, o)) % ALIGN = 0
           /\ \A z \in Nat : z % ALIGN = 0 /\ e.addr + o <= z
                => e.addr + Aligned(e, o) <= z
<1> DEFINE x == e.addr + o
           y == x + ((ALIGN - (x % ALIGN)) % ALIGN)
<1>1. x \in Nat
  OBVIOUS
<1> HIDE DEF x
<1>2. /\ y \in Nat /\ y % ALIGN = 0
      /\ \A z \in Nat : z % ALIGN = 0 /\ x <= z => y <= z
  BY <1>1, Positive, RoundUp
<1>3. Aligned(e, o) \in Nat
  BY AlignedType
<1>4. e.addr + Aligned(e, o) = y
  <2>1. Aligned(e, o) = o + ((ALIGN - (x % ALIGN)) % ALIGN)
    BY Zenon DEF Aligned, x
  <2>2. (ALIGN - (x % ALIGN)) % ALIGN \in Int
    BY <1>1, Positive, RestOf
  <2> QED
    BY <2>1, <2>2 DEF x
<1> HIDE DEF y
<1> QED
  BY <1>2, <1>4 DEF x

-----------------------------------------------------------------------------
(* Where the descriptors are. *)
(* A descriptor at an offset is where the DMA takes it. *)
Placed(at) ==
    LET i == GetEntryIndex(sg_plist, at)
    IN /\ i # 0
       /\ at + DESC <= Before(sg_plist, i) + sg_plist[i].len
       /\ VirtToPhys(sg_plist, at) % ALIGN = 0

(* The descriptors of s lie between a and b, in order and apart. *)
Apart(s, a, b) ==
    /\ a <= b
    /\ \A k \in 1..Len(s) :
         /\ Placed(s[k].sg_offset)
         /\ IF k = 1 THEN a <= s[k].sg_offset
                     ELSE s[k - 1].sg_offset + DESC <= s[k].sg_offset
         /\ s[k].sg_offset + DESC <= b

(* The next descriptor is looked for at the start or right after one. *)
AfterOne(at) == at = 0 \/ (DESC <= at /\ Placed(at - DESC))

PlacedInv ==
    /\ Apart(entries, 0, offsets.sg) /\ AfterOne(offsets.sg)
    /\ pc = "add" => /\ Apart(add.new, offsets.sg, add.sg_offset)
                     /\ AfterOne(add.sg_offset)

(* No run of a descriptor buffer overruns. *)
NoWrap == \A p \in SgPlists : \A i \in DOMAIN p : ~Overruns(p[i])

(* The physlists that the pinner sends are cut at page boundaries, and are *)
(* far from as long as an unsigned int can count.                          *)
CutAtPages ==
    \A p \in SgPlists :
        /\ SizeOf(p) + ALIGN + DESC < UINT
        /\ \A i \in 1..Len(p) - 1 : (p[i].addr + p[i].len) % ALIGN = 0

(* A run that ends at an aligned address does not overrun. *)
LEMMA EndsAligned ==
    ASSUME NEW p \in Physlists, NEW i \in 1..Len(p), (p[i].addr + p[i].len) % ALIGN = 0
    PROVE  ~Overruns(p[i])
<1> SUFFICES ASSUME NEW o \in 0..p[i].len
             PROVE  Aligned(p[i], o) <= p[i].len
  <2>1. p[i].len \in Nat /\ p[i].addr \in Nat
    BY Offsets
  <2>2. \A o \in 0..p[i].len : Aligned(p[i], o) \in Nat
    BY <2>1, AlignedType
  <2> QED
    BY <2>1, <2>2 DEF Overruns
<1>1. p[i].addr \in Nat /\ p[i].len \in Nat
  BY Offsets
<1>2. p[i].addr + p[i].len \in Nat /\ p[i].addr + o <= p[i].addr + p[i].len /\ o \in Nat
  BY <1>1
<1>3. p[i].addr + Aligned(p[i], o) <= p[i].addr + p[i].len
  BY <1>1, <1>2, AlignedIs
<1>4. Aligned(p[i], o) \in Nat
  BY <1>1, <1>2, AlignedType
<1> QED
  BY <1>1, <1>3, <1>4

(* A buffer of whole pages, in any runs, has no run that overruns. *)
LEMMA WholePages ==
    ASSUME \A p \in SgPlists : \A i \in DOMAIN p : (p[i].addr + p[i].len) % ALIGN = 0
    PROVE  NoWrap
<1>1. ASSUME NEW p \in SgPlists, NEW i \in DOMAIN p PROVE ~Overruns(p[i])
  <2>1. p \in Physlists
    BY Buffers
  <2>2. i \in 1..Len(p)
    BY <2>1, Offsets
  <2> QED
    BY <2>1, <2>2, EndsAligned
<1> QED
  BY <1>1 DEF NoWrap

(* The descriptor found is in its place. *)
Fits == /\ Placed(DescriptorAt) /\ add.sg_offset <= DescriptorAt
        /\ NextSgOffset = DescriptorAt + DESC
        /\ DescriptorAt \in Nat

(* The search went beyond the end of a run. *)
Beyond == \E i \in 1..Len(sg_plist), a \in Nat :
              /\ Overruns(sg_plist[i])
              /\ sg_plist[i].len < a /\ a < sg_plist[i].len + ALIGN
              /\ DescriptorAt = (Before(sg_plist, i) + a) % UINT

(* These are the two outcomes of a search that finds something. *)
LEMMA SearchFinds ==
    ASSUME SgInv, pc = "add", AfterOne(add.sg_offset),
           DescriptorAt # AXIDMA_NOT_FOUND
    PROVE  Fits \/ Beyond
<1> DEFINE p == sg_plist
           at == add.sg_offset
           ind == GetEntryIndex(p, at)
<1>1. p \in SgPlists /\ p \in Physlists /\ at \in Nat /\ DESC \in Nat \ {0} /\ UINT \in Nat \ {0}
  BY Turn, Positive DEF SgInv, AddType
<1>2. PICK i \in 1..Len(p) :
         /\ ind # 0 /\ ind <= i
         /\ DESC <= SpaceLeft(p[i], Start(p, at, i))
         /\ DescriptorAt = (Before(p, i) + Start(p, at, i)) % UINT
  BY <1>1, SearchStops DEF DescriptorAt
<1>3. Holds(p, ind, at)
  BY <1>1, <1>2, IndexHolds
<1>4. /\ Len(p) \in Nat /\ DOMAIN p = 1..Len(p)
      /\ ind \in 1..Len(p) /\ ind \in 1..Len(p) + 1 /\ ind + 1 \in 1..Len(p) + 1
      /\ i \in 1..Len(p) + 1
  BY <1>1, <1>3, Offsets DEF Holds
<1>5. /\ Before(p, i) \in Nat /\ p[i].len \in Nat /\ p[i].addr \in Nat
      /\ Before(p, ind) \in Nat /\ p[ind].len \in Nat
      /\ Before(p, ind + 1) = Before(p, ind) + p[ind].len
      /\ Before(p, i) + p[i].len < UINT
  BY <1>1, <1>4, Offsets, Buffers
<1> DEFINE o == IF i = ind THEN at - Before(p, i) ELSE 0
           a == Aligned(p[i], o)
<1>6. o \in Nat /\ a = Start(p, at, i)
  BY <1>1, <1>3, <1>5 DEF Holds, Start
<1>7. a \in Nat /\ o <= a
  BY <1>5, <1>6, AlignedType
<1> HIDE DEF p, ind, at
<1>8. /\ o \in 0..p[i].len
      /\ o = 0 \/ (DESC <= o /\ o < p[i].len /\ (p[i].addr + o - DESC) % ALIGN = 0)
  <2>1. CASE o = 0
    BY <2>1, <1>5
  <2>2. CASE o # 0
    <3>1. i = ind /\ o = at - Before(p, ind) /\ o < p[i].len /\ Before(p, ind) < at
      BY <2>2, <1>1, <1>3, <1>5, <1>6 DEF Holds
    <3>2. DESC <= at /\ Placed(at - DESC)
      BY <1>1, <1>5, <3>1 DEF AfterOne, at
    <3> DEFINE j == GetEntryIndex(p, at - DESC)
    <3>3. at - DESC \in Nat
      BY <1>1, <3>2
    <3>4. /\ j # 0 /\ (at - DESC) + DESC <= Before(p, j) + p[j].len
          /\ VirtToPhys(p, at - DESC) % ALIGN = 0
      BY <3>2 DEF Placed, p
    <3>5. Holds(p, j, at - DESC)
      BY <1>1, <3>3, <3>4, IndexHolds
    <3> HIDE DEF j
    <3>6. /\ j \in 1..Len(p) /\ j \in 1..Len(p) + 1 /\ j + 1 \in 1..Len(p) + 1
      BY <1>4, <3>5 DEF Holds
    <3>7. /\ Before(p, j) \in Nat /\ p[j].len \in Nat
          /\ Before(p, j + 1) = Before(p, j) + p[j].len
      BY <1>1, <3>6, Offsets
    <3>8. at <= Before(p, j + 1) /\ Before(p, j) <= at - DESC
      BY <1>1, <3>4, <3>5, <3>7 DEF Holds
    <3>9. ~(j < ind)
      <4>1. j < ind => Before(p, j + 1) <= Before(p, ind)
        <5>1. j < ind => j + 1 <= ind
          BY <1>4, <3>6
        <5> QED
          BY <5>1, <1>1, <1>4, <3>6, Offsets
      <4>2. Before(p, j + 1) \in Nat
        BY <3>7
      <4> QED
        BY <1>1, <1>5, <3>1, <3>8, <4>1, <4>2
    <3>10. ~(ind < j)
      <4>1. ind < j => Before(p, ind + 1) <= Before(p, j)
        <5>1. ind < j => ind + 1 <= j
          BY <1>4, <3>6
        <5> QED
          BY <5>1, <1>1, <1>4, <3>6, Offsets
      <4>2. at < Before(p, ind + 1)
        BY <1>3, <1>5 DEF Holds
      <4> QED
        BY <1>1, <1>5, <3>7, <3>8, <4>1, <4>2
    <3>11. j = ind
      BY <1>4, <3>6, <3>9, <3>10
    <3>12. VirtToPhys(p, at - DESC) = p[j].addr + (at - DESC) - Before(p, j)
      BY <1>1, <3>3, <3>5, IndexIs
    <3>13. p[j].addr + (at - DESC) - Before(p, j) = p[i].addr + o - DESC
      BY <1>1, <1>5, <3>1, <3>11
    <3>14. DESC <= o /\ (p[i].addr + o - DESC) % ALIGN = 0
      BY <1>1, <1>5, <3>1, <3>4, <3>8, <3>11, <3>12, <3>13
    <3> QED
      BY <1>5, <1>6, <3>1, <3>14
  <2> QED
    BY <2>1, <2>2
<1>a. a < o + ALIGN
  BY <1>5, <1>6, AlignedType
<1> HIDE DEF o
<1>b. CASE p[i].len < a
  <2>1. Overruns(p[i])
    BY <1>8, <1>b DEF Overruns, a
  <2>2. a < p[i].len + ALIGN
    <3> HIDE DEF a
    <3> QED
      BY <1>5, <1>7, <1>8, <1>a, Positive
  <2>3. DescriptorAt = (Before(p, i) + a) % UINT
    BY <1>2, <1>6
  <2>4. Beyond
    <3> HIDE DEF a
    <3> QED
      BY <1>b, <1>7, <2>1, <2>2, <2>3 DEF Beyond, p
  <2> QED
    BY <2>4
<1>c. SUFFICES ASSUME a <= p[i].len PROVE Fits
  <2> HIDE DEF a
  <2> QED
    BY <1>5, <1>7, <1>b
<1>9. SpaceLeft(p[i], a) = p[i].len - a
  <2>1. p[i].len - a \in 0..UINT - 1
    <3>1. p[i].len \in Nat /\ p[i].len < UINT /\ UINT \in Nat
      BY <1>1, <1>5, Positive
    <3> HIDE DEF a
    <3> QED
      BY ONLY <1>7, <1>c, <3>1
  <2>2. (p[i].len - a) % UINT = p[i].len - a
    BY ONLY <2>1, <1>1, ModKeeps
  <2> QED
    BY <2>2 DEF SpaceLeft
<1> DEFINE d == Before(p, i) + a
<1>10. d \in Nat /\ d + DESC <= Before(p, i) + p[i].len /\ d + DESC < UINT
  <2>1. DESC <= p[i].len - a
    BY <1>2, <1>6, <1>9
  <2>2. /\ Before(p, i) \in Nat /\ p[i].len \in Nat /\ a \in Nat
        /\ DESC \in Nat /\ UINT \in Nat /\ Before(p, i) + p[i].len < UINT
    BY <1>1, <1>5, <1>7
  <2> HIDE DEF a
  <2> QED
    BY ONLY <2>1, <2>2
<1>11. DescriptorAt = d
  <2>1. d \in 0..UINT - 1
    <3> HIDE DEF d
    <3> QED
      BY ONLY <1>10, Positive
  <2>2. d % UINT = d
    BY ONLY <2>1, <1>1, ModKeeps
  <2> QED
    BY <1>2, <1>6, <2>2
<1>12. Holds(p, i, d)
  <2>1. Before(p, i) <= d
    BY ONLY <1>5, <1>7
  <2>2. d < Before(p, i) + p[i].len
    <3>1. Before(p, i) + p[i].len \in Nat
      BY ONLY <1>5
    <3> HIDE DEF d
    <3> QED
      BY ONLY <1>10, <3>1, Positive
  <2> QED
    BY <2>1, <2>2 DEF Holds
<1>13. GetEntryIndex(p, d) = i /\ VirtToPhys(p, d) = p[i].addr + d - Before(p, i)
  BY <1>1, <1>10, <1>12, IndexIs
<1>14. VirtToPhys(p, d) % ALIGN = 0
  <2>1. p[i].addr + d - Before(p, i) = p[i].addr + a
    BY <1>5, <1>7
  <2> QED
    BY <1>5, <1>6, <1>13, <2>1, AlignedIs
<1>15. Placed(d)
  BY <1>4, <1>10, <1>13, <1>14 DEF Placed, p
<1>16. at <= d
  <2>1. CASE i = ind
    BY <2>1, <1>1, <1>5, <1>7 DEF o
  <2>2. CASE i # ind
    <3>1. ind + 1 <= i
      BY <2>2, <1>2, <1>4
    <3>2. Before(p, ind + 1) <= Before(p, i)
      BY <3>1, <1>1, <1>4, Offsets
    <3>3. at < Before(p, ind + 1)
      BY <1>3, <1>5 DEF Holds
    <3> QED
      BY <1>1, <1>5, <1>7, <3>2, <3>3
  <2> QED
    BY <2>1, <2>2
<1>17. NextSgOffset = d + DESC
  <2>1. d + DESC \in 0..UINT - 1
    BY <1>1, <1>10
  <2>2. (d + DESC) % UINT = d + DESC
    BY ONLY <2>1, <1>1, ModKeeps
  <2> QED
    BY <1>11, <2>2 DEF NextSgOffset
<1> QED
  BY <1>10, <1>11, <1>15, <1>16, <1>17 DEF at, Fits

LEMMA ApartAppend ==
    ASSUME NEW s \in Seq(Entry), NEW a \in Nat, NEW b \in Nat, Apart(s, a, b),
           NEW e \in Entry, Placed(e.sg_offset), b <= e.sg_offset
    PROVE  Apart(Append(s, e), a, e.sg_offset + DESC)
<1> DEFINE t == Append(s, e)
           n == Len(s)
           c == e.sg_offset + DESC
<1>1. n \in Nat /\ Len(t) = n + 1 /\ (\A k \in 1..n : t[k] = s[k]) /\ t[n + 1] = e
  OBVIOUS
<1>2. /\ e.sg_offset \in Nat /\ \A k \in 1..n : s[k].sg_offset \in Nat
      /\ DESC \in Nat /\ c \in Nat /\ b <= c
  <2>1. \A k \in 1..n : s[k] \in Entry
    BY ElementType
  <2>2. e.sg_offset \in Nat /\ \A k \in 1..n : s[k].sg_offset \in Nat
    BY <2>1 DEF Entry
  <2> QED
    BY <2>2, Positive
<1> HIDE DEF t, n, c
<1>3. a <= c
  BY <1>2 DEF Apart
<1>4. ASSUME NEW k \in 1..n + 1
      PROVE  /\ Placed(t[k].sg_offset)
             /\ IF k = 1 THEN a <= t[k].sg_offset
                         ELSE t[k - 1].sg_offset + DESC <= t[k].sg_offset
             /\ t[k].sg_offset + DESC <= c
  <2>1. CASE k \in 1..n
    <3>1. k # 1 => k - 1 \in 1..n
      BY <2>1, <1>1
    <3>2. s[k].sg_offset + DESC <= b
      BY <2>1 DEF Apart, n
    <3>3. s[k].sg_offset + DESC <= c
      BY <2>1, <3>2, <1>2
    <3> QED
      BY <2>1, <3>1, <3>3, <1>1 DEF Apart, n
  <2>2. CASE k = n + 1
    <3>1. Placed(t[k].sg_offset) /\ t[k].sg_offset + DESC <= c
      BY <2>2, <1>1, <1>2 DEF c
    <3>2. k = 1 => a <= t[k].sg_offset
      BY <2>2, <1>1, <1>2 DEF Apart
    <3>3. k # 1 => t[k - 1].sg_offset + DESC <= t[k].sg_offset
      <4>1. k # 1 => k - 1 = n /\ n \in 1..n
        BY <2>2, <1>1
      <4>2. n \in 1..n => s[n].sg_offset + DESC <= b
        BY DEF Apart, n
      <4> QED
        BY <2>2, <4>1, <4>2, <1>1, <1>2
    <3> QED
      BY <3>1, <3>2, <3>3
  <2> QED
    BY <2>1, <2>2, <1>1
<1> QED
  BY <1>1, <1>3, <1>4 DEF Apart, t, c

LEMMA ApartConcat ==
    ASSUME NEW s \in Seq(Entry), NEW t \in Seq(Entry),
           NEW a \in Nat, NEW b \in Nat, NEW c \in Nat,
           Apart(s, a, b), Apart(t, b, c)
    PROVE  Apart(s \o t, a, c)
<1> DEFINE u == s \o t
           n == Len(s)
<1>1. /\ n \in Nat /\ Len(t) \in Nat /\ Len(u) = n + Len(t)
      /\ \A k \in 1..n : u[k] = s[k]
      /\ \A k \in 1..Len(t) : u[n + k] = t[k]
  OBVIOUS
<1>2. /\ \A k \in 1..n : s[k].sg_offset \in Nat
      /\ \A k \in 1..Len(t) : t[k].sg_offset \in Nat
      /\ DESC \in Nat
  <2>1. /\ \A k \in 1..n : s[k] \in Entry
        /\ \A k \in 1..Len(t) : t[k] \in Entry
    BY ElementType
  <2>2. /\ \A k \in 1..n : s[k].sg_offset \in Nat
        /\ \A k \in 1..Len(t) : t[k].sg_offset \in Nat
    BY <2>1 DEF Entry
  <2> QED
    BY <2>2, Positive
<1> HIDE DEF u, n
<1>3. a <= b /\ b <= c /\ a <= c
  BY DEF Apart
<1>4. ASSUME NEW k \in 1..Len(u)
      PROVE  /\ Placed(u[k].sg_offset)
             /\ IF k = 1 THEN a <= u[k].sg_offset
                         ELSE u[k - 1].sg_offset + DESC <= u[k].sg_offset
             /\ u[k].sg_offset + DESC <= c
  <2>1. CASE k \in 1..n
    <3>1. k # 1 => k - 1 \in 1..n
      BY <2>1, <1>1
    <3>2. s[k].sg_offset + DESC <= b
      BY <2>1 DEF Apart, n
    <3>3. s[k].sg_offset + DESC <= c
      BY <2>1, <3>2, <1>2, <1>3
    <3> QED
      BY <2>1, <3>1, <3>3, <1>1 DEF Apart, n
  <2>2. CASE k = n + 1
    <3>1. 1 \in 1..Len(t) /\ u[k] = t[1]
      BY <2>2, <1>1
    <3>2. Placed(t[1].sg_offset) /\ b <= t[1].sg_offset /\ t[1].sg_offset + DESC <= c
      BY <3>1 DEF Apart
    <3>3. k = 1 => a <= u[k].sg_offset
      BY <3>1, <3>2, <1>2, <1>3
    <3>4. k # 1 => u[k - 1].sg_offset + DESC <= u[k].sg_offset
      <4>1. k # 1 => k - 1 = n /\ n \in 1..n
        BY <2>2, <1>1
      <4>2. n \in 1..n => s[n].sg_offset + DESC <= b
        BY DEF Apart, n
      <4> QED
        BY <3>1, <3>2, <4>1, <4>2, <1>1, <1>2
    <3> QED
      BY <3>1, <3>2, <3>3, <3>4
  <2>3. CASE n + 1 < k
    <3> DEFINE j == k - n
    <3>1. /\ j \in 1..Len(t) /\ j # 1 /\ j - 1 \in 1..Len(t) /\ k # 1
          /\ k = n + j /\ k - 1 = n + (j - 1)
      BY <2>3, <1>1
    <3>2. u[k] = t[j] /\ u[k - 1] = t[j - 1]
      BY <3>1, <1>1
    <3> HIDE DEF j
    <3>3. /\ Placed(t[j].sg_offset) /\ t[j].sg_offset + DESC <= c
          /\ t[j - 1].sg_offset + DESC <= t[j].sg_offset
      BY <3>1 DEF Apart
    <3> QED
      BY <3>1, <3>2, <3>3
  <2> QED
    BY <2>1, <2>2, <2>3, <1>1
<1> QED
  BY <1>3, <1>4 DEF Apart, u

LEMMA ApartSame ==
    ASSUME NEW s \in Seq(Entry), NEW t \in Seq(Entry), NEW a, NEW b, Apart(s, a, b),
           Len(s) = Len(t),
           \A k \in 1..Len(s) : t[k].sg_offset = s[k].sg_offset
    PROVE  Apart(t, a, b)
<1>1. \A k \in 1..Len(s) : k # 1 => k - 1 \in 1..Len(s)
  OBVIOUS
<1> QED
  BY <1>1 DEF Apart

LEMMA PlacedInit == Init => PlacedInv
<1>1. Len(<<>>) = 0 /\ 0 \in Nat /\ 0 <= 0
  OBVIOUS
<1> QED
  BY <1>1 DEF Init, Empty, PlacedInv, Apart, AfterOne

LEMMA PlacedKeeps ==
    ASSUME PlacedInv, UNCHANGED <<sg_plist, entries, offsets>>,
           pc' = "add" => pc = "add" /\ UNCHANGED add
    PROVE  PlacedInv'
BY DEF PlacedInv, Apart, AfterOne, Placed

LEMMA PlacedEmpty ==
    ASSUME Empty', pc' # "add"
    PROVE  PlacedInv'
<1>1. Len(<<>>) = 0 /\ 0 \in Nat /\ 0 <= 0
  OBVIOUS
<1> QED
  BY <1>1 DEF Empty, PlacedInv, Apart, AfterOne

LEMMA PlacedAddEntry ==
    ASSUME SgInv, PlacedInv, NEW sz \in Sizes, AddEntry(sz)
    PROVE  PlacedInv'
<1>1. CASE \E code : AddFails(code)
  BY <1>1, PlacedKeeps DEF AddFails, AddReturns
<1>2. CASE ~\E code : AddFails(code)
  <2>1. /\ add'.sg_offset = offsets.sg /\ add'.new = <<>>
        /\ UNCHANGED <<sg_plist, entries, offsets>>
    BY <1>2 DEF AddEntry
  <2>2. Len(<<>>) = 0 /\ offsets.sg \in Nat /\ offsets.sg <= offsets.sg
    BY DEF SgInv, ListType
  <2> QED
    BY <2>1, <2>2 DEF PlacedInv, Apart, AfterOne, Placed
<1> QED
  BY <1>1, <1>2

(* A buffer that cannot overrun. *)
LEMMA SearchPlaces ==
    ASSUME NoWrap, SgInv, PlacedInv, pc = "add", DescriptorAt # AXIDMA_NOT_FOUND
    PROVE  Fits
<1>1. sg_plist \in SgPlists /\ sg_plist \in Physlists /\ AfterOne(add.sg_offset)
  BY Turn DEF PlacedInv
<1>2. ~Beyond
  BY <1>1, Offsets DEF Beyond, NoWrap
<1> QED
  BY <1>1, <1>2, SearchFinds

LEMMA PlacedTurn ==
    ASSUME SgInv, PlacedInv, Fits, pc = "add", DescriptorAt # AXIDMA_NOT_FOUND,
           NEW n \in 0..Space
    PROVE  LET t == Append(add.new, SgEntry(n)) IN
           /\ t \in Seq(Entry) /\ SgEntry(n) \in Entry
           /\ ~SgEntry(n).is_SOF /\ ~SgEntry(n).is_EOF
           /\ Apart(t, offsets.sg, NextSgOffset)
           /\ AfterOne(NextSgOffset)
           /\ NextSgOffset \in Nat
<1>1. /\ AfterOne(add.sg_offset) /\ Apart(add.new, offsets.sg, add.sg_offset)
      /\ add.new \in Seq(Entry) /\ add.sg_offset \in Nat /\ offsets.sg \in Nat
  BY DEF PlacedInv, SgInv, AddType, ListType
<1>2. /\ Placed(DescriptorAt) /\ add.sg_offset <= DescriptorAt
      /\ NextSgOffset = DescriptorAt + DESC
      /\ DescriptorAt \in Nat
  BY DEF Fits
<1> DEFINE e == SgEntry(n)
<1>3. e \in Entry /\ ~e.is_SOF /\ ~e.is_EOF
  BY Built
<1>4. e.sg_offset = DescriptorAt
  BY DEF SgEntry
<1> HIDE DEF e
<1>5. Apart(Append(add.new, e), offsets.sg, NextSgOffset)
  BY <1>1, <1>2, <1>3, <1>4, ApartAppend
<1>6. AfterOne(NextSgOffset)
  <2>1. NextSgOffset - DESC = DescriptorAt /\ DESC <= NextSgOffset
    BY <1>2, Positive
  <2> QED
    BY <1>2, <2>1 DEF AfterOne
<1>7. NextSgOffset \in Nat
  BY <1>2, Positive
<1>8. Append(add.new, e) \in Seq(Entry)
  BY <1>1, <1>3
<1> QED
  BY <1>3, <1>5, <1>6, <1>7, <1>8 DEF e

LEMMA PlacedNextPart ==
    ASSUME SgInv, PlacedInv, Fits, NextPart
    PROVE  PlacedInv'
<1>1. /\ pc = "add" /\ DescriptorAt # AXIDMA_NOT_FOUND
      /\ UNCHANGED <<sg_plist, entries, offsets>>
  BY DEF NextPart
<1>2. Space \in 0..Space
  BY <1>1, Turn
<1>3. /\ add'.new = Append(add.new, SgEntry(Space))
      /\ add'.sg_offset = NextSgOffset
  <2>1. AddType
    BY <1>1 DEF SgInv
  <2> QED
    BY <2>1 DEF NextPart, AddType
<1>4. /\ Apart(Append(add.new, SgEntry(Space)), offsets.sg, NextSgOffset)
      /\ AfterOne(NextSgOffset)
  BY <1>1, <1>2, PlacedTurn
<1>5. Apart(add.new, offsets.sg, add.sg_offset)' /\ AfterOne(add.sg_offset)'
  BY <1>1, <1>3, <1>4 DEF Apart, AfterOne, Placed
<1>6. Apart(entries, 0, offsets.sg)' /\ AfterOne(offsets.sg)'
  BY <1>1 DEF PlacedInv, Apart, AfterOne, Placed
<1> QED
  BY <1>5, <1>6 DEF PlacedInv

LEMMA PlacedLastPart ==
    ASSUME SgInv, PlacedInv, Fits, LastPart
    PROVE  PlacedInv'
<1> DEFINE e == SgEntry(add.sz)
           t == Append(add.new, e)
           r == Framed(t)
<1>1. /\ pc = "add" /\ pc' = "idle" /\ add.sz <= Space
      /\ DescriptorAt # AXIDMA_NOT_FOUND
      /\ entries' = entries \o r
      /\ offsets'.sg = NextSgOffset
      /\ sg_plist' = sg_plist
  BY DEF LastPart, AddReturns
<1>2. /\ add.sz \in 0..Space /\ NoMarks(add.new) /\ add.new \in Seq(Entry)
      /\ entries \in Seq(Entry) /\ offsets.sg \in Nat
  <2>1. add.sz \in Nat /\ Space \in Nat
    BY <1>1, Turn DEF SgInv, AddType
  <2> QED
    BY <1>1, <2>1 DEF SgInv, AddType, AddTiles, ListType
<1>3. /\ t \in Seq(Entry) /\ e \in Entry /\ ~e.is_SOF /\ ~e.is_EOF
      /\ Apart(t, offsets.sg, NextSgOffset)
      /\ AfterOne(NextSgOffset) /\ NextSgOffset \in Nat
  BY <1>1, <1>2, PlacedTurn
<1> HIDE DEF e
<1>4. /\ r \in Seq(Entry) /\ Len(r) = Len(t)
      /\ \A k \in 1..Len(t) : r[k].sg_offset = t[k].sg_offset
  <2>1. FrameOf(r, t, Len(add.new) + 1)
    BY <1>2, <1>3, FramedIs
  <2> HIDE DEF t, r
  <2> QED
    BY <2>1 DEF FrameOf
<1> HIDE DEF t, r
<1>5. Apart(r, offsets.sg, NextSgOffset)
  BY <1>3, <1>4, ApartSame
<1>6. Apart(entries, 0, offsets.sg)
  BY DEF PlacedInv
<1>7. Apart(entries \o r, 0, NextSgOffset)
  BY <1>2, <1>3, <1>4, <1>5, <1>6, ApartConcat
<1>8. Apart(entries, 0, offsets.sg)' /\ AfterOne(offsets.sg)'
  BY <1>1, <1>3, <1>7 DEF Apart, AfterOne, Placed
<1> QED
  BY <1>1, <1>8 DEF PlacedInv

LEMMA PlacedNext ==
    ASSUME NoWrap, SgInv, PlacedInv, [Next]_vars
    PROVE  PlacedInv'
<1>1. ASSUME NEW sp \in SgPlists, NEW dp \in DataPlists, ListNew(sp, dp)
      PROVE  PlacedInv'
  <2>1. Empty' /\ pc' # "add"
    BY <1>1 DEF ListNew, SgInv, ListType, Empty
  <2> QED
    BY <2>1, PlacedEmpty
<1>2. ASSUME NEW sz \in Sizes, AddEntry(sz) PROVE PlacedInv'
  BY <1>2, PlacedAddEntry
<1>3. CASE NoDescriptor \/ NoMemory \/ NoNextPart
  BY <1>3, PlacedKeeps DEF NoDescriptor, NoMemory, NoNextPart, AddFails, AddReturns
<1>4. CASE NextPart
  BY <1>4, SearchPlaces, PlacedNextPart DEF NextPart
<1>5. CASE LastPart
  BY <1>5, SearchPlaces, PlacedLastPart DEF LastPart
<1>6. CASE ListDel
  BY <1>6, PlacedEmpty DEF ListDel, Empty
<1>7. CASE UNCHANGED vars
  BY <1>7, PlacedKeeps DEF vars
<1> QED
  BY <1>1, <1>2, <1>3, <1>4, <1>5, <1>6, <1>7 DEF Next, Building

-----------------------------------------------------------------------------
(* Buffers that may overrun: the search that does so is the last. *)

LastRun == sg_plist[Len(sg_plist)]

(* The descriptors of s are in order and apart, and all but the last in    *)
(* their places.                                                           *)
AllButLast(s) ==
    \A k \in 1..Len(s) :
        /\ k # Len(s) => Placed(s[k].sg_offset)
        /\ k # 1 => s[k - 1].sg_offset + DESC <= s[k].sg_offset

(* A search from this offset finds nothing. *)
OutOf(at) == SizeOf(sg_plist) <= at

(* The list has used its buffer up, with its last descriptor out of place. *)
UsedUp ==
    /\ AllButLast(entries) /\ Overruns(LastRun)
    /\ OutOf(offsets.sg)
    /\ pc = "add" => OutOf(add.sg_offset)

(* A call has, and will fail. *)
CallUsedUp ==
    /\ Apart(entries, 0, offsets.sg) /\ AfterOne(offsets.sg)
    /\ pc = "add" /\ OutOf(add.sg_offset)

OverrunInv == PlacedInv \/ UsedUp \/ CallUsedUp

LEMMA NoneBeyond ==
    ASSUME SgInv, pc = "add", OutOf(add.sg_offset)
    PROVE  DescriptorAt = AXIDMA_NOT_FOUND
<1>1. /\ sg_plist \in Physlists /\ add.sg_offset \in Nat
  BY Turn DEF SgInv, AddType
<1>2. ASSUME GetEntryIndex(sg_plist, add.sg_offset) # 0 PROVE FALSE
  <2> DEFINE i == GetEntryIndex(sg_plist, add.sg_offset)
  <2>1. Holds(sg_plist, i, add.sg_offset)
    BY <1>1, <1>2, IndexHolds
  <2> HIDE DEF i
  <2>2. /\ i \in 1..Len(sg_plist) /\ i \in 1..Len(sg_plist) + 1
        /\ i + 1 \in 1..Len(sg_plist) + 1 /\ Len(sg_plist) + 1 \in 1..Len(sg_plist) + 1
        /\ i + 1 <= Len(sg_plist) + 1
    BY <1>1, <2>1, Offsets DEF Holds
  <2>3. /\ Before(sg_plist, i + 1) <= SizeOf(sg_plist)
        /\ Before(sg_plist, i + 1) = Before(sg_plist, i) + sg_plist[i].len
        /\ SizeOf(sg_plist) \in Nat /\ Before(sg_plist, i + 1) \in Nat
    BY <1>1, <2>2, Offsets DEF SizeOf
  <2> QED
    BY <1>1, <2>1, <2>3 DEF Holds, OutOf
<1> QED
  BY <1>2 DEF DescriptorAt, FindContiguousAlignedAfter

LEMMA PlacedUnder ==
    ASSUME SgInv, pc # "none", NEW at \in Nat, Placed(at)
    PROVE  at + DESC <= SizeOf(sg_plist)
<1>1. sg_plist \in Physlists
  BY Buffers DEF SgInv, ListType
<1> DEFINE i == GetEntryIndex(sg_plist, at)
<1>2. Holds(sg_plist, i, at) /\ at + DESC <= Before(sg_plist, i) + sg_plist[i].len
  BY <1>1, IndexHolds DEF Placed
<1> HIDE DEF i
<1>3. /\ i \in 1..Len(sg_plist) /\ i + 1 \in 1..Len(sg_plist) + 1
      /\ Len(sg_plist) + 1 \in 1..Len(sg_plist) + 1 /\ i + 1 <= Len(sg_plist) + 1
  BY <1>1, <1>2, Offsets DEF Holds
<1>4. /\ Before(sg_plist, i + 1) <= SizeOf(sg_plist)
      /\ Before(sg_plist, i + 1) = Before(sg_plist, i) + sg_plist[i].len
      /\ SizeOf(sg_plist) \in Nat /\ Before(sg_plist, i + 1) \in Nat
  BY <1>1, <1>3, Offsets DEF SizeOf
<1> QED
  BY <1>2, <1>4, Positive

(* The turn that goes beyond the end of the buffer. *)
LEMMA GoesBeyond ==
    ASSUME CutAtPages, SgInv, pc = "add", Beyond
    PROVE  /\ Overruns(LastRun)
           /\ SizeOf(sg_plist) \in Nat /\ SizeOf(sg_plist) <= DescriptorAt
           /\ OutOf(NextSgOffset) /\ NextSgOffset \in Nat /\ DescriptorAt \in Nat
<1>1. sg_plist \in SgPlists /\ sg_plist \in Physlists /\ Len(sg_plist) \in Nat
  BY Turn, Offsets
<1>2. PICK i \in 1..Len(sg_plist), a \in Nat :
         /\ Overruns(sg_plist[i])
         /\ sg_plist[i].len < a /\ a < sg_plist[i].len + ALIGN
         /\ DescriptorAt = (Before(sg_plist, i) + a) % UINT
  BY DEF Beyond
<1>3. i = Len(sg_plist)
  <2>1. i \in 1..Len(sg_plist) - 1 => ~Overruns(sg_plist[i])
    BY <1>1, EndsAligned DEF CutAtPages
  <2> QED
    BY <1>1, <1>2, <2>1
<1>4. /\ SizeOf(sg_plist) = Before(sg_plist, i) + sg_plist[i].len
      /\ Before(sg_plist, i) \in Nat /\ sg_plist[i].len \in Nat
  <2>1. i \in 1..Len(sg_plist) + 1
    BY <1>1
  <2> QED
    BY <1>1, <1>3, <2>1, Offsets DEF SizeOf
<1>5. SizeOf(sg_plist) + ALIGN + DESC < UINT
  BY <1>1 DEF CutAtPages
<1> DEFINE d == Before(sg_plist, i) + a
<1>6. d \in Nat /\ SizeOf(sg_plist) < d /\ d < SizeOf(sg_plist) + ALIGN
  <2> DEFINE b == Before(sg_plist, i)
             l == sg_plist[i].len
  <2>1. /\ b \in Nat /\ l \in Nat /\ a \in Nat /\ l < a /\ a < l + ALIGN
        /\ SizeOf(sg_plist) = b + l /\ d = b + a /\ ALIGN \in Nat
    BY <1>2, <1>4, Positive
  <2> HIDE DEF b, l, d
  <2> QED
    BY ONLY <2>1
<1> HIDE DEF d
<1>7. SizeOf(sg_plist) \in Nat
  BY <1>4
<1>8. d \in 0..UINT - 1 /\ d + DESC \in 0..UINT - 1
  BY <1>5, <1>6, <1>7, Positive
<1>9. DescriptorAt = d
  <2>1. d % UINT = d
    BY ONLY <1>8, Positive, ModKeeps
  <2> QED
    BY <1>2, <2>1 DEF d
<1>10. NextSgOffset = d + DESC
  <2>1. (d + DESC) % UINT = d + DESC
    BY ONLY <1>8, Positive, ModKeeps
  <2> QED
    BY <1>9, <2>1 DEF NextSgOffset
<1>11. /\ SizeOf(sg_plist) <= d /\ SizeOf(sg_plist) <= d + DESC
       /\ d + DESC \in Nat
  BY <1>6, <1>7, Positive
<1> QED
  BY <1>2, <1>3, <1>6, <1>7, <1>9, <1>10, <1>11 DEF LastRun, OutOf

LEMMA BeyondNextPart ==
    ASSUME CutAtPages, SgInv, PlacedInv, Beyond, NextPart
    PROVE  OverrunInv'
<1>1. /\ pc = "add" /\ pc' = "add"
      /\ UNCHANGED <<sg_plist, entries, offsets>>
  BY DEF NextPart
<1>2. add'.sg_offset = NextSgOffset
  <2>1. AddType
    BY <1>1 DEF SgInv
  <2> QED
    BY <2>1 DEF NextPart, AddType
<1>3. OutOf(add.sg_offset)'
  BY <1>1, <1>2, GoesBeyond DEF OutOf
<1>4. Apart(entries, 0, offsets.sg)' /\ AfterOne(offsets.sg)'
  BY <1>1 DEF PlacedInv, Apart, AfterOne, Placed
<1> QED
  BY <1>1, <1>3, <1>4 DEF OverrunInv, CallUsedUp

(* The entries before the last are in their places and before it. *)
LEMMA AppendBeyond ==
    ASSUME SgInv, pc # "none",
           NEW s \in Seq(Entry), NEW b, Apart(s, 0, b),
           NEW e \in Entry, SizeOf(sg_plist) \in Nat,
           SizeOf(sg_plist) <= e.sg_offset
    PROVE  AllButLast(Append(s, e))
<1> DEFINE t == Append(s, e)
           n == Len(s)
<1>1. n \in Nat /\ Len(t) = n + 1 /\ (\A k \in 1..n : t[k] = s[k]) /\ t[n + 1] = e
  OBVIOUS
<1>2. \A k \in 1..n : s[k].sg_offset \in Nat
  <2>1. \A k \in 1..n : s[k] \in Entry
    BY ElementType
  <2> QED
    BY <2>1 DEF Entry
<1> HIDE DEF t, n
<1>3. ASSUME NEW k \in 1..n + 1
      PROVE  /\ k # n + 1 => Placed(t[k].sg_offset)
             /\ k # 1 => t[k - 1].sg_offset + DESC <= t[k].sg_offset
  <2>1. CASE k = n + 1
    <3>1. ASSUME k # 1 PROVE t[k - 1].sg_offset + DESC <= t[k].sg_offset
      <4>1. k - 1 \in 1..n /\ t[k - 1] = s[k - 1] /\ t[k] = e
        BY <1>1, <2>1, <3>1
      <4>2. Placed(s[k - 1].sg_offset) /\ s[k - 1].sg_offset \in Nat
        BY <1>2, <4>1 DEF Apart, n
      <4>3. s[k - 1].sg_offset + DESC <= SizeOf(sg_plist)
        BY <4>2, PlacedUnder
      <4>4. e.sg_offset \in Nat
        BY DEF Entry
      <4> QED
        BY <4>1, <4>2, <4>3, <4>4, Positive
    <3> QED
      BY <2>1, <3>1
  <2>2. CASE k # n + 1
    <3>1. k \in 1..n /\ t[k] = s[k]
      BY <1>1, <2>2
    <3>2. k # 1 => k - 1 \in 1..n /\ t[k - 1] = s[k - 1]
      BY <1>1, <3>1
    <3> QED
      BY <3>1, <3>2 DEF Apart, n
  <2> QED
    BY <2>1, <2>2
<1> QED
  BY <1>1, <1>3 DEF AllButLast, t

LEMMA BeyondLastPart ==
    ASSUME CutAtPages, SgInv, PlacedInv, Beyond, LastPart
    PROVE  OverrunInv'
<1> DEFINE e == SgEntry(add.sz)
           t == Append(add.new, e)
           r == Framed(t)
           u == Append(entries \o add.new, e)
           n == Len(entries)
           m == Len(add.new)
<1>1. /\ pc = "add" /\ pc' = "idle" /\ add.sz <= Space
      /\ entries' = entries \o r
      /\ offsets'.sg = NextSgOffset
      /\ sg_plist' = sg_plist
  BY DEF LastPart, AddReturns
<1>2. /\ add.sz \in 0..Space /\ NoMarks(add.new) /\ add.new \in Seq(Entry)
      /\ entries \in Seq(Entry) /\ offsets.sg \in Nat /\ add.sg_offset \in Nat
  <2>1. add.sz \in Nat /\ Space \in Nat
    BY <1>1, Turn DEF SgInv, AddType
  <2> QED
    BY <1>1, <2>1 DEF SgInv, AddType, AddTiles, ListType
<1>3. e \in Entry /\ ~e.is_SOF /\ ~e.is_EOF /\ e.sg_offset = DescriptorAt
  BY <1>1, <1>2, Built DEF SgEntry
<1> HIDE DEF e
<1>4. /\ r \in Seq(Entry) /\ Len(r) = m + 1
      /\ \A k \in 1..m + 1 : r[k].sg_offset = t[k].sg_offset
  <2>1. FrameOf(r, t, m + 1)
    BY <1>2, <1>3, FramedIs
  <2>2. m \in Nat /\ Len(t) = m + 1
    BY <1>2, <1>3
  <2> HIDE DEF t, r, m
  <2> QED
    BY <2>1, <2>2 DEF FrameOf
<1>5. Apart(entries \o add.new, 0, add.sg_offset)
  BY <1>1, <1>2, ApartConcat DEF PlacedInv
<1>6. /\ Overruns(LastRun) /\ SizeOf(sg_plist) \in Nat
      /\ SizeOf(sg_plist) <= DescriptorAt /\ OutOf(NextSgOffset)
  BY <1>1, GoesBeyond
<1>7. AllButLast(u)
  <2>1. entries \o add.new \in Seq(Entry) /\ pc # "none"
    BY <1>1, <1>2
  <2>2. SizeOf(sg_plist) <= e.sg_offset
    BY <1>3, <1>6
  <2> DEFINE s == entries \o add.new
  <2> HIDE DEF s
  <2>3. s \in Seq(Entry) /\ Apart(s, 0, add.sg_offset)
    BY <1>5, <2>1 DEF s
  <2>4. AllButLast(Append(s, e))
    BY <1>3, <1>6, <2>1, <2>2, <2>3, AppendBeyond
  <2> QED
    BY <2>4 DEF s
<1>8. /\ Len(u) = n + m + 1 /\ Len(entries \o r) = n + m + 1 /\ n \in Nat /\ m \in Nat
      /\ \A k \in 1..n + m + 1 : (entries \o r)[k].sg_offset = u[k].sg_offset
  <2>1. n \in Nat /\ m \in Nat
    BY <1>2
  <2>2. /\ Len(u) = n + m + 1 /\ Len(t) = m + 1
        /\ \A k \in 1..n : u[k] = entries[k]
        /\ \A k \in 1..m + 1 : u[n + k] = t[k]
    <3> DEFINE v == add.new
               w == entries
    <3>1. v \in Seq(Entry) /\ w \in Seq(Entry) /\ m = Len(v) /\ n = Len(w)
          /\ u = Append(w \o v, e) /\ t = Append(v, e)
      BY <1>2
    <3> HIDE DEF v, w, u, t, n, m
    <3>2. Len(u) = n + m + 1 /\ Len(t) = m + 1
      BY ONLY <1>3, <3>1
    <3>3. \A k \in 1..n : u[k] = w[k]
      BY ONLY <1>3, <3>1
    <3>4. ASSUME NEW k \in 1..m + 1 PROVE u[n + k] = t[k]
      <4>1. CASE k = m + 1
        <5>1. u[n + k] = e /\ t[k] = e
          BY ONLY <1>3, <3>1, <4>1
        <5> QED
          BY <5>1
      <4>2. CASE k # m + 1
        <5>1. k \in 1..m /\ m \in Nat /\ n \in Nat
          BY ONLY <3>1, <4>2, k \in 1..m + 1
        <5>2. t[k] = v[k] /\ (w \o v)[n + k] = v[k] /\ n + k \in 1..Len(w \o v)
          BY ONLY <1>3, <3>1, <5>1
        <5>3. w \o v \in Seq(Entry)
          BY ONLY <3>1
        <5>4. u[n + k] = (w \o v)[n + k]
          BY ONLY <1>3, <3>1, <5>2, <5>3
        <5> QED
          BY <5>2, <5>4
      <4> QED
        BY <4>1, <4>2
    <3> QED
      BY <3>2, <3>3, <3>4 DEF w
  <2>3. /\ Len(entries \o r) = n + m + 1
        /\ \A k \in 1..n : (entries \o r)[k] = entries[k]
        /\ \A k \in 1..m + 1 : (entries \o r)[n + k] = r[k]
    <3> DEFINE w == entries
    <3>1. w \in Seq(Entry) /\ n = Len(w) /\ r \in Seq(Entry) /\ Len(r) = m + 1
          /\ n \in Nat /\ m \in Nat
      BY <1>2, <1>4, <2>1
    <3> HIDE DEF w, r, n, m
    <3>2. /\ Len(w \o r) = n + m + 1
          /\ \A k \in 1..n : (w \o r)[k] = w[k]
          /\ \A k \in 1..m + 1 : (w \o r)[n + k] = r[k]
      BY ONLY <3>1
    <3> QED
      BY <3>2 DEF w
  <2> HIDE DEF u, t, r, n, m
  <2>4. ASSUME NEW k \in 1..n + m + 1, ~(k \in 1..n)
        PROVE  k - n \in 1..m + 1 /\ n + (k - n) = k
    BY <2>1, <2>4
  <2>5. ASSUME NEW k \in 1..n + m + 1
        PROVE  (entries \o r)[k].sg_offset = u[k].sg_offset
    <3>1. CASE k \in 1..n
      BY <2>2, <2>3, <3>1
    <3>2. CASE ~(k \in 1..n)
      <4>1. PICK j \in 1..m + 1 : n + j = k
        BY <2>4, <3>2
      <4>2. (entries \o r)[k] = r[j] /\ u[k] = t[j]
        BY <2>2, <2>3, <4>1
      <4>3. r[j].sg_offset = t[j].sg_offset
        BY <1>4, <4>1
      <4> QED
        BY <4>2, <4>3
    <3> QED
      BY <3>1, <3>2
  <2> QED
    BY <2>1, <2>2, <2>3, <2>5
<1> HIDE DEF u, r, t, n, m
<1>9. AllButLast(entries \o r)
  <2> DEFINE x == entries \o r
             c == n + m + 1
  <2>1. /\ Len(u) = c /\ Len(x) = c
        /\ \A k \in 1..c : x[k].sg_offset = u[k].sg_offset
    BY <1>8
  <2>2. \A k \in 1..c : k # 1 => k - 1 \in 1..c
    BY <1>8
  <2> HIDE DEF x, c
  <2> HIDE DEF u
  <2>3. ASSUME NEW k \in 1..c
        PROVE  /\ k # c => Placed(x[k].sg_offset)
               /\ k # 1 => x[k - 1].sg_offset + DESC <= x[k].sg_offset
    <3>1. /\ k # c => Placed(u[k].sg_offset)
          /\ k # 1 => u[k - 1].sg_offset + DESC <= u[k].sg_offset
      BY <1>7, <2>1 DEF AllButLast
    <3>2. x[k].sg_offset = u[k].sg_offset
      BY <2>1
    <3>3. k # 1 => x[k - 1].sg_offset = u[k - 1].sg_offset
      BY <2>1, <2>2
    <3> QED
      BY <3>1, <3>2, <3>3
  <2>4. AllButLast(x)
    BY <2>1, <2>3 DEF AllButLast
  <2> QED
    BY <2>4 DEF x
<1>10. AllButLast(entries)' /\ Overruns(LastRun)' /\ OutOf(offsets.sg)'
  <2>1. AllButLast(entries)'
    BY <1>1, <1>9 DEF AllButLast, Placed
  <2> QED
    BY <1>1, <1>6, <2>1 DEF LastRun, OutOf
<1> QED
  BY <1>1, <1>10 DEF OverrunInv, UsedUp

LEMMA UsedUpKeeps ==
    ASSUME UsedUp, UNCHANGED <<sg_plist, entries, offsets>>,
           pc' = "add" => OutOf(add.sg_offset)'
    PROVE  UsedUp'
BY DEF UsedUp, AllButLast, Placed, LastRun, OutOf

LEMMA OverrunNext ==
    ASSUME CutAtPages, SgInv, OverrunInv, [Next]_vars
    PROVE  OverrunInv'
<1>1. ASSUME NEW sp \in SgPlists, NEW dp \in DataPlists, ListNew(sp, dp)
      PROVE  OverrunInv'
  <2>1. Empty' /\ pc' # "add"
    BY <1>1 DEF ListNew, SgInv, ListType, Empty
  <2> QED
    BY <2>1, PlacedEmpty DEF OverrunInv
<1>2. CASE ListDel
  BY <1>2, PlacedEmpty DEF ListDel, Empty, OverrunInv
<1>3. ASSUME PlacedInv, ~ListDel,
             ~\E sp \in SgPlists, dp \in DataPlists : ListNew(sp, dp)
      PROVE  OverrunInv'
  <2>1. ASSUME NEW sz \in Sizes, AddEntry(sz) PROVE OverrunInv'
    BY <1>3, <2>1, PlacedAddEntry DEF OverrunInv
  <2>2. CASE NoDescriptor \/ NoMemory \/ NoNextPart
    BY <1>3, <2>2, PlacedKeeps
       DEF NoDescriptor, NoMemory, NoNextPart, AddFails, AddReturns, OverrunInv
  <2>3. CASE NextPart
    <3>1. Fits \/ Beyond
      BY <1>3, <2>3, SearchFinds DEF NextPart, PlacedInv
    <3> QED
      BY <1>3, <2>3, <3>1, PlacedNextPart, BeyondNextPart DEF OverrunInv
  <2>4. CASE LastPart
    <3>1. Fits \/ Beyond
      BY <1>3, <2>4, SearchFinds DEF LastPart, PlacedInv
    <3> QED
      BY <1>3, <2>4, <3>1, PlacedLastPart, BeyondLastPart DEF OverrunInv
  <2>5. CASE UNCHANGED vars
    BY <1>3, <2>5, PlacedKeeps DEF vars, OverrunInv
  <2> QED
    BY <1>3, <2>1, <2>2, <2>3, <2>4, <2>5 DEF Next, Building
<1>4. ASSUME UsedUp, ~ListDel,
             ~\E sp \in SgPlists, dp \in DataPlists : ListNew(sp, dp)
      PROVE  OverrunInv'
  <2>1. ASSUME NEW sz \in Sizes, AddEntry(sz) PROVE UsedUp'
    <3>1. CASE \E code : AddFails(code)
      BY <1>4, <3>1, UsedUpKeeps DEF AddFails, AddReturns
    <3>2. CASE ~\E code : AddFails(code)
      <4>1. add'.sg_offset = offsets.sg /\ UNCHANGED <<sg_plist, entries, offsets>>
        BY <2>1, <3>2 DEF AddEntry
      <4> QED
        BY <1>4, <4>1, UsedUpKeeps DEF UsedUp, OutOf
    <3> QED
      BY <3>1, <3>2
  <2>2. CASE NoDescriptor \/ NoMemory \/ NoNextPart
    <3>1. UNCHANGED <<sg_plist, entries, offsets>> /\ pc' = "idle"
      BY <2>2 DEF NoDescriptor, NoMemory, NoNextPart, AddFails, AddReturns
    <3>2. UsedUp'
      BY <1>4, <3>1, UsedUpKeeps
    <3> QED
      BY <3>2 DEF OverrunInv
  <2>3. ASSUME NextPart \/ LastPart PROVE FALSE
    BY <1>4, <2>3, NoneBeyond DEF NextPart, LastPart, UsedUp
  <2>4. CASE UNCHANGED vars
    <3>1. UNCHANGED <<sg_plist, entries, offsets, pc, add>>
      BY <2>4 DEF vars
    <3>2. UsedUp'
      BY <1>4, <3>1 DEF UsedUp, AllButLast, Placed, LastRun, OutOf
    <3> QED
      BY <3>2 DEF OverrunInv
  <2> QED
    BY <1>4, <2>1, <2>2, <2>3, <2>4 DEF Next, Building, OverrunInv
<1>5. ASSUME CallUsedUp, ~ListDel,
             ~\E sp \in SgPlists, dp \in DataPlists : ListNew(sp, dp)
      PROVE  OverrunInv'
  <2>1. pc = "add" /\ DescriptorAt = AXIDMA_NOT_FOUND
    BY <1>5, NoneBeyond DEF CallUsedUp
  <2>2. CASE NoDescriptor \/ NoMemory \/ NoNextPart
    <3>1. UNCHANGED <<sg_plist, entries, offsets>> /\ pc' = "idle"
      BY <2>2 DEF NoDescriptor, NoMemory, NoNextPart, AddFails, AddReturns
    <3>2. Apart(entries, 0, offsets.sg)' /\ AfterOne(offsets.sg)'
      BY <1>5, <3>1 DEF CallUsedUp, Apart, AfterOne, Placed
    <3> QED
      BY <3>1, <3>2 DEF PlacedInv, OverrunInv
  <2>3. CASE UNCHANGED vars
    BY <1>5, <2>3 DEF vars, CallUsedUp, OverrunInv, Apart, AfterOne, Placed, OutOf
  <2>4. ASSUME NextPart \/ LastPart \/ \E sz \in Sizes : AddEntry(sz) PROVE FALSE
    BY <2>1, <2>4 DEF NextPart, LastPart, AddEntry
  <2> QED
    BY <1>5, <2>2, <2>3, <2>4 DEF Next, Building
<1> QED
  BY <1>1, <1>2, <1>3, <1>4, <1>5 DEF OverrunInv

LEMMA OverrunOnlyLast == SgInv /\ OverrunInv => OnlyLastOverruns
<1> SUFFICES ASSUME SgInv, OverrunInv, NEW k \in DOMAIN entries
             PROVE  /\ k > 1 => entries[k - 1].sg_offset + DESC <= entries[k].sg_offset
                    /\ \/ InBuffer(k)
                       \/ k = Len(entries) /\ Overruns(LastRun)
  BY DEF OnlyLastOverruns, LastRun
<1>1. k \in 1..Len(entries)
  BY DEF SgInv, ListType
<1>2. Placed(entries[k].sg_offset) => InBuffer(k)
  BY DEF Placed, InBuffer
<1>3. CASE Apart(entries, 0, offsets.sg)
  BY <1>1, <1>2, <1>3 DEF Apart
<1>4. CASE UsedUp
  BY <1>1, <1>2, <1>4 DEF UsedUp, AllButLast
<1> QED
  BY <1>3, <1>4 DEF OverrunInv, PlacedInv, CallUsedUp

(* OnlyLastOverruns: in any descriptor buffer that the pinner cut at page  *)
(* boundaries, wherever it ends, the descriptors of axidma_add_entry are   *)
(* apart, and all of them but possibly the last one are aligned and inside *)
(* a run; the last one can be beyond the buffer only if the buffer's end   *)
(* overruns.                                                               *)
THEOREM DescriptorsInBuffer ==
    ASSUME CutAtPages
    PROVE  Spec => []OnlyLastOverruns
<1>1. SgInv /\ OverrunInv /\ [Next]_vars => SgInv' /\ OverrunInv'
  BY SgNext, OverrunNext
<1>2. Init => SgInv /\ OverrunInv
  BY SgInit, PlacedInit DEF OverrunInv
<1> QED
  BY <1>1, <1>2, OverrunOnlyLast, PTL DEF Spec

-----------------------------------------------------------------------------
(* The chunks of a list, and their sum. *)

(* g follows the recursion of a fold on the prefixes 1..i. *)
OnPrefixes(g, V, b, Step, N) ==
    /\ g[1..0] = b
    /\ \A i \in 1..N : g[1..i - 1] \in V => g[1..i] = Step[<<g[1..i - 1], i>>]

(* f[i] is the value of a fold after i elements, the last one is v. *)
Folding(f, V, b, Step, N, v) ==
    /\ f \in [0..N -> V]
    /\ f[0] = b /\ f[N] = v
    /\ \A i \in 1..N : f[i] = Step[<<f[i - 1], i>>]

LEMMA PrefixValues ==
    ASSUME NEW V, NEW b \in V, NEW N \in Nat, NEW Step \in [V \X (1..N) -> V],
           NEW g, OnPrefixes(g, V, b, Step, N)
    PROVE  \E f : Folding(f, V, b, Step, N, g[1..N])
<1>0. /\ g[1..0] = b
      /\ \A i \in 1..N : g[1..i - 1] \in V => g[1..i] = Step[<<g[1..i - 1], i>>]
  BY DEF OnPrefixes
<1> DEFINE S == {i \in Nat : i <= N => g[1..i] \in V}
<1>1. 0 \in S
  BY <1>0
<1>2. ASSUME NEW i \in Nat, i \in S PROVE i + 1 \in S
  <2> SUFFICES ASSUME i + 1 <= N PROVE g[1..i + 1] \in V
    OBVIOUS
  <2>1. i + 1 \in 1..N /\ (i + 1) - 1 = i /\ g[1..i] \in V
    BY <1>2
  <2>2. g[1..i + 1] = Step[<<g[1..i], i + 1>>]
    <3>1. g[1..(i + 1) - 1] \in V
      BY <2>1
    <3>2. g[1..i + 1] = Step[<<g[1..(i + 1) - 1], i + 1>>]
      BY <2>1, <3>1, <1>0
    <3> QED
      BY <2>1, <3>2
  <2>3. <<g[1..i], i + 1>> \in V \X (1..N)
    BY <2>1
  <2> QED
    BY <2>2, <2>3
<1>3. Nat \subseteq S
  <2> HIDE DEF S
  <2> QED
    BY <1>1, <1>2, NatSetInduction
<1>4. \A i \in 0..N : g[1..i] \in V
  BY <1>3
<1> DEFINE f == [i \in 0..N |-> g[1..i]]
<1>5. f \in [0..N -> V] /\ f[0] = b /\ f[N] = g[1..N]
  BY <1>0, <1>4
<1>6. ASSUME NEW i \in 1..N PROVE f[i] = Step[<<f[i - 1], i>>]
  <2>1. i \in 0..N /\ i - 1 \in 0..N
    OBVIOUS
  <2>2. f[i] = g[1..i] /\ f[i - 1] = g[1..i - 1] /\ g[1..i - 1] \in V
    BY <2>1, <1>4
  <2> HIDE DEF f
  <2> QED
    BY <1>0, <2>2
<1> QED
  BY <1>5, <1>6 DEF Folding

LEMMA Prefix ==
    ASSUME NEW N \in Nat, NEW i \in 1..N
    PROVE  /\ 1..i \in SUBSET (1..N) /\ 1..i # {}
           /\ Max(1..i) = i /\ (1..i) \ {i} = 1..i - 1
<1>1. 1..i \in SUBSET (1..N) /\ 1..i # {} /\ i \in Nat
  OBVIOUS
<1>2. Max(1..i) \in 1..i /\ \A y \in 1..i : y <= Max(1..i)
  BY <1>1, MaxUpTo
<1>3. Max(1..i) = i
  BY <1>1, <1>2
<1>4. (1..i) \ {i} = 1..i - 1
  OBVIOUS
<1> QED
  BY <1>1, <1>3, <1>4

LEMMA NoPrefix == ASSUME NEW N \in Nat PROVE 1..0 = {} /\ {} \in SUBSET (1..N)
OBVIOUS

(* What an entry adds to the chunks before it. *)
Chunked(cs, e) ==
    IF e.is_SOF THEN Append(cs, e.len) ELSE [cs EXCEPT ![Len(cs)] = @ + e.len]

ChunksOf(s) == FoldLeft(LAMBDA cs, e : Chunked(cs, e), <<>>, s)

(* f[i] are the chunks of the first i entries. *)
Chunking(s, f) ==
    /\ f \in [0..Len(s) -> Seq(Nat)]
    /\ f[0] = <<>>
    /\ \A i \in 1..Len(s) : f[i] = Chunked(f[i - 1], s[i])

LEMMA ChunkedType ==
    ASSUME NEW cs \in Seq(Nat), NEW e \in Entry
    PROVE  Chunked(cs, e) \in Seq(Nat)
<1>1. e.len \in Nat
  BY DEF Entry
<1>2. Append(cs, e.len) \in Seq(Nat)
  BY <1>1
<1>3. [cs EXCEPT ![Len(cs)] = @ + e.len] \in Seq(Nat)
  <2> DEFINE f == [cs EXCEPT ![Len(cs)] = @ + e.len]
             n == Len(cs)
  <2>1. n \in Nat /\ DOMAIN cs = 1..n /\ \A k \in 1..n : cs[k] \in Nat
    OBVIOUS
  <2>2. f = [k \in 1..n |-> IF k = n THEN cs[k] + e.len ELSE cs[k]]
    BY <2>1
  <2> HIDE DEF f, n
  <2>3. f = [k \in 1..n |-> f[k]] /\ \A k \in 1..n : f[k] \in Nat
    BY <1>1, <2>1, <2>2
  <2>4. f \in Seq(Nat)
    BY <2>1, <2>3, IsSequence
  <2> QED
    BY <2>4 DEF f
<1> QED
  BY <1>2, <1>3 DEF Chunked

LEMMA ChunkingExists ==
    ASSUME NEW s \in Seq(Entry)
    PROVE  \E f : Chunking(s, f) /\ ChunksOf(s) = f[Len(s)]
<1> DEFINE N == Len(s)
           V == Seq(Nat)
           Step == [vi \in V \X (1..N) |-> Chunked(vi[1], s[vi[2]])]
           Is(it) == it = [t \in SUBSET (1..N) |->
                             IF t = {} THEN <<>>
                             ELSE Chunked(it[t \ {Max(t)}], s[Max(t)])]
           chosen == CHOOSE it : Is(it)
<1>1. N \in Nat /\ DOMAIN s = 1..N /\ <<>> \in V
  OBVIOUS
<1>2. Step \in [V \X (1..N) -> V]
  <2>1. ASSUME NEW v \in V, NEW i \in 1..N PROVE Chunked(v, s[i]) \in V
    <3>1. s[i] \in Entry
      BY ElementType
    <3> QED
      BY <3>1, ChunkedType
  <2> HIDE DEF V
  <2> QED
    BY <2>1
<1>3. \A v \in V, i \in 1..N : Step[<<v, i>>] = Chunked(v, s[i])
  OBVIOUS
<1>4. ChunksOf(s) = chosen[1..N]
  <2>1. ChunksOf(s) = (CHOOSE it : it = [t \in SUBSET DOMAIN s |->
                      IF t = {} THEN <<>>
                      ELSE Chunked(it[t \ {Max(t)}], s[Max(t)])])[DOMAIN s]
    BY DEF ChunksOf, FoldLeft, MapThenFoldSet
  <2> QED
    BY <2>1, <1>1
<1> HIDE DEF Step, V, N
<1>5. ASSUME NEW it \in [SUBSET (1..N) -> V], IsFold(it, <<>>, Step, N)
      PROVE  Is(it)
  <2>1. ASSUME NEW t \in SUBSET (1..N), t # {}
        PROVE  Step[<<it[t \ {Max(t)}], Max(t)>>] = Chunked(it[t \ {Max(t)}], s[Max(t)])
    <3>1. Max(t) \in 1..N
      BY <2>1, <1>1, MaxUpTo
    <3>2. it[t \ {Max(t)}] \in V
      OBVIOUS
    <3> QED
      BY <3>1, <3>2, <1>3
  <2> QED
    BY <1>5, <2>1 DEF IsFold
<1>6. PICK it \in [SUBSET (1..N) -> V] : IsFold(it, <<>>, Step, N)
  BY <1>1, <1>2, FoldExists
<1>7. Is(it)
  BY <1>5, <1>6
<1>8. Is(chosen)
  <2> HIDE DEF Is
  <2> QED
    BY <1>7
<1> HIDE DEF chosen
<1>9. chosen[1..0] = <<>>
  BY <1>1, <1>8, NoPrefix
<1>10. ASSUME NEW i \in 1..N, chosen[1..i - 1] \in V
       PROVE  chosen[1..i] = Step[<<chosen[1..i - 1], i>>]
  <2>1. chosen[1..i] = Chunked(chosen[1..i - 1], s[i])
    <3>1. /\ 1..i \in SUBSET (1..N) /\ 1..i # {}
          /\ Max(1..i) = i /\ (1..i) \ {i} = 1..i - 1
      BY <1>1, Prefix
    <3> QED
      BY ONLY <1>8, <3>1
  <2> QED
    BY <2>1, <1>3, <1>10
<1>11. PICK f : Folding(f, V, <<>>, Step, N, chosen[1..N])
  <2>1. OnPrefixes(chosen, V, <<>>, Step, N)
    BY <1>9, <1>10 DEF OnPrefixes
  <2>2. N \in Nat /\ <<>> \in V
    BY <1>1
  <2> QED
    BY ONLY <1>2, <2>1, <2>2, PrefixValues
<1>12. ASSUME NEW i \in 1..N PROVE f[i] = Chunked(f[i - 1], s[i])
  <2>1. f[i - 1] \in V /\ f[i] = Step[<<f[i - 1], i>>]
    BY <1>1, <1>11 DEF Folding
  <2> QED
    BY <2>1, <1>3
<1>13. Chunking(s, f)
  BY <1>11, <1>12 DEF Chunking, Folding, N, V
<1> QED
  BY <1>4, <1>11, <1>13 DEF Folding, N

LEMMA ChunksUnique ==
    ASSUME NEW s \in Seq(Entry), NEW r \in Seq(Entry), NEW f, NEW g,
           Chunking(s, f), Chunking(r, g),
           NEW m \in Nat, m <= Len(s), m <= Len(r), \A i \in 1..m : s[i] = r[i]
    PROVE  f[m] = g[m]
<1> DEFINE S == {i \in Nat : i <= m => f[i] = g[i]}
<1>0. Len(s) \in Nat /\ Len(r) \in Nat
  OBVIOUS
<1>1. 0 \in S
  BY DEF Chunking
<1>2. ASSUME NEW i \in Nat, i \in S PROVE i + 1 \in S
  <2> SUFFICES ASSUME i + 1 <= m PROVE f[i + 1] = g[i + 1]
    OBVIOUS
  <2>1. i + 1 \in 1..Len(s) /\ i + 1 \in 1..Len(r) /\ i + 1 \in 1..m /\ (i + 1) - 1 = i
    BY <1>0
  <2>2. /\ f[i + 1] = Chunked(f[i], s[i + 1])
        /\ g[i + 1] = Chunked(g[i], r[i + 1])
    BY <2>1 DEF Chunking
  <2>3. f[i] = g[i]
    BY <1>2
  <2>4. s[i + 1] = r[i + 1]
    BY <2>1
  <2> QED
    BY ONLY <2>2, <2>3, <2>4
<1>3. Nat \subseteq S
  <2> HIDE DEF S
  <2> QED
    BY <1>1, <1>2, NatSetInduction
<1> QED
  BY <1>3

LEMMA AddToLast ==
    ASSUME NEW cs \in Seq(Nat), NEW v \in Nat, NEW e \in Entry, ~e.is_SOF
    PROVE  Chunked(Append(cs, v), e) = Append(cs, v + e.len)
<1> DEFINE a == Append(cs, v)
           n == Len(cs)
<1>1. n \in Nat /\ e.len \in Nat
  BY DEF Entry
<1>2. /\ DOMAIN a = 1..n + 1 /\ Len(a) = n + 1 /\ a[n + 1] = v
      /\ \A k \in 1..n : a[k] = cs[k]
      /\ a \in Seq(Nat)
  OBVIOUS
<1> DEFINE b == Append(cs, v + e.len)
<1>3. /\ b = [k \in 1..n + 1 |-> b[k]] /\ b[n + 1] = v + e.len
      /\ \A k \in 1..n : b[k] = cs[k]
  BY <1>1
<1> DEFINE c == [a EXCEPT ![Len(a)] = @ + e.len]
<1>4. /\ c = [k \in 1..n + 1 |-> c[k]] /\ c[n + 1] = v + e.len
      /\ \A k \in 1..n : c[k] = cs[k]
  <2> HIDE DEF a, n
  <2>0. a = [k \in 1..n + 1 |-> a[k]]
    BY <1>2
  <2>1. c = [k \in 1..n + 1 |-> IF k = n + 1 THEN a[k] + e.len ELSE a[k]]
    BY <1>2, <2>0
  <2>2. n + 1 \in 1..n + 1 /\ \A k \in 1..n : k \in 1..n + 1 /\ k # n + 1
    BY <1>1
  <2> HIDE DEF c, n
  <2>3. c[n + 1] = v + e.len /\ \A k \in 1..n : c[k] = cs[k]
    BY ONLY <1>2, <2>1, <2>2
  <2>4. c = [k \in 1..n + 1 |-> c[k]]
    BY ONLY <2>1
  <2> QED
    BY <2>3, <2>4
<1>5. c = b
  <2> HIDE DEF a, b, c, n
  <2>1. ASSUME NEW k \in 1..n + 1 PROVE c[k] = b[k]
    <3>1. k = n + 1 \/ k \in 1..n
      BY <1>1
    <3> QED
      BY <3>1, <1>3, <1>4
  <2> QED
    BY <1>3, <1>4, <2>1
<1> QED
  BY <1>5 DEF Chunked

(* A call's entries make one chunk. *)
LEMMA ChunksConcat ==
    ASSUME NEW s \in Seq(Entry), NEW t \in Seq(Entry), t # <<>>,
           \A k \in 1..Len(t) : t[k].is_SOF <=> k = 1
    PROVE  /\ ChunksOf(s) \in Seq(Nat)
           /\ ChunksOf(s \o t) = Append(ChunksOf(s), Total(t))
<1> DEFINE u == s \o t
           n == Len(s)
           cs == ChunksOf(s)
<1>1. /\ n \in Nat /\ Len(t) \in Nat \ {0} /\ Len(u) = n + Len(t) /\ u \in Seq(Entry)
      /\ \A k \in 1..n : u[k] = s[k]
      /\ \A k \in 1..Len(t) : u[n + k] = t[k]
  OBVIOUS
<1>2. \A k \in 1..Len(t) : t[k] \in Entry /\ t[k].len \in Nat
  <2>1. \A k \in 1..Len(t) : t[k] \in Entry
    BY ElementType
  <2> QED
    BY <2>1 DEF Entry
<1> HIDE DEF u
<1>3. PICK f : Chunking(u, f) /\ ChunksOf(u) = f[Len(u)]
  BY <1>1, ChunkingExists
<1>4. PICK g : Chunking(s, g) /\ cs = g[n]
  BY ChunkingExists
<1> HIDE DEF n
<1>5. f[n] = cs
  <2>1. n <= Len(u) /\ n <= Len(s) /\ n \in Nat
    BY <1>1 DEF n
  <2> QED
    BY <1>1, <1>3, <1>4, <2>1, ChunksUnique
<1>6. cs \in Seq(Nat)
  BY <1>1, <1>4 DEF Chunking, n
<1> HIDE DEF cs
<1>7. Lengthy(t, Len(t))
  BY <1>2 DEF Lengthy
<1>8. PICK h : Sums(t, Len(t), h) /\ Total(t) = h[Len(t)]
  BY <1>1, <1>7, TotalSums
<1> DEFINE S == {j \in Nat : j + 1 <= Len(t) => f[n + (j + 1)] = Append(cs, h[j + 1])}
<1>9. 0 \in S
  <2>1. 1 \in 1..Len(t) /\ n + 1 \in 1..Len(u) /\ (n + 1) - 1 = n /\ 1 - 1 = 0
    BY <1>1
  <2>2. f[n + 1] = Chunked(cs, t[1])
    <3>1. f[n + 1] = Chunked(f[(n + 1) - 1], u[n + 1])
      BY <1>3, <2>1 DEF Chunking
    <3>2. u[n + 1] = t[1]
      BY <1>1, <2>1
    <3> QED
      BY ONLY <3>1, <3>2, <2>1, <1>5
  <2>3. h[1] = t[1].len
    <3>1. h[1] = h[0] + t[1].len /\ h[0] = 0
      BY <1>8, <2>1 DEF Sums
    <3> QED
      BY <1>2, <2>1, <3>1
  <2>4. f[n + (0 + 1)] = Append(cs, h[0 + 1])
    <3>1. t[1].is_SOF
      BY <2>1
    <3>2. 0 + 1 = 1
      OBVIOUS
    <3> QED
      BY ONLY <2>2, <2>3, <3>1, <3>2 DEF Chunked
  <2> QED
    BY <2>4
<1>10. ASSUME NEW j \in Nat, j \in S PROVE j + 1 \in S
  <2> SUFFICES ASSUME (j + 1) + 1 <= Len(t)
               PROVE  f[n + ((j + 1) + 1)] = Append(cs, h[(j + 1) + 1])
    OBVIOUS
  <2> DEFINE i == j + 1
             m == i + 1
  <2>1. /\ m \in 1..Len(t) /\ m # 1 /\ m - 1 = i /\ i \in 0..Len(t) /\ i + 1 = m
        /\ n + m \in 1..Len(u) /\ (n + m) - 1 = n + i
    BY <1>1
  <2>2. f[n + i] = Append(cs, h[i])
    BY <1>1, <1>10
  <2> HIDE DEF i, m
  <2>3. h[i] \in Nat /\ h[m] = h[i] + t[m].len
    BY <1>8, <2>1 DEF Sums
  <2>4. t[m] \in Entry /\ ~t[m].is_SOF
    BY <1>2, <2>1
  <2>5. f[n + m] = Chunked(f[n + i], t[m])
    <3>1. f[n + m] = Chunked(f[(n + m) - 1], u[n + m])
      BY <1>3, <2>1 DEF Chunking
    <3>2. u[n + m] = t[m]
      BY <1>1, <2>1
    <3> QED
      BY ONLY <3>1, <3>2, <2>1
  <2>6. f[n + m] = Append(cs, h[m])
    BY <1>6, <2>2, <2>3, <2>4, <2>5, AddToLast
  <2> QED
    BY <2>6 DEF m, i
<1>11. Nat \subseteq S
  <2> HIDE DEF S
  <2> QED
    BY <1>9, <1>10, NatSetInduction
<1>12. f[n + Len(t)] = Append(cs, h[Len(t)])
  <2>1. Len(t) - 1 \in Nat /\ (Len(t) - 1) + 1 = Len(t)
    BY <1>1
  <2>2. Len(t) - 1 \in S
    BY <2>1, <1>11
  <2> QED
    BY <2>1, <2>2
<1> QED
  BY <1>1, <1>3, <1>6, <1>8, <1>12 DEF u, cs

(* The bytes that chunks of the sizes cs take. *)
BytesOf(cs) == FoldLeft(LAMBDA total, n : total + n, 0, cs)


(* f[i] is the sum of the first i chunks. *)
Adding(cs, f) ==
    /\ f \in [0..Len(cs) -> Nat]
    /\ f[0] = 0
    /\ \A i \in 1..Len(cs) : f[i] = f[i - 1] + cs[i]

LEMMA AddingExists ==
    ASSUME NEW cs \in Seq(Nat)
    PROVE  \E f : Adding(cs, f) /\ BytesOf(cs) = f[Len(cs)]
<1> DEFINE N == Len(cs)
           Step == [vi \in Nat \X (1..N) |-> vi[1] + cs[vi[2]]]
           Is(it) == it = [t \in SUBSET (1..N) |->
                             IF t = {} THEN 0 ELSE it[t \ {Max(t)}] + cs[Max(t)]]
           chosen == CHOOSE it : Is(it)
<1>1. N \in Nat /\ DOMAIN cs = 1..N
  OBVIOUS
<1>2. Step \in [Nat \X (1..N) -> Nat]
  OBVIOUS
<1>3. \A v \in Nat, i \in 1..N : Step[<<v, i>>] = v + cs[i]
  OBVIOUS
<1>4. BytesOf(cs) = chosen[1..N]
  <2>1. BytesOf(cs) = (CHOOSE it : it = [t \in SUBSET DOMAIN cs |->
                      IF t = {} THEN 0 ELSE it[t \ {Max(t)}] + cs[Max(t)]])[DOMAIN cs]
    BY DEF BytesOf, FoldLeft, MapThenFoldSet
  <2> QED
    BY <2>1, <1>1
<1> HIDE DEF Step, N
<1>5. ASSUME NEW it \in [SUBSET (1..N) -> Nat], IsFold(it, 0, Step, N)
      PROVE  Is(it)
  <2>1. ASSUME NEW t \in SUBSET (1..N), t # {}
        PROVE  Step[<<it[t \ {Max(t)}], Max(t)>>] = it[t \ {Max(t)}] + cs[Max(t)]
    <3>1. Max(t) \in 1..N
      BY <2>1, <1>1, MaxUpTo
    <3>2. it[t \ {Max(t)}] \in Nat
      OBVIOUS
    <3> QED
      BY <3>1, <3>2, <1>3
  <2> QED
    BY <1>5, <2>1 DEF IsFold
<1>6. PICK it \in [SUBSET (1..N) -> Nat] : IsFold(it, 0, Step, N)
  BY <1>1, <1>2, FoldExists
<1>7. Is(it)
  BY <1>5, <1>6
<1>8. Is(chosen)
  <2> HIDE DEF Is
  <2> QED
    BY <1>7
<1> HIDE DEF chosen
<1>9. chosen[1..0] = 0
  BY <1>1, <1>8, NoPrefix
<1>10. ASSUME NEW i \in 1..N, chosen[1..i - 1] \in Nat
       PROVE  chosen[1..i] = Step[<<chosen[1..i - 1], i>>]
  <2>1. chosen[1..i] = chosen[1..i - 1] + cs[i]
    <3>1. /\ 1..i \in SUBSET (1..N) /\ 1..i # {}
          /\ Max(1..i) = i /\ (1..i) \ {i} = 1..i - 1
      BY <1>1, Prefix
    <3> QED
      BY ONLY <1>8, <3>1
  <2> QED
    BY <2>1, <1>3, <1>10
<1>11. PICK f : Folding(f, Nat, 0, Step, N, chosen[1..N])
  <2>1. OnPrefixes(chosen, Nat, 0, Step, N)
    BY <1>9, <1>10 DEF OnPrefixes
  <2>2. N \in Nat /\ 0 \in Nat
    BY <1>1
  <2> QED
    BY ONLY <1>2, <2>1, <2>2, PrefixValues
<1>12. ASSUME NEW i \in 1..N PROVE f[i] = f[i - 1] + cs[i]
  <2>1. f[i - 1] \in Nat /\ f[i] = Step[<<f[i - 1], i>>]
    BY <1>1, <1>11 DEF Folding
  <2> QED
    BY <2>1, <1>3
<1>13. Adding(cs, f)
  BY <1>11, <1>12 DEF Adding, Folding, N
<1> QED
  BY <1>4, <1>11, <1>13 DEF Folding, N

LEMMA BytesAppend ==
    ASSUME NEW cs \in Seq(Nat), NEW v \in Nat
    PROVE  /\ BytesOf(cs) \in Nat
           /\ BytesOf(Append(cs, v)) = BytesOf(cs) + v
<1> DEFINE n == Len(cs)
           d == Append(cs, v)
<1>1. /\ n \in Nat /\ Len(d) = n + 1 /\ d \in Seq(Nat) /\ d[n + 1] = v
      /\ \A k \in 1..n : d[k] = cs[k] /\ cs[k] \in Nat
  OBVIOUS
<1>2. PICK f : Adding(cs, f) /\ BytesOf(cs) = f[n]
  BY AddingExists
<1> HIDE DEF d
<1>3. PICK g : Adding(d, g) /\ BytesOf(d) = g[n + 1]
  BY <1>1, AddingExists
<1>4. \A k \in 0..n : f[k] \in Nat
  BY <1>2 DEF Adding
<1> DEFINE S == {k \in Nat : k <= n => f[k] = g[k]}
<1>5. 0 \in S
  BY <1>2, <1>3 DEF Adding
<1>6. ASSUME NEW k \in Nat, k \in S PROVE k + 1 \in S
  <2> SUFFICES ASSUME k + 1 <= n PROVE f[k + 1] = g[k + 1]
    OBVIOUS
  <2>1. k + 1 \in 1..n /\ k + 1 \in 1..n + 1 /\ (k + 1) - 1 = k /\ f[k] = g[k]
    BY <1>1, <1>6
  <2>2. f[k + 1] = f[k] + cs[k + 1]
    BY <1>2, <2>1 DEF Adding
  <2>3. g[k + 1] = g[k] + d[k + 1]
    BY <1>1, <1>3, <2>1 DEF Adding
  <2> QED
    BY <1>1, <2>1, <2>2, <2>3
<1>7. Nat \subseteq S
  <2> HIDE DEF S
  <2> QED
    BY <1>5, <1>6, NatSetInduction
<1>8. f[n] = g[n]
  BY <1>1, <1>7
<1>9. g[n + 1] = g[n] + v
  <2>1. n + 1 \in 1..n + 1 /\ (n + 1) - 1 = n
    BY <1>1
  <2> QED
    BY <1>1, <1>3, <2>1 DEF Adding
<1>10. f[n] \in Nat
  BY <1>1, <1>4
<1> QED
  BY <1>2, <1>3, <1>8, <1>9, <1>10 DEF d

(* Nothing has no chunks and takes no bytes. *)
LEMMA NoChunks ==
    ChunksOf(<<>>) = <<>> /\ BytesOf(<<>>) = 0
<1>1. <<>> \in Seq(Entry) /\ <<>> \in Seq(Nat) /\ Len(<<>>) = 0
  OBVIOUS
<1>2. ChunksOf(<<>>) = <<>>
  <2>1. PICK f : Chunking(<<>>, f) /\ ChunksOf(<<>>) = f[0]
    BY <1>1, ChunkingExists
  <2> QED
    BY <2>1 DEF Chunking
<1>3. BytesOf(<<>>) = 0
  <2>1. PICK f : Adding(<<>>, f) /\ BytesOf(<<>>) = f[0]
    BY <1>1, AddingExists
  <2> QED
    BY <2>1 DEF Adding
<1> QED
  BY <1>2, <1>3

-----------------------------------------------------------------------------
(* The list divides its buffer as Apportion says. *)

(* A buffer that is there has a byte: Apportion's size is 0 while there is *)
(* no list.                                                                *)
NonEmpty == \A p \in DataPlists : SizeOf(p) # 0

Apportioned ==
    ChunksOf(entries) \in Seq(Nat) /\ BytesOf(ChunksOf(entries)) = offsets.data

LEMMA SizeType ==
    /\ SizeOf(<<>>) = 0
    /\ \A p \in DataPlists : SizeOf(p) \in Nat
<1>1. <<>> \in Physlists /\ Len(<<>>) = 0
  BY DEF Physlists
<1>2. SizeOf(<<>>) = 0
  BY <1>1, Offsets DEF SizeOf
<1>3. ASSUME NEW p \in DataPlists PROVE SizeOf(p) \in Nat
  <2>1. p \in Physlists
    BY SgListAssumption
  <2>2. Len(p) + 1 \in 1..Len(p) + 1
    BY <2>1, Offsets
  <2> QED
    BY <2>1, <2>2, Offsets DEF SizeOf
<1> QED
  BY <1>2, <1>3

LEMMA ChunksAre == Chunks = ChunksOf(entries) /\ Chunks' = ChunksOf(entries')
<1>1. Chunks = ChunksOf(entries)
  BY DEF Chunks, ChunksOf, Chunked
<1>2. Chunks' = ChunksOf(entries')
  BY DEF Chunks, ChunksOf, Chunked, FoldLeft, MapThenFoldSet
<1> QED
  BY <1>1, <1>2

LEMMA GrantedIs == Division!Granted = BytesOf(ChunksOf(entries))
<1>1. Division!Granted = BytesOf(Chunks)
  BY DEF Division!Granted, Division!FoldLeft, Division!MapThenFoldSet, Division!Max,
         BytesOf, FoldLeft, MapThenFoldSet, Max
<1> QED
  BY <1>1, ChunksAre

LEMMA ApportionInit == Init => Apportioned /\ Division!Init
<1> SUFFICES ASSUME Init PROVE Apportioned /\ Division!Init
  OBVIOUS
<1>1. /\ entries = <<>> /\ data_plist = <<>> /\ offsets.data = 0 /\ ret = "NONE"
      /\ <<>> \in Seq(Nat)
  BY DEF Init, Empty
<1>2. Chunks = <<>> /\ SizeOf(data_plist) = 0
  BY <1>1, ChunksAre, NoChunks, SizeType
<1> QED
  BY <1>1, <1>2, NoChunks DEF Apportioned, Division!Init

(* The last turn of a call grants one chunk, the bytes that were asked for.*)
LEMMA ApportionLastPart ==
    ASSUME SgInv, Apportioned, LastPart
    PROVE  Apportioned' /\ Division!Grant
<1> DEFINE e == SgEntry(add.sz)
           t == Append(add.new, e)
           r == Framed(t)
           n == Total(r)
           cs == ChunksOf(entries)
<1>1. /\ pc = "add" /\ add.sz <= Space
      /\ entries' = entries \o r
      /\ offsets' = [sg |-> NextSgOffset, data |-> (add.data_offset + add.sz) % UINT]
      /\ data_plist' = data_plist /\ ret' = "SUCCESS"
  BY DEF LastPart, AddReturns
<1>2. AddType /\ AddTiles /\ ListType /\ ListTiles /\ add.sz \in Nat \ {0} /\ Space \in Nat
  BY <1>1, Turn DEF SgInv, AddType
<1>3. add.sz \in 0..Space
  BY <1>1, <1>2
<1>4. /\ e \in Entry /\ ~e.is_SOF /\ ~e.is_EOF
      /\ add.data_offset + add.sz < UINT /\ add.data_offset \in Nat
      /\ Follow(t, offsets.data, add.data_offset + add.sz)
  BY <1>1, <1>3, Built
<1> HIDE DEF e
<1>5. /\ add.new \in Seq(Entry) /\ NoMarks(add.new)
      /\ Follow(add.new, offsets.data, add.data_offset)
      /\ entries \in Seq(Entry) /\ offsets.data \in Nat
  BY <1>2 DEF AddType, AddTiles, ListType
<1>6. /\ r \in Seq(Entry) /\ Len(r) = Len(add.new) + 1
      /\ t \in Seq(Entry) /\ Len(t) = Len(add.new) + 1
      /\ \A k \in 1..Len(r) :
           /\ r[k].data_offset = t[k].data_offset
           /\ r[k].buf_phys = t[k].buf_phys
           /\ r[k].len = t[k].len
           /\ r[k].is_SOF <=> k = 1
           /\ r[k].is_EOF <=> k = Len(r)
  <2>1. FrameOf(r, t, Len(add.new) + 1)
    BY <1>4, <1>5, FramedIs
  <2> HIDE DEF t, r
  <2> QED
    BY <2>1 DEF FrameOf
<1>7. r # <<>> /\ Len(add.new) \in Nat
  BY <1>5, <1>6
<1> HIDE DEF r, t, n, cs
<1>8. n \in Nat /\ add.data_offset + add.sz = offsets.data + n
  <2>1. Follow(r, offsets.data, add.data_offset + add.sz)
    BY <1>4, <1>6, FollowSame
  <2>2. add.data_offset + add.sz \in Nat
    BY <1>2, <1>4
  <2> QED
    BY <1>5, <1>6, <2>1, <2>2, FollowTotal DEF n
<1>9. n # 0
  <2>1. Total(add.new) \in Nat /\ add.data_offset = offsets.data + Total(add.new)
    BY <1>4, <1>5, FollowTotal
  <2> QED
    BY <1>2, <1>5, <1>8, <2>1
<1>10. cs \in Seq(Nat) /\ ChunksOf(entries') = Append(cs, n) /\ BytesOf(cs) = offsets.data
  BY <1>1, <1>5, <1>6, <1>7, ChunksConcat DEF Apportioned, cs, n
<1>11. offsets'.data = offsets.data + n
  <2>1. add.data_offset + add.sz \in 0..UINT - 1
    BY <1>2, <1>4, Positive
  <2>2. (add.data_offset + add.sz) % UINT = add.data_offset + add.sz
    BY ONLY <2>1, Positive, ModKeeps
  <2> QED
    BY <1>1, <1>8, <2>2
<1>12. Apportioned'
  <2>1. Append(cs, n) \in Seq(Nat)
    BY <1>8, <1>10
  <2>2. BytesOf(Append(cs, n)) = BytesOf(cs) + n
    BY <1>8, <1>10, BytesAppend
  <2> QED
    BY <1>10, <1>11, <2>1, <2>2 DEF Apportioned
<1>13. n <= SizeOf(data_plist) - offsets.data /\ SizeOf(data_plist) \in Nat
  <2>1. /\ data_plist \in Physlists /\ data_plist \in DataPlists
        /\ add.ind + 1 \in 1..Len(data_plist) + 1 /\ Len(data_plist) \in Nat
        /\ add.data_offset + Space = Before(data_plist, add.ind + 1)
    BY <1>1, Turn
  <2>2. Before(data_plist, add.ind + 1) <= SizeOf(data_plist)
    <3>1. Len(data_plist) + 1 \in 1..Len(data_plist) + 1
      BY <2>1
    <3>2. add.ind + 1 <= Len(data_plist) + 1
      BY <2>1
    <3> QED
      BY <2>1, <3>1, <3>2, Offsets DEF SizeOf
  <2>3. SizeOf(data_plist) \in Nat
    BY <2>1, SizeType
  <2>4. add.data_offset + add.sz <= add.data_offset + Space
    BY <1>1, <1>2, <1>4
  <2>5. offsets.data + n <= SizeOf(data_plist)
    BY <1>2, <1>4, <1>8, <2>1, <2>2, <2>3, <2>4
  <2> QED
    BY <1>5, <1>8, <2>3, <2>5
<1>14. Division!Grant
  <2>1. Division!Granted = offsets.data
    BY <1>10, GrantedIs DEF cs
  <2>2. n \in 1..SizeOf(data_plist) - Division!Granted
    BY <1>5, <1>8, <1>9, <1>13, <2>1
  <2>3. Chunks' = Append(Chunks, n)
    BY <1>10, ChunksAre DEF cs
  <2>4. SizeOf(data_plist)' = SizeOf(data_plist)
    BY <1>1
  <2> QED
    BY <1>1, <2>2, <2>3, <2>4 DEF Division!Grant
<1> QED
  BY <1>12, <1>14

LEMMA ApportionSame ==
    ASSUME Apportioned, UNCHANGED <<data_plist, entries, offsets>>
    PROVE  Apportioned' /\ UNCHANGED <<SizeOf(data_plist), Chunks>>
<1>1. Apportioned' /\ SizeOf(data_plist') = SizeOf(data_plist)
  BY DEF Apportioned
<1>2. Chunks' = Chunks
  BY ChunksAre
<1> QED
  BY <1>1, <1>2

LEMMA ApportionFails ==
    ASSUME SgInv, Apportioned, NonEmpty, pc \in {"idle", "add"},
           NEW code \in {"SG_OOM", "BUF_OOM", "ERROR"}, AddFails(code)
    PROVE  Apportioned' /\ Division!Refuse
<1>1. UNCHANGED <<data_plist, entries, offsets>> /\ ret' = code
  BY DEF AddFails, AddReturns
<1>2. SizeOf(data_plist) # 0
  BY DEF SgInv, ListType, NonEmpty
<1>3. code \in Division!Codes \ {"SUCCESS"}
  BY DEF Division!Codes
<1> QED
  BY <1>1, <1>2, <1>3, ApportionSame DEF Division!Refuse

LEMMA ApportionNext ==
    ASSUME SgInv, SgInv', Apportioned, NonEmpty, [Next]_vars
    PROVE  Apportioned' /\ [Division!Next]_(Division!vars)
<1>1. ASSUME NEW sp \in SgPlists, NEW dp \in DataPlists, ListNew(sp, dp)
      PROVE  Apportioned' /\ Division!New
  <2>1. /\ data_plist = <<>> /\ data_plist' = dp
        /\ UNCHANGED <<entries, offsets, ret>>
    BY <1>1 DEF ListNew, SgInv, ListType
  <2>2. SizeOf(data_plist) = 0 /\ SizeOf(data_plist)' \in Nat \ {0}
    BY <2>1, SizeType DEF NonEmpty
  <2> QED
    BY <2>1, <2>2, ChunksAre DEF Division!New, Apportioned
<1>2. ASSUME NEW sz \in Sizes, AddEntry(sz)
      PROVE  Apportioned' /\ (Division!Refuse \/ UNCHANGED Division!vars)
  <2>1. CASE AddFails("ERROR") \/ AddFails("BUF_OOM")
    BY <1>2, <2>1, ApportionFails DEF AddEntry
  <2>2. CASE UNCHANGED <<sg_plist, data_plist, entries, offsets, ret>>
    BY <2>2, ApportionSame DEF Division!vars
  <2> QED
    BY <1>2, <2>1, <2>2 DEF AddEntry
<1>3. ASSUME NoDescriptor \/ NoMemory \/ NoNextPart
      PROVE  Apportioned' /\ Division!Refuse
  BY <1>3, ApportionFails DEF NoDescriptor, NoMemory, NoNextPart
<1>4. ASSUME NextPart
      PROVE  Apportioned' /\ UNCHANGED Division!vars
  BY <1>4, ApportionSame DEF NextPart, Division!vars
<1>5. ASSUME LastPart
      PROVE  Apportioned' /\ Division!Grant
  BY <1>5, ApportionLastPart
<1>6. ASSUME ListDel
      PROVE  Apportioned' /\ Division!Delete
  <2>1. data_plist' = <<>> /\ entries' = <<>> /\ offsets'.data = 0 /\ UNCHANGED ret
    BY <1>6 DEF ListDel
  <2>2. SizeOf(data_plist)' = 0 /\ Chunks' = <<>>
    BY <2>1, SizeType, ChunksAre, NoChunks
  <2>3. <<>> \in Seq(Nat)
    OBVIOUS
  <2> QED
    BY <2>1, <2>2, <2>3, NoChunks DEF Division!Delete, Apportioned
<1>7. ASSUME UNCHANGED vars
      PROVE  Apportioned' /\ UNCHANGED Division!vars
  BY <1>7, ApportionSame DEF vars, Division!vars
<1> QED
  BY <1>1, <1>2, <1>3, <1>4, <1>5, <1>6, <1>7 DEF Next, Building, Division!Next

(* ApportionsBuffer: whatever the physlists of the two buffers, the calls  *)
(* of axidma_list_new, axidma_add_entry and axidma_list_del divide the     *)
(* data buffer into consecutive chunks, one for each call that succeeds,   *)
(* none longer than what is left, and a call that fails after any number   *)
(* of turns leaves the division as it was.                                 *)
THEOREM ListApportionsBuffer ==
    ASSUME NonEmpty
    PROVE  Spec => ApportionsBuffer
<1>1. Init => SgInv /\ Apportioned /\ Division!Init
  BY SgInit, ApportionInit
<1>2. SgInv /\ Apportioned /\ [Next]_vars
        => SgInv' /\ Apportioned' /\ [Division!Next]_(Division!vars)
  BY SgNext, ApportionNext
<1> QED
  BY <1>1, <1>2, PTL DEF Spec, ApportionsBuffer, Division!Spec
=============================================================================
