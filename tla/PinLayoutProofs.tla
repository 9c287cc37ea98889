-------------------------- MODULE PinLayoutProofs --------------------------
(***************************************************************************)
(* Proof that the scatterlist built by pinner_alloc_and_fill_sglist is the *)
(* user's buffer, for every page size, address, size and limit.            *)
(***************************************************************************)
EXTENDS PinLayout, TLAPS

(* Arithmetic of pages. *)

LEMMA MulMono ==
    ASSUME NEW a \in Int, NEW b \in Int, NEW p \in Nat, a <= b
    PROVE  a * p <= b * p
OBVIOUS

LEMMA MulMinus ==
    ASSUME NEW a \in Int, NEW p \in Int
    PROVE  /\ (a - 1) * p = a * p - p
           /\ (a - 2) * p = a * p - 2 * p
OBVIOUS

LEMMA ModSmall ==
    ASSUME NEW m \in Nat, NEW x \in 0..m - 1
    PROVE  x % m = x
OBVIOUS

LEMMA DivBounds ==
    ASSUME NEW p \in Nat \ {0}, NEW x \in Nat
    PROVE  /\ x \div p \in Nat
           /\ (x \div p) * p <= x
           /\ x < (x \div p) * p + p
           /\ x % p \in 0..p - 1
OBVIOUS

-----------------------------------------------------------------------------
(* The geometry of one buffer. *)

Buffers == 0..ULONG - 1
Sizes == 0..UINT - 1

(* The closed form of what the three sg_set_page calls write. *)
OffsetOf(b, j) == IF j = 0 THEN FirstPgOffset(b) ELSE 0
LengthOf(b, s, j) == IF j = 0 THEN FirstLength(b, s)
                     ELSE IF j = NumPages(b, s) - 1 THEN LastLength(b, s)
                     ELSE PAGE_SIZE

LEMMA Geometry ==
    ASSUME NEW b \in Buffers, NEW s \in Sizes
    PROVE  /\ FirstPgOffset(b) \in 0..PAGE_SIZE - 1
           /\ Start(b) \in Int /\ Start(b) + FirstPgOffset(b) = b
           /\ NumPages(b, s) \in Nat
           /\ NumPages(b, s) * PAGE_SIZE \in Nat
           /\ NumPages(b, s) * PAGE_SIZE <= FirstPgOffset(b) + s + PAGE_SIZE - 1
           /\ FirstPgOffset(b) + s <= NumPages(b, s) * PAGE_SIZE
<1> DEFINE o == FirstPgOffset(b)
           x == o + s + (PAGE_SIZE - 1)
<1>0. PAGE_SIZE \in Nat \ {0} /\ UINT \in Nat /\ ULONG \in Nat
      /\ UINT + 2 * PAGE_SIZE <= ULONG
  BY LayoutAssumption DEF LayoutAssumption
<1>1. o = b % PAGE_SIZE /\ b % PAGE_SIZE \in 0..PAGE_SIZE - 1
  BY <1>0, DivBounds DEF FirstPgOffset, Start, Buffers
<1>2. x \in 0..ULONG - 1
  BY <1>0, <1>1 DEF Sizes
<1>3. x % ULONG = x
  BY <1>0, <1>2, ModSmall
<1>4. NumPages(b, s) = x \div PAGE_SIZE
  BY <1>3 DEF NumPages
<1>5. /\ x \div PAGE_SIZE \in Nat
      /\ (x \div PAGE_SIZE) * PAGE_SIZE <= x
      /\ x < (x \div PAGE_SIZE) * PAGE_SIZE + PAGE_SIZE
  <2> HIDE DEF x
  <2>1. x \in Nat
    BY <1>0, <1>2
  <2> QED
    BY <1>0, <2>1, DivBounds
<1>6. (x \div PAGE_SIZE) * PAGE_SIZE \in Nat
  BY <1>0, <1>5
<1>7. Start(b) \in Int /\ Start(b) + o = b
  BY <1>0, <1>1 DEF Start, FirstPgOffset, Buffers
<1> HIDE DEF o
<1>8. o \in Int /\ s \in Int /\ o \in 0..PAGE_SIZE - 1
  BY <1>0, <1>1 DEF Sizes
<1>9. /\ NumPages(b, s) * PAGE_SIZE <= o + s + PAGE_SIZE - 1
      /\ o + s <= NumPages(b, s) * PAGE_SIZE
  BY <1>0, <1>4, <1>5, <1>6, <1>8
<1> QED
  BY <1>4, <1>5, <1>6, <1>7, <1>8, <1>9 DEF o

(* Entry j covers exactly the buffer's bytes of page j. *)
LEMMA Covers ==
    ASSUME NEW b \in Buffers, NEW s \in Sizes, NEW j \in 0..NumPages(b, s) - 1
    PROVE  /\ OffsetOf(b, j) \in Nat /\ LengthOf(b, s, j) \in Nat
           /\ OffsetOf(b, j) + LengthOf(b, s, j) <= PAGE_SIZE
           /\ \A x \in 0..PAGE_SIZE - 1 :
                 x \in OffsetOf(b, j)..(OffsetOf(b, j) + LengthOf(b, s, j) - 1)
                   <=> Start(b) + j * PAGE_SIZE + x \in b..(b + s - 1)
<1> DEFINE o == FirstPgOffset(b)
           n == NumPages(b, s)
           P == PAGE_SIZE
           T == n * P
           J == j * P
<1>0. P \in Nat \ {0} /\ UINT \in Nat /\ ULONG \in Nat
      /\ UINT + 2 * P <= ULONG /\ P < UINT
  BY LayoutAssumption DEF LayoutAssumption
<1>1. /\ o \in 0..P - 1 /\ Start(b) \in Int /\ Start(b) + o = b
      /\ n \in Nat /\ T \in Nat /\ T <= o + s + P - 1 /\ o + s <= T
  BY Geometry
<1>2. b \in Nat /\ s \in Nat /\ j \in Nat /\ j <= n - 1
  BY <1>0, <1>1 DEF Buffers, Sizes
<1>3. J \in Int
  BY <1>0, <1>2
<1>4. (n - 1) * P = T - P /\ (n - 2) * P = T - 2 * P
  BY <1>0, <1>1, MulMinus
<1>5. J <= T - P
  <2>1. j * P <= (n - 1) * P
    BY <1>0, <1>1, <1>2, MulMono
  <2> QED
    BY <2>1, <1>4
<1>6. j # 0 => J >= P
  <2>1. j # 0 => 1 * P <= j * P
    BY <1>0, <1>2, MulMono
  <2> QED
    BY <1>0, <2>1
<1>7. j < n - 1 => J <= T - 2 * P
  <2>1. j < n - 1 => j * P <= (n - 2) * P
    BY <1>0, <1>1, <1>2, MulMono
  <2> QED
    BY <2>1, <1>4
<1>8. j = n - 1 => J = T - P
  BY <1>4
<1>9. j = 0 => J = 0
  BY <1>0
<1>10. FirstLength(b, s) = IF s < P - o THEN s ELSE P - o
  BY DEF FirstLength
<1>11. n # 1 => LastLength(b, s) = s + o + P - T /\ s + o + P - T \in 1..P
  <2> DEFINE L == s + o + P - T
  <2>1. s - (P - o) - (n - 2) * P = L
    BY <1>0, <1>1, <1>2, <1>4
  <2>2. L \in 1..P
    BY <1>0, <1>1, <1>2
  <2>3. L % ULONG = L /\ L % UINT = L
    <3>1. L \in 0..ULONG - 1 /\ L \in 0..UINT - 1
      BY <1>0, <2>2
    <3> QED
      BY <1>0, <3>1, ModSmall
  <2>4. LastLength(b, s) = (L % ULONG) % UINT
    BY <2>1 DEF LastLength
  <2> QED
    BY <2>2, <2>3, <2>4
<1> HIDE DEF o, n, T, J, P
<1>12. CASE j = 0
  <2>1. OffsetOf(b, j) = o /\ LengthOf(b, s, j) = IF s < P - o THEN s ELSE P - o
    BY <1>10, <1>12 DEF OffsetOf, LengthOf, o
  <2>2. J = 0
    BY <1>9, <1>12
  <2>3. n = 1 => s + o <= P
    <3>1. n = 1 => J = T - P
      BY <1>8, <1>12
    <3> QED
      BY <1>0, <1>1, <1>2, <2>2, <3>1
  <2>4. \A x \in 0..P - 1 :
           x \in o..(o + (IF s < P - o THEN s ELSE P - o) - 1)
             <=> Start(b) + J + x \in b..(b + s - 1)
    BY <1>0, <1>1, <1>2, <2>2, <2>3
  <2>5. /\ (IF s < P - o THEN s ELSE P - o) \in Nat
        /\ o + (IF s < P - o THEN s ELSE P - o) <= P
    BY <1>0, <1>1, <1>2
  <2> QED
    BY <1>1, <2>1, <2>4, <2>5 DEF J, P
<1>13. CASE j # 0 /\ j < n - 1
  <2>1. OffsetOf(b, j) = 0 /\ LengthOf(b, s, j) = P
    BY <1>13 DEF OffsetOf, LengthOf, n, P
  <2>2. \A x \in 0..P - 1 : x \in 0..(0 + P - 1) <=> Start(b) + J + x \in b..(b + s - 1)
    BY <1>0, <1>1, <1>2, <1>3, <1>6, <1>7, <1>13
  <2> QED
    BY <1>0, <2>1, <2>2 DEF J, P
<1>14. CASE j # 0 /\ j = n - 1
  <2> DEFINE L == s + o + P - T
  <2>1. OffsetOf(b, j) = 0 /\ LengthOf(b, s, j) = L /\ L \in 1..P
    BY <1>2, <1>11, <1>14 DEF OffsetOf, LengthOf, n
  <2>2. \A x \in 0..P - 1 : x \in 0..(0 + L - 1) <=> Start(b) + J + x \in b..(b + s - 1)
    BY <1>0, <1>1, <1>2, <1>3, <1>6, <1>8, <1>14
  <2>3. L \in Nat /\ 0 + L <= P
    BY <1>0, <2>1
  <2> QED
    BY <2>1, <2>2, <2>3 DEF J, P
<1> QED
  BY <1>1, <1>2, <1>12, <1>13, <1>14

-----------------------------------------------------------------------------
(* The loop. *)

(* The first k entries are written; dma_address is whatever it is. *)
Written(k) ==
    /\ DOMAIN sglist = 0..k - 1
    /\ \A j \in 0..k - 1 :
          sglist[j] = [page |-> pages[j], offset |-> OffsetOf(buf, j),
                       length |-> LengthOf(buf, sz, j),
                       dma_address |-> sglist[j].dma_address]

LayoutInv ==
    LET n == NumPages(buf, sz) IN
    /\ buf \in Buffers /\ sz \in Sizes
    /\ pc = "gup" => n \in 1..PINNER_MAX_PAGES
    /\ pc \in {"first", "middle", "last", "map", "send", "sent"} =>
          n \in 1..PINNER_MAX_PAGES /\ pages \in [0..n - 1 -> Frames]
    /\ pc = "middle" => i \in 1..n /\ (i <= n - 1 \/ i = 1) /\ Written(i)
    /\ pc = "last" => n > 1 /\ Written(n - 1)
    /\ Filled => Written(n)

LEMMA PutWrites ==
    ASSUME NEW k \in Nat, Written(k), NEW e, Put(k, e),
           UNCHANGED <<buf, sz, pages>>,
           e = [page |-> pages[k], offset |-> OffsetOf(buf, k),
                length |-> LengthOf(buf, sz, k), dma_address |-> e.dma_address]
    PROVE  Written(k + 1)'
<1>1. DOMAIN sglist' = 0..k /\ (k + 1) - 1 = k
  BY DEF Put
<1>2. \A j \in 0..k : sglist'[j] = IF j = k THEN e ELSE sglist[j]
  BY DEF Put
<1>3. \A j \in 0..k : j # k => j \in 0..k - 1
  OBVIOUS
<1> QED
  BY <1>1, <1>2, <1>3 DEF Written

LEMMA LayoutInit == Init => LayoutInv
BY LayoutAssumption DEF Init, LayoutInv, LayoutAssumption, Buffers, Sizes, Filled

LEMMA LayoutNext ==
    ASSUME LayoutInv, [Next]_vars
    PROVE  LayoutInv'
<1> DEFINE n == NumPages(buf, sz)
<1>0. buf \in Buffers /\ sz \in Sizes
  BY DEF LayoutInv
<1>1. ASSUME NEW b \in 0..ULONG - 1, NEW s \in 0..UINT - 1, Request(b, s)
      PROVE  LayoutInv'
  BY <1>1 DEF Request, LayoutInv, Buffers, Sizes, Filled
<1>2. CASE GetUserPages
  BY <1>2 DEF GetUserPages, LayoutInv, Filled
<1>3. CASE FirstPage
  <2> DEFINE e == Entry(pages[0], FirstLength(buf, sz), FirstPgOffset(buf))
  <2>1. /\ Put(0, e) /\ i' = 1 /\ pc' = "middle" /\ UNCHANGED <<buf, sz, pages>>
    BY <1>3 DEF FirstPage
  <2>2. n \in 1..PINNER_MAX_PAGES /\ pages \in [0..n - 1 -> Frames]
    BY <1>3 DEF FirstPage, LayoutInv
  <2>3. sglist' = [j \in 0..0 |-> e]
    BY <2>1 DEF Put
  <2>4. Written(1)'
    BY <2>1, <2>3 DEF Written, Entry, OffsetOf, LengthOf
  <2> QED
    BY <1>0, <2>1, <2>2, <2>4, LayoutAssumption DEF LayoutInv, Filled, LayoutAssumption
<1>4. CASE MiddlePage
  <2>1. /\ pc = "middle" /\ UNCHANGED <<buf, sz, pages, physlist>>
        /\ i \in 1..n /\ (i <= n - 1 \/ i = 1) /\ Written(i)
        /\ n \in 1..PINNER_MAX_PAGES /\ pages \in [0..n - 1 -> Frames]
    BY <1>4 DEF MiddlePage, LayoutInv
  <2>2. CASE i < n - 1 /\ Put(i, Entry(pages[i], PAGE_SIZE, 0)) /\ i' = i + 1
             /\ UNCHANGED pc
    <3> DEFINE e == Entry(pages[i], PAGE_SIZE, 0)
    <3>1. i \in Nat /\ i # 0 /\ i # n - 1 /\ i + 1 \in 1..n /\ i + 1 <= n - 1
      BY <2>1, <2>2 DEF LayoutInv
    <3>2. e = [page |-> pages[i], offset |-> OffsetOf(buf, i),
               length |-> LengthOf(buf, sz, i), dma_address |-> e.dma_address]
      BY <3>1 DEF Entry, OffsetOf, LengthOf
    <3>3. PICK k \in Nat : k = i
      BY <3>1
    <3>4. Written(k + 1)'
      BY <2>1, <2>2, <3>2, <3>3, PutWrites
    <3>5. Written(i)'
      BY <2>2, <3>3, <3>4 DEF Written
    <3> QED
      BY <1>0, <2>1, <2>2, <3>1, <3>5 DEF LayoutInv, Filled
  <2>3. CASE i >= n - 1 /\ pc' = (IF n > 1 THEN "last" ELSE "map")
             /\ UNCHANGED <<sglist, i>>
    <3>1. Written(i)'
      BY <2>1, <2>3 DEF Written
    <3>2. n > 1 => i = n - 1
      BY <2>1, <2>3
    <3>3. ~(n > 1) => i = n
      BY <2>1, <2>3
    <3> QED
      BY <1>0, <2>1, <2>3, <3>1, <3>2, <3>3 DEF LayoutInv, Filled, Written
  <2> QED
    BY <1>4, <2>2, <2>3 DEF MiddlePage
<1>5. CASE LastPage
  <2> DEFINE e == Entry(pages[n - 1], LastLength(buf, sz), 0)
  <2>1. /\ Put(n - 1, e) /\ pc' = "map" /\ UNCHANGED <<buf, sz, pages>>
    BY <1>5 DEF LastPage
  <2>2. /\ n > 1 /\ Written(n - 1)
        /\ n \in 1..PINNER_MAX_PAGES /\ pages \in [0..n - 1 -> Frames]
    BY <1>5 DEF LastPage, LayoutInv
  <2>3. n - 1 \in Nat /\ n - 1 # 0 /\ (n - 1) + 1 = n
    BY <2>2
  <2>4. e = [page |-> pages[n - 1], offset |-> OffsetOf(buf, n - 1),
             length |-> LengthOf(buf, sz, n - 1), dma_address |-> e.dma_address]
    BY <2>3 DEF Entry, OffsetOf, LengthOf
  <2>5. PICK k \in Nat : k = n - 1
    BY <2>3
  <2>6. Written(k + 1)'
    BY <2>1, <2>2, <2>4, <2>5, PutWrites
  <2>7. n' = k + 1
    BY <2>1, <2>3, <2>5
  <2>8. Written(n)'
    BY <2>6, <2>7 DEF Written
  <2> QED
    BY <1>0, <2>1, <2>2, <2>8 DEF LayoutInv, Filled, Written
<1>6. CASE DmaMap
  BY <1>6 DEF DmaMap, LayoutInv, Filled, Written
<1>7. CASE SendPhyslist
  BY <1>7 DEF SendPhyslist, LayoutInv, Filled, Written
<1>8. CASE Return
  BY <1>8, LayoutAssumption DEF Return, LayoutInv, Filled, LayoutAssumption, Buffers, Sizes
<1>9. CASE UNCHANGED vars
  BY <1>9 DEF vars, LayoutInv, Filled, Written
<1> QED
  BY <1>1, <1>2, <1>3, <1>4, <1>5, <1>6, <1>7, <1>8, <1>9 DEF Next

LEMMA LayoutCovers == LayoutInv => ScatterlistIsBuffer
<1> SUFFICES ASSUME LayoutInv, Filled PROVE ScatterlistIsBuffer
  BY DEF ScatterlistIsBuffer
<1> DEFINE n == NumPages(buf, sz)
<1>1. /\ buf \in Buffers /\ sz \in Sizes /\ Written(n)
      /\ pages \in [0..n - 1 -> Frames]
  BY DEF LayoutInv, Filled
<1>2. buf + sz <= Start(buf) + n * PAGE_SIZE
  BY <1>1, Geometry DEF Buffers, Sizes
<1>3. ASSUME NEW j \in 0..n - 1
      PROVE  /\ sglist[j].page = pages[j]
             /\ sglist[j].offset + sglist[j].length <= PAGE_SIZE
             /\ \A x \in 0..PAGE_SIZE - 1 :
                  x \in sglist[j].offset..(sglist[j].offset + sglist[j].length - 1)
                    <=> Start(buf) + j * PAGE_SIZE + x \in buf..(buf + sz - 1)
  <2>1. /\ sglist[j].page = pages[j] /\ sglist[j].offset = OffsetOf(buf, j)
        /\ sglist[j].length = LengthOf(buf, sz, j)
    BY <1>1 DEF Written
  <2> QED
    BY <1>1, <2>1, Covers
<1>4. DOMAIN sglist = 0..n - 1 /\ DOMAIN pages = 0..n - 1
  BY <1>1 DEF Written
<1> QED
  BY <1>2, <1>3, <1>4 DEF ScatterlistIsBuffer

(* For every page size, limit, buffer address and size that fit an         *)
(* unsigned long with two pages to spare: the scatterlist of a pin command *)
(* covers the user's buffer, all of it and nothing else, in order.         *)
THEOREM LayoutCorrect == Spec => []ScatterlistIsBuffer
<1>1. LayoutInv /\ [Next]_vars => LayoutInv'
  BY LayoutNext
<1> QED
  BY <1>1, LayoutInit, LayoutCovers, PTL DEF Spec

=============================================================================
