---------------------------- MODULE StubHeapProofs ----------------------------
(***************************************************************************)
(* Proofs about StubHeap, for any region, granule and requests: the blocks *)
(* always tile the region and no two neighbours are free, and StubHeap is  *)
(* the Allocator its guest expects.  The inductive invariant adds that     *)
(* each block lies inside the region, which the tiling implies only block  *)
(* by block.  What GuestHeapProofs proves is carried over to MCHeaps.      *)
(***************************************************************************)
EXTENDS MCHeaps, SequenceTheorems, TLAPS

\* What is proved about GuestHeap, which MCHeaps puts beside StubHeap.
G == INSTANCE GuestHeapProofs WITH Requests <- HeapRequests

Blocks == [addr : Base .. Base + Size - 1, size : 1 .. Size, free : BOOLEAN]

\* A list of blocks inside the region, each where the one before it ends.
Laid(bs) ==
  /\ bs \in Seq(Blocks) /\ Len(bs) > 0
  /\ \A i \in 1 .. Len(bs) : bs[i].addr + bs[i].size <= Base + Size
  /\ bs[1].addr = Base
  /\ bs[Len(bs)].addr + bs[Len(bs)].size = Base + Size
  /\ \A i \in 1 .. Len(bs) - 1 : bs[i + 1].addr = bs[i].addr + bs[i].size

\* No two neighbours are free, but for those at the places in X.
Apart(bs, X) ==
  \A i \in (1 .. Len(bs) - 1) \ X : ~(bs[i].free /\ bs[i + 1].free)

IInv ==
  /\ Laid(blocks) /\ Apart(blocks, {})
  /\ reply \in {0, 1} \cup Base .. Base + Size - 1

-----------------------------------------------------------------------------
(* Sequences *)

\* r is s with e inserted at place i, and s without its place i.
Inserted(r, s, i, e) ==
  /\ Len(r) = Len(s) + 1
  /\ \A k \in 1 .. Len(s) + 1 :
       r[k] = IF k < i THEN s[k] ELSE IF k = i THEN e ELSE s[k - 1]
Removed(r, s, i) ==
  /\ Len(r) = Len(s) - 1
  /\ \A k \in 1 .. Len(s) - 1 : r[k] = IF k < i THEN s[k] ELSE s[k + 1]

\* InsertAt inserts.
LEMMA InsertAtIs ==
  ASSUME NEW S, NEW s \in Seq(S), NEW i \in 1 .. Len(s) + 1, NEW e \in S
  PROVE  /\ InsertAt(s, i, e) \in Seq(S)
         /\ Inserted(InsertAt(s, i, e), s, i, e)
<1> DEFINE front == SubSeq(s, 1, i - 1)
           back  == SubSeq(s, i, Len(s))
           both  == front \o <<e>>
<1>1. Len(s) \in Nat /\ \A k \in 1 .. Len(s) : s[k] \in S
  BY LenProperties, ElementOfSeq
<1>2. /\ front \in Seq(S) /\ Len(front) = i - 1
      /\ \A k \in 1 .. i - 1 : front[k] = s[k]
  <2>1. \A k \in 1 .. i - 1 : s[k] \in S
    BY <1>1
  <2> QED BY <1>1, <2>1, SubSeqProperties
<1>3. /\ back \in Seq(S) /\ Len(back) = Len(s) - i + 1
      /\ \A k \in 1 .. Len(s) - i + 1 : back[k] = s[i + k - 1]
  <2>1. \A k \in i .. Len(s) : s[k] \in S
    BY <1>1
  <2> HIDE DEF back
  <2>2. /\ back \in Seq(S) /\ Len(back) = IF i <= Len(s) THEN Len(s) - i + 1 ELSE 0
        /\ \A k \in 1 .. Len(s) - i + 1 : back[k] = s[i + k - 1]
    BY <1>1, <2>1, SubSeqProperties DEF back
  <2> QED BY <1>1, <2>2
<1> HIDE DEF front, back
<1>4. <<e>> \in Seq(S) /\ Len(<<e>>) = 1 /\ <<e>>[1] = e
  OBVIOUS
<1>5. /\ both \in Seq(S) /\ Len(both) = i
      /\ \A k \in 1 .. i : both[k] = IF k < i THEN s[k] ELSE e
  BY <1>1, <1>2, <1>4, ConcatProperties
<1> HIDE DEF both
<1>6. /\ both \o back \in Seq(S) /\ Len(both \o back) = Len(s) + 1
      /\ \A k \in 1 .. Len(s) + 1 :
           (both \o back)[k] = IF k <= i THEN both[k] ELSE back[k - i]
  <2>1. /\ both \o back \in Seq(S) /\ Len(both \o back) = Len(both) + Len(back)
        /\ \A k \in 1 .. Len(both) + Len(back) :
             (both \o back)[k] = IF k <= Len(both) THEN both[k] ELSE back[k - Len(both)]
    BY <1>3, <1>5, ConcatProperties
  <2>2. Len(both) = i /\ Len(both) + Len(back) = Len(s) + 1
    BY <1>1, <1>3, <1>5
  <2> QED BY <2>1, <2>2
<1>7. \A k \in 1 .. Len(s) + 1 : k > i => back[k - i] = s[k - 1]
  <2> SUFFICES ASSUME NEW k \in 1 .. Len(s) + 1, k > i
               PROVE  back[k - i] = s[k - 1]
    OBVIOUS
  <2>1. k - i \in 1 .. Len(s) - i + 1
    BY <1>1
  <2>2. back[k - i] = s[i + (k - i) - 1]
    BY <2>1, <1>3
  <2>3. i + (k - i) - 1 = k - 1
    BY <1>1
  <2> QED BY <2>2, <2>3
<1>8. InsertAt(s, i, e) = both \o back
  BY DEF InsertAt, both, front, back
<1> DEFINE joined == both \o back
<1>9. joined \in Seq(S) /\ InsertAt(s, i, e) = joined
  BY <1>6, <1>8
<1>10. /\ Len(joined) = Len(s) + 1
       /\ \A k \in 1 .. Len(s) + 1 : joined[k] = IF k <= i THEN both[k] ELSE back[k - i]
  BY <1>6
<1> HIDE DEF joined
<1>11. ASSUME NEW k \in 1 .. Len(s) + 1
       PROVE  joined[k] = IF k < i THEN s[k] ELSE IF k = i THEN e ELSE s[k - 1]
  <2>1. CASE k <= i
    <3>1. joined[k] = both[k] /\ k \in 1 .. i
      BY <1>1, <1>10, <2>1
    <3> QED BY <1>5, <2>1, <3>1
  <2>2. CASE k > i
    <3>1. joined[k] = back[k - i]
      BY <1>1, <1>10, <2>2
    <3> QED BY <1>1, <1>7, <2>2, <3>1
  <2> QED BY <1>1, <2>1, <2>2
<1>12. Inserted(joined, s, i, e)
  BY <1>10, <1>11 DEF Inserted
<1> QED BY <1>9, <1>12

\* RemoveAt removes.
LEMMA RemoveAtIs ==
  ASSUME NEW S, NEW s \in Seq(S), NEW i \in 1 .. Len(s)
  PROVE  /\ RemoveAt(s, i) \in Seq(S)
         /\ Removed(RemoveAt(s, i), s, i)
<1> DEFINE front == SubSeq(s, 1, i - 1)
           back  == SubSeq(s, i + 1, Len(s))
<1>1. Len(s) \in Nat /\ \A k \in 1 .. Len(s) : s[k] \in S
  BY LenProperties, ElementOfSeq
<1>2. /\ front \in Seq(S) /\ Len(front) = i - 1
      /\ \A k \in 1 .. i - 1 : front[k] = s[k]
  <2>1. \A k \in 1 .. i - 1 : s[k] \in S
    BY <1>1
  <2> QED BY <1>1, <2>1, SubSeqProperties
<1>3. /\ back \in Seq(S) /\ Len(back) = Len(s) - i
      /\ \A k \in 1 .. Len(s) - i : back[k] = s[i + k]
  <2>1. \A k \in i + 1 .. Len(s) : s[k] \in S
    BY <1>1
  <2> HIDE DEF back
  <2>2. /\ back \in Seq(S)
        /\ Len(back) = IF i + 1 <= Len(s) THEN Len(s) - (i + 1) + 1 ELSE 0
        /\ \A k \in 1 .. Len(s) - (i + 1) + 1 : back[k] = s[(i + 1) + k - 1]
    BY <1>1, <2>1, SubSeqProperties DEF back
  <2>3. \A k \in 1 .. Len(s) - i : k \in 1 .. Len(s) - (i + 1) + 1 /\ (i + 1) + k - 1 = i + k
    BY <1>1
  <2> QED BY <1>1, <2>2, <2>3
<1> HIDE DEF front, back
<1>4. /\ front \o back \in Seq(S) /\ Len(front \o back) = Len(s) - 1
      /\ \A k \in 1 .. Len(s) - 1 :
           (front \o back)[k] = IF k <= i - 1 THEN front[k] ELSE back[k - (i - 1)]
  <2>1. /\ front \o back \in Seq(S) /\ Len(front \o back) = Len(front) + Len(back)
        /\ \A k \in 1 .. Len(front) + Len(back) :
             (front \o back)[k] = IF k <= Len(front) THEN front[k] ELSE back[k - Len(front)]
    BY <1>2, <1>3, ConcatProperties
  <2>2. Len(front) = i - 1 /\ Len(front) + Len(back) = Len(s) - 1
    BY <1>1, <1>2, <1>3
  <2> QED BY <2>1, <2>2
<1>5. \A k \in 1 .. Len(s) - 1 : k >= i => back[k - (i - 1)] = s[k + 1]
  <2> SUFFICES ASSUME NEW k \in 1 .. Len(s) - 1, k >= i
               PROVE  back[k - (i - 1)] = s[k + 1]
    OBVIOUS
  <2>1. k - (i - 1) \in 1 .. Len(s) - i
    BY <1>1
  <2>2. back[k - (i - 1)] = s[i + (k - (i - 1))]
    BY <2>1, <1>3
  <2>3. i + (k - (i - 1)) = k + 1
    BY <1>1
  <2> QED BY <2>2, <2>3
<1>6. RemoveAt(s, i) = front \o back
  BY DEF RemoveAt, front, back
<1>7. ASSUME NEW k \in 1 .. Len(s) - 1
      PROVE  (front \o back)[k] = IF k < i THEN s[k] ELSE s[k + 1]
  <2>1. CASE k < i
    <3>1. k \in 1 .. i - 1 /\ k <= i - 1
      BY <2>1, <1>1
    <3> QED BY <2>1, <3>1, <1>2, <1>4
  <2>2. CASE ~(k < i)
    <3>1. ~(k <= i - 1) /\ k >= i
      BY <2>2, <1>1
    <3>2. (front \o back)[k] = back[k - (i - 1)]
      BY <3>1, <1>4
    <3>3. back[k - (i - 1)] = s[k + 1]
      BY <3>1, <1>5
    <3> QED BY <2>2, <3>2, <3>3
  <2> QED BY <2>1, <2>2, Zenon
<1>8. Removed(front \o back, s, i)
  BY <1>4, <1>7 DEF Removed
<1> QED BY <1>4, <1>6, <1>8

-----------------------------------------------------------------------------
(* Lists of blocks *)

\* The members of a list in place.
LEMMA LaidAt ==
  ASSUME NEW bs, Laid(bs)
  PROVE  /\ Base \in Nat /\ Size \in Nat
         /\ bs \in Seq(Blocks) /\ Len(bs) \in Nat \ {0}
         /\ \A i \in 1 .. Len(bs) :
              /\ bs[i] \in Blocks
              /\ bs[i].addr \in Int /\ Base <= bs[i].addr
              /\ bs[i].size \in Int /\ 1 <= bs[i].size
              /\ bs[i].free \in BOOLEAN
              /\ bs[i].addr + bs[i].size <= Base + Size
<1>1. Base \in Nat /\ Size \in Nat
  BY StubHeapAssumption
<1>2. Len(bs) \in Nat \ {0} /\ \A i \in 1 .. Len(bs) : bs[i] \in Blocks
  BY LenProperties, ElementOfSeq DEF Laid
<1> QED BY <1>1, <1>2 DEF Laid, Blocks

\* Any block inside the region is one of Blocks.
LEMMA BlockIs ==
  ASSUME NEW a \in Int, NEW s \in Int, NEW f \in BOOLEAN,
         Base <= a, 1 <= s, a + s <= Base + Size
  PROVE  Block(a, s, f) \in Blocks
<1>1. Base \in Nat /\ Size \in Nat
  BY StubHeapAssumption
<1>2. a \in Base .. Base + Size - 1 /\ s \in 1 .. Size
  BY <1>1
<1> QED BY <1>2 DEF Block, Blocks

\* A block with another size.
LEMMA Resized ==
  ASSUME NEW c \in Blocks, NEW z
  PROVE  [c EXCEPT !.size = z] = Block(c.addr, z, c.free)
BY DEF Blocks, Block

\* Marking a block free or used leaves the list laid out.
LEMMA MarkLaid ==
  ASSUME NEW bs, Laid(bs), NEW i \in 1 .. Len(bs), NEW f \in BOOLEAN
  PROVE  LET r == [bs EXCEPT ![i].free = f] IN
         /\ Laid(r) /\ Len(r) = Len(bs)
         /\ \A k \in 1 .. Len(bs) : r[k].free = IF k = i THEN f ELSE bs[k].free
<1> DEFINE b == Block(bs[i].addr, bs[i].size, f)
           r == [bs EXCEPT ![i] = b]
<1>1. Len(bs) \in Nat /\ bs \in Seq(Blocks)
  BY LaidAt
<1>2. b \in Blocks /\ b.addr = bs[i].addr /\ b.size = bs[i].size /\ b.free = f
  BY LaidAt, BlockIs DEF Block
<1>3. [bs EXCEPT ![i].free = f] = r
  <2>1. bs[i] \in Blocks
    BY LaidAt
  <2>2. [bs[i] EXCEPT !.free = f] = b
    BY <2>1 DEF Blocks, Block
  <2> QED BY <2>2
<1> HIDE DEF b
<1>4. /\ r \in Seq(Blocks) /\ Len(r) = Len(bs)
      /\ \A k \in 1 .. Len(bs) : r[k] = IF k = i THEN b ELSE bs[k]
  BY <1>1, <1>2, ExceptSeq
<1> HIDE DEF r
<1>5. \A k \in 1 .. Len(bs) :
        /\ r[k].addr = bs[k].addr /\ r[k].size = bs[k].size
        /\ r[k].free = IF k = i THEN f ELSE bs[k].free
  BY <1>2, <1>4
<1>6. Laid(r)
  BY <1>1, <1>4, <1>5 DEF Laid
<1> QED BY <1>3, <1>4, <1>5, <1>6

\* It moves and resizes no block.
LEMMA MarkSame ==
  ASSUME NEW bs, Laid(bs), NEW i \in 1 .. Len(bs), NEW f, NEW k \in 1 .. Len(bs)
  PROVE  LET r == [bs EXCEPT ![i].free = f] IN
         r[k].addr = bs[k].addr /\ r[k].size = bs[k].size
<1>1. Len(bs) \in Nat /\ bs \in Seq(Blocks) /\ bs[i] \in Blocks
  BY LaidAt
<1> QED BY <1>1 DEF Blocks

\* Which blocks are free when block i has been split.
FreeSplit(r, bs, i) ==
  \A k \in 1 .. Len(r) :
    /\ k < i => r[k].free = bs[k].free
    /\ k = i => ~r[k].free
    /\ k > i + 1 => r[k].free = bs[k - 1].free

\* What a list is when n bytes have been split off its block i.
SplitOf(r, bs, i, n) ==
  /\ \A k \in 1 .. i - 1 : r[k] = bs[k]
  /\ r[i] = Block(bs[i].addr, n, FALSE)
  /\ r[i + 1] = Block(bs[i].addr + n, bs[i].size - n, TRUE)
  /\ \A k \in i + 2 .. Len(bs) + 1 : r[k] = bs[k - 1]

\* Splitting a free block leaves the list laid out.
LEMMA SplitLaid ==
  ASSUME NEW bs, Laid(bs), NEW i \in 1 .. Len(bs),
         NEW n \in Int, 1 <= n, n < bs[i].size
  PROVE  LET r == InsertAt([bs EXCEPT ![i] = Block(bs[i].addr, n, FALSE)], i + 1,
                           Block(bs[i].addr + n, bs[i].size - n, TRUE))
         IN  /\ Laid(r) /\ Len(r) = Len(bs) + 1 /\ FreeSplit(r, bs, i)
             /\ SplitOf(r, bs, i, n)
<1> DEFINE b == Block(bs[i].addr, n, FALSE)
           e == Block(bs[i].addr + n, bs[i].size - n, TRUE)
           t == [bs EXCEPT ![i] = b]
           r == InsertAt(t, i + 1, e)
<1>1. /\ Base \in Nat /\ Size \in Nat /\ Len(bs) \in Nat \ {0} /\ bs \in Seq(Blocks)
      /\ bs[i].addr \in Int /\ bs[i].size \in Int /\ i \in Int
  BY LaidAt
<1>2. /\ b \in Blocks /\ b.addr = bs[i].addr /\ b.size = n /\ b.free = FALSE
      /\ e \in Blocks /\ e.addr = bs[i].addr + n /\ e.size = bs[i].size - n /\ e.free = TRUE
  <2>1. /\ Base <= bs[i].addr /\ 1 <= bs[i].size - n /\ bs[i].size - n \in Int
        /\ bs[i].addr + n \in Int /\ Base <= bs[i].addr + n
        /\ bs[i].addr + n <= Base + Size
        /\ bs[i].addr + n + (bs[i].size - n) <= Base + Size
    <3>1. Base <= bs[i].addr /\ bs[i].addr + bs[i].size <= Base + Size
      BY LaidAt
    <3> QED BY <1>1, <3>1
  <2>2. b \in Blocks
    BY <1>1, <2>1, BlockIs
  <2>3. e \in Blocks
    BY <1>1, <2>1, BlockIs
  <2> QED BY <2>2, <2>3 DEF Block
<1> HIDE DEF b, e
<1>3. /\ t \in Seq(Blocks) /\ Len(t) = Len(bs)
      /\ \A k \in 1 .. Len(bs) : t[k] = IF k = i THEN b ELSE bs[k]
  BY <1>1, <1>2, ExceptSeq
<1> HIDE DEF t
<1>4. /\ r \in Seq(Blocks) /\ Len(r) = Len(bs) + 1
      /\ \A k \in 1 .. Len(bs) + 1 :
           r[k] = IF k < i + 1 THEN t[k] ELSE IF k = i + 1 THEN e ELSE t[k - 1]
  <2>1. i + 1 \in 1 .. Len(t) + 1
    BY <1>1, <1>3
  <2>2. /\ r \in Seq(Blocks) /\ Len(r) = Len(t) + 1
        /\ \A k \in 1 .. Len(t) + 1 :
             r[k] = IF k < i + 1 THEN t[k] ELSE IF k = i + 1 THEN e ELSE t[k - 1]
    <3>1. t \in Seq(Blocks) /\ e \in Blocks
      BY <1>2, <1>3
    <3>2. r \in Seq(Blocks) /\ Inserted(r, t, i + 1, e)
      BY <2>1, <3>1, InsertAtIs
    <3> QED BY <3>2 DEF Inserted
  <2> QED BY <1>3, <2>2
<1> HIDE DEF r
<1>5. /\ \A k \in 1 .. i - 1 : r[k] = bs[k]
      /\ r[i] = b /\ r[i + 1] = e
      /\ \A k \in i + 2 .. Len(bs) + 1 : r[k] = bs[k - 1]
  <2>1. ASSUME NEW k \in 1 .. i - 1
        PROVE  r[k] = bs[k]
    <3>1. k \in 1 .. Len(bs) /\ k \in 1 .. Len(bs) + 1 /\ k < i + 1 /\ k # i
      BY <1>1
    <3> QED BY <1>3, <1>4, <3>1
  <2>2. r[i] = b
    <3>1. i \in 1 .. Len(bs) + 1 /\ i < i + 1
      BY <1>1
    <3> QED BY <1>3, <1>4, <3>1
  <2>3. r[i + 1] = e
    <3>1. i + 1 \in 1 .. Len(bs) + 1 /\ ~(i + 1 < i + 1)
      BY <1>1
    <3> QED BY <1>4, <3>1
  <2>4. ASSUME NEW k \in i + 2 .. Len(bs) + 1
        PROVE  r[k] = bs[k - 1]
    <3>1. /\ k \in 1 .. Len(bs) + 1 /\ ~(k < i + 1) /\ k # i + 1
          /\ k - 1 \in 1 .. Len(bs) /\ k - 1 # i
      BY <1>1
    <3> QED BY <1>3, <1>4, <3>1
  <2> QED BY <2>1, <2>2, <2>3, <2>4
<1>6. Laid(r)
  <2>1. ASSUME NEW k \in 1 .. Len(r)
        PROVE  r[k].addr + r[k].size <= Base + Size
    <3>1. \A j \in 1 .. Len(bs) : bs[j].addr + bs[j].size <= Base + Size
      BY LaidAt
    <3>2. CASE k \in 1 .. i - 1
      BY <1>1, <1>5, <3>1, <3>2
    <3>3. CASE k = i \/ k = i + 1
      <4>1. b.addr + b.size <= Base + Size /\ e.addr + e.size <= Base + Size
        <5>1. bs[i].addr + bs[i].size <= Base + Size
          BY <3>1
        <5>2. e.addr + e.size = bs[i].addr + bs[i].size
          BY <1>1, <1>2
        <5> QED BY <1>1, <1>2, <5>1, <5>2
      <4> QED BY <1>5, <3>3, <4>1
    <3>4. CASE k \in i + 2 .. Len(bs) + 1
      <4>1. k - 1 \in 1 .. Len(bs)
        BY <1>1, <3>4
      <4> QED BY <1>5, <3>1, <3>4, <4>1
    <3> QED BY <1>1, <1>4, <3>2, <3>3, <3>4
  <2>2. r[1].addr = Base
    <3>1. bs[1].addr = Base
      BY DEF Laid
    <3>2. CASE i = 1
      BY <1>2, <1>5, <3>1, <3>2
    <3>3. CASE i # 1
      <4>1. 1 \in 1 .. i - 1
        BY <1>1, <3>3
      <4> QED BY <1>5, <3>1, <4>1
    <3> QED BY <3>2, <3>3
  <2>3. r[Len(r)].addr + r[Len(r)].size = Base + Size
    <3>1. bs[Len(bs)].addr + bs[Len(bs)].size = Base + Size
      BY DEF Laid
    <3>2. CASE i = Len(bs)
      <4>1. e.addr + e.size = bs[i].addr + bs[i].size
        BY <1>1, <1>2
      <4> QED BY <1>4, <1>5, <3>1, <3>2, <4>1
    <3>3. CASE i # Len(bs)
      <4>1. Len(r) \in i + 2 .. Len(bs) + 1 /\ Len(r) - 1 = Len(bs)
        BY <1>1, <1>4, <3>3
      <4> QED BY <1>5, <3>1, <4>1
    <3> QED BY <3>2, <3>3
  <2>4. ASSUME NEW k \in 1 .. Len(r) - 1
        PROVE  r[k + 1].addr = r[k].addr + r[k].size
    <3>1. CASE k < i - 1
      <4>1. k \in 1 .. Len(bs) - 1 /\ k \in 1 .. i - 1 /\ k + 1 \in 1 .. i - 1
        BY <1>1, <1>4, <3>1
      <4>2. r[k] = bs[k] /\ r[k + 1] = bs[k + 1]
        BY <1>5, <4>1
      <4> QED BY <4>1, <4>2 DEF Laid
    <3>2. CASE k = i - 1
      <4>1. k \in 1 .. Len(bs) - 1 /\ k \in 1 .. i - 1 /\ k + 1 = i
        BY <1>1, <1>4, <3>2
      <4>2. r[k] = bs[k] /\ r[k + 1] = b
        BY <1>5, <4>1
      <4> QED BY <1>2, <4>1, <4>2 DEF Laid
    <3>3. CASE k = i
      BY <1>1, <1>2, <1>4, <1>5, <3>3
    <3>4. CASE k = i + 1
      <4>1. i \in 1 .. Len(bs) - 1 /\ k + 1 \in i + 2 .. Len(bs) + 1 /\ k + 1 - 1 = i + 1
        BY <1>1, <1>4, <3>4
      <4>2. r[k] = e /\ r[k + 1] = bs[i + 1]
        BY <1>5, <3>4, <4>1
      <4>3. bs[i + 1].addr = bs[i].addr + bs[i].size
        BY <4>1 DEF Laid
      <4>4. e.addr + e.size = bs[i].addr + bs[i].size
        BY <1>1, <1>2
      <4> QED BY <4>2, <4>3, <4>4
    <3>5. CASE k > i + 1
      <4>1. /\ k \in i + 2 .. Len(bs) + 1 /\ k + 1 \in i + 2 .. Len(bs) + 1
            /\ k + 1 - 1 = (k - 1) + 1 /\ k - 1 \in 1 .. Len(bs) - 1
        BY <1>1, <1>4, <3>5
      <4>2. r[k] = bs[k - 1] /\ r[k + 1] = bs[(k - 1) + 1]
        BY <1>5, <4>1
      <4> QED BY <4>1, <4>2 DEF Laid
    <3> QED BY <1>1, <1>4, <3>1, <3>2, <3>3, <3>4, <3>5
  <2> QED BY <1>1, <1>4, <2>1, <2>2, <2>3, <2>4 DEF Laid
<1>7. FreeSplit(r, bs, i)
  <2> SUFFICES ASSUME NEW k \in 1 .. Len(r)
               PROVE  /\ k < i => r[k].free = bs[k].free
                      /\ k = i => ~r[k].free
                      /\ k > i + 1 => r[k].free = bs[k - 1].free
    BY DEF FreeSplit
  <2>1. ASSUME k < i PROVE r[k].free = bs[k].free
    <3>1. k \in 1 .. i - 1
      BY <1>1, <1>4, <2>1
    <3> QED BY <1>5, <3>1
  <2>2. ASSUME k = i PROVE ~r[k].free
    BY <1>2, <1>5, <2>2
  <2>3. ASSUME k > i + 1 PROVE r[k].free = bs[k - 1].free
    <3>1. k \in i + 2 .. Len(bs) + 1
      BY <1>1, <1>4, <2>3
    <3> QED BY <1>5, <3>1
  <2> QED BY <2>1, <2>2, <2>3
<1>8. r = InsertAt([bs EXCEPT ![i] = Block(bs[i].addr, n, FALSE)], i + 1,
                   Block(bs[i].addr + n, bs[i].size - n, TRUE))
  BY DEF r, t, b, e
<1>9. SplitOf(r, bs, i, n)
  BY <1>5 DEF SplitOf, b, e
<1> QED BY <1>4, <1>6, <1>7, <1>8, <1>9

\* What a list is when its blocks i and i + 1 have been joined.
JoinOf(r, bs, i) ==
  /\ \A k \in 1 .. i - 1 : r[k] = bs[k]
  /\ r[i] = Block(bs[i].addr, bs[i].size + bs[i + 1].size, TRUE)
  /\ \A k \in i + 1 .. Len(bs) - 1 : r[k] = bs[k + 1]

\* Joining a free block with the free block after it leaves the list laid out.
LEMMA JoinLaid ==
  ASSUME NEW bs, Laid(bs), NEW i \in 1 .. Len(bs) - 1, bs[i].free, bs[i + 1].free
  PROVE  /\ Laid(Merge(bs, i)) /\ Len(Merge(bs, i)) = Len(bs) - 1
         /\ \A k \in 1 .. Len(bs) - 1 :
              Merge(bs, i)[k].free = IF k < i THEN bs[k].free ELSE bs[k + 1].free
         /\ JoinOf(Merge(bs, i), bs, i)
<1> DEFINE b == Block(bs[i].addr, bs[i].size + bs[i + 1].size, TRUE)
           t == [bs EXCEPT ![i] = b]
           r == RemoveAt(t, i + 1)
<1>1. /\ Base \in Nat /\ Size \in Nat /\ Len(bs) \in Nat \ {0} /\ bs \in Seq(Blocks)
      /\ i \in Int /\ i \in 1 .. Len(bs) /\ i + 1 \in 1 .. Len(bs)
      /\ bs[i] \in Blocks /\ bs[i + 1] \in Blocks
  BY LaidAt
<1>2. /\ bs[i].addr \in Int /\ bs[i].size \in Int /\ bs[i + 1].size \in Int
      /\ Base <= bs[i].addr /\ 1 <= bs[i].size /\ 1 <= bs[i + 1].size
      /\ bs[i + 1].addr + bs[i + 1].size <= Base + Size
  BY <1>1, LaidAt
<1>3. bs[i + 1].addr = bs[i].addr + bs[i].size
  BY DEF Laid
<1>4. /\ b \in Blocks /\ b.addr = bs[i].addr /\ b.free = TRUE
      /\ b.size = bs[i].size + bs[i + 1].size
      /\ b.addr + b.size = bs[i + 1].addr + bs[i + 1].size
  <2>1. /\ bs[i].size + bs[i + 1].size \in Int /\ 1 <= bs[i].size + bs[i + 1].size
        /\ bs[i].addr + (bs[i].size + bs[i + 1].size) <= Base + Size
        /\ bs[i].addr + (bs[i].size + bs[i + 1].size) = bs[i + 1].addr + bs[i + 1].size
    BY <1>1, <1>2, <1>3
  <2>2. b \in Blocks
    <3> DEFINE z == bs[i].size + bs[i + 1].size
    <3>1. z \in Int /\ 1 <= z /\ bs[i].addr + z <= Base + Size
      BY <2>1
    <3>2. b = Block(bs[i].addr, z, TRUE)
      OBVIOUS
    <3> HIDE DEF z, b
    <3>3. Block(bs[i].addr, z, TRUE) \in Blocks
      BY <1>2, <3>1, BlockIs
    <3> QED BY <3>2, <3>3
  <2>3. b.addr = bs[i].addr /\ b.free = TRUE /\ b.size = bs[i].size + bs[i + 1].size
    BY DEF Block
  <2> QED BY <2>1, <2>2, <2>3
<1>5. Merge(bs, i) = r
  <2>1. bs[i].free = TRUE
    BY <1>1 DEF Blocks
  <2>2. [bs[i] EXCEPT !.size = bs[i].size + bs[i + 1].size]
          = Block(bs[i].addr, bs[i].size + bs[i + 1].size, bs[i].free)
    BY <1>1, Resized, Zenon
  <2>3. [bs[i] EXCEPT !.size = bs[i].size + bs[i + 1].size] = b
    BY <2>1, <2>2, Zenon
  <2> QED BY <2>3 DEF Merge
<1> HIDE DEF b
<1>6. /\ t \in Seq(Blocks) /\ Len(t) = Len(bs)
      /\ \A k \in 1 .. Len(bs) : t[k] = IF k = i THEN b ELSE bs[k]
  BY <1>1, <1>4, ExceptSeq
<1> HIDE DEF t
<1>7. r \in Seq(Blocks) /\ Removed(r, t, i + 1)
  <2>1. t \in Seq(Blocks) /\ i + 1 \in 1 .. Len(t)
    BY <1>1, <1>6
  <2> QED BY <2>1, RemoveAtIs
<1> HIDE DEF r
<1>8. Len(r) = Len(bs) - 1
  BY <1>6, <1>7 DEF Removed
<1>9. /\ \A k \in 1 .. i - 1 : r[k] = bs[k]
      /\ r[i] = b
      /\ \A k \in i + 1 .. Len(bs) - 1 : r[k] = bs[k + 1]
  <2>1. ASSUME NEW k \in 1 .. i - 1
        PROVE  r[k] = bs[k]
    <3>1. k \in 1 .. Len(bs) /\ k \in 1 .. Len(bs) - 1 /\ k < i + 1 /\ k # i
      BY <1>1
    <3> QED BY <1>6, <1>7, <3>1 DEF Removed
  <2>2. r[i] = b
    <3>1. i < i + 1
      BY <1>1
    <3> QED BY <1>1, <1>6, <1>7, <3>1 DEF Removed
  <2>3. ASSUME NEW k \in i + 1 .. Len(bs) - 1
        PROVE  r[k] = bs[k + 1]
    <3>1. /\ k \in 1 .. Len(bs) - 1 /\ ~(k < i + 1)
          /\ k + 1 \in 1 .. Len(bs) /\ k + 1 # i
      BY <1>1
    <3> QED BY <1>6, <1>7, <3>1 DEF Removed
  <2> QED BY <2>1, <2>2, <2>3
<1>10. Laid(r)
  <2>1. ASSUME NEW k \in 1 .. Len(r)
        PROVE  r[k].addr + r[k].size <= Base + Size
    <3>1. \A j \in 1 .. Len(bs) : bs[j].addr + bs[j].size <= Base + Size
      BY LaidAt
    <3>2. CASE k \in 1 .. i - 1
      BY <1>1, <1>9, <3>1, <3>2
    <3>3. CASE k = i
      BY <1>2, <1>4, <1>9, <3>3
    <3>4. CASE k \in i + 1 .. Len(bs) - 1
      <4>1. k + 1 \in 1 .. Len(bs)
        BY <1>1, <3>4
      <4> QED BY <1>9, <3>1, <3>4, <4>1
    <3> QED BY <1>1, <1>8, <3>2, <3>3, <3>4
  <2>2. r[1].addr = Base
    <3>1. bs[1].addr = Base
      BY DEF Laid
    <3>2. CASE i = 1
      BY <1>4, <1>9, <3>1, <3>2
    <3>3. CASE i # 1
      <4>1. 1 \in 1 .. i - 1
        BY <1>1, <3>3
      <4> QED BY <1>9, <3>1, <4>1
    <3> QED BY <3>2, <3>3
  <2>3. r[Len(r)].addr + r[Len(r)].size = Base + Size
    <3>1. bs[Len(bs)].addr + bs[Len(bs)].size = Base + Size
      BY DEF Laid
    <3>2. CASE i = Len(bs) - 1
      <4>1. Len(r) = i /\ Len(bs) = i + 1
        BY <1>1, <1>8, <3>2
      <4> QED BY <1>4, <1>9, <3>1, <4>1
    <3>3. CASE i # Len(bs) - 1
      <4>1. Len(r) \in i + 1 .. Len(bs) - 1 /\ Len(r) + 1 = Len(bs)
        BY <1>1, <1>8, <3>3
      <4> QED BY <1>9, <3>1, <4>1
    <3> QED BY <3>2, <3>3
  <2>4. ASSUME NEW k \in 1 .. Len(r) - 1
        PROVE  r[k + 1].addr = r[k].addr + r[k].size
    <3>1. CASE k < i - 1
      <4>1. k \in 1 .. Len(bs) - 1 /\ k \in 1 .. i - 1 /\ k + 1 \in 1 .. i - 1
        BY <1>1, <1>8, <3>1
      <4>2. r[k] = bs[k] /\ r[k + 1] = bs[k + 1]
        BY <1>9, <4>1
      <4> QED BY <4>1, <4>2 DEF Laid
    <3>2. CASE k = i - 1
      <4>1. k \in 1 .. Len(bs) - 1 /\ k \in 1 .. i - 1 /\ k + 1 = i
        BY <1>1, <1>8, <3>2
      <4>2. r[k] = bs[k] /\ r[k + 1] = b
        BY <1>9, <4>1
      <4> QED BY <1>4, <4>1, <4>2 DEF Laid
    <3>3. CASE k = i
      <4>1. i + 1 \in i + 1 .. Len(bs) - 1 /\ i + 1 \in 1 .. Len(bs) - 1
        BY <1>1, <1>8, <3>3
      <4>2. r[k] = b /\ r[k + 1] = bs[(i + 1) + 1]
        BY <1>9, <3>3, <4>1
      <4>3. bs[(i + 1) + 1].addr = bs[i + 1].addr + bs[i + 1].size
        BY <4>1 DEF Laid
      <4> QED BY <1>4, <4>2, <4>3
    <3>4. CASE k > i
      <4>1. /\ k \in i + 1 .. Len(bs) - 1 /\ k + 1 \in i + 1 .. Len(bs) - 1
            /\ k + 1 \in 1 .. Len(bs) - 1
        BY <1>1, <1>8, <3>4
      <4>2. r[k] = bs[k + 1] /\ r[k + 1] = bs[(k + 1) + 1]
        BY <1>9, <4>1
      <4> QED BY <4>1, <4>2 DEF Laid
    <3> QED BY <1>1, <1>8, <3>1, <3>2, <3>3, <3>4
  <2>5. Len(r) > 0
    BY <1>1, <1>8
  <2> QED BY <1>7, <2>1, <2>2, <2>3, <2>4, <2>5 DEF Laid
<1>11. ASSUME NEW k \in 1 .. Len(bs) - 1
       PROVE  r[k].free = IF k < i THEN bs[k].free ELSE bs[k + 1].free
  <2>1. CASE k < i
    <3>1. k \in 1 .. i - 1
      BY <1>1, <2>1
    <3> QED BY <1>9, <2>1, <3>1
  <2>2. CASE k = i
    <3>1. ~(k < i) /\ r[k].free = TRUE /\ bs[k + 1].free = TRUE
      BY <1>1, <1>4, <1>9, <2>2 DEF Blocks
    <3> QED BY <3>1
  <2>3. CASE k > i
    <3>1. ~(k < i) /\ k \in i + 1 .. Len(bs) - 1
      BY <1>1, <2>3
    <3> QED BY <1>9, <3>1
  <2>4. k < i \/ k = i \/ k > i
    BY <1>1
  <2> QED BY <2>1, <2>2, <2>3, <2>4, Zenon
<1>12. JoinOf(r, bs, i)
  BY <1>9 DEF JoinOf, b
<1> QED BY <1>5, <1>8, <1>10, <1>11, <1>12

\* alloc, of block i: the list stays laid out and no two neighbours are free.
LEMMA TakeKeeps ==
  ASSUME Laid(blocks), Apart(blocks, {}), NEW i \in 1 .. Len(blocks), blocks[i].free,
         NEW n \in Int, 1 <= n, n <= blocks[i].size
  PROVE  Laid(Take(i, n)) /\ Apart(Take(i, n), {})
<1> DEFINE r == Take(i, n)
<1>0. Len(blocks) \in Nat /\ blocks[i].size \in Int /\ i \in Int
  BY LaidAt
<1>1. CASE blocks[i].size = n
  <2>1. r = [blocks EXCEPT ![i].free = FALSE]
    BY <1>1 DEF Take
  <2> HIDE DEF r
  <2>2. /\ Laid(r) /\ Len(r) = Len(blocks)
        /\ \A k \in 1 .. Len(blocks) : r[k].free = IF k = i THEN FALSE ELSE blocks[k].free
    BY <2>1, MarkLaid
  <2>3. ASSUME NEW k \in 1 .. Len(r) - 1, r[k].free, r[k + 1].free
        PROVE  FALSE
    <3>1. /\ k \in 1 .. Len(blocks) /\ k + 1 \in 1 .. Len(blocks)
          /\ k \in (1 .. Len(blocks) - 1) \ {}
      BY <1>0, <2>2
    <3>2. blocks[k].free /\ blocks[k + 1].free
      BY <2>2, <2>3, <3>1
    <3> QED BY <3>1, <3>2 DEF Apart
  <2>4. Apart(r, {})
    BY <2>3 DEF Apart
  <2> QED BY <2>2, <2>4 DEF r
<1>2. CASE blocks[i].size # n
  <2>1. n < blocks[i].size
    BY <1>0, <1>2
  <2>2. r = InsertAt([blocks EXCEPT ![i] = Block(blocks[i].addr, n, FALSE)], i + 1,
                     Block(blocks[i].addr + n, blocks[i].size - n, TRUE))
    BY <1>2 DEF Take
  <2> HIDE DEF r
  <2>3. Laid(r) /\ Len(r) = Len(blocks) + 1 /\ FreeSplit(r, blocks, i)
    BY <2>1, <2>2, SplitLaid
  <2>4. ASSUME NEW k \in 1 .. Len(r) - 1, r[k].free, r[k + 1].free
        PROVE  FALSE
    <3>1. k \in 1 .. Len(r) /\ k + 1 \in 1 .. Len(r) /\ Len(r) - 1 = Len(blocks)
      BY <1>0, <2>3
    <3>2. k # i /\ k + 1 # i
      BY <2>3, <2>4, <3>1 DEF FreeSplit
    <3>3. CASE k + 1 < i
      <4>1. k \in (1 .. Len(blocks) - 1) \ {} /\ k < i
        BY <1>0, <3>1, <3>3
      <4>2. blocks[k].free /\ blocks[k + 1].free
        BY <2>3, <2>4, <3>1, <3>3, <4>1 DEF FreeSplit
      <4> QED BY <4>1, <4>2 DEF Apart
    <3>4. CASE k > i
      <4>1. i \in (1 .. Len(blocks) - 1) \ {} /\ k + 1 > i + 1 /\ (k + 1) - 1 = k
        BY <1>0, <3>1, <3>4
      <4>2. blocks[k].free
        <5>1. r[k + 1].free = blocks[(k + 1) - 1].free
          BY <2>3, <3>1, <4>1 DEF FreeSplit
        <5> QED BY <2>4, <4>1, <5>1
      <4>3. CASE k = i + 1
        BY <4>1, <4>2, <4>3 DEF Apart
      <4>4. CASE k # i + 1
        <5>1. k > i + 1 /\ k - 1 \in (1 .. Len(blocks) - 1) \ {} /\ (k - 1) + 1 = k
          BY <1>0, <3>1, <3>4, <4>4
        <5>2. blocks[k - 1].free
          BY <2>3, <2>4, <3>1, <5>1 DEF FreeSplit
        <5>3. ~(blocks[k - 1].free /\ blocks[(k - 1) + 1].free)
          BY <5>1 DEF Apart
        <5> QED BY <4>2, <5>1, <5>2, <5>3
      <4> QED BY <4>3, <4>4
    <3> QED BY <1>0, <3>2, <3>3, <3>4
  <2>5. Apart(r, {})
    BY <2>4 DEF Apart
  <2> QED BY <2>3, <2>5 DEF r
<1> QED BY <1>1, <1>2

\* Merge at the only place where two neighbours may both be free leaves none;
\* at one of two such places, it leaves the other.
LEMMA MergeKeeps ==
  ASSUME NEW bs, Laid(bs), NEW i \in 1 .. Len(bs) - 1, NEW X \in {{}, {i + 1}},
         Apart(bs, {i} \cup X)
  PROVE  /\ Laid(Merge(bs, i))
         /\ bs[i].free /\ bs[i + 1].free =>
              Len(Merge(bs, i)) = Len(bs) - 1 /\ Apart(Merge(bs, i), IF X = {} THEN {} ELSE {i})
         /\ X = {} => Apart(Merge(bs, i), {})
<1> DEFINE r == Merge(bs, i)
<1>0. Len(bs) \in Nat /\ i \in Int
  BY LaidAt
<1>1. CASE bs[i].free /\ bs[i + 1].free
  <2>1. /\ Laid(r) /\ Len(r) = Len(bs) - 1
        /\ \A k \in 1 .. Len(bs) - 1 :
             r[k].free = IF k < i THEN bs[k].free ELSE bs[k + 1].free
    BY <1>1, JoinLaid
  <2> HIDE DEF r
  <2>2. ASSUME NEW k \in 1 .. Len(r) - 1, k = i => X = {}, r[k].free, r[k + 1].free
        PROVE  FALSE
    <3>1. k \in 1 .. Len(bs) - 1 /\ k + 1 \in 1 .. Len(bs) - 1
      BY <1>0, <2>1
    <3>2. CASE k < i
      <4>1. k \in (1 .. Len(bs) - 1) \ ({i} \cup X)
        BY <1>0, <3>1, <3>2
      <4>2. bs[k].free
        BY <2>1, <2>2, <3>1, <3>2
      <4>3. bs[k + 1].free
        <5>1. CASE k + 1 = i
          BY <1>1, <5>1
        <5>2. CASE k + 1 < i
          BY <2>1, <2>2, <3>1, <5>2
        <5> QED BY <1>0, <3>2, <5>1, <5>2
      <4> QED BY <4>1, <4>2, <4>3 DEF Apart
    <3>3. CASE k >= i
      <4>1. k + 1 \in (1 .. Len(bs) - 1) \ ({i} \cup X)
        BY <1>0, <2>2, <3>1, <3>3
      <4>2. ~(k < i) /\ ~(k + 1 < i)
        BY <1>0, <3>3
      <4>3. bs[k + 1].free /\ bs[(k + 1) + 1].free
        BY <2>1, <2>2, <3>1, <4>2
      <4> QED BY <4>1, <4>3 DEF Apart
    <3> QED BY <1>0, <3>2, <3>3
  <2>3. Apart(r, IF X = {} THEN {} ELSE {i})
    BY <2>2 DEF Apart
  <2> QED BY <2>1, <2>3 DEF r
<1>2. CASE ~(bs[i].free /\ bs[i + 1].free)
  <2>1. r = bs
    BY <1>2 DEF Merge
  <2>2. X = {} => Apart(bs, {})
    BY <1>2 DEF Apart
  <2> QED BY <1>2, <2>1, <2>2
<1> QED BY <1>1, <1>2

\* free, of block i: the list stays laid out and no two neighbours are free.
LEMMA GivenKeeps ==
  ASSUME Laid(blocks), Apart(blocks, {}), NEW i \in 1 .. Len(blocks)
  PROVE  Laid(Given(i)) /\ Apart(Given(i), {})
<1> DEFINE bs == [blocks EXCEPT ![i].free = TRUE]
           prev == i > 1 /\ bs[i - 1].free
           j == IF prev THEN i - 1 ELSE i
           cs == IF prev THEN Merge(bs, j) ELSE bs
<1>1. Len(blocks) \in Nat /\ i \in Int
  BY LaidAt
<1>2. /\ Laid(bs) /\ Len(bs) = Len(blocks)
      /\ \A k \in 1 .. Len(blocks) : bs[k].free = IF k = i THEN TRUE ELSE blocks[k].free
  BY MarkLaid
<1>3. Given(i) = IF j < Len(cs) THEN Merge(cs, j) ELSE cs
  BY DEF Given
<1> HIDE DEF bs
<1>4. Apart(bs, {i - 1, i})
  <2> SUFFICES ASSUME NEW k \in (1 .. Len(bs) - 1) \ {i - 1, i}
               PROVE  ~(bs[k].free /\ bs[k + 1].free)
    BY DEF Apart
  <2>1. k \in 1 .. Len(blocks) /\ k + 1 \in 1 .. Len(blocks) /\ k # i /\ k + 1 # i
    BY <1>1, <1>2
  <2>2. bs[k].free = blocks[k].free /\ bs[k + 1].free = blocks[k + 1].free
    BY <1>2, <2>1
  <2>3. k \in (1 .. Len(blocks) - 1) \ {}
    BY <1>1, <1>2
  <2> QED BY <2>2, <2>3 DEF Apart
<1>5. Laid(cs) /\ Apart(cs, {j}) /\ j \in 1 .. Len(cs) /\ j \in Int
  <2>1. CASE prev
    <3>1. /\ j = i - 1 /\ cs = Merge(bs, j) /\ j \in 1 .. Len(bs) - 1
          /\ {j} \cup {j + 1} = {i - 1, i} /\ bs[j].free
      BY <1>1, <1>2, <2>1
    <3>2. bs[j + 1].free
      BY <1>1, <1>2, <3>1
    <3> HIDE DEF j, cs
    <3>3. /\ Laid(Merge(bs, j)) /\ Len(Merge(bs, j)) = Len(bs) - 1
          /\ Apart(Merge(bs, j), IF {j + 1} = {} THEN {} ELSE {j})
      BY <1>2, <1>4, <3>1, <3>2, MergeKeeps
    <3> QED BY <1>1, <1>2, <3>1, <3>3
  <2>2. CASE ~prev
    <3>1. j = i /\ cs = bs
      BY <2>2
    <3>2. ASSUME NEW k \in (1 .. Len(bs) - 1) \ {i}
          PROVE  ~(bs[k].free /\ bs[k + 1].free)
      <4>1. CASE k = i - 1
        BY <1>1, <2>2, <4>1
      <4>2. CASE k # i - 1
        BY <1>4, <4>2 DEF Apart
      <4> QED BY <4>1, <4>2
    <3> HIDE DEF j, cs
    <3> QED BY <1>1, <1>2, <3>1, <3>2 DEF Apart
  <2> QED BY <2>1, <2>2
<1> HIDE DEF j, cs
<1>6. Len(cs) \in Nat
  BY <1>5, LaidAt
<1>7. CASE j < Len(cs)
  <2>1. j \in 1 .. Len(cs) - 1 /\ {j} \cup {} = {j}
    BY <1>5, <1>6, <1>7
  <2>2. Laid(Merge(cs, j)) /\ Apart(Merge(cs, j), {})
    BY <1>5, <2>1, MergeKeeps
  <2> QED BY <1>3, <1>7, <2>2
<1>8. CASE ~(j < Len(cs))
  <2>1. Apart(cs, {})
    BY <1>5, <1>6, <1>8 DEF Apart
  <2> QED BY <1>3, <1>5, <1>8, <2>1
<1> QED BY <1>7, <1>8

-----------------------------------------------------------------------------
(* The invariant *)

\* What alloc asks the list for is a number of bytes.
LEMMA AlignedNat ==
  ASSUME NEW n \in Nat
  PROVE  Aligned(n) \in Nat
<1> DEFINE s == (n + Granule - 1) % Modulus
<1>1. Granule \in Nat \ {0} /\ Modulus \in Nat \ {0}
  BY StubHeapAssumption
<1>2. s \in Nat
  BY <1>1
<1> HIDE DEF s
<1>3. s % Granule \in Nat /\ s % Granule <= s
  <2>1. CASE s < Granule
    BY <1>1, <1>2, <2>1
  <2>2. CASE s >= Granule
    BY <1>1, <1>2, <2>2
  <2> QED BY <1>1, <1>2, <2>1, <2>2
<1> QED BY <1>2, <1>3 DEF Aligned, s

LEMMA InitInv == Init => IInv
<1> SUFFICES ASSUME Init PROVE IInv
  OBVIOUS
<1>1. Base \in Nat /\ Size \in Nat \ {0}
  BY StubHeapAssumption
<1>2. Block(Base, Size, TRUE) \in Blocks
  BY <1>1 DEF Block, Blocks
<1>3. /\ blocks \in Seq(Blocks) /\ Len(blocks) = 1
      /\ blocks[1] = Block(Base, Size, TRUE)
  <2> DEFINE b == Block(Base, Size, TRUE)
  <2>1. blocks = <<b>> /\ b \in Blocks
    BY <1>2 DEF Init
  <2> HIDE DEF b
  <2>2. <<b>> \in Seq(Blocks) /\ Len(<<b>>) = 1 /\ <<b>>[1] = b
    BY <2>1
  <2> QED BY <2>1, <2>2 DEF b
<1>4. blocks[1].addr = Base /\ blocks[1].size = Size
  BY <1>3 DEF Block
<1>5. Laid(blocks)
  <2>1. \A i \in 1 .. Len(blocks) : blocks[i].addr + blocks[i].size <= Base + Size
    <3>1. \A i \in 1 .. Len(blocks) : i = 1
      BY <1>3
    <3> QED BY <1>1, <1>4, <3>1
  <2>2. \A i \in 1 .. Len(blocks) - 1 :
          blocks[i + 1].addr = blocks[i].addr + blocks[i].size
    <3>1. 1 .. Len(blocks) - 1 = {}
      BY <1>3
    <3> QED BY <3>1
  <2>3. /\ blocks[Len(blocks)].addr + blocks[Len(blocks)].size = Base + Size
        /\ Len(blocks) > 0 /\ blocks[1].addr = Base
    <3>1. Len(blocks) = 1
      BY <1>3
    <3> QED BY <1>1, <1>4, <3>1
  <2> QED BY <1>3, <2>1, <2>2, <2>3, Zenon DEF Laid
<1> QED BY <1>3, <1>5 DEF IInv, Apart, Init

LEMMA NextInv == IInv /\ [Next]_vars => IInv'
<1> SUFFICES ASSUME IInv, [Next]_vars PROVE IInv'
  OBVIOUS
<1>1. ASSUME NEW sz \in Requests, Alloc(sz)
      PROVE  IInv'
  <2> DEFINE n == Aligned(sz)
  <2>1. PICK i \in 1 .. Len(blocks) :
          /\ n > 0 /\ Fits(blocks[i], n)
          /\ blocks' = Take(i, n) /\ reply' = blocks[i].addr
    BY <1>1 DEF Alloc
  <2>2. n \in Nat
    <3>1. sz \in Nat
      BY StubHeapAssumption
    <3> QED BY <3>1, AlignedNat
  <2> HIDE DEF n
  <2>3. blocks[i].free /\ blocks[i].size \in Int /\ n <= blocks[i].size
        /\ reply' \in Base .. Base + Size - 1
    <3>1. blocks[i] \in Blocks
      BY LaidAt DEF IInv
    <3> QED BY <2>1, <2>2, <3>1 DEF Fits, Blocks
  <2>4. Laid(Take(i, n)) /\ Apart(Take(i, n), {})
    BY <2>1, <2>2, <2>3, TakeKeeps DEF IInv
  <2> QED BY <2>1, <2>3, <2>4 DEF IInv
<1>2. ASSUME NEW sz \in Requests, AllocFails(sz)
      PROVE  IInv'
  BY <1>2 DEF AllocFails, IInv
<1>3. ASSUME NEW p \in Pointers, Free(p)
      PROVE  IInv'
  <2>1. PICK i \in 1 .. Len(blocks) : blocks' = Given(i) /\ reply' = 1
    BY <1>3 DEF Free
  <2>2. Laid(Given(i)) /\ Apart(Given(i), {})
    BY <2>1, GivenKeeps DEF IInv
  <2> QED BY <2>1, <2>2 DEF IInv
<1>4. ASSUME NEW p \in Pointers, FreeIgnored(p)
      PROVE  IInv'
  BY <1>4 DEF FreeIgnored, IInv
<1>5. CASE UNCHANGED vars
  BY <1>5 DEF IInv, vars
<1> QED BY <1>1, <1>2, <1>3, <1>4, <1>5 DEF Next

\* The region of the heap never holds a block that is empty or not within it,
\* after any sequence of HeapAlloc and HeapFree, wild pointers and sizes that
\* wrap around included.
THEOREM TypeCorrect == Spec => []TypeOK
<1>1. IInv /\ [Next]_vars => IInv'
  BY NextInv
<1>2. IInv => TypeOK
  BY LaidAt DEF IInv, TypeOK, Blocks
<1> QED BY InitInv, <1>1, <1>2, PTL DEF Spec

\* The blocks of stub_heap.h tile the region: splitting and joining
\* lose no byte and let no two blocks overlap.
THEOREM TiledHolds == Spec => []Tiled
<1>1. IInv /\ [Next]_vars => IInv'
  BY NextInv
<1>2. IInv => Tiled
  <2> SUFFICES ASSUME IInv PROVE Tiled
    OBVIOUS
  <2>1. Last(blocks) = blocks[Len(blocks)] /\ blocks # <<>>
    BY DEF Last, IInv, Laid
  <2> QED BY <2>1 DEF IInv, Laid, Tiled
<1> QED BY InitInv, <1>1, <1>2, PTL DEF Spec

\* Two free blocks are never neighbours: joining a freed block with the one
\* after it and the one before it is enough.
THEOREM CoalescedHolds == Spec => []Coalesced
<1>1. IInv /\ [Next]_vars => IInv'
  BY NextInv
<1>2. IInv => Coalesced
  BY DEF IInv, Apart, Coalesced
<1> QED BY InitInv, <1>1, <1>2, PTL DEF Spec

-----------------------------------------------------------------------------
(* StubHeap implements Allocator *)

\* Sums and differences of multiples of the granule are multiples of it.
LEMMA Multiples ==
  ASSUME NEW a \in Nat, NEW b \in Nat, a % Granule = 0, b % Granule = 0
  PROVE  /\ (a + b) % Granule = 0
         /\ b <= a => (a - b) % Granule = 0
<1> DEFINE p == a \div Granule
           q == b \div Granule
<1>1. Granule \in Nat \ {0}
  BY StubHeapAssumption
<1>2. a = Granule * p /\ b = Granule * q /\ p \in Nat /\ q \in Nat
  BY <1>1
<1> HIDE DEF p, q
<1>3. (Granule * (p + q)) % Granule = 0
  BY <1>1, <1>2
<1>4. ASSUME b <= a
      PROVE  (a - b) % Granule = 0
  <2>1. q <= p
    BY <1>1, <1>2, <1>4
  <2> DEFINE d == p - q
  <2>2. d \in Nat /\ a - b = Granule * d
    BY <1>1, <1>2, <2>1
  <2> HIDE DEF d
  <2>3. (Granule * d) % Granule = 0
    BY <1>1, <2>2
  <2> QED BY <2>2, <2>3
<1> QED BY <1>1, <1>2, <1>3, <1>4

\* The blocks of a list that are in use, as Allocator sees them, and the sizes
\* and addresses alloc hands out.
InUse(bs) ==
  {[addr |-> bs[k].addr, size |-> bs[k].size] : k \in {m \in 1 .. Len(bs) : ~bs[m].free}}
Grained(bs) ==
  \A k \in 1 .. Len(bs) : bs[k].addr % Granule = 0 /\ bs[k].size % Granule = 0

AInv == IInv /\ Grained(blocks)

\* Blocks come in the order of their addresses.
LEMMA InOrder ==
  ASSUME NEW bs, Laid(bs), NEW i \in 1 .. Len(bs), NEW k \in 1 .. Len(bs), i < k
  PROVE  bs[i].addr + bs[i].size <= bs[k].addr
<1> DEFINE Bad == {m \in i + 1 .. Len(bs) : ~(bs[i].addr + bs[i].size <= bs[m].addr)}
<1>1. Len(bs) \in Nat /\ i \in Nat /\ k \in Nat
  BY LaidAt
<1>2. SUFFICES ASSUME Bad # {} PROVE FALSE
  BY <1>1
<1>3. PICK m \in Bad : \A j \in Bad : m <= j
  <2>1. Bad \subseteq Nat
    BY <1>1
  <2> HIDE DEF Bad
  <2> QED BY <1>2, <2>1, G!LeastNat
<1>4. m \in 1 .. Len(bs) /\ m - 1 \in 1 .. Len(bs) - 1 /\ (m - 1) + 1 = m
  BY <1>1
<1>5. bs[m].addr = bs[m - 1].addr + bs[m - 1].size
  BY <1>4 DEF Laid
<1>6. CASE m = i + 1
  BY <1>1, <1>3, <1>5, <1>6, LaidAt
<1>7. CASE m # i + 1
  <2>1. m - 1 \in i + 1 .. Len(bs) /\ ~(m <= m - 1)
    BY <1>1, <1>4, <1>7
  <2>2. bs[i].addr + bs[i].size <= bs[m - 1].addr
    BY <1>3, <2>1
  <2>3. /\ bs[m - 1].addr \in Int /\ bs[m - 1].size \in Int /\ 1 <= bs[m - 1].size
        /\ bs[i].addr \in Int /\ bs[i].size \in Int
    BY <1>4, LaidAt
  <2> QED BY <1>3, <1>5, <2>2, <2>3
<1> QED BY <1>6, <1>7

\* Every byte of the region is in a block.
LEMMA Covered ==
  ASSUME NEW bs, Laid(bs), NEW x \in Base .. Base + Size - 1
  PROVE  \E k \in 1 .. Len(bs) : bs[k].addr <= x /\ x < bs[k].addr + bs[k].size
<1> DEFINE Ends == {m \in 1 .. Len(bs) : x < bs[m].addr + bs[m].size}
<1>1. Len(bs) \in Nat \ {0} /\ x \in Int /\ Base \in Nat /\ Size \in Nat
  BY LaidAt
<1>2. Ends \subseteq Nat /\ Len(bs) \in Ends
  BY <1>1 DEF Laid
<1>3. PICK m \in Ends : \A j \in Ends : m <= j
  <2> HIDE DEF Ends
  <2> QED BY <1>2, G!LeastNat
<1>4. bs[m].addr <= x
  <2>1. CASE m = 1
    BY <1>1, <2>1 DEF Laid
  <2>2. CASE m # 1
    <3>1. m - 1 \in 1 .. Len(bs) /\ m - 1 \in 1 .. Len(bs) - 1 /\ (m - 1) + 1 = m
          /\ ~(m <= m - 1)
      BY <1>1, <2>2
    <3>2. ~(x < bs[m - 1].addr + bs[m - 1].size)
      BY <1>3, <3>1
    <3>3. bs[m].addr = bs[m - 1].addr + bs[m - 1].size
      BY <3>1 DEF Laid
    <3>4. bs[m - 1].addr \in Int /\ bs[m - 1].size \in Int
      BY <3>1, LaidAt
    <3> QED BY <1>1, <3>2, <3>3, <3>4
  <2> QED BY <2>1, <2>2
<1> QED BY <1>3, <1>4

\* Nobody uses a block without an address and a size.
LEMMA InUseAt ==
  ASSUME NEW bs, NEW x
  PROVE  x \in InUse(bs) <=> \E k \in 1 .. Len(bs) :
           ~bs[k].free /\ x = [addr |-> bs[k].addr, size |-> bs[k].size]
BY DEF InUse

\* alloc, of n bytes of the free block i, uses these and no others.
LEMMA TakeUses ==
  ASSUME Laid(blocks), Grained(blocks), NEW i \in 1 .. Len(blocks), blocks[i].free,
         NEW n \in Int, 1 <= n, n <= blocks[i].size, n % Granule = 0
  PROVE  /\ InUse(Take(i, n)) = InUse(blocks) \cup {[addr |-> blocks[i].addr, size |-> n]}
         /\ Grained(Take(i, n))
<1> DEFINE r == Take(i, n)
           new == [addr |-> blocks[i].addr, size |-> n]
<1>0. Len(blocks) \in Nat /\ blocks[i].size \in Nat /\ blocks[i].addr \in Nat /\ i \in Int
      /\ n \in Nat
  BY LaidAt
<1>1. CASE blocks[i].size = n
  <2> DEFINE t == [blocks EXCEPT ![i].free = FALSE]
  <2>1. r = t
    BY <1>1 DEF Take
  <2>a. /\ Laid(t) /\ Len(t) = Len(blocks)
        /\ \A k \in 1 .. Len(blocks) : t[k].free = IF k = i THEN FALSE ELSE blocks[k].free
    BY MarkLaid
  <2>b. \A k \in 1 .. Len(blocks) : t[k].addr = blocks[k].addr /\ t[k].size = blocks[k].size
    BY MarkSame
  <2> HIDE DEF r, t
  <2>2. /\ Laid(r) /\ Len(r) = Len(blocks)
        /\ \A k \in 1 .. Len(blocks) : r[k].free = IF k = i THEN FALSE ELSE blocks[k].free
    BY <2>1, <2>a
  <2>3. \A k \in 1 .. Len(blocks) : r[k].addr = blocks[k].addr /\ r[k].size = blocks[k].size
    BY <2>1, <2>b
  <2>4. \A k \in 1 .. Len(blocks) : ~r[k].free <=> k = i \/ ~blocks[k].free
    BY <2>2, Zenon
  <2>5. ASSUME NEW x
        PROVE  x \in InUse(r) <=> x \in InUse(blocks) \/ x = new
    BY <1>1, <2>2, <2>3, <2>4, InUseAt
  <2>6. Grained(r)
    BY <2>2, <2>3 DEF Grained
  <2> HIDE DEF new
  <2>7. InUse(r) = InUse(blocks) \cup {new}
    BY <2>5
  <2> QED BY <2>6, <2>7 DEF r, new
<1>2. CASE blocks[i].size # n
  <2>1. n < blocks[i].size
    BY <1>0, <1>2
  <2> DEFINE t == InsertAt([blocks EXCEPT ![i] = Block(blocks[i].addr, n, FALSE)], i + 1,
                           Block(blocks[i].addr + n, blocks[i].size - n, TRUE))
  <2>2. r = t
    BY <1>2 DEF Take
  <2>a. Laid(t) /\ Len(t) = Len(blocks) + 1 /\ SplitOf(t, blocks, i, n)
    BY <2>1, SplitLaid
  <2> HIDE DEF r, t
  <2>3. Laid(r) /\ Len(r) = Len(blocks) + 1 /\ SplitOf(r, blocks, i, n)
    BY <2>2, <2>a
  <2>4. /\ r[i].addr = blocks[i].addr /\ r[i].size = n /\ r[i].free = FALSE
        /\ r[i + 1].addr = blocks[i].addr + n /\ r[i + 1].size = blocks[i].size - n
        /\ r[i + 1].free = TRUE
    BY <2>3 DEF SplitOf, Block
  <2>5. \A k \in 1 .. i - 1 : k \in 1 .. Len(blocks) /\ k \in 1 .. Len(r) /\ r[k] = blocks[k]
    BY <1>0, <2>3 DEF SplitOf
  <2>6. \A k \in i + 1 .. Len(blocks) : k + 1 \in 1 .. Len(r) /\ r[k + 1] = blocks[k]
    <3> SUFFICES ASSUME NEW k \in i + 1 .. Len(blocks)
                 PROVE  k + 1 \in 1 .. Len(r) /\ r[k + 1] = blocks[k]
      OBVIOUS
    <3>1. k + 1 \in i + 2 .. Len(blocks) + 1 /\ (k + 1) - 1 = k
      BY <1>0
    <3> QED BY <1>0, <2>3, <3>1 DEF SplitOf
  <2>7. \A k \in 1 .. Len(r) : \/ k \in 1 .. i - 1 \/ k = i \/ k = i + 1
                               \/ k - 1 \in i + 1 .. Len(blocks) /\ (k - 1) + 1 = k
    BY <1>0, <2>3
  <2>8. \A k \in 1 .. Len(blocks) : k \in 1 .. i - 1 \/ k = i \/ k \in i + 1 .. Len(blocks)
    BY <1>0
  <2>9. ASSUME NEW x \in InUse(r)
        PROVE  x \in InUse(blocks) \/ x = new
    <3>1. PICK k \in 1 .. Len(r) : ~r[k].free /\ x = [addr |-> r[k].addr, size |-> r[k].size]
      BY <2>9, InUseAt
    <3>2. CASE k \in 1 .. i - 1
      BY <2>5, <3>1, <3>2, InUseAt
    <3>3. CASE k = i
      BY <2>4, <3>1, <3>3
    <3>4. CASE k - 1 \in i + 1 .. Len(blocks) /\ (k - 1) + 1 = k
      <4>1. r[k] = blocks[k - 1] /\ k - 1 \in 1 .. Len(blocks)
        BY <1>0, <2>6, <3>4
      <4> QED BY <3>1, <4>1, InUseAt
    <3> QED BY <2>4, <2>7, <3>1, <3>2, <3>3, <3>4
  <2>10. ASSUME NEW x \in InUse(blocks)
         PROVE  x \in InUse(r)
    <3>1. PICK k \in 1 .. Len(blocks) :
            ~blocks[k].free /\ x = [addr |-> blocks[k].addr, size |-> blocks[k].size]
      BY <2>10, InUseAt
    <3>2. CASE k \in 1 .. i - 1
      BY <2>5, <3>1, <3>2, InUseAt
    <3>3. CASE k \in i + 1 .. Len(blocks)
      BY <2>6, <3>1, <3>3, InUseAt
    <3> QED BY <2>8, <3>1, <3>2, <3>3
  <2>11. new \in InUse(r)
    <3>1. i \in 1 .. Len(r)
      BY <1>0, <2>3
    <3> QED BY <2>4, <3>1, InUseAt
  <2>12. Grained(r)
    <3>1. /\ blocks[i].addr % Granule = 0 /\ blocks[i].size % Granule = 0
          /\ (blocks[i].addr + n) % Granule = 0 /\ (blocks[i].size - n) % Granule = 0
      BY <1>0, Multiples DEF Grained
    <3>2. ASSUME NEW k \in 1 .. Len(r)
          PROVE  r[k].addr % Granule = 0 /\ r[k].size % Granule = 0
      <4>1. CASE k \in 1 .. i - 1
        BY <2>5, <4>1 DEF Grained
      <4>2. CASE k = i \/ k = i + 1
        BY <2>4, <3>1, <4>2
      <4>3. CASE k - 1 \in i + 1 .. Len(blocks) /\ (k - 1) + 1 = k
        <5>1. r[k] = blocks[k - 1] /\ k - 1 \in 1 .. Len(blocks)
          BY <1>0, <2>6, <4>3
        <5> QED BY <5>1 DEF Grained
      <4> QED BY <2>7, <4>1, <4>2, <4>3
    <3> QED BY <3>2 DEF Grained
  <2>13. InUse(r) = InUse(blocks) \cup {new}
    <3> HIDE DEF new
    <3> QED BY <2>9, <2>10, <2>11
  <2> QED BY <2>12, <2>13 DEF r
<1> QED BY <1>1, <1>2

\* Joining free blocks changes nothing for those in use.
LEMMA MergeUses ==
  ASSUME NEW bs, Laid(bs), Grained(bs), NEW i \in 1 .. Len(bs) - 1
  PROVE  InUse(Merge(bs, i)) = InUse(bs) /\ Grained(Merge(bs, i))
<1> DEFINE r == Merge(bs, i)
<1>0. Len(bs) \in Nat /\ i \in Int /\ i \in 1 .. Len(bs) /\ i + 1 \in 1 .. Len(bs)
  BY LaidAt
<1>1. CASE bs[i].free /\ bs[i + 1].free
  <2>1. Laid(r) /\ Len(r) = Len(bs) - 1 /\ JoinOf(r, bs, i)
    BY <1>1, JoinLaid
  <2> HIDE DEF r
  <2>2. r[i].free = TRUE /\ r[i].addr = bs[i].addr /\ r[i].size = bs[i].size + bs[i + 1].size
    BY <2>1 DEF JoinOf, Block
  <2>3. \A k \in 1 .. i - 1 : k \in 1 .. Len(bs) /\ k \in 1 .. Len(r) /\ r[k] = bs[k]
    BY <1>0, <2>1 DEF JoinOf
  <2>4. \A k \in i + 1 .. Len(r) : k + 1 \in 1 .. Len(bs) /\ r[k] = bs[k + 1]
    BY <1>0, <2>1 DEF JoinOf
  <2>5. \A k \in 1 .. Len(r) : k \in 1 .. i - 1 \/ k = i \/ k \in i + 1 .. Len(r)
    BY <1>0, <2>1
  <2>6. \A k \in 1 .. Len(bs) : \/ k \in 1 .. i - 1 \/ k = i \/ k = i + 1
                                \/ k - 1 \in i + 1 .. Len(r) /\ (k - 1) + 1 = k
    BY <1>0, <2>1
  <2>7. ASSUME NEW x \in InUse(r)
        PROVE  x \in InUse(bs)
    <3>1. PICK k \in 1 .. Len(r) : ~r[k].free /\ x = [addr |-> r[k].addr, size |-> r[k].size]
      BY <2>7, InUseAt
    <3>2. CASE k \in 1 .. i - 1
      BY <2>3, <3>1, <3>2, InUseAt
    <3>3. CASE k \in i + 1 .. Len(r)
      BY <2>4, <3>1, <3>3, InUseAt
    <3> QED BY <2>2, <2>5, <3>1, <3>2, <3>3
  <2>8. ASSUME NEW x \in InUse(bs)
        PROVE  x \in InUse(r)
    <3>1. PICK k \in 1 .. Len(bs) :
            ~bs[k].free /\ x = [addr |-> bs[k].addr, size |-> bs[k].size]
      BY <2>8, InUseAt
    <3>2. CASE k \in 1 .. i - 1
      BY <2>3, <3>1, <3>2, InUseAt
    <3>3. CASE k - 1 \in i + 1 .. Len(r) /\ (k - 1) + 1 = k
      <4>1. r[k - 1] = bs[k] /\ k - 1 \in 1 .. Len(r)
        BY <1>0, <2>4, <3>3
      <4> QED BY <3>1, <4>1, InUseAt
    <3> QED BY <1>1, <2>6, <3>1, <3>2, <3>3
  <2>9. ASSUME NEW k \in 1 .. Len(r)
        PROVE  r[k].addr % Granule = 0 /\ r[k].size % Granule = 0
    <3>1. CASE k \in 1 .. i - 1
      BY <2>3, <3>1 DEF Grained
    <3>2. CASE k = i
      <4>1. /\ bs[i].addr % Granule = 0 /\ bs[i].size % Granule = 0
            /\ bs[i + 1].size % Granule = 0 /\ bs[i].size \in Nat /\ bs[i + 1].size \in Nat
        BY <1>0, LaidAt DEF Grained
      <4>2. (bs[i].size + bs[i + 1].size) % Granule = 0
        BY <4>1, Multiples
      <4> QED BY <2>2, <3>2, <4>1, <4>2
    <3>3. CASE k \in i + 1 .. Len(r)
      BY <2>4, <3>3 DEF Grained
    <3> QED BY <2>5, <3>1, <3>2, <3>3
  <2>10. InUse(r) = InUse(bs)
    BY <2>7, <2>8
  <2> QED BY <2>9, <2>10 DEF r, Grained
<1>2. CASE ~(bs[i].free /\ bs[i + 1].free)
  BY <1>2 DEF Merge
<1> QED BY <1>1, <1>2

\* free, of block i, which is in use, gives back that block alone.
LEMMA GivenUses ==
  ASSUME Laid(blocks), Apart(blocks, {}), Grained(blocks), NEW i \in 1 .. Len(blocks),
         ~blocks[i].free
  PROVE  /\ InUse(Given(i)) = {b \in InUse(blocks) : b.addr # blocks[i].addr}
         /\ Grained(Given(i))
<1> DEFINE bs == [blocks EXCEPT ![i].free = TRUE]
           prev == i > 1 /\ bs[i - 1].free
           j == IF prev THEN i - 1 ELSE i
           cs == IF prev THEN Merge(bs, j) ELSE bs
<1>1. Len(blocks) \in Nat /\ i \in Int
  BY LaidAt
<1>2. /\ Laid(bs) /\ Len(bs) = Len(blocks)
      /\ \A k \in 1 .. Len(blocks) : bs[k].free = IF k = i THEN TRUE ELSE blocks[k].free
  BY MarkLaid
<1>3. \A k \in 1 .. Len(blocks) : bs[k].addr = blocks[k].addr /\ bs[k].size = blocks[k].size
  BY MarkSame
<1>4. Given(i) = IF j < Len(cs) THEN Merge(cs, j) ELSE cs
  BY DEF Given
<1> HIDE DEF bs
<1>5. \A k \in 1 .. Len(blocks) : ~bs[k].free <=> k # i /\ ~blocks[k].free
  BY <1>2, Zenon
<1>6. \A k \in 1 .. Len(blocks) : k # i => blocks[k].addr # blocks[i].addr
  <2> SUFFICES ASSUME NEW k \in 1 .. Len(blocks), k # i
               PROVE  blocks[k].addr # blocks[i].addr
    OBVIOUS
  <2>1. /\ blocks[k].addr \in Int /\ blocks[k].size \in Int /\ 1 <= blocks[k].size
        /\ blocks[i].addr \in Int /\ blocks[i].size \in Int /\ 1 <= blocks[i].size
    BY LaidAt
  <2>2. CASE k < i
    BY <2>1, <2>2, InOrder
  <2>3. CASE i < k
    BY <2>1, <2>3, InOrder
  <2> QED BY <1>1, <2>2, <2>3
<1>7. InUse(bs) = {b \in InUse(blocks) : b.addr # blocks[i].addr}
  <2> DEFINE kept == {b \in InUse(blocks) : b.addr # blocks[i].addr}
  <2>1. ASSUME NEW x \in InUse(bs)
        PROVE  x \in kept
    <3>1. PICK k \in 1 .. Len(bs) :
            ~bs[k].free /\ x = [addr |-> bs[k].addr, size |-> bs[k].size]
      BY <2>1, InUseAt
    <3>2. k \in 1 .. Len(blocks) /\ k # i /\ ~blocks[k].free
      BY <1>2, <1>5, <3>1
    <3>3. x = [addr |-> blocks[k].addr, size |-> blocks[k].size] /\ x.addr = blocks[k].addr
      BY <1>3, <3>1, <3>2
    <3>4. x \in InUse(blocks)
      BY <3>2, <3>3, InUseAt
    <3> QED BY <1>6, <3>2, <3>3, <3>4
  <2>2. ASSUME NEW x \in kept
        PROVE  x \in InUse(bs)
    <3>1. PICK k \in 1 .. Len(blocks) :
            ~blocks[k].free /\ x = [addr |-> blocks[k].addr, size |-> blocks[k].size]
      BY <2>2, InUseAt
    <3>2. k # i
      BY <2>2, <3>1
    <3>3. k \in 1 .. Len(bs) /\ ~bs[k].free /\ x = [addr |-> bs[k].addr, size |-> bs[k].size]
      BY <1>2, <1>3, <1>5, <3>1, <3>2
    <3> QED BY <3>3, InUseAt
  <2> HIDE DEF kept
  <2>3. InUse(bs) = kept
    BY <2>1, <2>2
  <2> QED BY <2>3 DEF kept
<1>8. Grained(bs)
  BY <1>2, <1>3 DEF Grained
<1>9. /\ Laid(cs) /\ InUse(cs) = InUse(bs) /\ Grained(cs)
      /\ j \in Int /\ 1 <= j
  <2>1. CASE prev
    <3>1. j = i - 1 /\ cs = Merge(bs, j) /\ j \in 1 .. Len(bs) - 1 /\ j + 1 = i
      BY <1>1, <1>2, <2>1
    <3> HIDE DEF j, cs
    <3>2. bs[j].free /\ bs[j + 1].free
      BY <1>2, <2>1, <3>1
    <3>3. Laid(Merge(bs, j))
      BY <1>2, <3>1, <3>2, JoinLaid
    <3>4. InUse(Merge(bs, j)) = InUse(bs) /\ Grained(Merge(bs, j))
      BY <1>2, <1>8, <3>1, MergeUses
    <3> QED BY <1>1, <3>1, <3>3, <3>4
  <2>2. CASE ~prev
    BY <1>1, <1>2, <1>8, <2>2
  <2> QED BY <2>1, <2>2
<1> HIDE DEF j, cs
<1>10. CASE j < Len(cs)
  <2>1. j \in 1 .. Len(cs) - 1
    BY <1>9, <1>10, LaidAt
  <2>2. InUse(Merge(cs, j)) = InUse(cs) /\ Grained(Merge(cs, j))
    BY <1>9, <2>1, MergeUses
  <2> QED BY <1>4, <1>7, <1>9, <1>10, <2>2
<1>11. CASE ~(j < Len(cs))
  BY <1>4, <1>7, <1>9, <1>11
<1> QED BY <1>10, <1>11

\* The size alloc looks for is the size rounded up, unless that wraps around;
\* then it is none, and no block of the region would do.
LEMMA AlignedIs ==
  ASSUME NEW sz \in 0 .. Modulus - 1
  PROVE  /\ Aligned(sz) \in Nat /\ Aligned(sz) % Granule = 0
         /\ Abstract!RoundUp(sz) \in Nat
         /\ Aligned(sz) # 0 => sz > 0 /\ Aligned(sz) = Abstract!RoundUp(sz)
         /\ Aligned(sz) = 0 => sz = 0 \/ Abstract!RoundUp(sz) > Size
<1> DEFINE S == sz + Granule - 1
           s == S % Modulus
<1>1. /\ Granule \in Nat \ {0} /\ Modulus \in Nat \ {0} /\ Size \in Nat /\ Base \in Nat \ {0}
      /\ Base + Size < Modulus
  BY StubHeapAssumption
<1>2. S \in Nat /\ s \in Nat
  BY <1>1
<1>3. Granule <= Base
  <2>1. Base % Granule = 0
    BY StubHeapAssumption
  <2>2. ASSUME Base < Granule PROVE FALSE
    <3>1. Base % Granule = Base
      BY <1>1, <2>2
    <3> QED BY <1>1, <2>1, <3>1
  <2> QED BY <1>1, <2>2
<1>4. ASSUME NEW x \in Nat
      PROVE  /\ x - (x % Granule) = Granule * (x \div Granule)
             /\ x % Granule \in 0 .. Granule - 1
             /\ x \div Granule \in Nat
  BY <1>1
<1>5. Aligned(sz) = Granule * (s \div Granule) /\ Aligned(sz) = s - (s % Granule)
  BY <1>2, <1>4 DEF Aligned
<1>6. Abstract!RoundUp(sz) = Granule * (S \div Granule)
      /\ Abstract!RoundUp(sz) = S - (S % Granule)
  <2> DEFINE q == S \div Granule
  <2>1. q \in Nat
    BY <1>2, <1>4
  <2>2. Abstract!RoundUp(sz) = q * Granule
    BY DEF Abstract!RoundUp
  <2>3. S - (S % Granule) = Granule * q
    BY <1>2, <1>4
  <2> HIDE DEF q, S
  <2>4. q * Granule = Granule * q
    BY <1>1, <2>1
  <2> QED BY <2>2, <2>3, <2>4 DEF q
<1>7. Aligned(sz) \in Nat /\ Aligned(sz) % Granule = 0
  <2> DEFINE q == s \div Granule
  <2>1. q \in Nat
    BY <1>2, <1>4
  <2> HIDE DEF q
  <2>2. Granule * q \in Nat /\ (Granule * q) % Granule = 0
    BY <1>1, <2>1
  <2> QED BY <1>5, <2>2 DEF q
<1>8. Abstract!RoundUp(sz) \in Nat /\ sz <= Abstract!RoundUp(sz)
  <2>1. S % Granule \in 0 .. Granule - 1
    BY <1>2, <1>4
  <2> QED BY <1>1, <1>6, <2>1
<1>9. CASE S < Modulus
  <2>1. s = S
    BY <1>1, <1>2, <1>9
  <2>2. Aligned(sz) = Abstract!RoundUp(sz)
    BY <1>5, <1>6, <2>1
  <2>3. ASSUME sz = 0 PROVE Aligned(sz) = 0
    <3>1. S = Granule - 1
      BY <1>1, <2>3
    <3>2. S % Granule = S
      BY <1>1, <3>1
    <3> QED BY <1>2, <1>6, <2>2, <3>2
  <2> QED BY <1>1, <1>7, <1>8, <2>2, <2>3
<1>10. CASE S >= Modulus
  <2>1. sz > Size
    BY <1>1, <1>3, <1>10
  <2>2. Modulus >= Granule
    BY <1>1, <1>3
  <2>3. S - Modulus \in 0 .. Modulus - 1
    BY <1>1, <1>10, <2>2
  <2>4. s = S - Modulus
    BY <1>1, <1>2, <2>3
  <2>5. s \in 0 .. Granule - 1
    BY <1>1, <2>3, <2>4
  <2>6. s % Granule = s
    BY <1>1, <2>5
  <2> QED BY <1>1, <1>2, <1>5, <1>7, <1>8, <2>1, <2>6
<1> QED BY <1>1, <1>2, <1>9, <1>10

LEMMA LiveOf ==
  ASSUME NEW bs
  PROVE  InUse(bs) = {[addr |-> b.addr, size |-> b.size] :
                        b \in {bs[i] : i \in {k \in 1 .. Len(bs) : ~bs[k].free}}}
<1> DEFINE used == {bs[i] : i \in {k \in 1 .. Len(bs) : ~bs[k].free}}
           live == {[addr |-> b.addr, size |-> b.size] : b \in used}
<1>1. ASSUME NEW x \in live
      PROVE  x \in InUse(bs)
  BY <1>1 DEF InUse
<1>2. ASSUME NEW x \in InUse(bs)
      PROVE  x \in live
  <2>1. PICK k \in 1 .. Len(bs) : ~bs[k].free /\ x = [addr |-> bs[k].addr, size |-> bs[k].size]
    BY <1>2, InUseAt
  <2>2. bs[k] \in used
    BY <2>1
  <2> QED BY <2>1, <2>2
<1> QED BY <1>1, <1>2

LEMMA LiveIs == Live = InUse(blocks) /\ Live' = InUse(blocks')
<1>1. Live = InUse(blocks)
  BY LiveOf DEF Live, Used
<1>2. Live' = InUse(blocks')
  BY LiveOf DEF Live, Used
<1> QED BY <1>1, <1>2

LEMMA AInitInv == Init => AInv
<1> SUFFICES ASSUME Init PROVE Grained(blocks)
  BY InitInv DEF AInv
<1>1. blocks = <<Block(Base, Size, TRUE)>>
  BY DEF Init
<1>2. \A k \in 1 .. Len(blocks) : blocks[k].addr = Base /\ blocks[k].size = Size
  BY <1>1 DEF Block
<1> QED BY <1>2, StubHeapAssumption DEF Grained

\* What Alloc hands out, ...
LEMMA AllocStep ==
  ASSUME AInv, NEW sz \in Requests, Alloc(sz), Base .. Base + Size - 1 \subseteq Pointers
  PROVE  Grained(blocks') /\ Abstract!Alloc(sz)
<1> DEFINE n == Aligned(sz)
<1>0. Laid(blocks) /\ Apart(blocks, {}) /\ Grained(blocks) /\ sz \in 0 .. Modulus - 1
  BY StubHeapAssumption DEF AInv, IInv
<1>1. PICK i \in 1 .. Len(blocks) :
        /\ n > 0 /\ Fits(blocks[i], n)
        /\ blocks' = Take(i, n) /\ reply' = blocks[i].addr
  BY DEF Alloc
<1>2. n \in Nat /\ n % Granule = 0 /\ sz > 0 /\ n = Abstract!RoundUp(sz)
  BY <1>0, <1>1, AlignedIs
<1> HIDE DEF n
<1>3. /\ blocks[i].free /\ blocks[i].size \in Int /\ blocks[i].addr \in Int /\ i \in Int
      /\ n <= blocks[i].size /\ Len(blocks) \in Nat /\ Base \in Nat /\ Size \in Nat
      /\ Base <= blocks[i].addr
  BY <1>0, <1>1, <1>2, LaidAt DEF Fits
<1>4. /\ InUse(Take(i, n)) = InUse(blocks) \cup {[addr |-> blocks[i].addr, size |-> n]}
      /\ Grained(Take(i, n))
  BY <1>0, <1>1, <1>2, <1>3, TakeUses
<1>5. blocks[i].addr + blocks[i].size <= Base + Size
  BY <1>0 DEF Laid
<1>6. Abstract!Gap(blocks[i].addr, n)
  <2>1. blocks[i].addr % Granule = Base % Granule
    BY <1>0, StubHeapAssumption DEF Grained
  <2>2. ASSUME NEW b \in Live
        PROVE  blocks[i].addr + n <= b.addr \/ b.addr + b.size <= blocks[i].addr
    <3>1. PICK k \in 1 .. Len(blocks) :
            ~blocks[k].free /\ b = [addr |-> blocks[k].addr, size |-> blocks[k].size]
      BY <2>2, InUseAt, LiveIs
    <3>2. k # i /\ k \in Int /\ blocks[k].addr \in Int /\ blocks[k].size \in Int
      BY <1>0, <1>3, <3>1, LaidAt
    <3>3. CASE i < k
      <4>1. blocks[i].addr + blocks[i].size <= blocks[k].addr
        BY <1>0, <3>3, InOrder
      <4> QED BY <1>2, <1>3, <3>1, <3>2, <4>1
    <3>4. CASE k < i
      <4>1. blocks[k].addr + blocks[k].size <= blocks[i].addr
        BY <1>0, <3>4, InOrder
      <4> QED BY <3>1, <4>1
    <3> QED BY <1>3, <3>2, <3>3, <3>4
  <2> QED BY <1>2, <1>3, <1>5, <2>1, <2>2 DEF Abstract!Gap
<1>7. blocks[i].addr \in Pointers
  BY <1>1, <1>2, <1>3, <1>5
<1>8. Live' = Live \cup {[addr |-> blocks[i].addr, size |-> n]}
  <2>1. Live' = InUse(blocks')
    BY LiveIs
  <2> QED BY <1>1, <1>4, <2>1, LiveIs
<1> QED BY <1>1, <1>2, <1>4, <1>6, <1>7, <1>8 DEF Abstract!Alloc

\* ... when it may fail, ...
LEMMA AllocFailsStep ==
  ASSUME AInv, NEW sz \in Requests, AllocFails(sz)
  PROVE  Grained(blocks') /\ Abstract!AllocFails(sz)
<1> DEFINE n == Aligned(sz)
<1>0. Laid(blocks) /\ Apart(blocks, {}) /\ Grained(blocks) /\ sz \in 0 .. Modulus - 1
  BY StubHeapAssumption DEF AInv, IInv
<1>1. reply' = 0 /\ blocks' = blocks /\ (n = 0 \/ \A i \in 1 .. Len(blocks) : ~Fits(blocks[i], n))
  BY DEF AllocFails
<1>2. Live' = Live
  BY <1>1, LiveIs DEF Live, Used
<1>3. ASSUME sz # 0, NEW p \in Pointers, Abstract!Gap(p, Abstract!RoundUp(sz))
      PROVE  FALSE
  <2> DEFINE up == Abstract!RoundUp(sz)
  <2>0. up \in Nat
    BY <1>0, AlignedIs
  <2> HIDE DEF up
  <2>1. /\ Base <= p /\ p + up <= Base + Size
        /\ \A b \in Live : p + up <= b.addr \/ b.addr + b.size <= p
    BY <1>3 DEF Abstract!Gap, up
  <2>2. p \in Nat /\ Base \in Nat /\ Size \in Nat
    BY StubHeapAssumption
  <2>3. n = up /\ n \in Nat /\ n > 0 /\ \A i \in 1 .. Len(blocks) : ~Fits(blocks[i], n)
    <3>1. n # 0
      <4>1. ~(up > Size)
        BY <2>0, <2>1, <2>2
      <4> QED BY <1>0, <1>3, <4>1, AlignedIs DEF up
    <3>2. n \in Nat /\ n = up
      BY <1>0, <3>1, AlignedIs DEF up
    <3> QED BY <1>1, <3>1, <3>2
  <2> HIDE DEF n
  <2>4. PICK k \in 1 .. Len(blocks) :
          blocks[k].addr <= p /\ p < blocks[k].addr + blocks[k].size
    <3>1. p \in Base .. Base + Size - 1
      BY <2>1, <2>2, <2>3
    <3> QED BY <1>0, <3>1, Covered
  <2>5. ASSUME NEW j \in 1 .. Len(blocks), ~blocks[j].free
        PROVE  p + n <= blocks[j].addr \/ blocks[j].addr + blocks[j].size <= p
    <3> DEFINE b == [addr |-> blocks[j].addr, size |-> blocks[j].size]
    <3>1. b \in Live
      BY <2>5, InUseAt, LiveIs
    <3>2. p + n <= b.addr \/ b.addr + b.size <= p
      BY <2>1, <2>3, <3>1
    <3> QED BY <3>2
  <2>6. /\ blocks[k].addr \in Int /\ blocks[k].size \in Int /\ k \in Int
        /\ Len(blocks) \in Nat
    BY <1>0, LaidAt
  <2>7. blocks[k].free
    BY <2>2, <2>3, <2>4, <2>5, <2>6
  <2>8. p + n > blocks[k].addr + blocks[k].size
    <3>1. ~(blocks[k].size >= n)
      BY <2>3, <2>7 DEF Fits
    <3> QED BY <2>2, <2>3, <2>4, <2>6, <3>1
  <2>9. k # Len(blocks)
    <3>1. blocks[Len(blocks)].addr + blocks[Len(blocks)].size = Base + Size
      BY <1>0 DEF Laid
    <3> QED BY <2>1, <2>2, <2>3, <2>8, <3>1
  <2>10. k \in 1 .. Len(blocks) - 1 /\ k + 1 \in 1 .. Len(blocks)
    BY <2>6, <2>9
  <2>11. /\ blocks[k + 1].addr = blocks[k].addr + blocks[k].size
         /\ ~blocks[k + 1].free
    BY <1>0, <2>7, <2>10 DEF Laid, Apart
  <2>12. blocks[k + 1].size \in Int /\ 1 <= blocks[k + 1].size
    BY <1>0, <2>10, LaidAt
  <2>13. p + n <= blocks[k + 1].addr \/ blocks[k + 1].addr + blocks[k + 1].size <= p
    BY <2>5, <2>10, <2>11
  <2> QED BY <2>2, <2>3, <2>4, <2>6, <2>8, <2>11, <2>12, <2>13
<1>4. n = 0 \/ sz # 0
  <2>1. sz = 0 => n = 0
    BY <1>0, AlignedIs
  <2> QED BY <2>1
<1> QED BY <1>0, <1>1, <1>2, <1>3 DEF Abstract!AllocFails

\* ... and what free gives back.
LEMMA FreeStep ==
  ASSUME AInv, NEW p \in Pointers, Free(p)
  PROVE  Grained(blocks') /\ Abstract!Free(p)
<1>0. Laid(blocks) /\ Apart(blocks, {}) /\ Grained(blocks)
  BY DEF AInv, IInv
<1>1. PICK i \in 1 .. Len(blocks) :
        /\ p # 0 /\ blocks[i].addr = p /\ ~blocks[i].free
        /\ blocks' = Given(i) /\ reply' = 1
  BY DEF Free
<1>2. /\ InUse(Given(i)) = {b \in InUse(blocks) : b.addr # blocks[i].addr}
      /\ Grained(Given(i))
  BY <1>0, <1>1, GivenUses
<1>3. Live' = InUse(blocks')
  BY LiveIs
<1> DEFINE at == {b \in Live : b.addr = p}
<1>4. Live' = Live \ at
  BY <1>1, <1>2, <1>3, LiveIs
<1>5. at # {}
  <2> DEFINE b == [addr |-> blocks[i].addr, size |-> blocks[i].size]
  <2>1. b \in Live /\ b.addr = p
    BY <1>1, InUseAt, LiveIs
  <2> QED BY <2>1
<1> QED BY <1>1, <1>2, <1>4, <1>5 DEF Abstract!Free

LEMMA FreeIgnoredStep ==
  ASSUME AInv, NEW p \in Pointers, FreeIgnored(p)
  PROVE  Grained(blocks') /\ Abstract!Free(p)
<1>0. Laid(blocks) /\ Grained(blocks) /\ Base \in Nat \ {0}
  BY StubHeapAssumption DEF AInv, IInv
<1>1. /\ p = 0 \/ \A i \in 1 .. Len(blocks) : blocks[i].addr = p => blocks[i].free
      /\ reply' = (IF p = 0 THEN 1 ELSE 0) /\ blocks' = blocks
  BY DEF FreeIgnored
<1>2. Live' = Live
  BY <1>1 DEF Live, Used
<1> DEFINE at == {b \in Live : b.addr = p}
<1>3. ASSUME NEW b \in at
      PROVE  FALSE
  <2>1. PICK k \in 1 .. Len(blocks) :
          ~blocks[k].free /\ b = [addr |-> blocks[k].addr, size |-> blocks[k].size]
    BY <1>3, InUseAt, LiveIs
  <2>2. blocks[k].addr = p /\ blocks[k].addr \in Int /\ Base <= blocks[k].addr
    BY <1>0, <1>3, <2>1, LaidAt
  <2> QED BY <1>0, <1>1, <2>1, <2>2
<1>4. at = {}
  BY <1>3
<1>5. Live' = Live \ at /\ reply' = (IF p = 0 \/ at # {} THEN 1 ELSE 0)
  BY <1>1, <1>2, <1>4
<1> QED BY <1>0, <1>1, <1>5 DEF Abstract!Free

LEMMA AStep ==
  ASSUME AInv, [Next]_vars, Base .. Base + Size - 1 \subseteq Pointers
  PROVE  AInv' /\ [Abstract!Next]_<<Live, reply>>
<1>1. IInv'
  BY NextInv DEF AInv
<1>2. ASSUME NEW sz \in Requests, Alloc(sz)
      PROVE  Grained(blocks') /\ Abstract!Next
  BY <1>2, AllocStep DEF Abstract!Next
<1>3. ASSUME NEW sz \in Requests, AllocFails(sz)
      PROVE  Grained(blocks') /\ Abstract!Next
  BY <1>3, AllocFailsStep DEF Abstract!Next
<1>4. ASSUME NEW p \in Pointers, Free(p)
      PROVE  Grained(blocks') /\ Abstract!Next
  BY <1>4, FreeStep DEF Abstract!Next
<1>5. ASSUME NEW p \in Pointers, FreeIgnored(p)
      PROVE  Grained(blocks') /\ Abstract!Next
  BY <1>5, FreeIgnoredStep DEF Abstract!Next
<1>6. ASSUME UNCHANGED vars
      PROVE  Grained(blocks') /\ UNCHANGED <<Live, reply>>
  BY <1>6 DEF AInv, vars, Live, Used
<1>7. Grained(blocks') /\ [Abstract!Next]_<<Live, reply>>
  BY <1>2, <1>3, <1>4, <1>5, <1>6 DEF Next
<1> QED BY <1>1, <1>7 DEF AInv

\* HeapAlloc and HeapFree keep what Allocator promises, whatever the region,
\* the sizes asked for and the pointers given back: a pointer returned is
\* aligned and its block apart from all that are in use, alloc fails only when
\* no gap is large enough, wrapped sizes included, and free gives back one
\* block, once.  Every address of the region must be one the guest may free.
THEOREM ImplementsAllocator ==
  ASSUME Base .. Base + Size - 1 \subseteq Pointers
  PROVE  Spec => AllocatorSpec
<1>1. Init => Abstract!Init
  <2> SUFFICES ASSUME Init PROVE Live = {} /\ reply = 0
    BY DEF Abstract!Init
  <2>1. \A k \in 1 .. Len(blocks) : blocks[k].free
    BY DEF Init, Block
  <2> QED BY <2>1 DEF Live, Used, Init
<1>2. AInv /\ [Next]_vars => AInv' /\ [Abstract!Next]_<<Live, reply>>
  BY AStep
<1> QED BY AInitInv, <1>1, <1>2, PTL DEF Spec, AllocatorSpec, Abstract!Spec

-----------------------------------------------------------------------------
(* The two heaps *)

\* The heap of MCHeaps is the one the proofs are about.
LEMMA SameHeap ==
  /\ G!GuestHeapAssumption
  /\ G!Init <=> Heap!Init
  /\ G!Next <=> Heap!Next
  /\ G!heapVars = Heap!heapVars
  /\ G!BlocksApart <=> Heap!BlocksApart
  /\ G!NoneLeaked <=> Heap!NoneLeaked
  /\ G!Roomy <=> Heap!Roomy
<1>1. G!Class = Heap!Class /\ G!Addresses = Heap!Addresses
  BY DEF G!Class, Heap!Class, G!Addresses, Heap!Addresses
<1>2. G!BlockSize = Heap!BlockSize
  BY <1>1, Zenon DEF G!BlockSize, Heap!BlockSize
<1>3. \A n : G!ClassFor(n) = Heap!ClassFor(n)
  BY <1>1, <1>2, Zenon DEF G!ClassFor, Heap!ClassFor
<1>4. \A a, n : G!Hold(a, n) = Heap!Hold(a, n) /\ G!Block(a, n) = Heap!Block(a, n)
  BY <1>3, Zenon DEF G!Hold, Heap!Hold, G!Block, Heap!Block
<1>5. G!GuestHeapAssumption
  BY <1>2, HeapAssumption DEF Heap!GuestHeapAssumption, G!GuestHeapAssumption
<1>6. G!Init <=> Heap!Init
  BY <1>1 DEF Heap!Init, G!Init
<1>7. \A n : G!Bumped(n) <=> Heap!Bumped(n)
  BY <1>2, <1>3, <1>4, Zenon DEF Heap!Bumped, G!Bumped
<1>8. ASSUME NEW n
      PROVE  /\ G!AllocReuse(n) <=> Heap!AllocReuse(n)
             /\ G!AllocNew(n) <=> Heap!AllocNew(n)
             /\ G!AllocDrops(n) <=> Heap!AllocDrops(n)
  <2>1. G!ClassFor(n) = Heap!ClassFor(n)
    BY <1>3
  <2>2. /\ G!NextOf(freelist[Heap!ClassFor(n)]) = Heap!NextOf(freelist[Heap!ClassFor(n)])
        /\ G!Hold(freelist[Heap!ClassFor(n)], n) = Heap!Hold(freelist[Heap!ClassFor(n)], n)
    BY <1>4 DEF G!NextOf, Heap!NextOf
  <2>3. G!AllocReuse(n) <=> Heap!AllocReuse(n)
    BY <2>1, <2>2 DEF Heap!AllocReuse, G!AllocReuse
  <2>4. G!AllocNew(n) <=> Heap!AllocNew(n)
    BY <1>7, <2>1 DEF Heap!AllocNew, G!AllocNew
  <2>5. G!AllocDrops(n) <=> Heap!AllocDrops(n)
    BY <1>7, <2>1 DEF Heap!AllocDrops, G!AllocDrops
  <2> QED BY <2>3, <2>4, <2>5
<1>9. ASSUME NEW b, NEW v
      PROVE  /\ G!Free(b) <=> Heap!Free(b)
             /\ G!Store(b, v) <=> Heap!Store(b, v)
             /\ G!Protect(v) <=> Heap!Protect(v)
  <2>1. G!ClassFor(b.bytes) = Heap!ClassFor(b.bytes)
    BY <1>3
  <2>2. G!Linked(b) = Heap!Linked(b)
    BY <2>1 DEF G!Linked, Heap!Linked
  <2>3. G!Free(b) <=> Heap!Free(b)
    BY <2>1, <2>2 DEF Heap!Free, G!Free
  <2>4. G!Store(b, v) <=> Heap!Store(b, v)
    BY DEF Heap!Store, G!Store
  <2>5. G!Protect(v) <=> Heap!Protect(v)
    BY DEF Heap!Protect, G!Protect
  <2> QED BY <2>3, <2>4, <2>5
<1>10. G!Next <=> Heap!Next
  <2>1. (\E n \in HeapRequests : G!AllocReuse(n) \/ G!AllocNew(n) \/ G!AllocDrops(n)) <=>
        (\E n \in HeapRequests : Heap!AllocReuse(n) \/ Heap!AllocNew(n) \/ Heap!AllocDrops(n))
    BY <1>8, Zenon
  <2>2. (\E b \in held : G!Free(b)) <=> (\E b \in held : Heap!Free(b))
    BY <1>9, Zenon
  <2>3. (\E b \in held, v \in Junk : G!Store(b, v)) <=>
        (\E b \in held, v \in Junk : Heap!Store(b, v))
    BY <1>9, Zenon
  <2>4. (\E how \in {"no", "write", "all"} : G!Protect(how)) <=>
        (\E how \in {"no", "write", "all"} : Heap!Protect(how))
    BY <1>9, Zenon
  <2> QED BY <2>1, <2>2, <2>3, <2>4, Zenon DEF G!Next, Heap!Next
<1>11. G!heapVars = Heap!heapVars
  BY DEF Heap!heapVars, G!heapVars
<1>12. \A c : G!Chain(c) = Heap!Chain(c)
  BY <1>1, Zenon DEF Heap!Chain, G!Chain
<1>13. G!Held_ = Heap!Held_ /\ G!Free_ = Heap!Free_ /\ \A b : G!Bytes(b) = Heap!Bytes(b)
  BY <1>1, <1>2, <1>4, <1>12
     DEF G!Held_, Heap!Held_, G!Free_, Heap!Free_, G!Bytes, Heap!Bytes
<1>14. G!BlocksApart <=> Heap!BlocksApart
  <2>1. \A S : G!Cardinality(S) = Heap!Cardinality(S)
    BY Zenon DEF G!Cardinality, Heap!Cardinality, G!IsFiniteSet, Heap!IsFiniteSet
  <2> QED BY <1>13, <2>1 DEF G!BlocksApart, Heap!BlocksApart
<1>15. G!NoneLeaked <=> Heap!NoneLeaked
  BY <1>13, Zenon DEF G!NoneLeaked, Heap!NoneLeaked
<1>16. G!Roomy <=> Heap!Roomy
  BY <1>2, Zenon DEF G!Roomy, Heap!Roomy
<1> QED BY <1>5, <1>6, <1>10, <1>11, <1>14, <1>15, <1>16

\* MCHeaps takes the steps of GuestHeap and, before them, those of StubHeap.
LEMMA HeapSteps == MCSpec => G!Spec
<1>1. MCInit => G!Init
  BY SameHeap DEF MCInit
<1>2. [MCNext]_<<vars, heapVars>> => [G!Next]_G!heapVars
  BY SameHeap DEF MCNext, heapVars, G!heapVars
<1> QED BY <1>1, <1>2, PTL DEF MCSpec, G!Spec

\* Heap hands out no byte twice: see BlocksApartHolds of GuestHeapProofs.
THEOREM HeapBlocksApartHolds == MCSpec => []HeapBlocksApart
<1>1. G!Spec => []G!BlocksApart
  BY SameHeap, G!BlocksApartHolds
<1>2. G!BlocksApart => HeapBlocksApart
  BY SameHeap DEF HeapBlocksApart
<1> QED BY <1>1, <1>2, HeapSteps, PTL

\* Heap leaks no byte: see NoneLeakedHolds of GuestHeapProofs.
THEOREM HeapNoneLeakedHolds == MCSpec => []HeapNoneLeaked
<1>1. G!Spec => []G!NoneLeaked
  BY SameHeap, G!NoneLeakedHolds
<1>2. G!NoneLeaked => HeapNoneLeaked
  BY SameHeap DEF HeapNoneLeaked
<1> QED BY <1>1, <1>2, HeapSteps, PTL

\* A block of Heap has room for what was asked: see RoomyHolds of GuestHeapProofs.
THEOREM HeapRoomyHolds == MCSpec => []HeapRoomy
<1>1. G!Spec => []G!Roomy
  BY SameHeap, G!RoomyHolds
<1>2. G!Roomy => HeapRoomy
  BY SameHeap DEF HeapRoomy
<1> QED BY <1>1, <1>2, HeapSteps, PTL

=============================================================================
