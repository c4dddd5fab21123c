------------------------------ MODULE StubHeap ------------------------------
(***************************************************************************)
(* StubHeap, the first-fit heap behind the HeapAlloc and HeapFree stubs of *)
(* the IAT: a host-side list of blocks that tile the heap region, split by *)
(* alloc and coalesced by free.  Sizes are 64-bit and wrap.                *)
(***************************************************************************)
EXTENDS Integers, SequencesExt

CONSTANTS
  Base, Size,  \* the region given to install
  Granule,     \* 16
  Modulus,     \* 2^64
  Requests,    \* sizes the guest may ask for
  Pointers     \* pointers the guest may free

ASSUME StubHeapAssumption ==
  /\ Granule \in Nat \ {0} /\ Base \in Nat \ {0} /\ Size \in Nat \ {0}
  /\ Base % Granule = 0 /\ Size % Granule = 0 /\ Modulus % Granule = 0
  /\ Base + Size < Modulus /\ Modulus \in Nat
  /\ Requests \subseteq 0 .. Modulus - 1 /\ Pointers \subseteq 0 .. Modulus - 1

VARIABLES
  blocks,  \* blocks_
  reply    \* RAX of the last call: a pointer, or 1 or 0 from free

vars == <<blocks, reply>>

Block(a, s, f) == [addr |-> a, size |-> s, free |-> f]

\* (sz + 15) & ~15
Aligned(n) == LET s == (n + Granule - 1) % Modulus IN s - (s % Granule)

MutFits(b, n) == b.free /\ b.size > n - Granule - 1  \* mutant: a granule short
Fits(b, n) == b.free /\ b.size >= n

\* Block i is handed out, the rest of it split off.
MutTake(i, n) ==                    \* mutant: always splits
  LET b == blocks[i] IN
  InsertAt([blocks EXCEPT ![i] = Block(b.addr, n, FALSE)], i + 1,
           Block(b.addr + n, b.size - n, TRUE))
Take(i, n) ==
  LET b == blocks[i] IN
  IF b.size = n THEN [blocks EXCEPT ![i].free = FALSE]
  ELSE InsertAt([blocks EXCEPT ![i] = Block(b.addr, n, FALSE)], i + 1,
                Block(b.addr + n, b.size - n, TRUE))

\* Block i and the one after it, when both are free, become one.
MutMerge(bs, i) ==                  \* mutant: the size of the second is lost
  IF bs[i].free /\ bs[i + 1].free THEN RemoveAt(bs, i + 1) ELSE bs
Merge(bs, i) ==
  IF bs[i].free /\ bs[i + 1].free
  THEN RemoveAt([bs EXCEPT ![i].size = bs[i].size + bs[i + 1].size], i + 1)
  ELSE bs

\* Block i is given back and coalesced with its neighbours, the one before
\* it first.
MutGiven(i) ==                      \* mutant: not coalesced with the one before
  LET bs == [blocks EXCEPT ![i].free = TRUE]
  IN  IF i < Len(bs) THEN Merge(bs, i) ELSE bs
Given(i) ==
  LET bs   == [blocks EXCEPT ![i].free = TRUE]
      prev == i > 1 /\ bs[i - 1].free
      j    == IF prev THEN i - 1 ELSE i
      cs   == IF prev THEN Merge(bs, j) ELSE bs
  IN  IF j < Len(cs) THEN Merge(cs, j) ELSE cs

Init == blocks = <<Block(Base, Size, TRUE)>> /\ reply = 0

Alloc(sz) ==
  LET n    == Aligned(sz)
      fits == {i \in 1 .. Len(blocks) : Fits(blocks[i], n)}
  IN  /\ n > 0
      /\ \E i \in fits :
           /\ \A k \in fits : i <= k
           /\ blocks' = Take(i, n)
           /\ reply' = blocks[i].addr

AllocFails(sz) ==
  LET n == Aligned(sz) IN
  /\ n = 0 \/ \A i \in 1 .. Len(blocks) : ~Fits(blocks[i], n)
  /\ reply' = 0 /\ UNCHANGED blocks

Free(p) ==
  \E i \in 1 .. Len(blocks) :
    /\ p # 0 /\ blocks[i].addr = p /\ ~blocks[i].free
    /\ blocks' = Given(i)
    /\ reply' = 1

\* A null pointer, a block that is free already, or no block at all.
FreeIgnored(p) ==
  /\ p = 0 \/ \A i \in 1 .. Len(blocks) : blocks[i].addr = p => blocks[i].free
  /\ reply' = (IF p = 0 THEN 1 ELSE 0) /\ UNCHANGED blocks

Next ==
  \/ \E sz \in Requests : Alloc(sz) \/ AllocFails(sz)
  \/ \E p \in Pointers : Free(p) \/ FreeIgnored(p)

Spec == Init /\ [][Next]_vars

-----------------------------------------------------------------------------
TypeOK ==
  /\ \A i \in 1 .. Len(blocks) :
       blocks[i] \in [addr : Base .. Base + Size - 1, size : 1 .. Size, free : BOOLEAN]
  /\ reply \in {0, 1} \cup Base .. Base + Size - 1

\* The blocks tile the region in address order: no byte is lost or in two
\* blocks, through every split and merge.
Tiled ==
  /\ blocks # <<>> /\ blocks[1].addr = Base
  /\ Last(blocks).addr + Last(blocks).size = Base + Size
  /\ \A i \in 1 .. Len(blocks) - 1 :
       blocks[i + 1].addr = blocks[i].addr + blocks[i].size

\* No two neighbours are free: first fit over the list misses no gap.
Coalesced ==
  \A i \in 1 .. Len(blocks) - 1 : ~(blocks[i].free /\ blocks[i + 1].free)

\* The heap is an allocator: blocks handed out are disjoint and large enough,
\* and alloc fails only when nothing fits.
Used == {blocks[i] : i \in {k \in 1 .. Len(blocks) : ~blocks[k].free}}
Live == {[addr |-> b.addr, size |-> b.size] : b \in Used}
Abstract == INSTANCE Allocator WITH live <- Live
AllocatorSpec == Abstract!Spec

=============================================================================
