---------------------------- MODULE GuestHeapProofs ----------------------------
(***************************************************************************)
(* Proofs about GuestHeap, for any heap, number of classes, sizes asked    *)
(* for and values stored.  The inductive invariant says what the code      *)
(* never writes down: the blocks ever cut from the heap tile it up to the  *)
(* bump pointer, and each is either held by the guest or on one place of   *)
(* one list, whose links, in guest memory, no store of the guest reaches.  *)
(***************************************************************************)
EXTENDS GuestHeap, FunctionTheorems, FiniteSetTheorems, NaturalsInduction,
        WellFoundedInduction, TLAPS

\* A set of natural numbers that is not empty has a least element.
LEMMA LeastNat ==
  ASSUME NEW S, S \subseteq Nat, S # {}
  PROVE  \E m \in S : \A k \in S : m <= k
<1> DEFINE R == {ss \in Nat \X Nat : ss[1] < ss[2]}
<1>1. IsWellFoundedOn(R, Nat)
  BY NatLessThanWellFounded, Zenon DEF OpToRel
<1>2. PICK x \in S : \A y \in S : ~(<<y, x>> \in R)
  <2> HIDE DEF R
  <2> QED BY <1>1, WFMin
<1>3. \A y \in S : ~(y < x)
  BY <1>2
<1> QED BY <1>2, <1>3

-----------------------------------------------------------------------------
(* Sizes and classes *)

\* The sizes of the classes 0 to n.
Sizes(f, n) == f = [c \in 0 .. n |-> IF c = 0 THEN Align ELSE 2 * f[c - 1]]

LEMMA SizesExist == \A n \in Nat : \E f : Sizes(f, n)
<1> DEFINE Bad == {n \in Nat : ~\E f : Sizes(f, n)}
<1>1. SUFFICES ASSUME Bad # {} PROVE FALSE
  OBVIOUS
<1>2. PICK m \in Bad : \A k \in Bad : m <= k
  <2> HIDE DEF Bad
  <2>1. Bad \subseteq Nat
    BY DEF Bad
  <2> QED BY <1>1, <2>1, LeastNat
<1>3. CASE m = 0
  <2> DEFINE f == [c \in 0 .. 0 |-> Align]
  <2>1. f = [c \in 0 .. 0 |-> IF c = 0 THEN Align ELSE 2 * f[c - 1]]
    OBVIOUS
  <2> QED BY <1>2, <1>3, <2>1 DEF Sizes
<1>4. CASE m # 0
  <2>1. m \in Nat /\ m - 1 \in Nat /\ ~(m <= m - 1)
    BY <1>2, <1>4
  <2>2. PICK f : Sizes(f, m - 1)
    BY <1>2, <2>1
  <2>3. \A c \in 0 .. m - 1 : f[c] = IF c = 0 THEN Align ELSE 2 * f[c - 1]
    BY <2>2 DEF Sizes
  <2> DEFINE g == [c \in 0 .. m |-> IF c = m THEN 2 * f[m - 1] ELSE f[c]]
  <2>4. ASSUME NEW c \in 0 .. m
        PROVE  g[c] = IF c = 0 THEN Align ELSE 2 * g[c - 1]
    <3>1. CASE c = m
      <4>1. g[m - 1] = f[m - 1] /\ g[c] = 2 * f[m - 1]
        BY <2>1, <3>1
      <4> QED BY <1>4, <3>1, <4>1
    <3>2. CASE c # m
      <4>1. c \in 0 .. m - 1 /\ g[c] = f[c]
        BY <2>1, <3>2
      <4>2. c # 0 => g[c - 1] = f[c - 1]
        BY <2>1, <4>1
      <4> QED BY <2>3, <4>1, <4>2
    <3> QED BY <3>1, <3>2
  <2>5. g = [c \in 0 .. m |-> IF c = 0 THEN Align ELSE 2 * g[c - 1]]
    <3> DEFINE h == [c \in 0 .. m |-> IF c = 0 THEN Align ELSE 2 * g[c - 1]]
    <3>1. \A c \in 0 .. m : g[c] = h[c]
      BY <2>4
    <3>2. DOMAIN g = 0 .. m /\ DOMAIN h = 0 .. m
      OBVIOUS
    <3>3. g = [c \in 0 .. m |-> g[c]] /\ h = [c \in 0 .. m |-> h[c]]
      OBVIOUS
    <3> HIDE DEF g, h
    <3>4. g = h
      BY <3>1, <3>3
    <3> QED BY <3>4 DEF h
  <2> HIDE DEF g
  <2>6. Sizes(g, m)
    BY <2>5 DEF Sizes
  <2> QED BY <1>2, <2>6
<1> QED BY <1>3, <1>4

\* Each class is twice as large as the one before it, ...
LEMMA BlockSizeIs ==
  ASSUME GuestHeapAssumption
  PROVE  \A c \in Class : BlockSize[c] = IF c = 0 THEN Align ELSE 2 * BlockSize[c - 1]
<1>1. Classes - 1 \in Nat
  BY DEF GuestHeapAssumption
<1>2. \E f : f = [c \in Class |-> IF c = 0 THEN Align ELSE 2 * f[c - 1]]
  BY <1>1, SizesExist DEF Sizes, Class
<1>3. BlockSize = [c \in Class |-> IF c = 0 THEN Align ELSE 2 * BlockSize[c - 1]]
  BY <1>2, Zenon DEF BlockSize
<1> QED BY <1>3

\* ... so that its blocks are aligned and not empty.
LEMMA BlockSizeAligned ==
  ASSUME GuestHeapAssumption, NEW c \in Class
  PROVE  BlockSize[c] \in Nat /\ BlockSize[c] >= Align /\ BlockSize[c] % Align = 0
<1> DEFINE Good(x) == BlockSize[x] \in Nat /\ BlockSize[x] >= Align /\ BlockSize[x] % Align = 0
           Bad == {x \in Class : ~Good(x)}
<1>1. SUFFICES ASSUME Bad # {} PROVE FALSE
  OBVIOUS
<1>2. Align \in Nat \ {0} /\ Classes \in Nat
  BY DEF GuestHeapAssumption
<1>3. PICK m \in Bad : \A k \in Bad : m <= k
  <2>1. Bad \subseteq Nat
    BY <1>2 DEF Class
  <2> HIDE DEF Bad
  <2> QED BY <1>1, <2>1, LeastNat
<1>4. m \in Class /\ ~Good(m)
  BY <1>3
<1>5. CASE m = 0
  <2>1. BlockSize[m] = Align
    BY <1>4, <1>5, BlockSizeIs
  <2>2. Align % Align = 0
    BY <1>2
  <2> QED BY <1>2, <1>4, <2>1, <2>2
<1>6. CASE m # 0
  <2>1. m - 1 \in Class /\ ~(m <= m - 1)
    BY <1>2, <1>4, <1>6 DEF Class
  <2>2. Good(m - 1)
    BY <1>3, <2>1
  <2> DEFINE x == BlockSize[m - 1]
             q == x \div Align
  <2>3. BlockSize[m] = 2 * x
    BY <1>4, <1>6, BlockSizeIs
  <2>4. x \in Nat /\ x >= Align /\ x = Align * q /\ q \in Nat
    <3>1. x \in Nat /\ x >= Align /\ x % Align = 0
      BY <2>2
    <3> HIDE DEF x
    <3> QED BY <1>2, <3>1
  <2> HIDE DEF x, q
  <2>5. 2 * x = Align * (2 * q) /\ 2 * q \in Nat
    BY <1>2, <2>4
  <2>6. (Align * (2 * q)) % Align = 0
    <3> DEFINE p == 2 * q
    <3>1. p \in Nat
      BY <2>5
    <3> HIDE DEF p
    <3>2. (Align * p) % Align = 0
      BY <1>2, <3>1
    <3> QED BY <3>2 DEF p
  <2> QED BY <1>2, <1>4, <2>3, <2>4, <2>5, <2>6
<1> QED BY <1>5, <1>6

\* class_for finds a class, and one with room, if any class has.
LEMMA ClassForIs ==
  ASSUME GuestHeapAssumption, NEW bytes \in Requests
  PROVE  /\ ClassFor(bytes) \in Class
         /\ bytes <= BlockSize[Classes - 1] => bytes <= BlockSize[ClassFor(bytes)]
<1> DEFINE least == IF bytes < Align THEN Align ELSE bytes
           up == (least + Align - 1) % Modulus
           sz == up - (up % Align)
           Ok == {c \in Class : c = Classes - 1 \/ BlockSize[c] >= sz}
           cls == ClassFor(bytes)
           top == BlockSize[Classes - 1]
<1>1. /\ Align \in Nat \ {0} /\ Classes \in Nat \ {0} /\ Modulus \in Nat
      /\ bytes \in 0 .. Modulus - 1 /\ top + Align <= Modulus /\ HeapBase + HeapSize < Modulus
  BY DEF GuestHeapAssumption
<1>2. up \in Nat /\ up % Align \in 0 .. Align - 1 /\ sz \in Int
  <2>1. least \in Nat /\ Modulus \in Nat \ {0}
    BY <1>1
  <2> HIDE DEF least
  <2>2. up \in Nat
    BY <1>1, <2>1
  <2> HIDE DEF up
  <2> QED BY <1>1, <2>2
<1>3. Classes - 1 \in Class
  BY <1>1 DEF Class
<1>4. top \in Nat /\ top >= Align
  BY <1>3, BlockSizeAligned
<1>5. PICK m \in Ok : \A k \in Ok : m <= k
  <2>1. Ok \subseteq Nat /\ Classes - 1 \in Ok
    BY <1>1, <1>3 DEF Class
  <2> HIDE DEF Ok
  <2> QED BY <2>1, LeastNat
<1>6. ASSUME NEW d \in 0 .. m - 1
      PROVE  BlockSize[d] < sz
  <2>1. d \in Class /\ ~(m <= d)
    BY <1>1, <1>5 DEF Class
  <2>2. ~(BlockSize[d] >= sz)
    BY <1>5, <2>1
  <2>3. BlockSize[d] \in Nat
    BY <2>1, BlockSizeAligned
  <2> HIDE DEF sz
  <2> QED BY <1>2, <2>2, <2>3
<1> HIDE DEF sz
<1>7. /\ cls \in Class
      /\ cls = Classes - 1 \/ BlockSize[cls] >= sz
  <2>1. \E c \in Class :
          /\ c = Classes - 1 \/ BlockSize[c] >= sz
          /\ \A d \in 0 .. c - 1 : BlockSize[d] < sz
    BY <1>5, <1>6
  <2>2. cls = CHOOSE c \in Class :
          /\ c = Classes - 1 \/ BlockSize[c] >= sz
          /\ \A d \in 0 .. c - 1 : BlockSize[d] < sz
    BY DEF ClassFor, sz
  <2> HIDE DEF cls, Ok
  <2> QED BY <2>1, <2>2
<1>8. ASSUME bytes <= top
      PROVE  bytes <= BlockSize[cls]
  <2>1. least \in Nat /\ least <= top /\ bytes <= least
    BY <1>1, <1>4, <1>8
  <2> HIDE DEF least, top
  <2>2. least + Align - 1 \in 0 .. Modulus - 1
    BY <1>1, <1>4, <2>1
  <2>3. up = least + Align - 1
    BY <1>1, <2>2
  <2>4. bytes <= sz
    <3> HIDE DEF up
    <3> QED BY <1>1, <1>2, <2>1, <2>3 DEF sz
  <2>5. BlockSize[cls] \in Nat
    BY <1>7, BlockSizeAligned
  <2> HIDE DEF cls
  <2>6. CASE cls = Classes - 1
    BY <1>8, <2>6 DEF top
  <2>7. CASE BlockSize[cls] >= sz
    BY <1>1, <1>2, <2>4, <2>5, <2>7
  <2> QED BY <1>7, <2>6, <2>7
<1> QED BY <1>7, <1>8

-----------------------------------------------------------------------------
(* The inductive invariant *)

End(b) == b.addr + BlockSize[b.class]

\* The blocks B tile the heap up to the bump pointer.
Tile(B) ==
  /\ B \subseteq [addr : Addresses, class : Class]
  /\ \A b \in B : End(b) <= HeapBase + bump
  /\ \A b, d \in B : b = d \/ End(b) <= d.addr \/ End(d) <= b.addr
  /\ \A x \in HeapBase .. HeapBase + bump - 1 : \E b \in B : b.addr <= x /\ x < End(b)

\* The list of class c is L[c][N[c]], ..., L[c][1], with L[c][0] for its end.
Listed(L, N) ==
  /\ N \in [Class -> Nat] /\ L \in [Class -> [Nat -> Nat]]
  /\ \A c \in Class :
       /\ L[c][0] = 0 /\ freelist[c] = L[c][N[c]]
       /\ \A i \in 1 .. N[c] : word[L[c][i]] = L[c][i - 1]

\* A block is held once or listed once.
Owned(B, L, N) ==
  /\ \A b \in held : Block(b.addr, b.class) \in B
  /\ \A b, d \in held : b.addr = d.addr => b = d
  /\ \A c \in Class : \A i \in 1 .. N[c] :
       /\ Block(L[c][i], c) \in B
       /\ \A j \in 1 .. N[c] : L[c][i] = L[c][j] => i = j
       /\ \A b \in held : b.addr # L[c][i]
  /\ \A b \in B : \/ \E d \in held : b = Block(d.addr, d.class)
                  \/ \E c \in Class : \E i \in 1 .. N[c] : b = Block(L[c][i], c)

Sound(B, L, N) == Tile(B) /\ Listed(L, N) /\ Owned(B, L, N)

Typed ==
  /\ bump \in 0 .. HeapSize /\ bump % Align = 0
  /\ freelist = [c \in Class |-> freelist[c]]
  /\ word = [a \in Addresses |-> word[a]]
  /\ IsFiniteSet(held)
  /\ \A b \in held : b.bytes \in Requests /\ b = Hold(b.addr, b.bytes)

IInv == Typed /\ (~lost => \E B, L, N : Sound(B, L, N))

\* What the invariant says of one block.
LEMMA TileAt ==
  ASSUME GuestHeapAssumption, NEW B, Tile(B), NEW b \in B
  PROVE  /\ b.addr \in Nat \ {0} /\ b.addr \in Addresses /\ HeapBase <= b.addr
         /\ b.class \in Class /\ b = Block(b.addr, b.class)
         /\ BlockSize[b.class] \in Nat /\ BlockSize[b.class] >= 1
         /\ End(b) \in Nat /\ b.addr < End(b)
<1>1. b \in [addr : Addresses, class : Class]
  BY DEF Tile
<1>2. b.addr \in Addresses /\ b.class \in Class /\ b = Block(b.addr, b.class)
  BY <1>1 DEF Block
<1>3. Align \in Nat \ {0} /\ HeapBase \in Nat \ {0} /\ HeapSize \in Nat
  BY DEF GuestHeapAssumption
<1>4. PICK i \in 0 .. HeapSize \div Align : b.addr = HeapBase + i * Align
  BY <1>2 DEF Addresses
<1>5. i * Align \in Nat
  <2>1. HeapSize \div Align \in Nat
    BY <1>3
  <2>2. i \in Nat
    BY <2>1
  <2> QED BY <1>3, <2>2
<1>6. b.addr \in Nat \ {0} /\ HeapBase <= b.addr
  BY <1>3, <1>4, <1>5
<1>7. BlockSize[b.class] \in Nat /\ BlockSize[b.class] >= 1
  <2>1. BlockSize[b.class] \in Nat /\ BlockSize[b.class] >= Align
    BY <1>2, BlockSizeAligned
  <2> QED BY <1>3, <2>1
<1> QED BY <1>2, <1>6, <1>7 DEF End

\* Where the next block is cut.
LEMMA BumpAddress ==
  ASSUME GuestHeapAssumption, bump \in 0 .. HeapSize, bump % Align = 0
  PROVE  HeapBase + bump \in Addresses
<1> DEFINE i == bump \div Align
<1>1. Align \in Nat \ {0} /\ HeapBase \in Nat \ {0} /\ HeapSize \in Nat
  BY DEF GuestHeapAssumption
<1>2. i \in Nat /\ bump = Align * i
  BY <1>1
<1>3. i <= HeapSize \div Align
  <2> DEFINE q == HeapSize \div Align
             r == HeapSize % Align
  <2>1. q \in Nat /\ HeapSize = Align * q + r /\ r \in 0 .. Align - 1
    BY <1>1
  <2>2. Align * i <= HeapSize
    BY <1>2
  <2> HIDE DEF i, q, r
  <2>3. ASSUME i > q PROVE FALSE
    <3>1. i - (q + 1) \in Nat
      BY <1>2, <2>1, <2>3
    <3> DEFINE d == i - (q + 1)
    <3>2. Align * i = Align * q + Align + Align * d /\ Align * d \in Nat
      <4>1. i = q + 1 + d /\ d \in Nat
        BY <1>2, <2>1, <3>1
      <4> HIDE DEF d
      <4> QED BY <1>1, <2>1, <4>1
    <3> HIDE DEF d
    <3> QED BY <1>1, <1>2, <2>1, <2>2, <3>2
  <2> QED BY <1>2, <2>1, <2>3 DEF q
<1>4. i \in 0 .. HeapSize \div Align /\ HeapBase + bump = HeapBase + i * Align
  <2>1. HeapSize \div Align \in Nat
    BY <1>1
  <2> HIDE DEF i
  <2>2. Align * i = i * Align
    BY <1>1, <1>2
  <2> QED BY <1>2, <1>3, <2>1, <2>2
<1> QED BY <1>4 DEF Addresses

LEMMA InitInv == GuestHeapAssumption /\ Init => IInv
<1> SUFFICES ASSUME GuestHeapAssumption, Init PROVE IInv
  OBVIOUS
<1> DEFINE L == [c \in Class |-> [i \in Nat |-> 0]]
           N == [c \in Class |-> 0]
<1>1. HeapSize \in Nat /\ HeapBase \in Nat /\ Align \in Nat \ {0} /\ 0 % Align = 0
  BY DEF GuestHeapAssumption
<1>2. bump = 0 /\ held = {}
  BY DEF Init
<1>3. Typed
  <2>1. freelist = [c \in Class |-> freelist[c]] /\ word = [a \in Addresses |-> word[a]]
    BY DEF Init
  <2> QED BY <1>1, <1>2, <2>1, FS_EmptySet DEF Typed
<1>4. Tile({})
  <2>1. HeapBase .. HeapBase + bump - 1 = {}
    BY <1>1, <1>2
  <2> QED BY <2>1 DEF Tile
<1>5. Listed(L, N)
  <2>1. \A c \in Class : freelist[c] = 0 /\ N[c] = 0 /\ L[c][0] = 0 /\ 1 .. N[c] = {}
    BY DEF Init
  <2> QED BY <2>1 DEF Listed
<1>6. Owned({}, L, N)
  <2>1. \A c \in Class : 1 .. N[c] = {}
    OBVIOUS
  <2> QED BY <1>2, <2>1 DEF Owned
<1> QED BY <1>3, <1>4, <1>5, <1>6 DEF IInv, Sound

-----------------------------------------------------------------------------
(* What each call keeps *)

\* A block is taken from the head of a list.
LEMMA ReuseKeeps ==
  ASSUME GuestHeapAssumption, Typed, NEW B, NEW L, NEW N, Sound(B, L, N),
         NEW bytes \in Requests, AllocReuse(bytes)
  PROVE  \E M : Sound(B, L, M)'
<1> DEFINE c == ClassFor(bytes)
           n == N[c]
           M == [N EXCEPT ![c] = n - 1]
           new == Hold(L[c][n], bytes)
<1>1. c \in Class
  BY ClassForIs
<1> HIDE DEF c
<1>2. /\ N \in [Class -> Nat] /\ L \in [Class -> [Nat -> Nat]]
      /\ \A d \in Class :
           /\ L[d][0] = 0 /\ freelist[d] = L[d][N[d]]
           /\ \A i \in 1 .. N[d] : word[L[d][i]] = L[d][i - 1]
  BY DEF Sound, Listed
<1>3. n \in Nat /\ n # 0 /\ n \in 1 .. n /\ n - 1 \in Nat
  <2>1. n \in Nat /\ freelist[c] # 0
    BY <1>1, <1>2 DEF AllocReuse, c
  <2>2. n # 0
    BY <1>1, <1>2, <2>1
  <2> QED BY <2>1, <2>2
<1>4. /\ freelist' = [freelist EXCEPT ![c] = L[c][n - 1]]
      /\ held' = held \cup {new}
      /\ bump' = bump /\ word' = word
  BY <1>1, <1>2, <1>3 DEF AllocReuse, NextOf, c
<1>5. new.addr = L[c][n] /\ new.class = c
  BY DEF Hold, c
<1>6. M \in [Class -> Nat] /\ M[c] = n - 1 /\ \A d \in Class : d # c => M[d] = N[d]
  BY <1>1, <1>2, <1>3
<1> HIDE DEF n, M, new
<1>7. \A d \in Class : M[d] \in Nat /\ N[d] \in Nat /\ 1 .. M[d] \subseteq 1 .. N[d]
  <2> SUFFICES ASSUME NEW d \in Class
               PROVE  M[d] \in Nat /\ N[d] \in Nat /\ M[d] <= N[d]
    OBVIOUS
  <2>1. CASE d = c
    BY <1>2, <1>3, <1>6, <2>1 DEF n
  <2>2. CASE d # c
    BY <1>2, <1>6, <2>2
  <2> QED BY <2>1, <2>2
<1>8. Tile(B)'
  BY <1>4 DEF Sound, Tile, End
<1>9. Listed(L, M)'
  <2> SUFFICES ASSUME NEW d \in Class
               PROVE  freelist'[d] = L[d][M[d]]
    BY <1>2, <1>4, <1>6, <1>7 DEF Listed
  <2>1. freelist = [x \in Class |-> freelist[x]]
    BY DEF Typed
  <2>2. freelist'[d] = IF d = c THEN L[c][n - 1] ELSE freelist[d]
    BY <1>4, <2>1
  <2> QED BY <1>2, <1>6, <2>2
<1>10. ASSUME NEW d \in Class, NEW i \in 1 .. N[d], L[d][i] = L[c][n]
       PROVE  d = c /\ i = n
  <2>1. Block(L[d][i], d) \in B /\ Block(L[c][n], c) \in B
    BY <1>1, <1>3, <1>10 DEF Sound, Owned, n
  <2> DEFINE b == Block(L[d][i], d)
             e == Block(L[c][n], c)
  <2>2. b.addr = e.addr /\ b.class = d /\ e.class = c
    BY <1>10 DEF Block
  <2> HIDE DEF b, e
  <2>3. b.addr < End(b) /\ e.addr < End(e) /\ b.addr \in Nat /\ End(b) \in Nat /\ End(e) \in Nat
    BY <2>1, TileAt DEF Sound, b, e
  <2>4. b = e \/ End(b) <= e.addr \/ End(e) <= b.addr
    BY <2>1 DEF Sound, Tile, b, e
  <2>5. d = c
    BY <2>2, <2>3, <2>4
  <2> QED BY <1>1, <1>3, <1>10, <2>5 DEF Sound, Owned, n
<1>11. Owned(B, L, M)'
  <2>1. ASSUME NEW b \in held'
        PROVE  /\ Block(b.addr, b.class) \in B
               /\ \A d \in held' : b.addr = d.addr => b = d
               /\ \A d \in Class : \A i \in 1 .. M[d] : b.addr # L[d][i]
    <3>1. \A d \in held : d.addr # new.addr
      BY <1>1, <1>3, <1>5 DEF Sound, Owned, n
    <3>2. CASE b \in held
      BY <1>4, <1>7, <2>1, <3>1, <3>2 DEF Sound, Owned
    <3>3. CASE b = new
      <4>1. Block(b.addr, b.class) \in B
        BY <1>1, <1>3, <1>5, <3>3 DEF Sound, Owned, n
      <4>2. ASSUME NEW d \in Class, NEW i \in 1 .. M[d], b.addr = L[d][i]
            PROVE  FALSE
        <5>1. i \in 1 .. N[d]
          BY <1>7
        <5>2. d = c /\ i = n
          BY <1>5, <1>10, <3>3, <4>2, <5>1
        <5> QED BY <1>3, <1>6, <5>2
      <4> QED BY <1>4, <3>1, <3>3, <4>1, <4>2
    <3> QED BY <1>4, <2>1, <3>2, <3>3
  <2>2. ASSUME NEW d \in Class, NEW i \in 1 .. M[d]
        PROVE  /\ Block(L[d][i], d) \in B
               /\ \A j \in 1 .. M[d] : L[d][i] = L[d][j] => i = j
    BY <1>7 DEF Sound, Owned
  <2>3. ASSUME NEW b \in B
        PROVE  \/ \E d \in held' : b = Block(d.addr, d.class)
               \/ \E d \in Class : \E i \in 1 .. M[d] : b = Block(L[d][i], d)
    <3>1. CASE \E d \in held : b = Block(d.addr, d.class)
      BY <1>4, <3>1
    <3>2. ASSUME NEW d \in Class, NEW i \in 1 .. N[d], b = Block(L[d][i], d)
          PROVE  \/ \E e \in held' : b = Block(e.addr, e.class)
                 \/ \E e \in Class : \E j \in 1 .. M[e] : b = Block(L[e][j], e)
      <4>1. CASE d = c /\ i = n
        <5>1. new \in held' /\ b = Block(new.addr, new.class)
          BY <1>4, <1>5, <3>2, <4>1
        <5> QED BY <5>1
      <4>2. CASE ~(d = c /\ i = n)
        <5>1. i \in 1 .. M[d]
          <6>1. CASE d = c
            BY <1>3, <1>6, <4>2, <6>1 DEF n
          <6>2. CASE d # c
            BY <1>6, <6>2
          <6> QED BY <6>1, <6>2
        <5> QED BY <3>2, <5>1
      <4> QED BY <4>1, <4>2
    <3> QED BY <3>1, <3>2 DEF Sound, Owned
  <2> QED BY <2>1, <2>2, <2>3 DEF Owned
<1>12. Sound(B, L, M)'
  BY <1>8, <1>9, <1>11 DEF Sound
<1> QED BY <1>12

\* A block is cut from the rest of the heap.
LEMMA NewKeeps ==
  ASSUME GuestHeapAssumption, Typed, NEW B, NEW L, NEW N, Sound(B, L, N),
         NEW bytes \in Requests, AllocNew(bytes)
  PROVE  \E C : Sound(C, L, N)'
<1> DEFINE c == ClassFor(bytes)
           size == BlockSize[c]
           at == HeapBase + bump
           new == Hold(at, bytes)
           blk == Block(at, c)
<1>1. c \in Class /\ freelist' = freelist /\ word' = word
  BY ClassForIs DEF AllocNew
<1>2. CASE bump + size > HeapSize
  <2>1. bump' = bump /\ held' = held
    BY <1>2 DEF AllocNew, Bumped
  <2>2. Sound(B, L, N)'
    BY <1>1, <2>1 DEF Sound, Tile, End, Listed, Owned
  <2> QED BY <2>2
<1>3. CASE ~(bump + size > HeapSize)
  <2>1. bump' = bump + size /\ held' = held \cup {new}
    BY <1>3 DEF AllocNew, Bumped
  <2>2. /\ size \in Nat /\ size >= 1 /\ bump \in Nat /\ HeapBase \in Nat \ {0}
        /\ at \in Addresses
    <3>1. size \in Nat /\ size >= Align
      BY <1>1, BlockSizeAligned
    <3> QED BY <3>1, BumpAddress DEF GuestHeapAssumption, Typed
  <2>3. /\ blk.addr = at /\ blk.class = c /\ new.addr = at /\ new.class = c
        /\ End(blk) = at + size /\ blk = Block(new.addr, new.class)
    BY DEF Block, Hold, End
  <2>4. blk \in [addr : Addresses, class : Class]
    BY <1>1, <2>2 DEF Block
  <2>5. /\ HeapBase + bump' = at + size /\ HeapBase + bump = at /\ at \in Nat \ {0}
        /\ HeapBase + bump' \in Nat /\ at <= HeapBase + bump'
    BY <2>1, <2>2
  <2> HIDE DEF size, at, new, blk, c
  <2>6. \A b \in B : /\ b.addr \in Nat /\ End(b) \in Nat /\ b.addr < End(b) /\ End(b) <= at
                     /\ b.addr # at
    <3> SUFFICES ASSUME NEW b \in B
                 PROVE  /\ b.addr \in Nat /\ End(b) \in Nat /\ b.addr < End(b)
                        /\ End(b) <= at
      BY <2>5
    <3>1. End(b) <= at
      BY <2>5 DEF Sound, Tile
    <3> QED BY <3>1, TileAt DEF Sound
  <2>0. PICK C : C = B \cup {blk}
    OBVIOUS
  <2>7. Tile(C)'
    <3>1. \A b \in C : End(b)' = End(b)
      BY DEF End
    <3>2. C \subseteq [addr : Addresses, class : Class]
      BY <2>0, <2>4 DEF Sound, Tile
    <3>3. ASSUME NEW b \in C
          PROVE  End(b) <= HeapBase + bump'
      <4>1. CASE b \in B
        <5>1. End(b) \in Nat /\ End(b) <= at
          BY <2>6, <4>1
        <5> QED BY <2>5, <5>1
      <4>2. CASE b = blk
        BY <2>2, <2>3, <2>5, <4>2
      <4> QED BY <2>0, <4>1, <4>2
    <3>4. ASSUME NEW b \in C, NEW d \in C
          PROVE  b = d \/ End(b) <= d.addr \/ End(d) <= b.addr
      <4>1. CASE b \in B /\ d \in B
        BY <4>1 DEF Sound, Tile
      <4>2. CASE b = blk \/ d = blk
        BY <2>0, <2>3, <2>6, <4>2
      <4> QED BY <2>0, <4>1, <4>2
    <3>5. ASSUME NEW x \in HeapBase .. HeapBase + bump' - 1
          PROVE  \E b \in C : b.addr <= x /\ x < End(b)
      <4>1. CASE x < at
        <5>1. x \in HeapBase .. HeapBase + bump - 1
          BY <2>2, <2>5, <4>1
        <5>2. PICK b \in B : b.addr <= x /\ x < End(b)
          BY <5>1 DEF Sound, Tile
        <5> QED BY <2>0, <5>2
      <4>2. CASE ~(x < at)
        <5>0. x \in Int /\ x < HeapBase + bump'
          BY <2>1, <2>2, <2>5
        <5>1. blk.addr <= x /\ x < End(blk)
          BY <2>2, <2>3, <2>5, <4>2, <5>0
        <5> QED BY <2>0, <5>1
      <4> QED BY <2>0, <4>1, <4>2
    <3> QED BY <3>2, <3>3, <3>4, <3>5 DEF Tile, End
  <2>8. Listed(L, N)'
    BY <1>1 DEF Sound, Listed
  <2>9. \A d \in Class : \A i \in 1 .. N[d] : L[d][i] # at
    <3> SUFFICES ASSUME NEW d \in Class, NEW i \in 1 .. N[d]
                 PROVE  L[d][i] # at
      OBVIOUS
    <3>1. Block(L[d][i], d) \in B
      BY DEF Sound, Owned
    <3>2. Block(L[d][i], d).addr = L[d][i]
      BY DEF Block
    <3> QED BY <2>6, <3>1, <3>2
  <2>10. \A b \in held : b.addr # at
    <3> SUFFICES ASSUME NEW b \in held
                 PROVE  b.addr # at
      OBVIOUS
    <3>1. Block(b.addr, b.class) \in B
      BY DEF Sound, Owned
    <3>2. Block(b.addr, b.class).addr = b.addr
      BY DEF Block
    <3> QED BY <2>6, <3>1, <3>2
  <2>11. Owned(C, L, N)'
    <3>1. ASSUME NEW b \in held'
          PROVE  /\ Block(b.addr, b.class) \in C
                 /\ \A d \in held' : b.addr = d.addr => b = d
                 /\ \A d \in Class : \A i \in 1 .. N[d] : b.addr # L[d][i]
      <4>1. CASE b \in held
        BY <2>0, <2>1, <2>3, <2>10, <3>1, <4>1 DEF Sound, Owned
      <4>2. CASE b = new
        BY <2>0, <2>1, <2>3, <2>9, <2>10, <4>2
      <4> QED BY <2>1, <3>1, <4>1, <4>2
    <3>2. ASSUME NEW d \in Class, NEW i \in 1 .. N[d]
          PROVE  /\ Block(L[d][i], d) \in C
                 /\ \A j \in 1 .. N[d] : L[d][i] = L[d][j] => i = j
      BY <2>0 DEF Sound, Owned
    <3>3. ASSUME NEW b \in C
          PROVE  \/ \E d \in held' : b = Block(d.addr, d.class)
                 \/ \E d \in Class : \E i \in 1 .. N[d] : b = Block(L[d][i], d)
      <4>1. CASE b \in B
        BY <2>1, <4>1 DEF Sound, Owned
      <4>2. CASE b = blk
        BY <2>1, <2>3, <4>2
      <4> QED BY <2>0, <4>1, <4>2
    <3> QED BY <3>1, <3>2, <3>3 DEF Owned
  <2>12. Sound(C, L, N)'
    BY <2>7, <2>8, <2>11 DEF Sound
  <2> QED BY <2>12
<1> QED BY <1>2, <1>3

\* Blocks at one address are one.
LEMMA SameBlock ==
  ASSUME GuestHeapAssumption, NEW B, Tile(B), NEW b \in B, NEW d \in B, b.addr = d.addr
  PROVE  b = d
<1>1. /\ b.addr < End(b) /\ d.addr < End(d) /\ b.addr \in Nat
      /\ End(b) \in Nat /\ End(d) \in Nat
  BY TileAt
<1>2. b = d \/ End(b) <= d.addr \/ End(d) <= b.addr
  BY DEF Tile
<1> QED BY <1>1, <1>2

\* A block is given back to the head of its list.
LEMMA FreeKeeps ==
  ASSUME GuestHeapAssumption, Typed, NEW B, NEW L, NEW N, Sound(B, L, N),
         NEW b \in held, Free(b), locked = "no"
  PROVE  \E K, M : Sound(B, K, M)'
<1> DEFINE c == ClassFor(b.bytes)
           n == N[c]
           M == [N EXCEPT ![c] = n + 1]
           K == [L EXCEPT ![c] = [L[c] EXCEPT ![n + 1] = b.addr]]
<1>1. b.bytes \in Requests /\ b.class = c /\ c \in Class
  BY ClassForIs DEF Typed, Hold
<1>2. /\ freelist' = [freelist EXCEPT ![c] = b.addr]
      /\ word' = [word EXCEPT ![b.addr] = freelist[c]]
      /\ held' = held \ {b} /\ bump' = bump
  BY DEF Free, Linked
<1> HIDE DEF c
<1>3. /\ N \in [Class -> Nat] /\ L \in [Class -> [Nat -> Nat]]
      /\ \A d \in Class :
           /\ L[d][0] = 0 /\ freelist[d] = L[d][N[d]]
           /\ \A i \in 1 .. N[d] : word[L[d][i]] = L[d][i - 1]
  BY DEF Sound, Listed
<1>4. n \in Nat /\ n + 1 \in Nat
  BY <1>1, <1>3
<1>5. Block(b.addr, c) \in B /\ b.addr \in Nat \ {0} /\ b.addr \in Addresses
  <2>1. Block(b.addr, c) \in B
    BY <1>1 DEF Sound, Owned
  <2>2. Block(b.addr, c).addr = b.addr
    BY DEF Block
  <2> QED BY <2>1, <2>2, TileAt DEF Sound
<1>6. M \in [Class -> Nat] /\ M[c] = n + 1 /\ \A d \in Class : d # c => M[d] = N[d]
  BY <1>1, <1>3, <1>4
<1>7. /\ K \in [Class -> [Nat -> Nat]]
      /\ \A d \in Class : d # c => K[d] = L[d]
      /\ K[c][n + 1] = b.addr /\ \A i \in Nat : i # n + 1 => K[c][i] = L[c][i]
  BY <1>1, <1>3, <1>4, <1>5
<1> HIDE DEF K, M
<1>8. \A d \in Class : \A i \in 1 .. M[d] :
        \/ d = c /\ i = n + 1
        \/ i \in 1 .. N[d] /\ K[d][i] = L[d][i] /\ K[d][i - 1] = L[d][i - 1]
  <2> SUFFICES ASSUME NEW d \in Class, NEW i \in 1 .. M[d], ~(d = c /\ i = n + 1)
               PROVE  i \in 1 .. N[d] /\ K[d][i] = L[d][i] /\ K[d][i - 1] = L[d][i - 1]
    OBVIOUS
  <2>1. CASE d = c
    <3>1. i \in 1 .. n /\ i \in Nat /\ i - 1 \in Nat /\ i # n + 1 /\ i - 1 # n + 1
      BY <1>4, <1>6, <2>1
    <3> QED BY <1>7, <2>1, <3>1
  <2>2. CASE d # c
    BY <1>6, <1>7, <2>2
  <2> QED BY <2>1, <2>2
<1>9. \A d \in Class : \A i \in 1 .. N[d] : L[d][i] # b.addr /\ i \in 1 .. M[d] /\ K[d][i] = L[d][i]
  <2> SUFFICES ASSUME NEW d \in Class, NEW i \in 1 .. N[d]
               PROVE  L[d][i] # b.addr /\ i \in 1 .. M[d] /\ K[d][i] = L[d][i]
    OBVIOUS
  <2>1. L[d][i] # b.addr
    BY DEF Sound, Owned
  <2>2. CASE d = c
    BY <1>4, <1>6, <1>7, <2>1, <2>2
  <2>3. CASE d # c
    BY <1>6, <1>7, <2>1, <2>3
  <2> QED BY <2>2, <2>3
<1>10. Tile(B)'
  BY <1>2 DEF Sound, Tile, End
<1>11. Listed(K, M)'
  <2>1. ASSUME NEW d \in Class
        PROVE  K[d][0] = 0 /\ freelist'[d] = K[d][M[d]]
    <3>1. freelist'[d] = IF d = c THEN b.addr ELSE freelist[d]
      <4>1. freelist = [x \in Class |-> freelist[x]]
        BY DEF Typed
      <4> QED BY <1>2, <4>1
    <3>2. CASE d = c
      <4>1. 0 # n + 1 /\ 0 \in Nat
        BY <1>4
      <4> QED BY <1>3, <1>6, <1>7, <3>1, <3>2, <4>1
    <3>3. CASE d # c
      BY <1>3, <1>6, <1>7, <3>1, <3>3
    <3> QED BY <3>2, <3>3
  <2>2. ASSUME NEW a \in Addresses
        PROVE  word'[a] = IF a = b.addr THEN freelist[c] ELSE word[a]
    <3>1. word = [x \in Addresses |-> word[x]]
      BY DEF Typed
    <3> QED BY <1>2, <3>1
  <2>3. ASSUME NEW d \in Class, NEW i \in 1 .. M[d]
        PROVE  word'[K[d][i]] = K[d][i - 1]
    <3>1. CASE d = c /\ i = n + 1
      <4>1. i - 1 = n /\ n # n + 1
        BY <1>4, <3>1
      <4>2. K[d][i - 1] = L[c][n] /\ K[d][i] = b.addr
        BY <1>4, <1>7, <3>1, <4>1
      <4> QED BY <1>1, <1>3, <1>5, <2>2, <4>2
    <3>2. CASE i \in 1 .. N[d] /\ K[d][i] = L[d][i] /\ K[d][i - 1] = L[d][i - 1]
      <4>1. L[d][i] # b.addr
        BY <1>9, <3>2
      <4>2. L[d][i] \in Addresses
        <5>1. Block(L[d][i], d) \in B
          BY <3>2 DEF Sound, Owned
        <5>2. Block(L[d][i], d).addr = L[d][i]
          BY DEF Block
        <5> QED BY <5>1, <5>2, TileAt DEF Sound
      <4> QED BY <1>3, <2>2, <3>2, <4>1, <4>2
    <3> QED BY <1>8, <3>1, <3>2
  <2> QED BY <1>6, <1>7, <2>1, <2>3 DEF Listed
<1>12. Owned(B, K, M)'
  <2>1. ASSUME NEW h \in held'
        PROVE  /\ Block(h.addr, h.class) \in B
               /\ \A d \in held' : h.addr = d.addr => h = d
               /\ \A d \in Class : \A i \in 1 .. M[d] : h.addr # K[d][i]
    <3>1. h \in held /\ h # b /\ h.addr # b.addr
      BY <1>2, <2>1 DEF Sound, Owned
    <3>2. \A d \in Class : \A i \in 1 .. M[d] : h.addr # K[d][i]
      BY <1>7, <1>8, <3>1 DEF Sound, Owned
    <3> QED BY <1>2, <3>1, <3>2 DEF Sound, Owned
  <2>2. ASSUME NEW d \in Class, NEW i \in 1 .. M[d]
        PROVE  /\ Block(K[d][i], d) \in B
               /\ \A j \in 1 .. M[d] : K[d][i] = K[d][j] => i = j
    <3>1. Block(K[d][i], d) \in B
      BY <1>5, <1>7, <1>8 DEF Sound, Owned
    <3>2. ASSUME NEW j \in 1 .. M[d], K[d][i] = K[d][j]
          PROVE  i = j
      <4>1. CASE d = c /\ (i = n + 1 \/ j = n + 1)
        BY <1>7, <1>8, <1>9, <3>2, <4>1
      <4>2. CASE ~(d = c /\ (i = n + 1 \/ j = n + 1))
        BY <1>8, <3>2, <4>2 DEF Sound, Owned
      <4> QED BY <4>1, <4>2
    <3> QED BY <3>1, <3>2
  <2>3. ASSUME NEW x \in B
        PROVE  \/ \E d \in held' : x = Block(d.addr, d.class)
               \/ \E d \in Class : \E i \in 1 .. M[d] : x = Block(K[d][i], d)
    <3>1. ASSUME NEW d \in held, x = Block(d.addr, d.class)
          PROVE  \/ \E e \in held' : x = Block(e.addr, e.class)
                 \/ \E e \in Class : \E i \in 1 .. M[e] : x = Block(K[e][i], e)
      <4>1. CASE d = b
        <5>1. n + 1 \in 1 .. M[c] /\ x = Block(K[c][n + 1], c)
          BY <1>1, <1>4, <1>6, <1>7, <3>1, <4>1
        <5> QED BY <1>1, <5>1
      <4>2. CASE d # b
        BY <1>2, <3>1, <4>2
      <4> QED BY <4>1, <4>2
    <3>2. ASSUME NEW d \in Class, NEW i \in 1 .. N[d], x = Block(L[d][i], d)
          PROVE  \E e \in Class : \E j \in 1 .. M[e] : x = Block(K[e][j], e)
      BY <1>9, <3>2
    <3> QED BY <3>1, <3>2 DEF Sound, Owned
  <2> QED BY <2>1, <2>2, <2>3 DEF Owned
<1>13. Sound(B, K, M)'
  BY <1>10, <1>11, <1>12 DEF Sound
<1> QED BY <1>13

\* What the guest stores in a block it holds is on no list.
LEMMA StoreKeeps ==
  ASSUME GuestHeapAssumption, Typed, NEW B, NEW L, NEW N, Sound(B, L, N),
         NEW b \in held, NEW v, Store(b, v)
  PROVE  Sound(B, L, N)'
<1>1. /\ word' = [word EXCEPT ![b.addr] = v]
      /\ bump' = bump /\ freelist' = freelist /\ held' = held
  BY DEF Store
<1>2. ASSUME NEW d \in Class, NEW i \in 1 .. N[d]
      PROVE  word'[L[d][i]] = word[L[d][i]]
  <2>1. L[d][i] # b.addr
    BY DEF Sound, Owned
  <2>2. word = [x \in Addresses |-> word[x]]
    BY DEF Typed
  <2> QED BY <1>1, <2>1, <2>2
<1>3. Tile(B)' /\ Owned(B, L, N)'
  BY <1>1 DEF Sound, Tile, End, Owned
<1>4. Listed(L, N)'
  BY <1>1, <1>2 DEF Sound, Listed
<1> QED BY <1>3, <1>4 DEF Sound

LEMMA SameKeeps ==
  ASSUME NEW B, NEW L, NEW N, Sound(B, L, N), UNCHANGED <<bump, freelist, word, held>>
  PROVE  Sound(B, L, N)'
BY DEF Sound, Tile, End, Listed, Owned

\* The types of the variables, whatever is lost.
LEMMA TypedKept ==
  ASSUME GuestHeapAssumption, Typed, [Next]_heapVars
  PROVE  Typed'
<1>1. Align \in Nat \ {0} /\ HeapSize \in Nat
  BY DEF GuestHeapAssumption
<1> DEFINE Cells == /\ freelist' = [c \in Class |-> freelist'[c]]
                    /\ word' = [a \in Addresses |-> word'[a]]
           Holding == /\ bump' \in 0 .. HeapSize /\ bump' % Align = 0
                      /\ IsFiniteSet(held')
                      /\ \A b \in held' : b.bytes \in Requests /\ b = Hold(b.addr, b.bytes)
<1>2. ASSUME NEW a, NEW bytes \in Requests, held' = held \cup {Hold(a, bytes)}
      PROVE  /\ IsFiniteSet(held')
             /\ \A b \in held' : b.bytes \in Requests /\ b = Hold(b.addr, b.bytes)
  <2>1. IsFiniteSet(held \cup {Hold(a, bytes)})
    BY FS_AddElement DEF Typed
  <2>2. Hold(a, bytes).addr = a /\ Hold(a, bytes).bytes = bytes
    BY DEF Hold
  <2> QED BY <1>2, <2>1, <2>2 DEF Typed
<1>3. ASSUME NEW bytes \in Requests, Bumped(bytes)
      PROVE  Holding
  <2> DEFINE size == BlockSize[ClassFor(bytes)]
  <2>1. CASE bump + size > HeapSize
    BY <1>3, <2>1 DEF Bumped, Typed
  <2>2. CASE ~(bump + size > HeapSize)
    <3>1. bump' = bump + size /\ held' = held \cup {Hold(HeapBase + bump, bytes)}
      BY <1>3, <2>2 DEF Bumped
    <3>2. size \in Nat /\ size % Align = 0
      BY ClassForIs, BlockSizeAligned
    <3> HIDE DEF size
    <3>3. (bump + size) % Align = 0
      <4> DEFINE p == bump \div Align
                 q == size \div Align
      <4>1. bump = Align * p /\ size = Align * q /\ p \in Nat /\ q \in Nat
        BY <1>1, <3>2 DEF Typed
      <4> HIDE DEF p, q
      <4>2. (Align * (p + q)) % Align = 0
        BY <1>1, <4>1
      <4> QED BY <1>1, <4>1, <4>2
    <3>4. bump' \in 0 .. HeapSize /\ bump' % Align = 0
      BY <1>1, <2>2, <3>1, <3>2, <3>3 DEF Typed
    <3> QED BY <1>2, <3>1, <3>4
  <2> QED BY <2>1, <2>2
<1>4. ASSUME NEW n \in Requests, AllocReuse(n)
      PROVE  Cells /\ Holding
  <2>1. Cells /\ bump' = bump
    BY <1>4 DEF AllocReuse, Typed
  <2>2. held' = held \cup {Hold(freelist[ClassFor(n)], n)}
    BY <1>4 DEF AllocReuse
  <2> QED BY <1>2, <2>1, <2>2 DEF Typed
<1>5. ASSUME NEW n \in Requests, AllocNew(n)
      PROVE  Cells /\ Holding
  <2>1. Cells /\ Bumped(n)
    BY <1>5 DEF AllocNew, Typed
  <2> QED BY <1>3, <2>1
<1>6. ASSUME NEW n \in Requests, AllocDrops(n)
      PROVE  Cells /\ Holding
  <2>1. Cells /\ Bumped(n)
    BY <1>6 DEF AllocDrops, Typed
  <2> QED BY <1>3, <2>1
<1>7. ASSUME NEW b \in held, Free(b)
      PROVE  Cells /\ Holding
  <2>1. Cells /\ held' = held \ {b} /\ bump' = bump
    <3>1. freelist' = [freelist EXCEPT ![ClassFor(b.bytes)] = b.addr]
          /\ held' = held \ {b} /\ bump' = bump
      BY <1>7 DEF Free
    <3>2. word' = word \/ word' = [word EXCEPT ![b.addr] = freelist[ClassFor(b.bytes)]]
      BY <1>7 DEF Free, Linked
    <3> QED BY <3>1, <3>2 DEF Typed
  <2>2. IsFiniteSet(held \ {b})
    BY FS_RemoveElement DEF Typed
  <2> QED BY <2>1, <2>2 DEF Typed
<1>8. ASSUME NEW b \in held, NEW v \in Junk, Store(b, v)
      PROVE  Cells /\ Holding
  BY <1>8 DEF Store, Typed
<1>9. ASSUME NEW how \in {"no", "write", "all"}, Protect(how)
      PROVE  Cells /\ Holding
  BY <1>9 DEF Protect, Typed
<1>10. ASSUME UNCHANGED heapVars
       PROVE  Cells /\ Holding
  BY <1>10 DEF heapVars, Typed
<1>11. Cells /\ Holding
  BY <1>4, <1>5, <1>6, <1>7, <1>8, <1>9, <1>10 DEF Next
<1> QED BY <1>11 DEF Typed

LEMMA NextInv == GuestHeapAssumption /\ IInv /\ [Next]_heapVars => IInv'
<1> SUFFICES ASSUME GuestHeapAssumption, IInv, [Next]_heapVars
             PROVE  ~lost' => \E B, L, N : Sound(B, L, N)'
  BY TypedKept DEF IInv
<1> SUFFICES ASSUME ~lost'
             PROVE  \E B, L, N : Sound(B, L, N)'
  OBVIOUS
<1>0. Typed
  BY DEF IInv
<1>1. CASE lost
  BY <1>1 DEF Next, Protect, heapVars
<1>2. ASSUME ~lost
      PROVE  \E B, L, N : Sound(B, L, N)'
  <2>0. PICK B, L, N : Sound(B, L, N)
    BY <1>2 DEF IInv
  <2>1. ASSUME NEW n \in Requests, AllocReuse(n)
        PROVE  \E M : Sound(B, L, M)'
    BY <1>0, <2>0, <2>1, ReuseKeeps
  <2>2. ASSUME NEW n \in Requests, AllocNew(n)
        PROVE  \E C : Sound(C, L, N)'
    BY <1>0, <2>0, <2>2, NewKeeps
  <2>3. ASSUME NEW n \in Requests, AllocDrops(n)
        PROVE  FALSE
    BY <2>3 DEF AllocDrops
  <2>4. ASSUME NEW b \in held, Free(b)
        PROVE  \E K, M : Sound(B, K, M)'
    <3>1. locked = "no"
      BY <2>4 DEF Free
    <3> QED BY <1>0, <2>0, <2>4, <3>1, FreeKeeps
  <2>5. ASSUME NEW b \in held, NEW v \in Junk, Store(b, v)
        PROVE  Sound(B, L, N)'
    BY <1>0, <2>0, <2>5, StoreKeeps
  <2>6. ASSUME NEW how \in {"no", "write", "all"}, Protect(how)
        PROVE  Sound(B, L, N)'
    <3>1. UNCHANGED <<bump, freelist, word, held>>
      BY <2>6 DEF Protect
    <3> QED BY <2>0, <3>1, SameKeeps
  <2>7. ASSUME UNCHANGED heapVars
        PROVE  Sound(B, L, N)'
    <3>1. UNCHANGED <<bump, freelist, word, held>>
      BY <2>7 DEF heapVars
    <3> QED BY <2>0, <3>1, SameKeeps
  <2> QED BY <1>2, <2>1, <2>2, <2>3, <2>4, <2>5, <2>6, <2>7 DEF Next
<1> QED BY <1>1, <1>2

-----------------------------------------------------------------------------
(* What the invariant gives *)

\* What can be reached from the head of a list is what is on it.
LEMMA ChainIs ==
  ASSUME GuestHeapAssumption, NEW B, NEW L, NEW N, Sound(B, L, N), NEW c \in Class
  PROVE  Chain(c) = {L[c][i] : i \in 1 .. N[c]}
<1> DEFINE on == {L[c][i] : i \in 1 .. N[c]}
           closed == {S \in SUBSET Addresses :
                        /\ freelist[c] \in S \cup {0}
                        /\ \A a \in S : word[a] \in S \cup {0}}
<1>1. /\ N[c] \in Nat /\ L[c][0] = 0 /\ freelist[c] = L[c][N[c]]
      /\ \A i \in 1 .. N[c] : word[L[c][i]] = L[c][i - 1]
  BY DEF Sound, Listed
<1>2. \A i \in 1 .. N[c] : L[c][i] \in Addresses /\ L[c][i] # 0
  <2> SUFFICES ASSUME NEW i \in 1 .. N[c] PROVE L[c][i] \in Addresses /\ L[c][i] # 0
    OBVIOUS
  <2>1. Block(L[c][i], c) \in B /\ Block(L[c][i], c).addr = L[c][i]
    BY DEF Sound, Owned, Block
  <2>2. /\ Block(L[c][i], c).addr \in Addresses
        /\ Block(L[c][i], c).addr \in Nat \ {0}
    BY <2>1, TileAt DEF Sound
  <2> QED BY <2>1, <2>2
<1>3. on \in closed
  <2>1. on \in SUBSET Addresses
    BY <1>2
  <2>2. freelist[c] \in on \cup {0}
    <3>1. N[c] = 0 \/ N[c] \in 1 .. N[c]
      BY <1>1
    <3> QED BY <1>1, <3>1
  <2>3. ASSUME NEW i \in 1 .. N[c]
        PROVE  word[L[c][i]] \in on \cup {0}
    <3>1. i - 1 = 0 \/ i - 1 \in 1 .. N[c]
      BY <1>1
    <3> QED BY <1>1, <3>1
  <2> QED BY <2>1, <2>2, <2>3
<1>4. ASSUME NEW S \in closed, NEW i \in 1 .. N[c]
      PROVE  L[c][i] \in S
  <2> DEFINE Bad == {m \in 0 .. N[c] - 1 : L[c][N[c] - m] \notin S}
  <2>1. SUFFICES ASSUME Bad # {} PROVE FALSE
    <3>1. N[c] - i \in 0 .. N[c] - 1 /\ N[c] - (N[c] - i) = i
      BY <1>1
    <3>2. N[c] - i \notin Bad
      BY <2>1
    <3> QED BY <3>1, <3>2
  <2>2. PICK m \in Bad : \A k \in Bad : m <= k
    <3>1. Bad \subseteq Nat
      BY <1>1
    <3> HIDE DEF Bad
    <3> QED BY <2>1, <3>1, LeastNat
  <2>3. m \in 0 .. N[c] - 1 /\ N[c] - m \in 1 .. N[c] /\ L[c][N[c] - m] \notin S
    BY <1>1, <2>2
  <2>4. CASE m = 0
    <3>1. N[c] - m = N[c] /\ freelist[c] \in S \cup {0}
      BY <1>1, <1>4, <2>4
    <3> QED BY <1>1, <1>2, <2>3, <3>1
  <2>5. CASE m # 0
    <3> DEFINE k == N[c] - (m - 1)
    <3>1. m - 1 \in 0 .. N[c] - 1 /\ ~(m <= m - 1) /\ k \in 1 .. N[c] /\ k - 1 = N[c] - m
      BY <1>1, <2>3, <2>5
    <3>2. L[c][k] \in S
      BY <2>2, <3>1
    <3> HIDE DEF k
    <3>3. word[L[c][k]] = L[c][N[c] - m]
      BY <1>1, <3>1
    <3>4. word[L[c][k]] \in S \cup {0}
      BY <1>4, <3>2
    <3> QED BY <1>2, <2>3, <3>3, <3>4
  <2> QED BY <2>4, <2>5
<1>5. Chain(c) = {a \in Addresses : \A S \in closed : a \in S}
  BY DEF Chain
<1> HIDE DEF closed
<1>6. ASSUME NEW a \in Chain(c)
      PROVE  a \in on
  BY <1>3, <1>5, <1>6
<1>7. ASSUME NEW a \in on
      PROVE  a \in Chain(c)
  BY <1>2, <1>4, <1>5, <1>7
<1> QED BY <1>6, <1>7

\* The blocks are those that are held and those on the lists, ...
LEMMA AllBlocks ==
  ASSUME GuestHeapAssumption, NEW B, NEW L, NEW N, Sound(B, L, N)
  PROVE  Free_ \cup Held_ = B /\ Free_ \cap Held_ = {}
<1>1. ASSUME NEW x \in Free_
      PROVE  \E c \in Class : \E i \in 1 .. N[c] : x = Block(L[c][i], c)
  <2>1. PICK c \in Class : x \in {Block(a, c) : a \in Chain(c)}
    BY <1>1 DEF Free_
  <2>2. Chain(c) = {L[c][i] : i \in 1 .. N[c]}
    BY ChainIs
  <2> QED BY <2>1, <2>2
<1>2. ASSUME NEW c \in Class, NEW i \in 1 .. N[c]
      PROVE  Block(L[c][i], c) \in Free_
  <2>1. Chain(c) = {L[c][j] : j \in 1 .. N[c]}
    BY ChainIs
  <2>2. Block(L[c][i], c) \in {Block(a, c) : a \in Chain(c)}
    BY <2>1
  <2> QED BY <2>2 DEF Free_
<1>3. ASSUME NEW x
      PROVE  x \in Free_ \cup Held_ <=> x \in B
  BY <1>1, <1>2 DEF Held_, Sound, Owned
<1>4. ASSUME NEW x \in Free_, x \in Held_
      PROVE  FALSE
  <2>1. PICK c \in Class : \E i \in 1 .. N[c] : x = Block(L[c][i], c)
    BY <1>1, <1>4
  <2>2. PICK i \in 1 .. N[c] : x = Block(L[c][i], c)
    BY <2>1
  <2>3. PICK b \in held : x = Block(b.addr, b.class)
    BY <1>4 DEF Held_
  <2>4. L[c][i] = b.addr
    BY <2>2, <2>3 DEF Block
  <2> QED BY <2>4 DEF Sound, Owned
<1> QED BY <1>3, <1>4

\* ... and each one held is held once.
LEMMA HeldOnce ==
  ASSUME NEW B, NEW L, NEW N, Sound(B, L, N), IsFiniteSet(held)
  PROVE  Cardinality(Held_) = Cardinality(held)
<1> DEFINE f == [b \in held |-> Block(b.addr, b.class)]
<1>1. f \in [held -> Held_]
  BY DEF Held_
<1>2. \A x \in Held_ : \E b \in held : f[b] = x
  BY DEF Held_
<1>3. ASSUME NEW b \in held, NEW d \in held, f[b] = f[d]
      PROVE  b = d
  <2>1. b.addr = d.addr
    BY <1>3 DEF Block
  <2> QED BY <2>1 DEF Sound, Owned
<1> HIDE DEF f
<1>4. f \in Bijection(held, Held_)
  BY <1>1, <1>2, <1>3 DEF Bijection, Injection, Surjection, IsInjective
<1>5. ExistsBijection(held, Held_)
  BY <1>4 DEF ExistsBijection
<1> QED BY <1>5, FS_Bijection

\* The bytes of blocks that tile are apart and are all there are.
LEMMA BytesTile ==
  ASSUME GuestHeapAssumption, bump \in Nat, NEW B, Tile(B)
  PROVE  /\ \A b \in B : Bytes(b) \subseteq HeapBase .. HeapBase + bump - 1
         /\ \A b, d \in B : b # d => Bytes(b) \cap Bytes(d) = {}
         /\ UNION {Bytes(b) : b \in B} = HeapBase .. HeapBase + bump - 1
<1>0. HeapBase \in Nat
  BY DEF GuestHeapAssumption
<1>1. \A b \in B : /\ b.addr \in Nat /\ End(b) \in Nat /\ HeapBase <= b.addr
                   /\ End(b) <= HeapBase + bump /\ Bytes(b) = b.addr .. End(b) - 1
  BY TileAt DEF Tile, Bytes, End
<1>2. ASSUME NEW b \in B
      PROVE  Bytes(b) \subseteq HeapBase .. HeapBase + bump - 1
  BY <1>0, <1>1
<1>3. ASSUME NEW b \in B, NEW d \in B, b # d
      PROVE  Bytes(b) \cap Bytes(d) = {}
  <2>1. End(b) <= d.addr \/ End(d) <= b.addr
    BY <1>3 DEF Tile
  <2> QED BY <1>1, <2>1
<1>4. ASSUME NEW x \in HeapBase .. HeapBase + bump - 1
      PROVE  x \in UNION {Bytes(b) : b \in B}
  <2>1. PICK b \in B : b.addr <= x /\ x < End(b)
    BY DEF Tile
  <2>2. x \in Bytes(b)
    BY <1>0, <1>1, <2>1
  <2> QED BY <2>2
<1> QED BY <1>2, <1>3, <1>4

\* Through every order of HeapAlloc and HeapFree, stores of the guest to its
\* own blocks and protections of the pages, no block is handed out that shares
\* a byte with another in use, as long as no link was lost.
THEOREM BlocksApartHolds ==
  ASSUME GuestHeapAssumption
  PROVE  Spec => []BlocksApart
<1>1. IInv => BlocksApart
  <2> SUFFICES ASSUME Typed, NEW B, NEW L, NEW N, Sound(B, L, N)
               PROVE  BlocksApart
    BY DEF IInv, BlocksApart
  <2>1. Free_ \cup Held_ = B /\ Free_ \cap Held_ = {}
    BY AllBlocks
  <2>2. Cardinality(Held_) = Cardinality(held)
    BY HeldOnce DEF Typed
  <2>3. /\ \A b \in B : Bytes(b) \subseteq HeapBase .. HeapBase + bump - 1
        /\ \A b, d \in B : b # d => Bytes(b) \cap Bytes(d) = {}
    BY BytesTile DEF Typed, Sound
  <2> QED BY <2>1, <2>2, <2>3 DEF BlocksApart
<1>2. (Init => IInv) /\ (IInv /\ [Next]_heapVars => IInv')
  BY InitInv, NextInv
<1> QED BY <1>1, <1>2, PTL DEF Spec

\* No byte cut from the heap is ever lost to both the guest and the lists.
THEOREM NoneLeakedHolds ==
  ASSUME GuestHeapAssumption
  PROVE  Spec => []NoneLeaked
<1>1. IInv => NoneLeaked
  <2> SUFFICES ASSUME Typed, NEW B, NEW L, NEW N, Sound(B, L, N)
               PROVE  NoneLeaked
    BY DEF IInv, NoneLeaked
  <2>1. Free_ \cup Held_ = B
    BY AllBlocks
  <2>2. UNION {Bytes(b) : b \in B} = HeapBase .. HeapBase + bump - 1
    BY BytesTile DEF Typed, Sound
  <2> QED BY <2>1, <2>2 DEF NoneLeaked
<1>2. (Init => IInv) /\ (IInv /\ [Next]_heapVars => IInv')
  BY InitInv, NextInv
<1> QED BY <1>1, <1>2, PTL DEF Spec

\* class_for rounds up: a block has the bytes that were asked for, unless that
\* is more than the largest class has.
THEOREM RoomyHolds ==
  ASSUME GuestHeapAssumption
  PROVE  Spec => []Roomy
<1>1. IInv => Roomy
  <2> SUFFICES ASSUME Typed, NEW b \in held,
                      b.bytes <= BlockSize[Classes - 1]
               PROVE  b.bytes <= BlockSize[b.class]
    BY DEF IInv, Roomy
  <2>1. b.bytes \in Requests /\ b.class = ClassFor(b.bytes)
    BY DEF Typed, Hold
  <2> QED BY <2>1, ClassForIs
<1>2. (Init => IInv) /\ (IInv /\ [Next]_heapVars => IInv')
  BY InitInv, NextInv
<1> QED BY <1>1, <1>2, PTL DEF Spec

=============================================================================
