------------------------------- MODULE GuestHeap -------------------------------
(***************************************************************************)
(* Heap, the size-class allocator over private guest memory: a bump        *)
(* pointer, and for each class a list of freed blocks whose next pointers  *)
(* are kept in the blocks themselves, where the guest and the protection   *)
(* of the pages decide what becomes of them.                               *)
(***************************************************************************)
EXTENDS Integers, FiniteSets

CONSTANTS
  HeapBase, HeapSize,
  Align,      \* 16
  Classes,    \* 16 size classes
  Modulus,    \* 2^64
  Requests,   \* sizes the guest may ask for
  Junk        \* what the guest may store

VARIABLES
  bump,      \* bump_
  freelist,  \* freelist_: the first block of a class, 0 when there is none
  word,      \* the first word of each block, in guest memory
  locked,    \* the guest has protected the heap: "no", "write", "all"
  held,      \* history: blocks the guest holds, [addr, class, bytes]
  lost       \* history: a link was not written, or a list was dropped

heapVars == <<bump, freelist, word, locked, held, lost>>

Class == 0 .. Classes - 1
Addresses == {HeapBase + i * Align : i \in 0 .. HeapSize \div Align}
BlockSize[c \in Class] == IF c = 0 THEN Align ELSE 2 * BlockSize[c - 1]

\* What is assumed of the constants; the largest class is far from wrapping.
GuestHeapAssumption ==
  /\ HeapBase \in Nat \ {0} /\ HeapSize \in Nat
  /\ Align \in Nat \ {0} /\ Classes \in Nat \ {0}
  /\ HeapBase + HeapSize < Modulus /\ Modulus \in Nat
  /\ BlockSize[Classes - 1] + Align <= Modulus
  /\ Requests \subseteq 0 .. Modulus - 1

\* class_for: the least class that is large enough, or else the last.
MutClassFor(bytes) ==               \* mutant: rounds down
  CHOOSE c \in Class :
    /\ BlockSize[c] <= bytes \/ c = 0
    /\ \A d \in Class : BlockSize[d] <= bytes => d <= c
ClassFor(bytes) ==
  LET least == IF bytes < Align THEN Align ELSE bytes
      up    == (least + Align - 1) % Modulus
      sz    == up - (up % Align)
  IN  CHOOSE c \in Class :
        /\ c = Classes - 1 \/ BlockSize[c] >= sz
        /\ \A d \in 0 .. c - 1 : BlockSize[d] < sz

Block(a, c) == [addr |-> a, class |-> c]
Hold(a, bytes) == [addr |-> a, class |-> ClassFor(bytes), bytes |-> bytes]

Init ==
  /\ bump = 0
  /\ freelist = [c \in Class |-> 0]
  /\ word = [a \in Addresses |-> 0]
  /\ locked = "no" /\ held = {} /\ lost = FALSE

-----------------------------------------------------------------------------
\* The first block of the list of its class, ...
MutNextOf(head) == 0                \* mutant: the rest of the list is dropped
NextOf(head) == word[head]
AllocReuse(bytes) ==
  LET c == ClassFor(bytes) IN
  /\ bytes # 0 /\ freelist[c] # 0 /\ locked # "all"
  /\ freelist' = [freelist EXCEPT ![c] = NextOf(freelist[c])]
  /\ held' = held \cup {Hold(freelist[c], bytes)}
  /\ UNCHANGED <<bump, word, locked, lost>>

\* ... or a new one; a list that cannot be read is dropped.
Bumped(bytes) ==
  LET size == BlockSize[ClassFor(bytes)] IN
  IF bump + size > HeapSize THEN UNCHANGED <<bump, held>>
  ELSE bump' = bump + size /\ held' = held \cup {Hold(HeapBase + bump, bytes)}
AllocNew(bytes) ==
  /\ bytes # 0 /\ freelist[ClassFor(bytes)] = 0
  /\ Bumped(bytes)
  /\ UNCHANGED <<freelist, word, locked, lost>>
AllocDrops(bytes) ==
  LET c == ClassFor(bytes) IN
  /\ bytes # 0 /\ freelist[c] # 0 /\ locked = "all"
  /\ freelist' = [freelist EXCEPT ![c] = 0]
  /\ lost' = TRUE
  /\ Bumped(bytes)
  /\ UNCHANGED <<word, locked>>

\* The guest frees what it holds, with the size it asked for; the link is
\* stored in the block, and whether that succeeds is not looked at.
MutLinked(b) == word                \* mutant: no link is stored
Linked(b) == [word EXCEPT ![b.addr] = freelist[ClassFor(b.bytes)]]
Free(b) ==
  /\ b \in held
  /\ freelist' = [freelist EXCEPT ![ClassFor(b.bytes)] = b.addr]
  /\ IF locked = "no"
     THEN word' = Linked(b) /\ UNCHANGED lost
     ELSE lost' = TRUE /\ UNCHANGED word
  /\ held' = held \ {b}
  /\ UNCHANGED <<bump, locked>>

\* The guest uses its blocks, and protects the pages of the heap.
Store(b, v) ==
  /\ b \in held /\ locked = "no"
  /\ word' = [word EXCEPT ![b.addr] = v]
  /\ UNCHANGED <<bump, freelist, locked, held, lost>>
Protect(how) ==
  /\ locked' = how
  /\ UNCHANGED <<bump, freelist, word, held, lost>>

\* Nothing is promised, and no call followed, once a link is lost.
Next ==
  \/ /\ ~lost
     /\ \/ \E n \in Requests : AllocReuse(n) \/ AllocNew(n) \/ AllocDrops(n)
        \/ \E b \in held : Free(b)
        \/ \E b \in held, v \in Junk : Store(b, v)
  \/ \E how \in {"no", "write", "all"} : Protect(how)

Spec == Init /\ [][Next]_heapVars

-----------------------------------------------------------------------------
\* The blocks on the list of class c: those that can be reached from its head,
\* which are in every set that holds the head and where its links lead.
Chain(c) ==
  LET closed == {S \in SUBSET Addresses :
                   /\ freelist[c] \in S \cup {0}
                   /\ \A a \in S : word[a] \in S \cup {0}}
  IN  {a \in Addresses : \A S \in closed : a \in S}
Free_ == UNION {{Block(a, c) : a \in Chain(c)} : c \in Class}
Held_ == {Block(b.addr, b.class) : b \in held}

Bytes(b) == b.addr .. b.addr + BlockSize[b.class] - 1

\* No two blocks, of the guest or on the lists, share a byte: a list whose
\* links are guest memory never leads into a block that is in use.
BlocksApart ==
  ~lost =>
    LET all == Free_ \cup Held_ IN
    /\ Free_ \cap Held_ = {}
    /\ Cardinality(Held_) = Cardinality(held)
    /\ \A b \in all : Bytes(b) \subseteq HeapBase .. HeapBase + bump - 1
    /\ \A b, d \in all : b # d => Bytes(b) \cap Bytes(d) = {}

\* Every byte handed out once is in use or on a list: nothing leaks, through
\* any order of calls.
NoneLeaked ==
  ~lost => UNION {Bytes(b) : b \in Free_ \cup Held_} = HeapBase .. HeapBase + bump - 1

\* A block has room for what was asked, when the largest class has.
Roomy ==
  \A b \in held : b.bytes <= BlockSize[Classes - 1] => b.bytes <= BlockSize[b.class]

=============================================================================
