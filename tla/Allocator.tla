------------------------------ MODULE Allocator ------------------------------
(***************************************************************************)
(* What the guest may expect of HeapAlloc and HeapFree: blocks inside the  *)
(* heap region, aligned, at least as large as asked for, disjoint from all *)
(* blocks in use; failure only when no gap between them is large enough;   *)
(* a block is given back by its address, and only once.                    *)
(***************************************************************************)
EXTENDS Integers

CONSTANTS Base, Size, Granule, Requests, Pointers

VARIABLES
  live,   \* the blocks in use: [addr, size]
  reply   \* the pointer alloc returned, or 1 or 0 from free

RoundUp(n) == ((n + Granule - 1) \div Granule) * Granule

Gap(p, n) ==
  /\ p % Granule = Base % Granule
  /\ Base <= p /\ p + n <= Base + Size
  /\ \A b \in live : p + n <= b.addr \/ b.addr + b.size <= p

Init == live = {} /\ reply = 0

Alloc(n) ==
  \E p \in Pointers :
    /\ n > 0 /\ Gap(p, RoundUp(n))
    /\ live' = live \cup {[addr |-> p, size |-> RoundUp(n)]}
    /\ reply' = p

AllocFails(n) ==
  /\ n = 0 \/ \A p \in Pointers : ~Gap(p, RoundUp(n))
  /\ reply' = 0 /\ UNCHANGED live

Free(p) ==
  LET at == {b \in live : b.addr = p}
  IN  live' = live \ at /\ reply' = IF p = 0 \/ at # {} THEN 1 ELSE 0

Next ==
  \/ \E n \in Requests : Alloc(n) \/ AllocFails(n)
  \/ \E p \in Pointers : Free(p)

Spec == Init /\ [][Next]_<<live, reply>>

=============================================================================
