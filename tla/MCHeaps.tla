-------------------------------- MODULE MCHeaps --------------------------------
(* The two heaps, which share nothing: one of them is used.  StubHeap has   *)
(* seven granules of two bytes in a 5-bit address space, and the guest asks *)
(* it for every size and frees every pointer, its own or not.  Heap has     *)
(* classes of 2, 4 and 8 bytes in the same space.                           *)
EXTENDS StubHeap

CONSTANTS Align, Classes, HeapBase, HeapSize, HeapRequests, Junk
VARIABLES bump, freelist, word, locked, held, lost

heapVars == <<bump, freelist, word, locked, held, lost>>

MCWords == 0 .. Modulus - 1

Heap == INSTANCE GuestHeap WITH Requests <- HeapRequests

ASSUME HeapAssumption == Heap!GuestHeapAssumption

MCInit == Init /\ Heap!Init
MCNext ==
  \/ Heap!Init /\ Next /\ UNCHANGED heapVars
  \/ Init /\ Heap!Next /\ UNCHANGED vars
MCSpec == MCInit /\ [][MCNext]_<<vars, heapVars>>

HeapBlocksApart == Heap!BlocksApart
HeapNoneLeaked == Heap!NoneLeaked
HeapRoomy == Heap!Roomy

=============================================================================
