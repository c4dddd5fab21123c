----------------------------- MODULE FlatMemory -----------------------------
(***************************************************************************)
(* What a MemoryProvider promises the instruction handlers (memory.h): one *)
(* flat memory.  A read returns the current byte of every address of its   *)
(* range or fails because one of them is unmapped; a write changes the     *)
(* bytes of its range, or nothing; no other byte of the memory changes.    *)
(* There is no cache here and no copy-on-write: MemChain, over a target    *)
(* that stands still, implements this module.                              *)
(***************************************************************************)
EXTENDS Integers

CONSTANTS Addr, Accesses

Unmapped == -1
Byte == Nat \cup {Unmapped}

VARIABLES
  mem,     \* the current byte of every address, or Unmapped
  running, \* FALSE while the memory is being set up
  want,    \* range of the read in progress, or {}
  reply,   \* what the last successful read returned
  status

flatVars == <<mem, running, want, reply, status>>

Nothing == [a \in Addr |-> Unmapped]

Init ==
  /\ mem \in [Addr -> Byte]
  /\ running = FALSE
  /\ want = {} /\ reply = Nothing /\ status = "Ok"

\* Regions are reserved and filled before the guest starts.
SetUp ==
  /\ ~running
  /\ running' \in BOOLEAN
  /\ mem' \in [Addr -> Byte]
  /\ UNCHANGED <<want, reply, status>>

BeginRead(A) ==
  /\ running /\ want = {}
  /\ want' = A /\ reply' = Nothing /\ status' = "busy"
  /\ UNCHANGED <<mem, running>>

ReadOk ==
  /\ want # {}
  /\ \A a \in want : mem[a] # Unmapped
  /\ reply' = [a \in Addr |-> IF a \in want THEN mem[a] ELSE Unmapped]
  /\ want' = {} /\ status' = "Ok"
  /\ UNCHANGED <<mem, running>>

ReadFails ==
  /\ want # {}
  /\ \E a \in want : mem[a] = Unmapped
  /\ want' = {} /\ reply' = Nothing /\ status' = "UnmappedRead"
  /\ UNCHANGED <<mem, running>>

\* A write may make unmapped neighbours exist, as zeros; it changes no byte
\* that was there.
Write(A) ==
  /\ running /\ want = {}
  /\ mem' \in [Addr -> Byte]
  /\ \A a, b \in A : mem'[a] # Unmapped /\ mem'[a] = mem'[b]
  /\ \A a \in Addr \ A : mem[a] # Unmapped => mem'[a] = mem[a]
  /\ \A a \in Addr \ A : mem[a] = Unmapped => mem'[a] \in {Unmapped, 0}
  /\ reply' = Nothing /\ status' = "Written"
  /\ UNCHANGED <<running, want>>

WriteDenied ==
  /\ running /\ want = {}
  /\ reply' = Nothing /\ status' = "ProtectionViolation"
  /\ UNCHANGED <<mem, running, want>>

Next ==
  \/ SetUp
  \/ \E A \in Accesses : BeginRead(A) \/ Write(A)
  \/ ReadOk \/ ReadFails \/ WriteDenied

Spec == Init /\ [][Next]_flatVars

=============================================================================
