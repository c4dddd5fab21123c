------------------------------- MODULE LogRing -------------------------------
(***************************************************************************)
(* The logger: emit() of any number of threads claims slots of a ring and  *)
(* publishes records in them without locks, flush_loop() prints them in    *)
(* order, and shutdown() stops the flush thread, which drains the ring a   *)
(* last time.  A record is known by its my_seq.                            *)
(*                                                                         *)
(* Every atomic operation is a step.  The fields of a record are written   *)
(* and read without synchronisation; a record printed while a producer is  *)
(* writing the slot is torn.                                               *)
(***************************************************************************)
EXTENDS Integers, Sequences, FiniteSets

CONSTANTS
  Producers,   \* threads that call emit
  N,           \* RING_CAPACITY
  Spins,       \* 16: how often emit looks at a slot that is not free
  MaxEmits     \* bound on the number of records

ASSUME LogRingAssumption ==
  N \in Nat \ {0} /\ Spins \in Nat \ {0} /\ MaxEmits \in Nat

Torn == -1
Nobody == -2

VARIABLES
  seq,       \* the sequence word of every slot
  rec,       \* the record whose fields the slot holds
  writeSeq, readSeq, running,
  ppc, mySeq, spins,   \* of every producer
  rpc, head, tail,     \* of the flush thread
  printed,   \* the records printed so far
  lapped     \* a producer has overwritten a record that was not drained yet

ringVars == <<seq, rec>>
prodVars == <<writeSeq, ppc, mySeq, spins, lapped>>
readVars == <<readSeq, rpc, head, tail, printed>>
vars == <<seq, rec, writeSeq, readSeq, running, ppc, mySeq, spins, rpc, head,
          tail, printed, lapped>>

Slots == 0 .. N - 1
MutSlotOf(k) == k % (N - 1)           \* mutant: off by one in the capacity
SlotOf(k) == k % N
Published(k) == 2 * (k + 1)           \* what emit stores when k is complete
Emptied(k) == Published(k) + 1        \* what flush_loop stores when k is drained

\* After init().
Init ==
  /\ seq = [s \in Slots |-> 0] /\ rec = [s \in Slots |-> Nobody]
  /\ writeSeq = 0 /\ readSeq = 0 /\ running = TRUE
  /\ ppc = [p \in Producers |-> "idle"]
  /\ mySeq = [p \in Producers |-> 0] /\ spins = [p \in Producers |-> 0]
  /\ rpc = "top" /\ head = 0 /\ tail = 0
  /\ printed = <<>> /\ lapped = FALSE

-----------------------------------------------------------------------------
(* emit *)

Goto(p, from, to) == ppc[p] = from /\ ppc' = [ppc EXCEPT ![p] = to]
Slot(p) == SlotOf(mySeq[p])

\* fetch_add; when the logger is not running emit prints straight to stderr.
Claim(p) ==
  /\ running /\ writeSeq < MaxEmits
  /\ Goto(p, "idle", "spin")
  /\ mySeq' = [mySeq EXCEPT ![p] = writeSeq]
  /\ writeSeq' = writeSeq + 1
  /\ spins' = [spins EXCEPT ![p] = 0]
  /\ UNCHANGED <<ringVars, running, readVars, lapped>>

\* The test for a free slot.  It gives up after Spins looks and goes on to
\* write all the same.
IsFree(p) == seq[Slot(p)] % 2 = 0 /\ seq[Slot(p)] <= 2 * mySeq[p]

Spin(p) ==
  /\ ~IsFree(p) /\ spins[p] < Spins
  /\ Goto(p, "spin", "spin")
  /\ spins' = [spins EXCEPT ![p] = spins[p] + 1]
  /\ UNCHANGED <<ringVars, writeSeq, mySeq, running, readVars, lapped>>

MutGivesUp(p) == FALSE              \* mutant: a slot that is not free is waited for
GivesUp(p) == spins[p] = Spins

Undrained(k) == k >= N /\ seq[SlotOf(k)] # Emptied(k - N)

BeginWrite(p) ==
  /\ IsFree(p) \/ GivesUp(p)
  /\ Goto(p, "spin", "write")
  /\ rec' = [rec EXCEPT ![Slot(p)] = mySeq[p]]
  /\ lapped' = (lapped \/ Undrained(mySeq[p]))
  /\ UNCHANGED <<seq, writeSeq, mySeq, spins, running, readVars>>

Publish(p) ==
  /\ Goto(p, "write", "idle")
  /\ seq' = [seq EXCEPT ![Slot(p)] = Published(mySeq[p])]
  /\ UNCHANGED <<rec, writeSeq, mySeq, spins, running, readVars, lapped>>

-----------------------------------------------------------------------------
(* flush_loop *)

BeingWritten(s) == \E p \in Producers : ppc[p] = "write" /\ Slot(p) = s
Read(s) == IF BeingWritten(s) THEN Torn ELSE rec[s]
MutReady == head < tail             \* mutant: unpublished records are printed
Ready == head < tail /\ seq[SlotOf(head)] = Published(head)

\* One turn of the outer loop: load running, read_seq and write_seq.
Top ==
  /\ rpc = "top"
  /\ rpc' = IF running THEN "check" ELSE "last"
  /\ head' = readSeq /\ tail' = writeSeq
  /\ UNCHANGED <<ringVars, prodVars, running, readSeq, printed>>

\* The next record is published: print it, then mark the slot.
Check ==
  /\ rpc = "check" /\ Ready
  /\ rpc' = "print"
  /\ UNCHANGED <<ringVars, prodVars, running, readSeq, head, tail, printed>>

PrintOne ==
  /\ rpc = "print"
  /\ rpc' = "mark"
  /\ printed' = Append(printed, Read(SlotOf(head)))
  /\ UNCHANGED <<ringVars, prodVars, running, readSeq, head, tail>>

Mark ==
  /\ rpc = "mark" /\ rpc' = "check"
  /\ seq' = [seq EXCEPT ![SlotOf(head)] = Emptied(head)]
  /\ head' = head + 1
  /\ UNCHANGED <<rec, prodVars, running, readSeq, tail, printed>>

\* Nothing more to print: store read_seq, and sleep if nothing was printed.
EndTurn ==
  /\ rpc = "check" /\ ~Ready
  /\ readSeq' = head
  /\ rpc' = IF head = readSeq THEN "sleep" ELSE "top"
  /\ UNCHANGED <<ringVars, prodVars, running, head, tail, printed>>

\* Notified, or after 50 ms.
MutWake ==                          \* mutant: no timeout, only shutdown wakes
  /\ rpc = "sleep" /\ ~running /\ rpc' = "top"
  /\ UNCHANGED <<ringVars, prodVars, running, readSeq, head, tail, printed>>
Wake ==
  /\ rpc = "sleep" /\ rpc' = "top"
  /\ UNCHANGED <<ringVars, prodVars, running, readSeq, head, tail, printed>>

\* The final drain skips what is not published, and marks nothing.
MutLastPrint ==                     \* mutant: the final drain steps by two
  /\ rpc = "last" /\ Ready
  /\ printed' = Append(printed, Read(SlotOf(head)))
  /\ head' = head + 2
  /\ UNCHANGED <<ringVars, prodVars, running, readSeq, rpc, tail>>
LastPrint ==
  /\ rpc = "last" /\ Ready
  /\ printed' = Append(printed, Read(SlotOf(head)))
  /\ head' = head + 1
  /\ UNCHANGED <<ringVars, prodVars, running, readSeq, rpc, tail>>

LastSkip ==
  /\ rpc = "last" /\ head < tail /\ ~Ready
  /\ head' = head + 1
  /\ UNCHANGED <<ringVars, prodVars, running, readSeq, rpc, tail, printed>>

MutLastEnd ==                       \* mutant: no final drain
  /\ rpc = "last" /\ rpc' = "ended"
  /\ UNCHANGED <<ringVars, prodVars, running, readSeq, head, tail, printed>>
LastEnd ==
  /\ rpc = "last" /\ head >= tail
  /\ rpc' = "ended"
  /\ UNCHANGED <<ringVars, prodVars, running, readSeq, head, tail, printed>>

\* shutdown(): the tester calls it last, when no thread is inside emit.
Shutdown ==
  /\ running /\ \A p \in Producers : ppc[p] = "idle"
  /\ running' = FALSE
  /\ UNCHANGED <<ringVars, prodVars, readVars>>

-----------------------------------------------------------------------------
Finish(p) == Spin(p) \/ BeginWrite(p) \/ Publish(p)
Reader == Top \/ Check \/ PrintOne \/ Mark \/ EndTurn \/ Wake
          \/ LastPrint \/ LastSkip \/ LastEnd

Next == (\E p \in Producers : Claim(p) \/ Finish(p)) \/ Reader \/ Shutdown

Spec == Init /\ [][Next]_vars

\* Threads are scheduled: an emit in progress and the flush loop go on.
\* Nobody has to log anything or to shut down.
FairSpec == Spec /\ WF_vars(Reader) /\ \A p \in Producers : WF_vars(Finish(p))

-----------------------------------------------------------------------------
(* Correctness *)

TypeOK ==
  /\ seq \in [Slots -> Nat]
  /\ rec \in [Slots -> Nat \cup {Nobody}]
  /\ writeSeq \in 0 .. MaxEmits /\ readSeq \in 0 .. MaxEmits
  /\ running \in BOOLEAN
  /\ ppc \in [Producers -> {"idle", "spin", "write"}]
  /\ mySeq \in [Producers -> 0 .. MaxEmits]
  /\ spins \in [Producers -> 0 .. Spins]
  /\ rpc \in {"top", "check", "print", "mark", "sleep", "last", "ended"}
  /\ head \in 0 .. MaxEmits /\ tail \in 0 .. MaxEmits
  /\ printed \in Seq(Nat \cup {Torn})
  /\ lapped \in BOOLEAN

\* As long as the producers have not lapped the flush thread, records are
\* printed whole, in the order they were claimed, each once and none missing.
PrintedInOrder == ~lapped => \A i \in 1 .. Len(printed) : printed[i] = i - 1

\* A number of write_seq_ does not lock its slot, and the test for a free slot
\* takes one that is published, or was never written, for free.  So two threads
\* can write one slot at once, but only after a lap: when one of them has gone
\* on to a slot whose record of the lap before is not drained.
Owners(s) == {p \in Producers : ppc[p] = "write" /\ Slot(p) = s}
OneWriter == \A s \in Slots : Cardinality(Owners(s)) > 1 => lapped

\* shutdown "flush[es]": when the flush thread ends, all is printed.
ShutdownDrains == rpc = "ended" /\ ~lapped => Len(printed) = writeSeq

\* A published record is printed, unless the producers lap the flush thread.
WasPrinted(k) == \E i \in 1 .. Len(printed) : printed[i] = k
IsPublished(k) == seq[SlotOf(k)] = Published(k)
EventuallyPrinted ==
  \A k \in 0 .. MaxEmits - 1 : IsPublished(k) ~> WasPrinted(k) \/ lapped

\* emit never waits for the flush thread for good (the hot path of the
\* emulator logs from it).
EmitReturns == \A p \in Producers : ppc[p] # "idle" ~> ppc[p] = "idle"

\* logger.cpp:4-5 "a flush thread drains in order and writes to stderr.  On
\* overflow we drop oldest unread records (writer wins)": what is not dropped
\* is still printed after an overflow.
OverflowDropsOldest ==
  \A k \in 0 .. MaxEmits - 1 :
    IsPublished(k) ~> WasPrinted(k) \/ seq[SlotOf(k)] > Published(k)

=============================================================================
