----------------------------- MODULE LogRingProofs -----------------------------
(***************************************************************************)
(* Proofs about LogRing, for any ring, threads and number of records.  The *)
(* inductive invariant says which records a slot may belong to: its        *)
(* sequence word runs through 0, Published(k), Emptied(k), Published(k+N), *)
(* ... as long as no producer laps the flush thread.                       *)
(***************************************************************************)
EXTENDS LogRing, FiniteSetTheorems, TLAPS

Active(p) == ppc[p] \in {"spin", "write"}

\* Where the flush thread is between what it has printed and what is claimed.
Bounds ==
  /\ readSeq <= head /\ head <= tail /\ tail <= writeSeq
  /\ rpc \in {"print", "mark"} => head < tail
  /\ rpc \in {"top", "sleep"} => head = readSeq
  /\ rpc \in {"last", "ended"} => ~running /\ tail = writeSeq
  /\ rpc = "ended" => head = tail

\* Every record has been claimed by one thread.
Claims ==
  /\ \A p \in Producers : Active(p) => mySeq[p] < writeSeq
  /\ \A p, q \in Producers : Active(p) /\ Active(q) /\ mySeq[p] = mySeq[q] => p = q
  /\ ~running => \A p \in Producers : ~Active(p)

\* The sequence word of the slot of record k when k may be written to it.
Before(k) == IF k < N THEN 0 ELSE Emptied(k - N)

\* A slot somebody has written to holds a record.
Filled ==
  /\ \A s \in Slots : seq[s] # 0 => rec[s] \in Nat
  /\ \A p \in Producers : ppc[p] = "write" => rec[Slot(p)] \in Nat
  /\ rpc \in {"print", "mark"} => rec[SlotOf(head)] \in Nat

Waiting == \A p \in Producers : ppc[p] = "spin" => seq[Slot(p)] < Published(mySeq[p])
Writing ==
  \A p \in Producers : ppc[p] = "write" =>
    seq[Slot(p)] = Before(mySeq[p]) /\ rec[Slot(p)] = mySeq[p]
Known ==
  \A s \in Slots :
    /\ seq[s] < Published(writeSeq)
    /\ seq[s] # 0 =>
         \E k \in Nat : SlotOf(k) = s /\ (seq[s] = Published(k) \/ seq[s] = Emptied(k))
Whole ==
  \A k \in Nat : seq[SlotOf(k)] = Published(k) =>
    rec[SlotOf(k)] = k /\ (k >= N => k - N < head)
Drained == \A k \in Nat : seq[SlotOf(k)] = Emptied(k) => k < head
Finished ==
  \A k \in Nat : k < writeSeq =>
    \/ \E p \in Producers : Active(p) /\ mySeq[p] = k
    \/ seq[SlotOf(k)] >= Published(k)
Current == rpc \in {"print", "mark"} => seq[SlotOf(head)] = Published(head)
Ring == Waiting /\ Writing /\ Known /\ Whole /\ Drained /\ Finished /\ Current

\* What has been printed.
Told ==
  /\ Len(printed) = head + IF rpc = "mark" THEN 1 ELSE 0
  /\ \A i \in 1 .. Len(printed) : printed[i] = i - 1

TInv == TypeOK /\ Bounds /\ Claims /\ Filled
Inv == TInv /\ (~lapped => Ring /\ Told)

-----------------------------------------------------------------------------
(* Slots *)

LEMMA Division ==
  ASSUME NEW a \in Nat, NEW b \in Nat \ {0}
  PROVE  a = b * (a \div b) + (a % b) /\ a \div b \in Nat /\ a % b \in 0 .. b - 1
OBVIOUS

LEMMA Remainder ==
  ASSUME NEW a \in Nat, NEW b \in Nat \ {0}, NEW q \in Nat, NEW r \in 0 .. b - 1,
         a = b * q + r
  PROVE  a % b = r
OBVIOUS

LEMMA SlotIs == \A k \in Nat : SlotOf(k) \in Slots /\ (k < N => SlotOf(k) = k)
BY LogRingAssumption DEF SlotOf, Slots

\* Two records in one slot are a whole number of laps apart.
LEMMA LapApart ==
  ASSUME NEW j \in Nat, NEW k \in Nat, j < k, SlotOf(j) = SlotOf(k)
  PROVE  j + N <= k
<1> DEFINE qj == j \div N
           qk == k \div N
           r == j % N
           rk == k % N
<1>1. N \in Nat \ {0}
  BY LogRingAssumption
<1>2. j = N * qj + r /\ qj \in Nat /\ r \in 0 .. N - 1
  BY <1>1, Division
<1>3. k = N * qk + rk /\ qk \in Nat /\ rk \in 0 .. N - 1
  BY <1>1, Division
<1>4. rk = r
  BY <1>1 DEF SlotOf
<1> HIDE DEF qj, qk, r, rk
<1>5. N * (qk - qj) > 0
  BY <1>1, <1>2, <1>3, <1>4
<1>6. qk > qj
  BY <1>1, <1>2, <1>3, <1>5
<1> QED BY <1>1, <1>2, <1>3, <1>4, <1>6

LEMMA LapBack ==
  ASSUME NEW k \in Nat, k >= N
  PROVE  k - N \in Nat /\ SlotOf(k - N) = SlotOf(k)
<1> DEFINE q == k \div N
           r == k % N
<1>1. N \in Nat \ {0}
  BY LogRingAssumption
<1>2. k = N * q + r /\ q \in Nat /\ r \in 0 .. N - 1
  BY <1>1, Division
<1>3. SlotOf(k) = r
  BY DEF SlotOf
<1> HIDE DEF q, r
<1>4. q > 0
  BY <1>1, <1>2
<1>5. k - N = N * (q - 1) + r /\ q - 1 \in Nat /\ k - N \in Nat
  BY <1>1, <1>2, <1>4
<1>6. (k - N) % N = r
  BY <1>1, <1>2, <1>5, Remainder
<1> QED BY <1>3, <1>5, <1>6 DEF SlotOf

\* What a slot holds before a record is written to it tells the record.
LEMMA BeforeTells ==
  ASSUME NEW j \in Nat, NEW k \in Nat, SlotOf(j) = SlotOf(k), Before(j) = Before(k)
  PROVE  j = k
<1>1. N \in Nat \ {0}
  BY LogRingAssumption
<1>2. CASE j < N /\ k < N
  BY <1>2, SlotIs
<1>3. CASE ~(j < N /\ k < N)
  BY <1>1, <1>3 DEF Before, Emptied, Published
<1> QED BY <1>2, <1>3

\* It is neither the word of a record that is published, nor more than it.
LEMMA BeforeIs ==
  ASSUME NEW k \in Nat
  PROVE  /\ Before(k) \in Nat /\ Before(k) < Published(k)
         /\ \A j \in Nat : Before(k) # Published(j)
<1>1. N \in Nat \ {0}
  BY LogRingAssumption
<1> QED BY <1>1 DEF Before, Emptied, Published

-----------------------------------------------------------------------------
(* Types, bounds and claims: they hold whether or not somebody is lapped. *)

LEMMA MySeqIs ==
  ASSUME TypeOK, NEW p \in Producers
  PROVE  /\ mySeq[p] \in Nat /\ mySeq[p] <= MaxEmits /\ Slot(p) \in Slots
         /\ Published(mySeq[p]) \in Nat \ {0}
<1>1. mySeq[p] \in 0 .. MaxEmits
  BY DEF TypeOK
<1> QED BY <1>1, SlotIs, LogRingAssumption DEF Slot, Published

LEMMA HeadIs ==
  ASSUME TypeOK
  PROVE  /\ head \in Nat /\ SlotOf(head) \in Slots
         /\ Published(head) \in Nat \ {0} /\ Emptied(head) \in Nat \ {0}
BY SlotIs, LogRingAssumption DEF TypeOK, Published, Emptied

LEMMA InitT == Init => TInv
<1> SUFFICES ASSUME Init PROVE TInv
  OBVIOUS
<1>1. TypeOK
  <2>1. printed \in Seq(Nat \cup {Torn}) /\ 0 \in Nat /\ 0 \in 0 .. MaxEmits /\ 0 \in 0 .. Spins
    BY LogRingAssumption DEF Init
  <2> QED BY <2>1 DEF Init, TypeOK
<1>2. Bounds
  BY DEF Init, Bounds
<1>3. Claims
  BY DEF Init, Claims, Active
<1>4. Filled
  BY DEF Init, Filled
<1> QED BY <1>1, <1>2, <1>3, <1>4 DEF TInv

LEMMA ProducerT ==
  ASSUME TInv, NEW p \in Producers, Claim(p) \/ Finish(p)
  PROVE  TInv'
<1> USE DEF TInv, Goto
<1>1. CASE Claim(p)
  <2>1. TypeOK'
    BY <1>1, LogRingAssumption DEF Claim, TypeOK, ringVars, readVars
  <2>2. Bounds'
    BY <1>1 DEF Claim, TypeOK, Bounds, readVars
  <2>3. Claims'
    BY <1>1 DEF Claim, TypeOK, Claims, Active
  <2>4. Filled'
    BY <1>1 DEF Claim, TypeOK, Filled, Slot, ringVars, readVars
  <2> QED BY <2>1, <2>2, <2>3, <2>4
<1>2. CASE Spin(p)
  <2>1. TypeOK'
    BY <1>2, LogRingAssumption DEF Spin, TypeOK, ringVars, readVars
  <2>2. Bounds'
    BY <1>2 DEF Spin, Bounds, readVars
  <2>3. Claims'
    BY <1>2 DEF Spin, TypeOK, Claims, Active
  <2>4. Filled'
    BY <1>2 DEF Spin, TypeOK, Filled, Slot, ringVars, readVars
  <2> QED BY <2>1, <2>2, <2>3, <2>4
<1>3. CASE BeginWrite(p)
  <2>1. TypeOK'
    BY <1>3, MySeqIs DEF BeginWrite, TypeOK, readVars
  <2>2. Bounds'
    BY <1>3 DEF BeginWrite, Bounds, readVars
  <2>3. Claims'
    BY <1>3 DEF BeginWrite, TypeOK, Claims, Active
  <2>4. Filled'
    <3>1. \A s : rec'[s] \in Nat \/ rec'[s] = rec[s]
      BY <1>3, MySeqIs DEF BeginWrite, TypeOK
    <3>2. rec'[Slot(p)] = mySeq[p] /\ mySeq[p] \in Nat
      BY <1>3, MySeqIs DEF BeginWrite, TypeOK
    <3>3. \A q \in Producers : Slot(q)' = Slot(q) /\ (q # p => ppc'[q] = ppc[q])
      BY <1>3 DEF BeginWrite, TypeOK, Slot
    <3> QED BY <1>3, <3>1, <3>2, <3>3 DEF BeginWrite, Filled, readVars
  <2> QED BY <2>1, <2>2, <2>3, <2>4
<1>4. CASE Publish(p)
  <2>1. TypeOK'
    BY <1>4, MySeqIs DEF Publish, TypeOK, readVars
  <2>2. Bounds'
    BY <1>4 DEF Publish, Bounds, readVars
  <2>3. Claims'
    BY <1>4 DEF Publish, TypeOK, Claims, Active
  <2>4. Filled'
    BY <1>4, MySeqIs DEF Publish, TypeOK, Filled, Slot, readVars
  <2> QED BY <2>1, <2>2, <2>3, <2>4
<1> QED BY <1>1, <1>2, <1>3, <1>4 DEF Finish

LEMMA PrintKeepsType ==
  ASSUME TypeOK, rec[SlotOf(head)] \in Nat, printed' = Append(printed, Read(SlotOf(head)))
  PROVE  printed' \in Seq(Nat \cup {Torn})
<1>1. Read(SlotOf(head)) \in Nat \cup {Torn}
  BY DEF Read
<1> QED BY <1>1 DEF TypeOK

LEMMA ReaderT ==
  ASSUME TInv, Reader \/ Shutdown
  PROVE  TInv'
<1> USE DEF TInv, ringVars, prodVars, readVars
<1>1. CASE Top
  <2>1. TypeOK'
    BY <1>1 DEF Top, TypeOK
  <2>2. Bounds'
    BY <1>1 DEF Top, Bounds, TypeOK
  <2>3. Claims' /\ Filled'
    BY <1>1 DEF Top, Claims, Active, Filled, Slot
  <2> QED BY <2>1, <2>2, <2>3
<1>2. CASE Check
  <2>1. TypeOK'
    BY <1>2 DEF Check, TypeOK
  <2>2. Bounds'
    BY <1>2 DEF Check, Ready, Bounds, TypeOK
  <2>3. Claims'
    BY <1>2 DEF Check, Claims, Active
  <2>4. Filled'
    BY <1>2, HeadIs DEF Check, Ready, Filled, Slot
  <2> QED BY <2>1, <2>2, <2>3, <2>4
<1>3. CASE PrintOne
  <2>1. TypeOK'
    BY <1>3, PrintKeepsType DEF PrintOne, TypeOK, Filled
  <2>2. Bounds'
    BY <1>3 DEF PrintOne, Bounds, TypeOK
  <2>3. Claims' /\ Filled'
    BY <1>3 DEF PrintOne, Claims, Active, Filled, Slot
  <2> QED BY <2>1, <2>2, <2>3
<1>4. CASE Mark
  <2>1. TypeOK'
    BY <1>4, HeadIs, LogRingAssumption DEF Mark, TypeOK, Bounds
  <2>2. Bounds'
    BY <1>4 DEF Mark, Bounds, TypeOK
  <2>3. Claims'
    BY <1>4 DEF Mark, Claims, Active
  <2>4. Filled'
    BY <1>4, HeadIs DEF Mark, TypeOK, Filled, Slot
  <2> QED BY <2>1, <2>2, <2>3, <2>4
<1>5. CASE EndTurn \/ Wake \/ LastEnd
  <2>1. TypeOK'
    BY <1>5 DEF EndTurn, Wake, LastEnd, TypeOK
  <2>2. Bounds'
    BY <1>5 DEF EndTurn, Wake, LastEnd, Bounds, TypeOK
  <2>3. Claims' /\ Filled'
    BY <1>5 DEF EndTurn, Wake, LastEnd, Claims, Active, Filled, Slot
  <2> QED BY <2>1, <2>2, <2>3
<1>6. CASE LastPrint
  <2>1. rec[SlotOf(head)] \in Nat
    BY <1>6, HeadIs DEF LastPrint, Ready, Filled
  <2>2. TypeOK'
    BY <1>6, <2>1, PrintKeepsType, LogRingAssumption DEF LastPrint, Ready, TypeOK, Bounds
  <2>3. Bounds'
    BY <1>6 DEF LastPrint, Ready, Bounds, TypeOK
  <2>4. Claims' /\ Filled'
    BY <1>6 DEF LastPrint, Claims, Active, Filled, Slot
  <2> QED BY <2>2, <2>3, <2>4
<1>7. CASE LastSkip
  <2>1. TypeOK'
    BY <1>7, LogRingAssumption DEF LastSkip, TypeOK, Bounds
  <2>2. Bounds'
    BY <1>7 DEF LastSkip, Bounds, TypeOK
  <2>3. Claims' /\ Filled'
    BY <1>7 DEF LastSkip, Claims, Active, Filled, Slot
  <2> QED BY <2>1, <2>2, <2>3
<1>8. CASE Shutdown
  <2>1. TypeOK'
    BY <1>8 DEF Shutdown, TypeOK
  <2>2. Bounds'
    BY <1>8 DEF Shutdown, Bounds
  <2>3. Claims' /\ Filled'
    BY <1>8 DEF Shutdown, Claims, Active, Filled, Slot
  <2> QED BY <2>1, <2>2, <2>3
<1> QED BY <1>1, <1>2, <1>3, <1>4, <1>5, <1>6, <1>7, <1>8 DEF Reader

-----------------------------------------------------------------------------
(* The ring, as long as nobody is lapped. *)

LEMMA InitR == Init => Ring /\ Told
<1> SUFFICES ASSUME Init PROVE Ring /\ Told
  OBVIOUS
<1>1. \A k \in Nat : SlotOf(k) \in Slots /\ seq[SlotOf(k)] = 0
  BY SlotIs DEF Init
<1>2. Waiting /\ Writing /\ Current /\ Told
  BY DEF Init, Waiting, Writing, Current, Told
<1>3. Known
  BY DEF Init, Known, Published
<1>4. Whole
  BY <1>1 DEF Whole, Published
<1>5. Drained
  BY <1>1 DEF Drained, Emptied, Published
<1>6. Finished
  BY DEF Init, Finished
<1> QED BY <1>2, <1>3, <1>4, <1>5, <1>6 DEF Ring

\* Steps of the flush thread and of shutdown() that leave the ring alone.
LEMMA QuietRing ==
  ASSUME TInv, Ring, UNCHANGED <<seq, rec, ppc, mySeq, writeSeq>>,
         head' \in Nat, head <= head', Current'
  PROVE  Ring'
<1>1. Waiting' /\ Writing'
  BY DEF Ring, Waiting, Writing, Slot
<1>2. Known'
  BY DEF Ring, Known
<1>3. Whole'
  BY LogRingAssumption DEF Ring, Whole, TInv, TypeOK
<1>4. Drained'
  BY DEF Ring, Drained, TInv, TypeOK
<1>5. Finished'
  BY DEF Ring, Finished, Active
<1> QED BY <1>1, <1>2, <1>3, <1>4, <1>5 DEF Ring

LEMMA ClaimR ==
  ASSUME TInv, Ring, NEW p \in Producers, Claim(p)
  PROVE  Ring'
<1> USE DEF ringVars, readVars, Goto
<1>1. /\ UNCHANGED <<seq, rec, head, rpc>> /\ writeSeq \in Nat /\ writeSeq' = writeSeq + 1
      /\ mySeq'[p] = writeSeq /\ ppc'[p] = "spin" /\ ppc[p] = "idle"
      /\ \A q \in Producers : q # p => mySeq'[q] = mySeq[q] /\ ppc'[q] = ppc[q]
  BY LogRingAssumption DEF Claim, TInv, TypeOK
<1>2. Waiting'
  <2>1. seq[SlotOf(writeSeq)] < Published(writeSeq)
    BY <1>1, SlotIs DEF Ring, Known
  <2> QED BY <1>1, <2>1 DEF Ring, Waiting, Slot
<1>3. Writing'
  BY <1>1 DEF Ring, Writing, Slot
<1>4. Known'
  <2>1. ASSUME NEW s \in Slots PROVE seq[s] < Published(writeSeq')
    BY <1>1 DEF Ring, Known, Published, TInv, TypeOK
  <2> QED BY <1>1, <2>1 DEF Ring, Known
<1>5. Whole' /\ Drained' /\ Current'
  BY <1>1 DEF Ring, Whole, Drained, Current
<1>6. Finished'
  <2> SUFFICES ASSUME NEW k \in Nat, k < writeSeq'
               PROVE  \/ \E q \in Producers : Active(q)' /\ mySeq'[q] = k
                      \/ seq[SlotOf(k)] >= Published(k)
    BY <1>1 DEF Finished
  <2>1. CASE k = writeSeq
    BY <1>1, <2>1 DEF Active
  <2>2. CASE k < writeSeq
    <3>1. \A q \in Producers : Active(q) => q # p /\ Active(q)' /\ mySeq'[q] = mySeq[q]
      BY <1>1 DEF Active
    <3> QED BY <2>2, <3>1 DEF Ring, Finished
  <2> QED BY <1>1, <2>1, <2>2
<1> QED BY <1>2, <1>3, <1>4, <1>5, <1>6 DEF Ring

\* A slot that is written to without lapping holds what precedes the record.
LEMMA SlotReady ==
  ASSUME TInv, Ring, NEW p \in Producers, BeginWrite(p), ~lapped'
  PROVE  seq[Slot(p)] = Before(mySeq[p])
<1> DEFINE k == mySeq[p]
<1>1. ppc[p] = "spin" /\ ~Undrained(k)
  BY DEF BeginWrite, Goto
<1>2. N \in Nat \ {0} /\ k \in Nat /\ SlotOf(k) \in Slots /\ Slot(p) = SlotOf(k)
  BY MySeqIs, LogRingAssumption DEF TInv, Slot
<1>3. CASE k >= N
  BY <1>1, <1>2, <1>3 DEF Undrained, Before
<1>4. CASE k < N
  <2>1. seq[SlotOf(k)] < Published(k)
    BY <1>1, <1>2 DEF Ring, Waiting
  <2>2. ASSUME seq[SlotOf(k)] # 0 PROVE FALSE
    <3>1. PICK j \in Nat : /\ SlotOf(j) = SlotOf(k)
                           /\ seq[SlotOf(k)] = Published(j) \/ seq[SlotOf(k)] = Emptied(j)
      BY <1>2, <2>2 DEF Ring, Known
    <3> HIDE DEF k
    <3>2. j < k
      BY <1>2, <2>1, <3>1 DEF Published, Emptied
    <3>3. j + N <= k
      BY <1>2, <3>1, <3>2, LapApart
    <3> QED BY <1>2, <1>4, <3>3
  <2> QED BY <1>2, <1>4, <2>2 DEF Before
<1> QED BY <1>2, <1>3, <1>4

LEMMA BeginWriteR ==
  ASSUME TInv, Ring, NEW p \in Producers, BeginWrite(p), ~lapped'
  PROVE  Ring'
<1> DEFINE k == mySeq[p]
           s == Slot(p)
<1>1. /\ UNCHANGED <<seq, mySeq, writeSeq, head, rpc>>
      /\ ppc'[p] = "write" /\ ppc[p] = "spin" /\ \A q \in Producers : q # p => ppc'[q] = ppc[q]
      /\ rec'[s] = k /\ \A t \in Slots : t # s => rec'[t] = rec[t]
  BY MySeqIs DEF BeginWrite, Goto, TInv, TypeOK, readVars
<1>2. k \in Nat /\ s = SlotOf(k) /\ s \in Slots /\ seq[s] = Before(k)
  BY SlotReady, MySeqIs DEF TInv, Slot
<1>3. Waiting'
  BY <1>1 DEF Ring, Waiting, Slot
<1>4. Writing'
  <2> SUFFICES ASSUME NEW q \in Producers, ppc'[q] = "write"
               PROVE  seq[Slot(q)] = Before(mySeq[q]) /\ rec'[Slot(q)] = mySeq[q]
    BY <1>1 DEF Writing, Slot
  <2>1. CASE q = p
    BY <1>1, <1>2, <2>1
  <2>2. CASE q # p
    <3>1. ppc[q] = "write" /\ seq[Slot(q)] = Before(mySeq[q]) /\ rec[Slot(q)] = mySeq[q]
      BY <1>1, <2>2 DEF Ring, Writing
    <3>2. mySeq[q] \in Nat /\ Slot(q) = SlotOf(mySeq[q]) /\ Slot(q) \in Slots
      BY MySeqIs DEF TInv, Slot
    <3>3. mySeq[q] # k
      BY <1>1, <2>2, <3>1 DEF TInv, Claims, Active
    <3>4. Slot(q) # s
      BY <1>2, <3>1, <3>2, <3>3, BeforeTells
    <3> QED BY <1>1, <3>1, <3>2, <3>4
  <2> QED BY <2>1, <2>2
<1>5. Known' /\ Drained' /\ Current'
  BY <1>1 DEF Ring, Known, Drained, Current
<1>6. Whole'
  <2> SUFFICES ASSUME NEW j \in Nat, seq[SlotOf(j)] = Published(j)
               PROVE  rec'[SlotOf(j)] = j /\ (j >= N => j - N < head)
    BY <1>1 DEF Whole
  <2>1. SlotOf(j) # s
    BY <1>2, BeforeIs
  <2> QED BY <1>1, <2>1, SlotIs DEF Ring, Whole
<1>7. Finished'
  <2>1. \A q \in Producers : Active(q) => Active(q)'
    BY <1>1 DEF Active
  <2> QED BY <1>1, <2>1 DEF Ring, Finished
<1> QED BY <1>3, <1>4, <1>5, <1>6, <1>7 DEF Ring

\* Two records that may both be written to a slot differ by laps: the word the
\* later one waits for is beyond the earlier one.
LEMMA EarlierIsPast ==
  ASSUME NEW j \in Nat, NEW k \in Nat, j < k, SlotOf(j) = SlotOf(k)
  PROVE  Published(j) < Before(k)
<1>1. N \in Nat \ {0} /\ j + N <= k
  BY LogRingAssumption, LapApart
<1> QED BY <1>1 DEF Before, Emptied, Published

LEMMA PublishR ==
  ASSUME TInv, Ring, NEW p \in Producers, Publish(p)
  PROVE  Ring'
<1> DEFINE k == mySeq[p]
           s == Slot(p)
<1>1. /\ UNCHANGED <<rec, mySeq, writeSeq, head, rpc>>
      /\ ppc'[p] = "idle" /\ ppc[p] = "write" /\ \A q \in Producers : q # p => ppc'[q] = ppc[q]
      /\ seq'[s] = Published(k) /\ \A t \in Slots : t # s => seq'[t] = seq[t]
  BY MySeqIs DEF Publish, Goto, TInv, TypeOK, readVars
<1>2. /\ k \in Nat /\ s = SlotOf(k) /\ s \in Slots /\ k < writeSeq /\ writeSeq \in Nat
      /\ seq[s] = Before(k) /\ rec[s] = k
  BY <1>1, MySeqIs DEF TInv, TypeOK, Claims, Active, Ring, Writing, Slot
<1>3. \A q \in Producers : /\ mySeq[q] \in Nat /\ Slot(q) = SlotOf(mySeq[q])
                           /\ Slot(q) \in Slots /\ Slot(q)' = Slot(q)
  BY <1>1, MySeqIs DEF TInv, Slot
<1> HIDE DEF k, s
<1>4. Waiting'
  <2> SUFFICES ASSUME NEW q \in Producers, ppc'[q] = "spin"
               PROVE  seq'[Slot(q)] < Published(mySeq[q])
    BY <1>1, <1>3 DEF Waiting
  <2>1. ppc[q] = "spin" /\ seq[Slot(q)] < Published(mySeq[q]) /\ mySeq[q] # k
    BY <1>1 DEF Ring, Waiting, TInv, Claims, Active, k
  <2>2. CASE Slot(q) = s
    <3>1. ~(mySeq[q] < k)
      BY <1>2, <1>3, <2>1, <2>2, EarlierIsPast, BeforeIs DEF Published
    <3> QED BY <1>1, <1>2, <1>3, <2>1, <2>2, <3>1 DEF Published
  <2>3. CASE Slot(q) # s
    BY <1>1, <1>3, <2>1, <2>3
  <2> QED BY <2>2, <2>3
<1>5. Writing'
  <2> SUFFICES ASSUME NEW q \in Producers, ppc'[q] = "write"
               PROVE  seq'[Slot(q)] = Before(mySeq[q]) /\ rec[Slot(q)] = mySeq[q]
    BY <1>1, <1>3 DEF Writing
  <2>1. /\ ppc[q] = "write" /\ q # p /\ mySeq[q] # k
        /\ seq[Slot(q)] = Before(mySeq[q]) /\ rec[Slot(q)] = mySeq[q]
    BY <1>1 DEF Ring, Writing, TInv, Claims, Active, k
  <2>2. Slot(q) # s
    BY <1>2, <1>3, <2>1, BeforeTells
  <2> QED BY <1>1, <1>3, <2>1, <2>2
<1>6. Known'
  <2> SUFFICES ASSUME NEW t \in Slots
               PROVE  /\ seq'[t] < Published(writeSeq)
                      /\ seq'[t] # 0 => \E j \in Nat : /\ SlotOf(j) = t
                                                       /\ \/ seq'[t] = Published(j)
                                                          \/ seq'[t] = Emptied(j)
    BY <1>1 DEF Known
  <2>1. CASE t = s
    BY <1>1, <1>2, <2>1 DEF Published
  <2>2. CASE t # s
    BY <1>1, <2>2 DEF Ring, Known
  <2> QED BY <2>1, <2>2
<1>7. Whole'
  <2> SUFFICES ASSUME NEW j \in Nat, seq'[SlotOf(j)] = Published(j)
               PROVE  rec[SlotOf(j)] = j /\ (j >= N => j - N < head)
    BY <1>1 DEF Whole
  <2>1. CASE SlotOf(j) = s
    <3>1. j = k
      BY <1>1, <1>2, <2>1 DEF Published
    <3>2. ASSUME k >= N PROVE k - N < head
      <4>1. k - N \in Nat /\ SlotOf(k - N) = s
        BY <1>2, <3>2, LapBack
      <4>2. seq[s] = Emptied(k - N)
        BY <1>2, <3>2, LogRingAssumption DEF Before
      <4> QED BY <4>1, <4>2 DEF Ring, Drained
    <3> QED BY <1>2, <3>1, <3>2
  <2>2. CASE SlotOf(j) # s
    BY <1>1, <2>2, SlotIs DEF Ring, Whole
  <2> QED BY <2>1, <2>2
<1>8. Drained'
  <2> SUFFICES ASSUME NEW j \in Nat, seq'[SlotOf(j)] = Emptied(j) PROVE j < head
    BY <1>1 DEF Drained
  <2>1. SlotOf(j) # s
    BY <1>1, <1>2 DEF Published, Emptied
  <2> QED BY <1>1, <2>1, SlotIs DEF Ring, Drained
<1>9. Finished'
  <2> SUFFICES ASSUME NEW j \in Nat, j < writeSeq
               PROVE  \/ \E q \in Producers : Active(q)' /\ mySeq[q] = j
                      \/ seq'[SlotOf(j)] >= Published(j)
    BY <1>1 DEF Finished
  <2>1. CASE j = k
    BY <1>1, <1>2, <2>1 DEF Published
  <2>2. CASE j # k /\ \E q \in Producers : Active(q) /\ mySeq[q] = j
    <3>1. \A q \in Producers : q # p /\ Active(q) => Active(q)'
      BY <1>1 DEF Active
    <3> QED BY <2>2, <3>1 DEF k
  <2>3. CASE j # k /\ seq[SlotOf(j)] >= Published(j)
    <3>1. CASE SlotOf(j) = s
      BY <1>1, <1>2, <2>3, <3>1, BeforeIs DEF Published
    <3>2. CASE SlotOf(j) # s
      BY <1>1, <2>3, <3>2, SlotIs
    <3> QED BY <3>1, <3>2
  <2> QED BY <2>1, <2>2, <2>3 DEF Ring, Finished
<1>10. Current'
  <2> SUFFICES ASSUME rpc \in {"print", "mark"}
               PROVE  seq'[SlotOf(head)] = Published(head)
    BY <1>1 DEF Current
  <2>1. seq[SlotOf(head)] = Published(head) /\ head \in Nat /\ SlotOf(head) \in Slots
    BY HeadIs DEF Ring, Current, TInv
  <2>2. SlotOf(head) # s
    BY <1>2, <2>1, BeforeIs
  <2> QED BY <1>1, <2>1, <2>2
<1> QED BY <1>4, <1>5, <1>6, <1>7, <1>8, <1>9, <1>10 DEF Ring

LEMMA SpinR ==
  ASSUME Ring, NEW p \in Producers, Spin(p), TInv
  PROVE  Ring'
<1>1. UNCHANGED <<seq, rec, ppc, mySeq, writeSeq, head, rpc>>
  BY DEF Spin, Goto, TInv, TypeOK, ringVars, readVars
<1> QED BY <1>1, QuietRing DEF Ring, Current, TInv, TypeOK

LEMMA MarkR ==
  ASSUME TInv, Ring, Mark
  PROVE  Ring'
<1> DEFINE h == head
           s == SlotOf(head)
<1>1. /\ UNCHANGED <<rec, mySeq, writeSeq, ppc>> /\ head' = h + 1 /\ rpc' = "check"
      /\ seq'[s] = Emptied(h) /\ \A t \in Slots : t # s => seq'[t] = seq[t]
  BY HeadIs DEF Mark, TInv, TypeOK, prodVars
<1>2. /\ h \in Nat /\ s = SlotOf(h) /\ s \in Slots /\ h < writeSeq /\ writeSeq \in Nat
      /\ seq[s] = Published(h)
  BY HeadIs DEF Mark, TInv, TypeOK, Bounds, Ring, Current
<1>3. \A q \in Producers : /\ mySeq[q] \in Nat /\ Slot(q) = SlotOf(mySeq[q])
                           /\ Slot(q) \in Slots /\ Slot(q)' = Slot(q)
  BY <1>1, MySeqIs DEF TInv, Slot
<1>4. \A t \in Slots : seq[t] \in Nat
  BY DEF TInv, TypeOK
<1> HIDE DEF h, s
<1>5. Waiting'
  <2> SUFFICES ASSUME NEW q \in Producers, ppc[q] = "spin"
               PROVE  seq'[Slot(q)] < Published(mySeq[q])
    BY <1>1, <1>3 DEF Waiting
  <2>1. seq[Slot(q)] < Published(mySeq[q])
    BY DEF Ring, Waiting
  <2>2. CASE Slot(q) = s
    BY <1>1, <1>2, <1>3, <2>1, <2>2 DEF Published, Emptied
  <2>3. CASE Slot(q) # s
    BY <1>1, <1>3, <2>1, <2>3
  <2> QED BY <2>2, <2>3
<1>6. Writing'
  <2> SUFFICES ASSUME NEW q \in Producers, ppc[q] = "write"
               PROVE  seq'[Slot(q)] = Before(mySeq[q]) /\ rec[Slot(q)] = mySeq[q]
    BY <1>1, <1>3 DEF Writing
  <2>1. seq[Slot(q)] = Before(mySeq[q]) /\ rec[Slot(q)] = mySeq[q]
    BY DEF Ring, Writing
  <2>2. Slot(q) # s
    BY <1>2, <1>3, <2>1, BeforeIs
  <2> QED BY <1>1, <1>3, <2>1, <2>2
<1>7. Known'
  <2> SUFFICES ASSUME NEW t \in Slots
               PROVE  /\ seq'[t] < Published(writeSeq)
                      /\ seq'[t] # 0 => \E j \in Nat : /\ SlotOf(j) = t
                                                       /\ \/ seq'[t] = Published(j)
                                                          \/ seq'[t] = Emptied(j)
    BY <1>1 DEF Known
  <2>1. CASE t = s
    BY <1>1, <1>2, <2>1 DEF Published, Emptied
  <2>2. CASE t # s
    BY <1>1, <2>2 DEF Ring, Known
  <2> QED BY <2>1, <2>2
<1>8. Whole'
  <2> SUFFICES ASSUME NEW j \in Nat, seq'[SlotOf(j)] = Published(j)
               PROVE  rec[SlotOf(j)] = j /\ (j >= N => j - N < head')
    BY <1>1 DEF Whole
  <2>1. SlotOf(j) # s
    BY <1>1, <1>2 DEF Published, Emptied
  <2>2. rec[SlotOf(j)] = j /\ (j >= N => j - N < head)
    BY <1>1, <2>1, SlotIs DEF Ring, Whole
  <2> QED BY <1>1, <1>2, <2>2, LogRingAssumption DEF h
<1>9. Drained'
  <2> SUFFICES ASSUME NEW j \in Nat, seq'[SlotOf(j)] = Emptied(j) PROVE j < head'
    BY <1>1 DEF Drained
  <2>1. CASE SlotOf(j) = s
    BY <1>1, <1>2, <2>1 DEF Emptied, Published
  <2>2. CASE SlotOf(j) # s
    <3>1. j < head
      BY <1>1, <2>2, SlotIs DEF Ring, Drained
    <3> QED BY <1>1, <1>2, <3>1 DEF h
  <2> QED BY <2>1, <2>2
<1>10. Finished'
  <2>1. ASSUME NEW j \in Nat, seq[SlotOf(j)] >= Published(j)
        PROVE  seq'[SlotOf(j)] >= Published(j)
    <3>1. CASE SlotOf(j) = s
      BY <1>1, <1>2, <2>1, <3>1 DEF Published, Emptied
    <3>2. CASE SlotOf(j) # s
      BY <1>1, <2>1, <3>2, SlotIs
    <3> QED BY <3>1, <3>2
  <2>2. \A q \in Producers : Active(q) => Active(q)'
    BY <1>1 DEF Active
  <2> QED BY <1>1, <2>1, <2>2 DEF Ring, Finished
<1>11. Current'
  BY <1>1 DEF Current
<1> QED BY <1>5, <1>6, <1>7, <1>8, <1>9, <1>10, <1>11 DEF Ring

LEMMA ReaderR ==
  ASSUME TInv, Ring, Reader \/ Shutdown
  PROVE  Ring'
<1> USE DEF ringVars, prodVars, readVars
<1>1. CASE Mark
  BY <1>1, MarkR
<1>2. CASE Top \/ Check \/ PrintOne \/ EndTurn \/ Wake \/ LastPrint \/ LastSkip \/ LastEnd
           \/ Shutdown
  <2>1. UNCHANGED <<seq, rec, ppc, mySeq, writeSeq>>
    BY <1>2 DEF Top, Check, PrintOne, EndTurn, Wake, LastPrint, LastSkip, LastEnd, Shutdown
  <2>2. head' \in Nat /\ head <= head'
    BY <1>2 DEF Top, Check, PrintOne, EndTurn, Wake, LastPrint, LastSkip, LastEnd, Shutdown,
                TInv, TypeOK, Bounds
  <2>3. Current'
    BY <1>2, HeadIs DEF Top, Check, PrintOne, EndTurn, Wake, LastPrint, LastSkip, LastEnd,
                Shutdown, Ring, Current, Ready, TInv
  <2> QED BY <2>1, <2>2, <2>3, QuietRing
<1> QED BY <1>1, <1>2 DEF Reader

-----------------------------------------------------------------------------
(* What is printed *)

\* A record that is published is whole when it is printed.
LEMMA ReadWhole ==
  ASSUME TInv, Ring, seq[SlotOf(head)] = Published(head)
  PROVE  Read(SlotOf(head)) = head
<1>1. head \in Nat /\ SlotOf(head) \in Slots
  BY HeadIs DEF TInv
<1>2. rec[SlotOf(head)] = head
  BY <1>1 DEF Ring, Whole
<1>3. ASSUME NEW p \in Producers, ppc[p] = "write", Slot(p) = SlotOf(head) PROVE FALSE
  <2>1. seq[SlotOf(head)] = Before(mySeq[p]) /\ mySeq[p] \in Nat
    BY <1>3, MySeqIs DEF Ring, Writing, TInv
  <2> QED BY <1>1, <2>1, BeforeIs
<1> QED BY <1>2, <1>3 DEF Read, BeingWritten

LEMMA PrintNext ==
  ASSUME TInv, Told, Len(printed) = head, printed' = Append(printed, head)
  PROVE  /\ Len(printed') = head + 1
         /\ \A i \in 1 .. Len(printed') : printed'[i] = i - 1
<1>1. printed \in Seq(Nat \cup {Torn}) /\ head \in Nat
  BY DEF TInv, TypeOK
<1> QED BY <1>1 DEF Told

\* When every emit has returned, the flush thread finds no gap.
LEMMA NoGap ==
  ASSUME TInv, Ring, ~running, head < writeSeq
  PROVE  seq[SlotOf(head)] = Published(head)
<1> DEFINE h == head
           s == SlotOf(head)
<1>1. h \in Nat /\ s \in Slots /\ seq[s] \in Nat
  BY HeadIs DEF TInv, TypeOK
<1>2. seq[s] >= Published(h)
  BY <1>1 DEF Ring, Finished, TInv, Claims
<1>3. seq[s] # 0
  BY <1>1, <1>2 DEF Published
<1>4. PICK j \in Nat : SlotOf(j) = s /\ (seq[s] = Published(j) \/ seq[s] = Emptied(j))
  BY <1>1, <1>3 DEF Ring, Known
<1>5. CASE seq[s] = Emptied(j)
  <2>1. j < h
    BY <1>4, <1>5 DEF Ring, Drained
  <2> QED BY <1>1, <1>2, <1>4, <1>5, <2>1 DEF Published, Emptied
<1>6. CASE seq[s] = Published(j)
  <2>1. j >= N => j - N < h
    BY <1>4, <1>6 DEF Ring, Whole
  <2>2. ~(h < j)
    <3> SUFFICES ASSUME h < j PROVE FALSE
      OBVIOUS
    <3>1. h + N <= j
      BY <1>1, <1>4, LapApart
    <3> QED BY <1>1, <1>4, <2>1, <3>1, LogRingAssumption
  <2>3. j = h
    BY <1>1, <1>2, <1>4, <1>6, <2>2 DEF Published
  <2> QED BY <1>6, <2>3
<1> QED BY <1>4, <1>5, <1>6

LEMMA ToldStep ==
  ASSUME TInv, Ring, Told, Next
  PROVE  Told'
<1> USE DEF prodVars, readVars
<1>1. CASE UNCHANGED <<printed, head>> /\ (rpc' = "mark" <=> rpc = "mark")
  BY <1>1 DEF Told
<1>2. CASE PrintOne
  <2>1. Read(SlotOf(head)) = head
    BY <1>2, ReadWhole DEF PrintOne, Ring, Current
  <2>2. Len(printed) = head
    BY <1>2 DEF PrintOne, Told, TInv, TypeOK
  <2> QED BY <1>2, <2>1, <2>2, PrintNext DEF PrintOne, Told
<1>3. CASE Mark
  BY <1>3 DEF Mark, Told, TInv, TypeOK
<1>4. CASE LastPrint
  <2>1. Read(SlotOf(head)) = head
    BY <1>4, ReadWhole DEF LastPrint, Ready
  <2>2. Len(printed) = head
    BY <1>4 DEF LastPrint, Told, TInv, TypeOK
  <2> QED BY <1>4, <2>1, <2>2, PrintNext DEF LastPrint, Told, TInv, TypeOK
<1>5. ~LastSkip
  BY NoGap DEF LastSkip, Ready, TInv, Bounds
<1>6. CASE \E p \in Producers : Claim(p) \/ Finish(p)
  BY <1>1, <1>6 DEF Claim, Finish, Spin, BeginWrite, Publish
<1>7. CASE Top \/ Check \/ EndTurn \/ Wake \/ LastEnd \/ Shutdown
  BY <1>1, <1>7 DEF Top, Check, EndTurn, Wake, LastEnd, Shutdown, TInv, Bounds
<1> QED BY <1>2, <1>3, <1>4, <1>5, <1>6, <1>7 DEF Next, Reader

-----------------------------------------------------------------------------
LEMMA NextInv == Inv /\ [Next]_vars => Inv'
<1> SUFFICES ASSUME Inv, [Next]_vars PROVE Inv'
  OBVIOUS
<1>1. CASE UNCHANGED vars
  BY <1>1 DEF vars, Inv, TInv, TypeOK, Bounds, Claims, Filled, Active, Slot,
              Ring, Waiting, Writing, Known, Whole, Drained, Finished, Current, Told
<1>2. ASSUME NEW p \in Producers, Claim(p) \/ Finish(p) PROVE Inv'
  <2>1. TInv'
    BY <1>2, ProducerT DEF Inv
  <2>2. ~lapped' => ~lapped
    BY <1>2 DEF Claim, Finish, Spin, BeginWrite, Publish, Inv, TInv, TypeOK
  <2>3. ~lapped' => Ring'
    BY <1>2, <2>2, ClaimR, SpinR, BeginWriteR, PublishR DEF Inv, Finish
  <2>4. ~lapped' => Told'
    BY <1>2, <2>2, ToldStep DEF Inv, Next
  <2> QED BY <2>1, <2>3, <2>4 DEF Inv
<1>3. CASE Reader \/ Shutdown
  <2>1. TInv'
    BY <1>3, ReaderT DEF Inv
  <2>2. ~lapped' => ~lapped
    BY <1>3 DEF Reader, Top, Check, PrintOne, Mark, EndTurn, Wake, LastPrint, LastSkip,
                LastEnd, Shutdown, prodVars
  <2>3. ~lapped' => Ring' /\ Told'
    BY <1>3, <2>2, ReaderR, ToldStep DEF Inv, Next
  <2> QED BY <2>1, <2>3 DEF Inv
<1> QED BY <1>1, <1>2, <1>3 DEF Next

LEMMA InitInv == Init => Inv
BY InitT, InitR DEF Inv

\* The state of the logger keeps its types: in particular no record is printed
\* from a slot that nobody has written, even when the ring overflows.
THEOREM TypeCorrect == Spec => []TypeOK
<1>1. Inv => TypeOK
  BY DEF Inv, TInv
<1> QED BY <1>1, InitInv, NextInv, PTL DEF Spec

\* As long as no producer laps the flush thread, what it has printed is
\* records 0, 1, 2, ... whole and without a gap: for a ring of any capacity,
\* any number of threads and any order of the steps of emit() and flush_loop().
THEOREM PrintedInOrderHolds == Spec => []PrintedInOrder
<1>1. Inv => PrintedInOrder
  BY DEF Inv, Told, PrintedInOrder
<1> QED BY <1>1, InitInv, NextInv, PTL DEF Spec

\* Two threads in emit() fill in one slot at the same time only after a lap:
\* somebody has gone on to a slot that was not drained, after his Spins looks
\* or because the test for a free slot let him.
THEOREM OneWriterHolds == Spec => []OneWriter
<1>1. Inv => OneWriter
  <2> SUFFICES ASSUME Inv, ~lapped, NEW s \in Slots PROVE ~(Cardinality(Owners(s)) > 1)
    BY DEF OneWriter
  <2>1. ASSUME NEW p \in Owners(s), NEW q \in Owners(s) PROVE p = q
    <3>1. /\ p \in Producers /\ ppc[p] = "write" /\ Slot(p) = s
          /\ q \in Producers /\ ppc[q] = "write" /\ Slot(q) = s
      BY <2>1 DEF Owners
    <3>2. Before(mySeq[p]) = Before(mySeq[q])
      BY <3>1 DEF Inv, Ring, Writing
    <3>3. mySeq[p] = mySeq[q]
      BY <3>1, <3>2, MySeqIs, BeforeTells DEF Inv, TInv, Slot
    <3> QED BY <3>1, <3>3 DEF Inv, TInv, Claims, Active
  <2>2. CASE Owners(s) = {}
    BY <2>2, FS_EmptySet
  <2>3. CASE Owners(s) # {}
    <3>1. PICK p : p \in Owners(s)
      BY <2>3
    <3>2. Owners(s) = {p}
      BY <2>1, <3>1
    <3>3. Cardinality({p}) = 1
      BY FS_Singleton
    <3> QED BY <3>2, <3>3
  <2> QED BY <2>2, <2>3
<1> QED BY <1>1, InitInv, NextInv, PTL DEF Spec

\* When shutdown() has joined the flush thread, every record that was claimed
\* has been printed (no emit is in progress then: the tester's order).
THEOREM ShutdownDrainsHolds == Spec => []ShutdownDrains
<1>1. Inv => ShutdownDrains
  BY DEF Inv, TInv, TypeOK, Bounds, Told, ShutdownDrains
<1> QED BY <1>1, InitInv, NextInv, PTL DEF Spec

=============================================================================
