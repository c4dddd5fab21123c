-------------------------- MODULE DispatcherProofs --------------------------
(***************************************************************************)
(* Proofs about Dispatcher, for any code, any number of CPUs and any       *)
(* budgets.  Inv is the inductive strengthening of the invariants of the   *)
(* run loop: where the loop stands, what it has executed, and what it may  *)
(* be about to execute.                                                    *)
(***************************************************************************)
EXTENDS Dispatcher, TLAPS, WellFoundedInduction, SequenceTheorems

Block == Seq(Kind \ {"bad"})

\* The replay loop is inside its block and has budget left.
Replaying ==
  phase = "replay" => /\ idx \in 1 .. Len(cur.insns) /\ rip = cur.pc + idx - 1
                      /\ executed < limit

\* The loop is at a stop address only before its first instruction.
AtStop == phase \in {"fetch", "replay"} /\ rip \in Stops => executed = 0

Inv == TypeOK /\ Replaying /\ BudgetKept /\ AtStop

-----------------------------------------------------------------------------
(* decode_block *)

\* A set of natural numbers that is not empty has a least element.
LEMMA LeastNat ==
  ASSUME NEW S, S \subseteq Nat, S # {}
  PROVE  \E m \in S : \A k \in S : m <= k
<1> DEFINE R == {ss \in Nat \X Nat : ss[1] < ss[2]}
<1>1. IsWellFoundedOn(R, Nat)
  BY NatLessThanWellFounded, Zenon DEF OpToRel
<1>2. PICK x \in S : \A y \in S : ~(<<y, x>> \in R)
  <2> HIDE DEF R
  <2> QED BY <1>1, WFMin
<1>3. \A y \in S : ~(y < x)
  BY <1>2
<1> QED BY <1>2, <1>3

\* A read finds an instruction; the current one if no cache holds an older one.
LEMMA SeenIs ==
  ASSUME TypeOK, NEW a \in Addr
  PROVE  Seen(a) \in Kind /\ (above[a] = <<>> => Seen(a) = code[a])
<1>1. above[a] \in Seq(Kind) /\ code[a] \in Kind
  BY DEF TypeOK
<1> QED BY <1>1 DEF Seen

\* decode_block returns instructions that the memory chain delivers, all of
\* which decode.
LEMMA DecodeBlockIs ==
  ASSUME TypeOK, NEW pc \in Addr
  PROVE  /\ DecodeBlock(pc) \in Block
         /\ \A k \in 1 .. Len(DecodeBlock(pc)) :
              pc + k - 1 \in Addr /\ Seen(pc + k - 1) = DecodeBlock(pc)[k]
<1> DEFINE Longest(m) == CanDecode(pc, m) /\ \A k \in m + 1 .. BlockMax : ~CanDecode(pc, k)
           Left == {BlockMax - m : m \in {k \in 0 .. BlockMax : CanDecode(pc, k)}}
           n == CHOOSE m \in 0 .. BlockMax : Longest(m)
<1>0. BlockMax \in Nat /\ Addr \subseteq Int
  BY DispatcherAssumption
<1>1. CanDecode(pc, 0)
  BY DEF CanDecode
<1>2. \E m \in 0 .. BlockMax : Longest(m)
  <2>1. Left \subseteq Nat /\ Left # {}
    BY <1>0, <1>1
  <2>2. PICK l \in Left : \A k \in Left : l <= k
    <3> HIDE DEF Left
    <3> QED BY <2>1, LeastNat
  <2>3. PICK m \in 0 .. BlockMax : CanDecode(pc, m) /\ l = BlockMax - m
    BY <2>2
  <2>4. ASSUME NEW k \in m + 1 .. BlockMax, CanDecode(pc, k)
        PROVE  FALSE
    <3>1. BlockMax - k \in Left
      BY <1>0, <2>4
    <3>2. l <= BlockMax - k
      <4> HIDE DEF Left
      <4> QED BY <2>2, <3>1
    <3> QED BY <1>0, <2>3, <3>2
  <2> QED BY <2>3, <2>4
<1>3. n \in 0 .. BlockMax /\ Longest(n)
  <2> HIDE DEF Longest
  <2> QED BY <1>2
<1>4. DecodeBlock(pc) = [k \in 1 .. n |-> Seen(pc + k - 1)]
  BY DEF DecodeBlock
<1> HIDE DEF n
<1>5. n \in Nat /\ \A k \in 1 .. n : pc + k - 1 \in Addr /\ Seen(pc + k - 1) \in Kind \ {"bad"}
  <2>1. CanDecode(pc, n) /\ n \in Nat
    BY <1>0, <1>3
  <2>2. ASSUME NEW k \in 1 .. n
        PROVE  pc + k - 1 \in Addr /\ Seen(pc + k - 1) \in Kind \ {"bad"}
    <3>1. k - 1 \in 0 .. n - 1 /\ pc + (k - 1) = pc + k - 1
      BY <1>0, <2>1
    <3> QED BY <2>1, <3>1, SeenIs DEF CanDecode
  <2> QED BY <2>1, <2>2
<1>6. Len(DecodeBlock(pc)) = n
  BY <1>4, <1>5
<1> QED BY <1>4, <1>5, <1>6 DEF Block

-----------------------------------------------------------------------------
(* The invariant *)

\* The type of the code and of what is kept of it.
CacheType ==
  /\ code \in [Addr -> Kind] /\ above \in [Addr -> Seq(Kind)] /\ hidden \subseteq Writable
  /\ blocks \in [Addr -> Block]

\* A write to code leaves code and cached blocks well typed.
LEMMA WriteShadowType ==
  ASSUME TypeOK, NEW a \in Writable, NEW k \in Kind, WriteShadow(a, k)
  PROVE  code' \in [Addr -> Kind] /\ blocks' \in [Addr -> Block]
<1>1. code' \in [Addr -> Kind]
  BY DEF WriteShadow, TypeOK
<1>2. blocks \in [Addr -> Block] /\ <<>> \in Block
  BY DEF TypeOK, Block
<1>3. blocks' \in [Addr -> Block]
  BY <1>2 DEF WriteShadow
<1> QED BY <1>1, <1>3

LEMMA WriteCodeType ==
  ASSUME TypeOK, NEW a \in Writable, NEW k \in Kind, WriteCode(a, k)
  PROVE  CacheType'
<1>1. above' \in [Addr -> Seq(Kind)]
  <2>1. <<>> \in Seq(Kind)
    OBVIOUS
  <2> QED BY <2>1 DEF WriteCode, TypeOK
<1> QED BY <1>1, WriteShadowType DEF WriteCode, TypeOK, CacheType

\* What an instruction handler leaves behind, whichever way the loop goes on.
LEMMA ExecuteType ==
  ASSUME TypeOK, Execute
  PROVE  /\ CacheType'
         /\ executed' = executed + 1 /\ executed' \in Nat
         /\ stack' \in 0 .. MaxStack
         /\ UNCHANGED <<cpu, limit>> /\ phase = "replay"
<1>1. CASE UNCHANGED cacheVars
  BY <1>1 DEF Execute, TypeOK, CacheType, cacheVars, memVars, Block
<1>2. CASE \E a \in Writable, k \in Kind : WriteCode(a, k)
  BY <1>2, WriteCodeType DEF Execute, TypeOK
<1> QED BY <1>1, <1>2 DEF Execute

\* The block and the position in it, at the end of the replay loop.
LEMMA EndBlockType ==
  ASSUME EndBlock
  PROVE  cur' \in [pc : Int, insns : Block] /\ idx' \in Nat \ {0}
<1>1. <<>> \in Block
  BY DEF Block
<1> QED BY <1>1 DEF EndBlock, NoBlock

\* The stop check made on leaving the replay loop.
LEMMA LeaveBlockIs ==
  ASSUME TypeOK, LeaveBlock
  PROVE  /\ phase' \in {"idle", "fetch"} /\ status' \in {"Ok", "Error", "Internal", "DecodeError"}
         /\ phase' = "fetch" => rip' \notin Stops
BY DEF LeaveBlock, Return, TypeOK

\* The invariant holds before the first run.
LEMMA InitInv == Init => Inv
<1> SUFFICES ASSUME Init PROVE Inv
  OBVIOUS
<1>1. /\ Addr \subseteq Int /\ MaxStack \in Nat /\ InitCode \subseteq [Addr -> Kind]
      /\ <<>> \in Block
  BY DispatcherAssumption DEF Block
<1>2. TypeOK
  <2>1. code \in [Addr -> Kind] /\ rip \in Int /\ stack \in 0 .. MaxStack
    BY <1>1 DEF Init
  <2>2. blocks \in [Addr -> Block] /\ cur \in [pc : Int, insns : Block]
    BY <1>1 DEF Init, NoBlock
  <2>7. above \in [Addr -> Seq(Kind)] /\ hidden \subseteq Writable
    <3>1. <<>> \in Seq(Kind)
      OBVIOUS
    <3> QED BY <3>1 DEF Init
  <2>3. /\ phase \in {"idle", "fetch", "replay", "crashed"} /\ cpu \in Cpus
        /\ status \in {"Ok", "Error", "Internal", "DecodeError"}
    BY DEF Init
  <2>4. halted \in BOOLEAN
    BY DEF Init
  <2>5. fault \in [Cpus -> {"none", "trap", "error"}]
    BY DEF Init
  <2>6. idx \in Nat \ {0} /\ executed \in Nat /\ limit \in Budgets \cup {0}
    BY DEF Init
  <2> QED BY <2>1, <2>2, <2>3, <2>4, <2>5, <2>6, <2>7 DEF TypeOK, Block
<1>3. Replaying /\ BudgetKept /\ AtStop
  BY DEF Init, Replaying, BudgetKept, AtStop
<1> QED BY <1>2, <1>3 DEF Inv

\* The host's steps between two runs preserve the invariant.
LEMMA HostInv ==
  ASSUME Inv, Host
  PROVE  Inv'
<1>0. /\ Addr \subseteq Int /\ Targets \subseteq Int /\ MaxStack \in Nat /\ Budgets \subseteq Nat
      /\ Writable \subseteq Addr
  BY DispatcherAssumption DEF Targets
<1>1. ASSUME NEW c \in Cpus, NEW e \in Targets, NEW max \in Budgets, NEW depth \in 0 .. MaxStack,
             StartRun(c, e, max, depth)
      PROVE  Inv'
  <2>1. TypeOK'
    BY <1>0, <1>1 DEF Inv, TypeOK, StartRun, cacheVars, memVars, blockVars
  <2>2. executed' = 0 /\ limit' \in Nat /\ phase' = "fetch"
    BY <1>0, <1>1 DEF StartRun
  <2> QED BY <2>1, <2>2 DEF Inv, Replaying, BudgetKept, AtStop
<1>2. ASSUME NEW a \in Writable, NEW k \in Kind, HostWrite(a, k)
      PROVE  Inv'
  <2>1. CacheType'
    BY <1>2, WriteCodeType DEF HostWrite, Inv
  <2>2. UNCHANGED <<phase, cpu, rip, halted, stack, fault, cur, idx,
                    executed, limit, status>>
    BY <1>2 DEF HostWrite, cpuVars, blockVars
  <2> QED BY <2>1, <2>2 DEF Inv, TypeOK, CacheType, Block, Replaying, BudgetKept, AtStop
<1>4. ASSUME NEW a \in Writable, NEW k \in Kind, HostWriteBelow(a, k)
      PROVE  Inv'
  <2>1. code' \in [Addr -> Kind] /\ blocks' \in [Addr -> Block]
    BY <1>4, WriteShadowType DEF HostWriteBelow, Inv
  <2>2. above' \in [Addr -> Seq(Kind)] /\ hidden' \subseteq Writable
    <3>1. Append(above[a], code[a]) \in Seq(Kind)
      BY <1>0 DEF Inv, TypeOK
    <3> QED BY <1>4, <3>1 DEF HostWriteBelow, Inv, TypeOK
  <2>3. UNCHANGED <<phase, cpu, rip, halted, stack, fault, cur, idx,
                    executed, limit, status>>
    BY <1>4 DEF HostWriteBelow, cpuVars, blockVars
  <2> QED BY <2>1, <2>2, <2>3 DEF Inv, TypeOK, Block, Replaying, BudgetKept, AtStop
<1>3. ASSUME HostClear PROVE Inv'
  <2>1. UNCHANGED <<code, above, hidden, phase, cpu, rip, halted, stack, fault, cur, idx,
                    executed, limit, status>>
    BY <1>3 DEF HostClear, memVars, cpuVars, blockVars
  <2>2. blocks' \in [Addr -> Seq(Kind \ {"bad"})]
    <3>1. <<>> \in Seq(Kind \ {"bad"})
      OBVIOUS
    <3> QED BY <1>3, <3>1 DEF HostClear
  <2> QED BY <2>1, <2>2 DEF Inv, TypeOK, Replaying, BudgetKept, AtStop
<1> QED BY <1>1, <1>2, <1>3, <1>4 DEF Host

\* Without one of its elements, a sequence of instructions is one still.
LEMMA WithoutType ==
  ASSUME NEW s \in Seq(Kind), NEW i \in 1 .. Len(s)
  PROVE  SubSeq(s, 1, i - 1) \o SubSeq(s, i + 1, Len(s)) \in Seq(Kind)
<1>1. SubSeq(s, 1, i - 1) \in Seq(Kind)
  OBVIOUS
<1>2. SubSeq(s, i + 1, Len(s)) \in Seq(Kind)
  OBVIOUS
<1> QED BY <1>1, <1>2, ConcatProperties, Zenon

\* A copy that a cache gives up changes nothing else.
LEMMA CachesInv ==
  ASSUME Inv, Caches
  PROVE  Inv'
<1>1. PICK a \in Addr : \E i \in 1 .. Len(above[a]) : GiveUp(a, i)
  BY DEF Caches
<1>2. above' \in [Addr -> Seq(Kind)]
  BY <1>1, WithoutType DEF GiveUp, Inv, TypeOK
<1>3. UNCHANGED <<code, hidden, blocks, phase, cpu, rip, halted, stack, fault, cur, idx,
                  executed, limit, status>>
  BY <1>1 DEF GiveUp, cpuVars, blockVars
<1> QED BY <1>2, <1>3 DEF Inv, TypeOK, Replaying, BudgetKept, AtStop

\* The steps at the top of the loop preserve the invariant.
LEMMA TopInv ==
  ASSUME Inv,
         \/ RunEnds \/ StubFails \/ DecodeFails
         \/ \E to \in Targets, halts \in BOOLEAN : StubReturn(to, halts)
         \/ \E halts \in BOOLEAN : FetchBlock(halts)
  PROVE  Inv'
<1>0. Addr \subseteq Int /\ Targets \subseteq Int /\ MaxStack \in Nat
  BY DispatcherAssumption DEF Targets
<1>1. CASE RunEnds \/ DecodeFails
  BY <1>1 DEF RunEnds, DecodeFails, Return, cacheVars, memVars, cpuVars, blockVars,
              Inv, TypeOK, Replaying, BudgetKept, AtStop
<1>2. CASE StubFails
  <2>1. fault' \in [Cpus -> {"none", "trap", "error"}]
    BY <1>2 DEF StubFails, Inv, TypeOK
  <2> QED
    BY <1>2, <2>1 DEF StubFails, Return, cacheVars, memVars, blockVars,
                      Inv, TypeOK, Replaying, BudgetKept, AtStop
<1>3. ASSUME NEW to \in Targets, NEW halts \in BOOLEAN, StubReturn(to, halts)
      PROVE  Inv'
  <2>1. /\ rip' = to /\ halted' = halts /\ stack' \in 0 .. MaxStack
        /\ UNCHANGED <<cpu, fault, cur, idx, executed, limit>>
    BY <1>0, <1>3 DEF StubReturn, Inv, TypeOK, blockVars
  <2>2. LeaveBlock
    BY <1>3 DEF StubReturn
  <2>3. CacheType'
    <3>1. CASE UNCHANGED cacheVars
      BY <3>1 DEF Inv, TypeOK, CacheType, cacheVars, memVars, Block
    <3> QED BY <1>3, <3>1, WriteCodeType DEF StubReturn, Inv
  <2> QED
    BY <1>0, <2>1, <2>2, <2>3, LeaveBlockIs DEF Inv, TypeOK, CacheType, Block, Replaying, BudgetKept, AtStop
<1>4. ASSUME NEW halts \in BOOLEAN, FetchBlock(halts)
      PROVE  Inv'
  <2> DEFINE block == IF blocks[rip] # <<>> THEN blocks[rip] ELSE DecodeBlock(rip)
  <2>1. /\ rip \in Addr /\ InLoop /\ block # <<>>
        /\ blocks' = [blocks EXCEPT ![rip] = block]
        /\ cur' = [pc |-> rip, insns |-> block]
        /\ idx' = 1 /\ halted' = halts /\ phase' = "replay"
        /\ UNCHANGED <<code, above, hidden, cpu, rip, stack, fault, executed, limit,
                       status>>
    BY <1>4 DEF FetchBlock, memVars
  <2>2. block \in Block
    BY <2>1, DecodeBlockIs DEF Inv, TypeOK, Block
  <2> HIDE DEF block
  <2>3. TypeOK'
    BY <1>0, <2>1, <2>2 DEF Inv, TypeOK, Block
  <2>4. Len(block) \in Nat \ {0}
    BY <2>1, <2>2 DEF Block
  <2>5. Replaying'
    BY <1>0, <2>1, <2>4 DEF Replaying, InLoop
  <2> QED BY <2>1, <2>3, <2>5 DEF Inv, BudgetKept, AtStop, InLoop
<1> QED BY <1>1, <1>2, <1>3, <1>4

\* The ways out of an iteration of the replay loop preserve the invariant.
LEMMA ReplayInv ==
  ASSUME Inv,
         \/ ReplayHalted \/ HitBreakpoint \/ ExecStraight
         \/ \E to \in Targets : ExecBranch(to)
         \/ \E f \in {"none", "trap", "error"}, to \in Targets :
              ExecRecovered(f, to) \/ ExecHalted(f, to)
  PROVE  Inv'
<1>0. Addr \subseteq Int /\ Targets \subseteq Int /\ MaxStack \in Nat /\ Budgets \subseteq Nat
  BY DispatcherAssumption DEF Targets
<1>l. limit \in Nat
  BY <1>0 DEF Inv, TypeOK
<1>1. CASE ReplayHalted
  BY <1>1, LeaveBlockIs, EndBlockType DEF ReplayHalted, cacheVars, memVars, Inv, TypeOK, Block,
     Replaying, BudgetKept, AtStop
<1>2. CASE HitBreakpoint
  <2>1. fault' \in [Cpus -> {"none", "trap", "error"}]
    BY <1>2 DEF HitBreakpoint, Inv, TypeOK
  <2> QED
    BY <1>2, <2>1, LeaveBlockIs, EndBlockType DEF HitBreakpoint, cacheVars, memVars, Inv, TypeOK,
       Block, Replaying, BudgetKept, AtStop
<1>3. CASE ExecStraight
  <2> DEFINE next == rip + 1
             last == next \in Stops \/ idx = Len(cur.insns) \/ executed + 1 >= limit
  <2>1. /\ Execute /\ rip' = next
        /\ UNCHANGED <<halted, fault>>
    BY <1>3 DEF ExecStraight
  <2>2. \/ /\ next \in Stops /\ phase' = "idle" /\ status' = "Ok"
        \/ /\ next \notin Stops /\ phase' = (IF last THEN "fetch" ELSE "replay")
           /\ status' = status
        \/ phase' = "crashed" /\ status' = status
    BY <1>3 DEF ExecStraight, ReadBack, Return
  <2>3. IF last \/ phase' = "crashed" THEN EndBlock ELSE idx' = idx + 1 /\ cur' = cur
    BY <1>3 DEF ExecStraight
  <2>4. cur' \in [pc : Int, insns : Block] /\ idx' \in Nat \ {0}
    BY <2>3, EndBlockType DEF Inv, TypeOK, Block
  <2>5. TypeOK'
    <3>1. rip' \in Int /\ cpu' \in Cpus /\ limit' \in Budgets \cup {0}
      BY <2>1, ExecuteType DEF Inv, TypeOK
    <3>2. /\ phase' \in {"idle", "fetch", "replay", "crashed"}
          /\ status' \in {"Ok", "Error", "Internal", "DecodeError"}
      BY <2>2 DEF Inv, TypeOK
    <3> QED BY <2>1, <2>4, <3>1, <3>2, ExecuteType DEF Inv, TypeOK, CacheType, Block
  <2>6. executed' = executed + 1 /\ limit' = limit /\ phase = "replay"
    BY <2>1, ExecuteType DEF Inv
  <2>7. Replaying'
    <3>1. SUFFICES ASSUME phase' = "replay"
                   PROVE  (idx \in 1 .. Len(cur.insns) /\ rip = cur.pc + idx - 1
                             /\ executed < limit)'
      BY DEF Replaying
    <3>2. ~last /\ idx' = idx + 1 /\ cur' = cur
      BY <2>2, <2>3, <3>1
    <3>3. idx \in 1 .. Len(cur.insns) /\ rip = cur.pc + idx - 1 /\ cur.pc \in Int
      BY <2>6 DEF Inv, Replaying, TypeOK
    <3>4. Len(cur.insns) \in Nat
      BY DEF Inv, TypeOK
    <3> QED BY <1>l, <2>1, <2>6, <3>2, <3>3, <3>4 DEF Inv, TypeOK
  <2>8. BudgetKept'
    BY <1>l, <2>6 DEF Inv, Replaying, TypeOK, BudgetKept
  <2>9. AtStop'
    BY <2>1, <2>2 DEF AtStop
  <2> QED BY <2>5, <2>7, <2>8, <2>9 DEF Inv
<1>4. ASSUME NEW to \in Targets, ExecBranch(to)
      PROVE  Inv'
  <2>1. /\ Execute /\ rip' = to /\ EndBlock
        /\ LeaveBlock \/ (phase' = "crashed" /\ status' = status)
        /\ UNCHANGED <<halted, fault>>
    BY <1>4 DEF ExecBranch, ReadBack
  <2>2. TypeOK'
    BY <1>0, <2>1, ExecuteType, EndBlockType, LeaveBlockIs DEF Inv, TypeOK, CacheType, Block
  <2>3. executed' = executed + 1 /\ limit' = limit /\ phase = "replay"
    BY <2>1, ExecuteType DEF Inv
  <2>4. phase' # "replay" /\ (phase' = "fetch" => rip' \notin Stops)
    BY <2>1, LeaveBlockIs DEF Inv
  <2> QED BY <1>l, <2>2, <2>3, <2>4 DEF Inv, TypeOK, Replaying, BudgetKept, AtStop
<1>5. ASSUME NEW f \in {"none", "trap", "error"}, NEW to \in Targets,
             ExecRecovered(f, to)
      PROVE  Inv'
  <2>1. /\ Execute /\ rip' = to /\ EndBlock /\ LeaveBlock
        /\ fault' = [fault EXCEPT ![cpu] = "none"]
        /\ halted' = halted
    BY <1>5 DEF ExecRecovered
  <2>2. TypeOK'
    BY <1>0, <2>1, ExecuteType, EndBlockType, LeaveBlockIs DEF Inv, TypeOK, CacheType, Block
  <2>3. executed' = executed + 1 /\ limit' = limit /\ phase = "replay"
    BY <2>1, ExecuteType DEF Inv
  <2>4. phase' # "replay" /\ (phase' = "fetch" => rip' \notin Stops)
    BY <2>1, LeaveBlockIs DEF Inv
  <2> QED BY <1>l, <2>2, <2>3, <2>4 DEF Inv, TypeOK, Replaying, BudgetKept, AtStop
<1>6. ASSUME NEW f \in {"none", "trap", "error"}, NEW to \in Targets,
             ExecHalted(f, to)
      PROVE  Inv'
  <2>1. /\ Execute /\ EndBlock /\ halted' = TRUE
        /\ rip' \in {rip, to}
        /\ fault' = [fault EXCEPT ![cpu] = Latched(f)]
        /\ phase' = "idle" /\ status' = StatusOf(Latched(f))
    BY <1>6 DEF ExecHalted, Return
  <2>2. Latched(f) \in {"none", "trap", "error"}
    BY DEF Latched, Inv, TypeOK
  <2>3. StatusOf(Latched(f)) \in {"Ok", "Error", "Internal", "DecodeError"}
    BY <2>2 DEF StatusOf
  <2>4. TypeOK'
    BY <1>0, <2>1, <2>2, <2>3, ExecuteType, EndBlockType DEF Inv, TypeOK, CacheType, Block
  <2>5. executed' = executed + 1 /\ limit' = limit /\ phase = "replay"
    BY <2>1, ExecuteType DEF Inv
  <2> QED BY <1>l, <2>1, <2>4, <2>5 DEF Inv, TypeOK, Replaying, BudgetKept, AtStop
<1> QED BY <1>1, <1>2, <1>3, <1>4, <1>5, <1>6

\* Every step preserves the invariant.
LEMMA NextInv ==
  ASSUME Inv, [Next]_vars
  PROVE  Inv'
<1>1. CASE UNCHANGED vars
  BY <1>1 DEF vars, Inv, TypeOK, Replaying, BudgetKept, AtStop
<1>2. CASE Host
  BY <1>2, HostInv
<1>3. CASE RunStep
  BY <1>3, TopInv, ReplayInv DEF RunStep
<1>4. CASE Caches
  BY <1>4, CachesInv
<1> QED BY <1>1, <1>2, <1>3, <1>4 DEF Next

-----------------------------------------------------------------------------
(* The run loop *)

\* Every reachable state of the dispatcher is well typed: decode_block only
\* ever puts instructions that decode into the cache.
THEOREM TypeCorrect == Spec => []TypeOK
<1>1. Inv /\ [Next]_vars => Inv'
  BY NextInv
<1>2. Inv => TypeOK
  BY DEF Inv
<1> QED BY InitInv, <1>1, <1>2, PTL DEF Spec

\* run_with_cpu executes at most max_insns instructions, although the count is
\* tested in two places and branches, recovery and stubs leave between them.
THEOREM BudgetKeptHolds == Spec => []BudgetKept
<1>1. Inv /\ [Next]_vars => Inv'
  BY NextInv
<1>2. Inv => BudgetKept
  BY DEF Inv
<1> QED BY InitInv, <1>1, <1>2, PTL DEF Spec

\* The replay loop of run_with_cpu never leaves the block it has fetched, even
\* when the block is thrown out of the cache while it runs.
THEOREM InsideBlockHolds == Spec => []InsideBlock
<1>1. Inv /\ [Next]_vars => Inv'
  BY NextInv
<1>2. Inv => InsideBlock
  BY DEF Inv, Replaying, InsideBlock
<1> QED BY InitInv, <1>1, <1>2, PTL DEF Spec

\* Only the handler of an instruction adds to the count.
LEMMA OnlyExecuteCounts ==
  ASSUME Inv, Next, executed' > executed
  PROVE  phase = "replay"
<1>1. executed \in Nat
  BY DEF Inv, TypeOK
<1>2. ASSUME RunStep PROVE phase = "replay"
  <2>1. \/ executed' = executed
        \/ Execute
    BY <1>2 DEF RunStep, RunEnds, StubReturn, StubFails, FetchBlock, DecodeFails,
       ReplayHalted, HitBreakpoint, ExecStraight, ExecBranch, ExecRecovered, ExecHalted
  <2> QED BY <1>1, <2>1 DEF Execute
<1>3. ~Host
  BY <1>1 DEF Host, StartRun, HostWrite, HostWriteBelow, HostClear
<1>4. ASSUME NEW a \in Addr, NEW i \in 1 .. Len(above[a]), GiveUp(a, i)
      PROVE  FALSE
  BY <1>1, <1>4 DEF GiveUp
<1> QED BY <1>2, <1>3, <1>4 DEF Next, Caches

\* An instruction at a stop address is executed only as the first of a run, by
\* whichever way the loop came there.
THEOREM StopRespectedHolds == Spec => StopRespected
<1>1. Inv /\ [Next]_vars => Inv'
  BY NextInv
<1>2. ASSUME Inv, Next
      PROVE  executed' > executed /\ rip \in Stops => executed = 0
  BY <1>2, OnlyExecuteCounts DEF Inv, AtStop
<1>3. Inv /\ [Next]_vars => [executed' > executed /\ rip \in Stops => executed = 0]_vars
  BY <1>2
<1> QED BY InitInv, <1>1, <1>3, PTL DEF Spec, StopRespected

-----------------------------------------------------------------------------
(* The block cache *)

\* Of an address that is not hidden, no cache holds an older instruction.
Shown == \A a \in Addr \ hidden : above[a] = <<>>

FreshAt(pc) ==
  \A k \in 1 .. Len(blocks[pc]) :
    pc + k - 1 \in Addr /\ (pc + k - 1 \in hidden \/ code[pc + k - 1] = blocks[pc][k])

\* A write to code in a code range erases every block that holds the old
\* instruction, and no other is touched: a fresh block stays so if all hidden
\* addresses but the written one stay hidden.
LEMMA WriteShadowFresh ==
  ASSUME TypeOK, Listener, Writable \subseteq CodeRange,
         NEW a \in Writable, NEW k \in Kind, WriteShadow(a, k), hidden \ {a} \subseteq hidden',
         NEW pc \in Addr, FreshAt(pc)
  PROVE  FreshAt(pc)'
<1>0. pc \in Int /\ a \in Int
  BY DispatcherAssumption
<1>1. /\ code' = [code EXCEPT ![a] = k]
      /\ blocks' = [p \in Addr |-> IF Overlaps(p, blocks[p], a) THEN <<>> ELSE blocks[p]]
  BY DEF WriteShadow
<1>2. Len(blocks[pc]) \in Nat
  BY DEF TypeOK
<1>3. CASE Overlaps(pc, blocks[pc], a)
  <2>1. blocks'[pc] = <<>>
    BY <1>1, <1>3
  <2> QED BY <2>1 DEF FreshAt
<1>4. CASE ~Overlaps(pc, blocks[pc], a)
  <2>1. blocks'[pc] = blocks[pc]
    BY <1>1, <1>4
  <2>2. ASSUME NEW i \in 1 .. Len(blocks[pc])
        PROVE  /\ pc + i - 1 \in Addr
               /\ pc + i - 1 \in hidden' \/ code'[pc + i - 1] = blocks[pc][i]
    <3>1. /\ pc + i - 1 \in Addr
          /\ pc + i - 1 \in hidden \/ code[pc + i - 1] = blocks[pc][i]
      BY DEF FreshAt
    <3>2. pc + i - 1 # a
      BY <1>0, <1>2, <1>4 DEF Overlaps
    <3> QED BY <1>1, <3>1, <3>2 DEF TypeOK
  <2> QED BY <2>1, <2>2 DEF FreshAt
<1> QED BY <1>3, <1>4

\* The steps that change what a read of the memory chain finds.
LEMMA StepKinds ==
  ASSUME [Next]_vars
  PROVE  \/ UNCHANGED cacheVars
         \/ \E a \in Writable, k \in Kind : WriteCode(a, k) \/ HostWriteBelow(a, k)
         \/ HostClear
         \/ Caches
         \/ \E halts \in BOOLEAN : FetchBlock(halts)
<1>1. CASE UNCHANGED vars
  BY <1>1 DEF vars, cacheVars, memVars
<1>2. CASE Next
  BY <1>2 DEF Next, RunStep, Host, StartRun, HostWrite, RunEnds, StubReturn, StubFails,
     DecodeFails, ReplayHalted, HitBreakpoint, ExecStraight, ExecBranch, ExecRecovered,
     ExecHalted, Execute
<1> QED BY <1>1, <1>2

\* Every step keeps the older copies to the hidden addresses.
LEMMA ShownStep ==
  ASSUME TypeOK, Shown, [Next]_vars
  PROVE  Shown'
<1>1. CASE UNCHANGED cacheVars
  BY <1>1 DEF cacheVars, memVars, Shown
<1>2. ASSUME NEW a \in Writable, NEW k \in Kind, WriteCode(a, k)
      PROVE  Shown'
  BY <1>2 DEF WriteCode, Shown, TypeOK
<1>3. ASSUME NEW a \in Writable, NEW k \in Kind, HostWriteBelow(a, k)
      PROVE  Shown'
  <2>1. /\ hidden' = IF above'[a] = <<>> THEN hidden ELSE hidden \cup {a}
        /\ \A b \in Addr : b # a => above'[b] = above[b]
    BY <1>3 DEF HostWriteBelow, TypeOK
  <2> QED BY <2>1 DEF Shown
<1>4. CASE HostClear
  BY <1>4 DEF HostClear, memVars, Shown
<1>5. CASE Caches
  <2>1. PICK a \in Addr : \E i \in 1 .. Len(above[a]) : GiveUp(a, i)
    BY <1>5 DEF Caches
  <2>2. a \in hidden
    <3>1. above[a] # <<>>
      BY <2>1 DEF TypeOK
    <3> QED BY <3>1 DEF Shown
  <2>3. hidden' = hidden /\ \A b \in Addr : b # a => above'[b] = above[b]
    BY <2>1 DEF GiveUp, TypeOK
  <2> QED BY <2>2, <2>3 DEF Shown
<1>6. ASSUME NEW halts \in BOOLEAN, FetchBlock(halts)
      PROVE  Shown'
  BY <1>6 DEF FetchBlock, memVars, Shown
<1> QED BY <1>1, <1>2, <1>3, <1>4, <1>5, <1>6, StepKinds

\* Every step keeps all cached blocks fresh.
LEMMA FreshStep ==
  ASSUME TypeOK, Shown, [Next]_vars, Listener, Writable \subseteq CodeRange,
         \A pc \in Addr : FreshAt(pc)
  PROVE  \A pc \in Addr : FreshAt(pc)'
<1>1. CASE UNCHANGED cacheVars
  BY <1>1 DEF cacheVars, memVars, FreshAt
<1>2. ASSUME NEW a \in Writable, NEW k \in Kind, WriteCode(a, k) \/ HostWriteBelow(a, k)
      PROVE  \A pc \in Addr : FreshAt(pc)'
  <2>1. WriteShadow(a, k) /\ hidden \ {a} \subseteq hidden'
    BY <1>2 DEF WriteCode, HostWriteBelow
  <2> QED BY <2>1, WriteShadowFresh
<1>3. CASE HostClear
  <2>1. \A pc \in Addr : blocks'[pc] = <<>>
    BY <1>3 DEF HostClear
  <2> QED BY <2>1 DEF FreshAt
<1>6. CASE Caches
  BY <1>6 DEF Caches, GiveUp, FreshAt
<1>4. ASSUME NEW halts \in BOOLEAN, FetchBlock(halts)
      PROVE  \A pc \in Addr : FreshAt(pc)'
  <2> DEFINE block == IF blocks[rip] # <<>> THEN blocks[rip] ELSE DecodeBlock(rip)
  <2>1. /\ rip \in Addr /\ code' = code /\ hidden' = hidden
        /\ blocks' = [blocks EXCEPT ![rip] = block]
    BY <1>4 DEF FetchBlock, memVars
  <2>2. ASSUME NEW k \in 1 .. Len(block)
        PROVE  /\ rip + k - 1 \in Addr
               /\ rip + k - 1 \in hidden \/ code[rip + k - 1] = block[k]
    <3>1. CASE blocks[rip] # <<>>
      BY <2>1, <3>1 DEF FreshAt
    <3>2. CASE blocks[rip] = <<>>
      <4>1. rip + k - 1 \in Addr /\ Seen(rip + k - 1) = block[k]
        BY <2>1, <3>2, DecodeBlockIs
      <4> QED BY <4>1, SeenIs DEF Shown
    <3> QED BY <3>1, <3>2
  <2> HIDE DEF block
  <2>3. ASSUME NEW pc \in Addr PROVE FreshAt(pc)'
    <3>1. CASE pc = rip
      <4>1. blocks'[pc] = block
        BY <2>1, <3>1 DEF TypeOK
      <4> QED BY <2>1, <2>2, <3>1, <4>1 DEF FreshAt
    <3>2. CASE pc # rip
      <4>1. blocks'[pc] = blocks[pc]
        BY <2>1, <3>2 DEF TypeOK
      <4> QED BY <2>1, <4>1 DEF FreshAt
    <3> QED BY <3>1, <3>2
  <2> QED BY <2>3
<1> QED BY <1>1, <1>2, <1>3, <1>4, <1>6, StepKinds

\* With the listener wired and all writable code registered, a cached block
\* holds what memory holds at its addresses, in every run of every CPU and
\* whatever the guest, its own blocks included, or the host overwrites; but
\* for what the host wrote under a copy of the caches the decoder reads.
THEOREM BlocksFreshHolds == Spec => []BlocksFresh
<1> DEFINE Fresh == Listener /\ Writable \subseteq CodeRange => \A pc \in Addr : FreshAt(pc)
<1>1. Init => Shown /\ Fresh
  <2>1. Init => Shown
    BY DEF Init, Shown
  <2>2. ASSUME Init, NEW pc \in Addr PROVE FreshAt(pc)
    <3>1. blocks[pc] = <<>>
      BY <2>2 DEF Init
    <3> QED BY <3>1 DEF FreshAt
  <2> QED BY <2>1, <2>2
<1>2. TypeOK /\ Shown /\ Fresh /\ [Next]_vars => Shown' /\ Fresh'
  BY FreshStep, ShownStep
<1>3. Fresh <=> BlocksFresh
  BY DEF FreshAt, BlocksFresh
<1> HIDE DEF Fresh
<1> QED BY <1>1, <1>2, <1>3, TypeCorrect, PTL DEF Spec

=============================================================================
