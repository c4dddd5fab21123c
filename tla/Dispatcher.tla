----------------------------- MODULE Dispatcher -----------------------------
(***************************************************************************)
(* Emulator::run_with_cpu: the block cache, the replay of a cached block   *)
(* one instruction per step, IAT stubs, stop addresses, hooks that halt,   *)
(* breakpoints, faults and their recovery, and the instruction budget; and *)
(* self-modifying code, with the write listener that the tester wires to   *)
(* BlockCache::invalidate_range.                                           *)
(*                                                                         *)
(* An instruction occupies one address and is known by what it can do to   *)
(* the control flow: "op" computes, "store" also writes memory, code       *)
(* included, "branch" ends a block and goes anywhere or falls through;     *)
(* each may fault.  "bad" does not decode.  The host runs its CPUs one at  *)
(* a time over one block cache, and between runs writes code too: through  *)
(* the memory chain, as the guest does, or straight into the shadow pages, *)
(* under the copies that L1, L2 and L3 keep and the decoder reads.         *)
(***************************************************************************)
EXTENDS Integers, Sequences

CONSTANTS
  Addr,        \* addresses of guest code
  Writable,    \* those the guest or the host may overwrite
  CodeRange,   \* those registered with add_code_range
  StubRegion,  \* the IAT stub region
  Bound,       \* the stubs of it that bind() has allocated
  Stops,       \* stop_addrs_
  Breakpoints, \* addresses with an execute breakpoint in DR0-DR3
  Cpus,
  Listener,    \* is the write listener wired to invalidate_range?
  Recovery,    \* is a fault recovery callback installed?
  BlockMax,    \* instructions decode_block puts in a block
  Layers,      \* caches between the decoder and the shadow pages
  InitCode,    \* the programs a target may hold at the start
  Budgets,     \* the values of max_insns
  MaxStack     \* bound on the return addresses readable above RSP

Kind == {"op", "store", "branch", "bad"}
Targets == Addr \cup StubRegion

ASSUME DispatcherAssumption ==
  /\ Addr \subseteq Int /\ StubRegion \subseteq Int /\ Addr \cap StubRegion = {}
  /\ Writable \subseteq Addr /\ CodeRange \subseteq Addr /\ Bound \subseteq StubRegion
  /\ InitCode \subseteq [Addr -> Kind]
  /\ Listener \in BOOLEAN /\ Recovery \in BOOLEAN
  /\ Layers \in Nat /\ BlockMax \in Nat \ {0} /\ Budgets \subseteq Nat /\ MaxStack \in Nat

VARIABLES
  code,     \* the instruction the shadow pages hold at every address
  above,    \* the older ones the caches above still hold, the one read first
  hidden,   \* history: the addresses last written under such a copy
  blocks,   \* blocks_: the cached block of every address, <<>> if none
  phase,    \* "idle" between runs, "fetch" at the top of the loop, "replay"
            \* inside a block, "crashed" after a use of freed memory
  cpu,      \* the CPU of the run
  rip, halted, stack,
  fault,    \* of every CPU: "none", "trap" (reason Ok) or "error"
  cur, idx, \* the block being replayed and the next instruction in it
  executed, limit,
  status    \* of the last run

memVars == <<code, above, hidden>>
cacheVars == <<memVars, blocks>>
cpuVars == <<cpu, rip, halted, stack, fault>>
blockVars == <<cur, idx>>
vars == <<code, above, hidden, blocks, phase, cpu, rip, halted, stack, fault, cur, idx,
          executed, limit, status>>

-----------------------------------------------------------------------------
(* The block cache *)

\* What a read of the memory chain finds at a.
Seen(a) == IF above[a] = <<>> THEN code[a] ELSE above[a][1]

\* decode_block: up to and with the first branch, at most BlockMax
\* instructions, and no further than the last that decodes.
MutCanDecode(pc, n) ==              \* mutant: decode errors are ignored
  /\ \A k \in 0 .. n - 1 : pc + k \in Addr
  /\ \A k \in 0 .. n - 2 : Seen(pc + k) # "branch"
CanDecode(pc, n) ==
  /\ \A k \in 0 .. n - 1 : pc + k \in Addr /\ Seen(pc + k) # "bad"
  /\ \A k \in 0 .. n - 2 : Seen(pc + k) # "branch"
DecodeBlock(pc) ==
  LET n == CHOOSE m \in 0 .. BlockMax :
             CanDecode(pc, m) /\ \A k \in m + 1 .. BlockMax : ~CanDecode(pc, k)
  IN  [k \in 1 .. n |-> Seen(pc + k - 1)]

MutOverlaps(pc, block, a) ==        \* mutant: only the start is compared
  block # <<>> /\ pc = a

\* invalidate_range(a, 1) erases this block.
Overlaps(pc, block, a) == pc <= a /\ a < pc + Len(block)

\* ShadowPages::write of an instruction to a; the listener hears of it when
\* a is in a code range.
WriteShadow(a, k) ==
  /\ code' = [code EXCEPT ![a] = k]
  /\ IF Listener /\ a \in CodeRange
     THEN blocks' = [pc \in Addr |-> IF Overlaps(pc, blocks[pc], a)
                                     THEN <<>> ELSE blocks[pc]]
     ELSE UNCHANGED blocks

\* A write through the chain brings every copy on the way up to date.
WriteCode(a, k) ==
  /\ WriteShadow(a, k)
  /\ above' = [above EXCEPT ![a] = <<>>]
  /\ hidden' = hidden \ {a}

-----------------------------------------------------------------------------
NoBlock == [pc |-> 0, insns |-> <<>>]

Init ==
  /\ code \in InitCode
  /\ above = [a \in Addr |-> <<>>] /\ hidden = {}
  /\ blocks = [pc \in Addr |-> <<>>]
  /\ phase = "idle" /\ status = "Ok"
  /\ cpu \in Cpus /\ rip \in Addr /\ halted = FALSE /\ stack = 0
  /\ fault = [c \in Cpus |-> "none"]
  /\ cur = NoBlock /\ idx = 1
  /\ executed = 0 /\ limit = 0

\* run_with_cpu(c, entry, max); the fault of an earlier run stays latched.
StartRun(c, entry, max, depth) ==
  /\ phase = "idle"
  /\ cpu' = c /\ rip' = entry /\ halted' = FALSE /\ stack' = depth
  /\ executed' = 0 /\ limit' = max /\ phase' = "fetch" /\ status' = "Ok"
  /\ UNCHANGED <<cacheVars, fault, blockVars>>

\* Between runs the host writes code, through the chain or straight into the
\* shadow pages, or clears the block cache.
HostWrite(a, k) ==
  /\ phase = "idle"
  /\ WriteCode(a, k)
  /\ UNCHANGED <<phase, cpuVars, blockVars, executed, limit, status>>

\* The caches are not told: one that holds the instruction goes on serving it.
HostWriteBelow(a, k) ==
  /\ phase = "idle" /\ Layers > 0
  /\ WriteShadow(a, k)
  /\ \/ UNCHANGED above
     \/ Len(above[a]) < Layers /\ above' = [above EXCEPT ![a] = Append(@, code[a])]
  /\ hidden' = IF above'[a] = <<>> THEN hidden ELSE hidden \cup {a}
  /\ UNCHANGED <<phase, cpuVars, blockVars, executed, limit, status>>

\* A read displaces the i-th of the older copies, or the host calls invalidate.
GiveUp(a, i) ==
  /\ phase # "crashed"
  /\ above' = [above EXCEPT ![a] = SubSeq(@, 1, i - 1) \o SubSeq(@, i + 1, Len(@))]
  /\ UNCHANGED <<code, hidden, blocks, phase, cpuVars, blockVars, executed, limit,
                 status>>

HostClear ==
  /\ phase = "idle"
  /\ blocks' = [pc \in Addr |-> <<>>]
  /\ UNCHANGED <<memVars, phase, cpuVars, blockVars, executed, limit, status>>

Return(s) == phase' = "idle" /\ status' = s

\* The replay loop, and its local variables, come to an end.
EndBlock == cur' = NoBlock /\ idx' = 1

\* Leaving the replay loop with branch_or_halt set.
MutNoBreak ==                       \* mutant: the loop is not left
  phase' = "replay" /\ UNCHANGED status
MutLeaveBlock ==                    \* mutant: the stop check is missing
  phase' = "fetch" /\ UNCHANGED status
LeaveBlock ==
  IF rip' \in Stops THEN Return("Ok") ELSE phase' = "fetch" /\ UNCHANGED status

-----------------------------------------------------------------------------
(* The top of the loop *)

MutInLoop == phase = "fetch" /\ ~halted    \* mutant: the budget is not checked
InLoop == phase = "fetch" /\ executed < limit /\ ~halted

RunEnds ==
  /\ phase = "fetch" /\ (executed >= limit \/ halted)
  /\ Return("Ok")
  /\ UNCHANGED <<cacheVars, cpuVars, blockVars, executed, limit>>

\* IatStubs::dispatch: the handler runs, perhaps writing memory or halting the
\* CPU, and a RET pops the return address.  The instruction count does not
\* change.
StubReturn(to, halts) ==
  /\ InLoop /\ rip \in Bound /\ stack > 0
  /\ stack' = stack - 1
  /\ rip' = to /\ halted' = halts
  /\ UNCHANGED cacheVars \/ \E a \in Writable, k \in Kind : WriteCode(a, k)
  /\ LeaveBlock
  /\ UNCHANGED <<cpu, fault, blockVars, executed, limit>>

\* An address of the region without a stub, or no return address to read:
\* the run returns the reason of the fault, and neither the recovery callback
\* nor a fault hook hears of it.
StubFails ==
  /\ InLoop /\ rip \in StubRegion
  /\ rip \notin Bound \/ stack = 0
  /\ fault' = [fault EXCEPT ![cpu] = "error"]
  /\ halted' = TRUE
  /\ Return("Error")
  /\ UNCHANGED <<cacheVars, cpu, rip, stack, blockVars, executed, limit>>

\* The block at rip, cached or decoded and inserted; a BLOCK hook may halt.
FetchBlock(halts) ==
  /\ InLoop /\ rip \in Addr
  /\ LET block == IF blocks[rip] # <<>> THEN blocks[rip] ELSE DecodeBlock(rip)
     IN  /\ block # <<>>
         /\ blocks' = [blocks EXCEPT ![rip] = block]
         /\ cur' = [pc |-> rip, insns |-> block]
  /\ idx' = 1
  /\ halted' = halts
  /\ phase' = "replay"
  /\ UNCHANGED <<memVars, cpu, rip, stack, fault, executed, limit, status>>

DecodeFails ==
  /\ InLoop /\ rip \notin StubRegion
  /\ rip \in Addr => blocks[rip] = <<>> /\ DecodeBlock(rip) = <<>>
  /\ Return("DecodeError")
  /\ UNCHANGED <<cacheVars, cpuVars, blockVars, executed, limit>>

-----------------------------------------------------------------------------
(* The replay loop *)

ReplayHalted ==
  /\ phase = "replay" /\ halted
  /\ rip' = rip /\ LeaveBlock /\ EndBlock
  /\ UNCHANGED <<cacheVars, cpu, halted, stack, fault, executed, limit>>

HitBreakpoint ==
  /\ phase = "replay" /\ ~halted /\ rip \in Breakpoints
  /\ fault' = [fault EXCEPT ![cpu] = "trap"]
  /\ halted' = TRUE
  /\ rip' = rip /\ LeaveBlock /\ EndBlock
  /\ UNCHANGED <<cacheVars, cpu, stack, executed, limit>>

\* The handler of the current instruction runs.
Insn == cur.insns[idx]
MutExecute ==                       \* mutant: the instruction is not counted
  /\ phase = "replay" /\ ~halted /\ rip \notin Breakpoints
  /\ executed' = executed
  /\ UNCHANGED cacheVars
  /\ stack' \in IF Insn = "op" THEN {stack} ELSE 0 .. MaxStack
  /\ UNCHANGED <<cpu, limit>>
Execute ==
  /\ phase = "replay" /\ ~halted /\ rip \notin Breakpoints
  /\ executed' = executed + 1
  /\ \/ UNCHANGED cacheVars
     \/ Insn = "store" /\ \E a \in Writable, k \in Kind : WriteCode(a, k)
  /\ stack' \in IF Insn = "op" THEN {stack} ELSE 0 .. MaxStack
  /\ UNCHANGED <<cpu, limit>>

Latched(f) == IF f = "none" THEN fault[cpu] ELSE f
StatusOf(f) == CASE f = "none" -> "Ok" [] f = "trap" -> "Internal" [] f = "error" -> "Error"

\* The replay loop reads the instruction again after the handler: when the
\* handler has had the block erased, from freed memory.  It finds the old
\* instruction there, or anything.
ReadBack(normal) ==
  normal \/ (blocks'[cur.pc] = <<>> /\ phase' = "crashed" /\ UNCHANGED status)

ExecStraight ==
  LET next == rip + 1
      last == next \in Stops \/ idx = Len(cur.insns) \/ executed + 1 >= limit
  IN  /\ Execute
      /\ rip' = next
      /\ ReadBack(IF next \in Stops THEN Return("Ok")
                  ELSE /\ phase' = IF last THEN "fetch" ELSE "replay"
                       /\ UNCHANGED status)
      /\ IF last \/ phase' = "crashed" THEN EndBlock
         ELSE idx' = idx + 1 /\ UNCHANGED cur
      /\ UNCHANGED <<halted, fault>>

ExecBranch(to) ==
  /\ Execute
  /\ Insn = "branch"
  /\ rip' = to
  /\ ReadBack(LeaveBlock) /\ EndBlock
  /\ UNCHANGED <<halted, fault>>

\* The handler latches fault f, or f = "none" and a CODE or INSN hook has
\* called halt() before it ran.  The recovery callback resumes at `to'.
ExecRecovered(f, to) ==
  /\ Execute
  /\ Recovery /\ Latched(f) # "none"
  /\ rip' = to
  /\ fault' = [fault EXCEPT ![cpu] = "none"]
  /\ LeaveBlock /\ EndBlock
  /\ UNCHANGED halted

\* No recovery: the status is that of the latched fault, which the fault
\* hooks are called with.  A branch that faults may have set RIP (op_call) or
\* not, and so may one that runs after a hook has halted the CPU (op_jmp).
ExecHalted(f, to) ==
  /\ Execute
  /\ rip' \in IF Insn = "branch" THEN {rip, to} ELSE {rip}
  /\ halted' = TRUE
  /\ fault' = [fault EXCEPT ![cpu] = Latched(f)]
  /\ Return(StatusOf(Latched(f))) /\ EndBlock

-----------------------------------------------------------------------------
RunStep ==
  \/ RunEnds
  \/ \E to \in Targets, halts \in BOOLEAN : StubReturn(to, halts)
  \/ StubFails
  \/ \E halts \in BOOLEAN : FetchBlock(halts)
  \/ DecodeFails
  \/ ReplayHalted
  \/ HitBreakpoint
  \/ ExecStraight
  \/ \E to \in Targets : ExecBranch(to)
  \/ \E f \in {"none", "trap", "error"}, to \in Targets :
       ExecRecovered(f, to) \/ ExecHalted(f, to)

Host ==
  \/ \E c \in Cpus, e \in Targets, max \in Budgets, depth \in 0 .. MaxStack :
       StartRun(c, e, max, depth)
  \/ \E a \in Writable, k \in Kind : HostWrite(a, k) \/ HostWriteBelow(a, k)
  \/ HostClear

Caches == \E a \in Addr : \E i \in 1 .. Len(above[a]) : GiveUp(a, i)

Next == RunStep \/ Host \/ Caches

Spec == Init /\ [][Next]_vars

\* The loop is ordinary sequential code: a run in progress goes on.
FairSpec == Spec /\ WF_vars(RunStep)

-----------------------------------------------------------------------------
(* Correctness *)

TypeOK ==
  /\ code \in [Addr -> Kind]
  /\ above \in [Addr -> Seq(Kind)] /\ hidden \subseteq Writable
  /\ blocks \in [Addr -> Seq(Kind \ {"bad"})]
  /\ phase \in {"idle", "fetch", "replay", "crashed"}
  /\ cpu \in Cpus /\ rip \in Int /\ halted \in BOOLEAN /\ stack \in 0 .. MaxStack
  /\ fault \in [Cpus -> {"none", "trap", "error"}]
  /\ cur \in [pc : Int, insns : Seq(Kind \ {"bad"})]
  /\ idx \in Nat \ {0}
  /\ executed \in Nat /\ limit \in Budgets \cup {0}
  /\ status \in {"Ok", "Error", "Internal", "DecodeError"}

\* With the listener wired, a cached block is what its addresses hold now,
\* whoever wrote them and whichever CPU had the block decoded.  Only where the
\* host wrote under a copy of L1, L2 or L3 may it be an older instruction: its
\* erased block can be decoded again from the copy.
BlocksFresh ==
  Listener /\ Writable \subseteq CodeRange =>
    \A pc \in Addr : \A k \in 1 .. Len(blocks[pc]) :
      pc + k - 1 \in Addr /\ (pc + k - 1 \in hidden \/ code[pc + k - 1] = blocks[pc][k])

\* The replay loop is where the program counter is, inside its block.
InsideBlock ==
  phase = "replay" => idx \in 1 .. Len(cur.insns) /\ rip = cur.pc + idx - 1

\* A run executes no more instructions than it was given (emu.h).
BudgetKept == executed <= limit

\* The instruction at a stop address is executed only if the run starts there.
StopRespected ==
  [][executed' > executed /\ rip \in Stops => executed = 0]_vars

\* A run stops: every iteration of the loop uses up the budget or, for IAT
\* stubs, the guest's stack.
Terminates == phase # "idle" ~> phase \in {"idle", "crashed"}

\* README.md:14 "Run self-modifying code (block cache invalidates on writes
\* to executable regions)": what is executed is what memory holds.
ExecutesCurrentCode == [][executed' > executed => Insn = code[rip]]_vars

=============================================================================
