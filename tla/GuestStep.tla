------------------------------- MODULE GuestStep -------------------------------
(***************************************************************************)
(* One guest instruction from its bytes to its effect: it is decoded as    *)
(* its bytes become readable, handed to its handler over some guest state, *)
(* and, each time an access is refused, the recovery callback of the host  *)
(* makes the cell accessible and the dispatcher starts again where RIP is. *)
(***************************************************************************)
EXTENDS Decoder, Handlers

CONSTANT Arrivals(_)  \* the guest states an instruction of a kind may find

\* A guest at an instruction, its stack and index registers in memory, and
\* RCX no more than the turns of a string that are modelled.
Faults == [kind : {"None", "Memory", "Other"}, cell : Int, write : BOOLEAN]
Guests ==
  [reg : [Registers -> Values], mem : [Cells -> Values],
   perm : [Cells -> {"none", "r", "rw"}], zf : BOOLEAN, df : BOOLEAN,
   rip : Values, fault : Faults]
Placed(g) == g.reg[RSP] \in Cells /\ g.reg[RSI] \in Cells /\ g.reg[RDI] \in Cells
Ready(g) ==
  /\ g \in Guests /\ Placed(g) /\ g.reg[RCX] <= N + 1
  /\ g.rip = Here /\ g.fault = NoFault

ASSUME ArrivalsAssumption == \A kind \in Handled : \A g \in Arrivals(kind) : Ready(g)

VARIABLES
  phase,  \* "decode", "entered", "run", "fault", "done"
  op,     \* the instruction as its handler sees it
  guest,  \* registers, memory, RIP and the fault
  start   \* history: guest when the instruction was first executed

stepVars == <<phase, op, guest, start>>
guestVars == <<decoderVars, stepVars>>

Idle ==
  [reg |-> [r \in Registers |-> 0], mem |-> [c \in Cells |-> 0],
   perm |-> [c \in Cells |-> "rw"], zf |-> FALSE, df |-> FALSE, rip |-> Here,
   fault |-> NoFault]

\* An operand with the register that its address is taken from.
Located(o, base) ==
  CASE o.kind = "Mem" -> Operand("Mem", base)
    [] o.kind = "Reg" -> Operand("Reg", IF o.reg \in Registers THEN o.reg ELSE Other)
    [] OTHER -> Operand(o.kind, 0)

\* RIP past an instruction is where it is when the length has wrapped to 0.
OpOf(i, base) ==
  [next |-> IF i.len = 0 THEN Here ELSE After,
   kind |-> i.kind, dst |-> Located(i.dst, base), src |-> Located(i.src, base),
   rep |-> "REP" \in i.flags, repne |-> "REPNE" \in i.flags,
   flow |-> "CONTROL_FLOW" \in i.flags]

GuestInit ==
  /\ Init
  /\ phase = "decode" /\ guest = Idle /\ start = Idle
  /\ op = OpOf(Failed("TruncatedInstruction"), Other)

Decode == phase = "decode" /\ Next /\ UNCHANGED stepVars

\* decode_block is done with the instruction.
Enter(base) ==
  /\ phase = "decode" /\ insn.status = "Ok" /\ insn.kind \in Handled
  /\ phase' = "entered" /\ op' = OpOf(insn, base)
  /\ bytes' = <<>> /\ insn' = Truncated
  /\ UNCHANGED <<guest, start>>

Arrive(g) ==
  /\ phase = "entered"
  /\ phase' = "run" /\ guest' = g /\ start' = g
  /\ UNCHANGED <<decoderVars, op>>

\* The dispatcher moves RIP on when the handler neither branched nor faulted.
Advanced(o, g) == IF g.fault = NoFault /\ g.rip = Here THEN [g EXCEPT !.rip = o.next] ELSE g

Execute ==
  /\ phase = "run"
  /\ guest' = Advanced(op, Handle(op, guest))
  /\ phase' = IF guest'.fault = NoFault THEN "done" ELSE "fault"
  /\ UNCHANGED <<decoderVars, op, start>>

\* The callback repairs what faulted and says so.
Recover ==
  /\ phase = "fault" /\ guest.fault.kind = "Memory"
  /\ guest' = [guest EXCEPT !.fault = NoFault,
                            !.perm[guest.fault.cell] = IF guest.fault.write THEN "rw" ELSE "r"]
  /\ phase' = IF guest.rip = Here THEN "run" ELSE "done"
  /\ UNCHANGED <<decoderVars, op, start>>

GuestNext ==
  \/ Decode
  \/ \E base \in {RSP, RSI} : Enter(base)
  \/ \E g \in Arrivals(op.kind) : Arrive(g)
  \/ Execute
  \/ Recover

GuestSpec == GuestInit /\ [][GuestNext]_guestVars

-----------------------------------------------------------------------------
\* Faults are precise enough to restart from: whatever accesses are refused
\* and repaired on the way, an instruction ends as if none had been.  Not so
\* CALL through memory, which has pushed and branched before its operand is
\* read, and the x87 stores, which drop what is refused.
Restartable ==
  phase = "done" /\ ~(op.kind = "Call" /\ InMemory(op.dst)) /\ op.kind # "X87Store" =>
    LET open == [start EXCEPT !.perm = [c \in Cells |-> "rw"]]
    IN  guest = [Advanced(op, Handle(op, open)) EXCEPT !.perm = guest.perm]

\* Whatever leaves the straight line ends its block: the decoder and the
\* handlers, in two tables, agree on which instructions do.
BranchesEndBlocks ==
  \/ phase = "done" /\ guest.rip # op.next
  \/ phase = "fault" /\ guest.fault.kind = "Other"
  => op.flow

\* Strings by their definition, from the memory at the start: how many
\* elements are done, where the registers stand, and what was copied, forward
\* or backward, over itself.  That F3 stops MOVS, STOS and LODS early is left
\* to RepCopiesAll.
Repeated == op.rep \/ op.repne
Done == IF Repeated THEN start.reg[RCX] - guest.reg[RCX] ELSE 1
Nth(r, i) == (start.reg[r] + IF start.df THEN i * (N - 1) ELSE i) % N
Equal(i) ==
  (IF op.kind = "Scas" THEN start.reg[RAX] ELSE start.mem[Nth(RSI, i)]) = start.mem[Nth(RDI, i)]
Copied ==
  LET source[i \in 0 .. Done] ==  \* what the i-th element moves
        LET same == {j \in 0 .. i - 1 : Nth(RDI, j) = Nth(RSI, i)} IN
        IF op.kind = "Stos" THEN start.reg[RAX]
        ELSE IF same = {} THEN start.mem[Nth(RSI, i)]
        ELSE source[CHOOSE j \in same : \A k \in same : k <= j]
  IN  [c \in Cells |->
         LET to == {j \in 0 .. Done - 1 : Nth(RDI, j) = c}
         IN  IF to = {} THEN start.mem[c] ELSE source[CHOOSE j \in to : \A k \in to : k <= j]]
StringsArchitectural ==
  phase = "done" /\ op.kind \in Strings =>
    /\ guest.reg[RSI] = IF op.kind \in {"Movs", "Lods", "Cmps"} THEN Nth(RSI, Done) ELSE start.reg[RSI]
    /\ guest.reg[RDI] = IF op.kind # "Lods" THEN Nth(RDI, Done) ELSE start.reg[RDI]
    /\ guest.mem = IF op.kind \in {"Movs", "Stos"} THEN Copied ELSE start.mem
    /\ op.kind = "Lods" /\ Done > 0 => guest.reg[RAX] = start.mem[Nth(RSI, Done - 1)]
    /\ op.kind \in {"Scas", "Cmps"} /\ Done > 0 => guest.zf = Equal(Done - 1)
    /\ Repeated /\ op.kind \in {"Scas", "Cmps"} =>
         LET stops == {i \in 0 .. start.reg[RCX] - 1 :
                         (op.rep /\ ~Equal(i)) \/ (op.repne /\ Equal(i))}
         IN  Done = IF stops = {} THEN start.reg[RCX]
                    ELSE 1 + CHOOSE i \in stops : \A j \in stops : i <= j
    /\ op.repne /\ ~op.rep /\ op.kind \notin {"Scas", "Cmps"} => guest.reg[RCX] = 0

\* string_ops.cpp: "while (rcx != 0) ... if (cc_terminates) break; //
\* REPE/REPNE only": REP MOVS, STOS and LODS go on until RCX is zero.
RepCopiesAll ==
  phase = "done" /\ op.rep /\ op.kind \in {"Movs", "Stos", "Lods"} => guest.reg[RCX] = 0

=============================================================================
