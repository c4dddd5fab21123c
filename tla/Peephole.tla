-------------------------------- MODULE Peephole --------------------------------
(***************************************************************************)
(* peephole_block, the last step of decode_block: what it makes of a block *)
(* and, side by side, a CPU that runs the block as it was decoded and one  *)
(* that runs it as it was folded.                                          *)
(*                                                                         *)
(* A register has two halves of 32 bits, a half is one bit: a word is      *)
(* 2 * high + low.  Destinations are registers, as the folds ask for.      *)
(* What memory holds is the same everywhere, so only LEA, which keeps the  *)
(* address itself, tells an FS or GS override from none.                   *)
(***************************************************************************)
EXTENDS Alu, Sequences

CONSTANTS
  Regs,       \* the general registers
  MaxInsns,   \* BOUND: the longest block
  Held,       \* what registers may hold when the block is entered
  Bases,      \* what fs_base and gs_base may hold
  Loaded      \* what memory holds, wherever it is read

None == "none"

PeepholeAssumption ==
  /\ None \notin Regs
  /\ MaxInsns \in Nat \ {0}
  /\ Held \subseteq 0 .. 3 /\ Bases \subseteq 0 .. 3 /\ Loaded \in 0 .. 3

VARIABLES
  stage,   \* "decode", "folded", "run"
  block,   \* the instructions decode_one has returned so far
  folded,  \* the block that is cached
  at,      \* the instruction that is executed next
  plain,   \* the CPU that runs block
  fast     \* the CPU that runs folded

peepholeVars == <<stage, block, folded, at, plain, fast>>

RegOrNone == Regs \cup {None}

\* src is the base register of an operand in memory, seg its FS or GS override.
InsnOf(kind, size, dst, inMemory, src, index, disp, seg, cond) ==
  [kind |-> kind, size |-> size, dst |-> dst, inMemory |-> inMemory, src |-> src,
   index |-> index, disp |-> disp, seg |-> seg, cond |-> cond]
Decodable ==
  {InsnOf(kind, size, dst, FALSE, src, None, 0, FALSE, "None") :
     kind \in {"Mov", "Xchg", "Xor"}, size \in {2, 4, 8}, dst \in Regs, src \in Regs}
  \cup {InsnOf("Mov", 8, dst, TRUE, src, None, 0, FALSE, "None") : dst \in Regs, src \in Regs}
  \cup {InsnOf("Lea", size, dst, TRUE, src, index, disp, seg, "None") :
          size \in {2, 4, 8}, dst \in Regs, src \in RegOrNone, index \in RegOrNone,
          disp \in {0, 1}, seg \in BOOLEAN}
  \cup {InsnOf("Jcc", 8, None, FALSE, None, None, 0, FALSE, cond) : cond \in Cc \ {"None"}}

Blank == [reg |-> [r \in Regs |-> 0], flags |-> {}, taken |-> FALSE, base |-> 0]

-----------------------------------------------------------------------------
(* The handlers *)

Low(v) == v % 2
Masked(v, size) == IF size = 8 THEN v ELSE Low(v)

\* write_operand: 32 bits are extended with zeros, less keeps the rest.
Written(old, v, size) ==
  CASE size = 8 -> v
    [] size = 4 -> Low(v)
    [] OTHER -> 2 * (old \div 2) + Low(v)
Put(c, r, v, size) == [c EXCEPT !.reg[r] = Written(@, v, size)]

RegOf(c, r) == IF r = None THEN 0 ELSE c.reg[r]
Ea(i, c) ==
  (RegOf(c, i.src) + RegOf(c, i.index) + i.disp + IF i.seg THEN c.base ELSE 0) % 4
Source(i, c) == Masked(IF i.inMemory THEN Loaded ELSE c.reg[i.src], i.size)

OpMov(i, c) == Put(c, i.dst, Source(i, c), i.size)
OpLea(i, c) == Put(c, i.dst, Ea(i, c), i.size)
OpXchg(i, c) ==
  Put(Put(c, i.dst, c.reg[i.src], i.size), i.src, c.reg[i.dst], i.size)

XorBits(a, b) == 2 * ((a \div 2 + b \div 2) % 2) + ((a + b) % 2)
\* stash_logic, and what apply_zsp makes of it.
OpXor(i, c) ==
  LET r == XorBits(Masked(c.reg[i.dst], i.size), Source(i, c))
      top == IF i.size = 8 THEN r \div 2 ELSE r
  IN  [Put(c, i.dst, r, i.size) EXCEPT
         !.flags = On("ZF", r = 0) \cup On("SF", top = 1) \cup On("PF", Low(r) = 0)]

Handle(i, c) ==
  CASE i.kind = "Mov" -> OpMov(i, c)
    [] i.kind = "Lea" -> OpLea(i, c)
    [] i.kind = "Xchg" -> OpXchg(i, c)
    [] i.kind = "Xor" -> OpXor(i, c)
    [] i.kind = "Jcc" -> [c EXCEPT !.taken = CondHolds(i.cond, c.flags)]
    [] i.kind = "Jmp" -> [c EXCEPT !.taken = TRUE]
    [] i.kind = "Nop" -> c

-----------------------------------------------------------------------------
(* The folds *)

OnItself(i) == ~i.inMemory /\ i.dst = i.src
IsSelfMov(i) == i.kind = "Mov" /\ OnItself(i)
IsSelfXchg(i) == i.kind = "Xchg" /\ OnItself(i)
MutIsSelfLea(i) ==                  \* mutant: the index is forgotten
  i.kind = "Lea" /\ i.src = i.dst /\ i.disp = 0
IsSelfLea(i) == i.kind = "Lea" /\ i.src = i.dst /\ i.index = None /\ i.disp = 0

IsJunk(i) == IsSelfMov(i) \/ IsSelfXchg(i) \/ IsSelfLea(i)
FoldJunk(i) == IF IsJunk(i) THEN [i EXCEPT !.kind = "Nop"] ELSE i

\* The conditions that hold after a register is cleared with XOR.
AlwaysTaken == {"Z", "BE", "LE", "NB", "NS", "NO", "NL"}

\* fold_opaque_jcc: a block is left by a Jcc, so there is one at its end only.
Opaque(b, k) ==
  /\ k > 1 /\ b[k - 1].kind = "Xor" /\ OnItself(b[k - 1])
  /\ b[k].kind = "Jcc" /\ b[k].cond \in AlwaysTaken
FoldOpaqueJcc(b) ==
  [k \in 1 .. Len(b) |->
     IF Opaque(b, k) THEN [b[k] EXCEPT !.kind = "Jmp", !.cond = "None"] ELSE b[k]]

PeepholeBlock(b) == FoldOpaqueJcc([k \in 1 .. Len(b) |-> FoldJunk(b[k])])

-----------------------------------------------------------------------------
EndsBlock(b) == b # <<>> /\ b[Len(b)].kind = "Jcc"

Init ==
  /\ stage = "decode" /\ block = <<>> /\ folded = <<>>
  /\ at = 1 /\ plain = Blank /\ fast = Blank

\* One turn of the loop of decode_block.
Decode ==
  /\ stage = "decode" /\ Len(block) < MaxInsns /\ ~EndsBlock(block)
  /\ \E i \in Decodable : block' = Append(block, i)
  /\ UNCHANGED <<stage, folded, at, plain, fast>>

\* The loop ends, here or at an instruction that does not decode.
Fold ==
  /\ stage = "decode" /\ block # <<>>
  /\ stage' = "folded" /\ folded' = PeepholeBlock(block)
  /\ UNCHANGED <<block, at, plain, fast>>

\* The dispatcher comes to the block.
Enter ==
  /\ stage = "folded" /\ stage' = "run"
  /\ \E reg \in [Regs -> Held], base \in Bases :
       plain' = [Blank EXCEPT !.reg = reg, !.flags = {"CF", "SF"}, !.base = base]
  /\ fast' = plain'
  /\ UNCHANGED <<block, folded, at>>

Execute ==
  /\ stage = "run" /\ at <= Len(block)
  /\ plain' = Handle(block[at], plain) /\ fast' = Handle(folded[at], fast)
  /\ at' = at + 1
  /\ UNCHANGED <<stage, block, folded>>

Next == Decode \/ Fold \/ Enter \/ Execute

Spec == Init /\ [][Next]_peepholeVars

-----------------------------------------------------------------------------
\* peephole.h:3-4 "replace identity-style instructions with NOPs", peephole.h:18
\* "safe to call": a block runs as it would have without the pass.
FoldedRunsAlike == plain = fast

\* It does, whatever the registers and flags and wherever it branches, unless a
\* folded instruction has 32 bits, which clears the upper half of its register
\* (write_operand), or is a LEA with an FS or GS override, which adds the base
\* (ea): their NOP does neither.
Misfolded(i) == IsJunk(i) /\ (i.size = 4 \/ i.seg)
FoldedRunsAlikeOtherwise == (\E k \in 1 .. Len(block) : Misfolded(block[k])) \/ plain = fast

=============================================================================
