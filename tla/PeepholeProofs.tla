----------------------------- MODULE PeepholeProofs -----------------------------
(***************************************************************************)
(* Proofs about Peephole, for any registers, blocks of any length and      *)
(* whatever registers, segment bases and memory hold: but for folded       *)
(* instructions with 32 bits and LEA with an FS or GS override, the folded *)
(* block does what the decoded one does.                                   *)
(***************************************************************************)
EXTENDS Peephole, TLAPS

Value == 0 .. 3
Cpus == [reg : [Regs -> Value], flags : SUBSET Flag, taken : BOOLEAN,
         base : Value]

\* XOR of a register with itself has set these flags, and cleared the others.
AfterXor == {"ZF", "PF"}
XorsItself(i) == i.kind = "Xor" /\ OnItself(i)

\* Until the block is entered there is one CPU; then the two agree, and the
\* flags a folded branch relies on are there.
Inv ==
  /\ block \in Seq(Decodable)
  /\ plain \in Cpus
  /\ at \in Nat \ {0}
  /\ stage \in {"decode", "folded", "run"}
  /\ stage # "decode" => folded = PeepholeBlock(block)
  /\ stage # "run" => plain = fast /\ at = 1
  /\ FoldedRunsAlikeOtherwise
  /\ at > 1 /\ at - 1 <= Len(block) /\ XorsItself(block[at - 1]) => plain.flags = AfterXor

-----------------------------------------------------------------------------
(* Instructions *)

Kinds == {"Mov", "Xchg", "Xor", "Lea", "Jcc"}

\* What is known of an instruction that was decoded.
LEMMA DecodedIs ==
  ASSUME PeepholeAssumption, NEW i \in Decodable
  PROVE  /\ i = InsnOf(i.kind, i.size, i.dst, i.inMemory, i.src, i.index, i.disp, i.seg, i.cond)
         /\ i.kind \in Kinds /\ i.size \in {2, 4, 8} /\ i.disp \in {0, 1}
         /\ i.kind # "Jcc" => i.dst \in Regs
         /\ i.kind \in {"Mov", "Xchg", "Xor"} => i.src \in Regs
         /\ i.kind = "Xchg" => ~i.inMemory
         /\ i.src \in RegOrNone /\ i.index \in RegOrNone
         /\ i.kind = "Jcc" => i.cond \in Cc \ {"None"} /\ ~i.inMemory
         /\ i.kind = "Lea" => i.inMemory
BY DEF Decodable, InsnOf, Kinds, RegOrNone

LEMMA FoldJunkIs ==
  ASSUME PeepholeAssumption, NEW i \in Decodable
  PROVE  /\ IsJunk(i) => FoldJunk(i).kind = "Nop"
         /\ ~IsJunk(i) => FoldJunk(i) = i
         /\ XorsItself(FoldJunk(i)) => XorsItself(i)
BY DecodedIs DEF FoldJunk, XorsItself, OnItself, InsnOf

\* What becomes of each instruction of a block.
LEMMA FoldedIs ==
  ASSUME PeepholeAssumption, NEW b \in Seq(Decodable), NEW k \in 1 .. Len(b)
  PROVE  /\ IsJunk(b[k]) => PeepholeBlock(b)[k].kind = "Nop"
         /\ ~IsJunk(b[k]) =>
              \/ PeepholeBlock(b)[k] = b[k]
              \/ /\ k > 1 /\ XorsItself(b[k - 1])
                 /\ b[k].kind = "Jcc" /\ b[k].cond \in AlwaysTaken
                 /\ PeepholeBlock(b)[k].kind = "Jmp"
<1> DEFINE j == [l \in 1 .. Len(b) |-> FoldJunk(b[l])]
<1>1. Len(b) \in Nat /\ b[k] \in Decodable
  OBVIOUS
<1>2. Len(j) = Len(b) /\ j[k] = FoldJunk(b[k])
  BY <1>1
<1>3. PeepholeBlock(b)[k]
        = IF Opaque(j, k) THEN [j[k] EXCEPT !.kind = "Jmp", !.cond = "None"] ELSE j[k]
  BY <1>2 DEF PeepholeBlock, FoldOpaqueJcc
<1>4. CASE ~Opaque(j, k)
  BY <1>1, <1>2, <1>3, <1>4, FoldJunkIs
<1>5. CASE Opaque(j, k)
  <2>1. k > 1 /\ k - 1 \in 1 .. Len(b) /\ j[k].kind = "Jcc" /\ j[k].cond \in AlwaysTaken
    BY <1>5 DEF Opaque
  <2>2. XorsItself(b[k - 1])
    <3>1. b[k - 1] \in Decodable /\ j[k - 1] = FoldJunk(b[k - 1])
      BY <2>1
    <3>2. XorsItself(j[k - 1])
      BY <1>5 DEF Opaque, XorsItself
    <3> QED BY <3>1, <3>2, FoldJunkIs
  <2>3. ~IsJunk(b[k]) /\ j[k] = b[k]
    BY <1>1, <1>2, <2>1, FoldJunkIs
  <2>4. PeepholeBlock(b)[k].kind = "Jmp"
    BY <1>1, <1>3, <1>5, <2>3, DecodedIs DEF InsnOf
  <2> QED BY <2>1, <2>2, <2>3, <2>4
<1> QED BY <1>4, <1>5

-----------------------------------------------------------------------------
(* What they do *)

LEMMA WordsIs ==
  ASSUME NEW v \in Value, NEW size \in {2, 4, 8}
  PROVE  /\ Low(v) \in {0, 1} /\ Masked(v, size) \in Value
         /\ XorBits(Masked(v, size), Masked(v, size)) = 0
         /\ size # 4 => Written(v, Masked(v, size), size) = v
         /\ size # 4 => Written(v, v, size) = v
<1>1. v \in {0, 1, 2, 3}
  BY DEF Value
<1> QED BY <1>1 DEF Low, Masked, XorBits, Written, Value

LEMMA WrittenIs ==
  ASSUME NEW old \in Value, NEW v \in Value, NEW size \in {2, 4, 8}
  PROVE  Written(old, v, size) \in Value
<1>1. old \in {0, 1, 2, 3} /\ v \in {0, 1, 2, 3}
  BY DEF Value
<1> QED BY <1>1 DEF Low, Written, Value

LEMMA PutIs ==
  ASSUME NEW c \in Cpus, NEW r \in Regs, NEW v \in Value, NEW size \in {2, 4, 8}
  PROVE  /\ Put(c, r, v, size) \in Cpus
         /\ Put(c, r, v, size).reg[r] = Written(c.reg[r], v, size)
         /\ Written(c.reg[r], v, size) = c.reg[r] => Put(c, r, v, size) = c
<1>1. c.reg[r] \in Value /\ Written(c.reg[r], v, size) \in Value
  BY WrittenIs DEF Cpus
<1> QED BY <1>1 DEF Put, Cpus

LEMMA SourceIs ==
  ASSUME PeepholeAssumption, NEW i \in Decodable, NEW c \in Cpus,
         i.kind \in {"Mov", "Xor"}
  PROVE  Source(i, c) \in Value
<1>1. i.src \in Regs /\ i.size \in {2, 4, 8}
  BY DecodedIs
<1>2. c.reg[i.src] \in Value /\ Loaded \in Value
  BY <1>1 DEF Cpus, PeepholeAssumption, Value
<1> QED BY <1>1, <1>2, WordsIs DEF Source

LEMMA EaIs ==
  ASSUME PeepholeAssumption, NEW i \in Decodable, NEW c \in Cpus
  PROVE  Ea(i, c) \in Value
<1>1. RegOf(c, i.src) \in Nat /\ RegOf(c, i.index) \in Nat /\ i.disp \in Nat
  BY DecodedIs DEF RegOf, RegOrNone, Cpus, Value
<1> DEFINE more == IF i.seg THEN c.base ELSE 0
           sum == RegOf(c, i.src) + RegOf(c, i.index) + i.disp + more
<1>2. more \in Nat
  BY DEF Cpus, Value
<1> HIDE DEF more
<1>3. sum \in Nat
  BY <1>1, <1>2
<1>4. Ea(i, c) = sum % 4
  BY DEF Ea, more
<1> QED BY <1>3, <1>4 DEF Value

LEMMA XorOnItself ==
  ASSUME PeepholeAssumption, NEW i \in Decodable, NEW c \in Cpus, XorsItself(i)
  PROVE  Handle(i, c).flags = AfterXor
<1>1. i.kind = "Xor" /\ ~i.inMemory /\ i.dst = i.src /\ i.dst \in Regs /\ i.size \in {2, 4, 8}
  BY DecodedIs DEF XorsItself, OnItself
<1>2. c.reg[i.dst] \in Value
  BY <1>1 DEF Cpus
<1>3. Source(i, c) = Masked(c.reg[i.dst], i.size)
  BY <1>1 DEF Source
<1>4. XorBits(Masked(c.reg[i.dst], i.size), Source(i, c)) = 0
  BY <1>1, <1>2, <1>3, WordsIs
<1> DEFINE put == Put(c, i.dst, 0, i.size)
           fl == On("ZF", 0 = 0) \cup On("SF", (IF i.size = 8 THEN 0 \div 2 ELSE 0) = 1)
                   \cup On("PF", Low(0) = 0)
<1>5. put \in Cpus
  <2>1. 0 \in Value
    BY DEF Value
  <2> QED BY <1>1, <2>1, PutIs
<1>6. OpXor(i, c) = [put EXCEPT !.flags = fl]
  BY <1>4 DEF OpXor
<1>7. fl = AfterXor
  BY DEF On, Low, AfterXor
<1> HIDE DEF put, fl
<1>8. OpXor(i, c).flags = AfterXor
  BY <1>5, <1>6, <1>7 DEF Cpus
<1> QED BY <1>1, <1>8 DEF Handle

\* A condition holds or does not.
LEMMA CondIsTruth ==
  ASSUME NEW f, NEW cond \in Cc
  PROVE  CondHolds(cond, f) \in BOOLEAN
<1>1. CASE cond = "O"
  BY <1>1 DEF CondHolds
<1>2. CASE cond = "NO"
  BY <1>2 DEF CondHolds
<1>3. CASE cond = "B"
  BY <1>3 DEF CondHolds
<1>4. CASE cond = "NB"
  BY <1>4 DEF CondHolds
<1>5. CASE cond = "Z"
  BY <1>5 DEF CondHolds
<1>6. CASE cond = "NZ"
  BY <1>6 DEF CondHolds
<1>7. CASE cond = "BE"
  BY <1>7 DEF CondHolds
<1>8. CASE cond = "NBE"
  BY <1>8 DEF CondHolds
<1>9. CASE cond = "S"
  BY <1>9 DEF CondHolds
<1>10. CASE cond = "NS"
  BY <1>10 DEF CondHolds
<1>11. CASE cond = "P"
  BY <1>11 DEF CondHolds
<1>12. CASE cond = "NP"
  BY <1>12 DEF CondHolds
<1>13. CASE cond = "L"
  BY <1>13 DEF CondHolds
<1>14. CASE cond = "NL"
  BY <1>14 DEF CondHolds
<1>15. CASE cond = "LE"
  BY <1>15 DEF CondHolds
<1>16. CASE cond = "NLE"
  BY <1>16 DEF CondHolds
<1>17. CASE cond = "None"
  BY <1>17 DEF CondHolds
<1> QED
  BY <1>1, <1>2, <1>3, <1>4, <1>5, <1>6, <1>7, <1>8, <1>9, <1>10, <1>11, <1>12, <1>13, <1>14, <1>15, <1>16, <1>17 DEF Cc

LEMMA HandleKeepsType ==
  ASSUME PeepholeAssumption, NEW i \in Decodable, NEW c \in Cpus
  PROVE  Handle(i, c) \in Cpus
<1>1. CASE i.kind = "Mov"
  BY <1>1, DecodedIs, SourceIs, PutIs DEF Handle, OpMov
<1>2. CASE i.kind = "Lea"
  BY <1>2, DecodedIs, EaIs, PutIs DEF Handle, OpLea
<1>3. CASE i.kind = "Xchg"
  <2>1. i.dst \in Regs /\ i.src \in Regs /\ i.size \in {2, 4, 8}
    BY <1>3, DecodedIs
  <2>2. c.reg[i.src] \in Value /\ c.reg[i.dst] \in Value
    BY <2>1 DEF Cpus
  <2> QED BY <1>3, <2>1, <2>2, PutIs DEF Handle, OpXchg
<1>4. CASE i.kind = "Xor"
  <2> DEFINE r == XorBits(Masked(c.reg[i.dst], i.size), Source(i, c))
             top == IF i.size = 8 THEN r \div 2 ELSE r
             fl == On("ZF", r = 0) \cup On("SF", top = 1) \cup On("PF", Low(r) = 0)
  <2>1. i.dst \in Regs /\ i.size \in {2, 4, 8} /\ Source(i, c) \in Value
    BY <1>4, DecodedIs, SourceIs
  <2>2. Masked(c.reg[i.dst], i.size) \in Value
    BY <2>1, WordsIs DEF Cpus
  <2>3. r \in Value
    BY <2>1, <2>2 DEF XorBits, Value
  <2>4. Put(c, i.dst, r, i.size) \in Cpus
    BY <2>1, <2>3, PutIs
  <2>5. fl \in SUBSET Flag
    BY DEF On, Flag, Arith
  <2>6. OpXor(i, c) = [Put(c, i.dst, r, i.size) EXCEPT !.flags = fl]
    BY DEF OpXor
  <2> HIDE DEF r, fl
  <2>7. OpXor(i, c) \in Cpus
    BY <2>4, <2>5, <2>6 DEF Cpus
  <2> QED BY <1>4, <2>7 DEF Handle
<1>5. CASE i.kind = "Jcc"
  <2>1. CondHolds(i.cond, c.flags) \in BOOLEAN
    BY <1>5, DecodedIs, CondIsTruth
  <2> QED BY <1>5, <2>1 DEF Handle, Cpus
<1> QED BY <1>1, <1>2, <1>3, <1>4, <1>5, DecodedIs DEF Kinds

\* The instructions the pass folds leave the CPU as it is, unless misfolded.
LEMMA JunkDoesNothing ==
  ASSUME PeepholeAssumption, NEW i \in Decodable, NEW c \in Cpus, IsJunk(i), ~Misfolded(i)
  PROVE  Handle(i, c) = c
<1>1. i.size \in {2, 8} /\ i.dst \in Regs /\ i.src = i.dst /\ c.reg[i.dst] \in Value
  BY DecodedIs DEF Misfolded, IsJunk, IsSelfMov, IsSelfXchg, IsSelfLea, OnItself, Cpus
<1>2. CASE IsSelfMov(i)
  <2>1. Source(i, c) = Masked(c.reg[i.dst], i.size)
    BY <1>1, <1>2 DEF IsSelfMov, OnItself, Source
  <2> QED BY <1>1, <1>2, <2>1, WordsIs, PutIs DEF IsSelfMov, Handle, OpMov
<1>3. CASE IsSelfXchg(i)
  <2>1. Put(c, i.dst, c.reg[i.dst], i.size) = c
    BY <1>1, WordsIs, PutIs
  <2> QED BY <1>1, <1>3, <2>1 DEF IsSelfXchg, Handle, OpXchg
<1>4. CASE IsSelfLea(i)
  <2>1. i.kind = "Lea" /\ ~i.seg /\ i.dst # None
    BY <1>1, <1>4, DecodedIs DEF IsSelfLea, Misfolded, PeepholeAssumption
  <2>2. Ea(i, c) = c.reg[i.dst]
    <3>1. RegOf(c, i.src) = c.reg[i.dst] /\ RegOf(c, i.index) = 0 /\ i.disp = 0 /\ ~i.seg
      BY <1>1, <1>4, <2>1 DEF IsSelfLea, RegOf
    <3> QED BY <1>1, <3>1 DEF Ea, Value
  <2> QED BY <1>1, <1>4, <2>1, <2>2, WordsIs, PutIs DEF IsSelfLea, Handle, OpLea
<1> QED BY <1>2, <1>3, <1>4 DEF IsJunk

\* After XOR of a register with itself a folded branch is taken.
LEMMA OpaqueIsTaken ==
  ASSUME NEW cond \in AlwaysTaken
  PROVE  CondHolds(cond, AfterXor) = TRUE
<1>1. CASE cond = "Z"
  BY <1>1 DEF CondHolds, AfterXor
<1>2. CASE cond = "BE"
  BY <1>2 DEF CondHolds, AfterXor
<1>3. CASE cond = "LE"
  BY <1>3 DEF CondHolds, AfterXor
<1>4. CASE cond = "NB"
  BY <1>4 DEF CondHolds, AfterXor
<1>5. CASE cond = "NS"
  BY <1>5 DEF CondHolds, AfterXor
<1>6. CASE cond = "NO"
  BY <1>6 DEF CondHolds, AfterXor
<1>7. CASE cond = "NL"
  BY <1>7 DEF CondHolds, AfterXor
<1> QED BY <1>1, <1>2, <1>3, <1>4, <1>5, <1>6, <1>7 DEF AlwaysTaken

\* An instruction and what became of it do the same, where the flags are there.
LEMMA SameEffect ==
  ASSUME PeepholeAssumption, NEW b \in Seq(Decodable), NEW k \in 1 .. Len(b), NEW c \in Cpus,
         ~Misfolded(b[k]), k > 1 /\ XorsItself(b[k - 1]) => c.flags = AfterXor
  PROVE  Handle(b[k], c) = Handle(PeepholeBlock(b)[k], c)
<1>1. b[k] \in Decodable
  OBVIOUS
<1>2. CASE IsJunk(b[k])
  <2>1. PeepholeBlock(b)[k].kind = "Nop"
    BY <1>2, FoldedIs
  <2> QED BY <1>1, <1>2, <2>1, JunkDoesNothing DEF Handle
<1>3. CASE ~IsJunk(b[k]) /\ PeepholeBlock(b)[k] = b[k]
  BY <1>3
<1>4. CASE /\ k > 1 /\ XorsItself(b[k - 1])
           /\ b[k].kind = "Jcc" /\ b[k].cond \in AlwaysTaken
           /\ PeepholeBlock(b)[k].kind = "Jmp"
  <2>1. c.flags = AfterXor
    BY <1>4
  <2>2. CondHolds(b[k].cond, c.flags) = TRUE
    BY <1>4, <2>1, OpaqueIsTaken
  <2> QED BY <1>4, <2>2 DEF Handle
<1> QED BY <1>2, <1>3, <1>4, FoldedIs

-----------------------------------------------------------------------------
(* The invariant *)

LEMMA InvInit == ASSUME PeepholeAssumption PROVE Init => Inv
<1> SUFFICES ASSUME Init PROVE Inv
  OBVIOUS
<1>1. Blank \in Cpus
  BY DEF Blank, Cpus, Value, Flag, Arith
<1> QED BY <1>1 DEF Init, Inv, FoldedRunsAlikeOtherwise

LEMMA InvNext == ASSUME PeepholeAssumption PROVE Inv /\ [Next]_peepholeVars => Inv'
<1> SUFFICES ASSUME Inv, [Next]_peepholeVars PROVE Inv'
  OBVIOUS
<1> USE DEF Inv
<1>1. CASE Decode
  <2>1. block' \in Seq(Decodable)
    BY <1>1 DEF Decode
  <2> QED BY <1>1, <2>1 DEF Decode, FoldedRunsAlikeOtherwise
<1>2. CASE Fold
  BY <1>2 DEF Fold, FoldedRunsAlikeOtherwise
<1>3. CASE Enter
  <2>1. PICK reg \in [Regs -> Held], base \in Bases :
          plain' = [Blank EXCEPT !.reg = reg, !.flags = {"CF", "SF"}, !.base = base]
    BY <1>3 DEF Enter
  <2>2. plain' \in Cpus
    BY <2>1 DEF Blank, Cpus, Value, Flag, Arith, PeepholeAssumption
  <2> QED BY <1>3, <2>2 DEF Enter, FoldedRunsAlikeOtherwise
<1>4. CASE Execute
  <2>1. at \in 1 .. Len(block) /\ block[at] \in Decodable
    BY <1>4 DEF Execute
  <2>2. plain' \in Cpus
    BY <1>4, <2>1, HandleKeepsType DEF Execute
  <2>3. FoldedRunsAlikeOtherwise'
    <3>1. CASE \E k \in 1 .. Len(block) : Misfolded(block[k])
      BY <1>4, <3>1 DEF Execute, FoldedRunsAlikeOtherwise
    <3>2. CASE ~\E k \in 1 .. Len(block) : Misfolded(block[k])
      <4>1. plain = fast /\ ~Misfolded(block[at])
        BY <2>1, <3>2 DEF FoldedRunsAlikeOtherwise
      <4>2. folded = PeepholeBlock(block)
        BY <1>4 DEF Execute
      <4>3. Handle(block[at], plain) = Handle(folded[at], plain)
        BY <2>1, <4>1, <4>2, SameEffect
      <4> QED BY <1>4, <4>1, <4>3 DEF Execute, FoldedRunsAlikeOtherwise
    <3> QED BY <3>1, <3>2
  <2>4. XorsItself(block[at]) => plain'.flags = AfterXor
    BY <1>4, <2>1, XorOnItself DEF Execute
  <2> QED BY <1>4, <2>1, <2>2, <2>3, <2>4 DEF Execute
<1>5. CASE UNCHANGED peepholeVars
  BY <1>5 DEF peepholeVars, FoldedRunsAlikeOtherwise
<1> QED BY <1>1, <1>2, <1>3, <1>4, <1>5 DEF Next

-----------------------------------------------------------------------------
\* peephole_block, block_cache.cpp:86: a block that is folded runs as it would have
\* without the pass, unless one of the folded instructions has 32 bits or is a LEA
\* with an FS or GS override.
THEOREM FoldedRunsAlikeOtherwiseHolds ==
  ASSUME PeepholeAssumption PROVE Spec => []FoldedRunsAlikeOtherwise
<1>1. Inv => FoldedRunsAlikeOtherwise
  BY DEF Inv
<1> QED BY <1>1, InvInit, InvNext, PTL DEF Spec

=============================================================================
