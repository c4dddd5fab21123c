-------------------------------- MODULE Opcodes --------------------------------
(***************************************************************************)
(* The opcode tables of the decoder.  A format says what the code of an    *)
(* opcode reads after it, in this order, and what it makes of it:          *)
(*   modrm  is a ModRM byte read?                                          *)
(*   pre    the verdict on it, before more is read                         *)
(*   rm     are the SIB and displacement bytes it calls for read?          *)
(*   imm    the bytes of the immediate read after them                     *)
(*   post   the verdict once all is read                                   *)
(* and kind, size, flags and the roles of the two operands in the Insn.    *)
(* The ~350 vector operations are one kind each, "Vector" or "X87": which  *)
(* one an opcode means is left out, how its bytes are read is not.         *)
(***************************************************************************)
EXTENDS Prefixes

Reject(why) ==
  [modrm |-> FALSE, pre |-> "Ok", rm |-> TRUE, imm |-> 0, post |-> why,
   kind |-> "Invalid", size |-> 0, flags |-> {}, dst |-> "none", src |-> "none"]
Unsupported == Reject("UnsupportedOpcode")
OkIf(b) == IF b THEN "Ok" ELSE "UnsupportedOpcode"

\* An instruction without operand bytes, one with a ModRM byte, one that ends
\* a block.
Plain(kind, size) == [Reject("Ok") EXCEPT !.kind = kind, !.size = size]
Rm(kind, size) == [Plain(kind, size) EXCEPT !.modrm = TRUE]
Flow(f) == [f EXCEPT !.flags = @ \cup {"CONTROL_FLOW"}]
Imm(f, n) == [f EXCEPT !.imm = n]
Ops(f, dst, src) == [f EXCEPT !.dst = dst, !.src = src]

\* The role of a general register or r/m operand of a given size.
Reg(size) == IF size = 1 THEN "reg8" ELSE "reg"
RmOf(size) == IF size = 1 THEN "rm8" ELSE "rm"
RegRm(kind, size) == Ops(Rm(kind, size), Reg(size), RmOf(size))
RmReg(kind, size) == Ops(Rm(kind, size), RmOf(size), Reg(size))
OnRm(kind, size) == Ops(Rm(kind, size), RmOf(size), "none")

\* Bytes of an immediate that is never 8 bytes long.
ImmOf(size) == IF size = 8 THEN 4 ELSE size

AluKind == <<"Add", "Or", "Adc", "Sbb", "And", "Sub", "Xor", "Cmp">>
ShiftKind == <<"Rol", "Ror", "Rcl", "Rcr", "Shl", "Shr", "Shl", "Sar">>

-----------------------------------------------------------------------------
(* One-byte opcodes *)

\* 00 .. 3D: eight families of six variants.
AluPrimary(px, op) ==
  LET kind    == AluKind[op \div 8 + 1]
      variant == op % 8
      size    == IF variant % 2 = 0 THEN 1 ELSE AluSize(px)
  IN  IF variant \in {0, 1} THEN RmReg(kind, size)
      ELSE IF variant \in {2, 3} THEN RegRm(kind, size)
      ELSE Imm(Ops(Plain(kind, size), "acc", "imm"), ImmOf(size))

MutGroup1Imm(px, op) == ImmOf(AluSize(px))   \* mutant: 80 is read as 81
Group1Imm(px, op) == IF op = \h81 THEN ImmOf(AluSize(px)) ELSE 1
Group1(px, op, m) ==
  LET size == IF op = \h80 THEN 1 ELSE AluSize(px) IN
  Imm(Ops(Rm(AluKind[m.reg + 1], size), RmOf(size), "imm"), Group1Imm(px, op))

Group2(px, op, m) ==
  LET size == IF op % 2 = 0 THEN 1 ELSE AluSize(px)
      f    == Rm(ShiftKind[m.reg + 1], size)
  IN  CASE op \in {\hC0, \hC1} -> Imm(Ops(f, RmOf(size), "imm"), 1)
        [] op \in {\hD0, \hD1} -> Ops(f, RmOf(size), "imm")
        [] OTHER -> Ops(f, RmOf(size), "cl")

\* TEST alone has an immediate.
Group3(px, op, m) ==
  LET size == IF op = \hF6 THEN 1 ELSE AluSize(px) IN
  IF m.reg \in {0, 1} THEN Imm(Ops(Rm("Test", size), RmOf(size), "imm"), ImmOf(size))
  ELSE IF m.reg \in {2, 3} THEN OnRm(<<"Not", "Neg">>[m.reg - 1], size)
  ELSE Ops(Rm(<<"Mul", "Imul", "Div", "Idiv">>[m.reg - 3], size), "none", RmOf(size))

MutIndirect(f) == f                 \* mutant: the block goes on after it
Indirect(f) == Flow(f)
Group45(px, op, m) ==
  LET size == IF op = \hFE THEN 1 ELSE AluSize(px) IN
  CASE m.reg = 0 -> OnRm("Inc", size)
    [] m.reg = 1 -> OnRm("Dec", size)
    [] op = \hFF /\ m.reg = 2 -> Indirect(OnRm("Call", 8))
    [] op = \hFF /\ m.reg = 4 -> Indirect(OnRm("Jmp", 8))
    [] op = \hFF /\ m.reg = 6 -> OnRm("Push", 8)
    [] OTHER -> [OnRm("Invalid", size) EXCEPT !.post = "UnsupportedOpcode"]

PushPop(op) ==
  CASE op \in \h50 .. \h57 -> Ops(Plain("Push", 8), "opreg", "none")
    [] op \in \h58 .. \h5F -> Ops(Plain("Pop", 8), "opreg", "none")
    [] op = \h68 -> Imm(Ops(Plain("Push", 8), "imm", "none"), 4)
    [] op = \h6A -> Imm(Ops(Plain("Push", 8), "imm", "none"), 1)

\* MOVSXD, and IMUL with three operands.
Widening(px, op) ==
  LET size == AluSize(px) IN
  IF op = \h63 THEN RegRm("MovSxd", size)
  ELSE Imm(RegRm("Imul3", size), IF op = \h6B THEN 1 ELSE ImmOf(size))

\* TEST, XCHG, MOV and LEA with a ModRM byte; LEA has no register form.
TestXchgMov(px, op) ==
  LET size == IF op % 2 = 0 THEN 1 ELSE AluSize(px) IN
  CASE op \in {\h84, \h85} -> RmReg("Test", size)
    [] op \in {\h86, \h87} -> RmReg("Xchg", size)
    [] op \in {\h88, \h89} -> RmReg("Mov", size)
    [] op \in {\h8A, \h8B} -> RegRm("Mov", size)
Lea(px, m) ==
  [RegRm("Lea", AluSize(px)) EXCEPT !.pre = IF m.mod = 3 THEN "InvalidInstruction" ELSE "Ok"]

\* B0 .. BF, whose register is in the opcode: an 8-bit one is not taken
\* through reg_operand.
MovImmediate(px, op) ==
  LET size == IF op <= \hB7 THEN 1 ELSE AluSize(px) IN
  Imm(Ops(Plain("Mov", size), "opreg", "imm"), size)

MovRmImmediate(px, op, m) ==
  LET size == IF op = \hC6 THEN 1 ELSE AluSize(px) IN
  [Imm(Ops(Rm("Mov", size), RmOf(size), "imm"), ImmOf(size)) EXCEPT !.pre = OkIf(m.reg = 0)]

StringKind == [op \in {\hA4, \hA5, \hA6, \hA7} \cup \hAA .. \hAF |->
  CASE op \in {\hA4, \hA5} -> "Movs" [] op \in {\hA6, \hA7} -> "Cmps"
    [] op \in {\hAA, \hAB} -> "Stos" [] op \in {\hAC, \hAD} -> "Lods"
    [] op \in {\hAE, \hAF} -> "Scas"]
StringOp(px, op) ==
  Plain(StringKind[op], IF op % 2 = 1 THEN AluSize(px) ELSE 1)

Relative(kind, n) == Imm(Ops(Flow(Plain(kind, n)), "rel", "none"), n)
LoopKind == <<"LoopNE", "LoopE", "Loop", "Jcxz">>

\* Calls, jumps, returns, loops, interrupts and HLT.
ControlFlow(op) ==
  CASE op \in \h70 .. \h7F -> Relative("Jcc", 1)
    [] op \in \hE0 .. \hE3 -> Relative(LoopKind[op - \hE0 + 1], 1)
    [] op = \hE8 -> Relative("Call", 4)
    [] op = \hE9 -> Relative("Jmp", 4)
    [] op = \hEB -> Relative("Jmp", 1)
    [] op = \hC2 -> Flow(Imm(Ops(Plain("Ret", 8), "imm", "none"), 2))
    [] op = \hC3 -> Flow(Plain("Ret", 8))
    [] op = \hCC -> Flow(Plain("Int3", 0))
    [] op = \hCD -> Flow(Imm(Ops(Plain("Int_n", 0), "imm", "none"), 1))
    [] op = \hF4 -> Flow(Plain("Hlt", 0))

\* NOP, the sign extensions of RAX, TEST RAX, and the flag transfers.
Miscellaneous(px, op) ==
  CASE op = \h90 -> Plain("Nop", 0)
    [] op \in {\h98, \h99} -> Plain(IF op = \h98 THEN "Cwde" ELSE "Cdq", AluSize(px))
    [] op \in {\hA8, \hA9} ->
         LET size == IF op = \hA8 THEN 1 ELSE AluSize(px)
         IN  Imm(Ops(Plain("Test", size), "acc", "imm"), ImmOf(size))
    [] op \in {\h9C, \h9D} -> Plain(IF op = \h9C THEN "Pushf" ELSE "Popf", 8)
    [] op \in {\h9E, \h9F} -> Plain(IF op = \h9E THEN "Sahf" ELSE "Lahf", 0)

\* x87: what is accepted with a register, by /reg or by the whole byte, ...
X87RegAccepted(op, m) ==
  CASE op = \hD8 -> m.reg \in {0, 1, 2, 3, 4, 6}
    [] op = \hD9 -> \/ m.reg \in {0, 1}
                    \/ m.byte \in {\hE0, \hE1, \hF0, \hF1, \hF3, \hFA} \cup \hFC .. \hFF
    [] op = \hDB -> m.byte = \hE3
    [] op \in {\hDC, \hDE} -> m.reg \in {0, 1, 4, 6}
    [] op = \hDD -> m.reg \in {2, 3}
    [] op = \hDF -> m.byte = \hE0
    [] OTHER -> FALSE
\* ... and with memory: the widths of the loads and stores.
X87MemSize(op, reg) ==
  CASE op = \hD9 /\ reg \in {0, 2, 3} -> 4 [] op = \hD9 /\ reg \in {5, 7} -> 2
    [] op = \hDB /\ reg \in {0, 3} -> 4    [] op = \hDB /\ reg \in {5, 7} -> 10
    [] op = \hDD /\ reg \in {0, 2, 3} -> 8
    [] op = \hDF /\ reg = 0 -> 2           [] op = \hDF /\ reg \in {5, 7} -> 8
    [] OTHER -> 0
X87Store(op, reg) == reg \in {2, 3} \/ reg = 7
X87(op, m) ==
  IF m.mod = 3
  THEN [Rm("X87", 0) EXCEPT !.post = OkIf(X87RegAccepted(op, m))]
  ELSE LET size == X87MemSize(op, m.reg)
           kind == IF op = \hD9 /\ m.reg = 7 THEN "X87"
                   ELSE IF X87Store(op, m.reg) THEN "X87Store" ELSE "X87"
       IN  [Ops(Rm(kind, size), "none", "rm") EXCEPT !.post = OkIf(size # 0)]

OneByte(px, op, m) ==
  CASE op <= \h3D /\ op % 8 < 6 -> AluPrimary(px, op)
    [] op \in \h50 .. \h5F \cup {\h68, \h6A} -> PushPop(op)
    [] op \in {\h63, \h69, \h6B} -> Widening(px, op)
    [] op \in {\h80, \h81, \h83} -> Group1(px, op, m)
    [] op \in \h84 .. \h8B -> TestXchgMov(px, op)
    [] op = \h8D -> Lea(px, m)
    [] op \in \hB0 .. \hBF -> MovImmediate(px, op)
    [] op \in {\hC0, \hC1} \cup \hD0 .. \hD3 -> Group2(px, op, m)
    [] op \in {\hC6, \hC7} -> MovRmImmediate(px, op, m)
    [] op \in \hD8 .. \hDF -> X87(op, m)
    [] op \in DOMAIN StringKind -> StringOp(px, op)
    [] op \in \h70 .. \h7F \cup \hE0 .. \hE3
              \cup {\hE8, \hE9, \hEB, \hC2, \hC3, \hCC, \hCD, \hF4} -> ControlFlow(op)
    [] op \in {\h90, \h98, \h99, \hA8, \hA9} \cup \h9C .. \h9F -> Miscellaneous(px, op)
    [] op \in {\hF6, \hF7} -> Group3(px, op, m)
    [] op \in {\hFE, \hFF} -> Group45(px, op, m)
    [] OTHER -> Unsupported

-----------------------------------------------------------------------------
(* 0F opcodes, without VEX.  Vector operations name an XMM register and an *)
(* XMM register or memory.                                                 *)

NoPrefix(px) == ~px.p66 /\ ~px.f2 /\ ~px.f3

XmmFromRm == Ops(Rm("Vector", 16), "xmm", "xmm/m")
XmmToRm == Ops(Rm("Vector", 16), "xmm/m", "xmm")

\* A vector operation between an XMM register and a general one, or memory,
\* of 4 or 8 bytes.
GprSize(px) == IF px.w THEN 8 ELSE 4
XmmFromGpr(size) == Ops(Rm("Vector", size), "xmm", RmOf(size))
GprFromXmm(size) == Ops(Rm("Vector", size), RmOf(size), "xmm")

\* MOVMSKPS and its like: r/m is taken for a register whatever mod is.
MoveMask == [Ops(Rm("Vector", 4), "reg", "xmm!") EXCEPT !.rm = FALSE]

\* 0F 38: MOVBE and CRC32, SHA without a prefix, the rest with 66.
Crc32(px, op) ==
  LET size == IF op = \hF0 THEN 1 ELSE AluSize(px)
  IN  Ops(Rm("Crc32", size), "reg", RmOf(size))
Map38(px, op) ==
  CASE op \in {\hF0, \hF1} /\ px.f2 -> Crc32(px, op)
    [] op = \hF0 /\ ~px.f2 -> RegRm("Movbe", AluSize(px))
    [] op = \hF1 /\ ~px.f2 -> RmReg("Movbe", AluSize(px))
    [] NoPrefix(px) /\ op \in \hC8 .. \hCD -> XmmFromRm
    [] px.p66 /\ op \in {0, \h20} \cup \h1C .. \h1E \cup \h37 .. \h3F \cup \hDB .. \hDF ->
         XmmFromRm
    [] OTHER -> Unsupported

\* 0F 3A: an immediate byte after all that is decoded.
Map3A(px, op) ==
  CASE NoPrefix(px) /\ op = \hCC -> Imm(XmmFromRm, 1)
    [] px.p66 /\ op \in \h08 .. \h0B \cup {\h21, \h44, \hDF} \cup \h60 .. \h63 ->
         Imm(XmmFromRm, 1)
    [] px.p66 /\ op \in \h14 .. \h16 ->
         Imm(GprFromXmm(CASE op = \h14 -> 1 [] op = \h15 -> 2 [] OTHER -> GprSize(px)), 1)
    [] px.p66 /\ op \in {\h20, \h22} ->
         Imm(XmmFromGpr(IF op = \h20 THEN 1 ELSE GprSize(px)), 1)
    [] OTHER -> Unsupported

\* F3 0F and F2 0F: scalars.
ScalarOpcode(px) ==
  {\h10, \h11, \h2A, \h2C, \h51, \h70} \cup \h58 .. \h5A \cup \h5C .. \h5F
    \cup IF px.f2 THEN {} ELSE {\h52, \h53}
Scalar(px, op) ==
  CASE op = \h11 -> XmmToRm
    [] op = \h2A -> XmmFromGpr(GprSize(px))
    [] op = \h2C -> Ops(Rm("Vector", GprSize(px)), "reg", "xmm/m")
    [] op = \h70 -> Imm(XmmFromRm, 1)
    [] OTHER -> XmmFromRm

\* 66 0F: packed doubles.
DoubleOpcode ==
  {\h10, \h11, \h28, \h29, \h2E, \h2F, \h51, \h54, \h5E} \cup \h56 .. \h59 \cup {\h5C}
PackedDouble(op) == IF op \in {\h11, \h29} THEN XmmToRm ELSE XmmFromRm

\* 0F: packed singles.
SingleOpcode == DoubleOpcode \cup {\h50, \h52, \h53, \hC6}
PackedSingle(op) ==
  CASE op \in {\h11, \h29} -> XmmToRm
    [] op = \h50 -> MoveMask
    [] op = \hC6 -> Imm(XmmFromRm, 1)
    [] OTHER -> XmmFromRm

\* 66 0F: packed integers.
IntegerOpcode ==
  {\h50, \h70, \h7E, \h7F, \hC6, \hD4, \hD5, \hD7, \hDB, \hE1, \hE2, \hE4, \hE5, \hEB, \hEF, \hF5}
    \cup \h60 .. \h62 \cup \h68 .. \h6A \cup \h6C .. \h6F \cup \h74 .. \h76
    \cup \hD1 .. \hD3 \cup \hF1 .. \hF3 \cup \hF8 .. \hFE
PackedInteger(px, op) ==
  CASE op = \h7F -> XmmToRm
    [] op = \h6E -> XmmFromGpr(GprSize(px))
    [] op = \h7E -> GprFromXmm(GprSize(px))
    [] op \in {\h50, \hD7} -> MoveMask
    [] op \in {\h70, \hC6} -> Imm(XmmFromRm, 1)
    [] OTHER -> XmmFromRm

\* F3 0F: MOVDQU, MOVQ and the bit counts; BSF and BSR without F3.
F3Move(op) ==
  CASE op = \h6F -> XmmFromRm
    [] op = \h7F -> XmmToRm
    [] op = \h7E -> [XmmFromRm EXCEPT !.size = 8]
BitCount(px, op) ==
  LET size == AluSize(px) IN
  CASE op = \hB8 -> RegRm("Popcnt", size)
    [] op = \hBC -> RegRm(IF px.f3 THEN "Tzcnt" ELSE "Bsf", size)
    [] op = \hBD -> RegRm(IF px.f3 THEN "Lzcnt" ELSE "Bsr", size)

BitTestKind == <<"Bt", "Bts", "Btr", "Btc">>
BitTest(px, op, m) ==
  IF op = \hBA
  THEN LET kind == IF m.reg >= 4 THEN BitTestKind[m.reg - 3] ELSE "Invalid" IN
       [Imm(Ops(Rm(kind, AluSize(px)), "rm", "imm"), 1) EXCEPT !.post = OkIf(m.reg >= 4)]
  ELSE RmReg(BitTestKind[(op - \hA3) \div 8 + 1], AluSize(px))

\* UD2, SYSCALL, RDTSC, CPUID and BSWAP: no ModRM byte.
Standalone(px, op) ==
  CASE op = \h05 -> Flow(Plain("Syscall", 0))
    [] op = \h0B -> Reject("InvalidInstruction")
    [] op = \h31 -> Plain("Rdtsc", 0)
    [] op = \hA2 -> Plain("Cpuid", 0)
    [] op \in \hC8 .. \hCF -> Ops(Plain("Bswap", GprSize(px)), "opreg", "none")

\* Prefetches, fences, CLFLUSH and the long NOP.
Hints(op, m) ==
  CASE op = \h18 -> Ops(Rm("Prefetch", 1), "none", "rm8")
    [] op = \hAE /\ m.mod = 3 -> [Rm("Fence", 0) EXCEPT !.post = OkIf(m.reg \in {5, 6, 7})]
    [] op = \hAE /\ m.mod # 3 ->
         [Ops(Rm("Clflush", 1), "none", "rm8") EXCEPT !.pre = OkIf(m.reg = 7)]
    [] op = \h1F -> Ops(Rm("Nop", 1), "none", IF m.mod = 3 THEN "none" ELSE "rm8")

\* RDRAND, SHLD and SHRD, IMUL, MOVZX and MOVSX.
RdRand(px, m) == [OnRm("Rdrand", AluSize(px)) EXCEPT !.pre = OkIf(m.reg \in {6, 7})]
DoubleShift(px, op) ==
  LET f == OnRm(IF op < \hA8 THEN "Shld" ELSE "Shrd", AluSize(px))
  IN  IF op % 2 = 0 THEN Imm([f EXCEPT !.src = "imm"], 1) ELSE [f EXCEPT !.src = "cl"]
Extend(px, op) ==
  [RegRm(IF op < \hB8 THEN "MovZx" ELSE "MovSx", AluSize(px))
     EXCEPT !.src = IF op % 2 = 0 THEN "rm8" ELSE "rm"]

\* By opcode alone, whatever the prefixes are.
General(px, op, m) ==
  CASE op \in {\hBC, \hBD} \/ (op = \hB8 /\ px.f3) -> BitCount(px, op)
    [] op \in {\hA3, \hAB, \hB3, \hBB, \hBA} -> BitTest(px, op, m)
    [] op \in \h40 .. \h4F -> RegRm("Cmov", AluSize(px))
    [] op \in \h80 .. \h8F -> Relative("Jcc", 4)
    [] op \in {\h05, \h0B, \h31, \hA2} \cup \hC8 .. \hCF -> Standalone(px, op)
    [] op \in {\h18, \hAE, \h1F} -> Hints(op, m)
    [] op = \hC7 -> RdRand(px, m)
    [] op \in {\hA4, \hA5, \hAC, \hAD} -> DoubleShift(px, op)
    [] op = \hAF -> RegRm("Imul", AluSize(px))
    [] op \in {\hB6, \hB7, \hBE, \hBF} -> Extend(px, op)
    [] OTHER -> Unsupported

TwoByte(px, op, m) ==
  IF (px.f2 \/ px.f3) /\ op \in ScalarOpcode(px) THEN Scalar(px, op)
  ELSE IF px.p66 /\ op \in DoubleOpcode THEN PackedDouble(op)
  ELSE IF NoPrefix(px) /\ op \in SingleOpcode THEN PackedSingle(op)
  ELSE IF px.p66 /\ op \in IntegerOpcode THEN PackedInteger(px, op)
  ELSE IF px.f3 /\ op \in {\h6F, \h7E, \h7F} THEN F3Move(op)
  ELSE General(px, op, m)

-----------------------------------------------------------------------------
(* VEX and EVEX opcodes *)

Vex(f) == [f EXCEPT !.flags = @ \cup {"VEX"}]
WithSize(f, size) == [f EXCEPT !.size = size]

VexRm(px) == Vex(WithSize(XmmFromRm, VectorSize(px)))
VexMr(px) == Vex(WithSize(XmmToRm, VectorSize(px)))
VexGpr(px, kind) == Vex(RegRm(kind, GprSize(px)))

\* Gathers and scatters go through memory: no register form.
VectorMemory(px, m) ==
  [Vex(Ops(Rm("Gather", VectorSize(px)), "xmm", "rm"))
     EXCEPT !.pre = IF m.mod = 3 THEN "InvalidInstruction" ELSE "Ok"]

VexIntegerOpcode == {\hD4, \hDB, \hEB, \hEF} \cup \hF8 .. \hFE

\* Map 1: packed integers and moves, and VZEROUPPER or VZEROALL.
VexMap1(px, op) ==
  CASE px.p66 /\ op \in VexIntegerOpcode -> VexRm(px)
    [] (px.p66 \/ px.f3) /\ op = \h6F -> VexRm(px)
    [] (px.p66 \/ px.f3) /\ op = \h7F -> VexMr(px)
    [] NoPrefix(px) /\ op = \h77 -> Plain("Vector", 0)
    [] OTHER -> Unsupported

\* Map 2 with 66: shuffles, AES and gathers; without: BMI.
VexMap2Sse(px, op, m) ==
  CASE op \in {0, \h37} \cup \hDC .. \hDF -> VexRm(px)
    [] op \in \h90 .. \h93 -> VectorMemory(px, m)
    [] OTHER -> Unsupported
BlsKind == <<"Blsr", "Blsmsk", "Blsi">>
Bls(px, m) ==
  LET kind == IF m.reg \in 1 .. 3 THEN BlsKind[m.reg] ELSE "Invalid" IN
  [Vex(Ops(Rm(kind, GprSize(px)), "vvvv", "rm")) EXCEPT !.post = OkIf(m.reg \in 1 .. 3)]
VexMap2(px, op, m) ==
  CASE px.p66 -> VexMap2Sse(px, op, m)
    [] ~px.p66 /\ op = \hF2 /\ NoPrefix(px) -> VexGpr(px, "Andn")
    [] ~px.p66 /\ op = \hF7 ->
         VexGpr(px, IF px.f3 THEN "Sarx" ELSE IF px.f2 THEN "Shrx" ELSE "Bextr")
    [] ~px.p66 /\ op = \hF5 ->
         VexGpr(px, IF px.f3 THEN "Pext" ELSE IF px.f2 THEN "Pdep" ELSE "Bzhi")
    [] ~px.p66 /\ op = \hF6 /\ px.f2 -> VexGpr(px, "Mulx")
    [] ~px.p66 /\ op = \hF3 -> Bls(px, m)
    [] OTHER -> Unsupported

VexMap3(px, op) ==
  CASE op = \h44 /\ px.p66 -> Imm(VexRm(px), 1)
    [] op = \hF0 /\ px.f2 -> Imm(VexGpr(px, "Rorx"), 1)
    [] OTHER -> Unsupported

EvexFpOpcode == {\h51, \h58, \h59} \cup \h5C .. \h5F
EvexMap1(px, op) ==
  CASE px.p66 /\ op \in EvexFpOpcode \cup VexIntegerOpcode -> VexRm(px)
    [] NoPrefix(px) /\ op \in EvexFpOpcode -> VexRm(px)
    [] (px.p66 \/ px.f3) /\ op = \h6F -> VexRm(px)
    [] (px.p66 \/ px.f3) /\ op = \h7F -> VexMr(px)
    [] OTHER -> Unsupported
EvexMap2(px, op, m) ==
  IF px.p66 /\ op \in \hA0 .. \hA3 THEN VectorMemory(px, m) ELSE Unsupported

\* The opcode maps that have an opcode byte read at all.
VexMapKnown(px) == px.map \in IF px.vex = "evex" THEN 1 .. 2 ELSE 1 .. 3
VexFormat(px, op, m) ==
  IF px.vex = "evex"
  THEN IF px.map = 2 THEN EvexMap2(px, op, m) ELSE EvexMap1(px, op)
  ELSE CASE px.map = 1 -> VexMap1(px, op)
         [] px.map = 2 -> VexMap2(px, op, m)
         [] px.map = 3 -> VexMap3(px, op)

Format(px, map, op, m) ==
  IF px.vex # "no" THEN VexFormat(px, op, m)
  ELSE CASE map = 0 -> OneByte(px, op, m)
         [] map = 1 -> TwoByte(px, op, m)
         [] map = 2 -> Map38(px, op)
         [] map = 3 -> Map3A(px, op)

=============================================================================
