---------------------------- MODULE GuestStepProofs ----------------------------
(***************************************************************************)
(* Proofs about GuestStep. The decoder, for any bytes it may be given and  *)
(* any order in which they become readable: two sequences of bytes that    *)
(* begin alike are read alike as far as both go; all else follows from     *)
(* what the opcode tables say of one opcode. The handlers, for any guest   *)
(* and any accesses refused: an instruction that is refused an access      *)
(* either has changed nothing or, a repeated string, has done the elements *)
(* that came before; and one that leaves the straight line is one the      *)
(* tables have marked.                                                     *)
(***************************************************************************)
EXTENDS MCGuestStep, SequenceTheorems, NaturalsInduction, WellFoundedInduction, TLAPS

-----------------------------------------------------------------------------
(* Formats *)

\* A format has these fields, and says this of the bytes that are read.
Fields == {"modrm", "pre", "rm", "imm", "post", "kind", "size", "flags", "dst", "src"}
Built(f) == DOMAIN f = Fields
Reads(f, modrm, imm, pre, post) ==
  f.modrm = modrm /\ f.rm = TRUE /\ f.imm = imm /\ f.pre = pre /\ f.post = post
Alike(f, g) ==
  /\ g.modrm = f.modrm /\ g.rm = f.rm /\ g.imm = f.imm /\ g.pre = f.pre /\ g.post = f.post

LEMMA RejectIs ==
  \A why : Built(Reject(why)) /\ Reads(Reject(why), FALSE, 0, "Ok", why)
BY DEF Reject, Built, Fields, Reads

LEMMA PlainIs ==
  \A kind, size : Built(Plain(kind, size)) /\ Reads(Plain(kind, size), FALSE, 0, "Ok", "Ok")
BY RejectIs DEF Plain, Built, Fields, Reads

LEMMA RmIs ==
  \A kind, size : Built(Rm(kind, size)) /\ Reads(Rm(kind, size), TRUE, 0, "Ok", "Ok")
BY PlainIs DEF Rm, Built, Fields, Reads

\* What the builders change: of what is read, Imm the immediate alone.
LEMMA ImmIs ==
  \A f, n : Built(f) =>
    LET g == Imm(f, n) IN
    Built(g) /\ g.modrm = f.modrm /\ g.rm = f.rm /\ g.imm = n /\ g.pre = f.pre /\ g.post = f.post
BY DEF Imm, Built, Fields

LEMMA OpsIs == \A f, x, y : Built(f) => Built(Ops(f, x, y)) /\ Alike(f, Ops(f, x, y))
BY DEF Ops, Built, Fields, Alike

LEMMA FlowIs == \A f : Built(f) => Built(Flow(f)) /\ Alike(f, Flow(f))
BY DEF Flow, Built, Fields, Alike

LEMMA VexIs == \A f : Built(f) => Built(Vex(f)) /\ Alike(f, Vex(f))
BY DEF Vex, Built, Fields, Alike

LEMMA WithSizeIs == \A f, x : Built(f) => Built(WithSize(f, x)) /\ Alike(f, WithSize(f, x))
BY DEF WithSize, Built, Fields, Alike

\* The shapes most opcodes have.
LEMMA RegRmIs ==
  \A kind, size :
    /\ Built(RegRm(kind, size)) /\ Reads(RegRm(kind, size), TRUE, 0, "Ok", "Ok")
    /\ Built(RmReg(kind, size)) /\ Reads(RmReg(kind, size), TRUE, 0, "Ok", "Ok")
    /\ Built(OnRm(kind, size)) /\ Reads(OnRm(kind, size), TRUE, 0, "Ok", "Ok")
BY RmIs, OpsIs DEF RegRm, RmReg, OnRm, Reads, Alike

LEMMA XmmIs ==
  /\ Built(XmmFromRm) /\ Reads(XmmFromRm, TRUE, 0, "Ok", "Ok")
  /\ Built(XmmToRm) /\ Reads(XmmToRm, TRUE, 0, "Ok", "Ok")
  /\ \A size : Built(XmmFromGpr(size)) /\ Reads(XmmFromGpr(size), TRUE, 0, "Ok", "Ok")
  /\ \A size : Built(GprFromXmm(size)) /\ Reads(GprFromXmm(size), TRUE, 0, "Ok", "Ok")
BY RmIs, OpsIs DEF XmmFromRm, XmmToRm, XmmFromGpr, GprFromXmm, Reads, Alike

LEMMA VexShapesAre ==
  \A px, kind :
    /\ Built(VexRm(px)) /\ Reads(VexRm(px), TRUE, 0, "Ok", "Ok")
    /\ Built(VexMr(px)) /\ Reads(VexMr(px), TRUE, 0, "Ok", "Ok")
    /\ Built(VexGpr(px, kind)) /\ Reads(VexGpr(px, kind), TRUE, 0, "Ok", "Ok")
<1> SUFFICES ASSUME NEW px, NEW kind
             PROVE  /\ Built(VexRm(px)) /\ Reads(VexRm(px), TRUE, 0, "Ok", "Ok")
                    /\ Built(VexMr(px)) /\ Reads(VexMr(px), TRUE, 0, "Ok", "Ok")
                    /\ Built(VexGpr(px, kind)) /\ Reads(VexGpr(px, kind), TRUE, 0, "Ok", "Ok")
  OBVIOUS
<1>1. Built(VexRm(px)) /\ Reads(VexRm(px), TRUE, 0, "Ok", "Ok")
  BY XmmIs, VexIs, WithSizeIs DEF VexRm, Reads, Alike
<1>2. Built(VexMr(px)) /\ Reads(VexMr(px), TRUE, 0, "Ok", "Ok")
  BY XmmIs, VexIs, WithSizeIs DEF VexMr, Reads, Alike
<1>3. Built(VexGpr(px, kind)) /\ Reads(VexGpr(px, kind), TRUE, 0, "Ok", "Ok")
  BY RegRmIs, VexIs DEF VexGpr, Reads, Alike
<1> QED BY <1>1, <1>2, <1>3

-----------------------------------------------------------------------------
(* One opcode *)

Verdicts == {"Ok", "UnsupportedOpcode", "InvalidInstruction"}
ModRm == [byte : Byte, mod : 0 .. 3, reg : 0 .. 7, rm : 0 .. 7]

\* Departs, of an opcode and its ModRM byte.
Odd(px, map, opc, m) ==
  \/ map = 0 /\ opc = \h68 /\ px.p66 /\ ~px.w
  \/ map = 1 /\ opc \in {\h50, \hD7} /\ px.vex = "no" /\ m.mod # 3

\* The roles of operands that no ModRM byte names.
Implicit == {"none", "opreg", "acc", "imm", "rel"}
Plainly(f, n) ==
  Reads(f, FALSE, n, "Ok", "Ok") /\ f.dst \in Implicit /\ f.src \in Implicit

LEMMA RolesAre ==
  /\ \A kind, size : Plain(kind, size).dst = "none" /\ Plain(kind, size).src = "none"
  /\ \A f, x, y : Built(f) => Ops(f, x, y).dst = x /\ Ops(f, x, y).src = y
  /\ \A f, n : Built(f) => Imm(f, n).dst = f.dst /\ Imm(f, n).src = f.src
  /\ \A f : Built(f) => Flow(f).dst = f.dst /\ Flow(f).src = f.src
BY DEF Plain, Reject, Ops, Imm, Flow, Built, Fields

\* What is to be shown of each format: its verdicts are verdicts and, when
\* they are good, the bytes it reads are those of the architecture, and its
\* operands are in the ModRM byte only when it reads one.
Right(f, px, map, opc, m) ==
  /\ f.modrm \in BOOLEAN /\ f.imm \in Nat /\ f.pre \in Verdicts /\ f.post \in Verdicts
  /\ f.pre = "Ok" /\ f.post = "Ok" =>
       /\ (f.modrm = TRUE) <=> IsaModRm(map, opc)
       /\ Odd(px, map, opc, m) \/ f.imm = IsaImmediate(px, map, opc, m)
       /\ f.modrm = TRUE =>
            Odd(px, map, opc, m) \/ f.rm = TRUE \/ m.mod = 3
       /\ f.modrm = TRUE \/ (f.dst \in Implicit /\ f.src \in Implicit)

LEMMA ModRmRight ==
  ASSUME NEW f, NEW i \in Nat, NEW p \in Verdicts, NEW q \in Verdicts,
         Reads(f, TRUE, i, p, q), NEW px, NEW map, NEW opc, NEW m,
         IsaModRm(map, opc), IsaImmediate(px, map, opc, m) = i
  PROVE  Right(f, px, map, opc, m) /\ f.modrm = TRUE
<1>1. f.modrm \in BOOLEAN /\ f.modrm = TRUE
  BY DEF Reads
<1>2. f.imm \in Nat /\ f.imm = IsaImmediate(px, map, opc, m)
  BY DEF Reads
<1>3. f.pre \in Verdicts /\ f.post \in Verdicts /\ f.rm = TRUE
  BY DEF Reads
<1>4. (f.modrm = TRUE) <=> IsaModRm(map, opc)
  BY <1>1
<1>5. Right(f, px, map, opc, m)
  BY <1>1, <1>2, <1>3, <1>4, Zenon DEF Right
<1> QED BY <1>5, <1>1

LEMMA PlainRight ==
  ASSUME NEW f, NEW i \in Nat, Plainly(f, i), NEW px, NEW map, NEW opc, NEW m,
         ~IsaModRm(map, opc), Odd(px, map, opc, m) \/ IsaImmediate(px, map, opc, m) = i
  PROVE  Right(f, px, map, opc, m)
<1>1. f.modrm \in BOOLEAN /\ f.modrm # TRUE
  BY DEF Plainly, Reads
<1>2. f.imm \in Nat /\ (Odd(px, map, opc, m) \/ f.imm = IsaImmediate(px, map, opc, m))
  BY DEF Plainly, Reads
<1>3. f.pre \in Verdicts /\ f.post \in Verdicts
  BY DEF Plainly, Reads, Verdicts
<1>4. (f.modrm = TRUE) <=> IsaModRm(map, opc)
  BY <1>1
<1>5. f.dst \in Implicit /\ f.src \in Implicit
  BY DEF Plainly
<1> QED BY <1>1, <1>2, <1>3, <1>4, <1>5, Zenon DEF Right

LEMMA RejectRight ==
  ASSUME NEW px, NEW map, NEW opc, NEW m, NEW why \in {"UnsupportedOpcode", "InvalidInstruction"},
         NEW f, f = Reject(why)
  PROVE  Right(f, px, map, opc, m)
<1>1. f.modrm \in BOOLEAN
  BY RejectIs DEF Reads
<1>2. f.imm \in Nat
  BY RejectIs DEF Reads
<1>3. f.pre \in Verdicts /\ f.post \in Verdicts /\ f.post # "Ok"
  BY RejectIs DEF Reads, Verdicts
<1> QED BY <1>1, <1>2, <1>3, Zenon DEF Right

\* The bytes of the operand size.
Word(px) == IF px.p66 /\ ~px.w THEN 2 ELSE 4

LEMMA WordIs ==
  ASSUME NEW px
  PROVE  /\ ImmOf(AluSize(px)) = Word(px) /\ Word(px) \in Nat /\ ImmOf(1) = 1
         /\ AluSize(px) = IF px.w THEN 8 ELSE Word(px)
BY DEF ImmOf, AluSize, Word

\* The opcodes the functions of the one-byte map are about.
AluOps == {o \in Byte : o <= \h3D /\ o % 8 < 6}
PushPopOps == \h50 .. \h5F \cup {\h68, \h6A}
WideningOps == {\h63, \h69, \h6B}
Group1Ops == {\h80, \h81, \h83}
TestXchgMovOps == \h84 .. \h8B
MovImmediateOps == \hB0 .. \hBF
Group2Ops == {\hC0, \hC1} \cup \hD0 .. \hD3
MovRmOps == {\hC6, \hC7}
X87Ops == \hD8 .. \hDF
StringOps == {\hA4, \hA5, \hA6, \hA7} \cup \hAA .. \hAF
FlowOps == \h70 .. \h7F \cup \hE0 .. \hE3
             \cup {\hE8, \hE9, \hEB, \hC2, \hC3, \hCC, \hCD, \hF4}
MiscOps == {\h90, \h98, \h99, \hA8, \hA9} \cup \h9C .. \h9F
Group3Ops == {\hF6, \hF7}
Group45Ops == {\hFE, \hFF}

LEMMA AluPrimaryRight ==
  ASSUME NEW px, NEW opc \in AluOps, NEW m
  PROVE  Right(AluPrimary(px, opc), px, 0, opc, m)
<1> DEFINE variant == opc % 8
           f == AluPrimary(px, opc)
<1>0. variant \in 0 .. 5 /\ opc \in 0 .. 61
  BY DEF AluOps, Byte
<1>1. CASE variant < 4
  <2>1. \E kind, size : f = RmReg(kind, size) \/ f = RegRm(kind, size)
    BY <1>0, <1>1 DEF AluPrimary
  <2>2. Reads(f, TRUE, 0, "Ok", "Ok")
    BY <2>1, RegRmIs
  <2>3. IsaModRm(0, opc)
    BY <1>0, <1>1 DEF IsaModRm
  <2>4. IsaImmediate(px, 0, opc, m) = 0
    BY <1>0, <1>1 DEF IsaImmediate
  <2> QED BY <2>2, <2>3, <2>4, ModRmRight DEF Verdicts
<1>2. CASE variant = 4
  <2>1. Plainly(f, 1)
    BY <1>0, <1>2, PlainIs, OpsIs, ImmIs, RolesAre, WordIs
    DEF AluPrimary, Plainly, Implicit, Reads, Alike
  <2>2. ~IsaModRm(0, opc)
    BY <1>0, <1>2 DEF IsaModRm
  <2>3. IsaImmediate(px, 0, opc, m) = 1
    BY <1>0, <1>2 DEF IsaImmediate
  <2> QED BY <2>1, <2>2, <2>3, PlainRight
<1>3. CASE variant = 5
  <2>1. Plainly(f, Word(px))
    BY <1>0, <1>3, PlainIs, OpsIs, ImmIs, RolesAre, WordIs
    DEF AluPrimary, Plainly, Implicit, Reads, Alike
  <2>2. ~IsaModRm(0, opc)
    BY <1>0, <1>3 DEF IsaModRm
  <2>3. IsaImmediate(px, 0, opc, m) = Word(px)
    BY <1>0, <1>3 DEF IsaImmediate, Word
  <2> QED BY <2>1, <2>2, <2>3, PlainRight, WordIs
<1> QED BY <1>0, <1>1, <1>2, <1>3

LEMMA WideningRight ==
  ASSUME NEW px, NEW opc \in WideningOps, NEW m
  PROVE  Right(Widening(px, opc), px, 0, opc, m) /\ Widening(px, opc).modrm = TRUE
<1> DEFINE n == IF opc = \h69 THEN Word(px) ELSE IF opc = \h6B THEN 1 ELSE 0
<1>1. Reads(Widening(px, opc), TRUE, n, "Ok", "Ok")
  BY RegRmIs, ImmIs, WordIs DEF WideningOps, Widening, Reads
<1>2. IsaModRm(0, opc)
  BY DEF WideningOps, IsaModRm
<1>3. IsaImmediate(px, 0, opc, m) = n
  BY DEF WideningOps, IsaImmediate, Word
<1>4. "Ok" \in Verdicts /\ n \in Nat
  BY WordIs DEF Verdicts
<1> HIDE DEF n
<1> QED BY <1>1, <1>2, <1>3, <1>4, ModRmRight

LEMMA Group1Right ==
  ASSUME NEW px, NEW opc \in Group1Ops, NEW m
  PROVE  Right(Group1(px, opc, m), px, 0, opc, m) /\ Group1(px, opc, m).modrm = TRUE
<1> DEFINE n == IF opc = \h81 THEN Word(px) ELSE 1
<1>1. Reads(Group1(px, opc, m), TRUE, n, "Ok", "Ok")
  BY RmIs, OpsIs, ImmIs, WordIs DEF Group1Ops, Group1, Group1Imm, Reads, Alike
<1>2. IsaModRm(0, opc)
  BY DEF Group1Ops, IsaModRm
<1>3. IsaImmediate(px, 0, opc, m) = n
  BY DEF Group1Ops, IsaImmediate, Word
<1>4. "Ok" \in Verdicts /\ n \in Nat
  BY WordIs DEF Verdicts
<1> HIDE DEF n
<1> QED BY <1>1, <1>2, <1>3, <1>4, ModRmRight

LEMMA TestXchgMovRight ==
  ASSUME NEW px, NEW opc \in TestXchgMovOps, NEW m
  PROVE  Right(TestXchgMov(px, opc), px, 0, opc, m) /\ TestXchgMov(px, opc).modrm = TRUE
<1>1. Reads(TestXchgMov(px, opc), TRUE, 0, "Ok", "Ok")
  <2>1. \E kind, size : \/ TestXchgMov(px, opc) = RmReg(kind, size)
                        \/ TestXchgMov(px, opc) = RegRm(kind, size)
    BY DEF TestXchgMovOps, TestXchgMov
  <2> QED BY <2>1, RegRmIs
<1>2. IsaModRm(0, opc)
  BY DEF TestXchgMovOps, IsaModRm
<1>3. IsaImmediate(px, 0, opc, m) = 0
  BY DEF TestXchgMovOps, IsaImmediate
<1>4. "Ok" \in Verdicts
  BY DEF Verdicts
<1> QED BY <1>1, <1>2, <1>3, <1>4, ModRmRight

LEMMA Group2Right ==
  ASSUME NEW px, NEW opc \in Group2Ops, NEW m
  PROVE  Right(Group2(px, opc, m), px, 0, opc, m) /\ Group2(px, opc, m).modrm = TRUE
<1> DEFINE n == IF opc \in {\hC0, \hC1} THEN 1 ELSE 0
<1>1. Reads(Group2(px, opc, m), TRUE, n, "Ok", "Ok")
  BY RmIs, OpsIs, ImmIs DEF Group2Ops, Group2, Reads, Alike
<1>2. IsaModRm(0, opc)
  BY DEF Group2Ops, IsaModRm
<1>3. IsaImmediate(px, 0, opc, m) = n
  BY DEF Group2Ops, IsaImmediate
<1>4. "Ok" \in Verdicts /\ n \in Nat
  BY WordIs DEF Verdicts
<1> HIDE DEF n
<1> QED BY <1>1, <1>2, <1>3, <1>4, ModRmRight

LEMMA Group3Right ==
  ASSUME NEW px, NEW opc \in Group3Ops, NEW m \in ModRm
  PROVE  Right(Group3(px, opc, m), px, 0, opc, m) /\ Group3(px, opc, m).modrm = TRUE
<1> DEFINE n == IF m.reg < 2 THEN IF opc = \hF6 THEN 1 ELSE Word(px) ELSE 0
<1>0. m.reg \in 0 .. 7
  BY DEF ModRm
<1>1. Reads(Group3(px, opc, m), TRUE, n, "Ok", "Ok")
  BY <1>0, RmIs, RegRmIs, OpsIs, ImmIs, WordIs DEF Group3Ops, Group3, Reads, Alike
<1>2. IsaModRm(0, opc)
  BY DEF Group3Ops, IsaModRm
<1>3. IsaImmediate(px, 0, opc, m) = n
  BY <1>0 DEF Group3Ops, IsaImmediate, Word
<1>4. "Ok" \in Verdicts /\ n \in Nat
  BY WordIs DEF Verdicts
<1> HIDE DEF n
<1> QED BY <1>1, <1>2, <1>3, <1>4, ModRmRight

LEMMA Group45Right ==
  ASSUME NEW px, NEW opc \in Group45Ops, NEW m
  PROVE  Right(Group45(px, opc, m), px, 0, opc, m) /\ Group45(px, opc, m).modrm = TRUE
<1>1. PICK p \in Verdicts, q \in Verdicts : Reads(Group45(px, opc, m), TRUE, 0, p, q)
  <2>1. \/ Reads(Group45(px, opc, m), TRUE, 0, "Ok", "Ok")
        \/ Reads(Group45(px, opc, m), TRUE, 0, "Ok", "UnsupportedOpcode")
    BY RegRmIs, FlowIs DEF Group45, Indirect, Reads, Alike, Built, Fields
  <2> QED BY <2>1 DEF Verdicts
<1>2. IsaModRm(0, opc)
  BY DEF Group45Ops, IsaModRm
<1>3. IsaImmediate(px, 0, opc, m) = 0
  BY DEF Group45Ops, IsaImmediate
<1>4. "Ok" \in Verdicts
  BY DEF Verdicts
<1> QED BY <1>1, <1>2, <1>3, <1>4, ModRmRight

LEMMA LeaRight ==
  ASSUME NEW px, NEW m
  PROVE  Right(Lea(px, m), px, 0, \h8D, m) /\ Lea(px, m).modrm = TRUE
<1>1. PICK p \in Verdicts : Reads(Lea(px, m), TRUE, 0, p, "Ok")
  BY RegRmIs DEF Lea, Reads, Built, Fields, Verdicts
<1>2. IsaModRm(0, \h8D)
  BY DEF IsaModRm
<1>3. IsaImmediate(px, 0, \h8D, m) = 0
  BY DEF IsaImmediate
<1> QED BY <1>1, <1>2, <1>3, ModRmRight DEF Verdicts

LEMMA MovRmRight ==
  ASSUME NEW px, NEW opc \in MovRmOps, NEW m
  PROVE  /\ Right(MovRmImmediate(px, opc, m), px, 0, opc, m)
         /\ MovRmImmediate(px, opc, m).modrm = TRUE
<1> DEFINE n == IF opc = \hC6 THEN 1 ELSE Word(px)
           g == LET size == IF opc = \hC6 THEN 1 ELSE AluSize(px)
                IN  Imm(Ops(Rm("Mov", size), RmOf(size), "imm"), ImmOf(size))
<1>1. PICK p \in Verdicts : Reads(MovRmImmediate(px, opc, m), TRUE, n, p, "Ok")
  <2>1. Built(g) /\ Reads(g, TRUE, n, "Ok", "Ok")
    BY RmIs, OpsIs, ImmIs, WordIs DEF MovRmOps, Reads, Alike
  <2>2. MovRmImmediate(px, opc, m) = [g EXCEPT !.pre = OkIf(m.reg = 0)]
    BY DEF MovRmImmediate
  <2> HIDE DEF g, n
  <2>3. Reads(MovRmImmediate(px, opc, m), TRUE, n, OkIf(m.reg = 0), "Ok")
    BY <2>1, <2>2 DEF Reads, Built, Fields
  <2> QED BY <2>3 DEF OkIf, Verdicts
<1>2. IsaModRm(0, opc)
  BY DEF MovRmOps, IsaModRm
<1>3. IsaImmediate(px, 0, opc, m) = n
  BY DEF MovRmOps, IsaImmediate, Word
<1>4. "Ok" \in Verdicts /\ n \in Nat
  BY WordIs DEF Verdicts
<1> HIDE DEF n
<1> QED BY <1>1, <1>2, <1>3, <1>4, ModRmRight

LEMMA PushPopRight ==
  ASSUME NEW px, NEW opc \in PushPopOps, NEW m
  PROVE  Right(PushPop(opc), px, 0, opc, m)
<1> DEFINE n == IF opc = \h68 THEN 4 ELSE IF opc = \h6A THEN 1 ELSE 0
<1>1. Plainly(PushPop(opc), n)
  BY PlainIs, OpsIs, ImmIs, RolesAre DEF PushPopOps, PushPop, Plainly, Implicit, Reads, Alike
<1>2. ~IsaModRm(0, opc)
  BY DEF PushPopOps, IsaModRm
<1>3. Odd(px, 0, opc, m) \/ IsaImmediate(px, 0, opc, m) = n
  BY DEF PushPopOps, IsaImmediate, Odd
<1>4. n \in Nat
  OBVIOUS
<1> HIDE DEF n
<1> QED BY <1>1, <1>2, <1>3, <1>4, PlainRight

LEMMA MovImmediateRight ==
  ASSUME NEW px, NEW opc \in MovImmediateOps, NEW m
  PROVE  Right(MovImmediate(px, opc), px, 0, opc, m)
<1> DEFINE n == IF opc <= \hB7 THEN 1 ELSE AluSize(px)
<1>1. Plainly(MovImmediate(px, opc), n)
  BY PlainIs, OpsIs, ImmIs, RolesAre DEF 
     MovImmediateOps, MovImmediate, Plainly, Implicit, Reads, Alike
<1>2. ~IsaModRm(0, opc)
  BY DEF MovImmediateOps, IsaModRm
<1>3. IsaImmediate(px, 0, opc, m) = n
  BY DEF MovImmediateOps, IsaImmediate, AluSize
<1>4. n \in Nat
  BY DEF AluSize
<1> HIDE DEF n
<1> QED BY <1>1, <1>2, <1>3, <1>4, PlainRight

LEMMA StringRight ==
  ASSUME NEW px, NEW opc \in StringOps, NEW m
  PROVE  Right(StringOp(px, opc), px, 0, opc, m)
<1>1. Plainly(StringOp(px, opc), 0)
  BY PlainIs, RolesAre DEF StringOp, Plainly, Implicit, Reads
<1>2. ~IsaModRm(0, opc)
  BY DEF StringOps, IsaModRm
<1>3. IsaImmediate(px, 0, opc, m) = 0
  BY DEF StringOps, IsaImmediate
<1> QED BY <1>1, <1>2, <1>3, PlainRight

LEMMA FlowRight ==
  ASSUME NEW px, NEW opc \in FlowOps, NEW m
  PROVE  Right(ControlFlow(opc), px, 0, opc, m)
<1> DEFINE n == IF opc \in {\hE8, \hE9} THEN 4
                ELSE IF opc = \hC2 THEN 2
                ELSE IF opc \in {\hC3, \hCC, \hF4} THEN 0 ELSE 1
<1>1. Plainly(ControlFlow(opc), n)
  <2>1. \A kind, k : Plainly(Relative(kind, k), k)
    BY PlainIs, OpsIs, ImmIs, FlowIs, RolesAre DEF Relative, Plainly, Implicit, Reads, Alike
  <2>2. \A kind, size, k :
          Plainly(Flow(Imm(Ops(Plain(kind, size), "imm", "none"), k)), k)
    BY PlainIs, OpsIs, ImmIs, FlowIs, RolesAre DEF Plainly, Implicit, Reads, Alike
  <2>3. \A kind, size : Plainly(Flow(Plain(kind, size)), 0)
    BY PlainIs, FlowIs, RolesAre DEF Plainly, Implicit, Reads, Alike
  <2>4. \/ \E kind : ControlFlow(opc) = Relative(kind, n)
        \/ \E kind, size : ControlFlow(opc) = Flow(Imm(Ops(Plain(kind, size), "imm", "none"), n))
        \/ n = 0 /\ \E kind, size : ControlFlow(opc) = Flow(Plain(kind, size))
    <3>1. CASE opc \in \h70 .. \h7F
      BY <3>1 DEF ControlFlow
    <3>2. CASE opc \in \hE0 .. \hE3
      BY <3>2 DEF ControlFlow
    <3>3. CASE opc \in {\hE8, \hE9, \hEB}
      BY <3>3 DEF ControlFlow
    <3>4. CASE opc \in {\hC2, \hCD}
      BY <3>4 DEF ControlFlow
    <3>5. CASE opc \in {\hC3, \hCC, \hF4}
      BY <3>5 DEF ControlFlow
    <3> HIDE DEF n
    <3> QED BY <3>1, <3>2, <3>3, <3>4, <3>5 DEF FlowOps
  <2> HIDE DEF n
  <2> QED BY <2>1, <2>2, <2>3, <2>4
<1>2. ~IsaModRm(0, opc)
  BY DEF FlowOps, IsaModRm
<1>3. IsaImmediate(px, 0, opc, m) = n
  BY DEF FlowOps, IsaImmediate
<1>4. n \in Nat
  OBVIOUS
<1> HIDE DEF n
<1> QED BY <1>1, <1>2, <1>3, <1>4, PlainRight

LEMMA MiscellaneousRight ==
  ASSUME NEW px, NEW opc \in MiscOps, NEW m
  PROVE  Right(Miscellaneous(px, opc), px, 0, opc, m)
<1> DEFINE n == IF opc = \hA8 THEN 1 ELSE IF opc = \hA9 THEN Word(px) ELSE 0
<1>1. Plainly(Miscellaneous(px, opc), n)
  BY PlainIs, OpsIs, ImmIs, RolesAre, WordIs DEF
     MiscOps, Miscellaneous, Plainly, Implicit, Reads, Alike
<1>2. ~IsaModRm(0, opc)
  BY DEF MiscOps, IsaModRm
<1>3. IsaImmediate(px, 0, opc, m) = n
  BY DEF MiscOps, IsaImmediate, Word
<1>4. n \in Nat
  BY WordIs
<1> HIDE DEF n
<1> QED BY <1>1, <1>2, <1>3, <1>4, PlainRight

LEMMA X87Right ==
  ASSUME NEW px, NEW opc \in X87Ops, NEW m
  PROVE  Right(X87(opc, m), px, 0, opc, m) /\ X87(opc, m).modrm = TRUE
<1>1. PICK q \in Verdicts : Reads(X87(opc, m), TRUE, 0, "Ok", q)
  <2>1. \A b : OkIf(b) \in Verdicts
    BY DEF OkIf, Verdicts
  <2>2. \A f, q : Built(f) /\ Reads(f, TRUE, 0, "Ok", "Ok") =>
                    Reads([f EXCEPT !.post = q], TRUE, 0, "Ok", q)
    BY DEF Reads, Built, Fields
  <2>3. \A kind, size, x, y : /\ Built(Ops(Rm(kind, size), x, y))
                              /\ Reads(Ops(Rm(kind, size), x, y), TRUE, 0, "Ok", "Ok")
    BY RmIs, OpsIs DEF Reads, Alike
  <2>4. \A q, kind, size : Reads([Rm(kind, size) EXCEPT !.post = q], TRUE, 0, "Ok", q)
    BY <2>2, RmIs
  <2>5. \A q, kind, size, x, y, f :
          f = [Ops(Rm(kind, size), x, y) EXCEPT !.post = q] => Reads(f, TRUE, 0, "Ok", q)
    BY <2>2, <2>3
  <2>6. CASE m.mod = 3
    BY <2>1, <2>4, <2>6 DEF X87
  <2>7. CASE m.mod # 3
    <3> DEFINE size == X87MemSize(opc, m.reg)
    <3>1. PICK kind :
            X87(opc, m) = [Ops(Rm(kind, size), "none", "rm") EXCEPT !.post = OkIf(size # 0)]
      BY <2>7 DEF X87
    <3> HIDE DEF size
    <3>2. PICK q : q = OkIf(size # 0)
      OBVIOUS
    <3>3. q \in Verdicts
      BY <3>2 DEF OkIf, Verdicts
    <3>4. X87(opc, m) = [Ops(Rm(kind, size), "none", "rm") EXCEPT !.post = q]
      BY <3>1, <3>2
    <3>5. Reads(X87(opc, m), TRUE, 0, "Ok", q)
      BY <2>5, <3>4
    <3> QED BY <3>3, <3>5
  <2> QED BY <2>6, <2>7
<1>2. IsaModRm(0, opc)
  BY DEF X87Ops, IsaModRm
<1>3. IsaImmediate(px, 0, opc, m) = 0
  BY DEF X87Ops, IsaImmediate
<1>4. "Ok" \in Verdicts
  BY DEF Verdicts
<1> QED BY <1>1, <1>2, <1>3, <1>4, ModRmRight

\* All of the one-byte map, and that a ModRM byte that is not read decides
\* nothing.
LEMMA OneByteRight ==
  ASSUME NEW px, NEW opc \in Byte, NEW m \in ModRm
  PROVE  Right(OneByte(px, opc, m), px, 0, opc, m)
<1> DEFINE f == OneByte(px, opc, m)
           G == Right(f, px, 0, opc, m)
<1> SUFFICES G
  OBVIOUS
<1> HIDE DEF G
<1>0. DOMAIN StringKind = StringOps
  BY DEF StringKind, StringOps
<1>1. ASSUME opc \in AluOps PROVE G
  <2>1. f = AluPrimary(px, opc)
    BY <1>1, <1>0 DEF AluOps, OneByte, StringOps
  <2> QED BY <1>1, <2>1, AluPrimaryRight DEF G
<1>2. ASSUME opc \in PushPopOps PROVE G
  <2>1. f = PushPop(opc)
    BY <1>2, <1>0 DEF PushPopOps, OneByte, StringOps
  <2> QED BY <1>2, <2>1, PushPopRight DEF G
<1>3. ASSUME opc \in WideningOps PROVE G
  <2>1. f = Widening(px, opc)
    BY <1>3, <1>0 DEF WideningOps, OneByte, StringOps
  <2> QED BY <1>3, <2>1, WideningRight DEF G
<1>4. ASSUME opc \in Group1Ops PROVE G
  <2>1. f = Group1(px, opc, m)
    BY <1>4, <1>0 DEF Group1Ops, OneByte, StringOps
  <2> QED BY <1>4, <2>1, Group1Right DEF G
<1>5. ASSUME opc \in TestXchgMovOps PROVE G
  <2>1. f = TestXchgMov(px, opc)
    BY <1>5, <1>0 DEF TestXchgMovOps, OneByte, StringOps
  <2> QED BY <1>5, <2>1, TestXchgMovRight DEF G
<1>6. ASSUME opc = \h8D PROVE G
  <2>1. f = Lea(px, m)
    BY <1>6, <1>0 DEF OneByte, StringOps
  <2> QED BY <1>6, <2>1, LeaRight DEF G
<1>7. ASSUME opc \in MovImmediateOps PROVE G
  <2>1. f = MovImmediate(px, opc)
    BY <1>7, <1>0 DEF MovImmediateOps, OneByte, StringOps
  <2> QED BY <1>7, <2>1, MovImmediateRight DEF G
<1>8. ASSUME opc \in Group2Ops PROVE G
  <2>1. f = Group2(px, opc, m)
    BY <1>8, <1>0 DEF Group2Ops, OneByte, StringOps
  <2> QED BY <1>8, <2>1, Group2Right DEF G
<1>9. ASSUME opc \in MovRmOps PROVE G
  <2>1. f = MovRmImmediate(px, opc, m)
    BY <1>9, <1>0 DEF MovRmOps, OneByte, StringOps
  <2> QED BY <1>9, <2>1, MovRmRight DEF G
<1>10. ASSUME opc \in X87Ops PROVE G
  <2>1. f = X87(opc, m)
    BY <1>10, <1>0 DEF X87Ops, OneByte, StringOps
  <2> QED BY <1>10, <2>1, X87Right DEF G
<1>11. ASSUME opc \in StringOps PROVE G
  <2>1. f = StringOp(px, opc)
    BY <1>11, <1>0 DEF StringOps, OneByte
  <2> QED BY <1>11, <2>1, StringRight DEF G
<1>12. ASSUME opc \in FlowOps PROVE G
  <2>1. f = ControlFlow(opc)
    BY <1>12, <1>0 DEF FlowOps, StringOps, OneByte
  <2> QED BY <1>12, <2>1, FlowRight DEF G
<1>13. ASSUME opc \in MiscOps PROVE G
  <2>1. f = Miscellaneous(px, opc)
    BY <1>13, <1>0 DEF MiscOps, StringOps, OneByte
  <2> QED BY <1>13, <2>1, MiscellaneousRight DEF G
<1>14. ASSUME opc \in Group3Ops PROVE G
  <2>1. f = Group3(px, opc, m)
    BY <1>14, <1>0 DEF Group3Ops, StringOps, OneByte
  <2> QED BY <1>14, <2>1, Group3Right DEF G
<1>15. ASSUME opc \in Group45Ops PROVE G
  <2>1. f = Group45(px, opc, m)
    BY <1>15, <1>0 DEF Group45Ops, StringOps, OneByte
  <2> QED BY <1>15, <2>1, Group45Right DEF G
<1>16. ASSUME opc \notin AluOps, opc \notin PushPopOps, opc \notin WideningOps,
              opc \notin Group1Ops, opc \notin TestXchgMovOps, opc # \h8D,
              opc \notin MovImmediateOps, opc \notin Group2Ops, opc \notin MovRmOps,
              opc \notin X87Ops, opc \notin StringOps, opc \notin FlowOps,
              opc \notin MiscOps, opc \notin Group3Ops, opc \notin Group45Ops
       PROVE  G
  <2>1. f = Unsupported
    BY <1>16, <1>0 DEF OneByte, AluOps, PushPopOps, WideningOps, Group1Ops, TestXchgMovOps,
       MovImmediateOps, Group2Ops, MovRmOps, X87Ops, FlowOps, MiscOps, Group3Ops, Group45Ops
  <2> QED BY <2>1, RejectRight DEF Unsupported, G
<1> QED BY <1>1, <1>2, <1>3, <1>4, <1>5, <1>6, <1>7, <1>8, <1>9, <1>10, <1>11, <1>12,
           <1>13, <1>14, <1>15, <1>16

LEMMA OneByteSteady ==
  ASSUME NEW px, NEW opc \in Byte, NEW m \in ModRm, NEW n \in ModRm
  PROVE  OneByte(px, opc, m).modrm = TRUE \/ OneByte(px, opc, n) = OneByte(px, opc, m)
<1>0. DOMAIN StringKind = StringOps
  BY DEF StringKind, StringOps
<1>1. ASSUME \/ opc \in Group1Ops \cup Group2Ops \cup MovRmOps
             \/ opc \in X87Ops \cup Group3Ops \cup Group45Ops \cup {\h8D}
      PROVE  OneByte(px, opc, m).modrm = TRUE
  <2>1. \/ opc \in Group1Ops /\ OneByte(px, opc, m) = Group1(px, opc, m)
        \/ opc \in Group2Ops /\ OneByte(px, opc, m) = Group2(px, opc, m)
        \/ opc \in MovRmOps /\ OneByte(px, opc, m) = MovRmImmediate(px, opc, m)
        \/ opc \in X87Ops /\ OneByte(px, opc, m) = X87(opc, m)
        \/ opc \in Group3Ops /\ OneByte(px, opc, m) = Group3(px, opc, m)
        \/ opc \in Group45Ops /\ OneByte(px, opc, m) = Group45(px, opc, m)
        \/ opc = \h8D /\ OneByte(px, opc, m) = Lea(px, m)
    BY <1>0, <1>1 DEF OneByte, Group1Ops, Group2Ops, MovRmOps, X87Ops, Group3Ops, Group45Ops,
       StringOps
  <2>2. opc \in Group1Ops => Group1(px, opc, m).modrm = TRUE
    BY Group1Right
  <2>3. opc \in Group2Ops => Group2(px, opc, m).modrm = TRUE
    BY Group2Right
  <2>4. opc \in MovRmOps => MovRmImmediate(px, opc, m).modrm = TRUE
    BY MovRmRight
  <2>5. opc \in X87Ops => X87(opc, m).modrm = TRUE
    BY X87Right
  <2>6. opc \in Group3Ops => Group3(px, opc, m).modrm = TRUE
    BY Group3Right
  <2>7. opc \in Group45Ops => Group45(px, opc, m).modrm = TRUE
    BY Group45Right
  <2>8. Lea(px, m).modrm = TRUE
    BY LeaRight
  <2> QED BY <2>1, <2>2, <2>3, <2>4, <2>5, <2>6, <2>7, <2>8
<1>2. ASSUME ~ \/ opc \in Group1Ops \cup Group2Ops \cup MovRmOps
               \/ opc \in X87Ops \cup Group3Ops \cup Group45Ops \cup {\h8D}
      PROVE  OneByte(px, opc, n) = OneByte(px, opc, m)
  BY <1>2 DEF OneByte, Group1Ops, Group2Ops, MovRmOps, X87Ops, Group3Ops, Group45Ops
<1> QED BY <1>1, <1>2

\* The other maps: a ModRM byte always follows, and in the third an immediate.
LEMMA HigherMaps ==
  \A px, opc, m :
    /\ IsaModRm(2, opc) /\ IsaImmediate(px, 2, opc, m) = 0
    /\ IsaModRm(3, opc) /\ IsaImmediate(px, 3, opc, m) = 1
<1>1. \A opc : IsaModRm(2, opc) /\ IsaModRm(3, opc)
  BY DEF IsaModRm
<1>2. \A px, opc, m : IsaImmediate(px, 2, opc, m) = 0 /\ IsaImmediate(px, 3, opc, m) = 1
  BY DEF IsaImmediate
<1> QED BY <1>1, <1>2

LEMMA Map38Right ==
  ASSUME NEW px, NEW opc, NEW m
  PROVE  Right(Map38(px, opc), px, 2, opc, m)
<1>1. \/ Map38(px, opc) = Unsupported
      \/ Reads(Map38(px, opc), TRUE, 0, "Ok", "Ok")
  <2>1. \A kind, size, x, y : Reads(Ops(Rm(kind, size), x, y), TRUE, 0, "Ok", "Ok")
    BY RmIs, OpsIs DEF Reads, Alike
  <2>2. \/ Map38(px, opc) = Unsupported \/ Map38(px, opc) = XmmFromRm
        \/ \E kind, size, x, y : Map38(px, opc) = Ops(Rm(kind, size), x, y)
    <3>1. CASE opc \in {\hF0, \hF1}
      BY <3>1 DEF Map38, Crc32, RegRm, RmReg
    <3>2. CASE opc \notin {\hF0, \hF1}
      BY <3>2 DEF Map38
    <3> QED BY <3>1, <3>2
  <2> QED BY <2>1, <2>2, XmmIs
<1> QED BY <1>1, HigherMaps, ModRmRight, RejectRight DEF Verdicts, Unsupported

LEMMA Map3ARight ==
  ASSUME NEW px, NEW opc, NEW m
  PROVE  Right(Map3A(px, opc), px, 3, opc, m)
<1>1. \/ Map3A(px, opc) = Unsupported
      \/ Reads(Map3A(px, opc), TRUE, 1, "Ok", "Ok")
  <2>1. \/ Map3A(px, opc) = Unsupported \/ Map3A(px, opc) = Imm(XmmFromRm, 1)
        \/ \E size : \/ Map3A(px, opc) = Imm(GprFromXmm(size), 1)
                     \/ Map3A(px, opc) = Imm(XmmFromGpr(size), 1)
    BY DEF Map3A
  <2> QED BY <2>1, XmmIs, ImmIs DEF Reads
<1> QED BY <1>1, HigherMaps, ModRmRight, RejectRight DEF Verdicts, Unsupported

\* The two-byte map: the parts chosen by the prefixes, then the rest.
LEMMA MoveMaskRight ==
  ASSUME NEW px, px.vex = "no", NEW opc \in {\h50, \hD7}, NEW m \in ModRm
  PROVE  Right(MoveMask, px, 1, opc, m)
<1> DEFINE g == Ops(Rm("Vector", 4), "reg", "xmm!")
<1>1. Built(g) /\ Reads(g, TRUE, 0, "Ok", "Ok")
  BY RmIs, OpsIs DEF Reads, Alike
<1>2. MoveMask = [g EXCEPT !.rm = FALSE]
  BY DEF MoveMask
<1> HIDE DEF g
<1>3. MoveMask.modrm = TRUE /\ MoveMask.imm = 0 /\ MoveMask.pre = "Ok" /\ MoveMask.post = "Ok"
  BY <1>1, <1>2 DEF Reads, Built, Fields
<1>4. MoveMask.modrm \in BOOLEAN
  BY <1>3
<1>5. MoveMask.imm \in Nat
  BY <1>3
<1>6. MoveMask.pre \in Verdicts /\ MoveMask.post \in Verdicts
  BY <1>3 DEF Verdicts
<1>7. IsaModRm(1, opc)
  BY DEF IsaModRm
<1>8. IsaImmediate(px, 1, opc, m) = 0
  BY DEF IsaImmediate
<1>9. (MoveMask.modrm = TRUE) <=> IsaModRm(1, opc)
  BY <1>3, <1>7
<1>10. MoveMask.imm = IsaImmediate(px, 1, opc, m)
  BY <1>3, <1>8
<1>11. Odd(px, 1, opc, m) \/ m.mod = 3
  BY DEF Odd
<1> QED BY <1>3, <1>4, <1>5, <1>6, <1>9, <1>10, <1>11, Zenon DEF Right

\* What prefixes choose among: with a ModRM byte, and an immediate for some.
VectorOps == SingleOpcode \cup IntegerOpcode \cup {\h2A, \h2C} \cup \h58 .. \h5F
Shuffles == {\h70, \hC6}
LEMMA VectorOpsAre ==
  ASSUME NEW px, NEW m, NEW opc \in VectorOps
  PROVE  /\ IsaModRm(1, opc)
         /\ IsaImmediate(px, 1, opc, m) = IF opc \in Shuffles THEN 1 ELSE 0
<1>1. IsaModRm(1, opc)
  BY DEF IsaModRm, VectorOps, SingleOpcode, DoubleOpcode, IntegerOpcode
<1>2. IsaImmediate(px, 1, opc, m) = IF opc \in Shuffles THEN 1 ELSE 0
  BY DEF IsaImmediate, VectorOps, SingleOpcode, DoubleOpcode, IntegerOpcode, Shuffles
<1> QED BY <1>1, <1>2

LEMMA VectorRight ==
  ASSUME NEW px, NEW m, NEW opc \in VectorOps, NEW f,
         \/ opc \in Shuffles /\ f = Imm(XmmFromRm, 1)
         \/ opc \notin Shuffles /\ f \in {XmmFromRm, XmmToRm}
         \/ opc \notin Shuffles /\ \E size : f = XmmFromGpr(size) \/ f = GprFromXmm(size)
  PROVE  Right(f, px, 1, opc, m)
<1>1. CASE opc \in Shuffles
  <2>1. Reads(f, TRUE, 1, "Ok", "Ok")
    BY <1>1, XmmIs, ImmIs DEF Reads
  <2>2. IsaModRm(1, opc) /\ IsaImmediate(px, 1, opc, m) = 1
    BY <1>1, VectorOpsAre
  <2> QED BY <2>1, <2>2, ModRmRight DEF Verdicts
<1>2. CASE opc \notin Shuffles
  <2>1. Reads(f, TRUE, 0, "Ok", "Ok")
    BY <1>2, XmmIs
  <2>2. IsaModRm(1, opc) /\ IsaImmediate(px, 1, opc, m) = 0
    BY <1>2, VectorOpsAre
  <2> QED BY <2>1, <2>2, ModRmRight DEF Verdicts
<1> QED BY <1>1, <1>2

LEMMA ScalarRight ==
  ASSUME NEW px, NEW m, NEW opc \in ScalarOpcode(px)
  PROVE  Right(Scalar(px, opc), px, 1, opc, m)
<1>1. CASE opc = \h2C
  <2>1. Reads(Scalar(px, opc), TRUE, 0, "Ok", "Ok")
    BY <1>1, RmIs, OpsIs DEF Scalar, Reads, Alike
  <2>2. IsaModRm(1, opc) /\ IsaImmediate(px, 1, opc, m) = 0
    BY <1>1, VectorOpsAre DEF VectorOps, Shuffles
  <2> QED BY <2>1, <2>2, ModRmRight DEF Verdicts
<1>2. CASE opc # \h2C
  <2>1. opc \in VectorOps
    BY DEF ScalarOpcode, VectorOps, SingleOpcode, DoubleOpcode, IntegerOpcode
  <2>2. \/ opc \in Shuffles /\ Scalar(px, opc) = Imm(XmmFromRm, 1)
        \/ opc \notin Shuffles /\ Scalar(px, opc) \in {XmmFromRm, XmmToRm}
        \/ opc \notin Shuffles /\ Scalar(px, opc) = XmmFromGpr(GprSize(px))
    BY <1>2 DEF ScalarOpcode, Shuffles, Scalar
  <2> QED BY <2>1, <2>2, VectorRight
<1> QED BY <1>1, <1>2

LEMMA PackedRight ==
  ASSUME NEW px, px.vex = "no", NEW m \in ModRm, NEW opc
  PROVE  /\ opc \in DoubleOpcode => Right(PackedDouble(opc), px, 1, opc, m)
         /\ opc \in SingleOpcode => Right(PackedSingle(opc), px, 1, opc, m)
         /\ opc \in IntegerOpcode => Right(PackedInteger(px, opc), px, 1, opc, m)
<1>1. ASSUME opc \in DoubleOpcode PROVE Right(PackedDouble(opc), px, 1, opc, m)
  <2>1. opc \in VectorOps /\ opc \notin Shuffles
    BY <1>1 DEF DoubleOpcode, VectorOps, SingleOpcode, Shuffles
  <2>2. PackedDouble(opc) \in {XmmFromRm, XmmToRm}
    BY DEF PackedDouble
  <2> QED BY <2>1, <2>2, VectorRight
<1>2. ASSUME opc \in SingleOpcode PROVE Right(PackedSingle(opc), px, 1, opc, m)
  <2>1. CASE opc = \h50
    <3>1. PackedSingle(opc) = MoveMask
      BY <2>1 DEF PackedSingle
    <3> QED BY <2>1, <3>1, MoveMaskRight
  <2>2. CASE opc # \h50
    <3>1. opc \in VectorOps
      BY <1>2 DEF VectorOps
    <3>2. \/ opc \in Shuffles /\ PackedSingle(opc) = Imm(XmmFromRm, 1)
          \/ opc \notin Shuffles /\ PackedSingle(opc) \in {XmmFromRm, XmmToRm}
      BY <1>2, <2>2 DEF PackedSingle, SingleOpcode, DoubleOpcode, Shuffles
    <3> QED BY <3>1, <3>2, VectorRight
  <2> QED BY <2>1, <2>2
<1>3. ASSUME opc \in IntegerOpcode PROVE Right(PackedInteger(px, opc), px, 1, opc, m)
  <2>1. CASE opc \in {\h50, \hD7}
    <3>1. PackedInteger(px, opc) = MoveMask
      BY <2>1 DEF PackedInteger
    <3> QED BY <2>1, <3>1, MoveMaskRight
  <2>2. CASE opc \notin {\h50, \hD7}
    <3>1. opc \in VectorOps
      BY <1>3 DEF VectorOps
    <3>2. \/ opc \in Shuffles /\ PackedInteger(px, opc) = Imm(XmmFromRm, 1)
          \/ opc \notin Shuffles /\ PackedInteger(px, opc) \in {XmmFromRm, XmmToRm}
          \/ /\ opc \notin Shuffles
             /\ \E size : \/ PackedInteger(px, opc) = XmmFromGpr(size)
                          \/ PackedInteger(px, opc) = GprFromXmm(size)
      BY <1>3, <2>2 DEF PackedInteger, IntegerOpcode, Shuffles
    <3> QED BY <3>1, <3>2, VectorRight
  <2> QED BY <2>1, <2>2
<1> QED BY <1>1, <1>2, <1>3

F3MoveOps == {\h6F, \h7E, \h7F}
LEMMA F3MoveRight ==
  ASSUME NEW px, NEW m, NEW opc \in F3MoveOps
  PROVE  Right(F3Move(opc), px, 1, opc, m)
<1>1. Reads(F3Move(opc), TRUE, 0, "Ok", "Ok")
  BY XmmIs DEF F3MoveOps, F3Move, Reads, Built, Fields
<1>2. IsaModRm(1, opc)
  BY DEF F3MoveOps, IsaModRm
<1>3. IsaImmediate(px, 1, opc, m) = 0
  BY DEF F3MoveOps, IsaImmediate
<1> QED BY <1>1, <1>2, <1>3, ModRmRight DEF Verdicts

\* By opcode alone.
BitCountOps == {\hB8, \hBC, \hBD}
BitTestOps == {\hA3, \hAB, \hB3, \hBB, \hBA}
CmovOps == \h40 .. \h4F \cup {\hAF}
JccOps == \h80 .. \h8F
StandaloneOps == {\h05, \h0B, \h31, \hA2} \cup \hC8 .. \hCF
HintOps == {\h18, \hAE, \h1F}
DoubleShiftOps == {\hA4, \hA5, \hAC, \hAD}
ExtendOps == {\hB6, \hB7, \hBE, \hBF}

LEMMA BitRight ==
  ASSUME NEW px, NEW m \in ModRm, NEW opc
  PROVE  /\ opc \in BitCountOps => Right(BitCount(px, opc), px, 1, opc, m)
         /\ opc \in BitTestOps =>
              Right(BitTest(px, opc, m), px, 1, opc, m) /\ BitTest(px, opc, m).modrm = TRUE
<1>1. ASSUME opc \in BitCountOps PROVE Right(BitCount(px, opc), px, 1, opc, m)
  <2>1. \E kind, size : BitCount(px, opc) = RegRm(kind, size)
    BY <1>1 DEF BitCountOps, BitCount
  <2>2. Reads(BitCount(px, opc), TRUE, 0, "Ok", "Ok")
    BY <2>1, RegRmIs
  <2>3. IsaModRm(1, opc)
    BY <1>1 DEF BitCountOps, IsaModRm
  <2>4. IsaImmediate(px, 1, opc, m) = 0
    BY <1>1 DEF BitCountOps, IsaImmediate
  <2> QED BY <2>2, <2>3, <2>4, ModRmRight DEF Verdicts
<1>2. ASSUME opc \in BitTestOps
      PROVE  Right(BitTest(px, opc, m), px, 1, opc, m) /\ BitTest(px, opc, m).modrm = TRUE
  <2> DEFINE n == IF opc = \hBA THEN 1 ELSE 0
  <2>0. m.reg \in 0 .. 7
    BY DEF ModRm
  <2>1. PICK q \in Verdicts : Reads(BitTest(px, opc, m), TRUE, n, "Ok", q)
    <3>1. CASE opc = \hBA
      <4>1. \A kind, size, f, q :
              f = [Imm(Ops(Rm(kind, size), "rm", "imm"), 1) EXCEPT !.post = q] =>
              Reads(f, TRUE, 1, "Ok", q)
        BY RmIs, OpsIs, ImmIs DEF Reads, Alike, Built, Fields
      <4>2. PICK kind : BitTest(px, opc, m) = [Imm(Ops(Rm(kind, AluSize(px)), "rm", "imm"), 1)
                                                 EXCEPT !.post = OkIf(m.reg >= 4)]
        BY <3>1 DEF BitTest
      <4>3. PICK q : q = OkIf(m.reg >= 4)
        OBVIOUS
      <4>4. q \in Verdicts
        BY <4>3 DEF OkIf, Verdicts
      <4>5. BitTest(px, opc, m) = [Imm(Ops(Rm(kind, AluSize(px)), "rm", "imm"), 1)
                                     EXCEPT !.post = q]
        BY <4>2, <4>3
      <4>6. Reads(BitTest(px, opc, m), TRUE, 1, "Ok", q)
        BY <4>1, <4>5
      <4> QED BY <3>1, <4>4, <4>6
    <3>2. CASE opc # \hBA
      <4>1. \E kind, size : BitTest(px, opc, m) = RmReg(kind, size)
        BY <1>2, <3>2 DEF BitTest
      <4> QED BY <3>2, <4>1, RegRmIs DEF Verdicts
    <3> QED BY <3>1, <3>2
  <2>2. IsaModRm(1, opc)
    BY <1>2 DEF BitTestOps, IsaModRm
  <2>3. IsaImmediate(px, 1, opc, m) = n
    BY <1>2 DEF BitTestOps, IsaImmediate
  <2>4. n \in Nat /\ "Ok" \in Verdicts
    BY DEF Verdicts
  <2> HIDE DEF n
  <2> QED BY <2>1, <2>2, <2>3, <2>4, ModRmRight
<1> QED BY <1>1, <1>2

LEMMA CmovRight ==
  ASSUME NEW px, NEW m, NEW opc \in CmovOps, NEW kind, NEW size
  PROVE  Right(RegRm(kind, size), px, 1, opc, m)
<1>1. Reads(RegRm(kind, size), TRUE, 0, "Ok", "Ok")
  BY RegRmIs
<1>2. IsaModRm(1, opc)
  BY DEF CmovOps, IsaModRm
<1>3. IsaImmediate(px, 1, opc, m) = 0
  BY DEF CmovOps, IsaImmediate
<1> QED BY <1>1, <1>2, <1>3, ModRmRight DEF Verdicts

LEMMA JccRight ==
  ASSUME NEW px, NEW m, NEW opc \in JccOps
  PROVE  Right(Relative("Jcc", 4), px, 1, opc, m)
<1>1. Plainly(Relative("Jcc", 4), 4)
  BY PlainIs, OpsIs, ImmIs, FlowIs, RolesAre DEF Relative, Plainly, Implicit, Reads, Alike
<1>2. ~IsaModRm(1, opc)
  BY DEF JccOps, IsaModRm
<1>3. IsaImmediate(px, 1, opc, m) = 4
  BY DEF JccOps, IsaImmediate
<1> QED BY <1>1, <1>2, <1>3, PlainRight

LEMMA StandaloneRight ==
  ASSUME NEW px, NEW m, NEW opc \in StandaloneOps
  PROVE  Right(Standalone(px, opc), px, 1, opc, m)
<1>1. CASE opc = \h0B
  <2>1. Standalone(px, opc) = Reject("InvalidInstruction")
    BY <1>1 DEF Standalone
  <2> QED BY <2>1, RejectRight
<1>2. CASE opc # \h0B
  <2>1. Plainly(Standalone(px, opc), 0)
    <3>1. \A kind, size : /\ Plainly(Plain(kind, size), 0)
                          /\ Plainly(Flow(Plain(kind, size)), 0)
                          /\ Plainly(Ops(Plain(kind, size), "opreg", "none"), 0)
      BY PlainIs, FlowIs, OpsIs, RolesAre DEF Plainly, Implicit, Reads, Alike
    <3>2. \E kind, size : \/ Standalone(px, opc) = Plain(kind, size)
                          \/ Standalone(px, opc) = Flow(Plain(kind, size))
                          \/ Standalone(px, opc) = Ops(Plain(kind, size), "opreg", "none")
      BY <1>2 DEF Standalone, StandaloneOps
    <3> QED BY <3>1, <3>2
  <2>2. ~IsaModRm(1, opc)
    BY DEF StandaloneOps, IsaModRm
  <2>3. IsaImmediate(px, 1, opc, m) = 0
    BY DEF StandaloneOps, IsaImmediate
  <2> QED BY <2>1, <2>2, <2>3, PlainRight
<1> QED BY <1>1, <1>2

\* Verdicts on the ModRM byte, before or after the rest is read.
LEMMA VerdictsAre ==
  /\ \A b : OkIf(b) \in Verdicts
  /\ \A f, g, n, p : Built(f) /\ Reads(f, TRUE, n, "Ok", "Ok") =>
       /\ g = [f EXCEPT !.pre = p] => Reads(g, TRUE, n, p, "Ok")
       /\ g = [f EXCEPT !.post = p] => Reads(g, TRUE, n, "Ok", p)
BY DEF OkIf, Verdicts, Reads, Built, Fields

LEMMA HintsRight ==
  ASSUME NEW px, NEW m, NEW opc \in HintOps
  PROVE  Right(Hints(opc, m), px, 1, opc, m) /\ Hints(opc, m).modrm = TRUE
<1>0. \A kind, size, x, y : /\ Built(Ops(Rm(kind, size), x, y))
                            /\ Reads(Ops(Rm(kind, size), x, y), TRUE, 0, "Ok", "Ok")
  BY RmIs, OpsIs DEF Reads, Alike
<1>1. PICK p \in Verdicts, q \in Verdicts : Reads(Hints(opc, m), TRUE, 0, p, q)
  <2>1. CASE opc \in {\h18, \h1F}
    <3>1. \E kind, size, x, y : Hints(opc, m) = Ops(Rm(kind, size), x, y)
      BY <2>1 DEF Hints
    <3> QED BY <3>1, <1>0 DEF Verdicts
  <2>2. CASE opc = \hAE /\ m.mod = 3
    <3>1. PICK q : q = OkIf(m.reg \in {5, 6, 7})
      OBVIOUS
    <3>2. Hints(opc, m) = [Rm("Fence", 0) EXCEPT !.post = q]
      BY <2>2, <3>1 DEF Hints
    <3>3. q \in Verdicts
      BY <3>1 DEF OkIf, Verdicts
    <3>4. Reads(Hints(opc, m), TRUE, 0, "Ok", q)
      BY <3>2, RmIs, VerdictsAre
    <3> QED BY <3>3, <3>4 DEF Verdicts
  <2>3. CASE opc = \hAE /\ m.mod # 3
    <3>1. PICK p : p = OkIf(m.reg = 7)
      OBVIOUS
    <3>2. Hints(opc, m) = [Ops(Rm("Clflush", 1), "none", "rm8") EXCEPT !.pre = p]
      BY <2>3, <3>1 DEF Hints
    <3>3. p \in Verdicts
      BY <3>1 DEF OkIf, Verdicts
    <3>4. Reads(Hints(opc, m), TRUE, 0, p, "Ok")
      BY <3>2, <1>0, VerdictsAre
    <3> QED BY <3>3, <3>4 DEF Verdicts
  <2> QED BY <2>1, <2>2, <2>3 DEF HintOps
<1>2. IsaModRm(1, opc)
  BY DEF HintOps, IsaModRm
<1>3. IsaImmediate(px, 1, opc, m) = 0
  BY DEF HintOps, IsaImmediate
<1> QED BY <1>1, <1>2, <1>3, ModRmRight

LEMMA RdRandRight ==
  ASSUME NEW px, NEW m
  PROVE  Right(RdRand(px, m), px, 1, \hC7, m) /\ RdRand(px, m).modrm = TRUE
<1>1. PICK p : p = OkIf(m.reg \in {6, 7})
  OBVIOUS
<1>2. RdRand(px, m) = [OnRm("Rdrand", AluSize(px)) EXCEPT !.pre = p]
  BY <1>1 DEF RdRand
<1>3. p \in Verdicts /\ "Ok" \in Verdicts
  BY <1>1 DEF OkIf, Verdicts
<1>4. Reads(RdRand(px, m), TRUE, 0, p, "Ok")
  BY <1>2, RegRmIs, VerdictsAre
<1>5. IsaModRm(1, \hC7)
  BY DEF IsaModRm
<1>6. IsaImmediate(px, 1, \hC7, m) = 0
  BY DEF IsaImmediate
<1> QED BY <1>3, <1>4, <1>5, <1>6, ModRmRight

LEMMA DoubleShiftRight ==
  ASSUME NEW px, NEW m, NEW opc \in DoubleShiftOps
  PROVE  Right(DoubleShift(px, opc), px, 1, opc, m)
<1> DEFINE n == IF opc % 2 = 0 THEN 1 ELSE 0
<1>1. Reads(DoubleShift(px, opc), TRUE, n, "Ok", "Ok")
  <2>1. \A kind, size, f, x : f = [OnRm(kind, size) EXCEPT !.src = x] =>
                                Built(f) /\ Reads(f, TRUE, 0, "Ok", "Ok")
    BY RegRmIs DEF Reads, Built, Fields
  <2> DEFINE g == OnRm(IF opc < \hA8 THEN "Shld" ELSE "Shrd", AluSize(px))
  <2>2. DoubleShift(px, opc) = IF opc % 2 = 0 THEN Imm([g EXCEPT !.src = "imm"], 1)
                               ELSE [g EXCEPT !.src = "cl"]
    BY DEF DoubleShift
  <2>3. \A x : Built([g EXCEPT !.src = x]) /\ Reads([g EXCEPT !.src = x], TRUE, 0, "Ok", "Ok")
    BY <2>1
  <2> HIDE DEF g
  <2>4. CASE opc % 2 = 0
    <3>1. Reads(Imm([g EXCEPT !.src = "imm"], 1), TRUE, 1, "Ok", "Ok")
      <4>1. PICK h : h = [g EXCEPT !.src = "imm"]
        OBVIOUS
      <4>2. Built(h) /\ Reads(h, TRUE, 0, "Ok", "Ok")
        BY <2>3, <4>1
      <4>3. Reads(Imm(h, 1), TRUE, 1, "Ok", "Ok")
        BY <4>2, ImmIs DEF Reads
      <4> QED BY <4>1, <4>3
    <3> QED BY <2>2, <2>4, <3>1
  <2>5. CASE opc % 2 # 0
    BY <2>2, <2>3, <2>5
  <2> QED BY <2>4, <2>5
<1>2. IsaModRm(1, opc)
  BY DEF DoubleShiftOps, IsaModRm
<1>3. IsaImmediate(px, 1, opc, m) = n
  BY DEF DoubleShiftOps, IsaImmediate
<1>4. n \in Nat /\ "Ok" \in Verdicts
  BY DEF Verdicts
<1> HIDE DEF n
<1> QED BY <1>1, <1>2, <1>3, <1>4, ModRmRight

LEMMA ExtendRight ==
  ASSUME NEW px, NEW m, NEW opc \in ExtendOps
  PROVE  Right(Extend(px, opc), px, 1, opc, m)
<1>1. Reads(Extend(px, opc), TRUE, 0, "Ok", "Ok")
  BY RegRmIs DEF Extend, Reads, Built, Fields
<1>2. IsaModRm(1, opc)
  BY DEF ExtendOps, IsaModRm
<1>3. IsaImmediate(px, 1, opc, m) = 0
  BY DEF ExtendOps, IsaImmediate
<1> QED BY <1>1, <1>2, <1>3, ModRmRight DEF Verdicts

LEMMA GeneralRight ==
  ASSUME NEW px, px.vex = "no", NEW m \in ModRm, NEW opc \in Byte
  PROVE  Right(General(px, opc, m), px, 1, opc, m)
<1> DEFINE f == General(px, opc, m)
           G == Right(f, px, 1, opc, m)
<1> SUFFICES G
  OBVIOUS
<1> HIDE DEF G
<1>1. ASSUME opc \in {\hBC, \hBD} \/ (opc = \hB8 /\ px.f3) PROVE G
  <2>1. opc \in BitCountOps
    BY <1>1 DEF BitCountOps
  <2>2. f = BitCount(px, opc)
    BY <1>1 DEF General
  <2> QED BY <2>1, <2>2, BitRight DEF G
<1>2. ASSUME opc \in BitTestOps PROVE G
  <2>1. f = BitTest(px, opc, m)
    BY <1>2 DEF General, BitTestOps
  <2> QED BY <1>2, <2>1, BitRight DEF G
<1>3. ASSUME opc \in CmovOps PROVE G
  <2>1. \E kind, size : f = RegRm(kind, size)
    BY <1>3 DEF General, CmovOps
  <2> QED BY <1>3, <2>1, CmovRight DEF G
<1>4. ASSUME opc \in JccOps PROVE G
  <2>1. f = Relative("Jcc", 4)
    BY <1>4 DEF General, JccOps
  <2> QED BY <1>4, <2>1, JccRight DEF G
<1>5. ASSUME opc \in StandaloneOps PROVE G
  <2>1. f = Standalone(px, opc)
    BY <1>5 DEF General, StandaloneOps
  <2> QED BY <1>5, <2>1, StandaloneRight DEF G
<1>6. ASSUME opc \in HintOps PROVE G
  <2>1. f = Hints(opc, m)
    BY <1>6 DEF General, HintOps
  <2> QED BY <1>6, <2>1, HintsRight DEF G
<1>7. ASSUME opc = \hC7 PROVE G
  <2>1. f = RdRand(px, m)
    BY <1>7 DEF General
  <2> QED BY <1>7, <2>1, RdRandRight DEF G
<1>8. ASSUME opc \in DoubleShiftOps PROVE G
  <2>1. f = DoubleShift(px, opc)
    BY <1>8 DEF General, DoubleShiftOps
  <2> QED BY <1>8, <2>1, DoubleShiftRight DEF G
<1>9. ASSUME opc \in ExtendOps PROVE G
  <2>1. f = Extend(px, opc)
    BY <1>9 DEF General, ExtendOps
  <2> QED BY <1>9, <2>1, ExtendRight DEF G
<1>10. ASSUME ~(opc \in {\hBC, \hBD} \/ (opc = \hB8 /\ px.f3)), opc \notin BitTestOps,
              opc \notin CmovOps, opc \notin JccOps, opc \notin StandaloneOps,
              opc \notin HintOps, opc # \hC7, opc \notin DoubleShiftOps, opc \notin ExtendOps
       PROVE  G
  <2>1. f = Unsupported
    BY <1>10 DEF General, BitTestOps, CmovOps, JccOps, StandaloneOps, HintOps,
       DoubleShiftOps, ExtendOps
  <2> QED BY <2>1, RejectRight DEF Unsupported, G
<1> QED BY <1>1, <1>2, <1>3, <1>4, <1>5, <1>6, <1>7, <1>8, <1>9, <1>10

LEMMA GeneralSteady ==
  ASSUME NEW px, NEW opc \in Byte, NEW m \in ModRm, NEW n \in ModRm
  PROVE  General(px, opc, m).modrm = TRUE \/ General(px, opc, n) = General(px, opc, m)
<1>1. ASSUME opc \in BitTestOps \cup HintOps \cup {\hC7}
      PROVE  General(px, opc, m).modrm = TRUE
  <2>1. \/ opc \in BitTestOps /\ General(px, opc, m) = BitTest(px, opc, m)
        \/ opc \in HintOps /\ General(px, opc, m) = Hints(opc, m)
        \/ opc = \hC7 /\ General(px, opc, m) = RdRand(px, m)
    BY <1>1 DEF General, BitTestOps, HintOps
  <2>2. opc \in BitTestOps => BitTest(px, opc, m).modrm = TRUE
    BY BitRight
  <2>3. opc \in HintOps => Hints(opc, m).modrm = TRUE
    BY HintsRight
  <2>4. RdRand(px, m).modrm = TRUE
    BY RdRandRight
  <2> QED BY <2>1, <2>2, <2>3, <2>4
<1>2. ASSUME opc \notin BitTestOps \cup HintOps \cup {\hC7}
      PROVE  General(px, opc, n) = General(px, opc, m)
  BY <1>2 DEF General, BitTestOps, HintOps
<1> QED BY <1>1, <1>2

LEMMA TwoByteRight ==
  ASSUME NEW px, px.vex = "no", NEW m \in ModRm, NEW opc \in Byte
  PROVE  Right(TwoByte(px, opc, m), px, 1, opc, m)
<1>1. \/ opc \in ScalarOpcode(px) /\ TwoByte(px, opc, m) = Scalar(px, opc)
      \/ opc \in DoubleOpcode /\ TwoByte(px, opc, m) = PackedDouble(opc)
      \/ opc \in SingleOpcode /\ TwoByte(px, opc, m) = PackedSingle(opc)
      \/ opc \in IntegerOpcode /\ TwoByte(px, opc, m) = PackedInteger(px, opc)
      \/ opc \in F3MoveOps /\ TwoByte(px, opc, m) = F3Move(opc)
      \/ TwoByte(px, opc, m) = General(px, opc, m)
  BY DEF TwoByte, F3MoveOps
<1> QED BY <1>1, ScalarRight, PackedRight, F3MoveRight, GeneralRight

LEMMA TwoByteSteady ==
  ASSUME NEW px, NEW opc \in Byte, NEW m \in ModRm, NEW n \in ModRm
  PROVE  TwoByte(px, opc, m).modrm = TRUE \/ TwoByte(px, opc, n) = TwoByte(px, opc, m)
BY GeneralSteady DEF TwoByte

\* VEX and EVEX.
LEMMA VectorMemoryIs ==
  ASSUME NEW px, NEW m
  PROVE  \E p \in Verdicts : Reads(VectorMemory(px, m), TRUE, 0, p, "Ok")
<1>1. PICK p : p = IF m.mod = 3 THEN "InvalidInstruction" ELSE "Ok"
  OBVIOUS
<1> DEFINE g == Vex(Ops(Rm("Gather", VectorSize(px)), "xmm", "rm"))
<1>2. Built(g) /\ Reads(g, TRUE, 0, "Ok", "Ok")
  BY RmIs, OpsIs, VexIs DEF Reads, Alike
<1>3. VectorMemory(px, m) = [g EXCEPT !.pre = p]
  BY <1>1 DEF VectorMemory
<1> HIDE DEF g
<1>4. Reads(VectorMemory(px, m), TRUE, 0, p, "Ok")
  BY <1>2, <1>3, VerdictsAre
<1> QED BY <1>1, <1>4 DEF Verdicts

LEMMA BlsIs ==
  ASSUME NEW px, NEW m
  PROVE  \E q \in Verdicts : Reads(Bls(px, m), TRUE, 0, "Ok", q)
<1>1. PICK q : q = OkIf(m.reg \in 1 .. 3)
  OBVIOUS
<1> DEFINE kind == IF m.reg \in 1 .. 3 THEN BlsKind[m.reg] ELSE "Invalid"
           g == Vex(Ops(Rm(kind, GprSize(px)), "vvvv", "rm"))
<1>2. Built(g) /\ Reads(g, TRUE, 0, "Ok", "Ok")
  BY RmIs, OpsIs, VexIs DEF Reads, Alike
<1>3. Bls(px, m) = [g EXCEPT !.post = q]
  BY <1>1 DEF Bls
<1> HIDE DEF g
<1>4. Reads(Bls(px, m), TRUE, 0, "Ok", q)
  BY <1>2, <1>3, VerdictsAre
<1> QED BY <1>1, <1>4 DEF OkIf, Verdicts

VexOps == VexIntegerOpcode \cup EvexFpOpcode \cup {\h6F, \h7F}
LEMMA VexOpsAre ==
  ASSUME NEW px, NEW m, NEW opc \in VexOps
  PROVE  IsaModRm(1, opc) /\ IsaImmediate(px, 1, opc, m) = 0
<1>1. IsaModRm(1, opc)
  BY DEF IsaModRm, VexOps, VexIntegerOpcode, EvexFpOpcode
<1>2. IsaImmediate(px, 1, opc, m) = 0
  BY DEF IsaImmediate, VexOps, VexIntegerOpcode, EvexFpOpcode
<1> QED BY <1>1, <1>2

LEMMA VexMap1Right ==
  ASSUME NEW px, NEW m, NEW opc
  PROVE  Right(VexMap1(px, opc), px, 1, opc, m) /\ Right(EvexMap1(px, opc), px, 1, opc, m)
<1>1. ASSUME NEW f, f \in {VexRm(px), VexMr(px)}, opc \in VexOps
      PROVE  Right(f, px, 1, opc, m)
  <2>1. Reads(f, TRUE, 0, "Ok", "Ok")
    BY <1>1, VexShapesAre
  <2>2. IsaModRm(1, opc) /\ IsaImmediate(px, 1, opc, m) = 0
    BY <1>1, VexOpsAre
  <2> QED BY <2>1, <2>2, ModRmRight DEF Verdicts
<1>2. Right(Unsupported, px, 1, opc, m)
  BY RejectRight DEF Unsupported
<1>3. ASSUME opc = \h77 PROVE Right(Plain("Vector", 0), px, 1, opc, m)
  <2>1. ~IsaModRm(1, \h77)
    BY DEF IsaModRm
  <2>2. IsaImmediate(px, 1, \h77, m) = 0
    BY DEF IsaImmediate
  <2>3. Plainly(Plain("Vector", 0), 0)
    BY PlainIs, RolesAre DEF Plainly, Implicit, Reads
  <2> QED BY <1>3, <2>1, <2>2, <2>3, PlainRight
<1>4. \/ VexMap1(px, opc) \in {VexRm(px), VexMr(px)} /\ opc \in VexOps
      \/ VexMap1(px, opc) = Plain("Vector", 0) /\ opc = \h77
      \/ VexMap1(px, opc) = Unsupported
  BY DEF VexMap1, VexOps
<1>5. \/ EvexMap1(px, opc) \in {VexRm(px), VexMr(px)} /\ opc \in VexOps
      \/ EvexMap1(px, opc) = Unsupported
  BY DEF EvexMap1, VexOps
<1>6. Right(VexMap1(px, opc), px, 1, opc, m)
  BY <1>1, <1>2, <1>3, <1>4
<1>7. Right(EvexMap1(px, opc), px, 1, opc, m)
  BY <1>1, <1>2, <1>5
<1> QED BY <1>6, <1>7

LEMMA VexMap23Right ==
  ASSUME NEW px, NEW m, NEW opc
  PROVE  /\ Right(VexMap2(px, opc, m), px, 2, opc, m)
         /\ Right(EvexMap2(px, opc, m), px, 2, opc, m)
         /\ Right(VexMap3(px, opc), px, 3, opc, m)
<1>1. ASSUME NEW f, NEW p \in Verdicts, NEW q \in Verdicts, Reads(f, TRUE, 0, p, q)
      PROVE  Right(f, px, 2, opc, m)
  BY <1>1, HigherMaps, ModRmRight
<1>2. Right(Unsupported, px, 2, opc, m) /\ Right(Unsupported, px, 3, opc, m)
  BY RejectRight DEF Unsupported
<1>3. \/ VexMap2(px, opc, m) \in {VexRm(px), VectorMemory(px, m), Bls(px, m), Unsupported}
      \/ \E kind : VexMap2(px, opc, m) = VexGpr(px, kind)
  BY DEF VexMap2, VexMap2Sse
<1>4. Right(VexMap2(px, opc, m), px, 2, opc, m)
  BY <1>1, <1>2, <1>3, VexShapesAre, VectorMemoryIs, BlsIs DEF Verdicts
<1>5. Right(EvexMap2(px, opc, m), px, 2, opc, m)
  BY <1>1, <1>2, VectorMemoryIs DEF EvexMap2, Verdicts
<1>6. \/ Reads(VexMap3(px, opc), TRUE, 1, "Ok", "Ok") \/ VexMap3(px, opc) = Unsupported
  <2>1. \/ VexMap3(px, opc) = Unsupported
        \/ VexMap3(px, opc) = Imm(VexRm(px), 1)
        \/ VexMap3(px, opc) = Imm(VexGpr(px, "Rorx"), 1)
    BY DEF VexMap3
  <2> QED BY <2>1, VexShapesAre, ImmIs DEF Reads
<1>7. Right(VexMap3(px, opc), px, 3, opc, m)
  <2>1. ASSUME Reads(VexMap3(px, opc), TRUE, 1, "Ok", "Ok")
        PROVE  Right(VexMap3(px, opc), px, 3, opc, m)
    <3>1. IsaModRm(3, opc)
      BY HigherMaps
    <3>2. IsaImmediate(px, 3, opc, m) = 1
      BY HigherMaps
    <3>3. "Ok" \in Verdicts
      BY DEF Verdicts
    <3> QED BY <2>1, <3>1, <3>2, <3>3, ModRmRight
  <2> QED BY <1>2, <1>6, <2>1
<1> QED BY <1>4, <1>5, <1>7

LEMMA VexSteady ==
  ASSUME NEW px, NEW opc, NEW m, NEW n
  PROVE  /\ VexMap2(px, opc, m).modrm = TRUE \/ VexMap2(px, opc, n) = VexMap2(px, opc, m)
         /\ EvexMap2(px, opc, m).modrm = TRUE \/ EvexMap2(px, opc, n) = EvexMap2(px, opc, m)
<1>1. VectorMemory(px, m).modrm = TRUE
  BY VectorMemoryIs DEF Reads
<1>2. Bls(px, m).modrm = TRUE
  BY BlsIs DEF Reads
<1>3. VexMap2(px, opc, m).modrm = TRUE \/ VexMap2(px, opc, n) = VexMap2(px, opc, m)
  BY <1>1, <1>2 DEF VexMap2, VexMap2Sse
<1>4. EvexMap2(px, opc, m).modrm = TRUE \/ EvexMap2(px, opc, n) = EvexMap2(px, opc, m)
  BY <1>1 DEF EvexMap2
<1> QED BY <1>3, <1>4

\* The map an opcode is looked up in.
Lookup(px, map) ==
  IF px.vex = "no" THEN map \in 0 .. 3
  ELSE map = px.map /\ px.map \in IF px.vex = "evex" THEN 1 .. 2 ELSE 1 .. 3

LEMMA FormatRight ==
  ASSUME NEW px, NEW map, Lookup(px, map), NEW opc \in Byte, NEW m \in ModRm
  PROVE  Right(Format(px, map, opc, m), px, map, opc, m)
<1>1. CASE px.vex = "no"
  <2>1. map \in 0 .. 3
    BY <1>1 DEF Lookup
  <2>2. Format(px, map, opc, m) = CASE map = 0 -> OneByte(px, opc, m)
         [] map = 1 -> TwoByte(px, opc, m)
         [] map = 2 -> Map38(px, opc)
         [] map = 3 -> Map3A(px, opc)
    BY <1>1 DEF Format
  <2>3. CASE map = 0
    BY <2>2, <2>3, OneByteRight
  <2>4. CASE map = 1
    BY <1>1, <2>2, <2>4, TwoByteRight
  <2>5. CASE map = 2
    BY <2>2, <2>5, Map38Right
  <2>6. CASE map = 3
    BY <2>2, <2>6, Map3ARight
  <2> QED BY <2>1, <2>3, <2>4, <2>5, <2>6
<1>2. CASE px.vex = "evex"
  <2>1. map = px.map /\ map \in 1 .. 2
    BY <1>2 DEF Lookup
  <2>2. Format(px, map, opc, m)
          = IF px.map = 2 THEN EvexMap2(px, opc, m) ELSE EvexMap1(px, opc)
    BY <1>2 DEF Format, VexFormat
  <2> QED BY <2>1, <2>2, VexMap1Right, VexMap23Right
<1>3. CASE px.vex # "no" /\ px.vex # "evex"
  <2>1. map = px.map /\ map \in 1 .. 3
    BY <1>3 DEF Lookup
  <2>2. Format(px, map, opc, m) = CASE px.map = 1 -> VexMap1(px, opc)
         [] px.map = 2 -> VexMap2(px, opc, m)
         [] px.map = 3 -> VexMap3(px, opc)
    BY <1>3 DEF Format, VexFormat
  <2>3. CASE map = 1
    BY <2>1, <2>2, <2>3, VexMap1Right
  <2>4. CASE map = 2
    BY <2>1, <2>2, <2>4, VexMap23Right
  <2>5. CASE map = 3
    BY <2>1, <2>2, <2>5, VexMap23Right
  <2> QED BY <2>1, <2>3, <2>4, <2>5
<1> QED BY <1>1, <1>2, <1>3

LEMMA FormatSteady ==
  ASSUME NEW px, NEW map, Lookup(px, map), NEW opc \in Byte, NEW m \in ModRm, NEW n \in ModRm
  PROVE  \/ Format(px, map, opc, m).modrm = TRUE
         \/ Format(px, map, opc, n) = Format(px, map, opc, m)
<1>1. CASE px.vex = "no"
  <2>1. CASE map = 0
    <3>1. \A k : Format(px, map, opc, k) = OneByte(px, opc, k)
      BY <1>1, <2>1 DEF Format
    <3> QED BY <3>1, OneByteSteady
  <2>2. CASE map = 1
    <3>1. \A k : Format(px, map, opc, k) = TwoByte(px, opc, k)
      BY <1>1, <2>2 DEF Format
    <3> QED BY <3>1, TwoByteSteady
  <2>3. CASE map = 2
    BY <1>1, <2>3 DEF Format
  <2>5. CASE map = 3
    BY <1>1, <2>5 DEF Format
  <2>4. map = 0 \/ map = 1 \/ map = 2 \/ map = 3
    BY <1>1 DEF Lookup
  <2> QED BY <2>1, <2>2, <2>3, <2>4, <2>5, Zenon
<1>2. CASE px.vex = "evex"
  BY <1>2, VexSteady DEF Format, VexFormat
<1>3. CASE px.vex # "no" /\ px.vex # "evex"
  <2>1. px.map \in 1 .. 3
    BY <1>3 DEF Lookup
  <2>2. CASE px.map = 2
    <3>1. \A k : Format(px, map, opc, k) = VexMap2(px, opc, k)
      BY <1>3, <2>2 DEF Format, VexFormat
    <3>2. VexMap2(px, opc, m).modrm = TRUE \/ VexMap2(px, opc, n) = VexMap2(px, opc, m)
      BY VexSteady
    <3> QED BY <3>1, <3>2
  <2>3. CASE px.map # 2
    BY <1>3, <2>1, <2>3 DEF Format, VexFormat
  <2> QED BY <2>2, <2>3
<1> QED BY <1>1, <1>2, <1>3

-----------------------------------------------------------------------------
(* Prefixes *)

LEMMA LeastNat ==
  ASSUME NEW S, S \subseteq Nat, S # {}
  PROVE  \E k \in S : \A j \in S : k <= j
<1> DEFINE Less == {ss \in Nat \X Nat : ss[1] < ss[2]}
<1>1. IsWellFoundedOn(Less, Nat)
  BY NatLessThanWellFounded, Zenon DEF OpToRel
<1>2. PICK x \in S : \A y \in S : ~(<<y, x>> \in Less)
  <2> HIDE DEF Less
  <2> QED BY <1>1, WFMin
<1>3. \A y \in S : ~(y < x)
  BY <1>2
<1> QED BY <1>2, <1>3

\* The legacy prefixes end somewhere, and in one place only.
StopsAt(s, n) ==
  /\ n \in 0 .. Len(s)
  /\ \A i \in 1 .. n : s[i] \in Legacy
  /\ n < Len(s) => s[n + 1] \notin Legacy

LEMMA StopsOnce ==
  ASSUME NEW s \in Seq(Byte), NEW n, NEW k, StopsAt(s, n), StopsAt(s, k)
  PROVE  n = k
<1>0. Len(s) \in Nat /\ n \in 0 .. Len(s) /\ k \in 0 .. Len(s)
  BY DEF StopsAt
<1>1. ~(n < k)
  <2> SUFFICES ASSUME n < k PROVE FALSE
    OBVIOUS
  <2>1. n + 1 \in 1 .. k /\ n < Len(s)
    BY <1>0
  <2> QED BY <2>1 DEF StopsAt
<1>2. ~(k < n)
  <2> SUFFICES ASSUME k < n PROVE FALSE
    OBVIOUS
  <2>1. k + 1 \in 1 .. n /\ k < Len(s)
    BY <1>0
  <2> QED BY <2>1 DEF StopsAt
<1> QED BY <1>0, <1>1, <1>2

LEMMA LegacyCountIs ==
  ASSUME NEW s \in Seq(Byte)
  PROVE  StopsAt(s, LegacyCount(s))
<1> DEFINE S == {k \in 0 .. Len(s) : k < Len(s) => s[k + 1] \notin Legacy}
<1>0. Len(s) \in Nat
  OBVIOUS
<1>1. Len(s) \in S
  BY <1>0
<1>2. S \subseteq Nat
  BY <1>0
<1>3. PICK k \in S : \A j \in S : k <= j
  <2> HIDE DEF S
  <2>1. S # {}
    BY <1>1
  <2> QED BY <1>2, <2>1, LeastNat
<1>4. ASSUME NEW i \in 1 .. k PROVE s[i] \in Legacy
  <2>0. k \in Nat
    BY <1>2, <1>3
  <2>1. i - 1 \notin S
    <3> HIDE DEF S
    <3> QED BY <1>3, <2>0
  <2>2. i - 1 \in 0 .. Len(s) /\ i - 1 < Len(s) /\ (i - 1) + 1 = i
    BY <1>0
  <2> QED BY <2>1, <2>2
<1>5. StopsAt(s, k)
  BY <1>3, <1>4 DEF StopsAt
<1> DEFINE P(n) == /\ \A i \in 1 .. n : s[i] \in Legacy
                   /\ n < Len(s) => s[n + 1] \notin Legacy
<1>6. \A n : StopsAt(s, n) <=> n \in 0 .. Len(s) /\ P(n)
  BY DEF StopsAt
<1>7. LegacyCount(s) = CHOOSE n \in 0 .. Len(s) : P(n)
  BY DEF LegacyCount
<1> HIDE DEF P, S
<1>8. k \in 0 .. Len(s) /\ P(k)
  BY <1>5, <1>6
<1>9. LegacyCount(s) \in 0 .. Len(s) /\ P(LegacyCount(s))
  BY <1>7, <1>8
<1> QED BY <1>6, <1>9

LEMMA LegacyCountOnly ==
  ASSUME NEW s \in Seq(Byte), NEW n, StopsAt(s, n)
  PROVE  LegacyCount(s) = n
BY LegacyCountIs, StopsOnce

\* One sequence of bytes that begins another.
Begins(s, t) ==
  /\ s \in Seq(Byte) /\ t \in Seq(Byte) /\ Len(s) <= Len(t)
  /\ \A i \in 1 .. Len(s) : s[i] = t[i]

LEMMA BeginsIs ==
  ASSUME NEW s, NEW t, Begins(s, t)
  PROVE  /\ Len(s) \in Nat /\ Len(t) \in Nat /\ Len(s) <= Len(t)
         /\ \A i \in 1 .. Len(s) : s[i] = t[i] /\ s[i] \in Byte
         /\ \A i \in 1 .. Len(t) : t[i] \in Byte
BY DEF Begins

LEMMA LegacySame ==
  ASSUME NEW s, NEW t, Begins(s, t), LegacyCount(s) < Len(s) \/ LegacyCount(t) < Len(s)
  PROVE  LegacyCount(s) = LegacyCount(t) /\ LegacyCount(s) < Len(s)
<1>0. s \in Seq(Byte) /\ t \in Seq(Byte)
  BY DEF Begins
<1>1. StopsAt(s, LegacyCount(s)) /\ StopsAt(t, LegacyCount(t))
  BY <1>0, LegacyCountIs
<1>2. CASE LegacyCount(s) < Len(s)
  <2>1. StopsAt(t, LegacyCount(s))
    BY <1>1, <1>2, BeginsIs DEF StopsAt
  <2> QED BY <1>0, <1>2, <2>1, LegacyCountOnly
<1>3. CASE LegacyCount(t) < Len(s)
  <2>1. StopsAt(s, LegacyCount(t))
    BY <1>1, <1>3, BeginsIs DEF StopsAt
  <2> QED BY <1>0, <1>3, <2>1, LegacyCountOnly
<1> QED BY <1>2, <1>3

PxFields == {"len", "p66", "p67", "lock", "f2", "f3", "seg", "vex", "map", "rex",
             "w", "r", "x", "b", "r16", "l", "l2", "vvvv"}
\* What the prefixes come to.
PxOk(px, n) ==
  /\ px.len = n
  /\ \/ px.vex = "no"
     \/ px.vex \in {"vex", "evex"}
  /\ px.vvvv \in 0 .. 31

LEMMA LegacyPrefixesAre ==
  ASSUME NEW s \in Seq(Byte)
  PROVE  LET px == LegacyPrefixes(s) IN
         DOMAIN px = PxFields /\ px.len = LegacyCount(s) /\ px.vex = "no" /\ px.vvvv = 0
BY DEF LegacyPrefixes, PxFields

LEMMA BitsAre ==
  ASSUME NEW b \in Byte
  PROVE  /\ Inverted(b) \in 0 .. 15
         /\ Bits(b, 6, 2) \in 0 .. 3 /\ Bits(b, 3, 3) \in 0 .. 7 /\ Bits(b, 0, 3) \in 0 .. 7
         /\ (Bits(b, 6, 2) # 3) <=> (b < \hC0)
         /\ Bits(b, 0, 3) = b % 8
BY DEF Inverted, Bits, Byte

\* apply_vex_pp leaves these as they are.
LEMMA WithPpIs ==
  ASSUME NEW px, NEW pp, DOMAIN px = PxFields
  PROVE  LET q == WithPp(px, pp) IN
         /\ DOMAIN q = PxFields /\ q.len = px.len /\ q.vex = px.vex /\ q.map = px.map
         /\ q.vvvv = px.vvvv
BY DEF WithPp, PxFields

LEMMA ScanIs ==
  ASSUME NEW s \in Seq(Byte), ~ScanTruncated(s)
  PROVE  /\ LegacyCount(s) < Len(s)
         /\ LegacyCount(s) + LongPrefix(s[LegacyCount(s) + 1]) <= Len(s)
         /\ PxOk(ScanPrefixes(s), LegacyCount(s) + LongPrefix(s[LegacyCount(s) + 1]))
         /\ LongPrefix(s[LegacyCount(s) + 1]) \in 0 .. 4
<1> DEFINE px == LegacyPrefixes(s)
           n == LegacyCount(s)
           b == s[n + 1]
<1>1. n \in 0 .. Len(s) /\ Len(s) \in Nat
  BY LegacyCountIs DEF StopsAt
<1>2. DOMAIN px = PxFields /\ px.len = n /\ px.vex = "no" /\ px.vvvv = 0
  BY LegacyPrefixesAre
<1>3. n < Len(s) /\ n + LongPrefix(b) <= Len(s) /\ LongPrefix(b) \in 0 .. 4
  <2>1. \A c : LongPrefix(c) \in 0 .. 4
    BY DEF LongPrefix
  <2>2. n # Len(s) /\ ~(n + LongPrefix(b) > Len(s))
    BY DEF ScanTruncated
  <2> QED BY <1>1, <2>1, <2>2
<1>4. ScanPrefixes(s) = CASE b = \hC5 -> Vex2(px, s)
        [] b = \h62 -> Evex(px, s)
        [] b = \hC4 -> Vex3(px, s)
        [] b \in \h40 .. \h4F -> Rex(px, b)
        [] OTHER -> px
  BY <1>2 DEF ScanPrefixes
<1>5. \A i \in 1 .. Len(s) : s[i] \in Byte
  OBVIOUS
<1> HIDE DEF px, n, b
<1>6. CASE b = \hC5
  <2>1. LongPrefix(b) = 2 /\ ScanPrefixes(s) = Vex2(px, s)
    BY <1>4, <1>6 DEF LongPrefix
  <2>2. Inverted(s[n + 2]) \in 0 .. 15
    BY <1>1, <1>3, <1>5, <2>1, BitsAre
  <2> DEFINE v == s[px.len + 2]
             q == [px EXCEPT !.len = @ + 2, !.vex = "vex", !.map = 1,
                    !.r = ~Bit(v, 7), !.l = Bit(v, 2), !.vvvv = Inverted(v)]
  <2>3. DOMAIN q = PxFields /\ q.len = n + 2 /\ q.vex = "vex" /\ q.vvvv = Inverted(s[n + 2])
    BY <1>2 DEF PxFields
  <2>4. Vex2(px, s) = WithPp(q, Bits(v, 0, 2))
    BY DEF Vex2
  <2> HIDE DEF q, v
  <2>5. /\ Vex2(px, s).len = n + 2 /\ Vex2(px, s).vex = "vex"
        /\ Vex2(px, s).vvvv = q.vvvv /\ q.vvvv \in 0 .. 31
    BY <2>2, <2>3, <2>4, WithPpIs
  <2> QED BY <2>1, <2>5, <1>3 DEF PxOk, n, b
<1>7. CASE b = \h62
  <2>1. LongPrefix(b) = 4 /\ ScanPrefixes(s) = Evex(px, s)
    BY <1>4, <1>7 DEF LongPrefix
  <2>2. Inverted(s[n + 3]) \in 0 .. 15
    BY <1>1, <1>3, <1>5, <2>1, BitsAre
  <2> DEFINE p1 == s[px.len + 2]
             p2 == s[px.len + 3]
             p3 == s[px.len + 4]
             q == [px EXCEPT !.len = @ + 4, !.vex = "evex", !.map = Bits(p1, 0, 3),
                        !.r = ~Bit(p1, 7), !.x = ~Bit(p1, 6), !.b = ~Bit(p1, 5),
                        !.r16 = ~Bit(p1, 4), !.w = Bit(p2, 7), !.l = Bit(p3, 5),
                        !.l2 = Bit(p3, 6),
                        !.vvvv = Inverted(p2) + IF Bit(p3, 3) THEN 16 ELSE 0]
  <2>3. DOMAIN q = PxFields /\ q.len = n + 4 /\ q.vex = "evex"
        /\ q.vvvv = Inverted(s[n + 3]) + IF Bit(p3, 3) THEN 16 ELSE 0
    BY <1>2 DEF PxFields
  <2>4. Evex(px, s) = WithPp(q, Bits(p2, 0, 2))
    BY DEF Evex
  <2> HIDE DEF q, p1, p2, p3
  <2>5. /\ Evex(px, s).len = n + 4 /\ Evex(px, s).vex = "evex"
        /\ Evex(px, s).vvvv = q.vvvv
    BY <2>3, <2>4, WithPpIs
  <2>6. q.vvvv \in 0 .. 31
    <3>1. PICK i \in 0 .. 15 : i = Inverted(s[n + 3])
      BY <2>2
    <3>2. PICK k \in {0, 16} : q.vvvv = i + k
      BY <2>3, <3>1
    <3>3. i + k \in 0 .. 31
      OBVIOUS
    <3> QED BY <3>2, <3>3
  <2> QED BY <2>1, <2>5, <2>6, <1>3 DEF PxOk, n, b
<1>8. CASE b = \hC4
  <2>1. LongPrefix(b) = 3 /\ ScanPrefixes(s) = Vex3(px, s)
    BY <1>4, <1>8 DEF LongPrefix
  <2>2. Inverted(s[n + 3]) \in 0 .. 15
    BY <1>1, <1>3, <1>5, <2>1, BitsAre
  <2> DEFINE b1 == s[px.len + 2]
             b2 == s[px.len + 3]
             q == [px EXCEPT !.len = @ + 3, !.vex = "vex", !.map = Bits(b1, 0, 5),
                        !.r = ~Bit(b1, 7), !.x = ~Bit(b1, 6), !.b = ~Bit(b1, 5),
                        !.w = Bit(b2, 7), !.l = Bit(b2, 2), !.vvvv = Inverted(b2)]
  <2>3. DOMAIN q = PxFields /\ q.len = n + 3 /\ q.vex = "vex" /\ q.vvvv = Inverted(s[n + 3])
    BY <1>2 DEF PxFields
  <2>4. Vex3(px, s) = WithPp(q, Bits(b2, 0, 2))
    BY DEF Vex3
  <2> HIDE DEF q, b1, b2
  <2>5. /\ Vex3(px, s).len = n + 3 /\ Vex3(px, s).vex = "vex"
        /\ Vex3(px, s).vvvv = q.vvvv /\ q.vvvv \in 0 .. 31
    BY <2>2, <2>3, <2>4, WithPpIs
  <2> QED BY <2>1, <2>5, <1>3 DEF PxOk, n, b
<1>9. CASE b \in \h40 .. \h4F
  <2>1. LongPrefix(b) = 1 /\ ScanPrefixes(s) = Rex(px, b)
    BY <1>4, <1>9 DEF LongPrefix
  <2>2. Rex(px, b).len = n + 1 /\ Rex(px, b).vex = "no" /\ Rex(px, b).vvvv = 0
    BY <1>2 DEF Rex, PxFields
  <2> QED BY <2>1, <2>2, <1>3 DEF PxOk, n, b
<1>10. CASE b \notin {\hC4, \hC5, \h62} \cup \h40 .. \h4F
  <2>1. LongPrefix(b) = 0 /\ ScanPrefixes(s) = px
    BY <1>4, <1>10 DEF LongPrefix
  <2> QED BY <2>1, <1>1, <1>2, <1>3 DEF PxOk, n, b
<1> QED BY <1>6, <1>7, <1>8, <1>9, <1>10

LEMMA ScanSame ==
  ASSUME NEW s, NEW t, Begins(s, t),
         \/ ~ScanTruncated(s)
         \/ ~ScanTruncated(t) /\ ScanPrefixes(t).len < Len(s)
  PROVE  ~ScanTruncated(s) /\ ~ScanTruncated(t) /\ ScanPrefixes(s) = ScanPrefixes(t)
<1> DEFINE n == LegacyCount(s)
           b == s[n + 1]
<1>0. s \in Seq(Byte) /\ t \in Seq(Byte) /\ Len(s) <= Len(t)
  BY DEF Begins
<1>1. LegacyCount(s) = LegacyCount(t) /\ n < Len(s)
  <2>1. CASE ~ScanTruncated(s)
    <3>1. n < Len(s)
      BY <1>0, <2>1, ScanIs
    <3> QED BY <3>1, LegacySame
  <2>2. CASE ~ScanTruncated(t) /\ ScanPrefixes(t).len < Len(s)
    <3>1. /\ PxOk(ScanPrefixes(t), LegacyCount(t) + LongPrefix(t[LegacyCount(t) + 1]))
          /\ LongPrefix(t[LegacyCount(t) + 1]) \in 0 .. 4
      BY <1>0, <2>2, ScanIs
    <3>2. LegacyCount(t) \in Nat /\ Len(s) \in Nat
      BY <1>0, LegacyCountIs DEF StopsAt
    <3>3. LegacyCount(t) < Len(s)
      BY <2>2, <3>1, <3>2 DEF PxOk
    <3> QED BY <3>3, LegacySame
  <2> QED BY <2>1, <2>2
<1>2. n \in Nat /\ Len(s) \in Nat /\ Len(t) \in Nat /\ b = t[n + 1]
  BY <1>0, <1>1, LegacyCountIs, BeginsIs DEF StopsAt
<1>3. LongPrefix(b) \in 0 .. 4 /\ n + LongPrefix(b) <= Len(s)
  <2>1. CASE ~ScanTruncated(s)
    BY <1>0, <2>1, ScanIs
  <2>2. CASE ~ScanTruncated(t) /\ ScanPrefixes(t).len < Len(s)
    <3>1. PxOk(ScanPrefixes(t), n + LongPrefix(b)) /\ LongPrefix(b) \in 0 .. 4
      BY <1>0, <1>1, <1>2, <2>2, ScanIs
    <3> QED BY <1>2, <2>2, <3>1 DEF PxOk
  <2> QED BY <2>1, <2>2
<1>4. ~ScanTruncated(s) /\ ~ScanTruncated(t)
  BY <1>0, <1>1, <1>2, <1>3 DEF ScanTruncated
<1>5. LegacyPrefixes(s) = LegacyPrefixes(t)
  <2>1. \A i \in 1 .. n : s[i] = t[i]
    BY <1>1, <1>2, BeginsIs
  <2>2. {s[i] : i \in 1 .. n} = {t[i] : i \in 1 .. n}
    BY <2>1
  <2> QED BY <1>1, <2>2 DEF LegacyPrefixes
<1> DEFINE px == LegacyPrefixes(s)
<1>6. px.len = n
  BY <1>0, LegacyPrefixesAre
<1>7. \A i \in 1 .. n + LongPrefix(b) : s[i] = t[i]
  BY <1>2, <1>3, BeginsIs
<1> HIDE DEF px
<1>8. b = \hC5 => Vex2(px, s) = Vex2(px, t)
  <2> SUFFICES ASSUME b = \hC5 PROVE Vex2(px, s) = Vex2(px, t)
    OBVIOUS
  <2>1. LongPrefix(b) = 2
    BY DEF LongPrefix
  <2>2. s[px.len + 2] = t[px.len + 2]
    <3>1. n + 2 \in 1 .. n + 2
      BY <1>2
    <3> QED BY <1>6, <1>7, <2>1, <3>1
  <2> QED BY <2>2 DEF Vex2
<1>9. b = \hC4 => Vex3(px, s) = Vex3(px, t)
  <2> SUFFICES ASSUME b = \hC4 PROVE Vex3(px, s) = Vex3(px, t)
    OBVIOUS
  <2>1. LongPrefix(b) = 3
    BY DEF LongPrefix
  <2>2. s[px.len + 2] = t[px.len + 2] /\ s[px.len + 3] = t[px.len + 3]
    <3>1. n + 2 \in 1 .. n + 3 /\ n + 3 \in 1 .. n + 3
      BY <1>2
    <3> QED BY <1>6, <1>7, <2>1, <3>1
  <2> QED BY <2>2 DEF Vex3
<1>10. b = \h62 => Evex(px, s) = Evex(px, t)
  <2> SUFFICES ASSUME b = \h62 PROVE Evex(px, s) = Evex(px, t)
    OBVIOUS
  <2>1. LongPrefix(b) = 4
    BY DEF LongPrefix
  <2>2. /\ s[px.len + 2] = t[px.len + 2] /\ s[px.len + 3] = t[px.len + 3]
        /\ s[px.len + 4] = t[px.len + 4]
    <3>1. n + 2 \in 1 .. n + 4 /\ n + 3 \in 1 .. n + 4 /\ n + 4 \in 1 .. n + 4
      BY <1>2
    <3> QED BY <1>6, <1>7, <2>1, <3>1
  <2> QED BY <2>2 DEF Evex
<1>11. s[px.len + 1] = b /\ t[px.len + 1] = b
  BY <1>2, <1>6
<1>12. ScanPrefixes(s) = ScanPrefixes(t)
  <2>1. LegacyPrefixes(s) = px /\ LegacyPrefixes(t) = px
    BY <1>5 DEF px
  <2> HIDE DEF b
  <2> QED BY <1>8, <1>9, <1>10, <1>11, <2>1 DEF ScanPrefixes
<1> QED BY <1>4, <1>12

-----------------------------------------------------------------------------
(* From the opcode on *)

LEMMA OpcodeMapIs ==
  ASSUME NEW px, NEW s
  PROVE  LET o == OpcodeMap(px, s) IN
         /\ o.bytes \in 1 .. 3
         /\ px.vex = "no" => o.map \in 0 .. 3
         /\ px.vex # "no" => o.map = px.map
BY DEF OpcodeMap

LEMMA OpcodeMapSame ==
  ASSUME NEW s, NEW t, Begins(s, t), NEW px, px.len \in Nat,
         \/ px.len + OpcodeMap(px, s).bytes <= Len(s)
         \/ px.len + OpcodeMap(px, t).bytes <= Len(s)
  PROVE  OpcodeMap(px, s) = OpcodeMap(px, t)
<1> DEFINE l == px.len
           A(x, i, set) == Len(x) >= l + i /\ x[l + i] \in set
           Map(x) == IF px.vex # "no" THEN [map |-> px.map, bytes |-> 1]
                     ELSE IF ~A(x, 1, {\h0F}) THEN [map |-> 0, bytes |-> 1]
                     ELSE IF ~A(x, 2, {\h38, \h3A}) THEN [map |-> 1, bytes |-> 2]
                     ELSE [map |-> IF A(x, 2, {\h38}) THEN 2 ELSE 3, bytes |-> 3]
<1>1. OpcodeMap(px, s) = Map(s) /\ OpcodeMap(px, t) = Map(t)
  BY DEF OpcodeMap
<1>2. Len(s) \in Nat /\ Len(t) \in Nat /\ Len(s) <= Len(t) /\ l \in Nat
  BY BeginsIs
<1>3. \A set : \A i \in 1 .. 2 : l + i <= Len(s) => (A(s, i, set) <=> A(t, i, set))
  <2> SUFFICES ASSUME NEW i \in 1 .. 2, NEW set, l + i <= Len(s)
               PROVE  A(s, i, set) <=> A(t, i, set)
    OBVIOUS
  <2>1. l + i \in 1 .. Len(s)
    BY <1>2
  <2>2. s[l + i] = t[l + i]
    BY <2>1, BeginsIs
  <2> QED BY <1>2, <2>1, <2>2
<1>4. l + Map(s).bytes <= Len(s) \/ l + Map(t).bytes <= Len(s)
  BY <1>1
<1> HIDE DEF A
<1>5. CASE px.vex # "no"
  BY <1>1, <1>5
<1>6. CASE px.vex = "no"
  <2>1. l + 1 <= Len(s)
    BY <1>2, <1>4
  <2>2. A(s, 1, {\h0F}) <=> A(t, 1, {\h0F})
    BY <1>3, <2>1
  <2>3. CASE ~A(s, 1, {\h0F})
    BY <1>1, <2>2, <2>3
  <2>4. CASE A(s, 1, {\h0F})
    <3>1. l + 2 <= Len(s)
      BY <1>2, <1>4, <1>6, <2>2, <2>4
    <3>2. /\ A(s, 2, {\h38, \h3A}) <=> A(t, 2, {\h38, \h3A})
          /\ A(s, 2, {\h38}) <=> A(t, 2, {\h38})
      BY <1>3, <3>1
    <3> QED BY <1>1, <2>2, <3>2
  <2> QED BY <2>3, <2>4
<1> QED BY <1>5, <1>6

\* What DecodeOpcode names locally.
OpcodeEnd(px, s) == px.len + OpcodeMap(px, s).bytes
ModRmOf(px, s) == SplitModRm(IF Len(s) > OpcodeEnd(px, s) THEN s[OpcodeEnd(px, s) + 1] ELSE 0)
FormatOf(px, s) == Format(px, OpcodeMap(px, s).map, s[OpcodeEnd(px, s)], ModRmOf(px, s))
LengthOf(px, s) ==
  LET f == FormatOf(px, s) IN
  IF f.modrm
  THEN OpcodeEnd(px, s) + 1 + f.imm
         + IF f.rm THEN OperandBytes(ModRmOf(px, s), s, OpcodeEnd(px, s) + 1) ELSE 0
  ELSE OpcodeEnd(px, s) + f.imm

LEMMA DecodeOpcodeIs ==
  ASSUME NEW px, NEW s
  PROVE  DecodeOpcode(px, s) =
           IF Len(s) < OpcodeEnd(px, s) THEN Truncated
           ELSE IF FormatOf(px, s).modrm /\ Len(s) = OpcodeEnd(px, s) THEN Truncated
           ELSE IF FormatOf(px, s).pre # "Ok" THEN Failed(FormatOf(px, s).pre)
           ELSE IF RunsOff(s, LengthOf(px, s)) THEN Truncated
           ELSE IF FormatOf(px, s).post # "Ok" THEN Failed(FormatOf(px, s).post)
           ELSE DecodeFormat(px, s[OpcodeEnd(px, s)], ModRmOf(px, s), FormatOf(px, s),
                             LengthOf(px, s))
BY DEF DecodeOpcode, OpcodeEnd, ModRmOf, FormatOf, LengthOf

LEMMA SplitModRmIs ==
  ASSUME NEW b \in Byte
  PROVE  /\ SplitModRm(b) \in ModRm
         /\ (SplitModRm(b).mod # 3) <=> (b < \hC0)
<1>1. SplitModRm(b) \in ModRm
  BY BitsAre DEF SplitModRm, ModRm
<1>2. SplitModRm(b).mod = Bits(b, 6, 2)
  BY DEF SplitModRm
<1> QED BY <1>1, <1>2, BitsAre

\* The prefixes are such that an opcode is read.
Known(px) ==
  /\ px.len \in Nat /\ px.vvvv \in 0 .. 31
  /\ px.vex \in {"no", "vex", "evex"} /\ (px.vex = "no" \/ VexMapKnown(px))

LEMMA FormatOfIs ==
  ASSUME NEW px, Known(px), NEW s \in Seq(Byte), OpcodeEnd(px, s) <= Len(s)
  PROVE  /\ OpcodeEnd(px, s) \in 1 .. Len(s) /\ px.len < OpcodeEnd(px, s) /\ OpcodeEnd(px, s) <= px.len + 3
         /\ s[OpcodeEnd(px, s)] \in Byte
         /\ ModRmOf(px, s) \in ModRm
         /\ Lookup(px, OpcodeMap(px, s).map)
         /\ Right(FormatOf(px, s), px, OpcodeMap(px, s).map, s[OpcodeEnd(px, s)], ModRmOf(px, s))
<1> DEFINE o == OpcodeMap(px, s)
           h == OpcodeEnd(px, s)
<1>1. o.bytes \in 1 .. 3 /\ px.len \in Nat /\ Len(s) \in Nat
  BY OpcodeMapIs DEF Known
<1>2. h = px.len + o.bytes
  BY DEF OpcodeEnd
<1> HIDE DEF o
<1>3. h \in 1 .. Len(s) /\ px.len < h /\ h <= px.len + 3
  BY <1>1, <1>2
<1> HIDE DEF h
<1>4. s[h] \in Byte
  BY <1>3
<1>5. ModRmOf(px, s) \in ModRm
  <2>1. CASE Len(s) > h
    <3>1. s[h + 1] \in Byte
      BY <1>1, <1>3, <2>1
    <3>2. ModRmOf(px, s) = SplitModRm(s[h + 1])
      BY <2>1 DEF ModRmOf, h
    <3> QED BY <3>1, <3>2, SplitModRmIs
  <2>2. CASE ~(Len(s) > h)
    <3>1. ModRmOf(px, s) = SplitModRm(0) /\ 0 \in Byte
      BY <2>2 DEF ModRmOf, h, Byte
    <3> QED BY <3>1, SplitModRmIs
  <2> QED BY <2>1, <2>2
<1>6. Lookup(px, o.map)
  BY OpcodeMapIs DEF Known, Lookup, VexMapKnown, o
<1>7. Right(FormatOf(px, s), px, o.map, s[h], ModRmOf(px, s))
  BY <1>4, <1>5, <1>6, FormatRight DEF FormatOf, o, h
<1> QED BY <1>3, <1>4, <1>5, <1>6, <1>7 DEF o, h

LEMMA OperandBytesIs ==
  ASSUME NEW m \in ModRm, NEW s, NEW k
  PROVE  /\ OperandBytes(m, s, k) \in 0 .. 5
         /\ m.mod # 3 /\ HasSib(m) => OperandBytes(m, s, k) >= 1
<1>1. \A sib : DispBytes(m, sib) \in 0 .. 4
  BY DEF DispBytes, ModRm
<1> QED BY <1>1 DEF OperandBytes

LEMMA LengthOfIs ==
  ASSUME NEW px, Known(px), NEW s \in Seq(Byte), OpcodeEnd(px, s) <= Len(s)
  PROVE  /\ LengthOf(px, s) \in Nat /\ LengthOf(px, s) >= OpcodeEnd(px, s)
         /\ FormatOf(px, s).modrm = TRUE => LengthOf(px, s) > OpcodeEnd(px, s)
         /\ FormatOf(px, s).modrm = TRUE /\ FormatOf(px, s).rm = TRUE
              /\ ModRmOf(px, s).mod # 3 /\ HasSib(ModRmOf(px, s))
            => LengthOf(px, s) > OpcodeEnd(px, s) + 1
<1> DEFINE f == FormatOf(px, s)
           h == OpcodeEnd(px, s)
           m == ModRmOf(px, s)
<1>1. h \in Nat /\ m \in ModRm
  BY FormatOfIs
<1>2. f.imm \in Nat
  <2>1. Right(f, px, OpcodeMap(px, s).map, s[h], m)
    BY FormatOfIs
  <2> HIDE DEF f, h, m
  <2> QED BY <2>1 DEF Right
<1>3. PICK k \in 0 .. 5 : /\ k = OperandBytes(m, s, h + 1)
                          /\ m.mod # 3 /\ HasSib(m) => k >= 1
  BY <1>1, OperandBytesIs
<1>4. PICK i \in Nat : i = f.imm
  BY <1>2
<1>5. PICK n : n = LengthOf(px, s)
  OBVIOUS
<1>6. PICK e : e = IF f.rm THEN k ELSE 0
  OBVIOUS
<1>7. n = IF f.modrm THEN h + 1 + i + e ELSE h + i
  BY <1>3, <1>4, <1>5, <1>6 DEF LengthOf
<1> HIDE DEF f, h, m
<1>8. e \in Nat /\ (f.rm = TRUE => e = k)
  BY <1>6
<1>9. /\ f.modrm = TRUE => n = h + 1 + i + e
      /\ n \in {h + 1 + i + e, h + i}
  BY <1>7
<1>10. n \in Nat /\ n >= h
  BY <1>1, <1>4, <1>8, <1>9
<1>11. ASSUME f.modrm = TRUE PROVE n > h
  BY <1>1, <1>4, <1>8, <1>9, <1>11
<1>12. ASSUME f.modrm = TRUE, f.rm = TRUE, m.mod # 3, HasSib(m) PROVE n > h + 1
  <2>1. e >= 1
    BY <1>3, <1>8, <1>12
  <2> QED BY <1>1, <1>4, <1>8, <1>9, <1>12, <2>1
<1> QED BY <1>5, <1>10, <1>11, <1>12 DEF f, h, m

\* What makes an opcode be read from s as from t, which begins with s: that s
\* is long enough to decide it, or that what t makes of it lies in s.
Suffices(px, s, t) ==
  \/ DecodeOpcode(px, s).status # "TruncatedInstruction"
  \/ DecodeOpcode(px, t).status = "Ok" /\ DecodeOpcode(px, t).len <= Len(s)

LEMMA OpcodeStatusIs ==
  ASSUME NEW px, NEW s
  PROVE  /\ DecodeOpcode(px, s).status # "TruncatedInstruction" =>
              /\ ~(Len(s) < OpcodeEnd(px, s))
              /\ ~(FormatOf(px, s).modrm /\ Len(s) = OpcodeEnd(px, s))
              /\ FormatOf(px, s).pre = "Ok" => ~(LengthOf(px, s) > Len(s))
         /\ DecodeOpcode(px, s).status = "Ok" =>
              /\ DecodeOpcode(px, s).len = LengthOf(px, s)
              /\ FormatOf(px, s).pre = "Ok" /\ FormatOf(px, s).post = "Ok"
<1>1. /\ Truncated.status = "TruncatedInstruction"
      /\ \A why : Failed(why).status = why
  BY DEF Truncated, Failed
<1>2. \A opc, m, f, n : /\ DecodeFormat(px, opc, m, f, n).status = "Ok"
                        /\ DecodeFormat(px, opc, m, f, n).len = n
  BY DEF DecodeFormat
<1>3. RunsOff(s, LengthOf(px, s)) <=> LengthOf(px, s) > Len(s)
  BY DEF RunsOff
<1> QED BY <1>1, <1>2, <1>3, DecodeOpcodeIs

LEMMA OpcodeEndSame ==
  ASSUME NEW s, NEW t, Begins(s, t), NEW px, Known(px), Suffices(px, s, t)
  PROVE  /\ OpcodeMap(px, s) = OpcodeMap(px, t)
         /\ OpcodeEnd(px, s) = OpcodeEnd(px, t)
         /\ OpcodeEnd(px, s) <= Len(s) /\ OpcodeEnd(px, s) <= Len(t)
         /\ s[OpcodeEnd(px, s)] = t[OpcodeEnd(px, s)]
<1>1. /\ Len(s) \in Nat /\ Len(t) \in Nat /\ Len(s) <= Len(t) /\ px.len \in Nat
      /\ \A i \in 1 .. Len(s) : s[i] = t[i]
  BY BeginsIs DEF Known
<1>2. \A x : OpcodeEnd(px, x) \in Nat /\ OpcodeEnd(px, x) >= 1
  BY <1>1, OpcodeMapIs DEF OpcodeEnd
<1>3. OpcodeEnd(px, s) <= Len(s) \/ OpcodeEnd(px, t) <= Len(s)
  <2>1. CASE DecodeOpcode(px, s).status # "TruncatedInstruction"
    BY <1>1, <1>2, <2>1, OpcodeStatusIs
  <2>2. CASE DecodeOpcode(px, t).status = "Ok" /\ DecodeOpcode(px, t).len <= Len(s)
    <3>1. LengthOf(px, t) <= Len(s)
      BY <2>2, OpcodeStatusIs
    <3>2. t \in Seq(Byte) /\ OpcodeEnd(px, t) <= Len(t)
      <4>1. ~(Len(t) < OpcodeEnd(px, t))
        BY <2>2, OpcodeStatusIs
      <4> QED BY <1>1, <1>2, <4>1 DEF Begins
    <3>3. LengthOf(px, t) \in Nat /\ LengthOf(px, t) >= OpcodeEnd(px, t)
      BY <3>2, LengthOfIs
    <3> QED BY <1>1, <1>2, <3>1, <3>3
  <2> QED BY <2>1, <2>2 DEF Suffices
<1>4. OpcodeMap(px, s) = OpcodeMap(px, t)
  BY <1>1, <1>3, OpcodeMapSame DEF OpcodeEnd
<1>5. OpcodeEnd(px, s) = OpcodeEnd(px, t)
  BY <1>4 DEF OpcodeEnd
<1>6. OpcodeEnd(px, s) \in 1 .. Len(s) /\ OpcodeEnd(px, s) <= Len(t)
  BY <1>1, <1>2, <1>3, <1>5
<1> QED BY <1>1, <1>4, <1>5, <1>6

LEMMA FormatOfSame ==
  ASSUME NEW s, NEW t, Begins(s, t), NEW px, Known(px), Suffices(px, s, t)
  PROVE  /\ FormatOf(px, s) = FormatOf(px, t)
         /\ \/ FormatOf(px, s).modrm # TRUE
            \/ Len(s) > OpcodeEnd(px, s) /\ ModRmOf(px, s) = ModRmOf(px, t)
<1> DEFINE h == OpcodeEnd(px, s)
           F(x) == Format(px, OpcodeMap(px, s).map, s[h], ModRmOf(px, x))
<1>1. /\ OpcodeMap(px, s) = OpcodeMap(px, t) /\ h = OpcodeEnd(px, t)
      /\ h <= Len(s) /\ h <= Len(t) /\ s[h] = t[h]
  BY OpcodeEndSame
<1>2. FormatOf(px, s) = F(s) /\ FormatOf(px, t) = F(t)
  BY <1>1 DEF FormatOf
<1>3. s \in Seq(Byte) /\ t \in Seq(Byte)
  BY DEF Begins
<1>4. /\ h \in 1 .. Len(s) /\ s[h] \in Byte /\ ModRmOf(px, s) \in ModRm
      /\ ModRmOf(px, t) \in ModRm /\ Lookup(px, OpcodeMap(px, s).map)
  BY <1>1, <1>3, FormatOfIs
<1>5. /\ Len(s) \in Nat /\ Len(t) \in Nat /\ Len(s) <= Len(t)
      /\ \A i \in 1 .. Len(s) : s[i] = t[i]
  BY BeginsIs
<1>6. CASE Len(s) > h
  <2>1. s[h + 1] = t[h + 1] /\ Len(t) > h
    BY <1>4, <1>5, <1>6
  <2>2. ModRmOf(px, s) = ModRmOf(px, t)
    BY <1>1, <1>6, <2>1 DEF ModRmOf
  <2> QED BY <1>2, <1>6, <2>2
<1>7. CASE ~(Len(s) > h)
  <2>1. Len(s) = h
    BY <1>4, <1>5, <1>7
  <2>2. /\ F(s).modrm = TRUE \/ F(t) = F(s)
        /\ F(t).modrm = TRUE \/ F(s) = F(t)
    BY <1>4, FormatSteady
  <2>3. ~(F(s).modrm = TRUE /\ F(t).modrm = TRUE)
    <3> SUFFICES ASSUME F(s).modrm = TRUE, F(t).modrm = TRUE PROVE FALSE
      OBVIOUS
    <3>1. DecodeOpcode(px, s).status = "TruncatedInstruction"
      BY <1>2, <2>1, OpcodeStatusIs
    <3>2. DecodeOpcode(px, t).status = "Ok" /\ DecodeOpcode(px, t).len <= h
      BY <2>1, <3>1 DEF Suffices
    <3>3. LengthOf(px, t) <= h
      BY <3>2, OpcodeStatusIs
    <3>4. LengthOf(px, t) \in Nat /\ LengthOf(px, t) > h
      BY <1>1, <1>2, <1>3, LengthOfIs
    <3> QED BY <1>4, <3>3, <3>4
  <2> HIDE DEF F
  <2>4. F(s) = F(t) /\ F(s).modrm # TRUE
    BY <2>2, <2>3
  <2> QED BY <1>2, <2>4
<1> QED BY <1>6, <1>7

LEMMA OperandBytesSame ==
  ASSUME NEW s, NEW t, Begins(s, t), NEW m \in ModRm, NEW k \in Nat,
         m.mod # 3 /\ HasSib(m) => k < Len(s)
  PROVE  OperandBytes(m, s, k) = OperandBytes(m, t, k)
<1>1. /\ Len(s) \in Nat /\ Len(t) \in Nat /\ Len(s) <= Len(t)
      /\ \A i \in 1 .. Len(s) : s[i] = t[i]
  BY BeginsIs
<1>2. CASE m.mod # 3 /\ HasSib(m)
  <2>1. k + 1 \in 1 .. Len(s) /\ Len(s) > k /\ Len(t) > k
    BY <1>1, <1>2
  <2>2. s[k + 1] = t[k + 1]
    BY <1>1, <2>1
  <2> QED BY <1>2, <2>1, <2>2 DEF OperandBytes
<1>3. CASE ~(m.mod # 3 /\ HasSib(m))
  BY <1>3 DEF OperandBytes
<1> QED BY <1>2, <1>3

\* An operand that no ModRM byte names does not depend on it.
LEMMA ImplicitRoleSame ==
  ASSUME NEW px, NEW opc, NEW m, NEW n, NEW r \in Implicit
  PROVE  Role(px, opc, m, r) = Role(px, opc, n, r)
<1>1. CASE r = "none"
  BY <1>1 DEF Role
<1>2. CASE r = "opreg"
  BY <1>2 DEF Role
<1>3. CASE r = "acc"
  BY <1>3 DEF Role
<1>4. CASE r = "imm"
  BY <1>4 DEF Role
<1>5. CASE r = "rel"
  BY <1>5 DEF Role
<1> QED BY <1>1, <1>2, <1>3, <1>4, <1>5 DEF Implicit

LEMMA LengthOfSame ==
  ASSUME NEW s, NEW t, Begins(s, t), NEW px, Known(px), Suffices(px, s, t),
         FormatOf(px, s).pre = "Ok"
  PROVE  LengthOf(px, s) = LengthOf(px, t) /\ LengthOf(px, s) <= Len(s)
<1> DEFINE h == OpcodeEnd(px, s)
           f == FormatOf(px, s)
           m == ModRmOf(px, s)
<1>1. /\ s \in Seq(Byte) /\ t \in Seq(Byte) /\ Len(s) \in Nat
      /\ h <= Len(s) /\ h <= Len(t) /\ OpcodeEnd(px, t) = h /\ FormatOf(px, t) = f
      /\ f.modrm = TRUE => Len(s) > h /\ ModRmOf(px, t) = m
  BY BeginsIs, OpcodeEndSame, FormatOfSame DEF Begins
<1>2. h \in Nat /\ m \in ModRm
  BY <1>1, FormatOfIs
<1>3. LengthOf(px, s) \in Nat /\ LengthOf(px, t) \in Nat
  BY <1>1, LengthOfIs
<1>4. LengthOf(px, s) <= Len(s) \/ LengthOf(px, t) <= Len(s)
  <2>1. CASE DecodeOpcode(px, s).status # "TruncatedInstruction"
    <3>1. ~(LengthOf(px, s) > Len(s))
      BY <2>1, OpcodeStatusIs
    <3> QED BY <1>1, <1>3, <3>1
  <2>2. CASE DecodeOpcode(px, t).status = "Ok" /\ DecodeOpcode(px, t).len <= Len(s)
    BY <2>2, OpcodeStatusIs
  <2> QED BY <2>1, <2>2 DEF Suffices
<1>5. CASE f.modrm # TRUE
  <2>1. PICK i : i = h + f.imm
    OBVIOUS
  <2>2. LengthOf(px, s) = i /\ LengthOf(px, t) = i
    <3>1. f.modrm = FALSE
      <4>1. Right(f, px, OpcodeMap(px, s).map, s[h], m)
        BY <1>1, FormatOfIs
      <4> HIDE DEF f, h, m
      <4> QED BY <1>5, <4>1 DEF Right
    <3> QED BY <1>1, <2>1, <3>1 DEF LengthOf
  <2> QED BY <1>4, <2>2
<1>6. CASE f.modrm = TRUE
  <2> DEFINE Sum(j) == h + 1 + f.imm + IF f.rm THEN j ELSE 0
  <2>1. /\ LengthOf(px, s) = Sum(OperandBytes(m, s, h + 1))
        /\ LengthOf(px, t) = Sum(OperandBytes(m, t, h + 1))
    BY <1>1, <1>6 DEF LengthOf
  <2>2. CASE f.rm = TRUE
    <3>1. m.mod # 3 /\ HasSib(m) => LengthOf(px, s) > h + 1 /\ LengthOf(px, t) > h + 1
      BY <1>1, <1>6, <2>2, LengthOfIs
    <3>2. m.mod # 3 /\ HasSib(m) => h + 1 < Len(s)
      BY <1>1, <1>2, <1>3, <1>4, <3>1
    <3>3. OperandBytes(m, s, h + 1) = OperandBytes(m, t, h + 1)
      BY <1>2, <3>2, OperandBytesSame
    <3> QED BY <1>4, <2>1, <3>3
  <2>3. CASE f.rm # TRUE
    <3> HIDE DEF f, h, m
    <3>1. \A j : Sum(j) = h + 1 + f.imm + 0
      BY <2>3
    <3> QED BY <1>4, <2>1, <3>1
  <2> QED BY <2>2, <2>3
<1> QED BY <1>5, <1>6

\* An opcode that suffices is decoded alike.
LEMMA DecodeOpcodeSame ==
  ASSUME NEW s, NEW t, Begins(s, t), NEW px, Known(px), Suffices(px, s, t)
  PROVE  DecodeOpcode(px, s) = DecodeOpcode(px, t)
<1> DEFINE h == OpcodeEnd(px, s)
           f == FormatOf(px, s)
           n == LengthOf(px, s)
           D(x) == DecodeFormat(px, s[h], ModRmOf(px, x), f, n)
<1>1. /\ s \in Seq(Byte) /\ t \in Seq(Byte) /\ Len(s) \in Nat /\ Len(t) \in Nat
      /\ Len(s) <= Len(t)
      /\ h <= Len(s) /\ h <= Len(t) /\ OpcodeEnd(px, t) = h /\ s[h] = t[h] /\ FormatOf(px, t) = f
      /\ f.modrm = TRUE => Len(s) > h /\ ModRmOf(px, t) = ModRmOf(px, s)
  BY BeginsIs, OpcodeEndSame, FormatOfSame DEF Begins
<1>2. h \in Nat /\ Right(f, px, OpcodeMap(px, s).map, s[h], ModRmOf(px, s))
  BY <1>1, FormatOfIs
<1>3. f.modrm \in BOOLEAN
  <2> HIDE DEF f, h
  <2> QED BY <1>2 DEF Right
<1>4. f.pre = "Ok" => n \in Nat /\ LengthOf(px, t) = n /\ n <= Len(s)
  BY <1>1, LengthOfSame, LengthOfIs
<1>5. f.pre = "Ok" /\ f.post = "Ok" => D(s) = D(t)
  <2>1. CASE f.modrm = TRUE
    BY <1>1, <2>1
  <2>2. CASE f.modrm # TRUE
    <3> SUFFICES ASSUME f.pre = "Ok", f.post = "Ok" PROVE D(s) = D(t)
      OBVIOUS
    <3>1. f.dst \in Implicit /\ f.src \in Implicit
      <4> HIDE DEF f, h
      <4> QED BY <1>2, <2>2 DEF Right
    <3>2. \A j, k : \A r \in Implicit : Role(px, s[h], j, r) = Role(px, s[h], k, r)
      BY ImplicitRoleSame
    <3> HIDE DEF f, h, n
    <3> QED BY <3>1, <3>2 DEF DecodeFormat
  <2> QED BY <2>1, <2>2
<1> DEFINE Out(x) == IF f.pre # "Ok" THEN Failed(f.pre)
                   ELSE IF f.post # "Ok" THEN Failed(f.post) ELSE D(x)
<1>6. ~(Len(s) < h) /\ ~(Len(t) < h) /\ ~(f.modrm /\ Len(s) = h) /\ ~(f.modrm /\ Len(t) = h)
  <2> HIDE DEF f, h
  <2>1. f.modrm = TRUE => Len(s) > h /\ Len(t) > h
    BY <1>1, <1>2
  <2> QED BY <1>1, <1>2, <1>3, <2>1
<1>7. f.pre = "Ok" => ~RunsOff(s, n) /\ ~RunsOff(t, LengthOf(px, t))
  BY <1>1, <1>4 DEF RunsOff
<1>8. DecodeOpcode(px, s) = Out(s)
  BY <1>6, <1>7, DecodeOpcodeIs
<1>9. DecodeOpcode(px, t) = Out(t)
  BY <1>1, <1>4, <1>6, <1>7, DecodeOpcodeIs
<1> QED BY <1>5, <1>8, <1>9

-----------------------------------------------------------------------------
(* An instruction *)

LEMMA KnownIs ==
  ASSUME NEW s \in Seq(Byte), ~ScanTruncated(s),
         ~(ScanPrefixes(s).vex # "no" /\ ~VexMapKnown(ScanPrefixes(s)))
  PROVE  Known(ScanPrefixes(s))
<1> DEFINE px == ScanPrefixes(s)
           n == LegacyCount(s)
           k == LongPrefix(s[n + 1])
<1>1. PxOk(px, n + k) /\ k \in 0 .. 4
  BY ScanIs
<1>2. n \in Nat
  BY LegacyCountIs DEF StopsAt
<1> HIDE DEF px, n, k
<1>3. px.len \in Nat
  BY <1>1, <1>2 DEF PxOk
<1> QED BY <1>1, <1>3 DEF PxOk, Known, px

LEMMA SourceOk ==
  ASSUME NEW s \in Seq(Byte), DecodeWithSource(s).status = "Ok"
  PROVE  LET px == ScanPrefixes(s) IN
         /\ ~ScanTruncated(s) /\ Known(px) /\ DecodeWithSource(s) = DecodeOpcode(px, s)
         /\ OpcodeEnd(px, s) \in 1 .. Len(s) /\ px.len < OpcodeEnd(px, s)
         /\ DecodeWithSource(s).len = LengthOf(px, s)
         /\ LengthOf(px, s) \in OpcodeEnd(px, s) .. Len(s)
         /\ FormatOf(px, s).pre = "Ok" /\ FormatOf(px, s).post = "Ok"
         /\ FormatOf(px, s).modrm = TRUE => Len(s) > OpcodeEnd(px, s)
<1> DEFINE px == ScanPrefixes(s)
<1>1. Truncated.status # "Ok" /\ Failed("UnsupportedOpcode").status # "Ok"
  BY DEF Truncated, Failed
<1>2. ~ScanTruncated(s) /\ ~(px.vex # "no" /\ ~VexMapKnown(px)) /\ DecodeWithSource(s) = DecodeOpcode(px, s)
  BY <1>1 DEF DecodeWithSource
<1>3. Known(px)
  BY <1>2, KnownIs
<1> HIDE DEF px
<1>4. /\ ~(Len(s) < OpcodeEnd(px, s)) /\ DecodeWithSource(s).len = LengthOf(px, s)
      /\ ~(FormatOf(px, s).modrm /\ Len(s) = OpcodeEnd(px, s))
      /\ FormatOf(px, s).pre = "Ok" /\ FormatOf(px, s).post = "Ok"
      /\ ~(LengthOf(px, s) > Len(s))
  BY <1>2, OpcodeStatusIs
<1>5. OpcodeEnd(px, s) \in Nat /\ Len(s) \in Nat
  BY <1>3, OpcodeMapIs DEF OpcodeEnd, Known
<1>6. OpcodeEnd(px, s) \in 1 .. Len(s) /\ px.len < OpcodeEnd(px, s)
  <2>1. OpcodeEnd(px, s) <= Len(s)
    BY <1>4, <1>5
  <2> QED BY <1>3, <2>1, FormatOfIs
<1>7. LengthOf(px, s) \in OpcodeEnd(px, s) .. Len(s)
  <2>1. LengthOf(px, s) \in Nat /\ LengthOf(px, s) >= OpcodeEnd(px, s)
    <3>1. OpcodeEnd(px, s) <= Len(s)
      BY <1>5, <1>6
    <3> QED BY <1>3, <3>1, LengthOfIs
  <2> QED BY <1>4, <1>5, <2>1
<1>8. FormatOf(px, s).modrm = TRUE => Len(s) > OpcodeEnd(px, s)
  BY <1>4, <1>5, <1>6
<1> QED BY <1>2, <1>3, <1>4, <1>6, <1>7, <1>8 DEF px

\* Bytes behind those that decide an instruction do not change it.
LEMMA SourceSame ==
  ASSUME NEW s, NEW t, Begins(s, t),
         \/ DecodeWithSource(s).status # "TruncatedInstruction"
         \/ DecodeWithSource(t).status = "Ok" /\ DecodeWithSource(t).len <= Len(s)
  PROVE  DecodeWithSource(s) = DecodeWithSource(t)
<1>1. s \in Seq(Byte) /\ t \in Seq(Byte)
  BY DEF Begins
<1>2. Truncated.status = "TruncatedInstruction"
  BY DEF Truncated, Failed
<1>3. \/ ~ScanTruncated(s)
      \/ ~ScanTruncated(t) /\ ScanPrefixes(t).len < Len(s)
  <2>1. CASE DecodeWithSource(s).status # "TruncatedInstruction"
    BY <1>2, <2>1 DEF DecodeWithSource
  <2>2. CASE DecodeWithSource(t).status = "Ok" /\ DecodeWithSource(t).len <= Len(s)
    <3> DEFINE px == ScanPrefixes(t)
    <3>1. /\ ~ScanTruncated(t) /\ Known(px) /\ DecodeWithSource(t).len = LengthOf(px, t)
          /\ OpcodeEnd(px, t) \in 1 .. Len(t) /\ px.len < OpcodeEnd(px, t)
          /\ LengthOf(px, t) \in OpcodeEnd(px, t) .. Len(t)
      BY <1>1, <2>2, SourceOk
    <3>2. px.len \in Nat /\ Len(s) \in Nat /\ Len(t) \in Nat
      BY <1>1, <3>1 DEF Known
    <3> HIDE DEF px
    <3>3. px.len < Len(s)
      BY <2>2, <3>1, <3>2
    <3> QED BY <3>1, <3>3 DEF px
  <2> QED BY <2>1, <2>2
<1>4. ~ScanTruncated(s) /\ ~ScanTruncated(t) /\ ScanPrefixes(s) = ScanPrefixes(t)
  BY <1>3, ScanSame
<1> DEFINE px == ScanPrefixes(s)
<1>5. CASE px.vex # "no" /\ ~VexMapKnown(px)
  BY <1>4, <1>5 DEF DecodeWithSource
<1>6. CASE ~(px.vex # "no" /\ ~VexMapKnown(px))
  <2>1. DecodeWithSource(s) = DecodeOpcode(px, s) /\ DecodeWithSource(t) = DecodeOpcode(px, t)
    BY <1>4, <1>6 DEF DecodeWithSource
  <2>2. Known(px)
    BY <1>1, <1>4, <1>6, KnownIs
  <2> HIDE DEF px
  <2>3. Suffices(px, s, t)
    BY <2>1 DEF Suffices
  <2> QED BY <2>1, <2>2, <2>3, DecodeOpcodeSame
<1> QED BY <1>5, <1>6

\* The registers of operands.
LEMMA ExtendedIs ==
  ASSUME NEW px, NEW ext, NEW r \in 0 .. 7
  PROVE  Extended(ext, r) \in 0 .. 15 /\ ByteRegister(px, ext, r) \in 0 .. 19
<1>1. Extended(ext, r) \in 0 .. 15
  BY DEF Extended
<1>2. CASE ~px.rex /\ r >= 4
  BY <1>1, <1>2 DEF ByteRegister
<1>3. CASE ~(~px.rex /\ r >= 4)
  BY <1>1, <1>3 DEF ByteRegister
<1> QED BY <1>1, <1>2, <1>3

LEMMA RoleIs ==
  ASSUME NEW px, px.vvvv \in 0 .. 31, NEW opc \in Byte, NEW m \in ModRm, NEW r
  PROVE  Role(px, opc, m, r).reg \in 0 .. 31
<1>1. m.mod \in 0 .. 3 /\ m.reg \in 0 .. 7 /\ m.rm \in 0 .. 7 /\ opc % 8 \in 0 .. 7
  BY DEF ModRm, Byte
<1>2. /\ \A ext : Extended(ext, m.reg) \in 0 .. 15 /\ Extended(ext, m.rm) \in 0 .. 15
                  /\ Extended(ext, opc % 8) \in 0 .. 15
      /\ \A ext : ByteRegister(px, ext, m.reg) \in 0 .. 31 /\ ByteRegister(px, ext, m.rm) \in 0 .. 31
  BY <1>1, ExtendedIs
<1>3. \A k, n : Operand(k, n).reg = n
  BY DEF Operand
<1>4. \A b : RegOperand(px, m, b).reg \in 0 .. 31
  BY <1>2, <1>3 DEF RegOperand
<1>5. \A b : RmOperand(px, m, b).reg \in 0 .. 31
  BY <1>2, <1>3 DEF RmOperand
<1>6. XmmReg(px, m).reg \in 0 .. 31
  <2>1. XmmReg(px, m).reg = Extended(px.r, m.reg) + IF px.r16 THEN 16 ELSE 0
    BY <1>3 DEF XmmReg
  <2> QED BY <1>2, <2>1
<1>7. XmmRm(px, m).reg \in 0 .. 31
  <2>1. CASE m.mod = 3
    <3>1. XmmRm(px, m).reg = Extended(px.b, m.rm)
      BY <1>3, <2>1 DEF XmmRm
    <3> QED BY <1>2, <3>1
  <2>2. CASE m.mod # 3
    BY <1>5, <2>2 DEF XmmRm
  <2> QED BY <2>1, <2>2
<1>8. NoOperand.reg = 0
  BY DEF NoOperand
<1>9. CASE r \in {"reg8", "reg"}
  BY <1>4, <1>9 DEF Role
<1>10. CASE r \in {"rm8", "rm"}
  BY <1>5, <1>10 DEF Role
<1>11. CASE r \in {"xmm", "xmm/m"}
  BY <1>6, <1>7, <1>11 DEF Role
<1>12. CASE r = "xmm!"
  <2>1. Role(px, opc, m, r).reg = Extended(px.b, m.rm)
    BY <1>3, <1>12 DEF Role
  <2> QED BY <1>2, <2>1
<1>13. CASE r = "opreg"
  <2>1. Role(px, opc, m, r).reg = Extended(px.b, opc % 8)
    BY <1>3, <1>13 DEF Role
  <2> QED BY <1>2, <2>1
<1>14. CASE r = "vvvv"
  <2>1. Role(px, opc, m, r).reg = px.vvvv
    BY <1>3, <1>14 DEF Role
  <2> QED BY <2>1
<1>15. CASE r = "acc"
  BY <1>3, <1>15 DEF Role
<1>16. CASE r = "cl"
  BY <1>3, <1>16 DEF Role
<1>17. CASE r = "imm"
  BY <1>3, <1>17 DEF Role
<1>19. CASE r = "rel"
  BY <1>3, <1>19 DEF Role
<1>18. CASE r \notin {"reg8", "reg", "rm8", "rm", "xmm", "xmm/m", "xmm!", "opreg", "vvvv",
                     "acc", "cl", "imm", "rel"}
  <2>1. Role(px, opc, m, r) = NoOperand
    BY <1>18 DEF Role
  <2> QED BY <1>8, <2>1
<1> QED BY <1>9, <1>10, <1>11, <1>12, <1>13, <1>14, <1>15, <1>16, <1>17, <1>18, <1>19

LEMMA SourceIs ==
  ASSUME NEW s \in Seq(Byte)
  PROVE  LET d == DecodeWithSource(s) IN
         /\ d.status \in {"Ok", "TruncatedInstruction", "UnsupportedOpcode", "InvalidInstruction"}
         /\ d.status = "Ok" => d.len \in 1 .. Len(s)
         /\ d.status # "Ok" => d = Failed(d.status)
         /\ d.dst.reg \in 0 .. 31 /\ d.src.reg \in 0 .. 31
<1> DEFINE px == ScanPrefixes(s)
           f == FormatOf(px, s)
           h == OpcodeEnd(px, s)
           D == DecodeFormat(px, s[h], ModRmOf(px, s), f, LengthOf(px, s))
           Known4 == {"Ok", "TruncatedInstruction", "UnsupportedOpcode", "InvalidInstruction"}
           Fine(d) == /\ d.status \in Known4
                      /\ d.status # "Ok" => d = Failed(d.status)
                      /\ d.dst.reg \in 0 .. 31 /\ d.src.reg \in 0 .. 31
<1>1. \A why \in Known4 \ {"Ok"} : Fine(Failed(why))
  BY DEF Failed, NoOperand
<1>2. Fine(Truncated)
  BY <1>1 DEF Truncated
<1>3. DecodeWithSource(s).status = "Ok" => DecodeWithSource(s).len \in 1 .. Len(s)
  <2> SUFFICES ASSUME DecodeWithSource(s).status = "Ok" PROVE DecodeWithSource(s).len \in 1 .. Len(s)
    OBVIOUS
  <2>1. /\ h \in 1 .. Len(s) /\ DecodeWithSource(s).len = LengthOf(px, s)
        /\ LengthOf(px, s) \in h .. Len(s)
    BY SourceOk
  <2> HIDE DEF px, h
  <2> QED BY <2>1
<1> HIDE DEF Fine
<1>4. Fine(DecodeWithSource(s))
  <2>1. CASE ScanTruncated(s)
    BY <1>2, <2>1 DEF DecodeWithSource
  <2>2. CASE ~ScanTruncated(s) /\ px.vex # "no" /\ ~VexMapKnown(px)
    BY <1>1, <2>2 DEF DecodeWithSource
  <2>3. CASE ~ScanTruncated(s) /\ ~(px.vex # "no" /\ ~VexMapKnown(px))
    <3>1. DecodeWithSource(s) = DecodeOpcode(px, s)
      BY <2>3 DEF DecodeWithSource
    <3>2. Known(px)
      BY <2>3, KnownIs
    <3> HIDE DEF px
    <3>3. CASE Len(s) < h
      BY <1>2, <3>1, <3>3, DecodeOpcodeIs
    <3>4. CASE ~(Len(s) < h)
      <4>1. h <= Len(s)
        BY <3>2, <3>4, OpcodeMapIs DEF OpcodeEnd, Known
      <4>2. /\ s[h] \in Byte /\ ModRmOf(px, s) \in ModRm
            /\ Right(f, px, OpcodeMap(px, s).map, s[h], ModRmOf(px, s))
        BY <3>2, <4>1, FormatOfIs
      <4>3. f.pre \in Verdicts /\ f.post \in Verdicts
        <5> HIDE DEF f, h
        <5> QED BY <4>2 DEF Right
      <4>4. \A r : Role(px, s[h], ModRmOf(px, s), r).reg \in 0 .. 31
        BY <3>2, <4>2, RoleIs DEF Known
      <4>5. Fine(D)
        BY <4>4 DEF DecodeFormat, Fine
      <4>6. f.pre # "Ok" => Fine(Failed(f.pre))
        BY <1>1, <4>3 DEF Verdicts
      <4>7. f.post # "Ok" => Fine(Failed(f.post))
        BY <1>1, <4>3 DEF Verdicts
      <4> HIDE DEF D
      <4>8. \/ DecodeOpcode(px, s) \in {Truncated, D}
            \/ f.pre # "Ok" /\ DecodeOpcode(px, s) = Failed(f.pre)
            \/ f.post # "Ok" /\ DecodeOpcode(px, s) = Failed(f.post)
        <5>1. DecodeOpcode(px, s) =
                IF Len(s) < h THEN Truncated
                ELSE IF f.modrm /\ Len(s) = h THEN Truncated
                ELSE IF f.pre # "Ok" THEN Failed(f.pre)
                ELSE IF RunsOff(s, LengthOf(px, s)) THEN Truncated
                ELSE IF f.post # "Ok" THEN Failed(f.post)
                ELSE D
          BY DecodeOpcodeIs DEF D
        <5> HIDE DEF f, h
        <5> QED BY <3>4, <5>1
      <4> QED BY <1>2, <3>1, <4>5, <4>6, <4>7, <4>8
    <3> QED BY <3>3, <3>4
  <2> QED BY <2>1, <2>2, <2>3
<1> QED BY <1>3, <1>4 DEF Fine

-----------------------------------------------------------------------------
(* The length of an instruction *)

LEMMA OperandBytesAre ==
  ASSUME NEW m \in ModRm, NEW s \in Seq(Byte), NEW k \in Nat,
         m.mod # 3 /\ HasSib(m) => k < Len(s)
  PROVE  OperandBytes(m, s, k) =
           (IF m.mod # 3 /\ m.rm = 4 THEN 1 ELSE 0)
             + (IF \/ m.mod = 2
                   \/ m.mod = 0 /\ (m.rm = 5 \/ (m.mod # 3 /\ m.rm = 4 /\ s[k + 1] % 8 = 5)) THEN 4
                ELSE IF m.mod = 1 THEN 1 ELSE 0)
<1>0. m.mod \in 0 .. 3 /\ m.rm \in 0 .. 7
  BY DEF ModRm
<1>1. CASE m.mod # 3 /\ m.rm = 4
  <2>1. k + 1 \in 1 .. Len(s) /\ Len(s) > k
    BY <1>1 DEF HasSib
  <2>2. PICK b \in Byte : b = s[k + 1]
    BY <2>1
  <2>3. Bits(b, 0, 3) = b % 8
    BY BitsAre
  <2>4. DispBytes(m, b) = IF m.mod = 2 \/ (m.mod = 0 /\ b % 8 = 5) THEN 4
                          ELSE IF m.mod = 1 THEN 1 ELSE 0
    BY <1>0, <1>1, <2>3 DEF DispBytes, HasSib
  <2>5. OperandBytes(m, s, k) = 1 + DispBytes(m, b)
    BY <1>1, <2>1, <2>2 DEF OperandBytes, HasSib
  <2> QED BY <1>0, <1>1, <2>2, <2>4, <2>5
<1>2. CASE m.mod # 3 /\ m.rm # 4
  <2>1. OperandBytes(m, s, k) = DispBytes(m, 0)
    BY <1>2 DEF OperandBytes, HasSib
  <2>2. DispBytes(m, 0) = IF m.mod = 2 \/ (m.mod = 0 /\ m.rm = 5) THEN 4
                          ELSE IF m.mod = 1 THEN 1 ELSE 0
    BY <1>0, <1>2 DEF DispBytes, HasSib
  <2> QED BY <1>0, <1>2, <2>1, <2>2
<1>3. CASE m.mod = 3
  BY <1>3 DEF OperandBytes
<1> QED BY <1>1, <1>2, <1>3

LEMMA ModRmOfIs ==
  ASSUME NEW px, NEW s \in Seq(Byte), OpcodeEnd(px, s) \in 1 .. Len(s)
  PROVE  Len(s) > OpcodeEnd(px, s) =>
           /\ s[OpcodeEnd(px, s) + 1] \in Byte
           /\ (ModRmOf(px, s).mod # 3) <=> (s[OpcodeEnd(px, s) + 1] < \hC0)
<1> DEFINE h == OpcodeEnd(px, s)
<1> SUFFICES ASSUME Len(s) > h
             PROVE  /\ s[h + 1] \in Byte
                    /\ (ModRmOf(px, s).mod # 3) <=> (s[h + 1] < \hC0)
  OBVIOUS
<1>1. ModRmOf(px, s) = SplitModRm(s[h + 1])
  BY DEF ModRmOf
<1>2. h \in 1 .. Len(s) /\ h < Len(s)
  OBVIOUS
<1> HIDE DEF h
<1>3. s[h + 1] \in Byte
  BY <1>2
<1> QED BY <1>1, <1>3, SplitModRmIs DEF h

LEMMA LengthIsIsa ==
  ASSUME NEW s \in Seq(Byte), DecodeWithSource(s).status = "Ok"
  PROVE  LET px == ScanPrefixes(s) IN Departs(px, s) \/ DecodeWithSource(s).len = IsaLength(px, s)
<1> DEFINE px == ScanPrefixes(s)
           h == OpcodeEnd(px, s)
           f == FormatOf(px, s)
           m == ModRmOf(px, s)
           map == OpcodeMap(px, s).map
<1> SUFFICES Departs(px, s) \/ DecodeWithSource(s).len = IsaLength(px, s)
  OBVIOUS
<1>1. /\ Known(px) /\ DecodeWithSource(s).len = LengthOf(px, s)
      /\ h \in 1 .. Len(s) /\ LengthOf(px, s) \in h .. Len(s)
      /\ f.pre = "Ok" /\ f.post = "Ok" /\ (f.modrm = TRUE => Len(s) > h)
  BY SourceOk
<1> HIDE DEF px
<1>2. h <= Len(s)
  <2> HIDE DEF h
  <2> QED BY <1>1
<1>3. m \in ModRm /\ Right(f, px, map, s[h], m)
  BY <1>1, <1>2, FormatOfIs
<1>4. f.modrm = TRUE => s[h + 1] \in Byte /\ ((m.mod # 3) <=> (s[h + 1] < \hC0))
  BY <1>1, ModRmOfIs
<1>5. /\ (f.modrm = TRUE) <=> IsaModRm(map, s[h])
      /\ Odd(px, map, s[h], m) \/ f.imm = IsaImmediate(px, map, s[h], m)
      /\ f.modrm = TRUE => Odd(px, map, s[h], m) \/ f.rm = TRUE \/ m.mod = 3
      /\ f.modrm \in BOOLEAN /\ f.imm \in Nat
  <2> HIDE DEF f, h, m, map
  <2> QED BY <1>1, <1>3 DEF Right
<1>6. CASE Odd(px, map, s[h], m)
  <2>1. Departs(px, s) <=>
          \/ map = 0 /\ s[h] = \h68 /\ px.p66 /\ ~px.w
          \/ map = 1 /\ s[h] \in {\h50, \hD7} /\ px.vex = "no" /\ s[h + 1] < \hC0
    BY DEF Departs, OpcodeEnd
  <2> HIDE DEF h, m, map, f
  <2>2. ASSUME map = 0 /\ s[h] = \h68 /\ px.p66 /\ ~px.w PROVE Departs(px, s)
    BY <2>1, <2>2
  <2>3. ASSUME map = 1 /\ s[h] \in {\h50, \hD7} /\ px.vex = "no" /\ m.mod # 3
        PROVE  Departs(px, s)
    <3>1. IsaModRm(1, \h50) /\ IsaModRm(1, \hD7)
      BY DEF IsaModRm
    <3>2. IsaModRm(map, s[h])
      BY <2>3, <3>1
    <3> QED BY <1>4, <1>5, <2>1, <2>3, <3>2
  <2>4. Departs(px, s)
    BY <1>6, <2>2, <2>3 DEF Odd
  <2> QED BY <2>4
<1>7. CASE ~Odd(px, map, s[h], m)
  <2> DEFINE sib == IF m.mod # 3 /\ m.rm = 4 THEN 1 ELSE 0
             noBase == m.rm = 5 \/ (sib = 1 /\ s[h + 2] % 8 = 5)
             disp == IF m.mod = 2 \/ (m.mod = 0 /\ noBase) THEN 4
                     ELSE IF m.mod = 1 THEN 1 ELSE 0
  <2>1. IsaLength(px, s) = h + IsaImmediate(px, map, s[h], m)
                             + IF IsaModRm(map, s[h]) THEN 1 + sib + disp ELSE 0
    BY DEF IsaLength, OpcodeEnd, ModRmOf
  <2>2. sib \in 0 .. 1 /\ disp \in {0, 1, 4}
    OBVIOUS
  <2>3. f.imm = IsaImmediate(px, map, s[h], m)
    BY <1>5, <1>7
  <2>4. CASE f.modrm = TRUE
    <3>1. m.mod # 3 /\ HasSib(m) => f.rm = TRUE /\ LengthOf(px, s) > h + 1
      <4>1. m.mod # 3 => f.rm = TRUE
        BY <1>5, <1>7, <2>4
      <4> QED BY <1>1, <1>2, <2>4, <4>1, LengthOfIs
    <3>2. m.mod # 3 /\ HasSib(m) => h + 1 < Len(s)
      <4> HIDE DEF h
      <4> QED BY <1>1, <3>1
    <3>3. h + 1 \in Nat
      <4> HIDE DEF h
      <4> QED BY <1>1
    <3>4. OperandBytes(m, s, h + 1) = sib + disp
      <4>1. PICK k \in Nat : k = h + 1
        BY <3>3
      <4>2. OperandBytes(m, s, k) =
              (IF m.mod # 3 /\ m.rm = 4 THEN 1 ELSE 0)
             + (IF \/ m.mod = 2
                   \/ m.mod = 0 /\ (m.rm = 5 \/ (m.mod # 3 /\ m.rm = 4 /\ s[k + 1] % 8 = 5)) THEN 4
                ELSE IF m.mod = 1 THEN 1 ELSE 0)
        BY <1>3, <3>2, <4>1, OperandBytesAre
      <4>3. k + 1 = h + 2
        <5> HIDE DEF h
        <5> QED BY <1>1, <4>1
      <4> HIDE DEF h, m
      <4> QED BY <4>1, <4>2, <4>3
    <3>5. f.rm # TRUE => sib + disp = 0
      <4>1. f.rm # TRUE => m.mod = 3
        BY <1>5, <1>7, <2>4
      <4> QED BY <4>1
    <3>6. LengthOf(px, s) = h + 1 + f.imm + (IF f.rm THEN sib + disp ELSE 0)
      BY <2>4, <3>4 DEF LengthOf
    <3> HIDE DEF h, m, f, map, sib, disp
    <3>7. (IF f.rm THEN sib + disp ELSE 0) = sib + disp
      BY <3>5
    <3>8. IsaLength(px, s) = h + f.imm + (1 + sib + disp)
      BY <1>5, <2>1, <2>3, <2>4
    <3>9. PICK a \in Nat, b \in Nat, c \in Nat, d \in Nat :
             a = h /\ b = f.imm /\ c = sib /\ d = disp
      <4>1. h \in Nat
        BY <1>1
      <4>2. sib \in Nat /\ disp \in Nat
        BY <2>2
      <4> QED BY <1>5, <4>1, <4>2
    <3>10. LengthOf(px, s) = a + 1 + b + (c + d) /\ IsaLength(px, s) = a + b + (1 + c + d)
      BY <3>6, <3>7, <3>8, <3>9
    <3>11. LengthOf(px, s) = IsaLength(px, s)
      BY <3>10
    <3> QED BY <1>1, <3>11
  <2>5. CASE f.modrm # TRUE
    <3>1. f.modrm = FALSE
      BY <1>5, <2>5
    <3>2. LengthOf(px, s) = h + f.imm
      BY <3>1 DEF LengthOf
    <3> HIDE DEF h, m, f, map, sib, disp
    <3>3. IsaLength(px, s) = h + f.imm + 0
      BY <1>5, <2>1, <2>3, <2>5
    <3> QED BY <1>1, <1>5, <3>2, <3>3
  <2> QED BY <2>4, <2>5
<1> QED BY <1>6, <1>7

-----------------------------------------------------------------------------
(* The specification *)

\* What is readable is bytes, and insn is what they decode to.
DInv == bytes \in Seq(Byte) /\ insn = DecodeOne(bytes)

LEMMA Division ==
  ASSUME NEW a \in Nat, NEW b \in Nat \ {0}
  PROVE  a = b * (a \div b) + (a % b) /\ a \div b \in Nat /\ a % b \in 0 .. b - 1
OBVIOUS

LEMMA Remainder ==
  ASSUME NEW a \in Nat, NEW b \in Nat \ {0}, NEW q \in Nat, NEW r \in 0 .. b - 1,
         a = b * q + r
  PROVE  a % b = r
OBVIOUS

LEMMA AroundIs == Around \in Nat \ {0}
BY DEF Around

LEMMA AroundRemainder ==
  ASSUME NEW n \in Nat
  PROVE  n % Around \in 0 .. Around - 1 /\ (n < Around => n % Around = n)
<1>1. Around \in Nat \ {0}
  BY AroundIs
<1>2. n % Around \in 0 .. Around - 1
  BY <1>1, Division
<1>3. ASSUME n < Around PROVE n % Around = n
  <2>1. n \in 0 .. Around - 1 /\ n = Around * 0 + n /\ 0 \in Nat
    BY <1>1, <1>3
  <2> QED BY <1>1, <2>1, Remainder
<1> QED BY <1>2, <1>3

\* What a source over guest memory delivers.
LEMMA FetchedIs ==
  ASSUME NEW s \in Seq(Byte)
  PROVE  /\ Fetched(s) \in Seq(Byte) /\ Len(Fetched(s)) \in Nat
         /\ Len(s) < Around => Fetched(s) = s
         /\ Len(s) >= Around =>
              /\ Len(Fetched(s)) = Around + Around
              /\ \A i \in 1 .. Around : Fetched(s)[i] = s[i]
<1>0. Len(s) \in Nat /\ Around \in Nat
  BY AroundIs
<1>1. CASE Len(s) < Around
  BY <1>0, <1>1 DEF Fetched
<1>2. CASE ~(Len(s) < Around)
  <2> DEFINE from(i) == IF i <= Around THEN i ELSE i - Around
             f == [i \in 1 .. Around + Around |-> s[from(i)]]
  <2>1. Fetched(s) = f
    BY <1>2, Zenon DEF Fetched
  <2>2. ASSUME NEW i \in 1 .. Around + Around PROVE from(i) \in 1 .. Len(s)
    BY <1>0, <1>2
  <2>3. ASSUME NEW i \in 1 .. Around PROVE i \in 1 .. Around + Around /\ from(i) = i
    BY <1>0
  <2> HIDE DEF from
  <2>4. f \in [1 .. Around + Around -> Byte]
    BY <2>2
  <2>5. \A i \in 1 .. Around : f[i] = s[i]
    BY <2>3
  <2> HIDE DEF f
  <2>6. Around + Around \in Nat
    BY <1>0
  <2>7. f \in Seq(Byte) /\ Len(f) = Around + Around
    BY <2>4, <2>6
  <2> QED BY <1>0, <1>2, <2>1, <2>5, <2>6, <2>7
<1> QED BY <1>0, <1>1, <1>2

LEMMA FetchedSame ==
  ASSUME NEW s, NEW t, Begins(s, t)
  PROVE  Begins(Fetched(s), Fetched(t))
<1>0. /\ s \in Seq(Byte) /\ t \in Seq(Byte) /\ Len(s) \in Nat /\ Len(t) \in Nat
      /\ Len(s) <= Len(t) /\ \A i \in 1 .. Len(s) : s[i] = t[i]
      /\ Around \in Nat
  BY AroundIs DEF Begins
<1>1. Fetched(s) \in Seq(Byte) /\ Fetched(t) \in Seq(Byte)
  BY <1>0, FetchedIs
<1>2. CASE Len(t) < Around
  <2>1. Len(s) < Around
    BY <1>0, <1>2
  <2>2. Fetched(s) = s /\ Fetched(t) = t
    BY <1>0, <1>2, <2>1, FetchedIs
  <2> QED BY <2>2
<1>3. CASE Len(s) < Around /\ ~(Len(t) < Around)
  <2>1. Fetched(s) = s /\ Len(Fetched(t)) = Around + Around
    BY <1>0, <1>3, FetchedIs
  <2>2. \A i \in 1 .. Around : Fetched(t)[i] = t[i]
    BY <1>0, <1>3, FetchedIs
  <2>3. \A i \in 1 .. Len(s) : Fetched(t)[i] = s[i]
    BY <1>0, <1>3, <2>2
  <2>4. Len(Fetched(s)) <= Len(Fetched(t))
    BY <1>0, <1>3, <2>1
  <2> QED BY <1>1, <2>1, <2>3, <2>4 DEF Begins
<1>4. CASE ~(Len(s) < Around)
  <2> DEFINE from(i) == IF i <= Around THEN i ELSE i - Around
  <2>1. ASSUME NEW i \in 1 .. Around + Around PROVE from(i) \in 1 .. Len(s)
    BY <1>0, <1>4
  <2> HIDE DEF from
  <2>2. [i \in 1 .. Around + Around |-> s[from(i)]] = [i \in 1 .. Around + Around |-> t[from(i)]]
    BY <1>0, <2>1
  <2>3. Fetched(s) = Fetched(t)
    <3>1. ~(Len(t) < Around)
      BY <1>0, <1>4
    <3> QED BY <1>4, <2>2, <3>1, Zenon DEF Fetched, from
  <2> QED BY <1>1, <2>3 DEF Begins
<1> QED BY <1>0, <1>2, <1>3, <1>4

\* Legacy prefixes and nothing behind them.
LEMMA RunIsTruncated ==
  ASSUME NEW s \in Seq(Byte), \A i \in 1 .. Len(s) : s[i] \in Legacy
  PROVE  DecodeWithSource(s) = Truncated
<1>1. StopsAt(s, Len(s))
  BY DEF StopsAt
<1>2. LegacyCount(s) = Len(s)
  BY <1>1, LegacyCountOnly
<1> QED BY <1>2 DEF ScanTruncated, DecodeWithSource

\* A verdict is a record, and the length is one of its fields.
LEMMA VerdictIs ==
  ASSUME NEW s, NEW k
  PROVE  LET d == DecodeWithSource(s)
             e == [d EXCEPT !.len = k]
         IN  /\ e.len = k /\ e.status = d.status /\ e.kind = d.kind /\ e.flags = d.flags
             /\ e.dst = d.dst /\ e.src = d.src
             /\ k = d.len => e = d
<1> DEFINE Shape(d) == d = [status |-> d.status, len |-> d.len, kind |-> d.kind,
                            size |-> d.size, flags |-> d.flags, dst |-> d.dst, src |-> d.src]
<1>1. \A why : Shape(Failed(why))
  BY DEF Failed
<1>2. \A px, opc, m, f, n : Shape(DecodeFormat(px, opc, m, f, n))
  BY DEF DecodeFormat
<1> HIDE DEF Shape
<1>3. Shape(Truncated)
  BY <1>1 DEF Truncated
<1>4. \A px : Shape(DecodeOpcode(px, s))
  <2> SUFFICES ASSUME NEW px PROVE Shape(DecodeOpcode(px, s))
    OBVIOUS
  <2>1. DecodeOpcode(px, s) =
          IF Len(s) < OpcodeEnd(px, s) THEN Truncated
          ELSE IF FormatOf(px, s).modrm /\ Len(s) = OpcodeEnd(px, s) THEN Truncated
          ELSE IF FormatOf(px, s).pre # "Ok" THEN Failed(FormatOf(px, s).pre)
          ELSE IF RunsOff(s, LengthOf(px, s)) THEN Truncated
          ELSE IF FormatOf(px, s).post # "Ok" THEN Failed(FormatOf(px, s).post)
          ELSE DecodeFormat(px, s[OpcodeEnd(px, s)], ModRmOf(px, s), FormatOf(px, s),
                            LengthOf(px, s))
    BY DecodeOpcodeIs
  <2> QED BY <1>1, <1>2, <1>3, <2>1
<1>5. Shape(DecodeWithSource(s))
  BY <1>1, <1>3, <1>4, Zenon DEF DecodeWithSource
<1> QED BY <1>5 DEF Shape

\* decode_one over a source that goes round.
LEMMA DecodeOneIs ==
  ASSUME NEW s \in Seq(Byte), NEW d, d = DecodeWithSource(Fetched(s))
  PROVE  /\ Endless(s) => DecodeOne(s) = Failed("Endless")
         /\ ~Endless(s) =>
              /\ DecodeOne(s).len = d.len % Around
              /\ DecodeOne(s).status = d.status /\ DecodeOne(s).kind = d.kind
              /\ DecodeOne(s).flags = d.flags
              /\ DecodeOne(s).dst = d.dst /\ DecodeOne(s).src = d.src
              /\ d.len \in 0 .. Around - 1 => DecodeOne(s) = d
<1>1. Endless(s) => DecodeOne(s) = Failed("Endless")
  BY DEF DecodeOne
<1>2. ASSUME ~Endless(s) PROVE DecodeOne(s) = [d EXCEPT !.len = d.len % Around]
  <2> DEFINE k == d.len % Around
  <2>1. [d EXCEPT !.len = @ % Around] = [d EXCEPT !.len = k]
    OBVIOUS
  <2> QED BY <1>2, <2>1 DEF DecodeOne
<1>3. ASSUME d.len \in 0 .. Around - 1 PROVE d.len % Around = d.len
  <2>1. d.len \in Nat /\ d.len < Around
    BY <1>3, AroundIs
  <2> QED BY <2>1, AroundRemainder
<1>4. PICK k : k = d.len % Around
  OBVIOUS
<1>5. PICK e : e = [d EXCEPT !.len = k]
  OBVIOUS
<1>6. /\ e.len = k /\ e.status = d.status /\ e.kind = d.kind /\ e.flags = d.flags
      /\ e.dst = d.dst /\ e.src = d.src /\ (k = d.len => e = d)
  BY <1>5, VerdictIs
<1>7. ~Endless(s) => DecodeOne(s) = e
  BY <1>2, <1>4, <1>5
<1> QED BY <1>1, <1>3, <1>4, <1>6, <1>7, Zenon

LEMMA AcceptedIs ==
  ASSUME NEW s \in Seq(Byte), DecodeOne(s).status = "Ok"
  PROVE  LET d == DecodeWithSource(Fetched(s)) IN
         /\ ~Endless(s) /\ d.status = "Ok" /\ DecodeOne(s).len = d.len % Around
         /\ d.len \in 1 .. Len(Fetched(s))
         /\ DecodeOne(s).kind = d.kind /\ DecodeOne(s).flags = d.flags
<1>1. ~Endless(s)
  BY DecodeOneIs DEF Failed
<1> QED BY <1>1, FetchedIs, DecodeOneIs, SourceIs

\* Bytes behind those that decide the verdict do not change it.
LEMMA DecodeOneSame ==
  ASSUME NEW s, NEW t, Begins(s, t), DecodeOne(s).status # "TruncatedInstruction"
  PROVE  DecodeOne(t) = DecodeOne(s)
<1>0. /\ s \in Seq(Byte) /\ t \in Seq(Byte) /\ Len(s) \in Nat /\ Len(t) \in Nat
      /\ Len(s) <= Len(t) /\ \A i \in 1 .. Len(s) : s[i] = t[i]
      /\ Around \in Nat \ {0}
  BY AroundIs DEF Begins
<1>1. CASE Endless(s)
  <2>1. Endless(t)
    BY <1>0, <1>1 DEF Endless
  <2> QED BY <1>0, <1>1, <2>1, DecodeOneIs
<1>2. CASE ~Endless(s)
  <2>1. DecodeWithSource(Fetched(s)).status # "TruncatedInstruction"
    BY <1>0, <1>2, DecodeOneIs
  <2>2. DecodeWithSource(Fetched(s)) = DecodeWithSource(Fetched(t))
    BY <2>1, FetchedSame, SourceSame
  <2>3. ASSUME Endless(t) PROVE FALSE
    <3>1. CASE Len(s) >= Around
      BY <1>0, <1>2, <2>3, <3>1 DEF Endless
    <3>2. CASE Len(s) < Around
      <4>1. \A i \in 1 .. Len(s) : s[i] \in Legacy
        BY <1>0, <2>3, <3>2 DEF Endless
      <4>2. DecodeWithSource(Fetched(s)) = Truncated
        BY <1>0, <3>2, <4>1, RunIsTruncated, FetchedIs
      <4> QED BY <2>1, <4>2 DEF Truncated, Failed
    <3> QED BY <1>0, <3>1, <3>2
  <2> QED BY <1>2, <2>2, <2>3, Zenon DEF DecodeOne
<1> QED BY <1>1, <1>2

LEMMA NothingIsTruncated == DecodeOne(<<>>) = Truncated
<1> DEFINE e == <<>>
<1>1. e \in Seq(Byte) /\ Len(e) = 0
  OBVIOUS
<1> HIDE DEF e
<1>2. ~Endless(e) /\ Fetched(e) = e
  <2>1. Len(e) < Around /\ ~(Len(e) >= Around)
    BY <1>1, AroundIs
  <2> QED BY <1>1, <2>1, Zenon DEF Endless, Fetched
<1>3. DecodeWithSource(e) = Truncated
  <2>1. \A i \in 1 .. Len(e) : e[i] \in Legacy
    BY <1>1
  <2> QED BY <1>1, <2>1, RunIsTruncated
<1>4. Truncated.len = 0
  BY DEF Truncated, Failed
<1>5. 0 \in 0 .. Around - 1
  BY AroundIs
<1>6. DecodeOne(e) = Truncated
  BY <1>1, <1>2, <1>3, <1>4, <1>5, DecodeOneIs
<1> QED BY <1>6 DEF e

LEMMA DInvInit == MCInit => DInv
BY NothingIsTruncated DEF MCInit, GuestInit, Init, DInv

\* What a step does to the decoder: nothing, one more byte, or a fresh start.
LEMMA StepIs ==
  ASSUME [MCNext]_<<guestVars, foldVars>>
  PROVE  \/ UNCHANGED <<bytes, insn>>
         \/ \E b \in Follow(bytes) : bytes' = Append(bytes, b) /\ insn' = DecodeOne(bytes')
         \/ bytes' = <<>> /\ insn' = Truncated
<1>1. CASE UNCHANGED <<guestVars, foldVars>>
  BY <1>1 DEF guestVars, decoderVars
<1>2. CASE GuestNext
  <2>1. CASE Decode
    BY <2>1 DEF Decode, Next, Readable
  <2>2. CASE \E base \in {RSP, RSI} : Enter(base)
    BY <2>2 DEF Enter
  <2>3. CASE \E g \in Arrivals(op.kind) : Arrive(g)
    BY <2>3 DEF Arrive, decoderVars
  <2>4. CASE Execute
    BY <2>4 DEF Execute, decoderVars
  <2>5. CASE Recover
    BY <2>5 DEF Recover, decoderVars
  <2> QED BY <1>2, <2>1, <2>2, <2>3, <2>4, <2>5 DEF GuestNext
<1>3. CASE UNCHANGED guestVars
  BY <1>3 DEF guestVars, decoderVars
<1> QED BY <1>1, <1>2, <1>3 DEF MCNext

LEMMA DInvStep ==
  ASSUME \A s \in Seq(Byte) : Follow(s) \subseteq Byte,
         DInv, [MCNext]_<<guestVars, foldVars>>
  PROVE  DInv'
<1>1. bytes \in Seq(Byte) /\ insn = DecodeOne(bytes)
  BY DEF DInv
<1>2. CASE UNCHANGED <<bytes, insn>>
  BY <1>1, <1>2 DEF DInv
<1>3. CASE \E b \in Follow(bytes) : bytes' = Append(bytes, b) /\ insn' = DecodeOne(bytes')
  <2>1. PICK b \in Follow(bytes) : bytes' = Append(bytes, b) /\ insn' = DecodeOne(bytes')
    BY <1>3
  <2>2. b \in Byte
    BY <1>1
  <2>3. bytes' \in Seq(Byte)
    BY <1>1, <2>1, <2>2
  <2> QED BY <2>1, <2>3 DEF DInv
<1>4. CASE bytes' = <<>> /\ insn' = Truncated
  BY <1>4, NothingIsTruncated DEF DInv
<1> QED BY <1>2, <1>3, <1>4, StepIs

LEMMA DInvHolds ==
  ASSUME \A s \in Seq(Byte) : Follow(s) \subseteq Byte
  PROVE  MCSpec => []DInv
<1>1. MCInit => DInv
  BY DInvInit
<1>2. DInv /\ [MCNext]_<<guestVars, foldVars>> => DInv'
  BY DInvStep
<1> QED BY <1>1, <1>2, PTL DEF MCSpec

\* Whatever bytes become readable, and however many: the decoder accepts or
\* rejects them, asks for more, or goes round a run of prefixes; what it
\* accepts has a length within them, which is 0 only when 256 could be read;
\* and the operands name registers there are.
THEOREM TypeOKHolds ==
  ASSUME \A s \in Seq(Byte) : Follow(s) \subseteq Byte
  PROVE  MCSpec => []TypeOK
<1>1. DInv => TypeOK
  <2> SUFFICES ASSUME DInv PROVE TypeOK
    OBVIOUS
  <2>1. bytes \in Seq(Byte) /\ insn = DecodeOne(bytes)
    BY DEF DInv
  <2>2. /\ Len(bytes) \in Nat /\ \A i \in 1 .. Len(bytes) : bytes[i] \in Byte
        /\ Around \in Nat \ {0}
    BY <2>1, AroundIs
  <2>3. CASE Endless(bytes)
    <3>1. insn = Failed("Endless") /\ Len(bytes) >= Around
      BY <2>1, <2>3, DecodeOneIs DEF Endless
    <3> QED BY <2>2, <3>1 DEF TypeOK, Failed, NoOperand
  <2>4. CASE ~Endless(bytes)
    <3>1. PICK d : d = DecodeWithSource(Fetched(bytes))
      OBVIOUS
    <3>2. /\ d.status \in {"Ok", "TruncatedInstruction", "UnsupportedOpcode",
                           "InvalidInstruction"}
          /\ d.status = "Ok" => d.len \in 1 .. Len(Fetched(bytes))
          /\ d.status # "Ok" => d = Failed(d.status)
          /\ d.dst.reg \in 0 .. 31 /\ d.src.reg \in 0 .. 31
      BY <2>1, <3>1, FetchedIs, SourceIs
    <3>3. /\ insn.status = d.status /\ insn.len = d.len % Around
          /\ insn.dst = d.dst /\ insn.src = d.src
      BY <2>1, <2>4, <3>1, DecodeOneIs
    <3>4. d.status # "Ok" => d.len = 0
      BY <3>2 DEF Failed
    <3>5. d.len \in Nat /\ (d.status = "Ok" => d.len >= 1)
      BY <2>1, <3>2, <3>4, FetchedIs
    <3>6. Len(bytes) < Around /\ d.status = "Ok" => d.len \in 1 .. Len(bytes)
      BY <2>1, <3>2, FetchedIs
    <3>7. insn.len \in 0 .. Around - 1
      BY <2>2, <3>3, <3>5, AroundRemainder
    <3>8. d.len < Around => insn.len = d.len
      BY <2>2, <3>3, <3>5, AroundRemainder
    <3>9. insn.len \in 0 .. Len(bytes)
      <4>1. CASE Len(bytes) < Around
        BY <2>2, <3>4, <3>6, <3>8, <4>1
      <4>2. CASE Len(bytes) >= Around
        BY <2>2, <3>7, <4>2
      <4> QED BY <2>2, <4>1, <4>2
    <3>10. insn.len > 0 => insn.status = "Ok" /\ insn.len < Around
      BY <2>2, <3>3, <3>4, <3>7, <3>8
    <3>11. insn.status = "Ok" /\ Len(bytes) < Around => insn.len > 0
      BY <2>2, <3>3, <3>6, <3>8
    <3> QED BY <2>2, <3>2, <3>3, <3>9, <3>10, <3>11 DEF TypeOK
  <2> QED BY <2>3, <2>4
<1> QED BY <1>1, DInvHolds, PTL

\* An instruction the decoder accepts has the length the opcode maps of the
\* architecture give it, for every opcode, prefix and addressing form and
\* however many prefixes: its low byte, which is all of it below 256.  But
\* where Departs says how the decoder departs from them.
THEOREM LengthIsArchitecturalHolds ==
  ASSUME \A s \in Seq(Byte) : Follow(s) \subseteq Byte
  PROVE  MCSpec => []LengthIsArchitectural
<1>1. DInv => LengthIsArchitectural
  <2> SUFFICES ASSUME DInv, insn.status = "Ok" PROVE LengthIsArchitectural
    BY DEF LengthIsArchitectural
  <2>1. bytes \in Seq(Byte) /\ insn = DecodeOne(bytes)
    BY DEF DInv
  <2>2. PICK s \in Seq(Byte) : s = Fetched(bytes)
    BY <2>1, FetchedIs
  <2>3. DecodeWithSource(s).status = "Ok" /\ insn.len = DecodeWithSource(s).len % Around
    BY <2>1, <2>2, AcceptedIs
  <2>4. Departs(ScanPrefixes(s), s) \/ DecodeWithSource(s).len = IsaLength(ScanPrefixes(s), s)
    BY <2>3, LengthIsIsa
  <2> QED BY <2>2, <2>3, <2>4 DEF LengthIsArchitectural
<1> QED BY <1>1, DInvHolds, PTL

\* Once the decoder has accepted or rejected some bytes, no byte that becomes
\* readable behind them changes what it says.
THEOREM OwnBytesOnlyHolds ==
  ASSUME \A s \in Seq(Byte) : Follow(s) \subseteq Byte
  PROVE  MCSpec => OwnBytesOnly
<1>1. DInv /\ [MCNext]_<<guestVars, foldVars>> =>
        [insn.status # "TruncatedInstruction" /\ Len(bytes') > Len(bytes) => insn' = insn]_decoderVars
  <2> SUFFICES ASSUME DInv, [MCNext]_<<guestVars, foldVars>>,
                      insn.status # "TruncatedInstruction", Len(bytes') > Len(bytes)
               PROVE  insn' = insn
    OBVIOUS
  <2>1. bytes \in Seq(Byte) /\ insn = DecodeOne(bytes)
    BY DEF DInv
  <2>2. CASE UNCHANGED <<bytes, insn>>
    BY <2>2
  <2>3. CASE \E b \in Follow(bytes) : bytes' = Append(bytes, b) /\ insn' = DecodeOne(bytes')
    <3>1. PICK b \in Follow(bytes) : bytes' = Append(bytes, b) /\ insn' = DecodeOne(bytes')
      BY <2>3
    <3>2. b \in Byte
      BY <2>1
    <3>3. Begins(bytes, bytes')
      BY <2>1, <3>1, <3>2 DEF Begins
    <3> QED BY <2>1, <3>1, <3>3, DecodeOneSame
  <2>4. CASE bytes' = <<>> /\ insn' = Truncated
    BY <2>1, <2>4
  <2> QED BY <2>2, <2>3, <2>4, StepIs
<1> QED BY <1>1, DInvHolds, PTL DEF MCSpec, OwnBytesOnly

\* Decoding from a buffer that is cut off gives what decoding from memory
\* gives, or asks for more bytes; and it gives the instruction itself exactly
\* when the bytes it takes fit in the buffer, whatever the buffer's size.
THEOREM BufferAgreesHolds ==
  ASSUME \A s \in Seq(Byte) : Follow(s) \subseteq Byte
  PROVE  MCSpec => []BufferAgrees
<1>1. DInv => BufferAgrees
  <2> SUFFICES ASSUME DInv PROVE BufferAgrees
    OBVIOUS
  <2>1. /\ bytes \in Seq(Byte) /\ insn = DecodeOne(bytes) /\ Len(bytes) \in Nat
        /\ BufferCap \in Nat /\ BufferCap < Around /\ Around \in Nat \ {0}
    BY DecoderAssumption, AroundIs DEF DInv
  <2>2. PICK w \in Seq(Byte) : w = Fetched(bytes)
    BY <2>1, FetchedIs
  <2> DEFINE d == DecodeWithSource(w)
  <2>3. PICK p \in Seq(Byte) :
          /\ DecodeBytes(bytes) = DecodeWithSource(p)
          /\ Begins(p, bytes) /\ Begins(p, w) /\ Len(p) <= BufferCap
          /\ Len(p) < BufferCap => p = w
    <3>1. CASE Len(bytes) > BufferCap
      <4>1. PICK q : q = SubSeq(bytes, 1, BufferCap)
        OBVIOUS
      <4>2. q \in Seq(Byte) /\ Len(q) = BufferCap
        BY <2>1, <3>1, <4>1
      <4>3. Begins(q, bytes)
        BY <2>1, <3>1, <4>1, <4>2 DEF Begins
      <4>4. Begins(q, w)
        <5>1. Fetched(q) = q
          BY <2>1, <4>2, FetchedIs
        <5>2. Begins(Fetched(q), Fetched(bytes))
          BY <4>3, FetchedSame
        <5> QED BY <2>2, <5>1, <5>2
      <4>5. DecodeBytes(bytes) = DecodeWithSource(q)
        BY <3>1, <4>1 DEF DecodeBytes
      <4>6. Len(q) <= BufferCap /\ ~(Len(q) < BufferCap)
        BY <2>1, <4>2
      <4> QED BY <4>2, <4>3, <4>4, <4>5, <4>6
    <3>2. CASE ~(Len(bytes) > BufferCap)
      <4>1. w = bytes
        BY <2>1, <2>2, <3>2, FetchedIs
      <4> QED BY <2>1, <3>2, <4>1 DEF DecodeBytes, Begins
    <3> QED BY <3>1, <3>2
  <2> DEFINE c == DecodeWithSource(p)
  <2>4. /\ c.status = "Ok" => c.len \in 1 .. Len(p)
        /\ c.status # "Ok" => c = Failed(c.status)
        /\ Len(p) \in Nat
    BY <2>3, SourceIs
  <2>5. c.len \in 0 .. BufferCap
    BY <2>1, <2>3, <2>4 DEF Failed
  <2>6. ASSUME c.status # "TruncatedInstruction" PROVE insn = c /\ d = c
    <3>1. d = c
      BY <2>3, <2>6, SourceSame
    <3>2. ~Endless(bytes)
      <4> SUFFICES ASSUME Endless(bytes) PROVE FALSE
        OBVIOUS
      <4>1. \A i \in 1 .. Len(p) : p[i] \in Legacy
        BY <2>1, <2>3 DEF Endless, Begins
      <4>2. c = Truncated
        BY <2>3, <4>1, RunIsTruncated
      <4> QED BY <2>6, <4>2 DEF Truncated, Failed
    <3>3. c.len \in 0 .. Around - 1
      BY <2>1, <2>5
    <3> HIDE DEF c, d
    <3>4. insn = d
      BY <2>1, <2>2, <3>1, <3>2, <3>3, DecodeOneIs DEF d
    <3> QED BY <3>1, <3>4
  <2>7. ASSUME c.status = "TruncatedInstruction" PROVE c = Truncated
    BY <2>4, <2>7 DEF Truncated
  <2>8. ASSUME insn.status = "Ok", d.len <= BufferCap PROVE c = insn
    <3>1. d.status = "Ok" /\ ~Endless(bytes) /\ d.len \in Nat
      BY <2>1, <2>2, <2>8, AcceptedIs
    <3>2. d.len <= Len(p)
      <4>1. CASE Len(p) < BufferCap
        BY <2>2, <2>3, <3>1, <4>1, SourceIs
      <4>2. CASE Len(p) >= BufferCap
        BY <2>1, <2>4, <2>8, <3>1, <4>2
      <4> QED BY <2>1, <2>4, <4>1, <4>2
    <3>3. c = d
      BY <2>3, <3>1, <3>2, SourceSame
    <3> QED BY <2>6, <3>1, <3>3
  <2>9. ASSUME insn.status = "Ok", c = insn PROVE d.len <= BufferCap
    <3>1. d = c
      BY <2>6, <2>9
    <3> QED BY <2>1, <2>5, <3>1
  <2>10. Consumed(bytes) = d.len
    BY <2>2 DEF Consumed
  <2> HIDE DEF c, d
  <2>11. DecodeBytes(bytes) = c
    BY <2>3 DEF c
  <2> QED BY <2>6, <2>7, <2>8, <2>9, <2>10, <2>11 DEF BufferAgrees
<1> QED BY <1>1, DInvHolds, PTL

-----------------------------------------------------------------------------
(* The folded block *)

\* PeepholeProofs is about the Peephole of MCGuestStep.
F == INSTANCE PeepholeProofs WITH
       Regs <- {"rax", "rcx"}, MaxInsns <- 2, Held <- 2 .. 3, Bases <- {1}, Loaded <- 2

LEMMA SameHandlers == \A i, c : F!Handle(i, c) = Fold!Handle(i, c)
<1>1. \A v, size : F!Masked(v, size) = Fold!Masked(v, size)
  BY Zenon DEF F!Masked, Fold!Masked, F!Low, Fold!Low
<1>2. \A c, r, v, size : F!Put(c, r, v, size) = Fold!Put(c, r, v, size)
  BY Zenon DEF F!Put, Fold!Put, F!Written, Fold!Written, F!Low, Fold!Low
<1>3. \A i, c : F!Ea(i, c) = Fold!Ea(i, c)
  BY Zenon DEF F!Ea, Fold!Ea, F!RegOf, Fold!RegOf, F!None, Fold!None
<1>4. \A i, c : F!Source(i, c) = Fold!Source(i, c)
  BY <1>1, Zenon DEF F!Source, Fold!Source
<1>5. \A i, c : F!OpMov(i, c) = Fold!OpMov(i, c)
  BY <1>2, <1>4, Zenon DEF F!OpMov, Fold!OpMov
<1>6. \A i, c : F!OpLea(i, c) = Fold!OpLea(i, c)
  BY <1>2, <1>3, Zenon DEF F!OpLea, Fold!OpLea
<1>7. \A i, c : F!OpXchg(i, c) = Fold!OpXchg(i, c)
  BY <1>2, Zenon DEF F!OpXchg, Fold!OpXchg
<1>8. \A i, c : F!OpXor(i, c) = Fold!OpXor(i, c)
  <2>1. \A v, w : F!XorBits(v, w) = Fold!XorBits(v, w)
    BY Zenon DEF F!XorBits, Fold!XorBits
  <2>2. \A f, b : F!On(f, b) = Fold!On(f, b)
    BY Zenon DEF F!On, Fold!On
  <2>3. \A v : F!Low(v) = Fold!Low(v)
    BY Zenon DEF F!Low, Fold!Low
  <2> SUFFICES ASSUME NEW i, NEW c PROVE F!OpXor(i, c) = Fold!OpXor(i, c)
    OBVIOUS
  <2>4. PICK r : r = F!XorBits(F!Masked(c.reg[i.dst], i.size), F!Source(i, c))
    OBVIOUS
  <2>5. r = Fold!XorBits(Fold!Masked(c.reg[i.dst], i.size), Fold!Source(i, c))
    BY <1>1, <1>4, <2>1, <2>4, Zenon
  <2>6. F!Put(c, i.dst, r, i.size) = Fold!Put(c, i.dst, r, i.size)
    BY <1>2
  <2> DEFINE top == IF i.size = 8 THEN r \div 2 ELSE r
             flags == F!On("ZF", r = 0) \cup F!On("SF", top = 1) \cup F!On("PF", F!Low(r) = 0)
  <2>7. flags = Fold!On("ZF", r = 0) \cup Fold!On("SF", top = 1) \cup Fold!On("PF", Fold!Low(r) = 0)
    BY <2>3 DEF F!On, Fold!On
  <2>8. F!OpXor(i, c) = [F!Put(c, i.dst, r, i.size) EXCEPT !.flags = flags]
    BY <2>4, Zenon DEF F!OpXor
  <2>9. Fold!OpXor(i, c) =
          [Fold!Put(c, i.dst, r, i.size) EXCEPT
             !.flags = Fold!On("ZF", r = 0) \cup Fold!On("SF", top = 1)
                         \cup Fold!On("PF", Fold!Low(r) = 0)]
    BY <2>5, Zenon DEF Fold!OpXor
  <2> HIDE DEF flags
  <2> QED BY <2>6, <2>7, <2>8, <2>9, Zenon
<1>9. \A q, f : F!CondHolds(q, f) = Fold!CondHolds(q, f)
  BY Zenon DEF F!CondHolds, Fold!CondHolds
<1> QED BY <1>5, <1>6, <1>7, <1>8, <1>9, Zenon DEF F!Handle, Fold!Handle

LEMMA SameFolds ==
  /\ \A i : F!IsJunk(i) = Fold!IsJunk(i)
  /\ \A b : F!PeepholeBlock(b) = Fold!PeepholeBlock(b)
<1>1. \A i : F!IsJunk(i) = Fold!IsJunk(i)
  BY Zenon DEF F!IsJunk, Fold!IsJunk, F!IsSelfMov, Fold!IsSelfMov, F!IsSelfXchg,
               Fold!IsSelfXchg, F!IsSelfLea, Fold!IsSelfLea, F!OnItself, Fold!OnItself,
               F!None, Fold!None
<1>2. \A i : F!FoldJunk(i) = Fold!FoldJunk(i)
  BY <1>1, Zenon DEF F!FoldJunk, Fold!FoldJunk
<1>3. \A b : F!FoldOpaqueJcc(b) = Fold!FoldOpaqueJcc(b)
  BY Zenon DEF F!FoldOpaqueJcc, Fold!FoldOpaqueJcc, F!Opaque, Fold!Opaque, F!OnItself,
               Fold!OnItself, F!AlwaysTaken, Fold!AlwaysTaken
<1>4. ASSUME NEW b PROVE F!PeepholeBlock(b) = Fold!PeepholeBlock(b)
  <2>1. [k \in 1 .. Len(b) |-> F!FoldJunk(b[k])] = [k \in 1 .. Len(b) |-> Fold!FoldJunk(b[k])]
    BY <1>2, Zenon
  <2> QED BY <1>3, <2>1, Zenon DEF F!PeepholeBlock, Fold!PeepholeBlock
<1> QED BY <1>1, <1>4

LEMMA SameBlock ==
  /\ F!PeepholeAssumption
  /\ Fold!Init => F!Init
  /\ Fold!Next => F!Next
  /\ F!peepholeVars = foldVars
  /\ F!FoldedRunsAlikeOtherwise => Fold!FoldedRunsAlikeOtherwise
<1>1. F!Blank = Fold!Blank /\ F!None = Fold!None /\ F!RegOrNone = Fold!RegOrNone
  BY Zenon DEF F!Blank, Fold!Blank, F!None, Fold!None, F!RegOrNone, Fold!RegOrNone
<1>2. F!Cc = Fold!Cc
  BY Zenon DEF F!Cc, Fold!Cc
<1>3. F!Decodable = Fold!Decodable
  <2>1. \A kind, size, dst, inMemory, src, index, disp, seg, cond :
          F!InsnOf(kind, size, dst, inMemory, src, index, disp, seg, cond)
            = Fold!InsnOf(kind, size, dst, inMemory, src, index, disp, seg, cond)
    BY Zenon DEF F!InsnOf, Fold!InsnOf
  <2> DEFINE yes == TRUE
             no == FALSE
  <2>2. F!Decodable =
          {F!InsnOf(kind, size, dst, no, src, F!None, 0, no, "None") :
           kind \in {"Mov", "Xchg", "Xor"}, size \in {2, 4, 8}, dst \in {"rax", "rcx"}, src \in {"rax", "rcx"}}
          \cup {F!InsnOf("Mov", 8, dst, yes, src, F!None, 0, no, "None") :
           dst \in {"rax", "rcx"}, src \in {"rax", "rcx"}}
          \cup {F!InsnOf("Lea", size, dst, yes, src, index, disp, seg, "None") :
           size \in {2, 4, 8}, dst \in {"rax", "rcx"}, src \in F!RegOrNone,
           index \in F!RegOrNone, disp \in {0, 1}, seg \in BOOLEAN}
          \cup {F!InsnOf("Jcc", 8, F!None, no, F!None, F!None, 0, no, cond) :
           cond \in F!Cc \ {"None"}}
    BY DEF F!Decodable
  <2>3. Fold!Decodable =
          {Fold!InsnOf(kind, size, dst, no, src, Fold!None, 0, no, "None") :
           kind \in {"Mov", "Xchg", "Xor"}, size \in {2, 4, 8}, dst \in {"rax", "rcx"}, src \in {"rax", "rcx"}}
          \cup {Fold!InsnOf("Mov", 8, dst, yes, src, Fold!None, 0, no, "None") :
           dst \in {"rax", "rcx"}, src \in {"rax", "rcx"}}
          \cup {Fold!InsnOf("Lea", size, dst, yes, src, index, disp, seg, "None") :
           size \in {2, 4, 8}, dst \in {"rax", "rcx"}, src \in Fold!RegOrNone,
           index \in Fold!RegOrNone, disp \in {0, 1}, seg \in BOOLEAN}
          \cup {Fold!InsnOf("Jcc", 8, Fold!None, no, Fold!None, Fold!None, 0, no, cond) :
           cond \in Fold!Cc \ {"None"}}
    BY DEF Fold!Decodable
  <2> HIDE DEF yes, no
  <2> QED BY <1>1, <1>2, <2>1, <2>2, <2>3
<1>4. F!PeepholeAssumption
  BY FoldAssumption, Zenon DEF Fold!PeepholeAssumption, F!PeepholeAssumption, F!None, Fold!None
<1>5. Fold!Init => F!Init
  BY <1>1, Zenon DEF Fold!Init, F!Init
<1>6. Fold!Decode => F!Decode
  BY <1>3, Zenon DEF Fold!Decode, F!Decode, F!EndsBlock, Fold!EndsBlock
<1>7. Fold!Fold => F!Fold
  BY SameFolds, Zenon DEF Fold!Fold, F!Fold
<1>8. Fold!Enter => F!Enter
  BY <1>1, Zenon DEF Fold!Enter, F!Enter
<1>9. Fold!Execute => F!Execute
  BY SameHandlers, Zenon DEF Fold!Execute, F!Execute
<1>10. F!peepholeVars = foldVars
  BY DEF F!peepholeVars, foldVars
<1>11. F!FoldedRunsAlikeOtherwise => Fold!FoldedRunsAlikeOtherwise
  BY SameFolds, Zenon DEF F!FoldedRunsAlikeOtherwise, Fold!FoldedRunsAlikeOtherwise,
                          F!Misfolded, Fold!Misfolded
<1> QED BY <1>4, <1>5, <1>6, <1>7, <1>8, <1>9, <1>10, <1>11 DEF Fold!Next, F!Next

\* The folded block does what the decoded one does: see
\* FoldedRunsAlikeOtherwiseHolds of PeepholeProofs.
THEOREM FoldedRunsAlikeOtherwiseHolds == MCSpec => []FoldedRunsAlikeOtherwise
<1>1. F!Spec => []F!FoldedRunsAlikeOtherwise
  BY SameBlock, F!FoldedRunsAlikeOtherwiseHolds
<1>2. MCInit => F!Init
  BY SameBlock DEF MCInit
<1>3. [MCNext]_<<guestVars, foldVars>> => [F!Next]_F!peepholeVars
  BY SameBlock DEF MCNext, foldVars, F!peepholeVars
<1>4. F!FoldedRunsAlikeOtherwise => FoldedRunsAlikeOtherwise
  BY SameBlock DEF FoldedRunsAlikeOtherwise
<1> QED BY <1>1, <1>2, <1>3, <1>4, PTL DEF MCSpec, F!Spec

-----------------------------------------------------------------------------
(* The handlers *)

\* Two guests are alike but for what memory may be accessed.
SameBut(g, h) ==
  /\ g.reg = h.reg /\ g.mem = h.mem /\ g.zf = h.zf /\ g.df = h.df
  /\ g.rip = h.rip /\ g.fault = h.fault

AllOpen == [c \in Cells |-> "rw"]
IsOpen(g) == g.perm = AllOpen

\* The guest as it was when its first refused access was tried.
FaultOnly(r, g) ==
  \E f \in Faults : f.kind = "Memory" /\ r = [g EXCEPT !.fault = f]

Accesses == [cell : Cells, write : BOOLEAN]

LEMMA AccessIs ==
  \A c \in Cells : /\ R(c) \in Accesses /\ W(c) \in Accesses
                   /\ R(c).cell = c /\ W(c).cell = c
BY DEF R, W, Accesses

LEMMA OpenRefusesNothing ==
  ASSUME NEW g \in Guests, IsOpen(g), NEW acc \in Seq(Accesses)
  PROVE  ~AnyRefused(acc, g)
<1> SUFFICES ASSUME NEW i \in 1 .. Len(acc), Refused(acc[i], g) PROVE FALSE
  BY DEF AnyRefused
<1>1. acc[i] \in Accesses
  OBVIOUS
<1>2. acc[i].cell \in Cells
  BY <1>1 DEF Accesses
<1>3. g.perm[acc[i].cell] = "rw"
  BY <1>2 DEF IsOpen, AllOpen
<1> QED BY <1>3 DEF Refused

\* The fault of a refused access is a memory fault of the guest as it is.
LEMMA FaultedIs ==
  ASSUME NEW g, NEW acc \in Seq(Accesses), AnyRefused(acc, g)
  PROVE  FaultOnly(Faulted(acc, g), g)
<1> DEFINE Bad == {i \in 1 .. Len(acc) : Refused(acc[i], g)}
           First(i) == /\ Refused(acc[i], g)
                       /\ \A j \in 1 .. i - 1 : ~Refused(acc[j], g)
<1>1. Len(acc) \in Nat
  OBVIOUS
<1>2. Bad \subseteq Nat /\ Bad # {}
  BY <1>1 DEF AnyRefused
<1>3. PICK k \in Bad : \A j \in Bad : k <= j
  <2> HIDE DEF Bad
  <2> QED BY <1>2, LeastNat
<1>4. k \in 1 .. Len(acc) /\ First(k)
  <2>1. ASSUME NEW j \in 1 .. k - 1, Refused(acc[j], g) PROVE FALSE
    <3>1. j \in Bad /\ k \in Nat /\ j \in Nat /\ j < k
      BY <1>1, <1>3, <2>1
    <3> HIDE DEF Bad
    <3> QED BY <1>3, <3>1
  <2> QED BY <1>3, <2>1
<1> DEFINE i == CHOOSE i \in 1 .. Len(acc) : First(i)
<1>5. i \in 1 .. Len(acc)
  <2> HIDE DEF First
  <2> QED BY <1>4
<1> DEFINE f == [kind |-> "Memory", cell |-> acc[i].cell, write |-> acc[i].write]
<1>6. Faulted(acc, g) = [g EXCEPT !.fault = f]
  BY Zenon DEF Faulted
<1>7. f \in Faults /\ f.kind = "Memory"
  <2> HIDE DEF i
  <2>1. acc[i] \in Accesses
    BY <1>5
  <2>2. acc[i].cell \in Cells /\ acc[i].write \in BOOLEAN
    BY <2>1 DEF Accesses
  <2>3. acc[i].cell \in Int
    BY <2>2, CellsAssumption DEF Cells
  <2> QED BY <2>2, <2>3 DEF Faults
<1> HIDE DEF f
<1> QED BY <1>6, <1>7 DEF FaultOnly

\* A handler that checks its accesses first faults and changes nothing, or
\* does what it does when nothing is refused.
LEMMA GuardedIs ==
  ASSUME NEW g, NEW acc \in Seq(Accesses), NEW then
  PROVE  FaultOnly(Guarded(acc, g, then), g) \/ Guarded(acc, g, then) = then
BY FaultedIs DEF Guarded

LEMMA GuardedOpen ==
  ASSUME NEW g \in Guests, IsOpen(g), NEW acc \in Seq(Accesses), NEW then
  PROVE  Guarded(acc, g, then) = then
BY OpenRefusesNothing DEF Guarded

\* A guest has these fields and no others.
Shaped(g) ==
  g = [reg |-> g.reg, mem |-> g.mem, perm |-> g.perm, zf |-> g.zf, df |-> g.df,
       rip |-> g.rip, fault |-> g.fault]

LEMMA GuestsShaped == \A g \in Guests : Shaped(g)
BY DEF Guests, Shaped

\* What a change of one field leaves.
LEMMA ExceptIs ==
  ASSUME NEW g, Shaped(g), NEW v
  PROVE  /\ Shaped([g EXCEPT !.reg = v]) /\ Shaped([g EXCEPT !.mem = v])
         /\ Shaped([g EXCEPT !.zf = v]) /\ Shaped([g EXCEPT !.rip = v])
         /\ Shaped([g EXCEPT !.fault = v]) /\ Shaped([g EXCEPT !.perm = v])
BY DEF Shaped

LEMMA PutIs ==
  ASSUME NEW g, Shaped(g), NEW o, NEW v
  PROVE  LET p == Put(o, v, g) IN
         /\ Shaped(p) /\ p.rip = g.rip /\ p.fault = g.fault
         /\ p.perm = g.perm /\ p.zf = g.zf /\ p.df = g.df
         /\ p.reg = IF InMemory(o) THEN g.reg ELSE [g.reg EXCEPT ![o.reg] = v]
         /\ p.mem = IF InMemory(o) THEN [g.mem EXCEPT ![Address(o, g)] = v] ELSE g.mem
<1>1. CASE InMemory(o)
  BY <1>1 DEF Put, Shaped
<1>2. CASE ~InMemory(o)
  BY <1>2 DEF Put, Shaped
<1> QED BY <1>1, <1>2

\* The register that the address of an operand is taken from.
Sited(o) == o.reg \in Registers /\ (o.kind = "Mem" => o.reg \in {RSP, RSI})

LEMMA CellsAre ==
  /\ Cells \subseteq Nat /\ 0 \in Cells
  /\ \A c \in Cells : Up(c) \in Cells /\ Down(c) \in Cells
BY CellsAssumption DEF Cells, Up, Down

LEMMA OperandIs ==
  ASSUME NEW g, Placed(g), NEW o, Sited(o)
  PROVE  /\ Address(o, g) \in Cells
         /\ ReadsOf(o, g) \in Seq(Accesses) /\ WritesOf(o, g) \in Seq(Accesses)
<1>1. Address(o, g) \in Cells
  BY CellsAre DEF Address, Sited, Placed
<1>2. R(Address(o, g)) \in Accesses /\ W(Address(o, g)) \in Accesses
  BY <1>1, AccessIs
<1> QED BY <1>1, <1>2 DEF ReadsOf, WritesOf

LEMMA OperandSame ==
  ASSUME NEW g, NEW h, SameBut(g, h), NEW o
  PROVE  /\ Address(o, g) = Address(o, h) /\ ReadsOf(o, g) = ReadsOf(o, h)
         /\ WritesOf(o, g) = WritesOf(o, h) /\ ValueOf(o, g) = ValueOf(o, h)
<1>1. Address(o, g) = Address(o, h)
  BY DEF SameBut, Address
<1> QED BY <1>1 DEF SameBut, ReadsOf, WritesOf, ValueOf

\* Two guests alike in everything are changed alike.
Alikes(g, h) == Shaped(g) /\ Shaped(h) /\ SameBut(g, h)

LEMMA PutSame ==
  ASSUME NEW g, NEW h, Alikes(g, h), NEW o, NEW v
  PROVE  Alikes(Put(o, v, g), Put(o, v, h)) /\ Put(o, v, g).fault = g.fault
<1>1. Shaped(g) /\ Shaped(h) /\ SameBut(g, h)
  BY DEF Alikes
<1> DEFINE p == Put(o, v, g)
           q == Put(o, v, h)
<1>2. /\ Shaped(p) /\ p.rip = g.rip /\ p.fault = g.fault /\ p.zf = g.zf /\ p.df = g.df
      /\ p.reg = IF InMemory(o) THEN g.reg ELSE [g.reg EXCEPT ![o.reg] = v]
      /\ p.mem = IF InMemory(o) THEN [g.mem EXCEPT ![Address(o, g)] = v] ELSE g.mem
  BY <1>1, PutIs
<1>3. /\ Shaped(q) /\ q.rip = h.rip /\ q.fault = h.fault /\ q.zf = h.zf /\ q.df = h.df
      /\ q.reg = IF InMemory(o) THEN h.reg ELSE [h.reg EXCEPT ![o.reg] = v]
      /\ q.mem = IF InMemory(o) THEN [h.mem EXCEPT ![Address(o, h)] = v] ELSE h.mem
  BY <1>1, PutIs
<1>4. Address(o, g) = Address(o, h)
  BY <1>1, OperandSame
<1> HIDE DEF p, q
<1>5. SameBut(p, q)
  BY <1>1, <1>2, <1>3, <1>4 DEF SameBut
<1> QED BY <1>2, <1>3, <1>5 DEF Alikes, p, q

LEMMA FieldSame ==
  ASSUME NEW g, NEW h, Alikes(g, h), NEW v
  PROVE  /\ Alikes([g EXCEPT !.reg = v], [h EXCEPT !.reg = v])
         /\ Alikes([g EXCEPT !.mem = v], [h EXCEPT !.mem = v])
         /\ Alikes([g EXCEPT !.zf = v], [h EXCEPT !.zf = v])
         /\ Alikes([g EXCEPT !.rip = v], [h EXCEPT !.rip = v])
         /\ Alikes([g EXCEPT !.fault = v], [h EXCEPT !.fault = v])
BY DEF Alikes, Shaped, SameBut

LEMMA BranchSame ==
  ASSUME NEW g, NEW h, Alikes(g, h), NEW v
  PROVE  /\ Alikes(Branch(v, g), Branch(v, h)) /\ Branch(v, g).fault = g.fault
<1>1. Alikes(Branch(v, g), Branch(v, h))
  BY FieldSame DEF Branch
<1>2. Shaped(g)
  BY DEF Alikes
<1>3. [g EXCEPT !.rip = v].fault = g.fault
  BY <1>2 DEF Shaped
<1> QED BY <1>1, <1>3 DEF Branch

\* What a restart relies on: the instruction faulted and changed nothing, or
\* it did what it does when all memory is open.
Restarts(r, g, s) ==
  \/ FaultOnly(r, g)
  \/ r.fault.kind # "Memory" /\ Alikes(r, s)

LEMMA GuardedSame ==
  ASSUME NEW g, NEW h \in Guests, IsOpen(h), NEW acc \in Seq(Accesses),
         NEW t, NEW u, Alikes(t, u), t.fault = NoFault
  PROVE  Restarts(Guarded(acc, g, t), g, Guarded(acc, h, u))
<1>1. Guarded(acc, h, u) = u
  BY GuardedOpen
<1>2. FaultOnly(Guarded(acc, g, t), g) \/ Guarded(acc, g, t) = t
  BY GuardedIs
<1> QED BY <1>1, <1>2 DEF Restarts, NoFault

\* A guest if all its memory were open.
Open(g) == [g EXCEPT !.perm = AllOpen]

LEMMA OpenIs ==
  ASSUME NEW g \in Guests
  PROVE  /\ Open(g) \in Guests /\ IsOpen(Open(g)) /\ Alikes(g, Open(g))
         /\ \A h \in Guests : IsOpen(h) /\ SameBut(g, h) => h = Open(g)
<1>1. AllOpen \in [Cells -> {"none", "r", "rw"}]
  BY DEF AllOpen
<1>2. Open(g) \in Guests
  BY <1>1 DEF Open, Guests
<1>3. /\ Open(g).reg = g.reg /\ Open(g).mem = g.mem /\ Open(g).perm = AllOpen
      /\ Open(g).zf = g.zf /\ Open(g).df = g.df /\ Open(g).rip = g.rip
      /\ Open(g).fault = g.fault
  BY DEF Open, Guests
<1>4. SameBut(g, Open(g))
  BY <1>3 DEF SameBut
<1>5. ASSUME NEW h \in Guests, IsOpen(h), SameBut(g, h)
      PROVE  h = Open(g)
  <2>1. /\ h.reg = Open(g).reg /\ h.mem = Open(g).mem /\ h.perm = Open(g).perm
        /\ h.zf = Open(g).zf /\ h.df = Open(g).df /\ h.rip = Open(g).rip
        /\ h.fault = Open(g).fault
    BY <1>3, <1>5 DEF SameBut, IsOpen
  <2>2. Shaped(h) /\ Shaped(Open(g))
    BY <1>2, GuestsShaped
  <2> QED BY <2>1, <2>2, Zenon DEF Shaped
<1> QED BY <1>2, <1>3, <1>4, <1>5, GuestsShaped DEF Alikes, IsOpen

\* Every move of data checks its accesses before it changes anything.
LEMMA MovSame ==
  ASSUME NEW ins, Sited(ins.dst), Sited(ins.src), NEW g, Ready(g)
  PROVE  Restarts(OpMov(ins, g), g, OpMov(ins, Open(g)))
<1>1. /\ g \in Guests /\ Placed(g) /\ g.fault = NoFault /\ Open(g) \in Guests
      /\ IsOpen(Open(g)) /\ Alikes(g, Open(g))
  BY OpenIs DEF Ready
<1> DEFINE h == Open(g)
           acc == ReadsOf(ins.src, g) \o WritesOf(ins.dst, g)
           t == Put(ins.dst, ValueOf(ins.src, g), g)
           u == Put(ins.dst, ValueOf(ins.src, h), h)
<1>2. acc \in Seq(Accesses)
  BY <1>1, OperandIs
<1>3. acc = ReadsOf(ins.src, h) \o WritesOf(ins.dst, h) /\ ValueOf(ins.src, g) = ValueOf(ins.src, h)
  BY <1>1, OperandSame DEF Alikes
<1>4. Alikes(t, u) /\ t.fault = NoFault
  BY <1>1, <1>3, PutSame
<1> HIDE DEF acc, t, u
<1>5. Restarts(Guarded(acc, g, t), g, Guarded(acc, h, u))
  BY <1>1, <1>2, <1>4, GuardedSame
<1> QED BY <1>3, <1>5 DEF OpMov, acc, t, u

LEMMA XchgSame ==
  ASSUME NEW ins, Sited(ins.dst), Sited(ins.src), NEW g, Ready(g)
  PROVE  Restarts(OpXchg(ins, g), g, OpXchg(ins, Open(g)))
<1>1. /\ g \in Guests /\ Placed(g) /\ g.fault = NoFault /\ Open(g) \in Guests
      /\ IsOpen(Open(g)) /\ Alikes(g, Open(g))
  BY OpenIs DEF Ready
<1> DEFINE h == Open(g)
           acc == ReadsOf(ins.dst, g) \o WritesOf(ins.dst, g)
           t == Put(ins.src, ValueOf(ins.dst, g), Put(ins.dst, ValueOf(ins.src, g), g))
           u == Put(ins.src, ValueOf(ins.dst, h), Put(ins.dst, ValueOf(ins.src, h), h))
<1>2. acc \in Seq(Accesses)
  BY <1>1, OperandIs
<1>3. /\ acc = ReadsOf(ins.dst, h) \o WritesOf(ins.dst, h)
      /\ ValueOf(ins.src, g) = ValueOf(ins.src, h) /\ ValueOf(ins.dst, g) = ValueOf(ins.dst, h)
  BY <1>1, OperandSame DEF Alikes
<1>4. PICK v, w : v = ValueOf(ins.src, g) /\ w = ValueOf(ins.dst, g)
  OBVIOUS
<1>5. Alikes(Put(ins.dst, v, g), Put(ins.dst, v, h)) /\ Put(ins.dst, v, g).fault = NoFault
  BY <1>1, PutSame
<1>6. /\ Alikes(Put(ins.src, w, Put(ins.dst, v, g)), Put(ins.src, w, Put(ins.dst, v, h)))
      /\ Put(ins.src, w, Put(ins.dst, v, g)).fault = NoFault
  BY <1>5, PutSame
<1>7. Alikes(t, u) /\ t.fault = NoFault
  BY <1>3, <1>4, <1>6
<1> HIDE DEF acc, t, u
<1>8. Restarts(Guarded(acc, g, t), g, Guarded(acc, h, u))
  BY <1>1, <1>2, <1>7, GuardedSame
<1> QED BY <1>3, <1>8 DEF OpXchg, acc, t, u

LEMMA LeaCmovSame ==
  ASSUME NEW ins, Sited(ins.dst), Sited(ins.src), NEW g, Ready(g)
  PROVE  /\ Restarts(OpLea(ins, g), g, OpLea(ins, Open(g)))
         /\ Restarts(OpCmov(ins, g), g, OpCmov(ins, Open(g)))
<1>1. /\ g \in Guests /\ Placed(g) /\ g.fault = NoFault /\ Open(g) \in Guests
      /\ IsOpen(Open(g)) /\ Alikes(g, Open(g))
  BY OpenIs DEF Ready
<1> DEFINE h == Open(g)
<1>2. /\ Address(ins.src, g) = Address(ins.src, h) /\ ReadsOf(ins.src, g) = ReadsOf(ins.src, h)
      /\ ValueOf(ins.src, g) = ValueOf(ins.src, h) /\ g.zf = h.zf
  BY <1>1, OperandSame DEF Alikes, SameBut
<1>3. \A v : Alikes(Put(ins.dst, v, g), Put(ins.dst, v, h)) /\ Put(ins.dst, v, g).fault = NoFault
  BY <1>1, PutSame
<1>4. ReadsOf(ins.src, g) \in Seq(Accesses)
  BY <1>1, OperandIs
<1> HIDE DEF h
<1>5. Restarts(OpLea(ins, g), g, OpLea(ins, h))
  BY <1>2, <1>3 DEF OpLea, Restarts, NoFault
<1>6. CASE g.zf
  <2> DEFINE acc == ReadsOf(ins.src, g)
             t == Put(ins.dst, ValueOf(ins.src, g), g)
             u == Put(ins.dst, ValueOf(ins.src, h), h)
  <2>1. Alikes(t, u) /\ t.fault = NoFault
    BY <1>2, <1>3
  <2> HIDE DEF t, u, acc
  <2>2. Restarts(Guarded(acc, g, t), g, Guarded(acc, h, u))
    BY <1>1, <1>4, <2>1, GuardedSame DEF h, acc
  <2>3. OpCmov(ins, g) = Guarded(acc, g, t) /\ OpCmov(ins, h) = Guarded(acc, h, u)
    BY <1>2, <1>6 DEF OpCmov, acc, t, u
  <2> QED BY <1>5, <2>2, <2>3 DEF h
<1>7. CASE ~g.zf
  <2>1. OpCmov(ins, g) = g /\ OpCmov(ins, h) = h
    BY <1>2, <1>7 DEF OpCmov
  <2> QED BY <1>1, <1>5, <2>1 DEF Restarts, NoFault, h
<1> QED BY <1>6, <1>7

\* A push: a cell and RSP change together.
Pushed(k, a, v, r) == [k EXCEPT !.mem[a] = v, !.reg[RSP] = r]

LEMMA PushedIs ==
  ASSUME NEW k, Shaped(k), NEW a, NEW v, NEW r
  PROVE  Pushed(k, a, v, r) =
           [reg |-> [k.reg EXCEPT ![RSP] = r], mem |-> [k.mem EXCEPT ![a] = v],
            perm |-> k.perm, zf |-> k.zf, df |-> k.df, rip |-> k.rip, fault |-> k.fault]
<1> DEFINE l == [k EXCEPT !.mem[a] = v]
<1>1. l = [reg |-> k.reg, mem |-> [k.mem EXCEPT ![a] = v],
           perm |-> k.perm, zf |-> k.zf, df |-> k.df, rip |-> k.rip, fault |-> k.fault]
  BY DEF Shaped
<1>2. Pushed(k, a, v, r) = [l EXCEPT !.reg[RSP] = r]
  BY DEF Pushed
<1> HIDE DEF l
<1> QED BY <1>1, <1>2

LEMMA PushedSame ==
  ASSUME NEW g, NEW h, Alikes(g, h), NEW a, NEW v, NEW r
  PROVE  /\ Alikes(Pushed(g, a, v, r), Pushed(h, a, v, r))
         /\ Pushed(g, a, v, r).fault = g.fault
<1>1. Shaped(g) /\ Shaped(h) /\ SameBut(g, h)
  BY DEF Alikes
<1> DEFINE m == [g.mem EXCEPT ![a] = v]
           q == [g.reg EXCEPT ![RSP] = r]
           t == Pushed(g, a, v, r)
           u == Pushed(h, a, v, r)
<1>2. t = [reg |-> q, mem |-> m, perm |-> g.perm, zf |-> g.zf, df |-> g.df,
           rip |-> g.rip, fault |-> g.fault]
  BY <1>1, PushedIs
<1>3. u = [reg |-> q, mem |-> m, perm |-> h.perm, zf |-> g.zf, df |-> g.df,
           rip |-> g.rip, fault |-> g.fault]
  BY <1>1, PushedIs DEF SameBut
<1> HIDE DEF t, u, m, q
<1>4. Alikes(t, u) /\ t.fault = g.fault
  BY <1>2, <1>3 DEF Alikes, Shaped, SameBut
<1> QED BY <1>4 DEF t, u

LEMMA PushPopSame ==
  ASSUME NEW ins, Sited(ins.dst), Sited(ins.src), NEW g, Ready(g)
  PROVE  /\ Restarts(OpPush(ins, g), g, OpPush(ins, Open(g)))
         /\ Restarts(OpPop(ins, g), g, OpPop(ins, Open(g)))
<1>1. /\ g \in Guests /\ Placed(g) /\ g.fault = NoFault /\ Open(g) \in Guests
      /\ IsOpen(Open(g)) /\ Alikes(g, Open(g))
  BY OpenIs DEF Ready
<1> DEFINE h == Open(g)
<1>2. Shaped(g) /\ Shaped(h) /\ g.reg = h.reg /\ g.mem = h.mem
  BY <1>1 DEF Alikes, SameBut
<1> HIDE DEF h
<1>3. Restarts(OpPush(ins, g), g, OpPush(ins, h))
  <2> DEFINE top == Down(g.reg[RSP])
             v == ValueOf(ins.dst, g)
             acc == ReadsOf(ins.dst, g) \o <<W(top)>>
             t == Pushed(g, top, v, top)
             u == Pushed(h, top, v, top)
  <2>1. acc \in Seq(Accesses)
    <3>1. top \in Cells
      BY <1>1, CellsAre DEF Placed
    <3>2. W(top) \in Accesses
      BY <3>1, AccessIs
    <3>3. ReadsOf(ins.dst, g) \in Seq(Accesses)
      BY <1>1, OperandIs
    <3> HIDE DEF top
    <3> QED BY <3>2, <3>3
  <2>2. ReadsOf(ins.dst, g) = ReadsOf(ins.dst, h) /\ v = ValueOf(ins.dst, h)
    BY <1>1, OperandSame DEF Alikes, h
  <2>3. Alikes(t, u) /\ t.fault = NoFault
    BY <1>1, PushedSame DEF h
  <2> HIDE DEF acc, t, u
  <2>4. Restarts(Guarded(acc, g, t), g, Guarded(acc, h, u))
    BY <1>1, <2>1, <2>3, GuardedSame DEF h
  <2>5. OpPush(ins, g) = Guarded(acc, g, t) /\ OpPush(ins, h) = Guarded(acc, h, u)
    BY <1>2, <2>2 DEF OpPush, Pushed, acc, t, u
  <2> QED BY <2>4, <2>5
<1>4. Restarts(OpPop(ins, g), g, OpPop(ins, h))
  <2> DEFINE rsp == g.reg[RSP]
             acc == <<R(rsp)>>
             p == Put(ins.dst, g.mem[rsp], g)
             q == Put(ins.dst, g.mem[rsp], h)
             t == [p EXCEPT !.reg[RSP] = Up(rsp)]
             u == [q EXCEPT !.reg[RSP] = Up(rsp)]
  <2>1. acc \in Seq(Accesses)
    BY <1>1, AccessIs DEF Placed
  <2>2. Alikes(p, q) /\ p.fault = NoFault
    BY <1>1, PutSame DEF h
  <2>3. Alikes(t, u) /\ t.fault = NoFault
    <3> HIDE DEF p, q
    <3>1. Shaped(t) /\ Shaped(u) /\ SameBut(t, u)
      BY <2>2 DEF Shaped, SameBut, Alikes
    <3>2. t.fault = NoFault
      BY <2>2 DEF Shaped, Alikes
    <3> QED BY <3>1, <3>2 DEF Alikes
  <2> HIDE DEF acc, t, u
  <2>4. Restarts(Guarded(acc, g, t), g, Guarded(acc, h, u))
    BY <1>1, <2>1, <2>3, GuardedSame DEF h
  <2>5. OpPop(ins, g) = Guarded(acc, g, t) /\ OpPop(ins, h) = Guarded(acc, h, u)
    BY <1>2 DEF OpPop, acc, t, u
  <2> QED BY <2>4, <2>5
<1> QED BY <1>3, <1>4 DEF h

\* Branches read their target, or their condition, before they move RIP.
LEMMA JumpSame ==
  ASSUME NEW ins, Sited(ins.dst), Sited(ins.src), NEW g, Ready(g)
  PROVE  /\ Restarts(OpJmp(ins, g), g, OpJmp(ins, Open(g)))
         /\ Restarts(OpJcc(ins, g), g, OpJcc(ins, Open(g)))
         /\ Restarts(OpJcxz(ins, g), g, OpJcxz(ins, Open(g)))
         /\ Restarts(OpLoop(ins, g), g, OpLoop(ins, Open(g)))
<1>1. /\ g \in Guests /\ Placed(g) /\ g.fault = NoFault /\ Open(g) \in Guests
      /\ IsOpen(Open(g)) /\ Alikes(g, Open(g))
  BY OpenIs DEF Ready
<1> DEFINE h == Open(g)
<1>2. Shaped(g) /\ Shaped(h) /\ g.reg = h.reg /\ g.mem = h.mem /\ g.zf = h.zf
  BY <1>1 DEF Alikes, SameBut
<1>3. \A v : Alikes(Branch(v, g), Branch(v, h)) /\ Branch(v, g).fault = NoFault
  BY <1>1, BranchSame
<1>4. Restarts(g, g, h) /\ \A v : Restarts(Branch(v, g), g, Branch(v, h))
  BY <1>1, <1>3 DEF Restarts, NoFault
<1> HIDE DEF h
<1>5. Restarts(OpJmp(ins, g), g, OpJmp(ins, h))
  <2> DEFINE acc == ReadsOf(ins.dst, g)
             v == TargetOf(ins.dst, g)
             t == Branch(v, g)
             u == Branch(v, h)
  <2>1. acc \in Seq(Accesses)
    BY <1>1, OperandIs
  <2>2. acc = ReadsOf(ins.dst, h) /\ v = TargetOf(ins.dst, h)
    BY <1>1, OperandSame DEF Alikes, h, TargetOf
  <2>3. Alikes(t, u) /\ t.fault = NoFault
    BY <1>3
  <2> HIDE DEF acc, t, u
  <2>4. Restarts(Guarded(acc, g, t), g, Guarded(acc, h, u))
    BY <1>1, <2>1, <2>3, GuardedSame DEF h
  <2>5. OpJmp(ins, g) = Guarded(acc, g, t) /\ OpJmp(ins, h) = Guarded(acc, h, u)
    BY <2>2 DEF OpJmp, acc, t, u
  <2> QED BY <2>4, <2>5
<1>6. Restarts(OpJcc(ins, g), g, OpJcc(ins, h)) /\ Restarts(OpJcxz(ins, g), g, OpJcxz(ins, h))
  BY <1>2, <1>4 DEF OpJcc, OpJcxz
<1>7. Restarts(OpLoop(ins, g), g, OpLoop(ins, h))
  <2> DEFINE rcx == IF g.reg[RCX] = 0 THEN N ELSE g.reg[RCX] - 1
             down == [g EXCEPT !.reg[RCX] = rcx]
             low == [h EXCEPT !.reg[RCX] = rcx]
  <2>1. Shaped(down) /\ Shaped(low) /\ SameBut(down, low) /\ down.fault = NoFault
    BY <1>1, <1>2 DEF Shaped, SameBut, Alikes, h
  <2>2. Alikes(down, low) /\ down.fault = NoFault
    BY <2>1 DEF Alikes
  <2>3. Alikes(Branch(Away, down), Branch(Away, low)) /\ Branch(Away, down).fault = NoFault
    BY <2>2, BranchSame
  <2> DEFINE take == /\ rcx # 0
                     /\ CASE ins.kind = "LoopE" -> g.zf [] ins.kind = "LoopNE" -> ~g.zf [] OTHER -> TRUE
  <2>4. /\ OpLoop(ins, g) = IF take THEN Branch(Away, down) ELSE down
        /\ OpLoop(ins, h) = IF take THEN Branch(Away, low) ELSE low
    BY <1>2, Zenon DEF OpLoop
  <2> HIDE DEF take, down, low
  <2> QED BY <2>2, <2>3, <2>4 DEF Restarts, NoFault
<1> QED BY <1>5, <1>6, <1>7 DEF h

\* CALL does, as long as its target needs no access; RET does.
LEMMA CallSame ==
  ASSUME NEW ins, Sited(ins.dst), ~InMemory(ins.dst), NEW g, Ready(g)
  PROVE  Restarts(OpCall(ins, g), g, OpCall(ins, Open(g)))
<1>1. /\ g \in Guests /\ Placed(g) /\ g.fault = NoFault /\ Open(g) \in Guests
      /\ IsOpen(Open(g)) /\ Alikes(g, Open(g))
  BY OpenIs DEF Ready
<1> DEFINE h == Open(g)
           top == Down(g.reg[RSP])
           t0 == Pushed(g, top, ins.next, top)
           u0 == Pushed(h, top, ins.next, top)
           v == TargetOf(ins.dst, t0)
           t == Branch(v, t0)
           u == Branch(v, u0)
           acc == <<W(top)>>
<1>2. Shaped(g) /\ Shaped(h) /\ g.reg = h.reg /\ g.mem = h.mem
  BY <1>1 DEF Alikes, SameBut
<1>3. acc \in Seq(Accesses)
  <2>1. top \in Cells
    BY <1>1, CellsAre DEF Placed
  <2> HIDE DEF top
  <2> QED BY <2>1, AccessIs
<1>4. Alikes(t0, u0) /\ t0.fault = NoFault
  BY <1>1, PushedSame
<1> HIDE DEF h
<1>5. ReadsOf(ins.dst, t0) = <<>> /\ ReadsOf(ins.dst, u0) = <<>>
  BY DEF ReadsOf
<1>6. v = TargetOf(ins.dst, u0)
  <2> HIDE DEF t0, u0
  <2> QED BY <1>4, OperandSame DEF Alikes, TargetOf
<1>7. ~AnyRefused(<<>>, t0) /\ ~AnyRefused(<<>>, u0)
  <2> HIDE DEF t0, u0
  <2> QED BY DEF AnyRefused
<1>8. OpCall(ins, g) = Guarded(acc, g, t)
  BY <1>5, <1>7, Zenon DEF OpCall, Pushed
<1>9. OpCall(ins, h) = Guarded(acc, h, u)
  BY <1>2, <1>5, <1>6, <1>7, Zenon DEF OpCall, Pushed
<1>10. Alikes(t, u) /\ t.fault = NoFault
  <2> HIDE DEF t0, u0, v
  <2> QED BY <1>4, BranchSame
<1> HIDE DEF acc, t, u
<1>11. Restarts(Guarded(acc, g, t), g, Guarded(acc, h, u))
  BY <1>1, <1>3, <1>10, GuardedSame DEF h
<1> QED BY <1>8, <1>9, <1>11 DEF h

LEMMA RetSame ==
  ASSUME NEW ins, NEW g, Ready(g)
  PROVE  Restarts(OpRet(ins, g), g, OpRet(ins, Open(g)))
<1>1. /\ g \in Guests /\ Placed(g) /\ g.fault = NoFault /\ Open(g) \in Guests
      /\ IsOpen(Open(g)) /\ Alikes(g, Open(g))
  BY OpenIs DEF Ready
<1> DEFINE h == Open(g)
           rsp == g.reg[RSP]
           to == IF ins.dst.kind = "Imm" THEN Up(Up(rsp)) ELSE Up(rsp)
           t0 == [g EXCEPT !.reg[RSP] = to]
           u0 == [h EXCEPT !.reg[RSP] = to]
           t == Branch(g.mem[rsp], t0)
           u == Branch(g.mem[rsp], u0)
           acc == <<R(rsp)>>
<1>2. Shaped(g) /\ Shaped(h) /\ g.reg = h.reg /\ g.mem = h.mem
  BY <1>1 DEF Alikes, SameBut
<1>3. acc \in Seq(Accesses)
  BY <1>1, AccessIs DEF Placed
<1>4. Alikes(t0, u0) /\ t0.fault = NoFault
  <2> HIDE DEF to, h
  <2>1. Shaped(t0) /\ Shaped(u0)
    BY <1>2 DEF Shaped
  <2>2. SameBut(t0, u0) /\ t0.fault = NoFault
    BY <1>1, <1>2 DEF Shaped, SameBut, Alikes, h
  <2> QED BY <2>1, <2>2 DEF Alikes
<1>5. Alikes(t, u) /\ t.fault = NoFault
  <2> HIDE DEF t0, u0
  <2> QED BY <1>4, BranchSame
<1>6. OpRet(ins, g) = Guarded(acc, g, t) /\ OpRet(ins, h) = Guarded(acc, h, u)
  <2> HIDE DEF h
  <2> QED BY <1>2, Zenon DEF OpRet
<1> HIDE DEF acc, t, u
<1>7. Restarts(Guarded(acc, g, t), g, Guarded(acc, h, u))
  BY <1>1, <1>3, <1>5, GuardedSame DEF h
<1> QED BY <1>6, <1>7 DEF h

\* HLT, interrupts and SYSCALL fault of themselves, in both guests alike.
LEMMA OtherFaultSame ==
  ASSUME NEW ins, NEW g, Ready(g)
  PROVE  /\ Restarts(OtherFault(g), g, OtherFault(Open(g)))
         /\ Restarts(OpSyscall(ins, g), g, OpSyscall(ins, Open(g)))
<1>1. g.fault = NoFault /\ Alikes(g, Open(g))
  BY OpenIs DEF Ready
<1> DEFINE h == Open(g)
           f == [kind |-> "Other", cell |-> 0, write |-> FALSE]
           zero == [g EXCEPT !.reg[RAX] = 0]
           nil == [h EXCEPT !.reg[RAX] = 0]
<1>2. Alikes(zero, nil)
  BY <1>1 DEF Shaped, SameBut, Alikes
<1>3. \A k, l : Alikes(k, l) => Alikes(OtherFault(k), OtherFault(l)) /\ OtherFault(k).fault.kind = "Other"
  <2> SUFFICES ASSUME NEW k, NEW l, Alikes(k, l)
               PROVE  Alikes(OtherFault(k), OtherFault(l)) /\ OtherFault(k).fault.kind = "Other"
    OBVIOUS
  <2>1. f.kind = "Other"
    OBVIOUS
  <2> HIDE DEF f
  <2>2. [k EXCEPT !.fault = f].fault = f
    BY DEF Alikes, Shaped
  <2> QED BY <2>1, <2>2, FieldSame DEF OtherFault, f
<1>4. h.reg = g.reg
  BY <1>1 DEF Alikes, SameBut
<1> HIDE DEF h
<1>5. \/ OpSyscall(ins, g) = OtherFault(g) /\ OpSyscall(ins, h) = OtherFault(h)
      \/ OpSyscall(ins, g) = OtherFault(zero) /\ OpSyscall(ins, h) = OtherFault(nil)
  BY <1>4, Zenon DEF OpSyscall
<1> HIDE DEF zero, nil
<1> QED BY <1>1, <1>2, <1>3, <1>5 DEF Restarts, h

-----------------------------------------------------------------------------
(* Repeated strings *)

LEMMA RegistersAre ==
  /\ {RAX, RCX, RSP, RSI, RDI} \subseteq Registers
  /\ RAX # RCX /\ RSI # RCX /\ RDI # RCX /\ RSI # RDI /\ RSP # RSI /\ RSP # RDI
  /\ RAX # RSP /\ RAX # RSI /\ RAX # RDI /\ RCX # RSP
BY DEF Registers, RAX, RCX, RSP, RSI, RDI, Other

LEMMA CellsAreValues == Cells \subseteq Values /\ Here \in Values
BY CellsAssumption DEF Cells, Values, Here

\* The index registers move in memory, and nothing else changes.
LEMMA MovedIs ==
  ASSUME NEW g \in Guests, Placed(g), NEW regs \in {{RSI}, {RDI}, {RSI, RDI}}
  PROVE  LET m == Moved(regs, g) IN
         /\ m \in Guests /\ Placed(m) /\ m.reg[RCX] = g.reg[RCX] /\ m.perm = g.perm
         /\ m.mem = g.mem /\ m.rip = g.rip /\ m.fault = g.fault /\ m.zf = g.zf /\ m.df = g.df
<1> DEFINE q == [r \in Registers |->
                   IF r \in regs THEN IF g.df THEN Down(g.reg[r]) ELSE Up(g.reg[r]) ELSE g.reg[r]]
           m == Moved(regs, g)
<1>1. m = [g EXCEPT !.reg = q]
  BY DEF Moved
<1>2. \A r \in Registers : q[r] \in IF r \in {RSP, RSI, RDI} THEN Cells ELSE Values
  <2> SUFFICES ASSUME NEW r \in Registers
               PROVE  q[r] \in IF r \in {RSP, RSI, RDI} THEN Cells ELSE Values
    OBVIOUS
  <2>1. g.reg[r] \in Values
    BY DEF Guests
  <2>2. CASE r \in {RSP, RSI, RDI}
    <3>1. g.reg[r] \in Cells
      BY <2>2 DEF Placed
    <3>2. Up(g.reg[r]) \in Cells /\ Down(g.reg[r]) \in Cells
      BY <3>1, CellsAre
    <3> QED BY <2>2, <3>1, <3>2
  <2>3. CASE r \notin {RSP, RSI, RDI}
    <3>1. r \notin regs
      BY <2>3
    <3> QED BY <2>1, <2>3, <3>1
  <2> QED BY <2>2, <2>3
<1>3. q \in [Registers -> Values]
  BY <1>2, CellsAreValues
<1>4. q[RSP] \in Cells /\ q[RSI] \in Cells /\ q[RDI] \in Cells
  BY <1>2, RegistersAre
<1>5. q[RCX] = g.reg[RCX]
  BY RegistersAre
<1> HIDE DEF q, m
<1>6. /\ m.reg = q /\ m.perm = g.perm /\ m.mem = g.mem /\ m.rip = g.rip /\ m.fault = g.fault
      /\ m.zf = g.zf /\ m.df = g.df /\ m \in Guests
  BY <1>1, <1>3 DEF Guests
<1> QED BY <1>4, <1>5, <1>6 DEF Placed, m

LEMMA MovedSame ==
  ASSUME NEW g, NEW h, Alikes(g, h), NEW regs
  PROVE  Alikes(Moved(regs, g), Moved(regs, h)) /\ Moved(regs, g).fault = g.fault
<1>1. Shaped(g) /\ Shaped(h) /\ SameBut(g, h)
  BY DEF Alikes
<1> DEFINE q == [r \in Registers |->
                   IF r \in regs THEN IF g.df THEN Down(g.reg[r]) ELSE Up(g.reg[r]) ELSE g.reg[r]]
<1>2. Moved(regs, g) = [g EXCEPT !.reg = q] /\ Moved(regs, h) = [h EXCEPT !.reg = q]
  BY <1>1 DEF Moved, SameBut
<1> HIDE DEF q
<1>3. [g EXCEPT !.reg = q].fault = g.fault
  BY <1>1 DEF Shaped
<1>4. Alikes([g EXCEPT !.reg = q], [h EXCEPT !.reg = q])
  BY <1>1 DEF Alikes, Shaped, SameBut
<1> QED BY <1>2, <1>3, <1>4

\* A change that keeps a guest a guest.
Kept(t, g) ==
  /\ t \in Guests /\ Placed(t) /\ t.reg[RCX] = g.reg[RCX] /\ t.perm = g.perm
  /\ t.rip = g.rip /\ t.fault = g.fault

LEMMA SetIs ==
  ASSUME NEW g \in Guests, Placed(g)
  PROVE  /\ \A v \in Values, c \in Cells : Kept([g EXCEPT !.mem[c] = v], g)
         /\ \A v \in Values : Kept([g EXCEPT !.reg[RAX] = v], g)
         /\ \A v \in BOOLEAN : Kept([g EXCEPT !.zf = v], g)
<1>1. ASSUME NEW v \in Values, NEW c \in Cells
      PROVE  Kept([g EXCEPT !.mem[c] = v], g)
  <2> DEFINE m == [g.mem EXCEPT ![c] = v]
  <2>1. m \in [Cells -> Values]
    BY DEF Guests
  <2> HIDE DEF m
  <2>2. [g EXCEPT !.mem = m] \in Guests
    BY <2>1 DEF Guests
  <2>3. [g EXCEPT !.mem[c] = v] = [g EXCEPT !.mem = m]
    BY DEF Guests, m
  <2>4. /\ [g EXCEPT !.mem = m].reg = g.reg /\ [g EXCEPT !.mem = m].perm = g.perm
        /\ [g EXCEPT !.mem = m].rip = g.rip /\ [g EXCEPT !.mem = m].fault = g.fault
    BY DEF Guests
  <2> QED BY <2>2, <2>3, <2>4 DEF Kept, Placed
<1>2. ASSUME NEW v \in Values
      PROVE  Kept([g EXCEPT !.reg[RAX] = v], g)
  <2> DEFINE q == [g.reg EXCEPT ![RAX] = v]
  <2>1. q \in [Registers -> Values] /\ q[RCX] = g.reg[RCX]
        /\ q[RSP] = g.reg[RSP] /\ q[RSI] = g.reg[RSI] /\ q[RDI] = g.reg[RDI]
    BY RegistersAre DEF Guests
  <2> HIDE DEF q
  <2>2. [g EXCEPT !.reg = q] \in Guests
    BY <2>1 DEF Guests
  <2>3. [g EXCEPT !.reg[RAX] = v] = [g EXCEPT !.reg = q]
    BY DEF Guests, q
  <2>4. /\ [g EXCEPT !.reg = q].reg = q /\ [g EXCEPT !.reg = q].perm = g.perm
        /\ [g EXCEPT !.reg = q].rip = g.rip /\ [g EXCEPT !.reg = q].fault = g.fault
    BY DEF Guests
  <2> QED BY <2>1, <2>2, <2>3, <2>4 DEF Kept, Placed
<1>3. ASSUME NEW v \in BOOLEAN
      PROVE  Kept([g EXCEPT !.zf = v], g)
  BY DEF Kept, Placed, Guests
<1> QED BY <1>1, <1>2, <1>3

\* One element: refused and nothing changed, or done alike, and then what is
\* wanted for the next one holds again.
LEMMA ElementSame ==
  ASSUME NEW ins, ins.kind \in Strings, NEW g \in Guests, Placed(g), g.fault = NoFault
  PROVE  /\ Restarts(Element(ins, g), g, Element(ins, Open(g)))
         /\ Kept(Element(ins, Open(g)), Open(g))
         /\ Element(ins, g).perm = g.perm
<1> DEFINE h == Open(g)
           si == g.reg[RSI]
           di == g.reg[RDI]
           E(acc, regs, b, c) ==
             /\ acc \in Seq(Accesses) /\ regs \in {{RSI}, {RDI}, {RSI, RDI}}
             /\ Alikes(b, c) /\ b.fault = NoFault /\ Kept(b, g) /\ Kept(c, h)
             /\ Element(ins, g) = Guarded(acc, g, Moved(regs, b))
             /\ Element(ins, h) = Guarded(acc, h, Moved(regs, c))
<1>1. /\ h \in Guests /\ IsOpen(h) /\ Alikes(g, h) /\ h.reg = g.reg /\ h.mem = g.mem
      /\ h.fault = NoFault
  BY OpenIs DEF Alikes, SameBut
<1>2. Placed(h) /\ Shaped(g)
  BY <1>1, GuestsShaped DEF Placed
<1> HIDE DEF h
<1>3. si \in Cells /\ di \in Cells
  BY DEF Placed
<1>4. R(si) \in Accesses /\ R(di) \in Accesses /\ W(di) \in Accesses
  BY <1>3, AccessIs
<1>5. g.mem[si] \in Values /\ g.mem[di] \in Values /\ g.reg[RAX] \in Values
  BY <1>3, RegistersAre DEF Guests
<1>6. ASSUME NEW acc, NEW regs, NEW b, NEW c, E(acc, regs, b, c)
      PROVE  /\ Restarts(Element(ins, g), g, Element(ins, h)) /\ Kept(Element(ins, h), h)
             /\ Element(ins, g).perm = g.perm
  <2> DEFINE t == Moved(regs, b)
             u == Moved(regs, c)
  <2>1. Alikes(t, u) /\ t.fault = NoFault
    BY <1>6, MovedSame
  <2>2. Kept(u, c)
    BY <1>6, MovedIs DEF Kept
  <2>3. Kept(u, h)
    BY <1>6, <2>2 DEF Kept
  <2>7. t.perm = g.perm
    <3>1. Kept(t, b)
      BY <1>6, MovedIs DEF Kept
    <3> QED BY <1>6, <3>1 DEF Kept
  <2> HIDE DEF t, u
  <2>8. FaultOnly(Guarded(acc, g, t), g) \/ Guarded(acc, g, t) = t
    BY <1>6, GuardedIs
  <2>9. Guarded(acc, g, t).perm = g.perm
    BY <1>2, <2>7, <2>8 DEF FaultOnly, Shaped
  <2>4. Restarts(Guarded(acc, g, t), g, Guarded(acc, h, u))
    BY <1>1, <1>6, <2>1, GuardedSame
  <2>5. Guarded(acc, h, u) = u
    BY <1>1, <1>6, GuardedOpen
  <2> QED BY <1>6, <2>3, <2>4, <2>5, <2>9 DEF t, u
<1>7. CASE ins.kind = "Movs"
  <2> DEFINE acc == <<R(si), W(di)>>
             b == [g EXCEPT !.mem[di] = g.mem[si]]
             c == [h EXCEPT !.mem[di] = g.mem[si]]
  <2>1. acc \in Seq(Accesses)
    BY <1>4
  <2>2. Alikes(b, c) /\ b.fault = NoFault
    BY <1>1, <1>2 DEF Alikes, Shaped, SameBut
  <2>3. Kept(b, g) /\ Kept(c, h)
    BY <1>1, <1>2, <1>3, <1>5, SetIs
  <2>4. /\ Element(ins, g) = Guarded(acc, g, Moved({RSI, RDI}, b))
        /\ Element(ins, h) = Guarded(acc, h, Moved({RSI, RDI}, c))
    BY <1>1, <1>7 DEF Element
  <2> HIDE DEF acc, b, c
  <2>6. E(acc, {RSI, RDI}, b, c)
    BY <2>1, <2>2, <2>3, <2>4
  <2> HIDE DEF E
  <2> QED BY <1>6, <2>6 DEF h
<1>8. CASE ins.kind = "Stos"
  <2> DEFINE acc == <<W(di)>>
             b == [g EXCEPT !.mem[di] = g.reg[RAX]]
             c == [h EXCEPT !.mem[di] = g.reg[RAX]]
  <2>1. acc \in Seq(Accesses)
    BY <1>4
  <2>2. Alikes(b, c) /\ b.fault = NoFault
    BY <1>1, <1>2 DEF Alikes, Shaped, SameBut
  <2>3. Kept(b, g) /\ Kept(c, h)
    BY <1>1, <1>2, <1>3, <1>5, SetIs
  <2>4. /\ Element(ins, g) = Guarded(acc, g, Moved({RDI}, b))
        /\ Element(ins, h) = Guarded(acc, h, Moved({RDI}, c))
    BY <1>1, <1>8 DEF Element
  <2> HIDE DEF acc, b, c
  <2>6. E(acc, {RDI}, b, c)
    BY <2>1, <2>2, <2>3, <2>4
  <2> HIDE DEF E
  <2> QED BY <1>6, <2>6 DEF h
<1>9. CASE ins.kind = "Lods"
  <2> DEFINE acc == <<R(si)>>
             b == [g EXCEPT !.reg[RAX] = g.mem[si]]
             c == [h EXCEPT !.reg[RAX] = g.mem[si]]
  <2>1. acc \in Seq(Accesses)
    BY <1>4
  <2>2. Alikes(b, c) /\ b.fault = NoFault
    BY <1>1, <1>2 DEF Alikes, Shaped, SameBut
  <2>3. Kept(b, g) /\ Kept(c, h)
    BY <1>1, <1>2, <1>3, <1>5, SetIs
  <2>4. /\ Element(ins, g) = Guarded(acc, g, Moved({RSI}, b))
        /\ Element(ins, h) = Guarded(acc, h, Moved({RSI}, c))
    BY <1>1, <1>9 DEF Element
  <2> HIDE DEF acc, b, c
  <2>6. E(acc, {RSI}, b, c)
    BY <2>1, <2>2, <2>3, <2>4
  <2> HIDE DEF E
  <2> QED BY <1>6, <2>6 DEF h
<1>10. CASE ins.kind = "Scas"
  <2> DEFINE acc == <<R(di)>>
             eq == g.reg[RAX] = g.mem[di]
             b == [g EXCEPT !.zf = eq]
             c == [h EXCEPT !.zf = eq]
  <2>1. acc \in Seq(Accesses)
    BY <1>4
  <2>2. /\ Element(ins, g) = Guarded(acc, g, Moved({RDI}, b))
        /\ Element(ins, h) = Guarded(acc, h, Moved({RDI}, c))
    BY <1>1, <1>10 DEF Element
  <2>3. eq \in BOOLEAN
    OBVIOUS
  <2> HIDE DEF eq
  <2>4. Alikes(b, c) /\ b.fault = NoFault
    BY <1>1, <1>2 DEF Alikes, Shaped, SameBut
  <2>5. Kept(b, g) /\ Kept(c, h)
    BY <1>1, <1>2, <2>3, SetIs
  <2> HIDE DEF acc, b, c
  <2>6. E(acc, {RDI}, b, c)
    BY <2>1, <2>2, <2>4, <2>5
  <2> HIDE DEF E
  <2> QED BY <1>6, <2>6 DEF h
<1>11. CASE ins.kind = "Cmps"
  <2> DEFINE acc == <<R(si), R(di)>>
             eq == g.mem[si] = g.mem[di]
             b == [g EXCEPT !.zf = eq]
             c == [h EXCEPT !.zf = eq]
  <2>1. acc \in Seq(Accesses)
    BY <1>4
  <2>2. /\ Element(ins, g) = Guarded(acc, g, Moved({RSI, RDI}, b))
        /\ Element(ins, h) = Guarded(acc, h, Moved({RSI, RDI}, c))
    BY <1>1, <1>11 DEF Element
  <2>3. eq \in BOOLEAN
    OBVIOUS
  <2> HIDE DEF eq
  <2>4. Alikes(b, c) /\ b.fault = NoFault
    BY <1>1, <1>2 DEF Alikes, Shaped, SameBut
  <2>5. Kept(b, g) /\ Kept(c, h)
    BY <1>1, <1>2, <2>3, SetIs
  <2> HIDE DEF acc, b, c
  <2>6. E(acc, {RSI, RDI}, b, c)
    BY <2>1, <2>2, <2>4, <2>5
  <2> HIDE DEF E
  <2> QED BY <1>6, <2>6 DEF h
<1> QED BY <1>7, <1>8, <1>9, <1>10, <1>11 DEF Strings, h

\* One turn of the loop after another, as RunString has them.
FirstTurn(g) == [guest |-> g, more |-> g.reg[RCX] # 0]
NextTurn(ins, t) ==
  LET e == Element(ins, t.guest)
      c == Counted(e)
  IN  IF ~t.more THEN t
      ELSE IF e.fault # NoFault THEN [guest |-> e, more |-> FALSE]
      ELSE [guest |-> c, more |-> c.reg[RCX] # 0 /\ ~Ends(ins, c)]
TurnsTo(f, ins, g, n) ==
  f = [k \in 0 .. n |-> IF k = 0 THEN FirstTurn(g) ELSE NextTurn(ins, f[k - 1])]
Turns(ins, g) == CHOOSE f : TurnsTo(f, ins, g, N + 1)

LEMMA RunStringIs ==
  \A ins, g : RunString(ins, g) =
    IF ins.rep \/ ins.repne THEN Turns(ins, g)[N + 1].guest ELSE Element(ins, g)
BY DEF RunString, Turns, TurnsTo, FirstTurn, NextTurn

LEMMA TurnsExist ==
  ASSUME NEW ins, NEW g
  PROVE  \A n \in Nat : \E f : TurnsTo(f, ins, g, n)
<1> DEFINE Bad == {n \in Nat : ~\E f : TurnsTo(f, ins, g, n)}
<1>1. SUFFICES ASSUME Bad # {} PROVE FALSE
  OBVIOUS
<1>2. PICK m \in Bad : \A k \in Bad : m <= k
  <2> HIDE DEF Bad
  <2>1. Bad \subseteq Nat
    BY DEF Bad
  <2> QED BY <1>1, <2>1, LeastNat
<1>3. CASE m = 0
  <2> DEFINE f == [k \in 0 .. 0 |-> FirstTurn(g)]
  <2>1. f = [k \in 0 .. 0 |-> IF k = 0 THEN FirstTurn(g) ELSE NextTurn(ins, f[k - 1])]
    OBVIOUS
  <2> QED BY <1>2, <1>3, <2>1 DEF TurnsTo
<1>4. CASE m # 0
  <2>1. m \in Nat /\ m - 1 \in Nat /\ ~(m <= m - 1)
    BY <1>2, <1>4
  <2>2. PICK f : TurnsTo(f, ins, g, m - 1)
    BY <1>2, <2>1
  <2>3. \A k \in 0 .. m - 1 : f[k] = IF k = 0 THEN FirstTurn(g) ELSE NextTurn(ins, f[k - 1])
    BY <2>2 DEF TurnsTo
  <2> DEFINE h == [k \in 0 .. m |-> IF k = m THEN NextTurn(ins, f[m - 1]) ELSE f[k]]
  <2>4. ASSUME NEW k \in 0 .. m
        PROVE  h[k] = IF k = 0 THEN FirstTurn(g) ELSE NextTurn(ins, h[k - 1])
    <3>1. CASE k = m
      <4>1. h[m - 1] = f[m - 1] /\ h[k] = NextTurn(ins, f[m - 1])
        BY <2>1, <3>1
      <4> QED BY <1>4, <3>1, <4>1
    <3>2. CASE k # m
      <4>1. k \in 0 .. m - 1
        BY <2>1, <3>2
      <4>2. k # 0 => h[k - 1] = f[k - 1]
        BY <2>1, <3>2, <4>1
      <4> QED BY <2>3, <3>2, <4>1, <4>2
    <3> QED BY <3>1, <3>2
  <2>5. h = [k \in 0 .. m |-> IF k = 0 THEN FirstTurn(g) ELSE NextTurn(ins, h[k - 1])]
    BY <2>4
  <2> HIDE DEF h
  <2> QED BY <1>2, <2>5 DEF TurnsTo
<1> QED BY <1>3, <1>4

LEMMA TurnsAre ==
  ASSUME NEW ins, NEW g
  PROVE  /\ Turns(ins, g)[0] = FirstTurn(g)
         /\ \A n \in 1 .. N + 1 : Turns(ins, g)[n] = NextTurn(ins, Turns(ins, g)[n - 1])
<1>1. N + 1 \in Nat
  BY CellsAssumption
<1>2. \E f : TurnsTo(f, ins, g, N + 1)
  BY <1>1, TurnsExist
<1>3. TurnsTo(Turns(ins, g), ins, g, N + 1)
  BY <1>2, Zenon DEF Turns
<1> HIDE DEF Turns
<1> DEFINE T == Turns(ins, g)
<1>4. T = [k \in 0 .. N + 1 |-> IF k = 0 THEN FirstTurn(g) ELSE NextTurn(ins, T[k - 1])]
  BY <1>3 DEF TurnsTo
<1> HIDE DEF T
<1>5. \A k \in 0 .. N + 1 : T[k] = IF k = 0 THEN FirstTurn(g) ELSE NextTurn(ins, T[k - 1])
  BY <1>4
<1> QED BY <1>1, <1>5 DEF T

\* A property of the turns that each turn passes on.
LEMMA TurnInduction ==
  ASSUME NEW S, 0 \in S, \A n \in 0 .. N : n \in S => n + 1 \in S
  PROVE  0 .. N + 1 \subseteq S
<1> DEFINE Bad == {n \in 0 .. N + 1 : n \notin S}
<1>1. SUFFICES ASSUME Bad # {} PROVE FALSE
  OBVIOUS
<1>2. N \in Nat
  BY CellsAssumption
<1>3. PICK m \in Bad : \A k \in Bad : m <= k
  <2>1. Bad \subseteq Nat
    BY <1>2
  <2> HIDE DEF Bad
  <2> QED BY <1>1, <2>1, LeastNat
<1>4. m \in 0 .. N + 1 /\ m # 0 /\ m - 1 \in 0 .. N /\ ~(m <= m - 1)
  BY <1>2, <1>3
<1>5. m - 1 \in S
  BY <1>2, <1>3, <1>4
<1>6. m - 1 + 1 \in S /\ m - 1 + 1 = m
  BY <1>4, <1>5
<1> QED BY <1>3, <1>6

LEMMA CountedIs ==
  ASSUME NEW g \in Guests, Placed(g), g.reg[RCX] # 0
  PROVE  LET c == Counted(g) IN
         /\ c \in Guests /\ Placed(c) /\ c.reg[RCX] = g.reg[RCX] - 1 /\ c.perm = g.perm
         /\ c.rip = g.rip /\ c.fault = g.fault
<1> DEFINE q == [g.reg EXCEPT ![RCX] = g.reg[RCX] - 1]
<1>1. g.reg[RCX] \in Values
  BY RegistersAre DEF Guests
<1>2. g.reg[RCX] - 1 \in Values
  BY <1>1, CellsAssumption DEF Values
<1>3. q \in [Registers -> Values] /\ q[RCX] = g.reg[RCX] - 1
      /\ q[RSP] = g.reg[RSP] /\ q[RSI] = g.reg[RSI] /\ q[RDI] = g.reg[RDI]
  BY <1>2, RegistersAre DEF Guests
<1>4. Counted(g) = [g EXCEPT !.reg = q]
  BY DEF Counted, Guests
<1> HIDE DEF q
<1>5. [g EXCEPT !.reg = q] \in Guests
  BY <1>3 DEF Guests
<1>6. /\ [g EXCEPT !.reg = q].reg = q /\ [g EXCEPT !.reg = q].perm = g.perm
      /\ [g EXCEPT !.reg = q].rip = g.rip /\ [g EXCEPT !.reg = q].fault = g.fault
  BY DEF Guests
<1> QED BY <1>3, <1>4, <1>5, <1>6 DEF Placed

LEMMA CountedSame ==
  ASSUME NEW g, NEW h, Alikes(g, h)
  PROVE  /\ Alikes(Counted(g), Counted(h)) /\ Counted(g).fault = g.fault
         /\ Counted(g).perm = g.perm
<1>1. Shaped(g) /\ Shaped(h) /\ SameBut(g, h)
  BY DEF Alikes
<1> DEFINE q == [g.reg EXCEPT ![RCX] = g.reg[RCX] - 1]
<1>2. Counted(g) = [g EXCEPT !.reg = q] /\ Counted(h) = [h EXCEPT !.reg = q]
  BY <1>1 DEF Counted, SameBut, Shaped
<1> HIDE DEF q
<1>3. [g EXCEPT !.reg = q].fault = g.fault /\ [g EXCEPT !.reg = q].perm = g.perm
  BY <1>1 DEF Shaped
<1>4. Alikes([g EXCEPT !.reg = q], [h EXCEPT !.reg = q])
  BY <1>1 DEF Alikes, Shaped, SameBut
<1> QED BY <1>2, <1>3, <1>4

LEMMA EndsSame ==
  ASSUME NEW ins, NEW g, NEW h, Alikes(g, h)
  PROVE  Ends(ins, g) = Ends(ins, h)
BY DEF Ends, Alikes, SameBut

\* A guest alike one that is open is a guest, and opens to that one.
LEMMA AlikeOpen ==
  ASSUME NEW x, NEW y \in Guests, IsOpen(y), Alikes(x, y),
         x.perm \in [Cells -> {"none", "r", "rw"}]
  PROVE  /\ x \in Guests /\ Open(x) = y
         /\ Placed(y) => Placed(x)
<1>1. Shaped(x) /\ SameBut(x, y)
  BY DEF Alikes
<1>2. x.reg = y.reg /\ x.mem = y.mem /\ x.zf = y.zf /\ x.df = y.df /\ x.rip = y.rip /\ x.fault = y.fault
  BY <1>1 DEF SameBut
<1>3. x \in Guests
  <2>1. /\ y.reg \in [Registers -> Values] /\ y.mem \in [Cells -> Values] /\ y.zf \in BOOLEAN
        /\ y.df \in BOOLEAN /\ y.rip \in Values /\ y.fault \in Faults
    BY DEF Guests
  <2>2. /\ x.reg \in [Registers -> Values] /\ x.mem \in [Cells -> Values] /\ x.zf \in BOOLEAN
        /\ x.df \in BOOLEAN /\ x.rip \in Values /\ x.fault \in Faults
    BY <1>2, <2>1
  <2>3. [reg |-> x.reg, mem |-> x.mem, perm |-> x.perm, zf |-> x.zf, df |-> x.df,
         rip |-> x.rip, fault |-> x.fault] \in Guests
    BY <2>2 DEF Guests
  <2> QED BY <1>1, <2>3 DEF Shaped
<1>4. Open(x) = y
  BY <1>1, <1>3, OpenIs
<1> QED BY <1>2, <1>3, <1>4 DEF Placed

\* The loop over open memory: never a fault, and RCX counts down to zero.
OpenTurn(u, rcx, n) ==
  /\ u = [guest |-> u.guest, more |-> u.more] /\ u.more \in BOOLEAN
  /\ u.guest \in Guests /\ Placed(u.guest) /\ IsOpen(u.guest)
  /\ u.guest.fault = NoFault /\ u.guest.rip = Here
  /\ u.more => u.guest.reg[RCX] = rcx - n /\ u.guest.reg[RCX] # 0

LEMMA OpenTurns ==
  ASSUME NEW ins, ins.kind \in Strings, NEW g, Ready(g)
  PROVE  /\ \A n \in 0 .. N + 1 : OpenTurn(Turns(ins, Open(g))[n], g.reg[RCX], n)
         /\ ~Turns(ins, Open(g))[N + 1].more
<1> DEFINE h == Open(g)
           U == Turns(ins, h)
           rcx == g.reg[RCX]
           S == {n \in 0 .. N + 1 : OpenTurn(U[n], rcx, n)}
<1>1. /\ h \in Guests /\ Placed(h) /\ IsOpen(h) /\ h.reg = g.reg /\ h.fault = NoFault
      /\ h.rip = Here
  BY OpenIs DEF Ready, Alikes, SameBut, Placed
<1>2. N \in Nat /\ rcx \in Nat /\ rcx <= N + 1
  <2>1. rcx \in Values
    BY RegistersAre DEF Ready, Guests
  <2> QED BY <2>1, CellsAssumption DEF Ready, Values
<1>3. U[0] = FirstTurn(h) /\ \A n \in 1 .. N + 1 : U[n] = NextTurn(ins, U[n - 1])
  BY TurnsAre
<1> HIDE DEF h, U, rcx
<1>4. 0 \in S
  <2> DEFINE b == h.reg[RCX] # 0
  <2>2. U[0] = [guest |-> h, more |-> b]
    BY <1>3 DEF FirstTurn
  <2> HIDE DEF b
  <2>3. U[0].guest = h /\ U[0].more = b
    BY <2>2
  <2>1. U[0].guest = h /\ (U[0].more => rcx # 0) /\ U[0].more \in BOOLEAN
    BY <1>1, <2>3, Zenon DEF b, rcx
  <2>4. U[0] = [guest |-> U[0].guest, more |-> U[0].more]
    BY <2>2
  <2> QED BY <1>1, <1>2, <2>1, <2>4 DEF OpenTurn, rcx
<1>5. ASSUME NEW n \in 0 .. N, n \in S PROVE n + 1 \in S
  <2> DEFINE u == U[n]
             v == U[n + 1]
             y == u.guest
             e == Element(ins, y)
             c == Counted(e)
  <2>1. n + 1 \in 1 .. N + 1 /\ n + 1 - 1 = n /\ n \in Nat
    BY <1>2
  <2>2. v = NextTurn(ins, u)
    BY <1>3, <2>1
  <2>3. OpenTurn(u, rcx, n)
    BY <1>5
  <2>4. CASE ~u.more
    <3>1. v = u
      BY <2>2, <2>4 DEF NextTurn
    <3>2. OpenTurn(v, rcx, n + 1)
      BY <2>3, <2>4, <3>1 DEF OpenTurn
    <3> QED BY <2>1, <3>2
  <2>5. CASE u.more
    <3>1. /\ y \in Guests /\ Placed(y) /\ IsOpen(y) /\ y.fault = NoFault /\ y.rip = Here
          /\ y.reg[RCX] = rcx - n /\ y.reg[RCX] # 0
      BY <2>3, <2>5 DEF OpenTurn
    <3>2. Open(y) = y
      BY <3>1, OpenIs DEF SameBut
    <3>3. Kept(e, y)
      BY <3>1, <3>2, ElementSame
    <3> HIDE DEF e
    <3>4. e \in Guests /\ Placed(e) /\ e.reg[RCX] = y.reg[RCX] /\ e.fault = NoFault
          /\ e.rip = Here /\ IsOpen(e)
      BY <3>1, <3>3 DEF Kept, IsOpen
    <3>5. /\ c \in Guests /\ Placed(c) /\ c.reg[RCX] = rcx - n - 1 /\ c.fault = NoFault
          /\ c.rip = Here /\ IsOpen(c)
      BY <3>1, <3>4, CountedIs DEF IsOpen
    <3>6. v = [guest |-> c, more |-> c.reg[RCX] # 0 /\ ~Ends(ins, c)]
      BY <2>2, <2>5, <3>4, Zenon DEF NextTurn, e
    <3> HIDE DEF c
    <3> DEFINE b == c.reg[RCX] # 0 /\ ~Ends(ins, c)
    <3> HIDE DEF b
    <3>10. v.guest = c /\ v.more = b
      BY <3>6 DEF b
    <3>7. v.guest = c /\ (v.more => c.reg[RCX] # 0) /\ v.more \in BOOLEAN
      BY <3>10, Zenon DEF b
    <3>11. v = [guest |-> v.guest, more |-> v.more]
      BY <3>6 DEF b
    <3>8. rcx - n - 1 = rcx - (n + 1)
      BY <1>2, <2>1
    <3>9. OpenTurn(v, rcx, n + 1)
      BY <3>5, <3>7, <3>8, <3>11 DEF OpenTurn
    <3> QED BY <2>1, <3>9
  <2> QED BY <2>4, <2>5
<1>6. 0 .. N + 1 \subseteq S
  <2> HIDE DEF S
  <2> QED BY <1>4, <1>5, TurnInduction
<1>7. \A n \in 0 .. N + 1 : OpenTurn(U[n], rcx, n)
  BY <1>6
<1>8. ~U[N + 1].more
  <2>1. OpenTurn(U[N + 1], rcx, N + 1)
    BY <1>2, <1>7
  <2>2. U[N + 1].guest.reg[RCX] \in Nat
    BY <2>1, RegistersAre, CellsAssumption DEF OpenTurn, Guests, Values
  <2> QED BY <1>2, <2>1, <2>2 DEF OpenTurn
<1> QED BY <1>7, <1>8 DEF h, U, rcx

\* The loop over refused memory goes as the one over open memory until a turn
\* of it faults, before that turn has changed anything.
BreaksOff(t, U, n, g) ==
  \E m \in 0 .. n : \E x :
    U[m].more /\ FaultOnly(t.guest, x) /\ x.perm = g.perm /\ Alikes(x, U[m].guest)
Even(t, u, g) ==
  /\ t.guest.fault = NoFault /\ t.guest.perm = g.perm /\ Alikes(t.guest, u.guest)
  /\ t.more = u.more
SameTurn(t, U, n, g) == Even(t, U[n], g) \/ (~t.more /\ BreaksOff(t, U, n, g))

LEMMA TurnsSame ==
  ASSUME NEW ins, ins.kind \in Strings, NEW g, Ready(g)
  PROVE  \A n \in 0 .. N + 1 : SameTurn(Turns(ins, g)[n], Turns(ins, Open(g)), n, g)
<1> DEFINE h == Open(g)
           T == Turns(ins, g)
           U == Turns(ins, h)
           S == {n \in 0 .. N + 1 : SameTurn(T[n], U, n, g)}
<1>1. /\ g \in Guests /\ g.fault = NoFault /\ Alikes(g, h) /\ h.reg = g.reg
      /\ g.perm \in [Cells -> {"none", "r", "rw"}]
  BY OpenIs DEF Ready, Alikes, SameBut, Guests
<1>2. N \in Nat
  BY CellsAssumption
<1>3. /\ U[0] = FirstTurn(h) /\ \A n \in 1 .. N + 1 : U[n] = NextTurn(ins, U[n - 1])
      /\ T[0] = FirstTurn(g) /\ \A n \in 1 .. N + 1 : T[n] = NextTurn(ins, T[n - 1])
  BY TurnsAre
<1>4. \A n \in 0 .. N + 1 : OpenTurn(U[n], g.reg[RCX], n)
  BY OpenTurns
<1> HIDE DEF h, T, U
<1>5. 0 \in S
  <2> DEFINE b == g.reg[RCX] # 0
  <2>1. T[0] = [guest |-> g, more |-> b] /\ U[0] = [guest |-> h, more |-> b]
    BY <1>1, <1>3 DEF FirstTurn
  <2> HIDE DEF b
  <2>2. Even(T[0], U[0], g)
    BY <1>1, <2>1 DEF Even
  <2> QED BY <1>2, <2>2 DEF SameTurn
<1>6. ASSUME NEW n \in 0 .. N, n \in S PROVE n + 1 \in S
  <2>1. n + 1 \in 1 .. N + 1 /\ n + 1 - 1 = n /\ n \in Nat /\ n \in 0 .. N + 1
        /\ 0 .. n \subseteq 0 .. n + 1
    BY <1>2
  <2> DEFINE t == T[n]
             u == U[n]
             x == t.guest
             y == u.guest
             e == Element(ins, x)
             f == Element(ins, y)
  <2>2. T[n + 1] = NextTurn(ins, t) /\ U[n + 1] = NextTurn(ins, u)
    BY <1>3, <2>1
  <2>3. SameTurn(t, U, n, g)
    BY <1>6
  <2>4. CASE ~t.more /\ BreaksOff(t, U, n, g)
    <3>1. T[n + 1] = t
      BY <2>2, <2>4 DEF NextTurn
    <3>2. BreaksOff(t, U, n + 1, g)
      BY <2>1, <2>4 DEF BreaksOff
    <3> QED BY <2>1, <2>4, <3>1, <3>2 DEF SameTurn
  <2>5. CASE Even(t, u, g) /\ ~t.more
    <3>1. T[n + 1] = t /\ U[n + 1] = u
      BY <2>2, <2>5 DEF NextTurn, Even
    <3> QED BY <2>1, <2>5, <3>1 DEF SameTurn
  <2>6. CASE Even(t, u, g) /\ t.more
    <3>1. /\ x.fault = NoFault /\ x.perm = g.perm /\ Alikes(x, y) /\ u.more
      BY <2>6 DEF Even
    <3>2. y \in Guests /\ Placed(y) /\ IsOpen(y) /\ y.fault = NoFault
      BY <1>4, <2>1 DEF OpenTurn
    <3>3. x \in Guests /\ Open(x) = y /\ Placed(x)
      BY <1>1, <3>1, <3>2, AlikeOpen
    <3>4. Restarts(e, x, f) /\ Kept(f, y) /\ e.perm = x.perm
      BY <3>1, <3>3, ElementSame
    <3>5. f.fault = NoFault
      BY <3>2, <3>4 DEF Kept
    <3> HIDE DEF e, f
    <3> DEFINE c == Counted(e)
               d == Counted(f)
               b == c.reg[RCX] # 0 /\ ~Ends(ins, c)
               a == d.reg[RCX] # 0 /\ ~Ends(ins, d)
    <3>6. U[n + 1] = [guest |-> d, more |-> a]
      BY <2>2, <3>1, <3>5, Zenon DEF NextTurn, f
    <3>7. CASE FaultOnly(e, x)
      <4>1. e.fault # NoFault
        BY <3>3, <3>7 DEF FaultOnly, Guests, NoFault
      <4>2. T[n + 1] = [guest |-> e, more |-> FALSE]
        BY <2>2, <2>6, <4>1, Zenon DEF NextTurn, e
      <4> HIDE DEF t, u
      <4>3. T[n + 1].guest = e /\ ~T[n + 1].more
        BY <4>2
      <4>4. n \in 0 .. n + 1
        BY <2>1
      <4>5. U[n].more /\ FaultOnly(T[n + 1].guest, x) /\ x.perm = g.perm /\ Alikes(x, U[n].guest)
        BY <3>1, <3>7, <4>3 DEF u
      <4>6. BreaksOff(T[n + 1], U, n + 1, g)
        BY <4>4, <4>5 DEF BreaksOff
      <4> QED BY <2>1, <4>3, <4>6 DEF SameTurn
    <3>8. CASE e.fault.kind # "Memory" /\ Alikes(e, f)
      <4>1. e.fault = NoFault
        BY <3>5, <3>8 DEF Alikes, SameBut
      <4>2. T[n + 1] = [guest |-> c, more |-> b]
        BY <2>2, <2>6, <4>1, Zenon DEF NextTurn, e
      <4>3. Alikes(c, d) /\ c.fault = NoFault /\ c.perm = g.perm
        BY <3>1, <3>4, <3>8, <4>1, CountedSame
      <4> HIDE DEF c, d
      <4>4. b = a
        BY <4>3, EndsSame DEF Alikes, SameBut
      <4> HIDE DEF a, b
      <4>5. Even(T[n + 1], U[n + 1], g)
        BY <3>6, <4>2, <4>3, <4>4 DEF Even
      <4> QED BY <2>1, <4>5 DEF SameTurn
    <3> QED BY <3>4, <3>7, <3>8 DEF Restarts
  <2> QED BY <2>3, <2>4, <2>5, <2>6 DEF SameTurn
<1>7. 0 .. N + 1 \subseteq S
  <2> HIDE DEF S
  <2> QED BY <1>5, <1>6, TurnInduction
<1> QED BY <1>7 DEF T, U, h

\* A loop that is started again after some turns goes on where it was.
LEMMA TurnsShift ==
  ASSUME NEW ins, ins.kind \in Strings, NEW g, Ready(g),
         NEW m \in 0 .. N + 1, Turns(ins, Open(g))[m].more
  PROVE  Turns(ins, Turns(ins, Open(g))[m].guest)[N + 1] = Turns(ins, Open(g))[N + 1]
<1> DEFINE U == Turns(ins, Open(g))
           V == Turns(ins, U[m].guest)
           S == {k \in 0 .. N + 1 : m + k <= N + 1 => V[k] = U[m + k]}
           Z == {k \in 0 .. N + 1 : N + 1 - m <= k => V[k] = U[N + 1]}
<1>1. N \in Nat /\ m \in Nat /\ m <= N + 1
  BY CellsAssumption
<1>2. \A n \in 1 .. N + 1 : U[n] = NextTurn(ins, U[n - 1])
  BY TurnsAre
<1>3. V[0] = FirstTurn(U[m].guest) /\ \A n \in 1 .. N + 1 : V[n] = NextTurn(ins, V[n - 1])
  BY TurnsAre
<1>4. (\A n \in 0 .. N + 1 : OpenTurn(U[n], g.reg[RCX], n)) /\ ~U[N + 1].more /\ U[m].more
  BY OpenTurns
<1> HIDE DEF U, V
<1>5. V[0] = U[m]
  <2>1. U[m].guest.reg[RCX] # 0
    BY <1>4 DEF OpenTurn
  <2>2. U[m] = [guest |-> U[m].guest, more |-> U[m].more] /\ U[m].more = TRUE
    BY <1>4 DEF OpenTurn
  <2> DEFINE b == U[m].guest.reg[RCX] # 0
  <2>3. b = TRUE
    BY <2>1
  <2>4. V[0] = [guest |-> U[m].guest, more |-> b]
    BY <1>3 DEF FirstTurn
  <2> HIDE DEF b
  <2> QED BY <2>2, <2>3, <2>4
<1>6. 0 \in S
  BY <1>1, <1>5
<1>7. ASSUME NEW k \in 0 .. N, k \in S PROVE k + 1 \in S
  <2>1. k \in Nat /\ k + 1 \in 1 .. N + 1 /\ k + 1 - 1 = k
    BY <1>1
  <2>2. SUFFICES ASSUME m + (k + 1) <= N + 1 PROVE V[k + 1] = U[m + (k + 1)]
    BY <2>1
  <2>3. m + k <= N + 1 /\ m + (k + 1) \in 1 .. N + 1 /\ m + (k + 1) - 1 = m + k
    BY <1>1, <2>1, <2>2
  <2>4. V[k] = U[m + k]
    BY <1>7, <2>3
  <2>5. V[k + 1] = NextTurn(ins, V[k])
    BY <1>3, <2>1
  <2>6. U[m + (k + 1)] = NextTurn(ins, U[m + k])
    BY <1>2, <2>3
  <2> QED BY <2>4, <2>5, <2>6
<1>8. 0 .. N + 1 \subseteq S
  <2> HIDE DEF S
  <2> QED BY <1>6, <1>7, TurnInduction
<1>9. \A k \in 0 .. N + 1 : m + k = N + 1 => V[k] = U[N + 1]
  BY <1>1, <1>8
<1>10. 0 \in Z
  BY <1>1, <1>9
<1>11. ASSUME NEW k \in 0 .. N, k \in Z PROVE k + 1 \in Z
  <2>1. k \in Nat /\ k + 1 \in 1 .. N + 1 /\ k + 1 - 1 = k
    BY <1>1
  <2>2. CASE m + (k + 1) = N + 1
    BY <1>9, <2>1, <2>2
  <2>3. CASE N + 1 - m <= k
    <3>1. V[k] = U[N + 1]
      BY <1>11, <2>3
    <3>2. V[k + 1] = NextTurn(ins, V[k])
      BY <1>3, <2>1
    <3>3. NextTurn(ins, U[N + 1]) = U[N + 1]
      BY <1>4 DEF NextTurn
    <3> QED BY <2>1, <3>1, <3>2, <3>3
  <2> QED BY <1>1, <2>1, <2>2, <2>3
<1>12. 0 .. N + 1 \subseteq Z
  <2> HIDE DEF Z
  <2> QED BY <1>10, <1>11, TurnInduction
<1>13. N + 1 \in Z
  BY <1>1, <1>12
<1> QED BY <1>1, <1>13 DEF U, V

\* The handler of each kind of instruction.
LEMMA HandleIs ==
  ASSUME NEW ins, NEW g
  PROVE  /\ ins.kind = "Mov" => Handle(ins, g) = OpMov(ins, g)
         /\ ins.kind = "Lea" => Handle(ins, g) = OpLea(ins, g)
         /\ ins.kind = "Cmov" => Handle(ins, g) = OpCmov(ins, g)
         /\ ins.kind = "Xchg" => Handle(ins, g) = OpXchg(ins, g)
         /\ ins.kind = "Push" => Handle(ins, g) = OpPush(ins, g)
         /\ ins.kind = "Pop" => Handle(ins, g) = OpPop(ins, g)
         /\ ins.kind = "Jmp" => Handle(ins, g) = OpJmp(ins, g)
         /\ ins.kind = "Jcc" => Handle(ins, g) = OpJcc(ins, g)
         /\ ins.kind = "Call" => Handle(ins, g) = OpCall(ins, g)
         /\ ins.kind = "Ret" => Handle(ins, g) = OpRet(ins, g)
         /\ ins.kind = "Jcxz" => Handle(ins, g) = OpJcxz(ins, g)
         /\ ins.kind \in LoopKinds => Handle(ins, g) = OpLoop(ins, g)
         /\ ins.kind = "Syscall" => Handle(ins, g) = OpSyscall(ins, g)
         /\ ins.kind = "X87Store" => Handle(ins, g) = OpX87Store(ins, g)
         /\ ins.kind \in Strings => Handle(ins, g) = RunString(ins, g)
         /\ ins.kind \in Faulting => Handle(ins, g) = OtherFault(g)
<1>1. PICK k : k = ins.kind
  OBVIOUS
<1> QED BY <1>1 DEF Handle, LoopKinds, Strings, Faulting

\* What a handler that faults on memory leaves is the guest to start again
\* from, which ends as the one it was started with.
Resumes(r, ins, s) == \E x : FaultOnly(r, x) /\ Ready(x) /\ Handle(ins, Open(x)) = s
Precise(ins) == ~(ins.kind = "Call" /\ InMemory(ins.dst)) /\ ins.kind # "X87Store"

LEMMA StringSame ==
  ASSUME NEW ins, ins.kind \in Strings, NEW g, Ready(g)
  PROVE  LET r == Handle(ins, g)
             s == Handle(ins, Open(g))
         IN  (r.fault.kind # "Memory" /\ Alikes(r, s)) \/ Resumes(r, ins, s)
<1>1. /\ g \in Guests /\ Placed(g) /\ g.fault = NoFault /\ g.rip = Here
      /\ g.perm \in [Cells -> {"none", "r", "rw"}] /\ g.reg[RCX] \in Nat /\ g.reg[RCX] <= N + 1
  BY RegistersAre, CellsAssumption DEF Ready, Guests, Values
<1>2. \A k : Handle(ins, k) = RunString(ins, k)
  BY HandleIs
<1>3. CASE ~(ins.rep \/ ins.repne)
  <2>1. \A k : Handle(ins, k) = Element(ins, k)
    BY <1>2, <1>3, RunStringIs
  <2>2. Restarts(Element(ins, g), g, Element(ins, Open(g)))
    BY <1>1, ElementSame
  <2> QED BY <2>1, <2>2 DEF Restarts, Resumes
<1>4. CASE ins.rep \/ ins.repne
  <2> DEFINE U == Turns(ins, Open(g))
             t == Turns(ins, g)[N + 1]
             r == t.guest
             s == U[N + 1].guest
  <2>1. \A k : Handle(ins, k) = Turns(ins, k)[N + 1].guest
    BY <1>2, <1>4, RunStringIs
  <2>2. N + 1 \in 0 .. N + 1
    BY CellsAssumption
  <2>3. SameTurn(t, U, N + 1, g)
    BY <2>2, TurnsSame
  <2>4. CASE Even(t, U[N + 1], g)
    BY <2>1, <2>4 DEF Even, NoFault
  <2>5. CASE BreaksOff(t, U, N + 1, g)
    <3>0. PICK m \in 0 .. N + 1 : \E x :
            U[m].more /\ FaultOnly(r, x) /\ x.perm = g.perm /\ Alikes(x, U[m].guest)
      BY <2>5 DEF BreaksOff
    <3>1. PICK x :
            U[m].more /\ FaultOnly(r, x) /\ x.perm = g.perm /\ Alikes(x, U[m].guest)
      BY <3>0
    <3>2. OpenTurn(U[m], g.reg[RCX], m)
      BY OpenTurns
    <3> DEFINE y == U[m].guest
    <3>3. /\ y \in Guests /\ Placed(y) /\ IsOpen(y) /\ y.fault = NoFault /\ y.rip = Here
          /\ y.reg[RCX] = g.reg[RCX] - m
      BY <3>1, <3>2 DEF OpenTurn
    <3>4. Turns(ins, y)[N + 1] = U[N + 1]
      BY <3>1, TurnsShift
    <3> HIDE DEF y, U, t
    <3>5. x \in Guests /\ Open(x) = y /\ Placed(x)
      BY <1>1, <3>1, <3>3, AlikeOpen DEF y
    <3>6. x.fault = NoFault /\ x.rip = Here /\ x.reg[RCX] <= N + 1
      BY <1>1, <3>1, <3>3, CellsAssumption DEF Alikes, SameBut, y
    <3>7. Ready(x)
      BY <3>5, <3>6 DEF Ready
    <3>8. Handle(ins, Open(x)) = s
      BY <2>1, <3>4, <3>5
    <3> QED BY <2>1, <3>1, <3>7, <3>8 DEF Resumes, U, t
  <2> QED BY <2>3, <2>4, <2>5 DEF SameTurn
<1> QED BY <1>3, <1>4

LEMMA HandleSame ==
  ASSUME NEW ins, ins.kind \in Handled, Precise(ins), Sited(ins.dst), Sited(ins.src),
         NEW g, Ready(g)
  PROVE  LET r == Handle(ins, g)
             s == Handle(ins, Open(g))
         IN  (r.fault.kind # "Memory" /\ Alikes(r, s)) \/ Resumes(r, ins, s)
<1>1. CASE ins.kind \in Strings
  BY <1>1, StringSame
<1>2. CASE ins.kind \notin Strings
  <2>1. Restarts(Handle(ins, g), g, Handle(ins, Open(g)))
    <3>1. CASE ins.kind = "Mov"
      BY <3>1, HandleIs, MovSame
    <3>2. CASE ins.kind = "Lea"
      BY <3>2, HandleIs, LeaCmovSame
    <3>3. CASE ins.kind = "Cmov"
      BY <3>3, HandleIs, LeaCmovSame
    <3>4. CASE ins.kind = "Xchg"
      BY <3>4, HandleIs, XchgSame
    <3>5. CASE ins.kind = "Push"
      BY <3>5, HandleIs, PushPopSame
    <3>6. CASE ins.kind = "Pop"
      BY <3>6, HandleIs, PushPopSame
    <3>7. CASE ins.kind = "Jmp"
      BY <3>7, HandleIs, JumpSame
    <3>8. CASE ins.kind = "Jcc"
      BY <3>8, HandleIs, JumpSame
    <3>9. CASE ins.kind = "Call"
      BY <3>9, HandleIs, CallSame DEF Precise
    <3>10. CASE ins.kind = "Ret"
      BY <3>10, HandleIs, RetSame
    <3>11. CASE ins.kind = "Jcxz"
      BY <3>11, HandleIs, JumpSame
    <3>12. CASE ins.kind \in LoopKinds
      BY <3>12, HandleIs, JumpSame
    <3>13. CASE ins.kind = "Syscall"
      BY <3>13, HandleIs, OtherFaultSame
    <3>14. CASE ins.kind \in Faulting
      BY <3>14, HandleIs, OtherFaultSame
    <3> QED BY <1>2, <3>1, <3>2, <3>3, <3>4, <3>5, <3>6, <3>7, <3>8, <3>9, <3>10, <3>11,
              <3>12, <3>13, <3>14 DEF Handled, Precise
  <2> QED BY <2>1 DEF Restarts, Resumes
<1> QED BY <1>1, <1>2

-----------------------------------------------------------------------------
(* Restarts *)

\* A refused access is repaired: nothing but the permissions has changed.
Repaired(r, c, p) == [r EXCEPT !.fault = NoFault, !.perm[c] = p]

LEMMA RepairedIs ==
  ASSUME NEW x, Ready(x), NEW r, FaultOnly(r, x), NEW c, NEW p \in {"r", "rw"}
  PROVE  r.rip = Here /\ Ready(Repaired(r, c, p)) /\ Open(Repaired(r, c, p)) = Open(x)
<1> DEFINE y == Repaired(r, c, p)
<1>1. /\ x \in Guests /\ Placed(x) /\ x.reg[RCX] <= N + 1 /\ x.rip = Here
      /\ x.fault = NoFault
  BY DEF Ready
<1>2. PICK f \in Faults : r = [x EXCEPT !.fault = f]
  BY DEF FaultOnly
<1> DEFINE q == [x.perm EXCEPT ![c] = p]
<1>3. r = [reg |-> x.reg, mem |-> x.mem, perm |-> x.perm, zf |-> x.zf, df |-> x.df,
           rip |-> x.rip, fault |-> f]
  BY <1>1, <1>2 DEF Guests
<1>4. q \in [Cells -> {"none", "r", "rw"}]
  BY <1>1 DEF Guests
<1>5. y = [reg |-> x.reg, mem |-> x.mem, perm |-> q, zf |-> x.zf, df |-> x.df,
           rip |-> x.rip, fault |-> NoFault]
  <2>1. PICK k : k = [reg |-> x.reg, mem |-> x.mem, perm |-> x.perm, zf |-> x.zf,
                      df |-> x.df, rip |-> x.rip, fault |-> f]
    OBVIOUS
  <2>2. y = [k EXCEPT !.fault = NoFault, !.perm[c] = p]
    BY <1>3, <2>1 DEF Repaired
  <2> HIDE DEF y
  <2> QED BY <2>1, <2>2
<1> HIDE DEF q, y
<1>6. y \in Guests
  BY <1>1, <1>4, <1>5 DEF Guests
<1>7. SameBut(y, x)
  <2>1. y.reg = x.reg /\ y.mem = x.mem /\ y.rip = x.rip /\ y.fault = x.fault
    BY <1>1, <1>5
  <2>2. y.zf = x.zf
    BY <1>5
  <2>3. y.df = x.df
    BY <1>5
  <2> QED BY <2>1, <2>2, <2>3 DEF SameBut
<1>8. Ready(y)
  BY <1>1, <1>6, <1>7 DEF Ready, Placed, SameBut
<1>9. Open(y) = Open(x)
  <2>1. Open(y) \in Guests /\ IsOpen(Open(y)) /\ Alikes(y, Open(y))
    BY <1>6, OpenIs
  <2>2. SameBut(x, Open(y))
    BY <1>7, <2>1 DEF Alikes, SameBut
  <2> QED BY <1>1, <2>1, <2>2, OpenIs
<1> QED BY <1>1, <1>3, <1>8, <1>9 DEF y

\* Two alike guests move on alike, and are the same but for permissions.
LEMMA AdvancedSame ==
  ASSUME NEW o, NEW g, NEW h, Alikes(g, h)
  PROVE  /\ Advanced(o, g).fault = g.fault
         /\ Advanced(o, g) = [Advanced(o, h) EXCEPT !.perm = Advanced(o, g).perm]
<1>1. Shaped(g) /\ Shaped(h) /\ SameBut(g, h)
  BY DEF Alikes
<1>2. Alikes([g EXCEPT !.rip = o.next], [h EXCEPT !.rip = o.next])
  BY FieldSame
<1>3. [g EXCEPT !.rip = o.next].fault = g.fault
  BY <1>1 DEF Shaped
<1>4. Alikes(Advanced(o, g), Advanced(o, h)) /\ Advanced(o, g).fault = g.fault
  BY <1>1, <1>2, <1>3 DEF Advanced, SameBut
<1> DEFINE a == Advanced(o, g)
           b == Advanced(o, h)
<1> HIDE DEF a, b
<1>5. a = [b EXCEPT !.perm = a.perm]
  BY <1>4 DEF Alikes, Shaped, SameBut, a, b
<1> QED BY <1>4, <1>5 DEF a, b

LEMMA SitedIs ==
  ASSUME NEW i, NEW base \in {RSP, RSI}
  PROVE  Sited(OpOf(i, base).dst) /\ Sited(OpOf(i, base).src) /\ OpOf(i, base).kind = i.kind
<1>1. \A o : Sited(Located(o, base))
  <2> SUFFICES ASSUME NEW o PROVE Sited(Located(o, base))
    OBVIOUS
  <2>1. base \in Registers /\ 0 \in Registers /\ Other \in Registers
    BY DEF Registers, RAX, RSP, RSI
  <2>2. CASE o.kind = "Mem"
    BY <2>1, <2>2 DEF Located, Sited, Operand
  <2>3. CASE o.kind = "Reg"
    BY <2>1, <2>3 DEF Located, Sited, Operand
  <2>4. CASE o.kind \notin {"Mem", "Reg"}
    BY <2>1, <2>4 DEF Located, Sited, Operand
  <2> QED BY <2>2, <2>3, <2>4
<1> QED BY <1>1 DEF OpOf

\* How far the instruction has come: what a run starts or resumes with opens
\* to the same end as the start did, and that end is where it stops.
Began ==
  /\ phase # "decode" => op.kind \in Handled /\ Sited(op.dst) /\ Sited(op.src)
  /\ phase \notin {"decode", "entered"} => Ready(start)
End == Handle(op, Open(start))
Underway ==
  /\ phase = "run" => Ready(guest) /\ Handle(op, Open(guest)) = End
  /\ phase = "fault" /\ guest.fault.kind = "Memory" => Resumes(guest, op, End)
  /\ phase = "done" => guest = [Advanced(op, End) EXCEPT !.perm = guest.perm]
RInv == Began /\ (Precise(op) => Underway)

LEMMA RInvStep ==
  ASSUME RInv, [MCNext]_<<guestVars, foldVars>>
  PROVE  RInv'
<1>1. CASE UNCHANGED guestVars
  BY <1>1 DEF RInv, Began, Underway, End, guestVars, stepVars, Precise
<1>2. CASE Decode
  BY <1>2 DEF RInv, Began, Underway, End, stepVars, Precise, Decode
<1>3. CASE \E base \in {RSP, RSI} : Enter(base)
  <2>1. PICK base \in {RSP, RSI} : Enter(base)
    BY <1>3
  <2>2. phase' = "entered" /\ op' = OpOf(insn, base) /\ insn.kind \in Handled
    BY <2>1 DEF Enter
  <2> QED BY <2>2, SitedIs DEF RInv, Began, Underway
<1>4. CASE \E g \in Arrivals(op.kind) : Arrive(g)
  <2>1. PICK g \in Arrivals(op.kind) : Arrive(g)
    BY <1>4
  <2>2. /\ phase = "entered" /\ phase' = "run" /\ guest' = g /\ start' = g /\ op' = op
    BY <2>1 DEF Arrive
  <2>3. op.kind \in Handled /\ Sited(op.dst) /\ Sited(op.src)
    BY <2>2 DEF RInv, Began
  <2>4. Ready(g)
    BY <2>3, ArrivalsAssumption
  <2> QED BY <2>2, <2>3, <2>4 DEF RInv, Began, Underway, End
<1>5. CASE Execute
  <2>1. /\ phase = "run" /\ guest' = Advanced(op, Handle(op, guest)) /\ op' = op /\ start' = start
        /\ phase' = IF guest'.fault = NoFault THEN "done" ELSE "fault"
    BY <1>5 DEF Execute
  <2>2. Began' /\ op.kind \in Handled /\ Sited(op.dst) /\ Sited(op.src)
    BY <2>1 DEF RInv, Began
  <2>3. ASSUME Precise(op) PROVE Underway'
    <3> DEFINE r == Handle(op, guest)
               s == Handle(op, Open(guest))
    <3>1. Ready(guest) /\ s = End /\ End' = End
      BY <2>1, <2>3 DEF RInv, Underway, End
    <3>2. (r.fault.kind # "Memory" /\ Alikes(r, s)) \/ Resumes(r, op, s)
      BY <2>2, <2>3, <3>1, HandleSame
    <3> HIDE DEF r, s
    <3>3. CASE r.fault.kind # "Memory" /\ Alikes(r, s)
      <4>1. guest'.fault.kind # "Memory" /\ guest' = [Advanced(op, s) EXCEPT !.perm = guest'.perm]
        BY <2>1, <3>3, AdvancedSame DEF r
      <4> QED BY <2>1, <3>1, <4>1 DEF Underway
    <3>4. CASE Resumes(r, op, s)
      <4>1. r.fault.kind = "Memory"
        <5>1. PICK x : FaultOnly(r, x) /\ Ready(x)
          BY <3>4 DEF Resumes
        <5> QED BY <5>1 DEF FaultOnly, Ready, Guests
      <4>2. r.fault # NoFault
        BY <4>1 DEF NoFault
      <4>3. guest' = r
        BY <2>1, <4>2 DEF Advanced, r
      <4>4. phase' = "fault"
        BY <2>1, <4>2, <4>3
      <4> QED BY <2>1, <3>1, <3>4, <4>3, <4>4 DEF Underway
    <3> QED BY <3>2, <3>3, <3>4
  <2> QED BY <2>1, <2>2, <2>3 DEF RInv
<1>6. CASE Recover
  <2> DEFINE p == IF guest.fault.write THEN "rw" ELSE "r"
             c == guest.fault.cell
  <2>1. /\ phase = "fault" /\ guest.fault.kind = "Memory" /\ op' = op /\ start' = start
        /\ guest' = [guest EXCEPT !.fault = NoFault, !.perm[c] = p]
        /\ phase' = IF guest.rip = Here THEN "run" ELSE "done"
    BY <1>6 DEF Recover
  <2>2. Began'
    BY <2>1 DEF RInv, Began
  <2>3. ASSUME Precise(op) PROVE Underway'
    <3>1. PICK x : FaultOnly(guest, x) /\ Ready(x) /\ Handle(op, Open(x)) = End
      BY <2>1, <2>3 DEF RInv, Underway, Resumes
    <3>2. p \in {"r", "rw"} /\ guest' = Repaired(guest, c, p)
      BY <2>1 DEF Repaired
    <3> HIDE DEF p, c
    <3>3. guest.rip = Here /\ Ready(guest') /\ Open(guest') = Open(x)
      BY <3>1, <3>2, RepairedIs
    <3>4. End' = End
      BY <2>1 DEF End
    <3> QED BY <2>1, <3>1, <3>3, <3>4 DEF Underway
  <2> QED BY <2>1, <2>2, <2>3 DEF RInv
<1> QED BY <1>1, <1>2, <1>3, <1>4, <1>5, <1>6 DEF MCNext, GuestNext, guestVars

\* However many accesses an instruction has refused on its way, one after the
\* other and whatever it had done of a repeated string by then, it ends as it
\* would have with all memory open.
THEOREM RestartableHolds == MCSpec => []Restartable
<1>1. MCInit => RInv
  <2> SUFFICES ASSUME MCInit PROVE RInv
    OBVIOUS
  <2>1. phase = "decode"
    BY DEF MCInit, GuestInit
  <2> QED BY <2>1 DEF RInv, Began, Underway
<1>2. RInv /\ [MCNext]_<<guestVars, foldVars>> => RInv'
  BY RInvStep
<1>3. RInv => Restartable
  BY DEF RInv, Underway, End, Restartable, Precise, Open, AllOpen
<1> QED BY <1>1, <1>2, <1>3, PTL DEF MCSpec

-----------------------------------------------------------------------------
(* Branches *)

\* The instructions that may leave the straight line, and the formats that
\* say so of them.
Leaving ==
  {"Jmp", "Jcc", "Call", "Ret", "Jcxz", "Syscall"} \cup LoopKinds \cup Faulting
Marked(f) == f.kind \in Leaving => "CONTROL_FLOW" \in f.flags

LEMMA KindsAre ==
  /\ \A i \in 1 .. 8 : AluKind[i] \notin Leaving /\ ShiftKind[i] \notin Leaving
  /\ \A i \in 1 .. 4 : BitTestKind[i] \notin Leaving
  /\ \A i \in 1 .. 3 : BlsKind[i] \notin Leaving
  /\ \A i \in 1 .. 2 : <<"Not", "Neg">>[i] \notin Leaving
  /\ \A i \in 1 .. 4 : <<"Mul", "Imul", "Div", "Idiv">>[i] \notin Leaving
<1>1. \A i \in 1 .. 8 : AluKind[i] \notin Leaving /\ ShiftKind[i] \notin Leaving
  BY DEF AluKind, ShiftKind, Leaving, LoopKinds, Faulting
<1>2. \A i \in 1 .. 4 : BitTestKind[i] \notin Leaving
  BY DEF BitTestKind, Leaving, LoopKinds, Faulting
<1>3. \A i \in 1 .. 3 : BlsKind[i] \notin Leaving
  BY DEF BlsKind, Leaving, LoopKinds, Faulting
<1>4. \A i \in 1 .. 2 : <<"Not", "Neg">>[i] \notin Leaving
  BY DEF Leaving, LoopKinds, Faulting
<1>5. \A i \in 1 .. 4 : <<"Mul", "Imul", "Div", "Idiv">>[i] \notin Leaving
  BY DEF Leaving, LoopKinds, Faulting
<1> QED BY <1>1, <1>2, <1>3, <1>4, <1>5

LEMMA OneByteMarks ==
  ASSUME NEW px, NEW opc \in Byte, NEW m \in ModRm
  PROVE  Marked(OneByte(px, opc, m))
<1> DEFINE f == OneByte(px, opc, m)
           G == f.kind \notin Leaving
<1>0. DOMAIN StringKind = StringOps
  BY DEF StringKind, StringOps
<1>1. ASSUME opc \in AluOps PROVE G
  <2>1. f = AluPrimary(px, opc)
    BY <1>1, <1>0 DEF AluOps, OneByte, StringOps
  <2>2. opc \div 8 + 1 \in 1 .. 8
    BY <1>1 DEF AluOps, Byte
  <2> DEFINE kind == AluKind[opc \div 8 + 1]
  <2>3. kind \notin Leaving
    BY <2>2, KindsAre
  <2> HIDE DEF f, kind
  <2>4. f.kind = kind
    BY <2>1 DEF AluPrimary, kind, Imm, Ops, Plain, Rm, Reject, RmReg, RegRm
  <2> QED BY <2>3, <2>4 DEF f
<1>2. ASSUME opc \in PushPopOps PROVE G
  <2>1. f = PushPop(opc)
    BY <1>2, <1>0 DEF PushPopOps, OneByte, StringOps
  <2> HIDE DEF f
  <2>2. f.kind \in {"Push", "Pop"}
    BY <1>2, <2>1 DEF PushPopOps, PushPop, Imm, Ops, Plain, Rm, Reject
  <2> QED BY <2>2 DEF Leaving, LoopKinds, Faulting, f
<1>3. ASSUME opc \in WideningOps PROVE G
  <2>1. f = Widening(px, opc)
    BY <1>3, <1>0 DEF WideningOps, OneByte, StringOps
  <2> HIDE DEF f
  <2>2. f.kind \in {"MovSxd", "Imul3"}
    BY <1>3, <2>1 DEF WideningOps, Widening, RegRm, Imm, Ops, Plain, Rm, Reject
  <2> QED BY <2>2 DEF Leaving, LoopKinds, Faulting, f
<1>4. ASSUME opc \in Group1Ops PROVE G
  <2>1. f = Group1(px, opc, m)
    BY <1>4, <1>0 DEF Group1Ops, OneByte, StringOps
  <2>2. m.reg + 1 \in 1 .. 8
    BY DEF ModRm
  <2> DEFINE kind == AluKind[m.reg + 1]
  <2>3. kind \notin Leaving
    BY <2>2, KindsAre
  <2> HIDE DEF f, kind
  <2>4. f.kind = kind
    BY <2>1 DEF Group1, kind, Imm, Ops, Plain, Rm, Reject
  <2> QED BY <2>3, <2>4 DEF f
<1>5. ASSUME opc \in TestXchgMovOps PROVE G
  <2>1. f = TestXchgMov(px, opc)
    BY <1>5, <1>0 DEF TestXchgMovOps, OneByte, StringOps
  <2> HIDE DEF f
  <2>2. f.kind \in {"Test", "Xchg", "Mov"}
    BY <1>5, <2>1 DEF TestXchgMovOps, TestXchgMov, RegRm, RmReg, Imm, Ops, Plain, Rm, Reject
  <2> QED BY <2>2 DEF Leaving, LoopKinds, Faulting, f
<1>6. ASSUME opc = \h8D PROVE G
  <2>1. f = Lea(px, m)
    BY <1>6, <1>0 DEF OneByte, StringOps
  <2> HIDE DEF f
  <2>2. f.kind \in {"Lea"}
    BY <1>6, <2>1 DEF Lea, RegRm, Imm, Ops, Plain, Rm, Reject
  <2> QED BY <2>2 DEF Leaving, LoopKinds, Faulting, f
<1>7. ASSUME opc \in MovImmediateOps PROVE G
  <2>1. f = MovImmediate(px, opc)
    BY <1>7, <1>0 DEF MovImmediateOps, OneByte, StringOps
  <2> HIDE DEF f
  <2>2. f.kind \in {"Mov"}
    BY <1>7, <2>1 DEF MovImmediateOps, MovImmediate, Imm, Ops, Plain, Rm, Reject
  <2> QED BY <2>2 DEF Leaving, LoopKinds, Faulting, f
<1>8. ASSUME opc \in Group2Ops PROVE G
  <2>1. f = Group2(px, opc, m)
    BY <1>8, <1>0 DEF Group2Ops, OneByte, StringOps
  <2>2. m.reg + 1 \in 1 .. 8
    BY DEF ModRm
  <2> DEFINE kind == ShiftKind[m.reg + 1]
  <2>3. kind \notin Leaving
    BY <2>2, KindsAre
  <2> HIDE DEF f, kind
  <2>4. f.kind = kind
    BY <2>1 DEF Group2, kind, Imm, Ops, Plain, Rm, Reject
  <2> QED BY <2>3, <2>4 DEF f
<1>9. ASSUME opc \in MovRmOps PROVE G
  <2>1. f = MovRmImmediate(px, opc, m)
    BY <1>9, <1>0 DEF MovRmOps, OneByte, StringOps
  <2> HIDE DEF f
  <2>2. f.kind \in {"Mov"}
    BY <1>9, <2>1 DEF MovRmOps, MovRmImmediate, Imm, Ops, Plain, Rm, Reject
  <2> QED BY <2>2 DEF Leaving, LoopKinds, Faulting, f
<1>10. ASSUME opc \in X87Ops PROVE G
  <2>1. f = X87(opc, m)
    BY <1>10, <1>0 DEF X87Ops, OneByte, StringOps
  <2> HIDE DEF f
  <2>2. f.kind \in {"X87", "X87Store"}
    BY <1>10, <2>1 DEF X87Ops, X87, Imm, Ops, Plain, Rm, Reject
  <2> QED BY <2>2 DEF Leaving, LoopKinds, Faulting, f
<1>11. ASSUME opc \in StringOps PROVE G
  <2>1. f = StringOp(px, opc)
    BY <1>11, <1>0 DEF StringOps, OneByte
  <2> HIDE DEF f
  <2>2. f.kind \in {"Movs", "Cmps", "Stos", "Lods", "Scas"}
    BY <1>11, <2>1 DEF StringOps, StringOp, StringKind, Imm, Ops, Plain, Rm, Reject
  <2> QED BY <2>2 DEF Leaving, LoopKinds, Faulting, f
<1>12. ASSUME opc \in FlowOps PROVE "CONTROL_FLOW" \in f.flags
  <2>1. f = ControlFlow(opc)
    BY <1>12, <1>0 DEF FlowOps, StringOps, OneByte
  <2>2. \/ \E kind, n : f = Relative(kind, n)
        \/ \E kind, size, n : f = Flow(Imm(Ops(Plain(kind, size), "imm", "none"), n))
        \/ \E kind, size : f = Flow(Plain(kind, size))
    <3> HIDE DEF f
    <3>1. CASE opc \in \h70 .. \h7F
      BY <2>1, <3>1 DEF ControlFlow
    <3>2. CASE opc \in \hE0 .. \hE3
      BY <2>1, <3>2 DEF ControlFlow
    <3>3. CASE opc \in {\hE8, \hE9, \hEB}
      BY <2>1, <3>3 DEF ControlFlow
    <3>4. CASE opc \in {\hC2, \hCD}
      BY <2>1, <3>4 DEF ControlFlow
    <3>5. CASE opc \in {\hC3, \hCC, \hF4}
      BY <2>1, <3>5 DEF ControlFlow
    <3> QED BY <1>12, <3>1, <3>2, <3>3, <3>4, <3>5 DEF FlowOps
  <2> HIDE DEF f
  <2>3. \A kind, n : "CONTROL_FLOW" \in Relative(kind, n).flags
    BY DEF Relative, Flow, Imm, Ops, Plain, Reject
  <2>4. \A kind, size, n :
          "CONTROL_FLOW" \in Flow(Imm(Ops(Plain(kind, size), "imm", "none"), n)).flags
    BY DEF Flow, Imm, Ops, Plain, Reject
  <2>5. \A kind, size : "CONTROL_FLOW" \in Flow(Plain(kind, size)).flags
    BY DEF Flow, Plain, Reject
  <2> QED BY <2>2, <2>3, <2>4, <2>5 DEF f
<1>13. ASSUME opc \in MiscOps PROVE G
  <2>1. f = Miscellaneous(px, opc)
    BY <1>13, <1>0 DEF MiscOps, OneByte, StringOps
  <2> HIDE DEF f
  <2>2. f.kind \in {"Nop", "Cwde", "Cdq", "Test", "Pushf", "Popf", "Sahf", "Lahf"}
    BY <1>13, <2>1 DEF MiscOps, Miscellaneous, Imm, Ops, Plain, Rm, Reject
  <2> QED BY <2>2 DEF Leaving, LoopKinds, Faulting, f
<1>14. ASSUME opc \in Group3Ops PROVE G
  <2>1. f = Group3(px, opc, m)
    BY <1>14, <1>0 DEF Group3Ops, OneByte, StringOps
  <2>2. m.reg \in 0 .. 7
    BY DEF ModRm
  <2> HIDE DEF f
  <2>3. CASE m.reg \in {0, 1}
    <3>1. f.kind = "Test"
      BY <2>1, <2>3 DEF Group3, Imm, Ops, Rm, Plain, Reject
    <3> QED BY <3>1 DEF Leaving, LoopKinds, Faulting, f
  <2>4. CASE m.reg \in {2, 3}
    <3>1. f.kind = <<"Not", "Neg">>[m.reg - 1]
      BY <2>1, <2>4 DEF Group3, OnRm, Ops, Rm, Plain, Reject
    <3> QED BY <2>4, <3>1, KindsAre DEF f
  <2>5. CASE m.reg \in 4 .. 7
    <3>1. f.kind = <<"Mul", "Imul", "Div", "Idiv">>[m.reg - 3]
      BY <2>1, <2>5 DEF Group3, Ops, Rm, Plain, Reject
    <3>2. m.reg - 3 \in 1 .. 4
      BY <2>5
    <3> QED BY <3>1, <3>2, KindsAre DEF f
  <2> QED BY <2>2, <2>3, <2>4, <2>5
<1>15. ASSUME opc \in Group45Ops PROVE Marked(f)
  <2>1. f = Group45(px, opc, m)
    BY <1>15, <1>0 DEF Group45Ops, OneByte, StringOps
  <2> HIDE DEF f
  <2>2. CASE opc = \hFF /\ m.reg \in {2, 4}
    BY <2>1, <2>2 DEF Group45, Indirect, Flow, Marked, OnRm, Ops, Rm, Plain, Reject
  <2>3. CASE ~(opc = \hFF /\ m.reg \in {2, 4})
    <3>1. f.kind \in {"Inc", "Dec", "Push", "Invalid"}
      BY <2>1, <2>3 DEF Group45, OnRm, Ops, Rm, Plain, Reject
    <3> QED BY <3>1 DEF Marked, Leaving, LoopKinds, Faulting
  <2> QED BY <2>2, <2>3 DEF f
<1>16. ASSUME opc \notin AluOps, opc \notin PushPopOps, opc \notin WideningOps,
              opc \notin Group1Ops, opc \notin TestXchgMovOps, opc # \h8D,
              opc \notin MovImmediateOps, opc \notin Group2Ops, opc \notin MovRmOps,
              opc \notin X87Ops, opc \notin StringOps, opc \notin FlowOps,
              opc \notin MiscOps, opc \notin Group3Ops, opc \notin Group45Ops
       PROVE  G
  <2>1. f = Unsupported
    BY <1>16, <1>0 DEF OneByte, AluOps, PushPopOps, WideningOps, Group1Ops, TestXchgMovOps,
       MovImmediateOps, Group2Ops, MovRmOps, X87Ops, FlowOps, MiscOps, Group3Ops, Group45Ops
  <2> HIDE DEF f
  <2>2. f.kind = "Invalid"
    BY <2>1 DEF Unsupported, Reject
  <2> QED BY <2>2 DEF Leaving, LoopKinds, Faulting, f
<1> HIDE DEF f
<1>17. G => Marked(f)
  BY DEF Marked
<1> HIDE DEF G
<1>18. "CONTROL_FLOW" \in f.flags => Marked(f)
  BY DEF Marked
<1>19. Marked(f)
  BY <1>1, <1>2, <1>3, <1>4, <1>5, <1>6, <1>7, <1>8, <1>9, <1>10, <1>11, <1>12, <1>13,
     <1>14, <1>15, <1>16, <1>17, <1>18
<1> QED BY <1>19 DEF f

\* The vector operations branch nowhere.
LEMMA VectorMarks ==
  /\ Marked(Unsupported) /\ Marked(XmmFromRm) /\ Marked(XmmToRm) /\ Marked(MoveMask)
  /\ Marked(Imm(XmmFromRm, 1))
  /\ \A size : Marked(XmmFromGpr(size)) /\ Marked(GprFromXmm(size))
  /\ \A size : Marked(Imm(XmmFromGpr(size), 1)) /\ Marked(Imm(GprFromXmm(size), 1))
  /\ \A size, x, y : Marked(Ops(Rm("Vector", size), x, y))
  /\ \A x : Marked([XmmFromRm EXCEPT !.size = x])
<1>1. \A f : f.kind \in {"Invalid", "Vector"} => Marked(f)
  BY DEF Marked, Leaving, LoopKinds, Faulting
<1>2. Unsupported.kind = "Invalid"
  BY DEF Unsupported, Reject
<1>3. XmmFromRm.kind = "Vector" /\ XmmToRm.kind = "Vector" /\ MoveMask.kind = "Vector"
  BY DEF XmmFromRm, XmmToRm, MoveMask, Ops, Rm, Plain, Reject
<1>4. Imm(XmmFromRm, 1).kind = "Vector"
  BY DEF Imm, XmmFromRm, Ops, Rm, Plain, Reject
<1>5. \A size : XmmFromGpr(size).kind = "Vector" /\ GprFromXmm(size).kind = "Vector"
  BY DEF XmmFromGpr, GprFromXmm, Ops, Rm, Plain, Reject
<1>6. \A size : /\ Imm(XmmFromGpr(size), 1).kind = "Vector"
                /\ Imm(GprFromXmm(size), 1).kind = "Vector"
  BY DEF Imm, XmmFromGpr, GprFromXmm, Ops, Rm, Plain, Reject
<1>7. \A size, x, y : Ops(Rm("Vector", size), x, y).kind = "Vector"
  BY DEF Ops, Rm, Plain, Reject
<1>8. \A x : [XmmFromRm EXCEPT !.size = x].kind = "Vector"
  BY DEF XmmFromRm, Ops, Rm, Plain, Reject
<1>9. \A x : Marked([XmmFromRm EXCEPT !.size = x])
  <2> SUFFICES ASSUME NEW x PROVE Marked([XmmFromRm EXCEPT !.size = x])
    OBVIOUS
  <2>1. PICK g : g = [XmmFromRm EXCEPT !.size = x]
    OBVIOUS
  <2>2. g.kind = "Vector"
    BY <1>8, <2>1
  <2>3. Marked(g)
    BY <1>1, <2>2
  <2> QED BY <2>1, <2>3, Zenon
<1> QED BY <1>1, <1>2, <1>3, <1>4, <1>5, <1>6, <1>7, <1>9

LEMMA GeneralMarks ==
  ASSUME NEW px, NEW m \in ModRm, NEW opc \in Byte
  PROVE  Marked(General(px, opc, m))
<1> DEFINE f == General(px, opc, m)
           G == f.kind \notin Leaving
<1>1. ASSUME opc \in {\hBC, \hBD} \/ (opc = \hB8 /\ px.f3) PROVE G
  <2>1. f = BitCount(px, opc)
    BY <1>1 DEF General
  <2> HIDE DEF f
  <2>2. f.kind \in {"Popcnt", "Tzcnt", "Bsf", "Lzcnt", "Bsr"}
    BY <1>1, <2>1 DEF BitCount, RegRm, Ops, Rm, Plain, Reject
  <2> QED BY <2>2 DEF Leaving, LoopKinds, Faulting, f
<1>2. ASSUME opc \in BitTestOps PROVE G
  <2>1. f = BitTest(px, opc, m)
    BY <1>2 DEF General, BitTestOps
  <2> HIDE DEF f
  <2>2. CASE opc = \hBA
    <3> DEFINE kind == IF m.reg >= 4 THEN BitTestKind[m.reg - 3] ELSE "Invalid"
    <3>1. kind \notin Leaving
      <4>1. m.reg \in 0 .. 7
        BY DEF ModRm
      <4>2. m.reg >= 4 => m.reg - 3 \in 1 .. 4
        BY <4>1
      <4> QED BY <4>2, KindsAre DEF Leaving, LoopKinds, Faulting
    <3> HIDE DEF kind
    <3>2. f.kind = kind
      BY <2>1, <2>2 DEF BitTest, kind, Imm, Ops, Rm, Plain, Reject
    <3> QED BY <3>1, <3>2 DEF f
  <2>3. CASE opc # \hBA
    <3>1. (opc - \hA3) \div 8 + 1 \in 1 .. 4
      BY <1>2, <2>3 DEF BitTestOps
    <3>2. f.kind = BitTestKind[(opc - \hA3) \div 8 + 1]
      BY <2>1, <2>3 DEF BitTest, RmReg, Ops, Rm, Plain, Reject
    <3> QED BY <3>1, <3>2, KindsAre DEF f
  <2> QED BY <2>2, <2>3
<1>3. ASSUME opc \in CmovOps PROVE G
  <2>1. f = IF opc = \hAF THEN RegRm("Imul", AluSize(px)) ELSE RegRm("Cmov", AluSize(px))
    BY <1>3 DEF General, CmovOps
  <2> HIDE DEF f
  <2>2. f.kind \in {"Cmov", "Imul"}
    BY <2>1 DEF RegRm, Ops, Rm, Plain, Reject
  <2> QED BY <2>2 DEF Leaving, LoopKinds, Faulting, f
<1>4. ASSUME opc \in JccOps PROVE "CONTROL_FLOW" \in f.flags
  <2>1. f = Relative("Jcc", 4)
    BY <1>4 DEF General, JccOps
  <2> HIDE DEF f
  <2>2. "CONTROL_FLOW" \in f.flags
    BY <2>1 DEF Relative, Flow, Imm, Ops, Plain, Reject
  <2> QED BY <2>2 DEF f
<1>5. ASSUME opc \in StandaloneOps PROVE Marked(f)
  <2>1. f = Standalone(px, opc)
    BY <1>5 DEF General, StandaloneOps
  <2> HIDE DEF f
  <2>2. CASE opc = \h05
    <3>1. f = Flow(Plain("Syscall", 0))
      BY <2>1, <2>2 DEF Standalone
    <3>2. "CONTROL_FLOW" \in f.flags
      BY <3>1 DEF Flow, Plain, Reject
    <3> QED BY <3>2 DEF Marked
  <2>3. CASE opc # \h05
    <3>1. f.kind \in {"Invalid", "Rdtsc", "Cpuid", "Bswap"}
      BY <1>5, <2>1, <2>3 DEF StandaloneOps, Standalone, Ops, Plain, Reject
    <3> QED BY <3>1 DEF Marked, Leaving, LoopKinds, Faulting
  <2> QED BY <2>2, <2>3 DEF f
<1>6. ASSUME opc \in HintOps PROVE G
  <2>1. f = Hints(opc, m)
    BY <1>6 DEF General, HintOps
  <2> HIDE DEF f
  <2>2. f.kind \in {"Prefetch", "Fence", "Clflush", "Nop"}
    BY <1>6, <2>1 DEF HintOps, Hints, Ops, Rm, Plain, Reject
  <2> QED BY <2>2 DEF Leaving, LoopKinds, Faulting, f
<1>7. ASSUME opc = \hC7 PROVE G
  <2>1. f = RdRand(px, m)
    BY <1>7 DEF General
  <2> HIDE DEF f
  <2>2. f.kind = "Rdrand"
    BY <2>1 DEF RdRand, OnRm, Ops, Rm, Plain, Reject
  <2> QED BY <2>2 DEF Leaving, LoopKinds, Faulting, f
<1>8. ASSUME opc \in DoubleShiftOps PROVE G
  <2>1. f = DoubleShift(px, opc)
    BY <1>8 DEF General, DoubleShiftOps
  <2> HIDE DEF f
  <2>2. f.kind \in {"Shld", "Shrd"}
    BY <2>1 DEF DoubleShift, OnRm, Imm, Ops, Rm, Plain, Reject
  <2> QED BY <2>2 DEF Leaving, LoopKinds, Faulting, f
<1>9. ASSUME opc \in ExtendOps PROVE G
  <2>1. f = Extend(px, opc)
    BY <1>9 DEF General, ExtendOps
  <2> HIDE DEF f
  <2>2. f.kind \in {"MovZx", "MovSx"}
    BY <2>1 DEF Extend, RegRm, Ops, Rm, Plain, Reject
  <2> QED BY <2>2 DEF Leaving, LoopKinds, Faulting, f
<1>10. ASSUME ~(opc \in {\hBC, \hBD} \/ (opc = \hB8 /\ px.f3)), opc \notin BitTestOps,
              opc \notin CmovOps, opc \notin JccOps, opc \notin StandaloneOps,
              opc \notin HintOps, opc # \hC7, opc \notin DoubleShiftOps, opc \notin ExtendOps
       PROVE  Marked(f)
  <2>1. f = Unsupported
    BY <1>10 DEF General, BitTestOps, CmovOps, JccOps, StandaloneOps, HintOps,
       DoubleShiftOps, ExtendOps
  <2> QED BY <2>1, VectorMarks
<1> HIDE DEF f
<1>11. (G \/ "CONTROL_FLOW" \in f.flags) => Marked(f)
  BY DEF Marked
<1> HIDE DEF G
<1>12. Marked(f)
  BY <1>1, <1>2, <1>3, <1>4, <1>5, <1>6, <1>7, <1>8, <1>9, <1>10, <1>11
<1> QED BY <1>12 DEF f

LEMMA TwoByteMarks ==
  ASSUME NEW px, NEW m \in ModRm, NEW opc \in Byte
  PROVE  Marked(TwoByte(px, opc, m))
<1>1. \/ opc \in ScalarOpcode(px) /\ TwoByte(px, opc, m) = Scalar(px, opc)
      \/ opc \in DoubleOpcode /\ TwoByte(px, opc, m) = PackedDouble(opc)
      \/ opc \in SingleOpcode /\ TwoByte(px, opc, m) = PackedSingle(opc)
      \/ opc \in IntegerOpcode /\ TwoByte(px, opc, m) = PackedInteger(px, opc)
      \/ opc \in F3MoveOps /\ TwoByte(px, opc, m) = F3Move(opc)
      \/ TwoByte(px, opc, m) = General(px, opc, m)
  BY DEF TwoByte, F3MoveOps
<1>2. Marked(Scalar(px, opc))
  BY VectorMarks DEF Scalar
<1>3. Marked(PackedDouble(opc)) /\ Marked(PackedSingle(opc)) /\ Marked(PackedInteger(px, opc))
  BY VectorMarks DEF PackedDouble, PackedSingle, PackedInteger
<1>4. opc \in F3MoveOps => Marked(F3Move(opc))
  BY VectorMarks DEF F3MoveOps, F3Move
<1> QED BY <1>1, <1>2, <1>3, <1>4, GeneralMarks

LEMMA HigherMark ==
  ASSUME NEW px, NEW opc, NEW m \in ModRm
  PROVE  /\ Marked(Map38(px, opc)) /\ Marked(Map3A(px, opc))
         /\ Marked(VexMap1(px, opc)) /\ Marked(EvexMap1(px, opc))
         /\ Marked(VexMap2(px, opc, m)) /\ Marked(EvexMap2(px, opc, m))
         /\ Marked(VexMap3(px, opc))
<1>1. \A f : f.kind \notin Leaving => Marked(f)
  BY DEF Marked
<1>2. Marked(Map38(px, opc))
  <2>1. \/ Map38(px, opc) \in {Unsupported, XmmFromRm}
        \/ \E size, x, y : Map38(px, opc) = Ops(Rm("Crc32", size), x, y)
        \/ \E size, x, y : Map38(px, opc) = Ops(Rm("Movbe", size), x, y)
    <3>1. CASE opc \in {\hF0, \hF1}
      BY <3>1 DEF Map38, Crc32, RegRm, RmReg
    <3>2. CASE opc \notin {\hF0, \hF1}
      BY <3>2 DEF Map38
    <3> QED BY <3>1, <3>2
  <2>2. \A size, x, y : /\ Ops(Rm("Crc32", size), x, y).kind = "Crc32"
                        /\ Ops(Rm("Movbe", size), x, y).kind = "Movbe"
    BY DEF Ops, Rm, Plain, Reject
  <2>3. "Crc32" \notin Leaving /\ "Movbe" \notin Leaving
    BY DEF Leaving, LoopKinds, Faulting
  <2> QED BY <1>1, <2>1, <2>2, <2>3, VectorMarks
<1>3. Marked(Map3A(px, opc))
  <2>1. \/ Map3A(px, opc) = Unsupported \/ Map3A(px, opc) = Imm(XmmFromRm, 1)
        \/ \E size : \/ Map3A(px, opc) = Imm(GprFromXmm(size), 1)
                     \/ Map3A(px, opc) = Imm(XmmFromGpr(size), 1)
    BY DEF Map3A
  <2> QED BY <2>1, VectorMarks
<1>4. Marked(VexRm(px)) /\ Marked(VexMr(px)) /\ Marked(Imm(VexRm(px), 1)) /\ Marked(Plain("Vector", 0))
  <2>1. VexRm(px).kind = "Vector" /\ VexMr(px).kind = "Vector"
    BY DEF VexRm, VexMr, Vex, WithSize, XmmFromRm, XmmToRm, Ops, Rm, Plain, Reject
  <2>2. Imm(VexRm(px), 1).kind = "Vector"
    BY DEF Imm, VexRm, Vex, WithSize, XmmFromRm, Ops, Rm, Plain, Reject
  <2>3. Plain("Vector", 0).kind = "Vector"
    BY DEF Plain, Reject
  <2>4. "Vector" \notin Leaving
    BY DEF Leaving, LoopKinds, Faulting
  <2> QED BY <1>1, <2>1, <2>2, <2>3, <2>4
<1>5. \A kind : kind \notin Leaving => Marked(VexGpr(px, kind)) /\ Marked(Imm(VexGpr(px, kind), 1))
  <2>1. \A kind : VexGpr(px, kind).kind = kind
    BY DEF VexGpr, Vex, RegRm, Ops, Rm, Plain, Reject
  <2>2. \A kind : Imm(VexGpr(px, kind), 1).kind = kind
    BY DEF Imm, VexGpr, Vex, RegRm, Ops, Rm, Plain, Reject
  <2> QED BY <1>1, <2>1, <2>2
<1>6. Marked(VectorMemory(px, m))
  <2>1. VectorMemory(px, m).kind = "Gather"
    BY DEF VectorMemory, Vex, Ops, Rm, Plain, Reject
  <2> QED BY <1>1, <2>1 DEF Leaving, LoopKinds, Faulting
<1>7. Marked(Bls(px, m))
  <2> DEFINE kind == IF m.reg \in 1 .. 3 THEN BlsKind[m.reg] ELSE "Invalid"
  <2>1. kind \notin Leaving
    BY KindsAre DEF Leaving, LoopKinds, Faulting
  <2> HIDE DEF kind
  <2>2. Bls(px, m).kind = kind
    BY DEF Bls, kind, Vex, Ops, Rm, Plain, Reject
  <2> QED BY <1>1, <2>1, <2>2
<1>8. Marked(VexMap1(px, opc)) /\ Marked(EvexMap1(px, opc))
  BY <1>4, VectorMarks DEF VexMap1, EvexMap1
<1>9. Marked(EvexMap2(px, opc, m))
  BY <1>6, VectorMarks DEF EvexMap2
<1> DEFINE Bmi == {"Andn", "Sarx", "Shrx", "Bextr", "Pext", "Pdep", "Bzhi", "Mulx", "Rorx"}
<1>10. \A kind \in Bmi : kind \notin Leaving
  BY DEF Leaving, LoopKinds, Faulting
<1>11. Marked(VexMap2(px, opc, m))
  <2>1. \/ VexMap2(px, opc, m) \in {VexRm(px), VectorMemory(px, m), Bls(px, m), Unsupported}
        \/ \E kind \in Bmi : VexMap2(px, opc, m) = VexGpr(px, kind)
    BY DEF VexMap2, VexMap2Sse
  <2> QED BY <1>4, <1>5, <1>6, <1>7, <1>10, <2>1, VectorMarks
<1>12. Marked(VexMap3(px, opc))
  <2>1. "Rorx" \notin Leaving
    BY <1>10
  <2>2. VexMap3(px, opc) \in {Imm(VexRm(px), 1), Imm(VexGpr(px, "Rorx"), 1), Unsupported}
    BY DEF VexMap3
  <2> QED BY <1>4, <1>5, <2>1, <2>2, VectorMarks
<1> QED BY <1>2, <1>3, <1>8, <1>9, <1>11, <1>12

LEMMA FormatMarks ==
  ASSUME NEW px, NEW map, Lookup(px, map), NEW opc \in Byte, NEW m \in ModRm
  PROVE  Marked(Format(px, map, opc, m))
<1>1. CASE px.vex = "no"
  <2>1. map \in 0 .. 3
    BY <1>1 DEF Lookup
  <2>2. Format(px, map, opc, m) \in
          {OneByte(px, opc, m), TwoByte(px, opc, m), Map38(px, opc), Map3A(px, opc)}
    BY <1>1, <2>1 DEF Format
  <2> QED BY <2>2, OneByteMarks, TwoByteMarks, HigherMark
<1>2. CASE px.vex # "no"
  <2>1. px.vex = "evex" \/ px.map \in 1 .. 3
    BY <1>2 DEF Lookup
  <2>2. Format(px, map, opc, m) \in
          {EvexMap1(px, opc), EvexMap2(px, opc, m), VexMap1(px, opc), VexMap2(px, opc, m),
           VexMap3(px, opc)}
    BY <1>2, <2>1 DEF Format, VexFormat
  <2> QED BY <2>2, HigherMark
<1> QED BY <1>1, <1>2

\* An instruction that may branch is decoded as one that does.
LEMMA DecodeMarks ==
  ASSUME NEW s \in Seq(Byte), DecodeWithSource(s).status = "Ok"
  PROVE  Marked(DecodeWithSource(s))
<1> DEFINE px == ScanPrefixes(s)
           f == FormatOf(px, s)
           h == OpcodeEnd(px, s)
           D == DecodeFormat(px, s[h], ModRmOf(px, s), f, LengthOf(px, s))
<1>1. /\ Known(px) /\ DecodeWithSource(s) = DecodeOpcode(px, s) /\ h \in 1 .. Len(s)
      /\ f.pre = "Ok" /\ f.post = "Ok"
  BY SourceOk
<1>2. Truncated.status # "Ok"
  BY DEF Truncated, Failed
<1> HIDE DEF px
<1>3. DecodeOpcode(px, s) \in {Truncated, D}
  <2>1. DecodeOpcode(px, s) =
          IF Len(s) < h THEN Truncated
          ELSE IF f.modrm /\ Len(s) = h THEN Truncated
          ELSE IF f.pre # "Ok" THEN Failed(f.pre)
          ELSE IF RunsOff(s, LengthOf(px, s)) THEN Truncated
          ELSE IF f.post # "Ok" THEN Failed(f.post)
          ELSE D
    BY DecodeOpcodeIs DEF D
  <2> HIDE DEF f, h, D
  <2> QED BY <1>1, <2>1
<1>4. DecodeWithSource(s) = D
  BY <1>1, <1>2, <1>3
<1>5. Marked(f)
  <2>1. OpcodeEnd(px, s) <= Len(s)
    BY <1>1
  <2>2. /\ s[h] \in Byte /\ ModRmOf(px, s) \in ModRm /\ Lookup(px, OpcodeMap(px, s).map)
    BY <1>1, <2>1, FormatOfIs
  <2> QED BY <2>2, FormatMarks DEF FormatOf
<1> HIDE DEF f
<1>6. D.kind = f.kind /\ D.flags = PrefixFlags(px) \cup f.flags
  BY DEF DecodeFormat
<1> HIDE DEF D
<1>7. Marked(D)
  BY <1>5, <1>6 DEF Marked
<1> QED BY <1>4, <1>7

\* What does not branch leaves RIP alone when no access is refused, and no
\* fault of its own.
Stays(r) == r.rip = Here /\ r.fault = NoFault

LEMMA PutStays ==
  ASSUME NEW g, Shaped(g), Stays(g), NEW o, NEW v
  PROVE  Shaped(Put(o, v, g)) /\ Stays(Put(o, v, g))
<1> DEFINE p == Put(o, v, g)
<1>1. /\ Shaped(p) /\ p.rip = g.rip /\ p.fault = g.fault /\ p.zf = g.zf
      /\ p.reg = IF InMemory(o) THEN g.reg ELSE [g.reg EXCEPT ![o.reg] = v]
      /\ p.mem = IF InMemory(o) THEN [g.mem EXCEPT ![Address(o, g)] = v] ELSE g.mem
  BY PutIs
<1> HIDE DEF p
<1>2. Shaped(p) /\ Stays(p)
  BY <1>1 DEF Stays
<1> QED BY <1>2 DEF p

LEMMA MoveStays ==
  ASSUME NEW ins, ins.kind \in {"Mov", "Lea", "Cmov", "Xchg", "Push", "Pop"},
         Sited(ins.dst), Sited(ins.src), NEW g \in Guests, Placed(g), IsOpen(g), Stays(g)
  PROVE  Stays(Handle(ins, g))
<1>1. Shaped(g)
  BY GuestsShaped
<1>2. ASSUME NEW acc \in Seq(Accesses), NEW t, Stays(t) PROVE Stays(Guarded(acc, g, t))
  BY <1>2, GuardedOpen
<1>3. \A o, v : Shaped(Put(o, v, g)) /\ Stays(Put(o, v, g))
  BY <1>1, PutStays
<1>4. /\ ReadsOf(ins.src, g) \in Seq(Accesses) /\ WritesOf(ins.dst, g) \in Seq(Accesses)
      /\ ReadsOf(ins.dst, g) \in Seq(Accesses)
  BY OperandIs
<1>5. CASE ins.kind = "Mov"
  <2>1. ReadsOf(ins.src, g) \o WritesOf(ins.dst, g) \in Seq(Accesses)
    BY <1>4
  <2> QED BY <1>2, <1>3, <1>5, <2>1, HandleIs DEF OpMov
<1>6. CASE ins.kind = "Lea"
  BY <1>3, <1>6, HandleIs DEF OpLea
<1>7. CASE ins.kind = "Cmov"
  BY <1>2, <1>3, <1>4, <1>7, HandleIs DEF OpCmov
<1>8. CASE ins.kind = "Xchg"
  <2>1. ReadsOf(ins.dst, g) \o WritesOf(ins.dst, g) \in Seq(Accesses)
    BY <1>4
  <2>2. \A o, v, p, w : Stays(Put(o, v, Put(p, w, g)))
    BY <1>3, PutStays
  <2> QED BY <1>2, <1>8, <2>1, <2>2, HandleIs DEF OpXchg
<1>9. CASE ins.kind = "Push"
  <2> DEFINE top == Down(g.reg[RSP])
             acc == ReadsOf(ins.dst, g) \o <<W(top)>>
             t == Pushed(g, top, ValueOf(ins.dst, g), top)
  <2>1. W(top) \in Accesses
    BY CellsAre, AccessIs DEF Placed
  <2>2. acc \in Seq(Accesses)
    <3> HIDE DEF top
    <3> QED BY <1>4, <2>1
  <2>3. Stays(t)
    <3> HIDE DEF top
    <3>1. t.rip = g.rip /\ t.fault = g.fault
      BY <1>1, PushedIs
    <3> QED BY <3>1 DEF Stays
  <2>4. Handle(ins, g) = Guarded(acc, g, t)
    BY <1>9, HandleIs DEF OpPush, Pushed
  <2> HIDE DEF acc, t
  <2> QED BY <1>2, <2>2, <2>3, <2>4
<1>10. CASE ins.kind = "Pop"
  <2> DEFINE rsp == g.reg[RSP]
             acc == <<R(rsp)>>
             p == Put(ins.dst, g.mem[rsp], g)
             t == [p EXCEPT !.reg[RSP] = Up(rsp)]
  <2>1. acc \in Seq(Accesses)
    BY AccessIs DEF Placed
  <2>2. Shaped(p) /\ Stays(p)
    BY <1>3
  <2>3. Stays(t)
    <3> HIDE DEF p, rsp
    <3> QED BY <2>2 DEF Shaped, Stays
  <2>4. Handle(ins, g) = Guarded(acc, g, t)
    BY <1>10, HandleIs DEF OpPop
  <2> HIDE DEF acc, t
  <2> QED BY <1>2, <2>1, <2>3, <2>4
<1> QED BY <1>5, <1>6, <1>7, <1>8, <1>9, <1>10

LEMMA StringStays ==
  ASSUME NEW ins, ins.kind \in Strings, NEW g, Ready(g)
  PROVE  Stays(Handle(ins, Open(g)))
<1>1. Handle(ins, Open(g)) = RunString(ins, Open(g))
  BY HandleIs
<1>2. CASE ~(ins.rep \/ ins.repne)
  <2>1. Handle(ins, Open(g)) = Element(ins, Open(g))
    BY <1>1, <1>2, RunStringIs
  <2>2. Kept(Element(ins, Open(g)), Open(g))
    BY ElementSame DEF Ready
  <2>3. Stays(Open(g))
    BY OpenIs DEF Ready, Alikes, SameBut, Stays
  <2> QED BY <2>1, <2>2, <2>3 DEF Kept, Stays
<1>3. CASE ins.rep \/ ins.repne
  <2>1. Handle(ins, Open(g)) = Turns(ins, Open(g))[N + 1].guest
    BY <1>1, <1>3, RunStringIs
  <2>2. OpenTurn(Turns(ins, Open(g))[N + 1], g.reg[RCX], N + 1)
    BY OpenTurns, CellsAssumption
  <2> QED BY <2>1, <2>2 DEF OpenTurn, Stays
<1> QED BY <1>2, <1>3

\* An x87 store, refused or not, ends at the next instruction.
LEMMA X87Stays ==
  ASSUME NEW ins, ins.kind = "X87Store", NEW g, Ready(g)
  PROVE  Shaped(Handle(ins, g)) /\ Stays(Handle(ins, g))
<1>1. Shaped(g) /\ Stays(g)
  BY GuestsShaped DEF Ready, Stays
<1>2. Shaped(Put(ins.src, 0, g)) /\ Stays(Put(ins.src, 0, g))
  BY <1>1, PutStays
<1> QED BY <1>1, <1>2, HandleIs DEF OpX87Store

\* What does not branch ends at the next instruction or is to be tried again.
LEMMA StraightOn ==
  ASSUME NEW ins, ins.kind \in Handled \ Leaving, Sited(ins.dst), Sited(ins.src),
         NEW g, Ready(g)
  PROVE  LET r == Handle(ins, g) IN
         \/ Shaped(r) /\ Stays(r)
         \/ Precise(ins) /\ Resumes(r, ins, Handle(ins, Open(g)))
<1>1. CASE ins.kind = "X87Store"
  BY <1>1, X87Stays
<1>2. CASE ins.kind # "X87Store"
  <2> DEFINE r == Handle(ins, g)
             s == Handle(ins, Open(g))
  <2>1. ins.kind \in {"Mov", "Lea", "Cmov", "Xchg", "Push", "Pop"} \cup Strings
    BY <1>2 DEF Handled, Leaving
  <2>2. Precise(ins)
    BY <1>2 DEF Precise, Leaving
  <2>3. Stays(s)
    <3>1. /\ Open(g) \in Guests /\ IsOpen(Open(g)) /\ Placed(Open(g)) /\ Stays(Open(g))
      BY OpenIs DEF Ready, Alikes, SameBut, Stays, Placed
    <3> QED BY <2>1, <3>1, MoveStays, StringStays
  <2>4. (r.fault.kind # "Memory" /\ Alikes(r, s)) \/ Resumes(r, ins, s)
    BY <2>2, HandleSame
  <2> HIDE DEF r, s
  <2>5. Alikes(r, s) => Shaped(r) /\ Stays(r)
    BY <2>3 DEF Alikes, SameBut, Stays
  <2> QED BY <2>2, <2>4, <2>5 DEF r, s
<1> QED BY <1>1, <1>2

\* An instruction that may branch says so, and any other goes straight on.
Straight ==
  op.kind \notin Leaving =>
    /\ phase = "run" => Ready(guest)
    /\ phase = "fault" => Precise(op) /\ guest.fault.kind = "Memory"
    /\ phase = "done" => guest.rip = op.next
BInv ==
  /\ DInv /\ RInv
  /\ phase # "decode" => (op.kind \in Leaving => op.flow)
  /\ Straight

LEMMA AdvancedOn ==
  ASSUME NEW o, NEW r, Shaped(r), Stays(r)
  PROVE  Advanced(o, r).rip = o.next /\ Advanced(o, r).fault = NoFault
<1>1. Advanced(o, r) = [r EXCEPT !.rip = o.next]
  BY DEF Advanced, Stays
<1>2. [r EXCEPT !.rip = o.next].rip = o.next /\ [r EXCEPT !.rip = o.next].fault = r.fault
  BY DEF Shaped
<1> QED BY <1>1, <1>2 DEF Stays

LEMMA BInvStep ==
  ASSUME \A s \in Seq(Byte) : Follow(s) \subseteq Byte,
         BInv, [MCNext]_<<guestVars, foldVars>>
  PROVE  BInv'
<1>1. DInv' /\ RInv'
  BY DInvStep, RInvStep DEF BInv
<1>2. CASE UNCHANGED guestVars \/ Decode
  <2>1. UNCHANGED <<phase, op, guest>>
    BY <1>2 DEF guestVars, stepVars, Decode
  <2> QED BY <1>1, <2>1 DEF BInv, Straight, Precise
<1>3. CASE \E base \in {RSP, RSI} : Enter(base)
  <2>1. PICK base \in {RSP, RSI} : Enter(base)
    BY <1>3
  <2>2. /\ phase' = "entered" /\ op' = OpOf(insn, base) /\ insn.status = "Ok"
    BY <2>1 DEF Enter
  <2>3. Marked(insn)
    <3>1. bytes \in Seq(Byte) /\ insn = DecodeOne(bytes)
      BY DEF BInv, DInv
    <3>2. /\ Fetched(bytes) \in Seq(Byte) /\ DecodeWithSource(Fetched(bytes)).status = "Ok"
          /\ insn.kind = DecodeWithSource(Fetched(bytes)).kind
          /\ insn.flags = DecodeWithSource(Fetched(bytes)).flags
      BY <2>2, <3>1, FetchedIs, AcceptedIs
    <3> QED BY <3>2, DecodeMarks DEF Marked
  <2>4. op'.kind = insn.kind /\ op'.flow = ("CONTROL_FLOW" \in insn.flags)
    BY <2>2 DEF OpOf
  <2> QED BY <1>1, <2>2, <2>3, <2>4 DEF BInv, Straight, Marked
<1>4. CASE \E g \in Arrivals(op.kind) : Arrive(g)
  <2>1. PICK g \in Arrivals(op.kind) : Arrive(g)
    BY <1>4
  <2>2. phase = "entered" /\ phase' = "run" /\ guest' = g /\ op' = op
    BY <2>1 DEF Arrive
  <2>3. op.kind \in Handled
    BY <2>2 DEF BInv, RInv, Began
  <2>4. Ready(g)
    BY <2>3, ArrivalsAssumption
  <2> QED BY <1>1, <2>2, <2>4 DEF BInv, Straight
<1>5. CASE Execute
  <2>1. /\ phase = "run" /\ guest' = Advanced(op, Handle(op, guest)) /\ op' = op
        /\ phase' = IF guest'.fault = NoFault THEN "done" ELSE "fault"
    BY <1>5 DEF Execute
  <2>2. op.kind \in Handled /\ Sited(op.dst) /\ Sited(op.src)
    BY <2>1 DEF BInv, RInv, Began
  <2>3. ASSUME op.kind \notin Leaving PROVE Straight'
    <3> DEFINE r == Handle(op, guest)
    <3>1. Ready(guest)
      BY <2>1, <2>3 DEF BInv, Straight
    <3>2. (Shaped(r) /\ Stays(r)) \/ (Precise(op) /\ Resumes(r, op, Handle(op, Open(guest))))
      BY <2>2, <2>3, <3>1, StraightOn
    <3> HIDE DEF r
    <3>3. CASE Shaped(r) /\ Stays(r)
      <4>1. guest'.rip = op.next /\ guest'.fault = NoFault
        BY <2>1, <3>3, AdvancedOn DEF r
      <4> QED BY <2>1, <4>1 DEF Straight
    <3>4. CASE Precise(op) /\ Resumes(r, op, Handle(op, Open(guest)))
      <4>1. r.fault.kind = "Memory"
        <5>1. PICK x : FaultOnly(r, x) /\ Ready(x)
          BY <3>4 DEF Resumes
        <5> QED BY <5>1 DEF FaultOnly, Ready, Guests
      <4>2. r.fault # NoFault
        BY <4>1 DEF NoFault
      <4>3. guest' = r
        BY <2>1, <4>2 DEF Advanced, r
      <4> QED BY <2>1, <3>4, <4>1, <4>2, <4>3 DEF Straight, Precise
    <3> QED BY <3>2, <3>3, <3>4
  <2> QED BY <1>1, <2>1, <2>3 DEF BInv, Straight
<1>6. CASE Recover
  <2>1. /\ phase = "fault" /\ guest.fault.kind = "Memory" /\ op' = op
        /\ phase' = IF guest.rip = Here THEN "run" ELSE "done"
    BY <1>6 DEF Recover
  <2>2. ASSUME op.kind \notin Leaving PROVE phase' = "run" /\ Ready(guest')
    <3>1. Precise(op)
      BY <2>1, <2>2 DEF BInv, Straight
    <3>2. PICK x : FaultOnly(guest, x) /\ Ready(x)
      BY <2>1, <3>1 DEF BInv, RInv, Underway, Resumes
    <3>3. guest.rip = Here
      BY <3>2 DEF FaultOnly, Ready, Guests
    <3>4. phase' = "run"
      BY <2>1, <3>3
    <3> QED BY <1>1, <2>1, <3>1, <3>4 DEF RInv, Underway, Precise
  <2> QED BY <1>1, <2>1, <2>2 DEF BInv, Straight
<1> QED BY <1>2, <1>3, <1>4, <1>5, <1>6 DEF MCNext, GuestNext, guestVars

\* Whichever bytes are decoded, and whatever the instruction finds: if RIP ends
\* elsewhere than behind it, or it faults of itself, the decoder has said that
\* it ends its block.
THEOREM BranchesEndBlocksHolds ==
  ASSUME \A s \in Seq(Byte) : Follow(s) \subseteq Byte
  PROVE  MCSpec => []BranchesEndBlocks
<1>1. MCInit => BInv
  <2> SUFFICES ASSUME MCInit PROVE BInv
    OBVIOUS
  <2>1. phase = "decode"
    BY DEF MCInit, GuestInit
  <2>2. RInv
    BY <2>1 DEF RInv, Began, Underway
  <2> QED BY <2>1, <2>2, DInvInit DEF BInv, Straight
<1>2. BInv /\ [MCNext]_<<guestVars, foldVars>> => BInv'
  BY BInvStep
<1>3. BInv => BranchesEndBlocks
  <2> SUFFICES ASSUME BInv,
                      \/ phase = "done" /\ guest.rip # op.next
                      \/ phase = "fault" /\ guest.fault.kind = "Other"
               PROVE  op.flow
    BY DEF BranchesEndBlocks
  <2>1. op.kind \in Leaving
    BY DEF BInv, Straight
  <2> QED BY <2>1 DEF BInv
<1> QED BY <1>1, <1>2, <1>3, PTL DEF MCSpec

-----------------------------------------------------------------------------
(* Strings *)

\* Going on from a cell is going on from where it was counted.
LEMMA AroundOnce ==
  ASSUME NEW a \in Nat
  PROVE  Up(a % N) = (a + 1) % N /\ Down(a % N) = (a + N - 1) % N
<1> DEFINE q == a \div N
           s == a % N
<1>1. N \in Nat \ {0} /\ N \in Nat /\ 1 <= N
  BY CellsAssumption
<1>2. a = N * q + s /\ q \in Nat /\ s \in 0 .. N - 1
  BY <1>1, Division
<1> HIDE DEF q, s
<1>3. (s + 1) % N = (a + 1) % N
  <2>1. CASE s + 1 < N
    <3>1. s + 1 \in 0 .. N - 1 /\ a + 1 \in Nat /\ a + 1 = N * q + (s + 1)
          /\ s + 1 \in Nat /\ s + 1 = N * 0 + (s + 1)
      BY <1>1, <1>2, <2>1
    <3>2. (a + 1) % N = s + 1
      BY <1>1, <1>2, <3>1, Remainder
    <3>3. (s + 1) % N = s + 1
      BY <1>1, <3>1, Remainder
    <3> QED BY <3>2, <3>3
  <2>2. CASE s + 1 = N
    <3>1. N * (q + 1) = N * q + N
      BY <1>1, <1>2
    <3>2. 0 \in 0 .. N - 1 /\ a + 1 \in Nat /\ a + 1 = N * (q + 1) + 0 /\ q + 1 \in Nat
          /\ s + 1 \in Nat /\ s + 1 = N * 1 + 0
      BY <1>1, <1>2, <2>2, <3>1
    <3>3. (a + 1) % N = 0
      BY <1>1, <3>2, Remainder
    <3>4. (s + 1) % N = 0
      BY <1>1, <3>2, Remainder
    <3> QED BY <3>3, <3>4
  <2> QED BY <1>1, <1>2, <2>1, <2>2
<1>4. (s + N - 1) % N = (a + N - 1) % N
  <2>1. CASE s = 0
    <3>1. N - 1 \in 0 .. N - 1 /\ a + N - 1 \in Nat /\ a + N - 1 = N * q + (N - 1)
          /\ s + N - 1 \in Nat /\ s + N - 1 = N * 0 + (N - 1)
      BY <1>1, <1>2, <2>1
    <3>2. (a + N - 1) % N = N - 1
      BY <1>1, <1>2, <3>1, Remainder
    <3>3. (s + N - 1) % N = N - 1
      BY <1>1, <3>1, Remainder
    <3> QED BY <3>2, <3>3
  <2>2. CASE s # 0
    <3>1. N * (q + 1) = N * q + N
      BY <1>1, <1>2
    <3>2. s - 1 \in 0 .. N - 1 /\ a + N - 1 \in Nat /\ a + N - 1 = N * (q + 1) + (s - 1)
          /\ q + 1 \in Nat /\ s + N - 1 \in Nat /\ s + N - 1 = N * 1 + (s - 1)
      BY <1>1, <1>2, <2>2, <3>1
    <3>3. (a + N - 1) % N = s - 1
      BY <1>1, <3>2, Remainder
    <3>4. (s + N - 1) % N = s - 1
      BY <1>1, <3>2, Remainder
    <3> QED BY <3>3, <3>4
  <2> QED BY <2>1, <2>2
<1> QED BY <1>3, <1>4 DEF Up, Down, s

\* Nth, from any guest: where a register stands after i elements.
At(g, r, i) == (g.reg[r] + IF g.df THEN i * (N - 1) ELSE i) % N
Onward(g, r) == IF g.df THEN Down(g.reg[r]) ELSE Up(g.reg[r])

LEMMA AtIs ==
  ASSUME NEW g, NEW r, g.reg[r] \in Cells
  PROVE  /\ At(g, r, 0) = g.reg[r]
         /\ \A i \in Nat : At(g, r, i) \in Cells
         /\ \A i \in Nat : At(g, r, i + 1) = IF g.df THEN Down(At(g, r, i)) ELSE Up(At(g, r, i))
<1> DEFINE b == g.reg[r]
<1>1. N \in Nat \ {0} /\ N \in Nat /\ N - 1 \in Nat /\ b \in 0 .. N - 1 /\ b \in Nat
  BY CellsAssumption DEF Cells
<1> HIDE DEF b
<1>2. b % N = b
  <2>1. b = N * 0 + b
    BY <1>1
  <2> QED BY <1>1, <2>1, Remainder
<1>3. At(g, r, 0) = b
  <2>1. 0 * (N - 1) = 0 /\ b + 0 = b
    BY <1>1
  <2> QED BY <1>2, <2>1 DEF At, b
<1>4. ASSUME NEW i \in Nat
      PROVE  /\ At(g, r, i) \in Cells
             /\ At(g, r, i + 1) = IF g.df THEN Down(At(g, r, i)) ELSE Up(At(g, r, i))
  <2> DEFINE k == IF g.df THEN i * (N - 1) ELSE i
  <2>1. i * (N - 1) \in Nat
    BY <1>1
  <2>2. b + k \in Nat
    BY <1>1, <2>1
  <2>3. At(g, r, i) = (b + k) % N
    BY DEF At, b
  <2> HIDE DEF k
  <2>4. At(g, r, i) \in Cells
    BY <1>1, <2>2, <2>3, Division DEF Cells
  <2>5. /\ Up(At(g, r, i)) = (b + k + 1) % N
        /\ Down(At(g, r, i)) = (b + k + N - 1) % N
    BY <2>2, <2>3, AroundOnce
  <2>6. CASE g.df
    <3>1. (i + 1) * (N - 1) = i * (N - 1) + (N - 1)
      BY <1>1
    <3>2. b + (i + 1) * (N - 1) = b + k + N - 1
      BY <1>1, <2>1, <2>6, <3>1 DEF k
    <3>3. At(g, r, i + 1) = (b + (i + 1) * (N - 1)) % N
      BY <2>6 DEF At, b
    <3> QED BY <2>4, <2>5, <2>6, <3>2, <3>3
  <2>7. CASE ~g.df
    <3>1. b + (i + 1) = b + k + 1
      BY <1>1, <2>7 DEF k
    <3>2. At(g, r, i + 1) = (b + (i + 1)) % N
      BY <2>7 DEF At, b
    <3> QED BY <2>4, <2>5, <2>7, <3>1, <3>2
  <2> QED BY <2>6, <2>7
<1> QED BY <1>3, <1>4 DEF b

\* One element done: y is x with the registers moved on and the element moved
\* or compared.
Steps(ins, r) ==
  \/ r = RSI /\ ins.kind \in {"Movs", "Lods", "Cmps"}
  \/ r = RDI /\ ins.kind # "Lods"
Did(ins, x, y) ==
  /\ y.df = x.df
  /\ \A r \in {RSI, RDI} : y.reg[r] = IF Steps(ins, r) THEN Onward(x, r) ELSE x.reg[r]
  /\ y.reg[RAX] = IF ins.kind = "Lods" THEN x.mem[x.reg[RSI]] ELSE x.reg[RAX]
  /\ y.mem = IF ins.kind = "Movs" THEN [x.mem EXCEPT ![x.reg[RDI]] = x.mem[x.reg[RSI]]]
             ELSE IF ins.kind = "Stos" THEN [x.mem EXCEPT ![x.reg[RDI]] = x.reg[RAX]]
             ELSE x.mem
  /\ ins.kind = "Scas" => y.zf = (x.reg[RAX] = x.mem[x.reg[RDI]])
  /\ ins.kind = "Cmps" => y.zf = (x.mem[x.reg[RSI]] = x.mem[x.reg[RDI]])

LEMMA MovedRegs ==
  ASSUME NEW g \in Guests, NEW regs
  PROVE  LET m == Moved(regs, g) IN
         /\ \A r \in Registers : m.reg[r] = IF r \in regs THEN Onward(g, r) ELSE g.reg[r]
         /\ m.mem = g.mem /\ m.zf = g.zf /\ m.df = g.df
<1> DEFINE q == [r \in Registers |->
                   IF r \in regs THEN IF g.df THEN Down(g.reg[r]) ELSE Up(g.reg[r]) ELSE g.reg[r]]
<1>1. Moved(regs, g) = [g EXCEPT !.reg = q]
  BY DEF Moved
<1>2. \A r \in Registers : q[r] = IF r \in regs THEN Onward(g, r) ELSE g.reg[r]
  BY DEF Onward
<1> HIDE DEF q
<1>3. /\ [g EXCEPT !.reg = q].reg = q /\ [g EXCEPT !.reg = q].mem = g.mem
      /\ [g EXCEPT !.reg = q].zf = g.zf /\ [g EXCEPT !.reg = q].df = g.df
  BY DEF Guests
<1> QED BY <1>1, <1>2, <1>3

LEMMA ElementDid ==
  ASSUME NEW ins, ins.kind \in Strings, NEW g \in Guests, Placed(g), IsOpen(g)
  PROVE  Did(ins, g, Element(ins, g))
<1> DEFINE si == g.reg[RSI]
           di == g.reg[RDI]
<1>1. si \in Cells /\ di \in Cells
  BY DEF Placed
<1>2. R(si) \in Accesses /\ R(di) \in Accesses /\ W(di) \in Accesses
  BY <1>1, AccessIs
<1>3. g.mem[si] \in Values /\ g.mem[di] \in Values /\ g.reg[RAX] \in Values
  BY <1>1, RegistersAre DEF Guests
<1>4. {RAX, RSI, RDI} \subseteq Registers /\ RSI # RDI /\ RAX # RSI /\ RAX # RDI
  BY RegistersAre
<1>5. CASE ins.kind = "Movs"
  <2> DEFINE acc == <<R(si), W(di)>>
             b == [g EXCEPT !.mem[di] = g.mem[si]]
  <2>1. acc \in Seq(Accesses)
    BY <1>2
  <2>2. b \in Guests
    BY <1>1, <1>3, SetIs DEF Kept
  <2>3. b.reg = g.reg /\ b.df = g.df /\ b.mem = [g.mem EXCEPT ![di] = g.mem[si]]
    BY DEF Guests
  <2>4. Element(ins, g) = Guarded(acc, g, Moved({RSI, RDI}, b))
    BY <1>5 DEF Element
  <2> HIDE DEF acc, b
  <2>5. Element(ins, g) = Moved({RSI, RDI}, b)
    BY <2>1, <2>4, GuardedOpen
  <2> QED BY <1>4, <1>5, <2>2, <2>3, <2>5, MovedRegs DEF Did, Steps, Onward
<1>6. CASE ins.kind = "Stos"
  <2> DEFINE acc == <<W(di)>>
             b == [g EXCEPT !.mem[di] = g.reg[RAX]]
  <2>1. acc \in Seq(Accesses)
    BY <1>2
  <2>2. b \in Guests
    BY <1>1, <1>3, SetIs DEF Kept
  <2>3. b.reg = g.reg /\ b.df = g.df /\ b.mem = [g.mem EXCEPT ![di] = g.reg[RAX]]
    BY DEF Guests
  <2>4. Element(ins, g) = Guarded(acc, g, Moved({RDI}, b))
    BY <1>6 DEF Element
  <2> HIDE DEF acc, b
  <2>5. Element(ins, g) = Moved({RDI}, b)
    BY <2>1, <2>4, GuardedOpen
  <2> QED BY <1>4, <1>6, <2>2, <2>3, <2>5, MovedRegs DEF Did, Steps, Onward
<1>7. CASE ins.kind = "Lods"
  <2> DEFINE acc == <<R(si)>>
             v == g.mem[si]
             q == [g.reg EXCEPT ![RAX] = v]
             b == [g EXCEPT !.reg[RAX] = v]
  <2>1. acc \in Seq(Accesses)
    BY <1>2
  <2>2. b \in Guests
    BY <1>1, <1>3, SetIs DEF Kept
  <2>3. b.reg = q /\ b.df = g.df /\ b.mem = g.mem
    BY DEF Guests
  <2>4. Element(ins, g) = Guarded(acc, g, Moved({RSI}, b))
    BY <1>7 DEF Element
  <2>6. q[RAX] = v /\ q[RSI] = si /\ q[RDI] = di
    BY <1>4 DEF Guests
  <2> HIDE DEF acc, b, q
  <2>5. Element(ins, g) = Moved({RSI}, b)
    BY <2>1, <2>4, GuardedOpen
  <2> QED BY <1>4, <1>7, <2>2, <2>3, <2>5, <2>6, MovedRegs DEF Did, Steps, Onward
<1>8. CASE ins.kind = "Scas"
  <2> DEFINE acc == <<R(di)>>
             eq == g.reg[RAX] = g.mem[di]
             b == [g EXCEPT !.zf = eq]
  <2>1. acc \in Seq(Accesses)
    BY <1>2
  <2>2. Element(ins, g) = Guarded(acc, g, Moved({RDI}, b))
    BY <1>8 DEF Element
  <2>3. eq \in BOOLEAN
    OBVIOUS
  <2> HIDE DEF eq
  <2>4. b \in Guests
    BY <1>1, <2>3, SetIs DEF Kept
  <2>5. b.reg = g.reg /\ b.df = g.df /\ b.mem = g.mem /\ b.zf = eq
    BY DEF Guests
  <2> HIDE DEF acc, b
  <2>6. Element(ins, g) = Moved({RDI}, b)
    BY <2>1, <2>2, GuardedOpen
  <2> DEFINE e == Element(ins, g)
  <2>7. /\ \A r \in Registers : e.reg[r] = IF r \in {RDI} THEN Onward(b, r) ELSE b.reg[r]
        /\ e.mem = b.mem /\ e.zf = b.zf /\ e.df = b.df
    BY <2>4, <2>6, MovedRegs
  <2> HIDE DEF e
  <2>8. /\ e.zf = eq /\ e.mem = g.mem /\ e.df = g.df
        /\ \A r \in {RSI, RDI} : e.reg[r] = IF Steps(ins, r) THEN Onward(g, r) ELSE g.reg[r]
        /\ e.reg[RAX] = g.reg[RAX]
    BY <1>4, <1>8, <2>5, <2>7 DEF Steps, Onward
  <2>9. e.zf = (g.reg[RAX] = g.mem[g.reg[RDI]])
    BY <2>8 DEF eq
  <2>10. Did(ins, g, e)
    BY <1>8, <2>8, <2>9, Zenon DEF Did
  <2> QED BY <2>10 DEF e
<1>9. CASE ins.kind = "Cmps"
  <2> DEFINE acc == <<R(si), R(di)>>
             eq == g.mem[si] = g.mem[di]
             b == [g EXCEPT !.zf = eq]
  <2>1. acc \in Seq(Accesses)
    BY <1>2
  <2>2. Element(ins, g) = Guarded(acc, g, Moved({RSI, RDI}, b))
    BY <1>9 DEF Element
  <2>3. eq \in BOOLEAN
    OBVIOUS
  <2> HIDE DEF eq
  <2>4. b \in Guests
    BY <1>1, <2>3, SetIs DEF Kept
  <2>5. b.reg = g.reg /\ b.df = g.df /\ b.mem = g.mem /\ b.zf = eq
    BY DEF Guests
  <2> HIDE DEF acc, b
  <2>6. Element(ins, g) = Moved({RSI, RDI}, b)
    BY <2>1, <2>2, GuardedOpen
  <2> DEFINE e == Element(ins, g)
  <2>7. /\ \A r \in Registers : e.reg[r] = IF r \in {RSI, RDI} THEN Onward(b, r) ELSE b.reg[r]
        /\ e.mem = b.mem /\ e.zf = b.zf /\ e.df = b.df
    BY <2>4, <2>6, MovedRegs
  <2> HIDE DEF e
  <2>8. /\ e.zf = eq /\ e.mem = g.mem /\ e.df = g.df
        /\ \A r \in {RSI, RDI} : e.reg[r] = IF Steps(ins, r) THEN Onward(g, r) ELSE g.reg[r]
        /\ e.reg[RAX] = g.reg[RAX]
    BY <1>4, <1>9, <2>5, <2>7 DEF Steps, Onward
  <2>9. e.zf = (g.mem[g.reg[RSI]] = g.mem[g.reg[RDI]])
    BY <2>8 DEF eq
  <2>10. Did(ins, g, e)
    BY <1>9, <2>8, <2>9, Zenon DEF Did
  <2> QED BY <2>10 DEF e
<1> QED BY <1>5, <1>6, <1>7, <1>8, <1>9 DEF Strings

\* RCX is counted down beside it.
LEMMA CountedDid ==
  ASSUME NEW ins, NEW x, NEW e \in Guests, Did(ins, x, e)
  PROVE  /\ Did(ins, x, Counted(e)) /\ Counted(e).zf = e.zf
         /\ Counted(e).reg[RCX] = e.reg[RCX] - 1
<1> DEFINE q == [e.reg EXCEPT ![RCX] = e.reg[RCX] - 1]
<1>1. q[RSI] = e.reg[RSI] /\ q[RDI] = e.reg[RDI] /\ q[RAX] = e.reg[RAX]
      /\ q[RCX] = e.reg[RCX] - 1
  BY RegistersAre DEF Guests
<1>2. Counted(e) = [e EXCEPT !.reg = q]
  BY DEF Counted, Guests
<1> HIDE DEF q
<1>3. /\ [e EXCEPT !.reg = q].reg = q /\ [e EXCEPT !.reg = q].mem = e.mem
      /\ [e EXCEPT !.reg = q].zf = e.zf /\ [e EXCEPT !.reg = q].df = e.df
  BY DEF Guests
<1> DEFINE c == Counted(e)
<1>4. /\ c.zf = e.zf /\ c.mem = e.mem /\ c.df = e.df /\ c.reg[RSI] = e.reg[RSI]
      /\ c.reg[RDI] = e.reg[RDI] /\ c.reg[RAX] = e.reg[RAX] /\ c.reg[RCX] = e.reg[RCX] - 1
  BY <1>1, <1>2, <1>3
<1> HIDE DEF c
<1>5. Did(ins, x, c)
  BY <1>4 DEF Did
<1> QED BY <1>4, <1>5 DEF c

\* Elements done one after the other: x[i] is g after i of them.
Walk(ins, g, x, m) ==
  /\ x[0].reg = g.reg /\ x[0].mem = g.mem /\ x[0].df = g.df
  /\ \A i \in 0 .. m - 1 : Did(ins, x[i], x[i + 1])

LEMMA UpInduction ==
  ASSUME NEW m \in Nat, NEW S, 0 \in S, \A n \in 0 .. m - 1 : n \in S => n + 1 \in S
  PROVE  0 .. m \subseteq S
<1> DEFINE Bad == {n \in 0 .. m : n \notin S}
<1>1. SUFFICES ASSUME Bad # {} PROVE FALSE
  OBVIOUS
<1>2. PICK b \in Bad : \A k \in Bad : b <= k
  <2>1. Bad \subseteq Nat
    OBVIOUS
  <2> HIDE DEF Bad
  <2> QED BY <1>1, <2>1, LeastNat
<1>3. b \in 0 .. m /\ b # 0 /\ b - 1 \in 0 .. m - 1 /\ ~(b <= b - 1)
  BY <1>2
<1>4. b - 1 \in S
  BY <1>2, <1>3
<1>5. b - 1 + 1 \in S /\ b - 1 + 1 = b
  BY <1>3, <1>4
<1> QED BY <1>2, <1>5

\* Where the registers stand, and what stays as it is.
Stands(ins, g, y, i) ==
  /\ y.df = g.df
  /\ \A r \in {RSI, RDI} : y.reg[r] = IF Steps(ins, r) THEN At(g, r, i) ELSE g.reg[r]
  /\ ins.kind # "Lods" => y.reg[RAX] = g.reg[RAX]
  /\ ins.kind \notin {"Movs", "Stos"} => y.mem = g.mem
  /\ y.mem = [c \in Cells |-> y.mem[c]]

LEMMA WalkStands ==
  ASSUME NEW ins, NEW g \in Guests, Placed(g), NEW m \in Nat, NEW x, Walk(ins, g, x, m)
  PROVE  \A i \in 0 .. m : Stands(ins, g, x[i], i)
<1> DEFINE S == {i \in 0 .. m : Stands(ins, g, x[i], i)}
<1>1. \A r \in {RSI, RDI} : g.reg[r] \in Cells
  BY DEF Placed
<1>2. 0 \in S
  <2>1. \A r \in {RSI, RDI} : At(g, r, 0) = g.reg[r]
    BY <1>1, AtIs
  <2>2. g.mem = [c \in Cells |-> g.mem[c]]
    BY DEF Guests
  <2>3. Stands(ins, g, x[0], 0)
    BY <2>1, <2>2 DEF Stands, Walk
  <2> QED BY <2>3
<1>3. ASSUME NEW n \in 0 .. m - 1, n \in S PROVE n + 1 \in S
  <2> DEFINE a == x[n]
             b == x[n + 1]
  <2>1. Did(ins, a, b)
    BY DEF Walk
  <2>2. Stands(ins, g, a, n)
    BY <1>3
  <2> HIDE DEF a, b
  <2>3. \A r \in {RSI, RDI} : At(g, r, n + 1) = IF g.df THEN Down(At(g, r, n)) ELSE Up(At(g, r, n))
    BY <1>1, AtIs
  <2>4. \A r \in {RSI, RDI} : b.reg[r] = IF Steps(ins, r) THEN At(g, r, n + 1) ELSE g.reg[r]
    <3> SUFFICES ASSUME NEW r \in {RSI, RDI}
                 PROVE  b.reg[r] = IF Steps(ins, r) THEN At(g, r, n + 1) ELSE g.reg[r]
      OBVIOUS
    <3>1. /\ b.reg[r] = IF Steps(ins, r) THEN Onward(a, r) ELSE a.reg[r]
          /\ a.reg[r] = IF Steps(ins, r) THEN At(g, r, n) ELSE g.reg[r]
          /\ a.df = g.df
      BY <2>1, <2>2 DEF Did, Stands
    <3> QED BY <2>3, <3>1 DEF Onward
  <2>5. b.df = g.df
    BY <2>1, <2>2 DEF Did, Stands
  <2>6. ins.kind # "Lods" => b.reg[RAX] = g.reg[RAX]
    BY <2>1, <2>2 DEF Did, Stands
  <2>7. ins.kind \notin {"Movs", "Stos"} => b.mem = g.mem
    BY <2>1, <2>2 DEF Did, Stands
  <2>8. b.mem = [c \in Cells |-> b.mem[c]]
    BY <2>1, <2>2 DEF Did, Stands
  <2>9. Stands(ins, g, b, n + 1)
    BY <2>4, <2>5, <2>6, <2>7, <2>8 DEF Stands
  <2> QED BY <2>9 DEF b
<1>4. 0 .. m \subseteq S
  <2> HIDE DEF S
  <2> QED BY <1>2, <1>3, UpInduction
<1> QED BY <1>4

-----------------------------------------------------------------------------
\* The last of some elements.
Latest(S) == CHOOSE j \in S : \A k \in S : k <= j

LEMMA LatestIs ==
  ASSUME NEW n \in Nat, NEW S, S \subseteq 0 .. n - 1, S # {}
  PROVE  Latest(S) \in S /\ \A k \in S : k <= Latest(S)
<1> DEFINE Back == {n - k : k \in S}
<1>1. Back \subseteq Nat /\ Back # {}
  OBVIOUS
<1>2. PICK b \in Back : \A k \in Back : b <= k
  <2> HIDE DEF Back
  <2> QED BY <1>1, LeastNat
<1>3. PICK j \in S : b = n - j
  BY <1>2
<1>4. \A k \in S : n - k \in Back /\ k \in 0 .. n - 1
  OBVIOUS
<1>5. \A k \in S : k <= j
  <2> SUFFICES ASSUME NEW k \in S PROVE k <= j
    OBVIOUS
  <2>1. n - j <= n - k
    BY <1>2, <1>3, <1>4
  <2> QED BY <1>4, <2>1
<1> QED BY <1>3, <1>5 DEF Latest

LEMMA LatestIsIt ==
  ASSUME NEW n \in Nat, NEW S, S \subseteq 0 .. n, n \in S
  PROVE  Latest(S) = n
<1>1. S \subseteq 0 .. (n + 1) - 1 /\ n + 1 \in Nat
  OBVIOUS
<1>2. Latest(S) \in S /\ \A k \in S : k <= Latest(S)
  BY <1>1, LatestIs
<1>3. PICK l : l = Latest(S)
  OBVIOUS
<1>4. l \in 0 .. n /\ n <= l
  BY <1>2, <1>3
<1> QED BY <1>3, <1>4

\* The elements, of the first i, that went to a cell; what the i-th one moved.
WentTo(g, i, c) == {j \in 0 .. i - 1 : At(g, RDI, j) = c}
Took(ins, g, y, i) == IF ins.kind = "Stos" THEN g.reg[RAX] ELSE y.mem[At(g, RSI, i)]

LEMMA CellHolds ==
  ASSUME NEW ins, ins.kind \in {"Movs", "Stos"}, NEW g \in Guests, Placed(g),
         NEW m \in Nat, NEW x, Walk(ins, g, x, m)
  PROVE  \A i \in 0 .. m : \A c \in Cells :
           x[i].mem[c] = IF WentTo(g, i, c) = {} THEN g.mem[c]
                         ELSE Took(ins, g, x[Latest(WentTo(g, i, c))], Latest(WentTo(g, i, c)))
<1> DEFINE Holds(i, c) ==
             x[i].mem[c] = IF WentTo(g, i, c) = {} THEN g.mem[c]
                           ELSE Took(ins, g, x[Latest(WentTo(g, i, c))], Latest(WentTo(g, i, c)))
           S == {i \in 0 .. m : \A c \in Cells : Holds(i, c)}
<1>1. \A i \in 0 .. m : Stands(ins, g, x[i], i)
  BY WalkStands
<1>2. Steps(ins, RDI)
  BY DEF Steps
<1>3. 0 \in S
  <2>1. \A c \in Cells : WentTo(g, 0, c) = {}
    BY DEF WentTo
  <2> QED BY <2>1 DEF Walk
<1>4. ASSUME NEW n \in 0 .. m - 1, n \in S PROVE n + 1 \in S
  <2>1. n \in Nat /\ n \in 0 .. m /\ n + 1 \in 0 .. m
    OBVIOUS
  <2> DEFINE a == x[n]
             b == x[n + 1]
             d == At(g, RDI, n)
  <2>2. Did(ins, a, b)
    BY DEF Walk
  <2>3. Stands(ins, g, a, n)
    BY <1>1, <2>1
  <2>4. a.reg[RDI] = d /\ d \in Cells
    BY <1>2, <2>1, <2>3, AtIs DEF Stands, Placed
  <2>5. b.mem = [a.mem EXCEPT ![d] = Took(ins, g, a, n)]
    <3>1. CASE ins.kind = "Stos"
      BY <2>2, <2>3, <2>4, <3>1 DEF Did, Stands, Took
    <3>2. CASE ins.kind = "Movs"
      <4>1. a.reg[RSI] = At(g, RSI, n)
        BY <2>3, <3>2 DEF Stands, Steps
      <4>2. b.mem = [a.mem EXCEPT ![a.reg[RDI]] = a.mem[a.reg[RSI]]]
        BY <2>2, <3>2 DEF Did
      <4> QED BY <2>4, <3>2, <4>1, <4>2 DEF Took
    <3> QED BY <3>1, <3>2
  <2>6. a.mem = [c \in Cells |-> a.mem[c]]
    BY <2>3 DEF Stands
  <2> DEFINE v == Took(ins, g, a, n)
  <2> HIDE DEF v
  <2>7. \A c \in Cells : b.mem[c] = IF c = d THEN v ELSE a.mem[c]
    BY <2>4, <2>5, <2>6 DEF v
  <2> SUFFICES ASSUME NEW c \in Cells PROVE Holds(n + 1, c)
    BY <2>1
  <2>8. CASE c = d
    <3>1. n \in WentTo(g, n + 1, c) /\ WentTo(g, n + 1, c) \subseteq 0 .. n
      BY <2>1, <2>8 DEF WentTo
    <3>2. Latest(WentTo(g, n + 1, c)) = n
      BY <2>1, <3>1, LatestIsIt
    <3>3. WentTo(g, n + 1, c) # {}
      BY <3>1
    <3> QED BY <2>7, <2>8, <3>2, <3>3 DEF v
  <2>9. CASE c # d
    <3>1. WentTo(g, n + 1, c) = WentTo(g, n, c)
      BY <2>1, <2>9 DEF WentTo
    <3>2. Holds(n, c)
      BY <1>4
    <3> QED BY <2>7, <2>9, <3>1, <3>2
  <2> QED BY <2>8, <2>9
<1>5. 0 .. m \subseteq S
  <2> HIDE DEF S
  <2> QED BY <1>3, <1>4, UpInduction
<1> QED BY <1>5

\* Copied, from any guest.
SourcesTo(s, ins, g, n) ==
  s = [i \in 0 .. n |->
         IF ins.kind = "Stos" THEN g.reg[RAX]
         ELSE IF WentTo(g, i, At(g, RSI, i)) = {} THEN g.mem[At(g, RSI, i)]
         ELSE s[Latest(WentTo(g, i, At(g, RSI, i)))]]
Sources(ins, g, n) == CHOOSE s : SourcesTo(s, ins, g, n)
CopiedTo(ins, g, n) ==
  [c \in Cells |-> IF WentTo(g, n, c) = {} THEN g.mem[c]
                   ELSE Sources(ins, g, n)[Latest(WentTo(g, n, c))]]

LEMMA CopiedIs ==
  Copied = CopiedTo(op, start, Done)
BY DEF Copied, CopiedTo, Sources, SourcesTo, WentTo, Latest, Nth, At

LEMMA WalkSources ==
  ASSUME NEW ins, ins.kind \in {"Movs", "Stos"}, NEW g \in Guests, Placed(g),
         NEW m \in Nat, NEW x, Walk(ins, g, x, m)
  PROVE  \A i \in 0 .. m : Sources(ins, g, m)[i] = Took(ins, g, x[i], i)
<1> DEFINE v == [i \in 0 .. m |-> Took(ins, g, x[i], i)]
           same(i) == WentTo(g, i, At(g, RSI, i))
           s == Sources(ins, g, m)
<1>1. \A i \in 0 .. m : v[i] = Took(ins, g, x[i], i)
  OBVIOUS
<1>2. \A i \in 0 .. m : same(i) \subseteq 0 .. i - 1
  BY DEF WentTo
<1>3. ASSUME NEW i \in 0 .. m, same(i) # {}
      PROVE  Latest(same(i)) \in 0 .. i - 1 /\ Latest(same(i)) \in 0 .. m
  <2>1. i \in Nat
    OBVIOUS
  <2> HIDE DEF same
  <2>2. Latest(same(i)) \in 0 .. i - 1
    BY <1>2, <1>3, <2>1, LatestIs
  <2> QED BY <2>1, <2>2
<1> HIDE DEF v
<1>4. ASSUME NEW i \in 0 .. m
      PROVE  v[i] = IF ins.kind = "Stos" THEN g.reg[RAX]
                    ELSE IF same(i) = {} THEN g.mem[At(g, RSI, i)] ELSE v[Latest(same(i))]
  <2>1. CASE ins.kind = "Stos"
    BY <1>1, <2>1 DEF Took
  <2>2. CASE ins.kind = "Movs"
    <3>1. i \in Nat /\ i \in 0 .. m
      OBVIOUS
    <3>2. At(g, RSI, i) \in Cells
      BY <3>1, AtIs DEF Placed
    <3>3. x[i].mem[At(g, RSI, i)] =
            IF same(i) = {} THEN g.mem[At(g, RSI, i)]
            ELSE Took(ins, g, x[Latest(same(i))], Latest(same(i)))
      BY <3>1, <3>2, CellHolds
    <3>4. v[i] = x[i].mem[At(g, RSI, i)]
      BY <1>1, <2>2 DEF Took
    <3> QED BY <1>1, <1>3, <2>2, <3>3, <3>4
  <2> QED BY <2>1, <2>2
<1>5. SourcesTo(v, ins, g, m)
  <2>1. v = [i \in 0 .. m |-> v[i]]
    BY DEF v
  <2> QED BY <1>4, <2>1 DEF SourcesTo
<1>6. SourcesTo(s, ins, g, m)
  BY <1>5, Zenon DEF Sources
<1> HIDE DEF s
<1>7. \A i \in 0 .. m :
        s[i] = IF ins.kind = "Stos" THEN g.reg[RAX]
               ELSE IF same(i) = {} THEN g.mem[At(g, RSI, i)] ELSE s[Latest(same(i))]
  <2> DEFINE e(i) == IF ins.kind = "Stos" THEN g.reg[RAX]
                     ELSE IF same(i) = {} THEN g.mem[At(g, RSI, i)] ELSE s[Latest(same(i))]
  <2>1. s = [i \in 0 .. m |-> e(i)]
    BY <1>6 DEF SourcesTo
  <2> HIDE DEF e
  <2>2. \A i \in 0 .. m : s[i] = e(i)
    BY <2>1
  <2> QED BY <2>2 DEF e
<1> DEFINE Bad == {i \in 0 .. m : s[i] # v[i]}
<1>8. ASSUME Bad # {} PROVE FALSE
  <2>1. Bad \subseteq Nat
    OBVIOUS
  <2>2. PICK b \in Bad : \A k \in Bad : b <= k
    <3> HIDE DEF Bad
    <3> QED BY <1>8, <2>1, LeastNat
  <2>3. b \in 0 .. m /\ s[b] # v[b]
    BY <2>2
  <2> HIDE DEF same
  <2>4. CASE same(b) # {}
    <3> DEFINE l == Latest(same(b))
    <3>1. l \in 0 .. b - 1 /\ l \in 0 .. m
      BY <1>3, <2>3, <2>4
    <3> HIDE DEF l
    <3>2. s[l] = v[l]
      BY <2>2, <3>1
    <3> QED BY <1>4, <1>7, <2>3, <2>4, <3>2 DEF l
  <2>5. CASE same(b) = {}
    BY <1>4, <1>7, <2>3, <2>5
  <2> QED BY <2>4, <2>5
<1> QED BY <1>1, <1>8 DEF s

\* A walk leaves memory as Copied has it.
LEMMA WalkCopied ==
  ASSUME NEW ins, ins.kind \in {"Movs", "Stos"}, NEW g \in Guests, Placed(g),
         NEW m \in Nat, NEW x, Walk(ins, g, x, m)
  PROVE  x[m].mem = CopiedTo(ins, g, m)
<1>1. m \in 0 .. m
  OBVIOUS
<1>2. x[m].mem = [c \in Cells |-> x[m].mem[c]]
  BY <1>1, WalkStands DEF Stands
<1>3. ASSUME NEW c \in Cells
      PROVE  x[m].mem[c] = IF WentTo(g, m, c) = {} THEN g.mem[c]
                           ELSE Sources(ins, g, m)[Latest(WentTo(g, m, c))]
  <2> DEFINE to == WentTo(g, m, c)
  <2>1. x[m].mem[c] = IF to = {} THEN g.mem[c] ELSE Took(ins, g, x[Latest(to)], Latest(to))
    BY <1>1, CellHolds
  <2>2. to \subseteq 0 .. m - 1
    BY DEF WentTo
  <2> HIDE DEF to
  <2>3. to # {} => Latest(to) \in 0 .. m - 1
    BY <2>2, LatestIs
  <2>5. 0 .. m - 1 \subseteq 0 .. m
    OBVIOUS
  <2>4. to # {} => Sources(ins, g, m)[Latest(to)] = Took(ins, g, x[Latest(to)], Latest(to))
    BY <2>3, <2>5, WalkSources
  <2> QED BY <2>1, <2>4 DEF to
<1> QED BY <1>2, <1>3 DEF CopiedTo

-----------------------------------------------------------------------------
\* A string instruction over open memory walks m elements: one, or as many as
\* RCX says unless it ends at the last of them.
Ran(ins, h, x, m) ==
  /\ Walk(ins, h, x, m) /\ x[m] \in Guests
  /\ ~(ins.rep \/ ins.repne) => m = 1
  /\ ins.rep \/ ins.repne =>
       /\ x[m].reg[RCX] = h.reg[RCX] - m /\ m <= h.reg[RCX]
       /\ m = h.reg[RCX] \/ (m # 0 /\ Ends(ins, x[m]))
       /\ \A i \in 1 .. m - 1 : ~Ends(ins, x[i])

LEMMA StringRan ==
  ASSUME NEW ins, ins.kind \in Strings, NEW g, Ready(g)
  PROVE  \E m \in Nat : \E x : Ran(ins, Open(g), x, m) /\ x[m] = Handle(ins, Open(g))
<1> DEFINE h == Open(g)
<1>1. /\ h \in Guests /\ Placed(h) /\ IsOpen(h) /\ h.reg = g.reg /\ h.fault = NoFault
  BY OpenIs DEF Ready, Alikes, SameBut, Placed
<1>2. Handle(ins, h) = RunString(ins, h)
  BY HandleIs
<1>3. CASE ~(ins.rep \/ ins.repne)
  <2> DEFINE x == [i \in 0 .. 1 |-> IF i = 0 THEN h ELSE Element(ins, h)]
  <2>1. x[0] = h /\ x[1] = Element(ins, h)
    OBVIOUS
  <2>2. Handle(ins, h) = Element(ins, h)
    BY <1>2, <1>3, RunStringIs
  <2>3. Did(ins, h, Element(ins, h))
    BY <1>1, ElementDid
  <2> HIDE DEF x, h
  <2>4. Walk(ins, h, x, 1)
    <3>1. \A i \in 0 .. 1 - 1 : i = 0 /\ i + 1 = 1
      OBVIOUS
    <3> QED BY <2>1, <2>3, <3>1 DEF Walk
  <2>5. Element(ins, h) \in Guests
    <3>1. Open(h) = h
      BY <1>1, OpenIs DEF SameBut, h
    <3> QED BY <1>1, <3>1, ElementSame DEF Kept
  <2>6. Ran(ins, h, x, 1)
    BY <1>3, <2>1, <2>4, <2>5 DEF Ran
  <2> QED BY <2>1, <2>2, <2>6 DEF h
<1>4. CASE ins.rep \/ ins.repne
  <2> DEFINE U == Turns(ins, h)
             rcx == g.reg[RCX]
             Over == {n \in 0 .. N + 1 : ~U[n].more}
  <2>1. /\ \A n \in 0 .. N + 1 : OpenTurn(U[n], rcx, n)
        /\ ~U[N + 1].more
    BY OpenTurns
  <2>2. U[0] = FirstTurn(h) /\ \A n \in 1 .. N + 1 : U[n] = NextTurn(ins, U[n - 1])
    BY TurnsAre
  <2>3. Handle(ins, h) = U[N + 1].guest
    BY <1>2, <1>4, RunStringIs
  <2>4. N \in Nat /\ rcx \in Nat
    <3>1. rcx \in Values
      BY RegistersAre DEF Ready, Guests
    <3> QED BY <3>1, CellsAssumption DEF Values
  <2> HIDE DEF U, h, rcx
  <2>5. PICK m \in Over : \A k \in Over : m <= k
    <3>1. Over \subseteq Nat /\ Over # {}
      BY <2>1, <2>4
    <3> HIDE DEF Over
    <3> QED BY <3>1, LeastNat
  <2>6. m \in Nat /\ m <= N + 1 /\ ~U[m].more /\ \A k \in 0 .. m - 1 : U[k].more
    BY <2>4, <2>5
  <2>7. ASSUME NEW k \in 0 .. m - 1
        PROVE  LET y == U[k].guest
                   c == Counted(Element(ins, y))
               IN  /\ k \in 0 .. N + 1 /\ k + 1 \in 1 .. N + 1
                   /\ U[k + 1].guest = c
                   /\ U[k + 1].more <=> (c.reg[RCX] # 0 /\ ~Ends(ins, c))
                   /\ Did(ins, y, c)
                   /\ c.reg[RCX] = rcx - (k + 1) /\ rcx - k # 0 /\ rcx - k \in Nat
    <3> DEFINE y == U[k].guest
               e == Element(ins, y)
               c == Counted(e)
               b == c.reg[RCX] # 0 /\ ~Ends(ins, c)
    <3>1. k \in 0 .. N + 1 /\ k + 1 \in 1 .. N + 1 /\ k + 1 - 1 = k /\ U[k].more
      BY <2>4, <2>6
    <3>2. /\ y \in Guests /\ Placed(y) /\ IsOpen(y) /\ y.fault = NoFault
          /\ y.reg[RCX] = rcx - k /\ y.reg[RCX] # 0
      BY <2>1, <3>1 DEF OpenTurn
    <3>3. Open(y) = y
      BY <3>2, OpenIs DEF SameBut
    <3>4. Kept(e, y)
      BY <3>2, <3>3, ElementSame
    <3>5. Did(ins, y, e)
      BY <3>2, ElementDid
    <3>6. U[k + 1] = NextTurn(ins, U[k])
      BY <2>2, <3>1
    <3> HIDE DEF e
    <3>7. e \in Guests /\ e.fault = NoFault /\ e.reg[RCX] = y.reg[RCX]
      BY <3>2, <3>4 DEF Kept
    <3>8. Did(ins, y, c) /\ c.reg[RCX] = rcx - k - 1
      BY <3>2, <3>5, <3>7, CountedDid
    <3>9. U[k + 1] = [guest |-> c, more |-> b]
      BY <3>1, <3>6, <3>7, Zenon DEF NextTurn, e
    <3> HIDE DEF c
    <3>10. rcx - k - 1 = rcx - (k + 1)
      BY <2>4, <3>1
    <3> HIDE DEF b
    <3>11. U[k + 1].guest = c /\ U[k + 1].more = b
      BY <3>9
    <3>12. rcx - k # 0 /\ rcx - k \in Nat
      BY <3>2, RegistersAre, CellsAssumption DEF Guests, Values
    <3>13. U[k + 1].more <=> (c.reg[RCX] # 0 /\ ~Ends(ins, c))
      BY <3>11, Zenon DEF b
    <3> QED BY <3>1, <3>8, <3>10, <3>11, <3>12, <3>13 DEF c, e
  <2> DEFINE x == [i \in 0 .. m |-> U[i].guest]
  <2>8. \A i \in 0 .. m : x[i] = U[i].guest
    OBVIOUS
  <2> HIDE DEF x
  <2>9. x[0] = h
    BY <2>2, <2>6, <2>8 DEF FirstTurn
  <2>10. \A i \in 0 .. m - 1 : Did(ins, x[i], x[i + 1])
    <3> SUFFICES ASSUME NEW i \in 0 .. m - 1 PROVE Did(ins, x[i], x[i + 1])
      OBVIOUS
    <3>1. x[i] = U[i].guest /\ x[i + 1] = U[i + 1].guest
      BY <2>6, <2>8
    <3> QED BY <2>7, <3>1
  <2>11. U[N + 1] = U[m]
    <3>0. PICK d : d = N + 1 - m /\ d \in Nat
      BY <2>4, <2>6
    <3> DEFINE S == {j \in 0 .. d : U[m + j] = U[m]}
    <3>1. 0 \in S
      BY <2>6, <3>0
    <3>2. ASSUME NEW j \in 0 .. d - 1, j \in S PROVE j + 1 \in S
      <4>1. m + (j + 1) \in 1 .. N + 1 /\ m + (j + 1) - 1 = m + j /\ j + 1 \in 0 .. d
        BY <2>4, <2>6, <3>0
      <4>2. U[m + (j + 1)] = NextTurn(ins, U[m + j])
        BY <2>2, <4>1
      <4>3. U[m + j] = U[m]
        BY <3>2
      <4>4. NextTurn(ins, U[m]) = U[m]
        BY <2>6 DEF NextTurn
      <4> QED BY <4>1, <4>2, <4>3, <4>4
    <3>4. 0 .. d \subseteq S
      <4> HIDE DEF S
      <4> QED BY <3>0, <3>1, <3>2, UpInduction
    <3>5. m + d = N + 1 /\ d \in S
      BY <2>4, <2>6, <3>0, <3>4
    <3> QED BY <3>5
  <2>12. x[m] = Handle(ins, h)
    BY <2>3, <2>6, <2>8, <2>11
  <2>13. h.reg[RCX] = rcx
    BY <1>1 DEF h, rcx
  <2>14. /\ x[m].reg[RCX] = rcx - m /\ m <= rcx
         /\ m = rcx \/ (m # 0 /\ Ends(ins, x[m]))
    <3>1. CASE m = 0
      <4>1. ~(h.reg[RCX] # 0)
        <5> DEFINE b == h.reg[RCX] # 0
        <5> HIDE DEF b
        <5>1. U[0] = [guest |-> h, more |-> b]
          BY <2>2 DEF FirstTurn, b
        <5>2. U[0].more = b
          BY <5>1
        <5> QED BY <2>6, <3>1, <5>2 DEF b
      <4> QED BY <2>4, <2>9, <2>13, <3>1, <4>1
    <3>2. CASE m # 0
      <4>1. m - 1 \in 0 .. m - 1 /\ m - 1 + 1 = m
        BY <2>6, <3>2
      <4> DEFINE c == Counted(Element(ins, U[m - 1].guest))
      <4>2. /\ U[m].guest = c /\ (U[m].more <=> (c.reg[RCX] # 0 /\ ~Ends(ins, c)))
            /\ c.reg[RCX] = rcx - m /\ rcx - (m - 1) # 0 /\ rcx - (m - 1) \in Nat
        BY <2>7, <4>1
      <4> HIDE DEF c
      <4>3. x[m] = c
        BY <2>6, <2>8, <4>2
      <4>4. m <= rcx
        BY <2>4, <2>6, <4>2
      <4>5. rcx - m = 0 \/ Ends(ins, c)
        BY <2>6, <4>2
      <4> QED BY <2>4, <2>6, <3>2, <4>2, <4>3, <4>4, <4>5
    <3> QED BY <3>1, <3>2
  <2>15. ASSUME NEW i \in 1 .. m - 1 PROVE ~Ends(ins, x[i])
    <3>1. i - 1 \in 0 .. m - 1 /\ i - 1 + 1 = i /\ i \in 0 .. m - 1 /\ i \in 0 .. m
      BY <2>6
    <3>2. U[i].more /\ x[i] = U[i].guest
      BY <2>6, <2>8, <3>1
    <3> QED BY <2>7, <3>1, <3>2
  <2>16. x[m] \in Guests
    <3>1. m \in 0 .. N + 1 /\ m \in 0 .. m
      BY <2>4, <2>6
    <3>2. OpenTurn(U[m], rcx, m)
      BY <2>1, <3>1
    <3> QED BY <2>8, <3>1, <3>2 DEF OpenTurn
  <2>17. Ran(ins, h, x, m)
    BY <1>4, <2>9, <2>10, <2>13, <2>14, <2>15, <2>16 DEF Ran, Walk
  <2> QED BY <2>6, <2>12, <2>17 DEF h
<1> QED BY <1>3, <1>4

\* Whether the i-th elements are equal, and whether a comparison ends there.
EqualAt(ins, g, i) ==
  (IF ins.kind = "Scas" THEN g.reg[RAX] ELSE g.mem[At(g, RSI, i)]) = g.mem[At(g, RDI, i)]
EndsAt(ins, g, i) ==
  (ins.rep /\ ~EqualAt(ins, g, i)) \/ (ins.repne /\ EqualAt(ins, g, i))

LEMMA WalkCompares ==
  ASSUME NEW ins, ins.kind \in {"Scas", "Cmps"}, NEW g \in Guests, Placed(g),
         NEW m \in Nat, NEW x, Walk(ins, g, x, m), NEW i \in 1 .. m
  PROVE  /\ x[i].zf = EqualAt(ins, g, i - 1)
         /\ Ends(ins, x[i]) <=> EndsAt(ins, g, i - 1)
<1>1. i - 1 \in 0 .. m - 1 /\ i - 1 \in 0 .. m /\ i - 1 + 1 = i
  OBVIOUS
<1> DEFINE a == x[i - 1]
           b == x[i]
<1>2. Did(ins, a, b)
  BY <1>1 DEF Walk
<1>3. Stands(ins, g, a, i - 1)
  BY <1>1, WalkStands
<1> HIDE DEF a, b
<1>4. a.mem = g.mem /\ a.reg[RAX] = g.reg[RAX] /\ a.reg[RDI] = At(g, RDI, i - 1)
  BY <1>3 DEF Stands, Steps
<1>5. ins.kind = "Cmps" => a.reg[RSI] = At(g, RSI, i - 1)
  BY <1>3 DEF Stands, Steps
<1>6. b.zf = EqualAt(ins, g, i - 1)
  <2>1. CASE ins.kind = "Scas"
    <3>1. b.zf = (a.reg[RAX] = a.mem[a.reg[RDI]])
      BY <1>2, <2>1, Zenon DEF Did
    <3> QED BY <1>4, <2>1, <3>1 DEF EqualAt
  <2>2. CASE ins.kind = "Cmps"
    <3>1. b.zf = (a.mem[a.reg[RSI]] = a.mem[a.reg[RDI]])
      BY <1>2, <2>2, Zenon DEF Did
    <3> QED BY <1>4, <1>5, <2>2, <3>1 DEF EqualAt
  <2> QED BY <2>1, <2>2
<1>7. Ends(ins, b) <=> EndsAt(ins, g, i - 1)
  BY <1>6, Zenon DEF Ends, EndsAt
<1> QED BY <1>6, <1>7 DEF b

\* How far a string instruction gets.
LEMMA RanLength ==
  ASSUME NEW ins, ins.kind \in Strings, NEW g \in Guests, Placed(g),
         NEW m \in Nat, NEW x, Ran(ins, g, x, m), ins.rep \/ ins.repne
  PROVE  /\ g.reg[RCX] - x[m].reg[RCX] = m
         /\ ins.kind \in {"Scas", "Cmps"} =>
              LET stops == {i \in 0 .. g.reg[RCX] - 1 : EndsAt(ins, g, i)}
              IN  m = IF stops = {} THEN g.reg[RCX]
                      ELSE 1 + CHOOSE i \in stops : \A j \in stops : i <= j
         /\ ins.repne /\ ~ins.rep /\ ins.kind \notin {"Scas", "Cmps"} => x[m].reg[RCX] = 0
<1> DEFINE rcx == g.reg[RCX]
<1>1. rcx \in Nat
  BY RegistersAre, CellsAssumption DEF Guests, Values
<1>2. /\ Walk(ins, g, x, m) /\ x[m].reg[RCX] = rcx - m /\ m <= rcx
      /\ m = rcx \/ (m # 0 /\ Ends(ins, x[m]))
      /\ \A i \in 1 .. m - 1 : ~Ends(ins, x[i])
  BY DEF Ran
<1> HIDE DEF rcx
<1>3. rcx - x[m].reg[RCX] = m
  BY <1>1, <1>2
<1>4. ASSUME ins.kind \in {"Scas", "Cmps"}
      PROVE  LET stops == {i \in 0 .. rcx - 1 : EndsAt(ins, g, i)}
             IN  m = IF stops = {} THEN rcx
                     ELSE 1 + CHOOSE i \in stops : \A j \in stops : i <= j
  <2> DEFINE stops == {i \in 0 .. rcx - 1 : EndsAt(ins, g, i)}
  <2>1. \A i \in 1 .. m : Ends(ins, x[i]) <=> EndsAt(ins, g, i - 1)
    BY <1>2, <1>4, WalkCompares
  <2>2. \A i \in stops : i \in Nat /\ i <= rcx - 1
    BY <1>1
  <2>3. \A i \in stops : m - 1 <= i
    <3> SUFFICES ASSUME NEW i \in stops, i < m - 1 PROVE FALSE
      BY <1>1, <2>2
    <3>1. i + 1 \in 1 .. m - 1 /\ i + 1 \in 1 .. m /\ i + 1 - 1 = i
      BY <2>2
    <3>2. ~EndsAt(ins, g, i)
      BY <1>2, <2>1, <3>1
    <3> QED BY <3>2
  <2>4. m = rcx \/ m - 1 \in stops
    <3> SUFFICES ASSUME m # rcx PROVE m - 1 \in stops
      OBVIOUS
    <3>1. m # 0 /\ Ends(ins, x[m]) /\ m \in 1 .. m /\ m - 1 \in 0 .. rcx - 1
      BY <1>1, <1>2
    <3> QED BY <2>1, <3>1
  <2>5. CASE stops = {}
    BY <2>4, <2>5
  <2>6. CASE stops # {}
    <3>1. m - 1 \in stops
      <4>1. PICK i \in stops : TRUE
        BY <2>6
      <4>2. m = rcx => i = m - 1
        BY <1>1, <2>2, <2>3
      <4> QED BY <2>4, <4>2
    <3> HIDE DEF stops
    <3> DEFINE l == CHOOSE i \in stops : \A j \in stops : i <= j
    <3>2. l \in stops /\ \A j \in stops : l <= j
      BY <2>3, <3>1
    <3> HIDE DEF l
    <3>3. l = m - 1
      BY <2>2, <2>3, <3>1, <3>2
    <3>4. m = 1 + l
      BY <3>3
    <3> QED BY <2>6, <3>4 DEF l, stops
  <2> QED BY <2>5, <2>6
<1>5. ASSUME ins.repne, ~ins.rep, ins.kind \notin {"Scas", "Cmps"} PROVE x[m].reg[RCX] = 0
  <2>1. ~Ends(ins, x[m])
    BY <1>5 DEF Ends
  <2> QED BY <1>1, <1>2, <2>1
<1> QED BY <1>3, <1>4, <1>5 DEF rcx

\* What LODS leaves in RAX.
LEMMA WalkLoads ==
  ASSUME NEW ins, ins.kind = "Lods", NEW g \in Guests, Placed(g),
         NEW m \in Nat, m # 0, NEW x, Walk(ins, g, x, m)
  PROVE  x[m].reg[RAX] = g.mem[At(g, RSI, m - 1)]
<1>1. m - 1 \in 0 .. m - 1 /\ m - 1 \in 0 .. m /\ m - 1 + 1 = m
  OBVIOUS
<1>2. Did(ins, x[m - 1], x[m])
  BY <1>1 DEF Walk
<1>3. Stands(ins, g, x[m - 1], m - 1)
  BY <1>1, WalkStands
<1>4. x[m - 1].mem = g.mem /\ x[m - 1].reg[RSI] = At(g, RSI, m - 1)
  BY <1>3 DEF Stands, Steps
<1> QED BY <1>2, <1>4 DEF Did

LEMMA AdvancedKeeps ==
  ASSUME NEW o, NEW r \in Guests, NEW p
  PROVE  LET z == [Advanced(o, r) EXCEPT !.perm = p] IN
         z.reg = r.reg /\ z.mem = r.mem /\ z.zf = r.zf
BY DEF Advanced, Guests

\* However often it was refused an access, a string instruction has done as many
\* elements as it is defined to, forward or backward, over itself or not, and
\* left registers, memory and the zero flag as its definition says.
THEOREM StringsArchitecturalHolds == MCSpec => []StringsArchitectural
<1>1. MCInit => RInv
  <2> SUFFICES ASSUME MCInit PROVE RInv
    OBVIOUS
  <2>1. phase = "decode"
    BY DEF MCInit, GuestInit
  <2> QED BY <2>1 DEF RInv, Began, Underway
<1>2. RInv /\ [MCNext]_<<guestVars, foldVars>> => RInv'
  BY RInvStep
<1>3. RInv => StringsArchitectural
  <2> SUFFICES ASSUME RInv, phase = "done", op.kind \in Strings
               PROVE  StringsArchitectural
    BY DEF StringsArchitectural
  <2> DEFINE h == Open(start)
             r == Handle(op, h)
  <2>1. Precise(op)
    BY DEF Precise, Strings
  <2>2. Ready(start) /\ guest = [Advanced(op, r) EXCEPT !.perm = guest.perm]
    BY <2>1 DEF RInv, Began, Underway, End
  <2>3. /\ start \in Guests /\ Placed(start) /\ h.reg = start.reg /\ h.mem = start.mem
        /\ h.df = start.df
    BY <2>2, OpenIs DEF Ready, Alikes, SameBut
  <2>4. PICK m \in Nat : \E x : Ran(op, h, x, m) /\ x[m] = r
    BY <2>2, StringRan
  <2>5. PICK x : Ran(op, h, x, m) /\ x[m] = r
    BY <2>4
  <2> HIDE DEF h, r
  <2>6. Ran(op, start, x, m) /\ r \in Guests
    BY <2>3, <2>5 DEF Ran, Walk
  <2>7. guest.reg = r.reg /\ guest.mem = r.mem /\ guest.zf = r.zf
    <3>1. LET z == [Advanced(op, r) EXCEPT !.perm = guest.perm] IN
          z.reg = r.reg /\ z.mem = r.mem /\ z.zf = r.zf
      BY <2>6, AdvancedKeeps
    <3> QED BY <2>2, <3>1
  <2>8. Walk(op, start, x, m) /\ m \in 0 .. m
    BY <2>6 DEF Ran
  <2>9. Done = m
    <3>1. CASE op.rep \/ op.repne
      <4>1. start.reg[RCX] - x[m].reg[RCX] = m
        BY <2>3, <2>6, <3>1, RanLength
      <4> QED BY <2>5, <2>7, <3>1, <4>1 DEF Done, Repeated
    <3>2. CASE ~(op.rep \/ op.repne)
      BY <2>6, <3>2 DEF Done, Repeated, Ran
    <3> QED BY <3>1, <3>2
  <2>10. \A s, i : Nth(s, i) = At(start, s, i)
    BY DEF Nth, At
  <2>11. Stands(op, start, r, m)
    BY <2>3, <2>5, <2>8, WalkStands
  <2>12. /\ guest.reg[RSI] = IF op.kind \in {"Movs", "Lods", "Cmps"} THEN Nth(RSI, Done) ELSE start.reg[RSI]
         /\ guest.reg[RDI] = IF op.kind # "Lods" THEN Nth(RDI, Done) ELSE start.reg[RDI]
    BY <2>7, <2>9, <2>10, <2>11, RegistersAre DEF Stands, Steps
  <2>13. guest.mem = IF op.kind \in {"Movs", "Stos"} THEN Copied ELSE start.mem
    <3>1. CASE op.kind \in {"Movs", "Stos"}
      <4>1. r.mem = CopiedTo(op, start, m)
        BY <2>3, <2>5, <2>8, <3>1, WalkCopied
      <4> QED BY <2>7, <2>9, <3>1, <4>1, CopiedIs
    <3>2. CASE op.kind \notin {"Movs", "Stos"}
      BY <2>7, <2>11, <3>2 DEF Stands
    <3> QED BY <3>1, <3>2
  <2>14. op.kind = "Lods" /\ Done > 0 => guest.reg[RAX] = start.mem[Nth(RSI, Done - 1)]
    <3> SUFFICES ASSUME op.kind = "Lods", m # 0
                 PROVE  guest.reg[RAX] = start.mem[Nth(RSI, Done - 1)]
      BY <2>9
    <3>1. r.reg[RAX] = start.mem[At(start, RSI, m - 1)]
      BY <2>3, <2>5, <2>8, WalkLoads
    <3> QED BY <2>7, <2>9, <2>10, <3>1
  <2>15. \A i : Equal(i) = EqualAt(op, start, i)
    BY <2>10 DEF Equal, EqualAt
  <2>16. op.kind \in {"Scas", "Cmps"} /\ Done > 0 => guest.zf = Equal(Done - 1)
    <3> SUFFICES ASSUME op.kind \in {"Scas", "Cmps"}, m # 0 PROVE guest.zf = Equal(m - 1)
      BY <2>9
    <3>1. m \in 1 .. m
      OBVIOUS
    <3>2. r.zf = EqualAt(op, start, m - 1)
      BY <2>3, <2>5, <2>8, <3>1, WalkCompares
    <3> QED BY <2>7, <2>15, <3>2, Zenon
  <2>17. Repeated /\ op.kind \in {"Scas", "Cmps"} =>
           LET stops == {i \in 0 .. start.reg[RCX] - 1 :
                           (op.rep /\ ~Equal(i)) \/ (op.repne /\ Equal(i))}
           IN  Done = IF stops = {} THEN start.reg[RCX]
                      ELSE 1 + CHOOSE i \in stops : \A j \in stops : i <= j
    <3> SUFFICES ASSUME Repeated, op.kind \in {"Scas", "Cmps"}
                 PROVE  LET stops == {i \in 0 .. start.reg[RCX] - 1 :
                                        (op.rep /\ ~Equal(i)) \/ (op.repne /\ Equal(i))}
                        IN  Done = IF stops = {} THEN start.reg[RCX]
                                   ELSE 1 + CHOOSE i \in stops : \A j \in stops : i <= j
      OBVIOUS
    <3> DEFINE stops == {i \in 0 .. start.reg[RCX] - 1 :
                           (op.rep /\ ~Equal(i)) \/ (op.repne /\ Equal(i))}
               halts == {i \in 0 .. start.reg[RCX] - 1 : EndsAt(op, start, i)}
    <3>1. stops = halts
      BY <2>15, Zenon DEF EndsAt
    <3>2. m = IF halts = {} THEN start.reg[RCX]
              ELSE 1 + CHOOSE i \in halts : \A j \in halts : i <= j
      BY <2>3, <2>6, RanLength DEF Repeated
    <3> HIDE DEF stops, halts
    <3>3. Done = IF stops = {} THEN start.reg[RCX]
                 ELSE 1 + CHOOSE i \in stops : \A j \in stops : i <= j
      BY <2>9, <3>1, <3>2
    <3> QED BY <3>3 DEF stops
  <2>18. op.repne /\ ~op.rep /\ op.kind \notin {"Scas", "Cmps"} => guest.reg[RCX] = 0
    BY <2>3, <2>5, <2>6, <2>7, RanLength
  <2> QED BY <2>12, <2>13, <2>14, <2>16, <2>17, <2>18, Zenon DEF StringsArchitectural
<1> QED BY <1>1, <1>2, <1>3, PTL DEF MCSpec

=============================================================================
