------------------------------- MODULE Prefixes -------------------------------
(***************************************************************************)
(* What stands around the opcode of an x86-64 instruction, as the decoder  *)
(* reads it: the legacy, REX, VEX and EVEX prefixes before it, the ModRM   *)
(* byte, the SIB byte and the displacement after it.  An instruction is a  *)
(* sequence of bytes; a reader that runs off its end gets no byte.         *)
(***************************************************************************)
EXTENDS Integers, Sequences

Byte == 0 .. 255

\* Bit i of a byte, and its bits i .. i + n - 1.
Bit(b, i) == (b \div 2^i) % 2 = 1
Bits(b, i, n) == (b \div 2^i) % 2^n

Legacy == {\h66, \h67, \hF0, \hF2, \hF3, \h26, \h2E, \h36, \h3E, \h64, \h65}
Segment == {\h26, \h2E, \h36, \h3E, \h64, \h65}

\* The loop takes legacy prefixes for as long as there are any.
LegacyCount(s) ==
  CHOOSE n \in 0 .. Len(s) :
    /\ n < Len(s) => s[n + 1] \notin Legacy
    /\ \A i \in 1 .. n : s[i] \in Legacy

\* px before a VEX, EVEX or REX prefix is looked for.
LegacyPrefixes(s) ==
  LET n     == LegacyCount(s)
      found == {s[i] : i \in 1 .. n}
  IN  [len |-> n, p66 |-> \h66 \in found, p67 |-> \h67 \in found,
       lock |-> \hF0 \in found, f2 |-> \hF2 \in found, f3 |-> \hF3 \in found,
       seg |-> found \cap Segment # {}, vex |-> "no", map |-> 0,
       rex |-> FALSE, w |-> FALSE, r |-> FALSE, x |-> FALSE, b |-> FALSE,
       r16 |-> FALSE, l |-> FALSE, l2 |-> FALSE, vvvv |-> 0]

\* apply_vex_pp: the two pp bits stand for a 66, F3 or F2 prefix.
WithPp(px, pp) ==
  [px EXCEPT !.p66 = @ \/ pp = 1, !.f3 = @ \/ pp = 2, !.f2 = @ \/ pp = 3]

Inverted(b) == 15 - Bits(b, 3, 4)

Vex2(px, s) ==
  LET v == s[px.len + 2] IN
  WithPp([px EXCEPT !.len = @ + 2, !.vex = "vex", !.map = 1,
                    !.r = ~Bit(v, 7), !.l = Bit(v, 2), !.vvvv = Inverted(v)],
         Bits(v, 0, 2))

Vex3(px, s) ==
  LET b1 == s[px.len + 2]
      b2 == s[px.len + 3]
  IN  WithPp([px EXCEPT !.len = @ + 3, !.vex = "vex", !.map = Bits(b1, 0, 5),
                        !.r = ~Bit(b1, 7), !.x = ~Bit(b1, 6), !.b = ~Bit(b1, 5),
                        !.w = Bit(b2, 7), !.l = Bit(b2, 2), !.vvvv = Inverted(b2)],
             Bits(b2, 0, 2))

\* V' of the last byte is stored inverted in evex_v_ and tested inverted again.
Evex(px, s) ==
  LET p1 == s[px.len + 2]
      p2 == s[px.len + 3]
      p3 == s[px.len + 4]
  IN  WithPp([px EXCEPT !.len = @ + 4, !.vex = "evex", !.map = Bits(p1, 0, 3),
                        !.r = ~Bit(p1, 7), !.x = ~Bit(p1, 6), !.b = ~Bit(p1, 5),
                        !.r16 = ~Bit(p1, 4), !.w = Bit(p2, 7), !.l = Bit(p3, 5),
                        !.l2 = Bit(p3, 6),
                        !.vvvv = Inverted(p2) + IF Bit(p3, 3) THEN 16 ELSE 0],
             Bits(p2, 0, 2))

Rex(px, b) ==
  [px EXCEPT !.len = @ + 1, !.rex = TRUE,
             !.w = Bit(b, 3), !.r = Bit(b, 2), !.x = Bit(b, 1), !.b = Bit(b, 0)]

\* The bytes a prefix that begins with b has, 0 when b begins the opcode.
LongPrefix(b) ==
  CASE b = \hC5 -> 2 [] b = \hC4 -> 3 [] b = \h62 -> 4 [] b \in \h40 .. \h4F -> 1
    [] OTHER -> 0

\* scan_prefixes runs off the end: no byte after the legacy prefixes, or too
\* few after the first of a VEX or EVEX prefix.
ScanTruncated(s) ==
  LET n == LegacyCount(s) IN n = Len(s) \/ n + LongPrefix(s[n + 1]) > Len(s)

ScanPrefixes(s) ==
  LET px == LegacyPrefixes(s)
      b  == s[px.len + 1]
  IN  CASE b = \hC5 -> Vex2(px, s)
        [] b = \h62 -> Evex(px, s)
        [] b = \hC4 -> Vex3(px, s)
        [] b \in \h40 .. \h4F -> Rex(px, b)
        [] OTHER -> px

\* default_gpr_op_size, evex_vector_size and the VEX vector size.
AluSize(px) == IF px.w THEN 8 ELSE IF px.p66 THEN 2 ELSE 4
VectorSize(px) ==
  IF px.vex = "evex" /\ px.l2 THEN 64 ELSE IF px.l THEN 32 ELSE 16

-----------------------------------------------------------------------------
(* ModRM, SIB and displacement *)

SplitModRm(b) ==
  [byte |-> b, mod |-> Bits(b, 6, 2), reg |-> Bits(b, 3, 3), rm |-> Bits(b, 0, 3)]

HasSib(m) == m.mod # 3 /\ m.rm = 4

\* A SIB base of 5 means a displacement and no base when mod is 0.
DispBytes(m, sib) ==
  IF m.mod = 0 /\ (m.rm = 5 \/ (HasSib(m) /\ Bits(sib, 0, 3) = 5)) THEN 4
  ELSE CASE m.mod = 1 -> 1 [] m.mod = 2 -> 4 [] OTHER -> 0

\* The bytes decode_rm_operand reads when the next to read is s[at + 1]; more
\* than there are when the SIB byte is not there.
OperandBytes(m, s, at) ==
  IF m.mod = 3 THEN 0
  ELSE IF ~HasSib(m) THEN DispBytes(m, 0)
  ELSE 1 + IF Len(s) > at THEN DispBytes(m, s[at + 1]) ELSE 0

\* Registers are 0 .. 31, and 16 .. 19 as bytes are AH, CH, DH, BH: those an
\* 8-bit operand without a REX prefix names with 4 .. 7.
Extended(ext, r3) == r3 + IF ext THEN 8 ELSE 0
ByteRegister(px, ext, r3) ==
  IF ~px.rex /\ r3 >= 4 THEN 16 + r3 - 4 ELSE Extended(ext, r3)

NoOperand == [kind |-> "None", reg |-> 0]
Operand(k, r) == [kind |-> k, reg |-> r]

\* reg_operand and the r/m operand of decode_rm_operand, for operands of one
\* byte or not.
RegOperand(px, m, byte) ==
  Operand("Reg", IF byte THEN ByteRegister(px, px.r, m.reg) ELSE Extended(px.r, m.reg))

RmOperand(px, m, byte) ==
  CASE m.mod = 3 -> Operand("Reg", IF byte THEN ByteRegister(px, px.b, m.rm)
                                   ELSE Extended(px.b, m.rm))
    [] m.mod = 0 /\ m.rm = 5 -> Operand("RipRelMem", 0)
    [] OTHER -> Operand("Mem", 0)

XmmReg(px, m) ==
  Operand("Xmm", Extended(px.r, m.reg) + IF px.r16 THEN 16 ELSE 0)
XmmRm(px, m) ==
  IF m.mod = 3 THEN Operand("Xmm", Extended(px.b, m.rm)) ELSE RmOperand(px, m, FALSE)

=============================================================================
