-------------------------------- MODULE Decoder --------------------------------
(***************************************************************************)
(* The decoder over guest memory that becomes readable one byte after the  *)
(* other from the instruction pointer on, as the pages behind it are       *)
(* mapped: decode_one is called again after each.  A fetch of a byte that  *)
(* is not readable fails; the status a provider gives it is the            *)
(* "TruncatedInstruction" of a buffer that ends.                           *)
(***************************************************************************)
EXTENDS Opcodes

CONSTANTS
  Follow(_),  \* the bytes that may come after a sequence of bytes
  BufferCap   \* 15, the bytes of a buffer decode_bytes looks at

Around == 256  \* ByteSource.consumed and Insn.len are one byte wide

ASSUME DecoderAssumption == BufferCap \in 0 .. Around - 1

VARIABLES
  bytes,  \* the bytes that are readable
  insn    \* what decode_one makes of them

decoderVars == <<bytes, insn>>

-----------------------------------------------------------------------------
Failed(why) ==
  [status |-> why, len |-> 0, kind |-> "Invalid", size |-> 0, flags |-> {},
   dst |-> NoOperand, src |-> NoOperand]
Truncated == Failed("TruncatedInstruction")

PrefixFlags(px) ==
  (IF px.lock THEN {"LOCK"} ELSE {}) \cup (IF px.f3 THEN {"REP"} ELSE {})
    \cup (IF px.f2 THEN {"REPNE"} ELSE {}) \cup (IF px.seg THEN {"HAS_SEG"} ELSE {})
    \cup (IF px.p66 THEN {"OPSIZE_PFX"} ELSE {})
    \cup (IF px.p67 THEN {"ADDRSIZE_PFX"} ELSE {}) \cup IF px.rex THEN {"rex"} ELSE {}

\* The operand that plays a role in a format.
Role(px, op, m, role) ==
  CASE role = "reg8" -> RegOperand(px, m, TRUE)
    [] role = "reg" -> RegOperand(px, m, FALSE)
    [] role = "rm8" -> RmOperand(px, m, TRUE)
    [] role = "rm" -> RmOperand(px, m, FALSE)
    [] role = "xmm" -> XmmReg(px, m)
    [] role = "xmm/m" -> XmmRm(px, m)
    [] role = "xmm!" -> Operand("Xmm", Extended(px.b, m.rm))
    [] role = "opreg" -> Operand("Reg", Extended(px.b, op % 8))
    [] role = "vvvv" -> Operand("Reg", px.vvvv)
    [] role = "acc" -> Operand("Reg", 0)
    [] role = "cl" -> Operand("Reg", 1)
    [] role = "imm" -> Operand("Imm", 0)
    [] role = "rel" -> Operand("Rel", 0)
    [] OTHER -> NoOperand

\* The opcode map and the bytes that lead to and are the opcode.
OpcodeMap(px, s) ==
  LET At(i, set) == Len(s) >= px.len + i /\ s[px.len + i] \in set IN
  IF px.vex # "no" THEN [map |-> px.map, bytes |-> 1]
  ELSE IF ~At(1, {\h0F}) THEN [map |-> 0, bytes |-> 1]
  ELSE IF ~At(2, {\h38, \h3A}) THEN [map |-> 1, bytes |-> 2]
  ELSE [map |-> IF At(2, {\h38}) THEN 2 ELSE 3, bytes |-> 3]

MutRunsOff(s, n) == n > Len(s) + 1  \* mutant: the last byte is not checked
RunsOff(s, n) == n > Len(s)

\* decode_with_source from the opcode on.
DecodeFormat(px, op, m, f, n) ==
  [status |-> "Ok", len |-> n, kind |-> f.kind, size |-> f.size,
   flags |-> PrefixFlags(px) \cup f.flags,
   dst |-> Role(px, op, m, f.dst), src |-> Role(px, op, m, f.src)]

DecodeOpcode(px, s) ==
  LET o  == OpcodeMap(px, s)
      at == px.len + o.bytes
      m  == SplitModRm(IF Len(s) > at THEN s[at + 1] ELSE 0)
      f  == Format(px, o.map, s[at], m)
      n  == IF f.modrm
            THEN at + 1 + f.imm + IF f.rm THEN OperandBytes(m, s, at + 1) ELSE 0
            ELSE at + f.imm
  IN  IF Len(s) < at THEN Truncated
      ELSE IF f.modrm /\ Len(s) = at THEN Truncated
      ELSE IF f.pre # "Ok" THEN Failed(f.pre)
      ELSE IF RunsOff(s, n) THEN Truncated
      ELSE IF f.post # "Ok" THEN Failed(f.post)
      ELSE DecodeFormat(px, s[at], m, f, n)

DecodeWithSource(s) ==
  IF ScanTruncated(s) THEN Truncated
  ELSE LET px == ScanPrefixes(s) IN
       IF px.vex # "no" /\ ~VexMapKnown(px) THEN Failed("UnsupportedOpcode")
       ELSE DecodeOpcode(px, s)

\* What a source over guest memory delivers: after 256 bytes, the first again.
\* No instruction goes round twice, but nothing ends a run of legacy prefixes.
Fetched(s) ==
  IF Len(s) < Around THEN s
  ELSE [i \in 1 .. Around + Around |-> s[IF i <= Around THEN i ELSE i - Around]]
Endless(s) == Len(s) >= Around /\ \A i \in 1 .. Around : s[i] \in Legacy

\* The bytes an instruction takes, of which its len is the low byte.
Consumed(s) == DecodeWithSource(Fetched(s)).len

\* The two entry points: over guest memory, and over a buffer.  decode_one
\* does not return from a run without end.
DecodeOne(s) ==
  IF Endless(s) THEN Failed("Endless")
  ELSE [DecodeWithSource(Fetched(s)) EXCEPT !.len = @ % Around]
MutDecodeBytes(s) == DecodeWithSource(s)   \* mutant: no cap on the length
DecodeBytes(s) ==
  DecodeWithSource(IF Len(s) > BufferCap THEN SubSeq(s, 1, BufferCap) ELSE s)

-----------------------------------------------------------------------------
Init == bytes = <<>> /\ insn = Truncated

\* One more byte can be read.
Readable(b) ==
  /\ bytes' = Append(bytes, b)
  /\ insn' = DecodeOne(bytes')

Next == \E b \in Follow(bytes) : Readable(b)

Spec == Init /\ [][Next]_decoderVars

-----------------------------------------------------------------------------
(* The length of an instruction by the opcode map of the architecture,     *)
(* which decides it from the opcode alone: whether a ModRM byte follows    *)
(* and how long the immediate is.                                          *)

IsaModRm(map, op) ==
  CASE map = 0 -> \/ op <= \h3F /\ op % 8 < 4
                  \/ op \in {\h62, \h63, \h69, \h6B, \hC0, \hC1, \hF6, \hF7, \hFE, \hFF}
                  \/ op \in \h80 .. \h8F \cup \hC4 .. \hC7 \cup \hD0 .. \hD3 \cup \hD8 .. \hDF
    [] map = 1 -> op \notin \h05 .. \h0B \cup \h30 .. \h37 \cup \h80 .. \h8F \cup \hA0 .. \hA2
                            \cup \hA8 .. \hAA \cup \hC8 .. \hCF \cup {\h0E, \h77}
    [] OTHER -> TRUE

IsaImmediate(px, map, op, m) ==
  LET word == IF px.p66 /\ ~px.w THEN 2 ELSE 4
      long == IF px.w THEN 8 ELSE word
      test == op \in {\hF6, \hF7} /\ m.reg < 2
  IN  CASE map = 0 ->
             IF \/ op <= \h3F /\ op % 8 = 4
                \/ op \in {\h6A, \h6B, \h80, \h82, \h83, \hA8, \hC0, \hC1, \hC6, \hCD, \hEB}
                \/ op \in \h70 .. \h7F \cup \hB0 .. \hB7 \cup \hE0 .. \hE7
                \/ op = \hF6 /\ test
             THEN 1
             ELSE IF \/ op <= \h3F /\ op % 8 = 5
                     \/ op \in {\h68, \h69, \h81, \hA9, \hC7}
                     \/ op = \hF7 /\ test
             THEN word
             ELSE IF op \in \hB8 .. \hBF THEN long
             ELSE IF op \in {\hE8, \hE9} THEN 4
             ELSE IF op = \hC2 THEN 2
             ELSE 0
        [] map = 1 -> IF op \in \h80 .. \h8F THEN 4
                      ELSE IF op \in \h70 .. \h73 \cup \hC4 .. \hC6 \cup {\hA4, \hAC, \hBA, \hC2}
                      THEN 1 ELSE 0
        [] map = 2 -> 0
        [] map = 3 -> 1

IsaLength(px, s) ==
  LET o  == OpcodeMap(px, s)
      at == px.len + o.bytes
      m  == SplitModRm(IF Len(s) > at THEN s[at + 1] ELSE 0)
      sib == IF m.mod # 3 /\ m.rm = 4 THEN 1 ELSE 0
      noBase == m.rm = 5 \/ (sib = 1 /\ s[at + 2] % 8 = 5)
      disp == IF m.mod = 2 \/ (m.mod = 0 /\ noBase) THEN 4
              ELSE IF m.mod = 1 THEN 1 ELSE 0
  IN  at + IsaImmediate(px, o.map, s[at], m)
         + IF IsaModRm(o.map, s[at]) THEN 1 + sib + disp ELSE 0

\* Where the decoder does not follow it: PUSH of a 16-bit immediate, and the
\* memory forms of MOVMSKPS, MOVMSKPD and PMOVMSKB, which do not exist.
Departs(px, s) ==
  LET o  == OpcodeMap(px, s)
      at == px.len + o.bytes
  IN  \/ o.map = 0 /\ s[at] = \h68 /\ px.p66 /\ ~px.w
      \/ o.map = 1 /\ s[at] \in {\h50, \hD7} /\ px.vex = "no" /\ s[at + 1] < \hC0

-----------------------------------------------------------------------------
TypeOK ==
  /\ \A i \in 1 .. Len(bytes) : bytes[i] \in Byte
  /\ insn.len \in 0 .. Len(bytes)
  /\ insn.status \in {"Ok", "TruncatedInstruction", "UnsupportedOpcode", "InvalidInstruction",
                      "Endless"}
  /\ insn.len > 0 => insn.status = "Ok" /\ insn.len < Around
  /\ insn.status = "Ok" /\ Len(bytes) < Around => insn.len > 0
  /\ insn.dst.reg \in 0 .. 31 /\ insn.src.reg \in 0 .. 31

\* An instruction the decoder accepts is as long as the architecture says, in
\* the one byte its length has: else every instruction after it in the block
\* is decoded from the wrong byte.  Each of some 400 branches of the decoder
\* adds up the length itself.
LengthIsArchitectural ==
  insn.status = "Ok" =>
    LET s  == Fetched(bytes)
        px == ScanPrefixes(s)
    IN  Departs(px, s) \/ insn.len = IsaLength(px, s) % Around

\* Bytes behind an instruction decide nothing: one that ends where a page
\* ends is decoded the same whether or not the next page is mapped, and one
\* that is rejected is not accepted later.
OwnBytesOnly ==
  [][insn.status # "TruncatedInstruction" /\ Len(bytes') > Len(bytes) => insn' = insn]_decoderVars

\* decode_bytes is decode_one but for instructions longer than its buffer,
\* which decode_one, against the architecture, accepts.
BufferAgrees ==
  /\ DecodeBytes(bytes) \in {insn, Truncated}
  /\ insn.status = "Ok" => (DecodeBytes(bytes) = insn) = (Consumed(bytes) <= BufferCap)

=============================================================================
