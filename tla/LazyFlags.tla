----------------------------- MODULE LazyFlags ------------------------------
(***************************************************************************)
(* The flags of the CPU (cpu.h, cpu/flags.cpp) under the integer handlers  *)
(* that write or read them (handlers/arithmetic, logical, shift_rotate,    *)
(* bit_manip, and LAHF, SAHF, PUSHF, POPF, Jcc).  A handler stashes its    *)
(* operands and result in cc; the next reader turns the stash into flags.  *)
(* Memory operands may fault before the handler has done anything, or at   *)
(* the store of the result; PageFault stands for every such fault (a page, *)
(* a data breakpoint, no provider).  ALWAYS_ONE and the flags beyond DF    *)
(* are left out.                                                           *)
(***************************************************************************)
EXTENDS Alu, Sequences

CONSTANTS
  Insns,         \* instructions, with the values their operands have
  SnapshotAfter  \* BOUND: the host takes snapshots only after these operations

Ops == {"add", "adc", "sub", "sbb", "cmp", "inc", "dec", "neg", "and", "or",
        "xor", "not", "test", "mul", "imul", "imul1", "div", "idiv", "shl",
        "shr", "sar", "rol", "ror", "rcl", "rcr", "shld", "shrd", "bt", "bts",
        "btr", "btc", "bsf", "bsr", "popcnt", "lzcnt", "tzcnt", "lahf", "sahf",
        "pushf", "popf", "jcc"}

\* op_size; the operands a, b and n (n is the upper half of a dividend, the
\* count of a double shift); mem: an operand is in memory, the destination for
\* the handlers that write one;
\* f: the flags SAHF and POPF load.
Insn == [op : Ops, size : Sizes, a : Nat, b : Nat, n : Nat, mem : BOOLEAN,
         f : SUBSET Flag]

ASSUME LazyFlagsAssumption ==
  /\ \A i \in Insns : i \in Insn /\ {i.a, i.b, i.n} \subseteq Words(i.size)
  /\ SnapshotAfter \subseteq Ops

VARIABLES
  last,    \* the instruction executed last, or NoInsn
  fault,   \* fault_.kind
  rflags,  \* rflags_
  cc,      \* cc_op_, cc_size_, cc_dst_, cc_src_, cc_src2_
  out,     \* what it wrote to its destination, and the flags it reported
  saved    \* a Cpu::Snapshot the host holds: a sequence of at most one

vars == <<last, fault, rflags, cc, out, saved>>

NoInsn == [op |-> "none"]
NoOut == [words |-> <<>>, facts |-> {}]

CcOps == {"Eflags", "Add", "Sub", "Inc", "Dec", "Neg", "Logic", "Shl", "Shr",
          "Sar", "Rol", "Ror", "MulOv"}
\* Adc and Sbb are Add and Sub with src2 = 1.
NoStash == [op |-> "Eflags", size |-> 4, dst |-> 0, src |-> 0, src2 |-> 0]

\* The switch of sync_flags_; the rotates and MulOv keep what rflags_ holds.
Computed(bits, c) ==
  LET kept == bits \cap Arith
  IN  CASE c.op = "Eflags" -> kept
        [] c.op = "Logic" -> ComputeLogic(c.size, c.dst)
        [] c.op = "Add" -> ComputeAdd(c.size, c.src, c.dst, c.src2)
        [] c.op = "Sub" -> ComputeSub(c.size, c.src, c.dst, c.src2)
        [] c.op = "Inc" -> ComputeInc(c.size, c.src # 0, c.dst)
        [] c.op = "Dec" -> ComputeDec(c.size, c.src # 0, c.dst)
        [] c.op = "Neg" -> ComputeNeg(c.size, c.src, c.dst)
        [] c.op = "Shl" -> ComputeShl(c.size, c.src, c.dst, c.src2)
        [] c.op = "Shr" -> ComputeShr(c.size, c.src, c.dst, c.src2)
        [] c.op = "Sar" -> ComputeSar(c.size, c.src, c.dst, c.src2)
        [] c.op = "Rol" -> ComputeRol(c.size, c.dst, c.src2, kept)
        [] c.op = "Ror" -> ComputeRor(c.size, c.dst, c.src2, kept)
        [] c.op = "MulOv" -> ComputeMulOv(kept, c.src # 0)

\* The flags a reader sees: the arithmetic ones computed, the others kept.
Visible(bits, c) == (bits \ Arith) \cup Computed(bits, c)

\* The flag state as a handler finds it, and as sync_flags_ leaves it (the
\* words of a stash that has been computed are never read again).
Now == [bits |-> rflags, cc |-> cc]
Synced == [bits |-> Visible(rflags, cc), cc |-> NoStash]

Stash(fl, op, size, dst, src, src2) ==
  [fl EXCEPT !.cc = [op |-> op, size |-> size, dst |-> dst, src |-> src,
                     src2 |-> src2]]
\* set_cf and its like, after a sync: the flags def become on.
Put(fl, def, on) == [fl EXCEPT !.bits = (@ \ def) \cup on]

CarryOf(fl) == IF "CF" \in fl.bits THEN 1 ELSE 0

\* The instruction ends with the flag state fl, having written ws.
Leaves(fl) == rflags' = fl.bits /\ cc' = fl.cc
Retire(i, ws, facts, fl) ==
  /\ last' = i /\ out' = [words |-> ws, facts |-> facts] /\ Leaves(fl)
  /\ UNCHANGED <<fault, saved>>
RetireOnly(i, fl) == Retire(i, <<>>, {}, fl)    \* no destination is written
PageFault(i, fl) ==
  /\ i.mem /\ last' = i /\ fault' = "PageFault" /\ out' = NoOut /\ Leaves(fl)
  /\ UNCHANGED saved

\* write_operand: the store lands and the handler goes on to fl, or it faults
\* and the handler returns with the flag state early.
Write(i, r, fl, early) == Retire(i, <<r>>, {}, fl) \/ PageFault(i, early)

\* ---- arithmetic.cpp -------------------------------------------------------

OpAdd(i) ==
  LET r == Wrap(i.a + i.b, i.size)
  IN  i.op = "add" /\ Write(i, r, Stash(Now, "Add", i.size, r, i.b, 0), Now)

\* ADC and SBB read CF before the store.
OpAdc(i) ==
  LET c == CarryOf(Synced)
      r == Wrap(i.a + i.b + c, i.size)
  IN  i.op = "adc" /\ Write(i, r, Stash(Synced, "Add", i.size, r, i.b, c), Synced)

OpSub(i) ==
  LET r == Wrap(i.a - i.b, i.size)
  IN  i.op = "sub" /\ Write(i, r, Stash(Now, "Sub", i.size, r, i.b, 0), Now)

OpSbb(i) ==
  LET c == CarryOf(Synced)
      r == Wrap(i.a - i.b - c, i.size)
  IN  i.op = "sbb" /\ Write(i, r, Stash(Synced, "Sub", i.size, r, i.b, c), Synced)

\* INC and DEC sync in stash_inc and stash_dec, to keep CF in cc_src.
MutOpInc(i) ==                      \* mutant: CF is taken without a sync
  LET r == Wrap(i.a + 1, i.size)
  IN  i.op = "inc"
      /\ Write(i, r, Stash(Now, "Inc", i.size, r, CarryOf(Now), 0), Now)
OpInc(i) ==
  LET r == Wrap(i.a + 1, i.size)
  IN  i.op = "inc"
      /\ Write(i, r, Stash(Synced, "Inc", i.size, r, CarryOf(Synced), 0), Now)

OpDec(i) ==
  LET r == Wrap(i.a - 1, i.size)
  IN  i.op = "dec"
      /\ Write(i, r, Stash(Synced, "Dec", i.size, r, CarryOf(Synced), 0), Now)

OpNeg(i) ==
  LET r == Wrap(Span(i.size) - i.a, i.size)    \* ~a + 1
  IN  i.op = "neg" /\ Write(i, r, Stash(Now, "Neg", i.size, r, i.a, 0), Now)

\* stash_mul_ov syncs.  The destination of IMUL is a register.
MulOv(over) == Stash(Synced, "MulOv", 8, 0, IF over THEN 1 ELSE 0, 0)

OpImul(i) ==
  LET full == Signed(i.a, i.size) * Signed(i.b, i.size)
      r == Wrap(full, i.size)
  IN  i.op = "imul" /\ Retire(i, <<r>>, {}, MulOv(full # Signed(r, i.size)))

OpMul(i) ==
  LET lo == Wrap(i.a * i.b, i.size)
      hi == (i.a * i.b) \div Span(i.size)
  IN  i.op = "mul" /\ Retire(i, <<lo, hi>>, {}, MulOv(hi # 0))

OpImul1(i) ==
  LET full == Signed(i.a, i.size) * Signed(i.b, i.size)
      lo == Wrap(full, i.size)
      hi == Wrap(full \div Span(i.size), i.size)
  IN  i.op = "imul1"
      /\ Retire(i, <<lo, hi>>, {}, MulOv(Signed(lo, i.size) # full))

DivideError(i) == /\ last' = i /\ fault' = "DivideError" /\ out' = NoOut
                  /\ UNCHANGED <<rflags, cc, saved>>

OpDiv(i) ==
  LET num == i.n * Span(i.size) + i.a
      q == num \div i.b
  IN  /\ i.op = "div"
      /\ IF i.b = 0 \/ q >= Span(i.size) THEN DivideError(i)
         ELSE Retire(i, <<q, num % i.b>>, {}, Now)

\* C++ division truncates toward zero.
Quot(x, y) == LET q == (IF x < 0 THEN -x ELSE x) \div (IF y < 0 THEN -y ELSE y)
              IN  IF (x < 0) = (y < 0) THEN q ELSE -q

\* The 64-bit form divides only what the lower word already says.
TooWide(i) == i.size = 8 /\ Signed(i.n, i.size) # IF i.a >= Top(i.size) THEN -1 ELSE 0

OpIdiv(i) ==
  LET num == Signed(i.n, i.size) * Span(i.size) + i.a
      div == Signed(i.b, i.size)
      q == Quot(num, div)
  IN  /\ i.op = "idiv"
      /\ IF i.b = 0 \/ TooWide(i) \/ q < -Top(i.size) \/ q >= Top(i.size) THEN DivideError(i)
         ELSE Retire(i, <<Wrap(q, i.size), Wrap(num - q * div, i.size)>>, {}, Now)

\* ---- logical.cpp ----------------------------------------------------------

Logic(i, r) == Write(i, r, Stash(Now, "Logic", i.size, r, 0, 0), Now)

And(i) == WordOf(BitsOf(i.a, i.size) \cap BitsOf(i.b, i.size), i.size)

OpAnd(i) == i.op = "and" /\ Logic(i, And(i))
OpOr(i) == LET r == BitsOf(i.a, i.size) \cup BitsOf(i.b, i.size)
           IN  i.op = "or" /\ Logic(i, WordOf(r, i.size))
OpXor(i) == LET a == BitsOf(i.a, i.size)
                b == BitsOf(i.b, i.size)
            IN  i.op = "xor" /\ Logic(i, WordOf((a \ b) \cup (b \ a), i.size))
OpNot(i) == i.op = "not" /\ Write(i, Span(i.size) - 1 - i.a, Now, Now)

\* TEST and CMP write no destination.
OpTest(i) == /\ i.op = "test"
             /\ RetireOnly(i, Stash(Now, "Logic", i.size, And(i), 0, 0))
OpCmp(i) ==
  LET r == Wrap(i.a - i.b, i.size)
  IN  i.op = "cmp" /\ RetireOnly(i, Stash(Now, "Sub", i.size, r, i.b, 0))

\* ---- shift_rotate.cpp -----------------------------------------------------

CountMask(size) == IF size = 8 THEN 64 ELSE 32    \* shift_count_mask + 1
MutCount(i) == i.b % 64             \* mutant: the mask of the widest operand
Count(i) == i.b % CountMask(i.size)

\* A shift by zero stores its operand and stashes nothing.
StashShift(op, i, c, r) ==
  IF c = 0 THEN Now ELSE Stash(Now, op, i.size, r, i.a, c)

OpShl(i) ==
  LET c == Count(i)
      r == IF c >= Width(i.size) THEN 0 ELSE Wrap(i.a * Pow2[c], i.size)
  IN  i.op = "shl" /\ Write(i, r, StashShift("Shl", i, c, r), Now)

OpShr(i) ==
  LET c == Count(i)
      r == IF c >= Width(i.size) THEN 0 ELSE i.a \div Pow2[c]
  IN  i.op = "shr" /\ Write(i, r, StashShift("Shr", i, c, r), Now)

OpSar(i) ==
  LET c == Count(i)
      sa == Signed(i.a, i.size)
      sr == IF c < Width(i.size) THEN sa \div Pow2[c]
            ELSE IF sa < 0 THEN -1 ELSE 0
      r == Wrap(sr, i.size)
  IN  i.op = "sar" /\ Write(i, r, StashShift("Sar", i, c, r), Now)

\* stash_rol and stash_ror sync unless the count is zero.
StashRotate(op, i, c, r) ==
  IF c = 0 THEN Now ELSE Stash(Synced, op, i.size, r, i.a, c)

OpRol(i) ==
  LET c == Count(i)
      mod == c % Width(i.size)
      r == Wrap(i.a * Pow2[mod], i.size) + i.a \div Pow2[Width(i.size) - mod]
  IN  i.op = "rol" /\ Write(i, r, StashRotate("Rol", i, c, r), Now)

OpRor(i) ==
  LET c == Count(i)
      mod == c % Width(i.size)
      r == i.a \div Pow2[mod] + (i.a % Pow2[mod]) * Pow2[Width(i.size) - mod]
  IN  i.op = "ror" /\ Write(i, r, StashRotate("Ror", i, c, r), Now)

\* RCL and RCR are loops over the word and CF, after a sync; they write CF
\* and, for a count of one, OF without a stash.
RclLoop(i, n) ==
  LET x[k \in 0 .. n] ==
        IF k = 0 THEN [v |-> i.a, cf |-> CarryOf(Synced)]
        ELSE [v |-> Wrap(2 * x[k - 1].v + x[k - 1].cf, i.size),
              cf |-> IF Sign(x[k - 1].v, i.size) THEN 1 ELSE 0]
  IN  x[n]

OpRcl(i) ==
  LET c == Count(i)
      mod == c % (Width(i.size) + 1)
      x == RclLoop(i, mod)
      set == Put(Synced, {"CF"}, On("CF", x.cf = 1))
  IN  /\ i.op = "rcl"
      /\ IF mod = 0 THEN RetireOnly(i, Now)
         ELSE Write(i, x.v,
                    IF c = 1 THEN Put(set, {"OF"},
                                      On("OF", Sign(x.v, i.size) # (x.cf = 1)))
                    ELSE set,
                    Synced)

RcrLoop(i, n) ==
  LET x[k \in 0 .. n] ==
        IF k = 0 THEN [v |-> i.a, cf |-> CarryOf(Synced)]
        ELSE [v |-> x[k - 1].v \div 2 + x[k - 1].cf * Top(i.size),
              cf |-> x[k - 1].v % 2]
  IN  x[n]

\* RCR by one writes OF before the store.
OpRcr(i) ==
  LET c == Count(i)
      mod == c % (Width(i.size) + 1)
      x == RcrLoop(i, mod)
      early == IF c = 1
               THEN Put(Synced, {"OF"},
                        On("OF", Sign(i.a, i.size) # (CarryOf(Synced) = 1)))
               ELSE Synced
  IN  /\ i.op = "rcr"
      /\ IF mod = 0 THEN RetireOnly(i, Now)
         ELSE Write(i, x.v, Put(early, {"CF"}, On("CF", x.cf = 1)), early)

\* SHLD and SHRD; a count of the width or more stores zero.
DoubleShift(i, op, r) ==
  LET c == i.n % CountMask(i.size)
  IN  IF c = 0 THEN RetireOnly(i, Now)
      ELSE IF c >= Width(i.size) THEN Logic(i, 0)
      ELSE Write(i, r, Stash(Now, op, i.size, r, i.a, c), Now)

OpShld(i) ==
  LET c == i.n % CountMask(i.size)
  IN  i.op = "shld"
      /\ DoubleShift(i, "Shl", Wrap(i.a * Pow2[c], i.size)
                               + i.b \div Pow2[Width(i.size) - c])

OpShrd(i) ==
  LET c == i.n % CountMask(i.size)
  IN  i.op = "shrd"
      /\ DoubleShift(i, "Shr", i.a \div Pow2[c]
                               + Wrap(i.b * Pow2[Width(i.size) - c], i.size))

\* ---- bit_manip.cpp --------------------------------------------------------

\* BT and its like set CF before the store.
BitTest(i) ==
  LET v == BitsOf(i.a, i.size)
      bit == i.b % Width(i.size)
      set == Put(Synced, {"CF"}, On("CF", bit \in v))
  IN  \/ i.op = "bt" /\ RetireOnly(i, set)
      \/ i.op = "bts" /\ Write(i, WordOf(v \cup {bit}, i.size), set, set)
      \/ i.op = "btr" /\ Write(i, WordOf(v \ {bit}, i.size), set, set)
      \/ i.op = "btc"
         /\ Write(i, WordOf((v \ {bit}) \cup ({bit} \ v), i.size), set, set)

\* The destination of the scans and counts is a register.
Scan(i) ==
  LET v == BitsOf(i.b, i.size)
      w == Width(i.size)
      tz == IF v = {} THEN w ELSE Min(v)
      lz == IF v = {} THEN w ELSE w - 1 - Max(v)
      zf == Put(Synced, {"ZF"}, On("ZF", v = {}))
      Counted(c) == Retire(i, <<c>>, {},
                           Put(Synced, {"CF", "ZF"},
                               On("CF", c = w) \cup On("ZF", c = 0)))
  IN  \/ /\ i.op \in {"bsf", "bsr"}
         /\ IF v = {} THEN RetireOnly(i, zf)
            ELSE Retire(i, <<IF i.op = "bsf" THEN tz ELSE w - 1 - lz>>, {}, zf)
      \/ /\ i.op = "popcnt"
         /\ Retire(i, <<Cardinality(v)>>, {},
                   Put(Synced, Arith, On("ZF", v = {})))
      \/ i.op = "tzcnt" /\ Counted(tz)
      \/ i.op = "lzcnt" /\ Counted(lz)

\* ---- misc.cpp and control_flow.cpp: the readers and loaders of the flags --

OpLahf(i) == /\ i.op = "lahf"
             /\ Retire(i, <<>>, Synced.bits \ {"OF", "DF"}, Synced)
OpSahf(i) == /\ i.op = "sahf"
             /\ RetireOnly(i, Put(Synced, Arith \ {"OF"}, i.f \ {"OF", "DF"}))
OpPushf(i) == /\ i.op = "pushf"
              /\ \/ Retire(i, <<>>, Synced.bits, Synced)
                 \/ PageFault(i, Synced)
\* set_rflags drops the stash.
OpPopf(i) == i.op = "popf" /\ RetireOnly(i, [bits |-> i.f, cc |-> NoStash])
\* Jcc and the other users of cond_holds: what each condition would be.
OpJcc(i) == /\ i.op = "jcc"
            /\ Retire(i, <<>>, {c \in Cc : CondHolds(c, Synced.bits)}, Synced)

\* A memory operand that cannot be read: the handler returns at once.
ReadFault(i) == i.op # "pushf" /\ PageFault(i, Now)

Handler(i) ==
  \/ OpAdd(i) \/ OpAdc(i) \/ OpSub(i) \/ OpSbb(i) \/ OpInc(i) \/ OpDec(i)
  \/ OpNeg(i) \/ OpImul(i) \/ OpMul(i) \/ OpImul1(i) \/ OpDiv(i) \/ OpIdiv(i)
  \/ OpAnd(i) \/ OpOr(i) \/ OpXor(i) \/ OpNot(i) \/ OpTest(i) \/ OpCmp(i)
  \/ OpShl(i) \/ OpShr(i) \/ OpSar(i) \/ OpRol(i) \/ OpRor(i)
  \/ OpRcl(i) \/ OpRcr(i) \/ OpShld(i) \/ OpShrd(i)
  \/ BitTest(i) \/ Scan(i)
  \/ OpLahf(i) \/ OpSahf(i) \/ OpPushf(i) \/ OpPopf(i) \/ OpJcc(i)
  \/ ReadFault(i)

\* ---- The host, between instructions ---------------------------------------

Nothing == last' = NoInsn /\ out' = NoOut

\* Any of cf(), rflags(), force_sync_flags().
ReadFlags == Leaves(Synced) /\ UNCHANGED <<last, fault, out, saved>>

\* A fault hook, or whoever called run, clears the fault.
ClearFault == /\ fault # "None" /\ fault' = "None" /\ Nothing
              /\ UNCHANGED <<rflags, cc, saved>>

Snapshot == /\ last.op \in SnapshotAfter
            /\ Leaves(Synced)
            /\ saved' = <<[bits |-> Synced.bits, cc |-> Synced.cc,
                           fault |-> fault]>>
            /\ UNCHANGED <<last, fault, out>>

Restore == /\ saved # <<>>
           /\ Leaves(saved[1]) /\ fault' = saved[1].fault
           /\ Nothing /\ UNCHANGED saved

\* Cpu::reset leaves the stash and the fault as they are.
Reset == /\ rflags' = {} /\ Nothing
         /\ UNCHANGED <<cc, fault, saved>>

Init == /\ last = NoInsn /\ fault = "None" /\ rflags = {} /\ cc = NoStash
        /\ out = NoOut /\ saved = <<>>

Next == \/ \E i \in Insns : fault = "None" /\ Handler(i)
        \/ ReadFlags \/ ClearFault \/ Snapshot \/ Restore \/ Reset

Spec == Init /\ [][Next]_vars

-----------------------------------------------------------------------------
\* The state is of its types: a stash holds words of its own size and a count
\* masked for it (stash_*, shift_count_mask), a snapshot no pending stash.
TypeOK ==
  /\ last \in Insns \cup {NoInsn}
  /\ fault \in {"None", "PageFault", "DivideError"}
  /\ rflags \subseteq Flag
  /\ cc.op \in CcOps /\ cc.size \in Sizes
  /\ cc.src2 \in 0 .. CountMask(cc.size) - 1
  /\ IF cc.op \in {"Eflags", "MulOv"} THEN cc.dst = 0 /\ cc.src \in {0, 1}
     ELSE {cc.dst, cc.src} \subseteq Words(cc.size)
  /\ \/ saved = <<>>
     \/ \E bits \in SUBSET Flag, f \in {"None", "PageFault", "DivideError"} :
          saved = <<[bits |-> bits, cc |-> NoStash, fault |-> f]>>

\* After CMP a, b the conditions compare a and b, whoever reads them first and
\* however often (stash_sub, sync_flags_, cond_holds): B and BE without sign,
\* L and LE with it, Z for equality.
CmpDecides ==
  last.op = "cmp" /\ fault = "None" =>
    LET f == Visible(rflags, cc)
        a == last.a
        b == last.b
        sa == Signed(a, last.size)
        sb == Signed(b, last.size)
    IN  /\ CondHolds("B", f) <=> a < b
        /\ CondHolds("BE", f) <=> a <= b
        /\ CondHolds("Z", f) <=> a = b
        /\ CondHolds("L", f) <=> sa < sb
        /\ CondHolds("LE", f) <=> sa <= sb

\* The lazy flags implement flags updated at once: whatever was pending, a
\* guest and the host see the flags ArchFlags has.
Arch == INSTANCE ArchFlags WITH
  flags <- Visible(rflags, cc),
  saved <- IF saved = <<>> THEN <<>>
           ELSE <<[flags |-> Visible(saved[1].bits, saved[1].cc),
                   fault |-> saved[1].fault]>>
ArchSpec == Arch!Spec

=============================================================================
