----------------------------- MODULE ArchFlags ------------------------------
(***************************************************************************)
(* What a guest may rely on: every instruction updates the flags at once,  *)
(* by the arithmetic meaning of its operands (a carry is a sum that does   *)
(* not fit the word, an overflow a signed sum that does not fit, a shift   *)
(* is a shift by one repeated), flags the handler comments call undefined  *)
(* are free, and an instruction that faults changes nothing but what       *)
(* Imprecise names.                                                        *)
(***************************************************************************)
EXTENDS Alu, Sequences

CONSTANT Insns    \* instructions with the values of their operands

VARIABLES
  last,   \* the instruction executed last, or NoInsn
  fault,  \* the exception it raised
  flags,  \* the flags that are 1
  out,    \* the words it wrote and the flags or conditions it reported
  saved   \* the snapshot the host holds: a sequence of at most one

vars == <<last, fault, flags, out, saved>>

NoInsn == [op |-> "none"]
NoOut == [words |-> <<>>, facts |-> {}]

Init == /\ last = NoInsn /\ fault = "None" /\ flags = {}
        /\ out = NoOut /\ saved = <<>>

Wrote(ws) == out' = [words |-> ws, facts |-> {}]

\* The flags def become on, those in free anything, the others are kept.
Sets(def, on, free) ==
  LET new == flags'
  IN  /\ new \ (def \cup free) = flags \ (def \cup free)
      /\ new \cap def = on
Kept == flags' = flags

Carry == IF "CF" \in flags THEN 1 ELSE 0

Fits(z, size) == -Top(size) <= z /\ z < Top(size)

\* a + b + c, leaving the flags keep alone.
Sum(i, b, c, keep) ==
  LET s == i.a + b + c
      on == ZSP(i.size, Wrap(s, i.size))
            \cup On("CF", s >= Span(i.size))
            \cup On("OF", ~Fits(Signed(i.a, i.size) + Signed(b, i.size) + c,
                                i.size))
            \cup On("AF", (i.a % 16) + (b % 16) + c >= 16)
  IN  Sets(Arith \ keep, on \ keep, {})

\* a - b - c, leaving the flags keep alone.
Difference(i, a, b, c, keep) ==
  LET d == a - b - c
      on == ZSP(i.size, Wrap(d, i.size)) \cup On("CF", d < 0)
            \cup On("OF", ~Fits(Signed(a, i.size) - Signed(b, i.size) - c,
                                i.size))
            \cup On("AF", a % 16 < (b % 16) + c)
  IN  Sets(Arith \ keep, on \ keep, {})

Adds(i) ==
  \/ /\ i.op = "add" /\ Sum(i, i.b, 0, {}) /\ Wrote(<<Wrap(i.a + i.b, i.size)>>)
  \/ /\ i.op = "adc" /\ Sum(i, i.b, Carry, {})
     /\ Wrote(<<Wrap(i.a + i.b + Carry, i.size)>>)
  \/ /\ i.op = "inc" /\ Sum(i, 1, 0, {"CF"}) /\ Wrote(<<Wrap(i.a + 1, i.size)>>)

\* The code computes AF of NEG as bit 4 of (operand | result), which is not a
\* borrow: it is left free.
Subtracts(i) ==
  \/ /\ i.op = "sub" /\ Difference(i, i.a, i.b, 0, {})
     /\ Wrote(<<Wrap(i.a - i.b, i.size)>>)
  \/ /\ i.op = "sbb" /\ Difference(i, i.a, i.b, Carry, {})
     /\ Wrote(<<Wrap(i.a - i.b - Carry, i.size)>>)
  \/ /\ i.op = "cmp" /\ Difference(i, i.a, i.b, 0, {}) /\ out' = NoOut
  \/ /\ i.op = "dec" /\ Difference(i, i.a, 1, 0, {"CF"})
     /\ Wrote(<<Wrap(i.a - 1, i.size)>>)
  \/ /\ i.op = "neg" /\ Wrote(<<Wrap(-i.a, i.size)>>)
     /\ Sets(Arith \ {"AF"},
             ZSP(i.size, Wrap(-i.a, i.size)) \cup On("CF", i.a > 0)
             \cup On("OF", ~Fits(-Signed(i.a, i.size), i.size)),
             {"AF"})

Bitwise(i) ==
  LET a == BitsOf(i.a, i.size)
      b == BitsOf(i.b, i.size)
      r == WordOf(CASE i.op \in {"and", "test"} -> a \cap b
                    [] i.op = "or" -> a \cup b
                    [] i.op = "xor" -> (a \cup b) \ (a \cap b)
                    [] i.op = "not" -> (0 .. Width(i.size) - 1) \ a, i.size)
  IN  /\ i.op \in {"and", "or", "xor", "not", "test"}
      /\ IF i.op = "not" THEN Kept ELSE Sets(Arith, ZSP(i.size, r), {})
      /\ IF i.op = "test" THEN out' = NoOut ELSE Wrote(<<r>>)

\* The product of two words is two words; CF and OF tell that the upper one
\* is not the extension of the lower.
Multiplies(i) ==
  LET p == IF i.op = "mul" THEN i.a * i.b
           ELSE Signed(i.a, i.size) * Signed(i.b, i.size)
      over == IF i.op = "mul" THEN p >= Span(i.size) ELSE ~Fits(p, i.size)
      lo == Wrap(p, i.size)
      hi == Wrap((p - lo) \div Span(i.size), i.size)
  IN  /\ i.op \in {"mul", "imul", "imul1"}
      /\ Sets({"CF", "OF"}, IF over THEN {"CF", "OF"} ELSE {}, {})
      /\ Wrote(IF i.op = "imul" THEN <<lo>> ELSE <<lo, hi>>)

\* Division of the two words n (upper) and a (lower) by b, toward zero.
\* The remainder has the sign of the number divided.
Dividend(i) == IF i.op = "div" THEN i.n * Span(i.size) + i.a
               ELSE Signed(i.n, i.size) * Span(i.size) + i.a
Divisor(i) == IF i.op = "div" THEN i.b ELSE Signed(i.b, i.size)
Quotients(i) ==
  {q \in IF i.op = "div" THEN Words(i.size) ELSE -Top(i.size) .. Top(i.size) - 1 :
     LET m == Dividend(i) - q * Divisor(i)
         d == IF Divisor(i) < 0 THEN -Divisor(i) ELSE Divisor(i)
     IN  IF Dividend(i) < 0 THEN -d < m /\ m <= 0 ELSE 0 <= m /\ m < d}
Divides(i) ==
  /\ i.op \in {"div", "idiv"} /\ Kept
  /\ \E q \in Quotients(i) :
       Wrote(<<Wrap(q, i.size), Wrap(Dividend(i) - q * Divisor(i), i.size)>>)

\* One step of each shift and rotate, over the word and the carry.
Step(op, size, x) ==
  LET T == Top(size)
      c == IF x.cf THEN 1 ELSE 0
      left == [v |-> Wrap(2 * x.v, size), cf |-> x.v >= T]
      right == [v |-> x.v \div 2, cf |-> x.v % 2 = 1]
  IN  CASE op \in {"shl", "shld"} -> left
        [] op \in {"shr", "shrd"} -> right
        [] op = "sar" -> [right EXCEPT !.v = @ + IF x.v >= T THEN T ELSE 0]
        [] op = "rol" -> [left EXCEPT !.v = @ + IF left.cf THEN 1 ELSE 0]
        [] op = "ror" -> [right EXCEPT !.v = @ + IF right.cf THEN T ELSE 0]
        [] op = "rcl" -> [left EXCEPT !.v = @ + c]
        [] op = "rcr" -> [right EXCEPT !.v = @ + c * T]

Steps(i, n) ==
  LET s[k \in 0 .. n] == IF k = 0 THEN [v |-> i.a, cf |-> "CF" \in flags]
                         ELSE Step(i.op, i.size, s[k - 1])
  IN  s[n]

Count(i) == (IF i.op \in {"shld", "shrd"} THEN i.n ELSE i.b)
            % (IF i.size = 8 THEN 64 ELSE 32)

\* CF is the last bit moved out; after a count of 1, OF tells that the sign
\* changed, after any other it is undefined.
Shifts(i) ==
  LET n == Count(i)
      x == Steps(i, n)
      plain == i.op \in {"shl", "shr", "sar"}
      on == (IF plain THEN ZSP(i.size, x.v) ELSE {}) \cup On("CF", x.cf)
            \cup On("OF", n = 1 /\ Sign(i.a, i.size) # Sign(x.v, i.size))
      def == (IF plain THEN Arith ELSE {"CF", "OF"})
             \ (IF n = 1 THEN {} ELSE {"OF"})
  IN  /\ i.op \in {"shl", "shr", "sar", "rol", "ror", "rcl", "rcr"}
      /\ IF n = 0 THEN Kept ELSE Sets(def, on, {"OF"} \ def)
      /\ IF i.op \in {"rcl", "rcr"} /\ n % (Width(i.size) + 1) = 0
         THEN out' = NoOut ELSE Wrote(<<x.v>>)

\* The bits moved in come from b; a count beyond the width is undefined, and
\* so is OF after SHRD.
DoubleShifts(i) ==
  LET n == Count(i)
      w == Width(i.size)
      x == Steps(i, n)
      r == IF i.op = "shld" THEN x.v + i.b \div Pow2[w - n]
           ELSE x.v + Wrap(i.b * Pow2[w - n], i.size)
      undef == IF i.op = "shrd" \/ n # 1 THEN {"OF"} ELSE {}
      on == ZSP(i.size, r) \cup On("CF", x.cf)
            \cup On("OF", Sign(i.a, i.size) # Sign(r, i.size))
  IN  /\ i.op \in {"shld", "shrd"}
      /\ \/ n = 0 /\ Kept /\ out' = NoOut
         \/ n \in 1 .. w - 1 /\ Wrote(<<r>>) /\ Sets(Arith \ undef, on \ undef, undef)
         \/ n >= w /\ Sets({}, {}, Arith) /\ \E v \in Words(i.size) : Wrote(<<v>>)

BitTests(i) ==
  LET bits == BitsOf(i.a, i.size)
      k == i.b % Width(i.size)
  IN  /\ i.op \in {"bt", "bts", "btr", "btc"}
      /\ Sets({"CF"}, On("CF", k \in bits), {})
      /\ CASE i.op = "bt"  -> out' = NoOut
           [] i.op = "bts" -> Wrote(<<WordOf(bits \cup {k}, i.size)>>)
           [] i.op = "btr" -> Wrote(<<WordOf(bits \ {k}, i.size)>>)
           [] i.op = "btc" -> Wrote(<<WordOf(IF k \in bits THEN bits \ {k}
                                             ELSE bits \cup {k}, i.size)>>)

\* The index of the lowest or highest bit of b, and counts of its bits.
Scans(i) ==
  LET bits == BitsOf(i.b, i.size)
      w == Width(i.size)
      tz == IF bits = {} THEN w ELSE Min(bits)
      lz == IF bits = {} THEN w ELSE w - 1 - Max(bits)
  IN  \/ /\ i.op \in {"bsf", "bsr"} /\ bits = {}
         /\ Sets({"ZF"}, {"ZF"}, {}) /\ out' = NoOut
      \/ /\ i.op = "bsf" /\ bits # {} /\ Sets({"ZF"}, {}, {}) /\ Wrote(<<tz>>)
      \/ /\ i.op = "bsr" /\ bits # {} /\ Sets({"ZF"}, {}, {})
         /\ Wrote(<<Max(bits)>>)
      \/ /\ i.op = "popcnt" /\ Wrote(<<Cardinality(bits)>>)
         /\ Sets(Arith, On("ZF", bits = {}), {})
      \/ /\ i.op = "tzcnt" /\ Wrote(<<tz>>)
         /\ Sets({"CF", "ZF"}, On("CF", bits = {}) \cup On("ZF", tz = 0), {})
      \/ /\ i.op = "lzcnt" /\ Wrote(<<lz>>)
         /\ Sets({"CF", "ZF"}, On("CF", bits = {}) \cup On("ZF", lz = 0), {})

Transfers(i) ==
  \/ /\ i.op = "lahf" /\ Kept
     /\ out' = [words |-> <<>>, facts |-> flags \ {"OF", "DF"}]
  \/ /\ i.op = "pushf" /\ Kept /\ out' = [words |-> <<>>, facts |-> flags]
  \/ /\ i.op = "sahf" /\ Sets(Arith \ {"OF"}, i.f \ {"OF", "DF"}, {}) /\ out' = NoOut
  \/ /\ i.op = "popf" /\ flags' = i.f /\ out' = NoOut
  \/ /\ i.op = "jcc" /\ Kept
     /\ out' = [words |-> <<>>, facts |-> {c \in Cc : CondHolds(c, flags)}]

Execute(i) ==
  /\ fault = "None" /\ fault' = "None" /\ UNCHANGED saved
  /\ \/ Adds(i) \/ Subtracts(i) \/ Bitwise(i) \/ Multiplies(i) \/ Divides(i)
     \/ Shifts(i) \/ DoubleShifts(i) \/ BitTests(i) \/ Scans(i) \/ Transfers(i)

\* Flags an instruction may have changed although its store faulted.
Imprecise(i) == IF i.op = "rcr" THEN {"OF"}
                ELSE IF i.op \in {"bts", "btr", "btc"} THEN {"CF"} ELSE {}

MemoryFault(i) ==
  /\ fault = "None" /\ i.mem /\ fault' = "PageFault"
  /\ Sets({}, {}, Imprecise(i)) /\ out' = NoOut /\ UNCHANGED saved

\* A departure: a 64-bit IDIV may refuse a dividend that does not fit one word.
MayRefuse(i) ==
  i.op = "idiv" /\ i.size = 8 /\ ~(Dividend(i) \in -Top(i.size) .. Top(i.size) - 1)

DivideFault(i) ==
  /\ fault = "None" /\ i.op \in {"div", "idiv"}
  /\ i.b = 0 \/ Quotients(i) = {} \/ MayRefuse(i)
  /\ fault' = "DivideError" /\ out' = NoOut /\ UNCHANGED <<flags, saved>>

Nothing == last' = NoInsn /\ out' = NoOut

\* What the host does between instructions.  Reset never raises a flag.
Recover == /\ fault # "None" /\ fault' = "None" /\ Nothing
           /\ UNCHANGED <<flags, saved>>
Snapshot == /\ saved' = <<[flags |-> flags, fault |-> fault]>>
            /\ UNCHANGED <<last, fault, flags, out>>
Restore == /\ saved # <<>> /\ flags' = saved[1].flags /\ fault' = saved[1].fault
           /\ Nothing /\ UNCHANGED saved
Reset == /\ Nothing /\ flags' \subseteq flags \ {"DF"}
         /\ UNCHANGED <<fault, saved>>

Next == \/ /\ last' \in Insns
           /\ Execute(last') \/ MemoryFault(last') \/ DivideFault(last')
        \/ Recover \/ Snapshot \/ Restore \/ Reset

Spec == Init /\ [][Next]_vars

=============================================================================
