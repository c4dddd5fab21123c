-------------------------------- MODULE Alu ---------------------------------
(***************************************************************************)
(* Words of 1, 2, 4 or 8 bytes and the flag arithmetic of cpu/flags.cpp:   *)
(* the compute_* functions that turn what an instruction stashed (its      *)
(* result and at most two other words) into the six arithmetic flags.  A   *)
(* set of flags is the set of the names of those that are 1.               *)
(***************************************************************************)
EXTENDS Integers, FiniteSetsExt

Sizes == {1, 2, 4, 8}
Arith == {"CF", "PF", "AF", "ZF", "SF", "OF"}
Flag == Arith \cup {"DF"}

Width(size) == 8 * size
\* sign_mask, as the switch of mask_for has it: a constant per size.
Top(size) == CASE size = 1 -> 128
               [] size = 2 -> 32768
               [] size = 4 -> 32768 * 65536
               [] size = 8 -> 32768 * 65536 * 65536 * 65536
Span(size) == 2 * Top(size)          \* mask_for + 1
Words(size) == 0 .. Span(size) - 1

Wrap(v, size) == v % Span(size)
Sign(v, size) == v >= Top(size)
Signed(v, size) == IF Sign(v, size) THEN v - Span(size) ELSE v

\* 1 << k, and the word as the set of its bits: the one made of the bits below
\* k is the one below k - 1 and perhaps bit k - 1.
Pow2[k \in Nat] == IF k = 0 THEN 1 ELSE 2 * Pow2[k - 1]
BitAt(v, k) == (v \div Pow2[k]) % 2 = 1
BitsOf(v, size) == {k \in 0 .. Width(size) - 1 : BitAt(v, k)}
WordOf(bits, size) ==
  LET low[k \in 0 .. Width(size)] ==
        IF k = 0 THEN 0
        ELSE low[k - 1] + (IF k - 1 \in bits THEN Pow2[k - 1] ELSE 0)
  IN  low[Width(size)]

On(f, b) == IF b THEN {f} ELSE {}

EvenParity(v) == Cardinality(BitsOf(v, 1)) % 2 = 0

\* apply_zsp
ZSP(size, r) ==
  On("ZF", r = 0) \cup On("SF", Sign(r, size)) \cup On("PF", EvenParity(r))

\* (a ^ b ^ r) & 0x10
Half(a, b, r) == (BitAt(a, 4) # BitAt(b, 4)) # BitAt(r, 4)

\* compute_add is compute_adc without a carry in.
ComputeAdd(size, b, r, c) ==
  LET a == Wrap(r - b - c, size)
  IN  ZSP(size, r) \cup On("CF", r < b + c)
      \cup On("OF", /\ Sign(a, size) # Sign(r, size)
                    /\ Sign(b, size) # Sign(r, size))
      \cup On("AF", Half(a, b, r))

\* compute_sub is compute_sbb without a borrow in.
MutComputeSub(size, b, r, c) ==     \* mutant: the borrow out includes equality
  LET a == Wrap(r + b + c, size)
  IN  ZSP(size, r) \cup On("CF", a <= b + c)
      \cup On("OF", /\ Sign(a, size) # Sign(b, size)
                    /\ Sign(a, size) # Sign(r, size))
      \cup On("AF", Half(a, b, r))
ComputeSub(size, b, r, c) ==
  LET a == Wrap(r + b + c, size)
  IN  ZSP(size, r) \cup On("CF", a < b + c)
      \cup On("OF", /\ Sign(a, size) # Sign(b, size)
                    /\ Sign(a, size) # Sign(r, size))
      \cup On("AF", Half(a, b, r))

ComputeInc(size, cf, r) ==
  LET prev == Wrap(r - 1, size)
  IN  ZSP(size, r) \cup On("CF", cf)
      \cup On("OF", prev = Top(size) - 1 /\ Sign(r, size))
      \cup On("AF", BitAt(prev, 4) # BitAt(r, 4))

ComputeDec(size, cf, r) ==
  LET prev == Wrap(r + 1, size)
  IN  ZSP(size, r) \cup On("CF", cf)
      \cup On("OF", prev = Top(size) /\ ~Sign(r, size))
      \cup On("AF", BitAt(prev, 4) # BitAt(r, 4))

ComputeNeg(size, a, r) ==
  ZSP(size, r) \cup On("CF", a # 0) \cup On("OF", a = Top(size))
  \cup On("AF", BitAt(a, 4) \/ BitAt(r, 4))

ComputeLogic(size, r) == ZSP(size, r)

\* The shifts are never stashed with a count of zero.
ComputeShl(size, a, r, count) ==
  LET w == Width(size)
      cf == count <= w /\ BitAt(a, w - count)
  IN  ZSP(size, r) \cup On("CF", cf)
      \cup On("OF", count = 1 /\ Sign(r, size) # cf)

ComputeShr(size, a, r, count) ==
  ZSP(size, r) \cup On("CF", count <= Width(size) /\ BitAt(a, count - 1))
  \cup On("OF", count = 1 /\ Sign(a, size))

ComputeSar(size, a, r, count) ==
  ZSP(size, r)
  \cup On("CF", IF count <= Width(size) THEN BitAt(a, count - 1)
                ELSE Sign(a, size))

\* The rotates write CF, and OF when the count is 1; the rest is kept.
ComputeRol(size, r, count, kept) ==
  LET cf == r % 2 = 1
  IN  (kept \ (IF count = 1 THEN {"CF", "OF"} ELSE {"CF"}))
      \cup On("CF", cf) \cup On("OF", count = 1 /\ Sign(r, size) # cf)

ComputeRor(size, r, count, kept) ==
  LET cf == Sign(r, size)
  IN  (kept \ (IF count = 1 THEN {"CF", "OF"} ELSE {"CF"}))
      \cup On("CF", cf)
      \cup On("OF", count = 1 /\ cf # BitAt(r, Width(size) - 2))

ComputeMulOv(kept, overflow) ==
  (kept \ {"CF", "OF"}) \cup On("CF", overflow) \cup On("OF", overflow)

Cc == {"O", "NO", "B", "NB", "Z", "NZ", "BE", "NBE", "S", "NS", "P", "NP",
       "L", "NL", "LE", "NLE", "None"}

\* Cpu::cond_holds, over the flags f.
CondHolds(cond, f) ==
  LET less == ("SF" \in f) # ("OF" \in f)
  IN  CASE cond = "O"    -> "OF" \in f
        [] cond = "NO"   -> "OF" \notin f
        [] cond = "B"    -> "CF" \in f
        [] cond = "NB"   -> "CF" \notin f
        [] cond = "Z"    -> "ZF" \in f
        [] cond = "NZ"   -> "ZF" \notin f
        [] cond = "BE"   -> "CF" \in f \/ "ZF" \in f
        [] cond = "NBE"  -> "CF" \notin f /\ "ZF" \notin f
        [] cond = "S"    -> "SF" \in f
        [] cond = "NS"   -> "SF" \notin f
        [] cond = "P"    -> "PF" \in f
        [] cond = "NP"   -> "PF" \notin f
        [] cond = "L"    -> less
        [] cond = "NL"   -> ~less
        [] cond = "LE"   -> "ZF" \in f \/ less
        [] cond = "NLE"  -> "ZF" \notin f /\ ~less
        [] cond = "None" -> TRUE

=============================================================================
