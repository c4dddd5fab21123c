-------------------------- MODULE LazyFlagsProofs ---------------------------
(***************************************************************************)
(* Proofs about LazyFlags, for any instructions and operands of any size,  *)
(* 4 and 8 bytes included.                                                 *)
(*                                                                         *)
(* First, a CMP decides the comparison of its operands; the inductive      *)
(* invariant says what CMP left, whether it is still in the stash or a     *)
(* reader has already turned it into flags.                                *)
(*                                                                         *)
(* Then, the lazy flags implement ArchFlags, in three layers.  Arithmetic: *)
(* recursive functions exist and can be reasoned about by induction over a *)
(* set of numbers; words, their bits and powers of two; what each          *)
(* compute_ function returns, in terms of sums, differences, products and  *)
(* repeated one-bit shifts.  Flag states: what a stash shows, and which    *)
(* states a handler may leave.  Handlers: one lemma ...IsRight for each,   *)
(* saying that its step keeps TypeOK and is a step of ArchFlags; and the   *)
(* same for what the host does between instructions.                       *)
(***************************************************************************)
EXTENDS LazyFlags, NaturalsInduction, WellFoundedInduction, TLAPS

\* After CMP a, b the arithmetic flags a reader sees are those of a - b.
Compared ==
  last.op = "cmp" /\ fault = "None" =>
    /\ last \in Insns
    /\ Visible(rflags, cc) \cap Arith
         = ComputeSub(last.size, last.b, Wrap(last.a - last.b, last.size), 0)

-----------------------------------------------------------------------------
(* Arithmetic of words *)

\* The remainder of a number at most one span below the words.
LEMMA WrapNear ==
  ASSUME NEW size \in Sizes, NEW v \in Int, -Span(size) <= v, v < Span(size)
  PROVE  Wrap(v, size) = IF v < 0 THEN v + Span(size) ELSE v
<1>1. CASE size = 1
  BY <1>1 DEF Wrap, Span, Top
<1>2. CASE size = 2
  BY <1>2 DEF Wrap, Span, Top
<1>3. CASE size = 4
  BY <1>3 DEF Wrap, Span, Top
<1>4. CASE size = 8
  BY <1>4 DEF Wrap, Span, Top
<1> QED BY <1>1, <1>2, <1>3, <1>4 DEF Sizes

LEMMA TopIs == ASSUME NEW size \in Sizes PROVE Top(size) \in Nat /\ Top(size) > 0
<1>1. CASE size = 1
  BY <1>1 DEF Top
<1>2. CASE size = 2
  BY <1>2 DEF Top
<1>3. CASE size = 4
  BY <1>3 DEF Top
<1>4. CASE size = 8
  <2> DEFINE x == 32768 * 65536 * 65536
  <2>1. Top(size) = x * 65536
    BY <1>4 DEF Top
  <2>2. x \in Nat /\ x > 0
    OBVIOUS
  <2> HIDE DEF x
  <2> QED BY <2>1, <2>2
<1> QED BY <1>1, <1>2, <1>3, <1>4 DEF Sizes

\* compute_sub recovers a from b and a - b, and its CF, ZF, SF and OF compare
\* a and b (flags.cpp).
LEMMA ComputeSubCompares ==
  ASSUME NEW size \in Sizes, NEW a \in Words(size), NEW b \in Words(size),
         NEW f, f \cap Arith = ComputeSub(size, b, Wrap(a - b, size), 0)
  PROVE  /\ "CF" \in f <=> a < b
         /\ "ZF" \in f <=> a = b
         /\ ("SF" \in f) # ("OF" \in f) <=> Signed(a, size) < Signed(b, size)
<1> DEFINE r == Wrap(a - b, size)
           T == Top(size)
<1>1. T \in Nat /\ T > 0 /\ Span(size) = 2 * T /\ a \in 0 .. 2 * T - 1 /\ b \in 0 .. 2 * T - 1
  BY TopIs DEF Span, Words
<1>2. r = (IF a - b < 0 THEN a - b + 2 * T ELSE a - b) /\ r \in 0 .. 2 * T - 1
  BY <1>1, WrapNear
<1>3. Wrap(r + b + 0, size) = a
  <2>1. CASE a - b >= 0
    <3>1. r + b + 0 = a
      BY <2>1, <1>1, <1>2
    <3> QED BY <3>1, <1>1, WrapNear
  <2>2. CASE a - b < 0
    <3>1. r + b + 0 = a + 2 * T
      BY <2>2, <1>1, <1>2
    <3>2. Wrap(a + 2 * T, size) = a
      <4>1. CASE size = 1
        BY <4>1, <1>1 DEF Wrap, Span, Top
      <4>2. CASE size = 2
        BY <4>2, <1>1 DEF Wrap, Span, Top
      <4>3. CASE size = 4
        BY <4>3, <1>1 DEF Wrap, Span, Top
      <4>4. CASE size = 8
        BY <4>4, <1>1 DEF Wrap, Span, Top
      <4> QED BY <4>1, <4>2, <4>3, <4>4 DEF Sizes
    <3> QED BY <3>1, <3>2
  <2> QED BY <2>1, <2>2, <1>1
<1>4. /\ "CF" \in f <=> a < b
      /\ "ZF" \in f <=> r = 0
      /\ "SF" \in f <=> r >= T
      /\ "OF" \in f <=> ((a >= T) # (b >= T)) /\ ((a >= T) # (r >= T))
  <2> HIDE DEF r, T
  <2>1. b + 0 = b
    BY <1>1
  <2>2. f \cap Arith
          = (On("ZF", r = 0) \cup On("SF", r >= T) \cup On("PF", EvenParity(r)))
            \cup On("CF", a < b)
            \cup On("OF", ((a >= T) # (b >= T)) /\ ((a >= T) # (r >= T)))
            \cup On("AF", Half(a, b, r))
    BY <1>3, <2>1 DEF ComputeSub, ZSP, Sign, r, T
  <2> QED BY <2>2 DEF Arith, On
<1>5. /\ Signed(a, size) = IF a >= T THEN a - 2 * T ELSE a
      /\ Signed(b, size) = IF b >= T THEN b - 2 * T ELSE b
  BY <1>1 DEF Signed, Sign
<1> QED
  <2> HIDE DEF r, T
  <2>1. a = b <=> r = 0
    BY <1>1, <1>2
  <2>2. (r >= T) # (((a >= T) # (b >= T)) /\ ((a >= T) # (r >= T)))
          <=> Signed(a, size) < Signed(b, size)
    BY <1>1, <1>2, <1>5
  <2> QED BY <1>4, <2>1, <2>2

-----------------------------------------------------------------------------
(* Readers *)

\* Turning the stash into flags does not change what a reader sees
\* (sync_flags_ run twice is sync_flags_ run once).
LEMMA SyncKeepsVisible == Visible(Synced.bits, Synced.cc) = Visible(rflags, cc)
<1>1. Synced.cc.op = "Eflags" /\ Synced.bits = Visible(rflags, cc)
  BY DEF Synced, NoStash
<1>2. Computed(Synced.bits, Synced.cc) = Synced.bits \cap Arith
  BY <1>1 DEF Computed
<1> QED BY <1>1, <1>2 DEF Visible

\* An instruction other than CMP leaves itself as the last one, or a fault.
LEMMA OthersAreNotCmp ==
  ASSUME NEW i \in Insns, Handler(i), ~OpCmp(i)
  PROVE  last'.op # "cmp" \/ fault' # "None"
<1>1. ASSUME NEW ws, NEW facts, NEW fl, Retire(i, ws, facts, fl)
      PROVE  last' = i
  BY <1>1 DEF Retire
<1>2. ASSUME NEW fl, PageFault(i, fl)
      PROVE  fault' # "None"
  BY <1>2 DEF PageFault
<1>3. ASSUME NEW r, NEW fl, NEW early, Write(i, r, fl, early)
      PROVE  last' = i \/ fault' # "None"
  BY <1>3, <1>1, <1>2 DEF Write
<1>4. ASSUME DivideError(i)
      PROVE  fault' # "None"
  BY <1>4 DEF DivideError
<1>5. CASE OpAdd(i) \/ OpAdc(i) \/ OpSub(i) \/ OpSbb(i) \/ OpInc(i) \/ OpDec(i)
           \/ OpNeg(i)
  BY <1>5, <1>3, Zenon DEF OpAdd, OpAdc, OpSub, OpSbb, OpInc, OpDec, OpNeg
<1>6. CASE OpImul(i) \/ OpMul(i) \/ OpImul1(i) \/ OpDiv(i) \/ OpIdiv(i)
  BY <1>6, <1>1, <1>4 DEF OpImul, OpMul, OpImul1, OpDiv, OpIdiv
<1>7. CASE OpAnd(i) \/ OpOr(i) \/ OpXor(i) \/ OpNot(i) \/ OpTest(i)
  BY <1>7, <1>1, <1>3 DEF OpAnd, OpOr, OpXor, OpNot, OpTest, Logic, RetireOnly
<1>8. CASE OpShl(i) \/ OpShr(i) \/ OpSar(i) \/ OpRol(i) \/ OpRor(i)
  BY <1>8, <1>3 DEF OpShl, OpShr, OpSar, OpRol, OpRor
<1>9. CASE OpRcl(i) \/ OpRcr(i)
  BY <1>9, <1>1, <1>3 DEF OpRcl, OpRcr, RetireOnly
<1>10. CASE OpShld(i) \/ OpShrd(i)
  BY <1>10, <1>1, <1>3 DEF OpShld, OpShrd, DoubleShift, Logic, RetireOnly
<1>11. CASE BitTest(i)
  BY <1>11, <1>1, <1>3 DEF BitTest, RetireOnly
<1>12. CASE Scan(i)
  BY <1>12, <1>1 DEF Scan, RetireOnly
<1>13. CASE OpLahf(i) \/ OpSahf(i) \/ OpPushf(i) \/ OpPopf(i) \/ OpJcc(i)
  BY <1>13, <1>1, <1>2 DEF OpLahf, OpSahf, OpPushf, OpPopf, OpJcc, RetireOnly
<1>14. CASE ReadFault(i)
  BY <1>14, <1>2 DEF ReadFault
<1> QED BY <1>5, <1>6, <1>7, <1>8, <1>9, <1>10, <1>11, <1>12, <1>13, <1>14
        DEF Handler

\* CMP stashes the subtraction, whatever was pending (stash_sub).
LEMMA CmpStashes ==
  ASSUME NEW i \in Insns, OpCmp(i)
  PROVE  /\ last' = i
         /\ Visible(rflags, cc)' \cap Arith
              = ComputeSub(i.size, i.b, Wrap(i.a - i.b, i.size), 0)
<1> DEFINE r == Wrap(i.a - i.b, i.size)
<1>1. /\ last' = i
      /\ cc' = [op |-> "Sub", size |-> i.size, dst |-> r, src |-> i.b, src2 |-> 0]
  BY DEF OpCmp, RetireOnly, Retire, Leaves, Stash, Now
<1>2. Computed(rflags, cc)' = ComputeSub(i.size, i.b, r, 0)
  <2> HIDE DEF r
  <2> QED BY <1>1 DEF Computed
<1>3. ComputeSub(i.size, i.b, r, 0) \subseteq Arith
  BY DEF ComputeSub, ZSP, On, Arith
<1>4. Visible(rflags, cc)' \cap Arith = Computed(rflags, cc)' \cap Arith
  BY DEF Visible
<1> QED BY <1>1, <1>2, <1>3, <1>4

-----------------------------------------------------------------------------
(* The invariant *)

LEMMA ComparedInit == Init => Compared
BY DEF Init, Compared, NoInsn

LEMMA ComparedStep == Compared /\ [Next]_vars => Compared'
<1> SUFFICES ASSUME Compared, [Next]_vars
             PROVE  Compared'
  OBVIOUS
<1>1. ASSUME NEW i \in Insns, Handler(i)
      PROVE  Compared'
  <2>1. CASE OpCmp(i)
    BY <2>1, CmpStashes DEF Compared
  <2>2. CASE ~OpCmp(i)
    BY <1>1, <2>2, OthersAreNotCmp DEF Compared
  <2> QED BY <2>1, <2>2
<1>2. CASE ReadFlags \/ Snapshot
  <2>1. Visible(rflags, cc)' = Visible(rflags, cc) /\ UNCHANGED <<last, fault>>
    BY <1>2, SyncKeepsVisible DEF ReadFlags, Snapshot, Leaves, Visible, Computed
  <2> QED BY <2>1 DEF Compared
<1>3. CASE ClearFault \/ Restore \/ Reset
  BY <1>3 DEF ClearFault, Restore, Reset, Nothing, NoInsn, Compared
<1>4. CASE UNCHANGED vars
  BY <1>4 DEF vars, Compared, Visible, Computed
<1> QED BY <1>1, <1>2, <1>3, <1>4 DEF Next

\* What CMP left decides the comparisons.
LEMMA ComparedDecides == Compared => CmpDecides
<1> SUFFICES ASSUME Compared, last.op = "cmp", fault = "None"
             PROVE  CmpDecides
  BY DEF CmpDecides
<1> DEFINE f == Visible(rflags, cc)
<1>1. last.size \in Sizes /\ last.a \in Words(last.size) /\ last.b \in Words(last.size)
  BY LazyFlagsAssumption DEF Compared, Insn
<1>2. /\ "CF" \in f <=> last.a < last.b
      /\ "ZF" \in f <=> last.a = last.b
      /\ ("SF" \in f) # ("OF" \in f)
           <=> Signed(last.a, last.size) < Signed(last.b, last.size)
  <2>1. f \cap Arith
          = ComputeSub(last.size, last.b, Wrap(last.a - last.b, last.size), 0)
    BY DEF Compared
  <2> HIDE DEF f
  <2> QED BY <1>1, <2>1, ComputeSubCompares
<1>3. /\ last.a \in Int /\ last.b \in Int
      /\ Signed(last.a, last.size) \in Int /\ Signed(last.b, last.size) \in Int
      /\ Signed(last.a, last.size) = Signed(last.b, last.size) <=> last.a = last.b
  BY <1>1, TopIs DEF Words, Span, Signed, Sign
<1>4. /\ CondHolds("B", f) <=> "CF" \in f
      /\ CondHolds("BE", f) <=> "CF" \in f \/ "ZF" \in f
      /\ CondHolds("Z", f) <=> "ZF" \in f
      /\ CondHolds("L", f) <=> ("SF" \in f) # ("OF" \in f)
      /\ CondHolds("LE", f) <=> "ZF" \in f \/ (("SF" \in f) # ("OF" \in f))
  <2> HIDE DEF f
  <2> QED BY DEF CondHolds
<1> QED
  <2> HIDE DEF f
  <2> QED BY <1>2, <1>3, <1>4 DEF CmpDecides, f

\* After CMP a, b the conditions B, BE, Z, L and LE compare a and b, for words
\* of every size, whoever reads the flags first and however often
\* (stash_sub, sync_flags_, cond_holds).
THEOREM CmpDecidesAlways == Spec => []CmpDecides
<1>1. Init => Compared
  BY ComparedInit
<1>2. Compared /\ [Next]_vars => Compared'
  BY ComparedStep
<1>3. Compared => CmpDecides
  BY ComparedDecides
<1> QED BY <1>1, <1>2, <1>3, PTL DEF Spec

-----------------------------------------------------------------------------
(* Recursive functions *)

LEMMA LeastNat ==
  ASSUME NEW S, S \subseteq Nat, S # {}
  PROVE  \E k \in S : \A j \in S : k <= j
<1> DEFINE Less == {ss \in Nat \X Nat : ss[1] < ss[2]}
<1>1. IsWellFoundedOn(Less, Nat)
  BY NatLessThanWellFounded, Zenon DEF OpToRel
<1>2. PICK x \in S : \A y \in S : ~(<<y, x>> \in Less)
  <2> HIDE DEF Less
  <2> QED BY <1>1, WFMin
<1>3. \A y \in S : ~(y < x)
  BY <1>2
<1> QED BY <1>2, <1>3

\* Induction over the numbers, for a set of them.
LEMMA Induction ==
  ASSUME NEW S, 0 \in S, \A k \in Nat : k \in S => k + 1 \in S
  PROVE  Nat \subseteq S
<1> SUFFICES ASSUME Nat \ S # {} PROVE FALSE
  OBVIOUS
<1>1. PICK k \in Nat \ S : \A j \in Nat \ S : k <= j
  BY LeastNat
<1>2. k # 0 /\ k - 1 \in Nat /\ (k - 1) + 1 = k
  BY <1>1
<1>3. k - 1 \in S
  BY <1>1, <1>2
<1> QED BY <1>1, <1>2, <1>3

\* g applied n times: to x, to the result and so on, told which time it is.
Iterates(f, g, x, D) ==
  f = [k \in D |-> IF k = 0 THEN x ELSE g[<<k, f[k - 1]>>]]

LEMMA IteratesExist ==
  ASSUME NEW g, NEW x, NEW n \in Nat
  PROVE  \E f : Iterates(f, g, x, 0 .. n)
<1> DEFINE S == {m \in Nat : \E f : Iterates(f, g, x, 0 .. m)}
<1>1. 0 \in S
  <2> DEFINE f == [k \in 0 .. 0 |-> x]
  <2>1. f = [k \in 0 .. 0 |-> IF k = 0 THEN x ELSE g[<<k, f[k - 1]>>]]
    OBVIOUS
  <2> QED BY <2>1 DEF Iterates
<1>2. ASSUME NEW m \in Nat, m \in S PROVE m + 1 \in S
  <2>1. PICK f : Iterates(f, g, x, 0 .. m)
    BY <1>2
  <2> DEFINE h == [k \in 0 .. m + 1 |-> IF k = m + 1 THEN g[<<k, f[m]>>] ELSE f[k]]
  <2>2. ASSUME NEW k \in 0 .. m + 1
        PROVE  h[k] = IF k = 0 THEN x ELSE g[<<k, h[k - 1]>>]
    <3>1. CASE k = m + 1
      BY <3>1
    <3>2. CASE k \in 0 .. m
      <4>1. h[k] = f[k] /\ (k # 0 => k - 1 \in 0 .. m /\ h[k - 1] = f[k - 1])
        BY <3>2
      <4>2. f[k] = IF k = 0 THEN x ELSE g[<<k, f[k - 1]>>]
        BY <2>1, <3>2 DEF Iterates
      <4> HIDE DEF h
      <4> QED BY <4>1, <4>2
    <3> QED BY <3>1, <3>2
  <2>3. h = [k \in 0 .. m + 1 |-> h[k]]
    OBVIOUS
  <2>4. h = [k \in 0 .. m + 1 |-> IF k = 0 THEN x ELSE g[<<k, h[k - 1]>>]]
    <3> HIDE DEF h
    <3> QED BY <2>2, <2>3
  <2>5. Iterates(h, g, x, 0 .. m + 1)
    <3> HIDE DEF h
    <3> QED BY <2>4 DEF Iterates
  <2> QED BY <2>5
<1>3. Nat \subseteq S
  <2> HIDE DEF S
  <2> QED BY <1>1, <1>2, Induction
<1> QED BY <1>3

LEMMA IteratesAgree ==
  ASSUME NEW g, NEW x, NEW m \in Nat, NEW n \in Nat, NEW f, NEW h,
         Iterates(f, g, x, 0 .. m), Iterates(h, g, x, 0 .. n)
  PROVE  \A k \in Nat : k <= m /\ k <= n => f[k] = h[k]
<1> DEFINE S == {k \in Nat : k <= m /\ k <= n => f[k] = h[k]}
<1>0. \A k \in 0 .. m : f[k] = IF k = 0 THEN x ELSE g[<<k, f[k - 1]>>]
  BY DEF Iterates
<1>1. \A k \in 0 .. n : h[k] = IF k = 0 THEN x ELSE g[<<k, h[k - 1]>>]
  BY DEF Iterates
<1>2. 0 \in S
  <2>1. 0 \in 0 .. m /\ 0 \in 0 .. n
    OBVIOUS
  <2>2. f[0] = x /\ h[0] = x
    BY <2>1, <1>0, <1>1
  <2> QED BY <2>2
<1>3. ASSUME NEW k \in Nat, k \in S PROVE k + 1 \in S
  <2> SUFFICES ASSUME k + 1 <= m, k + 1 <= n PROVE f[k + 1] = h[k + 1]
    OBVIOUS
  <2>1. /\ k + 1 # 0 /\ (k + 1) - 1 = k /\ f[k] = h[k]
        /\ k + 1 \in 0 .. m /\ k + 1 \in 0 .. n
    BY <1>3
  <2>2. f[k + 1] = g[<<k + 1, f[k]>>]
    BY <2>1, <1>0
  <2>3. h[k + 1] = g[<<k + 1, h[k]>>]
    BY <2>1, <1>1
  <2> QED BY <2>1, <2>2, <2>3
<1>4. Nat \subseteq S
  <2> HIDE DEF S
  <2> QED BY <1>2, <1>3, Induction
<1> QED BY <1>4

LEMMA IteratesForever ==
  ASSUME NEW g, NEW x
  PROVE  \E f : Iterates(f, g, x, Nat)
<1> DEFINE h[n \in Nat] == CHOOSE f : Iterates(f, g, x, 0 .. n)
           f == [n \in Nat |-> h[n][n]]
<1>1. \A n \in Nat : Iterates(h[n], g, x, 0 .. n)
  BY IteratesExist, Zenon
<1>2. ASSUME NEW n \in Nat
      PROVE  f[n] = IF n = 0 THEN x ELSE g[<<n, f[n - 1]>>]
  <2>1. f[n] = h[n][n]
    OBVIOUS
  <2>2. h[n][n] = IF n = 0 THEN x ELSE g[<<n, h[n][n - 1]>>]
    <3> HIDE DEF h
    <3>1. h[n] = [k \in 0 .. n |-> IF k = 0 THEN x ELSE g[<<k, h[n][k - 1]>>]]
      BY <1>1 DEF Iterates
    <3>2. n \in 0 .. n
      OBVIOUS
    <3>3. [k \in 0 .. n |-> IF k = 0 THEN x ELSE g[<<k, h[n][k - 1]>>]][n]
            = IF n = 0 THEN x ELSE g[<<n, h[n][n - 1]>>]
      BY <3>2
    <3> QED BY <3>1, <3>3
  <2>3. n # 0 => n - 1 \in Nat /\ f[n - 1] = h[n - 1][n - 1]
    OBVIOUS
  <2>4. n # 0 => h[n][n - 1] = h[n - 1][n - 1]
    <3> HIDE DEF h
    <3> SUFFICES ASSUME n # 0 PROVE h[n][n - 1] = h[n - 1][n - 1]
      OBVIOUS
    <3>1. n - 1 \in Nat /\ n - 1 <= n - 1 /\ n - 1 <= n
      OBVIOUS
    <3>2. Iterates(h[n], g, x, 0 .. n) /\ Iterates(h[n - 1], g, x, 0 .. n - 1)
      BY <3>1, <1>1
    <3>3. \A k \in Nat : k <= n - 1 /\ k <= n => h[n - 1][k] = h[n][k]
      <4>1. PICK h1 : h1 = h[n - 1]
        OBVIOUS
      <4>2. PICK h2 : h2 = h[n]
        OBVIOUS
      <4>3. PICK m : m = n - 1
        OBVIOUS
      <4>4. m \in Nat /\ Iterates(h2, g, x, 0 .. n) /\ Iterates(h1, g, x, 0 .. m)
        BY <3>1, <3>2, <4>1, <4>2, <4>3, Zenon
      <4>5. \A k \in Nat : k <= m /\ k <= n => h1[k] = h2[k]
        BY <4>4, IteratesAgree
      <4> QED BY <4>1, <4>2, <4>3, <4>5
    <3> QED BY <3>1, <3>3
  <2> HIDE DEF f, h
  <2> QED BY <2>1, <2>2, <2>3, <2>4
<1>3. f = [n \in Nat |-> f[n]]
  OBVIOUS
<1>4. f = [n \in Nat |-> IF n = 0 THEN x ELSE g[<<n, f[n - 1]>>]]
  <2> HIDE DEF f
  <2> QED BY <1>2, <1>3
<1> HIDE DEF f
<1> QED BY <1>4 DEF Iterates

LEMMA Pow2Is ==
  /\ Pow2[0] = 1
  /\ \A k \in Nat : Pow2[k + 1] = 2 * Pow2[k] /\ Pow2[k] \in Nat /\ Pow2[k] > 0
<1> DEFINE g == [p \in Nat \X Nat |-> 2 * p[2]]
<1>1. PICK f : Iterates(f, g, 1, Nat)
  BY IteratesForever
<1>2. f = [k \in Nat |-> IF k = 0 THEN 1 ELSE g[<<k, f[k - 1]>>]]
  BY <1>1 DEF Iterates
<1>3. \A k \in Nat : f[k] = IF k = 0 THEN 1 ELSE g[<<k, f[k - 1]>>]
  <2> HIDE DEF g
  <2> QED BY <1>2
<1> DEFINE S == {k \in Nat : f[k] \in Nat}
<1>4. 0 \in S
  <2>1. f[0] = 1
    <3> HIDE DEF g
    <3> QED BY <1>3
  <2> QED BY <2>1
<1>5. ASSUME NEW k \in Nat, k \in S PROVE k + 1 \in S
  <2>1. k + 1 # 0 /\ k + 1 \in Nat /\ (k + 1) - 1 = k /\ f[k] \in Nat
    BY <1>5
  <2>2. f[k + 1] = g[<<k + 1, f[k]>>]
    <3> HIDE DEF g
    <3> QED BY <1>3, <2>1
  <2>3. g[<<k + 1, f[k]>>] = 2 * f[k]
    BY <2>1
  <2> HIDE DEF g
  <2> QED BY <2>1, <2>2, <2>3
<1>6. Nat \subseteq S
  <2> HIDE DEF S
  <2> QED BY <1>4, <1>5, Induction
<1>7. ASSUME NEW k \in Nat
      PROVE  f[k] = IF k = 0 THEN 1 ELSE 2 * f[k - 1]
  <2>1. CASE k = 0
    <3> HIDE DEF g
    <3> QED BY <2>1, <1>3
  <2>2. CASE k # 0
    <3>1. k - 1 \in Nat /\ f[k - 1] \in Nat
      BY <2>2, <1>6
    <3>2. f[k] = g[<<k, f[k - 1]>>]
      <4> HIDE DEF g
      <4> QED BY <1>3, <2>2
    <3>3. g[<<k, f[k - 1]>>] = 2 * f[k - 1]
      BY <3>1
    <3> HIDE DEF g
    <3> QED BY <2>2, <3>2, <3>3
  <2> QED BY <2>1, <2>2
<1>8. f = [k \in Nat |-> f[k]]
  <2> HIDE DEF g
  <2> QED BY <1>2
<1>9. f = [k \in Nat |-> IF k = 0 THEN 1 ELSE 2 * f[k - 1]]
  <2> HIDE DEF g
  <2> QED BY <1>7, <1>8
<1>10. Pow2 = [k \in Nat |-> IF k = 0 THEN 1 ELSE 2 * Pow2[k - 1]]
  <2> HIDE DEF g, S
  <2> QED BY <1>9, Zenon DEF Pow2
<1>11. \A k \in Nat : Pow2[k] = IF k = 0 THEN 1 ELSE 2 * Pow2[k - 1]
  BY <1>10
<1>12. Pow2[0] = 1
  BY <1>11
<1>13. \A k \in Nat : Pow2[k + 1] = 2 * Pow2[k]
  <2> TAKE k \in Nat
  <2>1. k + 1 \in Nat /\ k + 1 # 0 /\ (k + 1) - 1 = k
    OBVIOUS
  <2> QED BY <2>1, <1>11
<1> DEFINE R == {k \in Nat : Pow2[k] \in Nat /\ Pow2[k] > 0}
<1>14. 0 \in R
  BY <1>12
<1>15. ASSUME NEW k \in Nat, k \in R PROVE k + 1 \in R
  BY <1>13, <1>15
<1>16. Nat \subseteq R
  <2> HIDE DEF R
  <2> QED BY <1>14, <1>15, Induction
<1> QED BY <1>12, <1>13, <1>16

LEMMA Pow2Adds ==
  ASSUME NEW j \in Nat, NEW k \in Nat
  PROVE  Pow2[j + k] = Pow2[j] * Pow2[k]
<1> DEFINE S == {m \in Nat : Pow2[j + m] = Pow2[j] * Pow2[m]}
<1>1. 0 \in S
  BY Pow2Is
<1>2. ASSUME NEW m \in Nat, m \in S PROVE m + 1 \in S
  <2>1. /\ Pow2[(j + m) + 1] = 2 * Pow2[j + m] /\ Pow2[m + 1] = 2 * Pow2[m]
        /\ j + m \in Nat /\ j + (m + 1) = (j + m) + 1
    BY Pow2Is
  <2>2. PICK p \in Nat : p = Pow2[j]
    BY Pow2Is
  <2>3. PICK q \in Nat : q = Pow2[m]
    BY Pow2Is
  <2>4. Pow2[j + m] = p * q
    BY <1>2, <2>2, <2>3
  <2>5. p * (2 * q) = 2 * (p * q)
    OBVIOUS
  <2> QED BY <2>1, <2>2, <2>3, <2>4, <2>5
<1>3. Nat \subseteq S
  <2> HIDE DEF S
  <2> QED BY <1>1, <1>2, Induction
<1> QED BY <1>3

\* A larger exponent by what it is larger.
LEMMA Pow2Splits ==
  ASSUME NEW j \in Nat, NEW k \in 0 .. j
  PROVE  /\ j - k \in Nat /\ Pow2[j] = Pow2[k] * Pow2[j - k]
         /\ Pow2[k] \in Nat \ {0} /\ Pow2[j - k] \in Nat \ {0}
<1>1. j - k \in Nat /\ k \in Nat /\ k + (j - k) = j
  OBVIOUS
<1>2. Pow2[k + (j - k)] = Pow2[k] * Pow2[j - k]
  BY <1>1, Pow2Adds
<1> QED BY <1>1, <1>2, Pow2Is

LEMMA SpanIs ==
  ASSUME NEW size \in Sizes
  PROVE  /\ Width(size) \in {8, 16, 32, 64}
         /\ Span(size) = Pow2[Width(size)] /\ Top(size) = Pow2[Width(size) - 1]
         /\ Span(size) = 2 * Top(size) /\ Top(size) \in Nat /\ Top(size) >= 128
<1>1. Pow2[4] = 16
  <2>1. Pow2[0 + 1] = 2 /\ Pow2[1 + 1] = 4 /\ Pow2[2 + 1] = 8 /\ Pow2[3 + 1] = 16
    BY Pow2Is
  <2> QED BY <2>1
<1>2. Pow2[8] = 256
  <2>1. Pow2[4 + 4] = Pow2[4] * Pow2[4]
    BY Pow2Adds
  <2> QED BY <1>1, <2>1
<1>3. Pow2[16] = 65536
  <2>1. Pow2[8 + 8] = Pow2[8] * Pow2[8]
    BY Pow2Adds
  <2> QED BY <1>2, <2>1
<1>4. Pow2[32] = 65536 * 65536
  <2>1. Pow2[16 + 16] = Pow2[16] * Pow2[16]
    BY Pow2Adds
  <2> QED BY <1>3, <2>1
<1>5. Pow2[64] = (65536 * 65536) * (65536 * 65536)
  <2>1. Pow2[32 + 32] = Pow2[32] * Pow2[32]
    BY Pow2Adds
  <2> QED BY <1>4, <2>1
<1>6. Span(size) = Pow2[Width(size)] /\ Top(size) >= 128 /\ Top(size) \in Nat
  <2>1. CASE size = 1
    BY <2>1, <1>2 DEF Span, Top, Width
  <2>2. CASE size = 2
    BY <2>2, <1>3 DEF Span, Top, Width
  <2>3. CASE size = 4
    BY <2>3, <1>4 DEF Span, Top, Width
  <2>4. CASE size = 8
    <3> DEFINE x == 65536 * 65536
    <3>1. x \in Nat /\ x >= 128
      OBVIOUS
    <3>2. Top(size) = 32768 * 65536 * 65536 * 65536 /\ Width(size) = 64
      BY <2>4 DEF Top, Width
    <3>3. 32768 * 65536 * 65536 * 65536 = 32768 * x * 65536
      OBVIOUS
    <3>4. Pow2[64] = x * x
      BY <1>5
    <3> HIDE DEF x
    <3>5. x * x = 2 * (32768 * x * 65536) /\ 32768 * x * 65536 \in Nat /\ 32768 * x * 65536 >= 128
      <4>1. x = 65536 * 65536
        BY DEF x
      <4>2. x * x = x * (65536 * 65536)
        BY <4>1
      <4> QED BY <3>1, <4>2
    <3> QED BY <3>2, <3>3, <3>4, <3>5 DEF Span
  <2> QED BY <2>1, <2>2, <2>3, <2>4 DEF Sizes
<1>7. Width(size) \in {8, 16, 32, 64}
  BY DEF Width, Sizes
<1>8. Pow2[Width(size)] = 2 * Pow2[Width(size) - 1] /\ Pow2[Width(size) - 1] \in Nat
  <2>1. Width(size) - 1 \in Nat /\ (Width(size) - 1) + 1 = Width(size)
    BY <1>7
  <2> QED BY <2>1, Pow2Is
<1>9. Span(size) = 2 * Top(size)
  BY DEF Span
<1> QED BY <1>6, <1>7, <1>8, <1>9

-----------------------------------------------------------------------------
(* Division and the bits of a word *)

LEMMA DivisionIs ==
  ASSUME NEW n \in Int, NEW d \in Nat \ {0}
  PROVE  /\ n \div d \in Int /\ n % d \in Nat /\ n % d < d
         /\ n = d * (n \div d) + (n % d)
OBVIOUS

LEMMA DivisionOnly ==
  ASSUME NEW d \in Nat \ {0}, NEW q \in Int, NEW r \in Nat, r < d
  PROVE  (d * q + r) \div d = q /\ (d * q + r) % d = r
<1> DEFINE n == d * q + r
<1>1. n \in Int
  OBVIOUS
<1>2. PICK u \in Int : u = n \div d
  BY <1>1, DivisionIs
<1>3. PICK v \in Nat : v = n % d /\ v < d
  BY <1>1, DivisionIs
<1>4. d * q + r = d * u + v
  <2>1. n = d * u + v
    <3> HIDE DEF n
    <3> QED BY <1>1, <1>2, <1>3, DivisionIs
  <2> QED BY <2>1
<1>5. d * (q - u) = v - r /\ v - r < d /\ r - v < d
  BY <1>3, <1>4
<1>6. q - u = 0
  <2>1. PICK z \in Int : z = q - u
    OBVIOUS
  <2>2. z >= 1 => d * z >= d
    OBVIOUS
  <2>3. z <= -1 => d * z <= -d
    OBVIOUS
  <2> QED BY <1>5, <2>1, <2>2, <2>3
<1>7. q = u
  BY <1>6
<1>8. r = v
  BY <1>4, <1>7
<1> QED BY <1>2, <1>3, <1>7, <1>8

\* The bits from k on, and those below it.
LEMMA HalvesAgain ==
  ASSUME NEW n \in Int, NEW k \in Nat
  PROVE  /\ n \div Pow2[k + 1] = (n \div Pow2[k]) \div 2
         /\ n % Pow2[k + 1] = (n % Pow2[k]) + (IF BitAt(n, k) THEN Pow2[k] ELSE 0)
<1>1. PICK p \in Nat \ {0} : p = Pow2[k] /\ Pow2[k + 1] = 2 * p
  BY Pow2Is
<1>2. PICK q \in Int : q = n \div p
  BY <1>1, DivisionIs
<1>3. PICK r \in Nat : r = n % p /\ r < p
  BY <1>1, DivisionIs
<1>4. n = p * q + r
  BY <1>1, <1>2, <1>3, DivisionIs
<1>5. PICK h \in Int : h = q \div 2
  OBVIOUS
<1>6. PICK b \in {0, 1} : b = q % 2 /\ q = 2 * h + b
  BY <1>5
<1>7. n = (2 * p) * h + (b * p + r)
  <2>1. p * (2 * h + b) = (2 * p) * h + b * p
    OBVIOUS
  <2> QED BY <1>4, <1>6, <2>1
<1>8. b * p + r \in Nat /\ b * p + r < 2 * p /\ 2 * p \in Nat \ {0}
  BY <1>3
<1>9. n \div (2 * p) = h /\ n % (2 * p) = b * p + r
  <2>1. PICK s \in Nat : s = b * p + r /\ s < 2 * p
    BY <1>8
  <2>2. PICK d \in Nat \ {0} : d = 2 * p
    BY <1>8
  <2>3. (d * h + s) \div d = h /\ (d * h + s) % d = s
    BY <2>1, <2>2, DivisionOnly
  <2> QED BY <1>7, <2>1, <2>2, <2>3
<1>10. BitAt(n, k) <=> b = 1
  BY <1>1, <1>2, <1>6 DEF BitAt
<1> QED BY <1>1, <1>2, <1>3, <1>5, <1>9, <1>10

\* What the bits below k make, for every k up to the width.
LowBits(low, bits, size) ==
  /\ low[0] = 0
  /\ \A k \in 0 .. Width(size) - 1 :
       low[k + 1] = low[k] + (IF k \in bits THEN Pow2[k] ELSE 0)
  /\ \A k \in 0 .. Width(size) : low[k] \in Nat /\ low[k] < Pow2[k]

LEMMA WordOfIs ==
  ASSUME NEW bits, NEW size \in Sizes
  PROVE  \E low : LowBits(low, bits, size) /\ WordOf(bits, size) = low[Width(size)]
<1> DEFINE g == [p \in Nat \X Nat |->
                   p[2] + (IF p[1] - 1 \in bits THEN Pow2[p[1] - 1] ELSE 0)]
<1>0. PICK w \in Nat : w = Width(size)
  BY SpanIs
<1>1. PICK f : Iterates(f, g, 0, 0 .. w)
  BY IteratesExist
<1>2. f = [k \in 0 .. w |-> IF k = 0 THEN 0 ELSE g[<<k, f[k - 1]>>]]
  BY <1>1 DEF Iterates
<1>3. \A k \in 0 .. w : f[k] = IF k = 0 THEN 0 ELSE g[<<k, f[k - 1]>>]
  <2> HIDE DEF g
  <2> QED BY <1>2
<1> DEFINE S == {k \in Nat : k <= w => f[k] \in Nat}
<1>4. 0 \in S
  <2>1. 0 \in 0 .. w
    OBVIOUS
  <2>2. f[0] = 0
    <3> HIDE DEF g
    <3> QED BY <2>1, <1>3
  <2> QED BY <2>2
<1>5. ASSUME NEW k \in Nat, k \in S PROVE k + 1 \in S
  <2> SUFFICES ASSUME k + 1 <= w PROVE f[k + 1] \in Nat
    OBVIOUS
  <2>1. k + 1 # 0 /\ k + 1 \in 0 .. w /\ (k + 1) - 1 = k /\ f[k] \in Nat
    BY <1>5
  <2>2. f[k + 1] = g[<<k + 1, f[k]>>]
    <3> HIDE DEF g
    <3> QED BY <1>3, <2>1
  <2>3. g[<<k + 1, f[k]>>] = f[k] + (IF k \in bits THEN Pow2[k] ELSE 0)
    BY <2>1
  <2>4. Pow2[k] \in Nat
    BY Pow2Is
  <2> HIDE DEF g
  <2> QED BY <2>1, <2>2, <2>3, <2>4
<1>6. Nat \subseteq S
  <2> HIDE DEF S
  <2> QED BY <1>4, <1>5, Induction
<1>7. ASSUME NEW k \in 0 .. w
      PROVE  f[k] = IF k = 0 THEN 0
                    ELSE f[k - 1] + (IF k - 1 \in bits THEN Pow2[k - 1] ELSE 0)
  <2>1. CASE k = 0
    <3> HIDE DEF g
    <3> QED BY <2>1, <1>3
  <2>2. CASE k # 0
    <3>1. k - 1 \in Nat /\ f[k - 1] \in Nat /\ k \in Nat
      BY <2>2, <1>6
    <3>2. f[k] = g[<<k, f[k - 1]>>]
      <4> HIDE DEF g
      <4> QED BY <1>3, <2>2
    <3>3. g[<<k, f[k - 1]>>]
            = f[k - 1] + (IF k - 1 \in bits THEN Pow2[k - 1] ELSE 0)
      BY <3>1
    <3> HIDE DEF g
    <3> QED BY <2>2, <3>2, <3>3
  <2> QED BY <2>1, <2>2
<1>8. f = [k \in 0 .. w |-> f[k]]
  <2> HIDE DEF g
  <2> QED BY <1>2
<1>9. \E low : low = [k \in 0 .. w |->
                        IF k = 0 THEN 0
                        ELSE low[k - 1] + (IF k - 1 \in bits THEN Pow2[k - 1] ELSE 0)]
  <2>1. f = [k \in 0 .. w |->
              IF k = 0 THEN 0
              ELSE f[k - 1] + (IF k - 1 \in bits THEN Pow2[k - 1] ELSE 0)]
    <3> HIDE DEF g, S
    <3> QED BY <1>7, <1>8
  <2> QED BY <2>1, Zenon
<1> DEFINE low == CHOOSE low : low = [k \in 0 .. w |->
                        IF k = 0 THEN 0
                        ELSE low[k - 1] + (IF k - 1 \in bits THEN Pow2[k - 1] ELSE 0)]
<1>10. WordOf(bits, size) = low[w]
  BY <1>0 DEF WordOf
<1>11. low = [k \in 0 .. w |->
                IF k = 0 THEN 0
                ELSE low[k - 1] + (IF k - 1 \in bits THEN Pow2[k - 1] ELSE 0)]
  <2> HIDE DEF g, S
  <2> QED BY <1>9, Zenon
<1> HIDE DEF low
<1>12. low[0] = 0
  <2>1. 0 \in 0 .. w
    OBVIOUS
  <2> QED BY <2>1, <1>11
<1>13. ASSUME NEW k \in 0 .. w - 1
       PROVE  low[k + 1] = low[k] + (IF k \in bits THEN Pow2[k] ELSE 0)
  <2>1. k + 1 \in 0 .. w /\ k + 1 # 0 /\ (k + 1) - 1 = k
    OBVIOUS
  <2> QED BY <2>1, <1>11
<1> DEFINE R == {k \in Nat : k <= w => low[k] \in Nat /\ low[k] < Pow2[k]}
<1>14. 0 \in R
  BY <1>12, Pow2Is
<1>15. ASSUME NEW k \in Nat, k \in R PROVE k + 1 \in R
  <2> SUFFICES ASSUME k + 1 <= w
               PROVE  low[k + 1] \in Nat /\ low[k + 1] < Pow2[k + 1]
    OBVIOUS
  <2>1. k \in 0 .. w - 1 /\ low[k] \in Nat /\ low[k] < Pow2[k]
    BY <1>15
  <2>2. Pow2[k] \in Nat /\ Pow2[k + 1] = 2 * Pow2[k]
    BY Pow2Is
  <2> QED BY <2>1, <2>2, <1>13
<1>16. Nat \subseteq R
  <2> HIDE DEF R
  <2> QED BY <1>14, <1>15, Induction
<1>17. \A k \in 0 .. w : low[k] \in Nat /\ low[k] < Pow2[k]
  BY <1>16
<1> QED BY <1>0, <1>10, <1>12, <1>13, <1>17 DEF LowBits

LEMMA WordOfFits ==
  ASSUME NEW bits, NEW size \in Sizes
  PROVE  WordOf(bits, size) \in Words(size)
<1>1. PICK low : LowBits(low, bits, size) /\ WordOf(bits, size) = low[Width(size)]
  BY WordOfIs
<1>2. Width(size) \in 0 .. Width(size)
  BY SpanIs
<1>3. low[Width(size)] \in Nat /\ low[Width(size)] < Pow2[Width(size)]
  BY <1>1, <1>2 DEF LowBits
<1>4. Pow2[Width(size)] = Span(size) /\ Span(size) \in Nat
  BY SpanIs
<1> QED BY <1>1, <1>3, <1>4 DEF Words

\* The complement of a word is the word of the other bits.
LEMMA ComplementIs ==
  ASSUME NEW size \in Sizes, NEW a \in Words(size)
  PROVE  WordOf((0 .. Width(size) - 1) \ BitsOf(a, size), size) = Span(size) - 1 - a
<1> DEFINE others == (0 .. Width(size) - 1) \ BitsOf(a, size)
<1>0. PICK w \in Nat : w = Width(size)
  BY SpanIs
<1>1. PICK low : LowBits(low, others, size) /\ WordOf(others, size) = low[w]
  BY <1>0, WordOfIs
<1>2. \A k \in 0 .. w - 1 : k \in others <=> ~BitAt(a, k)
  BY <1>0 DEF BitsOf
<1> HIDE DEF others
<1>3. /\ low[0] = 0
      /\ \A k \in 0 .. w - 1 : low[k + 1] = low[k] + (IF k \in others THEN Pow2[k] ELSE 0)
  BY <1>0, <1>1 DEF LowBits
<1>4. a \in Nat /\ a < Pow2[w]
  BY <1>0, SpanIs DEF Words
<1> DEFINE S == {k \in Nat : k <= w => low[k] = Pow2[k] - 1 - (a % Pow2[k])}
<1>5. 0 \in S
  <2>1. a % 1 = 0
    BY <1>4
  <2> QED BY <2>1, <1>3, Pow2Is
<1>6. ASSUME NEW k \in Nat, k \in S PROVE k + 1 \in S
  <2> SUFFICES ASSUME k + 1 <= w PROVE low[k + 1] = Pow2[k + 1] - 1 - (a % Pow2[k + 1])
    OBVIOUS
  <2>1. k \in 0 .. w - 1 /\ low[k] = Pow2[k] - 1 - (a % Pow2[k])
    BY <1>6
  <2>2. a % Pow2[k + 1] = (a % Pow2[k]) + (IF BitAt(a, k) THEN Pow2[k] ELSE 0)
    BY <1>4, HalvesAgain
  <2>3. Pow2[k] \in Nat \ {0} /\ Pow2[k + 1] = 2 * Pow2[k]
    BY Pow2Is
  <2>4. a % Pow2[k] \in Nat
    BY <1>4, <2>3
  <2>5. low[k + 1] = low[k] + (IF BitAt(a, k) THEN 0 ELSE Pow2[k])
    BY <2>1, <1>2, <1>3
  <2> QED BY <2>1, <2>2, <2>3, <2>4, <2>5
<1>7. Nat \subseteq S
  <2> HIDE DEF S
  <2> QED BY <1>5, <1>6, Induction
<1>8. low[w] = Pow2[w] - 1 - (a % Pow2[w])
  BY <1>7
<1>9. a % Pow2[w] = a
  <2>1. PICK p \in Nat \ {0} : p = Pow2[w]
    BY Pow2Is
  <2>2. a \in Nat /\ a < p
    BY <1>4, <2>1
  <2>3. a % p = a
    BY <2>2, DivisionOnly, p * 0 + a = a
  <2> QED BY <2>1, <2>3
<1>10. Pow2[w] = Span(size)
  BY <1>0, SpanIs
<1> QED BY <1>1, <1>8, <1>9, <1>10 DEF others

\* A number and its word differ by a multiple of the span.
LEMMA WrapIs ==
  ASSUME NEW size \in Sizes, NEW v \in Int
  PROVE  Wrap(v, size) \in Words(size)
<1>1. PICK s \in Nat \ {0} : s = Span(size)
  BY SpanIs
<1>2. v % s \in Nat /\ v % s < s
  BY DivisionIs
<1> QED BY <1>1, <1>2 DEF Wrap, Words

LEMMA WrapOnly ==
  ASSUME NEW size \in Sizes, NEW q \in Int, NEW r \in Words(size)
  PROVE  /\ Wrap(Span(size) * q + r, size) = r
         /\ (Span(size) * q + r) \div Span(size) = q
<1>1. PICK s \in Nat \ {0} : s = Span(size)
  BY SpanIs
<1>2. r \in Nat /\ r < s
  BY <1>1 DEF Words
<1> QED BY <1>1, <1>2, DivisionOnly DEF Wrap

\* Bit 4 is what the low nibble carries into.
LEMMA NibbleIs ==
  ASSUME NEW v \in Nat
  PROVE  \E h \in Nat, b \in {0, 1}, n \in 0 .. 15 :
           v = 32 * h + 16 * b + n /\ n = v % 16 /\ (BitAt(v, 4) <=> b = 1)
<1>1. Pow2[4] = 16
  <2>1. Pow2[0 + 1] = 2 /\ Pow2[1 + 1] = 4 /\ Pow2[2 + 1] = 8 /\ Pow2[3 + 1] = 16
    BY Pow2Is
  <2> QED BY <2>1
<1>2. BitAt(v, 4) <=> (v \div 16) % 2 = 1
  BY <1>1 DEF BitAt
<1> DEFINE h == (v \div 16) \div 2
           b == (v \div 16) % 2
           n == v % 16
<1>3. h \in Nat /\ b \in {0, 1} /\ n \in 0 .. 15 /\ v = 32 * h + 16 * b + n
  OBVIOUS
<1> QED BY <1>2, <1>3

\* Carries out of the low nibble show in bit 4 of the operands and the result.
LEMMA HalfCarry ==
  ASSUME NEW a \in Nat, NEW b \in Nat, NEW r \in Nat, NEW c \in {0, 1}, NEW k \in Int,
         r = a + b + c - 32 * k
  PROVE  Half(a, b, r) <=> (a % 16) + (b % 16) + c >= 16
<1>1. PICK ha \in Nat, ba \in {0, 1}, na \in 0 .. 15 :
        a = 32 * ha + 16 * ba + na /\ na = a % 16 /\ (BitAt(a, 4) <=> ba = 1)
  BY NibbleIs
<1>2. PICK hb \in Nat, bb \in {0, 1}, nb \in 0 .. 15 :
        b = 32 * hb + 16 * bb + nb /\ nb = b % 16 /\ (BitAt(b, 4) <=> bb = 1)
  BY NibbleIs
<1>3. PICK hr \in Nat, br \in {0, 1}, nr \in 0 .. 15 :
        r = 32 * hr + 16 * br + nr /\ nr = r % 16 /\ (BitAt(r, 4) <=> br = 1)
  BY NibbleIs
<1>4. PICK z \in Int : z = ha + hb - k - hr
  OBVIOUS
<1>5. 32 * z + 16 * (ba + bb - br) + (na + nb + c - nr) = 0
  BY <1>1, <1>2, <1>3, <1>4
<1>6. ((ba = 1) # (bb = 1)) # (br = 1) <=> na + nb + c >= 16
  BY <1>5
<1>7. Half(a, b, r) <=> ((ba = 1) # (bb = 1)) # (br = 1)
  BY <1>1, <1>2, <1>3 DEF Half, BitAt
<1> QED BY <1>1, <1>2, <1>6, <1>7

LEMMA HalfBorrow ==
  ASSUME NEW a \in Nat, NEW b \in Nat, NEW r \in Nat, NEW c \in {0, 1}, NEW k \in Int,
         r = a - b - c + 32 * k
  PROVE  Half(a, b, r) <=> a % 16 < (b % 16) + c
<1>1. PICK ha \in Nat, ba \in {0, 1}, na \in 0 .. 15 :
        a = 32 * ha + 16 * ba + na /\ na = a % 16 /\ (BitAt(a, 4) <=> ba = 1)
  BY NibbleIs
<1>2. PICK hb \in Nat, bb \in {0, 1}, nb \in 0 .. 15 :
        b = 32 * hb + 16 * bb + nb /\ nb = b % 16 /\ (BitAt(b, 4) <=> bb = 1)
  BY NibbleIs
<1>3. PICK hr \in Nat, br \in {0, 1}, nr \in 0 .. 15 :
        r = 32 * hr + 16 * br + nr /\ nr = r % 16 /\ (BitAt(r, 4) <=> br = 1)
  BY NibbleIs
<1>4. PICK z \in Int : z = ha - hb + k - hr
  OBVIOUS
<1>5. 32 * z + 16 * (ba - bb - br) + (na - nb - c - nr) = 0
  BY <1>1, <1>2, <1>3, <1>4
<1>6. ((ba = 1) # (bb = 1)) # (br = 1) <=> na < nb + c
  BY <1>5
<1>7. Half(a, b, r) <=> ((ba = 1) # (bb = 1)) # (br = 1)
  BY <1>1, <1>2, <1>3 DEF Half, BitAt
<1> QED BY <1>1, <1>2, <1>6, <1>7

-----------------------------------------------------------------------------
(* Sums and differences *)

LEMMA SpanBy32 == ASSUME NEW size \in Sizes PROVE \E k \in Nat : Span(size) = 32 * k
<1>1. Pow2[5] = 32
  <2>1. /\ Pow2[0 + 1] = 2 /\ Pow2[1 + 1] = 4 /\ Pow2[2 + 1] = 8 /\ Pow2[3 + 1] = 16
        /\ Pow2[4 + 1] = 32
    BY Pow2Is
  <2> QED BY <2>1
<1>2. PICK w \in Nat : w = Width(size) /\ w >= 5 /\ Span(size) = Pow2[w]
  BY SpanIs
<1>3. 5 \in 0 .. w
  BY <1>2
<1>4. Pow2[w] = Pow2[5] * Pow2[w - 5] /\ Pow2[w - 5] \in Nat
  BY <1>3, Pow2Splits
<1> QED BY <1>1, <1>2, <1>4

\* The word of a number less than a span away from the words.
LEMMA WrapWithin ==
  ASSUME NEW size \in Sizes, NEW v \in Int, -Span(size) <= v, v < 2 * Span(size)
  PROVE  Wrap(v, size) = IF v < 0 THEN v + Span(size)
                         ELSE IF v < Span(size) THEN v ELSE v - Span(size)
<1>1. PICK s \in Nat \ {0} : s = Span(size)
  BY SpanIs
<1>2. CASE v < 0
  <2>1. v + s \in Words(size) /\ v = s * (-1) + (v + s)
    BY <1>1, <1>2 DEF Words
  <2> QED BY <1>1, <1>2, <2>1, WrapOnly
<1>3. CASE 0 <= v /\ v < s
  <2>1. v \in Words(size) /\ v = s * 0 + v
    BY <1>1, <1>3 DEF Words
  <2> QED BY <1>1, <1>3, <2>1, WrapOnly
<1>4. CASE s <= v
  <2>1. v - s \in Words(size) /\ v = s * 1 + (v - s)
    BY <1>1, <1>4 DEF Words
  <2> QED BY <1>1, <1>4, <2>1, WrapOnly
<1> QED BY <1>1, <1>2, <1>3, <1>4

Fits(z, size) == -Top(size) <= z /\ z < Top(size)

\* compute_add and compute_adc: the flags of a sum, from one operand and the
\* result (flags.cpp).
LEMMA SumFlags ==
  ASSUME NEW size \in Sizes, NEW a \in Words(size), NEW b \in Words(size),
         NEW c \in {0, 1}, NEW r, r = Wrap(a + b + c, size)
  PROVE  ComputeAdd(size, b, r, c)
           = ZSP(size, r)
             \cup On("CF", a + b + c >= Span(size))
             \cup On("OF", ~Fits(Signed(a, size) + Signed(b, size) + c, size))
             \cup On("AF", (a % 16) + (b % 16) + c >= 16)
<1>1. PICK t \in Nat \ {0} : t = Top(size) /\ Span(size) = 2 * t
  BY SpanIs
<1>2. a \in Nat /\ b \in Nat /\ c \in Nat /\ a < 2 * t /\ b < 2 * t
  BY <1>1 DEF Words
<1>3. r = IF a + b + c < 2 * t THEN a + b + c ELSE a + b + c - 2 * t
  BY <1>1, <1>2, WrapWithin
<1>4. r \in Nat /\ r < 2 * t
  BY <1>2, <1>3
<1>5. Wrap(r - b - c, size) = a
  <2>1. CASE r = a + b + c
    <3>1. r - b - c = a
      BY <2>1, <1>2
    <3> QED BY <3>1, <1>1, <1>2, WrapWithin
  <2>2. CASE r = a + b + c - 2 * t
    <3>1. r - b - c = a - 2 * t
      BY <2>2, <1>2
    <3>2. a - 2 * t \in Int /\ -2 * t <= a - 2 * t /\ a - 2 * t < 0
      BY <1>1, <1>2
    <3>3. Wrap(a - 2 * t, size) = (a - 2 * t) + 2 * t
      BY <3>2, <1>1, WrapWithin
    <3> QED BY <3>1, <3>3, <1>2
  <2> QED BY <2>1, <2>2, <1>3
<1>6. (r < b + c) <=> a + b + c >= Span(size)
  BY <1>1, <1>2, <1>3
<1>7. /\ Signed(a, size) = IF a >= t THEN a - 2 * t ELSE a
      /\ Signed(b, size) = IF b >= t THEN b - 2 * t ELSE b
      /\ Sign(a, size) <=> a >= t
      /\ Sign(b, size) <=> b >= t
      /\ Sign(r, size) <=> r >= t
  BY <1>1 DEF Signed, Sign
<1>8. (((a >= t) # (r >= t)) /\ ((b >= t) # (r >= t)))
        <=> ~Fits(Signed(a, size) + Signed(b, size) + c, size)
  BY <1>1, <1>2, <1>3, <1>7 DEF Fits
<1>9. Half(a, b, r) <=> (a % 16) + (b % 16) + c >= 16
  <2>1. PICK k \in Nat : 2 * t = 32 * k
    BY <1>1, SpanBy32
  <2>2. PICK j \in Int : r = a + b + c - 32 * j
    <3>1. CASE r = a + b + c
      <4>1. r = a + b + c - 32 * 0
        BY <3>1, <1>2
      <4> QED BY <4>1
    <3>2. CASE r = a + b + c - 2 * t
      <4>1. r = a + b + c - 32 * k
        BY <3>2, <2>1
      <4> QED BY <4>1
    <3> QED BY <3>1, <3>2, <1>3
  <2> QED BY <2>2, <1>2, <1>4, HalfCarry
<1>10. (Sign(a, size) # Sign(r, size) /\ Sign(b, size) # Sign(r, size))
         <=> ~Fits(Signed(a, size) + Signed(b, size) + c, size)
  BY <1>1, <1>8 DEF Sign
<1>11. ComputeAdd(size, b, r, c)
         = ZSP(size, r) \cup On("CF", r < b + c)
           \cup On("OF", Sign(a, size) # Sign(r, size) /\ Sign(b, size) # Sign(r, size))
           \cup On("AF", Half(a, b, r))
  BY <1>5, Zenon DEF ComputeAdd
<1> QED BY <1>6, <1>9, <1>10, <1>11 DEF On

\* compute_sub and compute_sbb.
LEMMA DifferenceFlags ==
  ASSUME NEW size \in Sizes, NEW a \in Words(size), NEW b \in Words(size),
         NEW c \in {0, 1}, NEW r, r = Wrap(a - b - c, size)
  PROVE  ComputeSub(size, b, r, c)
           = ZSP(size, r)
             \cup On("CF", a - b - c < 0)
             \cup On("OF", ~Fits(Signed(a, size) - Signed(b, size) - c, size))
             \cup On("AF", a % 16 < (b % 16) + c)
<1>1. PICK t \in Nat \ {0} : t = Top(size) /\ Span(size) = 2 * t
  BY SpanIs
<1>2. a \in Nat /\ b \in Nat /\ c \in Nat /\ a < 2 * t /\ b < 2 * t
  BY <1>1 DEF Words
<1>3. r = IF a - b - c < 0 THEN a - b - c + 2 * t ELSE a - b - c
  BY <1>1, <1>2, WrapWithin
<1>4. r \in Nat /\ r < 2 * t
  BY <1>2, <1>3
<1>5. Wrap(r + b + c, size) = a
  <2>1. CASE r = a - b - c
    <3>1. r + b + c = a
      BY <2>1, <1>2
    <3> QED BY <3>1, <1>1, <1>2, WrapWithin
  <2>2. CASE r = a - b - c + 2 * t
    <3>1. r + b + c = a + 2 * t
      BY <2>2, <1>2
    <3>2. a + 2 * t \in Int /\ 2 * t <= a + 2 * t /\ a + 2 * t < 2 * (2 * t)
      BY <1>1, <1>2
    <3>3. Wrap(a + 2 * t, size) = (a + 2 * t) - 2 * t
      BY <3>2, <1>1, WrapWithin
    <3> QED BY <3>1, <3>3, <1>2
  <2> QED BY <2>1, <2>2, <1>3
<1>6. (a < b + c) <=> a - b - c < 0
  BY <1>2
<1>7. /\ Signed(a, size) = IF a >= t THEN a - 2 * t ELSE a
      /\ Signed(b, size) = IF b >= t THEN b - 2 * t ELSE b
      /\ Sign(a, size) <=> a >= t
      /\ Sign(b, size) <=> b >= t
      /\ Sign(r, size) <=> r >= t
  BY <1>1 DEF Signed, Sign
<1>8. (((a >= t) # (b >= t)) /\ ((a >= t) # (r >= t)))
        <=> ~Fits(Signed(a, size) - Signed(b, size) - c, size)
  BY <1>1, <1>2, <1>3, <1>7 DEF Fits
<1>9. Half(a, b, r) <=> a % 16 < (b % 16) + c
  <2>1. PICK k \in Nat : 2 * t = 32 * k
    BY <1>1, SpanBy32
  <2>2. PICK j \in Int : r = a - b - c + 32 * j
    <3>1. CASE r = a - b - c
      <4>1. r = a - b - c + 32 * 0 /\ 0 \in Int
        BY <3>1, <1>2
      <4> QED BY <4>1, Zenon
    <3>2. CASE r = a - b - c + 2 * t
      <4>1. r = a - b - c + 32 * k
        BY <3>2, <2>1
      <4> QED BY <4>1
    <3> QED BY <3>1, <3>2, <1>3
  <2> QED BY <2>2, <1>2, <1>4, HalfBorrow
<1>10. (Sign(a, size) # Sign(b, size) /\ Sign(a, size) # Sign(r, size))
         <=> ~Fits(Signed(a, size) - Signed(b, size) - c, size)
  BY <1>1, <1>8 DEF Sign
<1>11. ComputeSub(size, b, r, c)
         = ZSP(size, r) \cup On("CF", a < b + c)
           \cup On("OF", Sign(a, size) # Sign(b, size) /\ Sign(a, size) # Sign(r, size))
           \cup On("AF", Half(a, b, r))
  BY <1>5, Zenon DEF ComputeSub
<1> QED BY <1>6, <1>9, <1>10, <1>11 DEF On

LEMMA OneIs ==
  ASSUME NEW size \in Sizes
  PROVE  /\ 1 \in Words(size) /\ Signed(1, size) = 1 /\ 1 % 16 = 1 /\ ~BitAt(1, 4)
         /\ 0 \in Words(size)
<1>1. PICK t \in Nat \ {0} : t = Top(size) /\ Span(size) = 2 * t /\ t >= 128
  BY SpanIs
<1>2. PICK h \in Nat, b \in {0, 1}, n \in 0 .. 15 :
        1 = 32 * h + 16 * b + n /\ n = 1 % 16 /\ (BitAt(1, 4) <=> b = 1)
  BY NibbleIs
<1>3. b = 0 /\ n = 1
  BY <1>2
<1> QED BY <1>1, <1>2, <1>3 DEF Words, Signed, Sign

\* compute_inc and compute_dec: a sum and a difference that leave CF.
LEMMA IncFlags ==
  ASSUME NEW size \in Sizes, NEW a \in Words(size), NEW cf,
         NEW r, r = Wrap(a + 1, size)
  PROVE  ComputeInc(size, cf, r)
           = ZSP(size, r) \cup On("CF", cf)
             \cup On("OF", ~Fits(Signed(a, size) + Signed(1, size) + 0, size))
             \cup On("AF", (a % 16) + (1 % 16) + 0 >= 16)
<1>1. PICK t \in Nat \ {0} : t = Top(size) /\ Span(size) = 2 * t /\ t >= 128
  BY SpanIs
<1>2. a \in Nat /\ a < 2 * t
  BY <1>1 DEF Words
<1>3. r = (IF a + 1 < 2 * t THEN a + 1 ELSE 0) /\ r \in Nat /\ r < 2 * t
  BY <1>1, <1>2, WrapWithin
<1>4. Wrap(r - 1, size) = a
  <2>1. CASE r = a + 1
    <3>1. r - 1 = a
      BY <2>1, <1>2
    <3> QED BY <3>1, <1>1, <1>2, WrapWithin
  <2>2. CASE r = 0 /\ a = 2 * t - 1
    <3>1. r - 1 = -1
      BY <2>2
    <3>2. Wrap(-1, size) = -1 + 2 * t
      BY <1>1, WrapWithin
    <3> QED BY <3>1, <3>2, <2>2, <1>1
  <2> QED BY <2>1, <2>2, <1>2, <1>3
<1>5. Signed(a, size) = IF a >= t THEN a - 2 * t ELSE a
  BY <1>1 DEF Signed, Sign
<1>6. (a = Top(size) - 1 /\ Sign(r, size))
        <=> ~Fits(Signed(a, size) + Signed(1, size) + 0, size)
  BY <1>1, <1>2, <1>3, <1>5, OneIs DEF Fits, Sign
<1>7. Half(a, 1, r) <=> (a % 16) + (1 % 16) + 0 >= 16
  <2>1. PICK k \in Nat : 2 * t = 32 * k
    BY <1>1, SpanBy32
  <2>2. PICK j \in Int : r = a + 1 + 0 - 32 * j
    <3>1. CASE r = a + 1
      <4>1. r = a + 1 + 0 - 32 * 0 /\ 0 \in Int
        BY <3>1, <1>2
      <4> QED BY <4>1, Zenon
    <3>2. CASE r = 0 /\ a = 2 * t - 1
      <4>1. r = a + 1 + 0 - 32 * k
        BY <3>2, <2>1
      <4> QED BY <4>1
    <3> QED BY <3>1, <3>2, <1>2, <1>3
  <2> QED BY <2>2, <1>2, <1>3, HalfCarry
<1>8. (BitAt(a, 4) # BitAt(r, 4)) <=> (a % 16) + (1 % 16) + 0 >= 16
  BY <1>7, OneIs DEF Half, BitAt
<1>9. ComputeInc(size, cf, r)
        = ZSP(size, r) \cup On("CF", cf)
          \cup On("OF", a = Top(size) - 1 /\ Sign(r, size))
          \cup On("AF", BitAt(a, 4) # BitAt(r, 4))
  BY <1>4, Zenon DEF ComputeInc
<1> QED BY <1>6, <1>8, <1>9 DEF On

LEMMA DecFlags ==
  ASSUME NEW size \in Sizes, NEW a \in Words(size), NEW cf,
         NEW r, r = Wrap(a - 1, size)
  PROVE  ComputeDec(size, cf, r)
           = ZSP(size, r) \cup On("CF", cf)
             \cup On("OF", ~Fits(Signed(a, size) - Signed(1, size) - 0, size))
             \cup On("AF", a % 16 < (1 % 16) + 0)
<1>1. PICK t \in Nat \ {0} : t = Top(size) /\ Span(size) = 2 * t /\ t >= 128
  BY SpanIs
<1>2. a \in Nat /\ a < 2 * t
  BY <1>1 DEF Words
<1>3. r = (IF a = 0 THEN 2 * t - 1 ELSE a - 1) /\ r \in Nat /\ r < 2 * t
  BY <1>1, <1>2, WrapWithin
<1>4. Wrap(r + 1, size) = a
  <2>1. CASE r = a - 1
    <3>1. r + 1 = a
      BY <2>1, <1>2
    <3> QED BY <3>1, <1>1, <1>2, WrapWithin
  <2>2. CASE r = 2 * t - 1 /\ a = 0
    <3>1. r + 1 = 2 * t
      BY <2>2
    <3>2. Wrap(2 * t, size) = 2 * t - 2 * t
      BY <1>1, WrapWithin
    <3> QED BY <3>1, <3>2, <2>2, <1>1
  <2> QED BY <2>1, <2>2, <1>2, <1>3
<1>5. Signed(a, size) = IF a >= t THEN a - 2 * t ELSE a
  BY <1>1 DEF Signed, Sign
<1>6. (a = Top(size) /\ ~Sign(r, size))
        <=> ~Fits(Signed(a, size) - Signed(1, size) - 0, size)
  BY <1>1, <1>2, <1>3, <1>5, OneIs DEF Fits, Sign
<1>7. Half(a, 1, r) <=> a % 16 < (1 % 16) + 0
  <2>1. PICK k \in Nat : 2 * t = 32 * k
    BY <1>1, SpanBy32
  <2>2. PICK j \in Int : r = a - 1 - 0 + 32 * j
    <3>1. CASE r = a - 1
      <4>1. r = a - 1 - 0 + 32 * 0 /\ 0 \in Int
        BY <3>1, <1>2
      <4> QED BY <4>1, Zenon
    <3>2. CASE r = 2 * t - 1 /\ a = 0
      <4>1. r = a - 1 - 0 + 32 * k
        BY <3>2, <2>1
      <4> QED BY <4>1
    <3> QED BY <3>1, <3>2, <1>2, <1>3
  <2> QED BY <2>2, <1>2, <1>3, HalfBorrow
<1>8. (BitAt(a, 4) # BitAt(r, 4)) <=> a % 16 < (1 % 16) + 0
  BY <1>7, OneIs DEF Half, BitAt
<1>9. ComputeDec(size, cf, r)
        = ZSP(size, r) \cup On("CF", cf)
          \cup On("OF", a = Top(size) /\ ~Sign(r, size))
          \cup On("AF", BitAt(a, 4) # BitAt(r, 4))
  BY <1>4, Zenon DEF ComputeDec
<1> QED BY <1>6, <1>8, <1>9 DEF On

\* compute_neg: CF and OF of the difference 0 - a.
LEMMA NegFlags ==
  ASSUME NEW size \in Sizes, NEW a \in Words(size)
  PROVE  /\ a # 0 <=> a > 0
         /\ a = Top(size) <=> ~Fits(-Signed(a, size), size)
         /\ Wrap(Span(size) - a, size) = Wrap(-a, size)
<1>1. PICK t \in Nat \ {0} : t = Top(size) /\ Span(size) = 2 * t /\ t >= 128
  BY SpanIs
<1>2. a \in Nat /\ a < 2 * t
  BY <1>1 DEF Words
<1>3. Signed(a, size) = IF a >= t THEN a - 2 * t ELSE a
  BY <1>1 DEF Signed, Sign
<1>4. Wrap(2 * t - a, size) = Wrap(-a, size)
  <2>1. CASE a = 0
    <3>1. 2 * t - a = 2 * t
      BY <2>1, <1>1
    <3>2. Wrap(2 * t, size) = 2 * t - 2 * t
      BY <1>1, WrapWithin
    <3>3. PICK z \in Int : z = -a /\ z = 0
      BY <2>1, <1>2
    <3>4. Wrap(z, size) = z
      BY <3>3, <1>1, WrapWithin
    <3> QED BY <3>1, <3>2, <3>3, <3>4, <1>1
  <2>2. CASE a > 0
    <3>1. Wrap(2 * t - a, size) = 2 * t - a /\ Wrap(-a, size) = -a + 2 * t
      BY <2>2, <1>1, <1>2, WrapWithin
    <3> QED BY <3>1, <1>2
  <2> QED BY <2>1, <2>2, <1>2
<1> QED BY <1>1, <1>2, <1>3, <1>4 DEF Fits

-----------------------------------------------------------------------------
(* Products and quotients *)

LEMMA SignedIs ==
  ASSUME NEW size \in Sizes, NEW a \in Words(size)
  PROVE  Signed(a, size) \in Int /\ Fits(Signed(a, size), size)
         /\ (Signed(a, size) = 0 <=> a = 0)
<1>1. PICK t \in Nat \ {0} : t = Top(size) /\ Span(size) = 2 * t
  BY SpanIs
<1>2. a \in Nat /\ a < 2 * t
  BY <1>1 DEF Words
<1>3. Signed(a, size) = IF a >= t THEN a - 2 * t ELSE a
  BY <1>1 DEF Signed, Sign
<1> QED BY <1>1, <1>2, <1>3 DEF Fits

\* A number is its word read with sign when it fits, and only then.
LEMMA SignedOfWord ==
  ASSUME NEW size \in Sizes, NEW v \in Int
  PROVE  Signed(Wrap(v, size), size) = v <=> Fits(v, size)
<1>1. PICK t \in Nat \ {0} : t = Top(size) /\ Span(size) = 2 * t
  BY SpanIs
<1>2. CASE Fits(v, size)
  <2>1. -t <= v /\ v < t
    BY <1>1, <1>2 DEF Fits
  <2>2. Wrap(v, size) = IF v < 0 THEN v + 2 * t ELSE v
    BY <1>1, <2>1, WrapWithin
  <2>3. PICK z : z = Wrap(v, size)
    OBVIOUS
  <2>4. Signed(z, size) = IF z >= t THEN z - 2 * t ELSE z
    BY <1>1 DEF Signed, Sign
  <2> QED BY <1>1, <1>2, <2>1, <2>2, <2>3, <2>4
<1>3. CASE ~Fits(v, size)
  BY <1>3, WrapIs, SignedIs
<1> QED BY <1>2, <1>3

\* The words of a product: mul_unsigned and mul_signed of every width.
LEMMA UpperWord ==
  ASSUME NEW size \in Sizes, NEW p \in Int
  PROVE  (p - Wrap(p, size)) \div Span(size) = p \div Span(size)
<1>1. PICK s \in Nat \ {0} : s = Span(size)
  BY SpanIs
<1>2. PICK q \in Int : q = p \div s
  BY DivisionIs
<1>3. PICK r \in Nat : r = p % s /\ p = s * q + r
  BY <1>2, DivisionIs
<1>4. p - r = s * q + 0 /\ 0 \in Nat /\ 0 < s
  BY <1>3
<1>5. (s * q + 0) \div s = q
  BY <1>4, DivisionOnly
<1> QED BY <1>1, <1>2, <1>3, <1>4, <1>5 DEF Wrap

LEMMA ProductWords ==
  ASSUME NEW size \in Sizes, NEW a \in Words(size), NEW b \in Words(size)
  PROVE  LET hi == (a * b) \div Span(size)
         IN  a * b \in Nat /\ Wrap(hi, size) = hi /\ (hi # 0 <=> a * b >= Span(size))
<1>1. PICK s \in Nat \ {0} : s = Span(size)
  BY SpanIs
<1>2. a \in Nat /\ b \in Nat /\ a < s /\ b < s
  BY <1>1 DEF Words
<1>3. PICK p \in Nat : p = a * b
  BY <1>2
<1>4. PICK q \in Int : q = p \div s
  BY DivisionIs
<1>5. PICK r \in Nat : p = s * q + r /\ r < s
  <2>1. p % s \in Nat /\ p % s < s /\ p = s * (p \div s) + (p % s)
    BY DivisionIs
  <2> QED BY <2>1, <1>4
<1>6. p < s * s
  <2>1. a * b <= a * s
    BY <1>2
  <2>2. a * s < s * s
    BY <1>2
  <2>3. a * s \in Int /\ s * s \in Int
    BY <1>2
  <2> QED BY <1>3, <2>1, <2>2, <2>3
<1>7. 0 <= q
  <2> SUFFICES ASSUME q <= -1 PROVE FALSE
    OBVIOUS
  <2>1. s * q <= s * (-1)
    OBVIOUS
  <2> QED BY <2>1, <1>5
<1>8. q < s
  <2> SUFFICES ASSUME q >= s PROVE FALSE
    OBVIOUS
  <2>1. s * q >= s * s
    OBVIOUS
  <2> QED BY <2>1, <1>5, <1>6
<1>9. q # 0 <=> p >= s
  <2>1. q = 0 => s * q = 0
    OBVIOUS
  <2>2. q >= 1 => s * q >= s
    OBVIOUS
  <2> QED BY <2>1, <2>2, <1>5, <1>7
<1>10. Wrap(q, size) = q
  BY <1>1, <1>7, <1>8, WrapWithin
<1>11. (a * b) \div Span(size) = q
  BY <1>1, <1>3, <1>4
<1> QED BY <1>1, <1>3, <1>9, <1>10, <1>11

\* The quotient toward zero of x by y, as the remainder it leaves tells it.
Truncates(q, x, y) ==
  LET m == x - q * y
      d == IF y < 0 THEN -y ELSE y
  IN  IF x < 0 THEN -d < m /\ m <= 0 ELSE 0 <= m /\ m < d

LEMMA QuotIs ==
  ASSUME NEW x \in Int, NEW y \in Int, y # 0
  PROVE  Quot(x, y) \in Int /\ Truncates(Quot(x, y), x, y)
<1>1. PICK u \in Nat : u = IF x < 0 THEN -x ELSE x
  <2>1. (IF x < 0 THEN -x ELSE x) \in Nat
    OBVIOUS
  <2> QED BY <2>1
<1>2. PICK d \in Nat \ {0} : d = IF y < 0 THEN -y ELSE y
  <2>1. (IF y < 0 THEN -y ELSE y) \in Nat \ {0}
    OBVIOUS
  <2> QED BY <2>1
<1>3. PICK k \in Int : k = u \div d
  BY DivisionIs
<1>4. PICK r \in Nat : r < d /\ u = d * k + r
  BY <1>3, DivisionIs
<1>5. Quot(x, y) = IF (x < 0) = (y < 0) THEN k ELSE -k
  BY <1>1, <1>2, <1>3 DEF Quot
<1>6. CASE x >= 0 /\ y > 0
  <2>1. Quot(x, y) = k /\ u = x /\ d = y /\ k * y = d * k
    BY <1>6, <1>1, <1>2, <1>5
  <2> QED BY <2>1, <1>4, <1>6 DEF Truncates
<1>7. CASE x >= 0 /\ y < 0
  <2>1. Quot(x, y) = -k /\ u = x /\ d = -y /\ (-k) * y = d * k
    BY <1>7, <1>1, <1>2, <1>5
  <2> QED BY <2>1, <1>4, <1>7 DEF Truncates
<1>8. CASE x < 0 /\ y > 0
  <2>1. Quot(x, y) = -k /\ u = -x /\ d = y /\ (-k) * y = -(d * k)
    BY <1>8, <1>1, <1>2, <1>5
  <2> QED BY <2>1, <1>4, <1>8 DEF Truncates
<1>9. CASE x < 0 /\ y < 0
  <2>1. Quot(x, y) = k /\ u = -x /\ d = -y /\ k * y = -(d * k)
    BY <1>9, <1>1, <1>2, <1>5
  <2> QED BY <2>1, <1>4, <1>9 DEF Truncates
<1> QED BY <1>6, <1>7, <1>8, <1>9

LEMMA TruncatesOnce ==
  ASSUME NEW x \in Int, NEW y \in Int, y # 0, NEW q \in Int, NEW p \in Int,
         Truncates(q, x, y), Truncates(p, x, y)
  PROVE  q = p
<1>1. PICK d \in Nat \ {0} : d = IF y < 0 THEN -y ELSE y
  <2>1. (IF y < 0 THEN -y ELSE y) \in Nat \ {0}
    OBVIOUS
  <2> QED BY <2>1
<1>2. PICK z \in Int : z = q - p
  OBVIOUS
<1>3. PICK m \in Int : m = x - q * y
  OBVIOUS
<1>4. PICK n \in Int : n = x - p * y
  OBVIOUS
<1>5. z * y = n - m
  <2>1. (q - p) * y = q * y - p * y
    OBVIOUS
  <2>2. q * y \in Int /\ p * y \in Int
    OBVIOUS
  <2> QED BY <2>1, <2>2, <1>2, <1>3, <1>4
<1>6. n - m < d /\ m - n < d
  BY <1>1, <1>3, <1>4 DEF Truncates
<1>7. z < 1
  <2> SUFFICES ASSUME z >= 1 PROVE FALSE
    BY <1>2
  <2>1. CASE y > 0
    <3>1. z * y >= y /\ z * y \in Int
      BY <2>1
    <3> QED BY <3>1, <2>1, <1>1, <1>5, <1>6
  <2>2. CASE y < 0
    <3>1. z * y <= y /\ z * y \in Int
      BY <2>2
    <3> QED BY <3>1, <2>2, <1>1, <1>5, <1>6
  <2> QED BY <2>1, <2>2
<1>8. z > -1
  <2> SUFFICES ASSUME z <= -1 PROVE FALSE
    BY <1>2
  <2>1. CASE y > 0
    <3>1. z * y <= -y /\ z * y \in Int
      BY <2>1
    <3> QED BY <3>1, <2>1, <1>1, <1>5, <1>6
  <2>2. CASE y < 0
    <3>1. z * y >= -y /\ z * y \in Int
      BY <2>2
    <3> QED BY <3>1, <2>2, <1>1, <1>5, <1>6
  <2> QED BY <2>1, <2>2
<1> QED BY <1>2, <1>7, <1>8

LEMMA FloorTruncates ==
  ASSUME NEW x \in Nat, NEW y \in Nat \ {0}
  PROVE  /\ x \div y \in Nat /\ Truncates(x \div y, x, y)
         /\ x - (x \div y) * y = x % y
<1>1. PICK q \in Nat : q = x \div y
  OBVIOUS
<1>2. PICK r \in Nat : r = x % y /\ r < y /\ x = y * q + r
  BY <1>1, DivisionIs
<1>3. q * y = y * q /\ y * q \in Int
  OBVIOUS
<1> QED BY <1>1, <1>2, <1>3 DEF Truncates

-----------------------------------------------------------------------------
(* Shifts and rotates, one bit at a time and at once *)

\* The next remainder of a count.
LEMMA NextRemainder ==
  ASSUME NEW k \in Nat, NEW w \in Nat \ {0}
  PROVE  (k + 1) % w = IF (k % w) + 1 = w THEN 0 ELSE (k % w) + 1
<1>1. PICK q \in Int : q = k \div w
  BY DivisionIs
<1>2. PICK m \in Nat : m = k % w /\ m < w /\ k = w * q + m
  <2>1. k % w \in Nat /\ k % w < w /\ k = w * q + (k % w)
    BY <1>1, DivisionIs
  <2> QED BY <2>1
<1>3. CASE m + 1 = w
  <2>1. k + 1 = w * (q + 1) + 0
    BY <1>2, <1>3
  <2>2. (w * (q + 1) + 0) % w = 0
    BY DivisionOnly
  <2> QED BY <2>1, <2>2, <1>2, <1>3
<1>4. CASE m + 1 # w
  <2>1. PICK r \in Nat : r = m + 1 /\ r < w
    <3>1. m + 1 \in Nat /\ m + 1 < w
      BY <1>2, <1>4
    <3> QED BY <3>1
  <2>2. k + 1 = w * q + r
    BY <2>1, <1>2
  <2>3. (w * q + r) % w = r
    BY <2>1, DivisionOnly
  <2> QED BY <2>1, <2>2, <2>3, <1>2, <1>4
<1> QED BY <1>3, <1>4

\* The bits of u, of w bits, turned to the left or to the right by m.
TurnedLeft(u, m, w) == (u % Pow2[w - m]) * Pow2[m] + (u \div Pow2[w - m])
TurnedRight(u, m, w) == (u \div Pow2[m]) + (u % Pow2[m]) * Pow2[w - m]

LEMMA TurnedLeftAgain ==
  ASSUME NEW w \in Nat \ {0}, NEW u \in Nat, u < Pow2[w], NEW m \in 0 .. w - 1
  PROVE  LET x == TurnedLeft(u, m, w)
         IN  /\ x \in Nat /\ x < Pow2[w]
             /\ TurnedLeft(u, m + 1, w)
                  = IF x >= Pow2[w - 1] THEN 2 * x - Pow2[w] + 1 ELSE 2 * x
<1>1. PICK p \in Nat \ {0} : p = Pow2[w - (m + 1)]
  <2>1. w - (m + 1) \in Nat
    OBVIOUS
  <2> QED BY <2>1, Pow2Is
<1>2. PICK q \in Nat \ {0} : q = Pow2[m]
  BY Pow2Is
<1>3. Pow2[w - m] = 2 * p /\ Pow2[m + 1] = 2 * q
  <2>1. w - (m + 1) \in Nat /\ (w - (m + 1)) + 1 = w - m
    OBVIOUS
  <2> QED BY <2>1, <1>1, <1>2, Pow2Is
<1>4. PICK t \in Nat : t = p * q /\ Pow2[w - 1] = t /\ Pow2[w] = 2 * t
  <2>1. w - 1 \in Nat /\ m \in 0 .. w - 1 /\ (w - 1) - m = w - (m + 1) /\ (w - 1) + 1 = w
    OBVIOUS
  <2>2. Pow2[w - 1] = Pow2[m] * Pow2[(w - 1) - m]
    BY <2>1, Pow2Splits
  <2>3. Pow2[w] = 2 * Pow2[w - 1]
    BY <2>1, Pow2Is
  <2>4. q * p = p * q /\ p * q \in Nat
    OBVIOUS
  <2> QED BY <2>1, <2>2, <2>3, <2>4, <1>1, <1>2
<1>5. /\ u \div Pow2[(w - (m + 1)) + 1] = (u \div p) \div 2
      /\ u % Pow2[(w - (m + 1)) + 1] = (u % p) + (IF BitAt(u, w - (m + 1)) THEN p ELSE 0)
      /\ BitAt(u, w - (m + 1)) <=> (u \div p) % 2 = 1
  <2>1. w - (m + 1) \in Nat
    OBVIOUS
  <2> QED BY <2>1, <1>1, HalvesAgain DEF BitAt
<1>6. PICK h \in Nat : h = u \div p
  OBVIOUS
<1>7. PICK l \in Nat : l = u % p /\ l < p
  BY DivisionIs
<1>8. PICK h2 \in Nat, b \in {0, 1} : h = 2 * h2 + b /\ h2 = h \div 2 /\ b = h % 2
  <2>1. h \div 2 \in Nat /\ h % 2 \in {0, 1} /\ h = 2 * (h \div 2) + (h % 2)
    OBVIOUS
  <2> QED BY <2>1
<1>9. TurnedLeft(u, m + 1, w) = l * (2 * q) + h
  BY <1>1, <1>3, <1>6, <1>7 DEF TurnedLeft
<1>10. TurnedLeft(u, m, w) = (l + b * p) * q + h2
  <2>1. w - m = (w - (m + 1)) + 1
    OBVIOUS
  <2>2. u \div Pow2[w - m] = h2 /\ u % Pow2[w - m] = l + b * p
    BY <2>1, <1>5, <1>6, <1>7, <1>8
  <2> QED BY <2>2, <1>2 DEF TurnedLeft
<1>11. PICK e \in Nat : e = l * q /\ e + q <= t
  <2>1. l * q \in Nat /\ (l + 1) * q <= p * q
    BY <1>7
  <2>2. (l + 1) * q = l * q + q
    OBVIOUS
  <2> QED BY <2>1, <2>2, <1>4
<1>12. (l + b * p) * q = e + b * t /\ l * (2 * q) = 2 * e
  <2>1. (l + b * p) * q = l * q + b * (p * q) /\ l * (2 * q) = 2 * (l * q)
    OBVIOUS
  <2> QED BY <2>1, <1>4, <1>11
<1>13. h2 < q
  <2> SUFFICES ASSUME h2 >= q PROVE FALSE
    OBVIOUS
  <2>1. h >= 2 * q
    BY <1>8
  <2>2. p * h >= p * (2 * q)
    BY <2>1
  <2>3. p * (2 * q) = 2 * t /\ p * h \in Nat
    BY <1>4
  <2>4. u = p * h + l
    BY <1>6, <1>7, DivisionIs
  <2> QED BY <2>2, <2>3, <2>4, <1>4
<1>14. PICK x \in Nat : x = e + b * t + h2 /\ x < 2 * t /\ TurnedLeft(u, m, w) = x
  BY <1>10, <1>11, <1>12, <1>13
<1>15. x >= t <=> b = 1
  BY <1>11, <1>13, <1>14
<1>16. 2 * e + h = IF x >= t THEN 2 * x - 2 * t + 1 ELSE 2 * x
  <2>1. CASE b = 0
    BY <2>1, <1>8, <1>14, <1>15
  <2>2. CASE b = 1
    BY <2>2, <1>8, <1>14, <1>15
  <2> QED BY <2>1, <2>2
<1> QED BY <1>4, <1>9, <1>12, <1>14, <1>16

LEMMA TurnedRightAgain ==
  ASSUME NEW w \in Nat \ {0}, NEW u \in Nat, u < Pow2[w], NEW m \in 0 .. w - 1
  PROVE  LET x == TurnedRight(u, m, w)
         IN  /\ x \in Nat /\ x < Pow2[w]
             /\ TurnedRight(u, m + 1, w)
                  = (x \div 2) + (IF x % 2 = 1 THEN Pow2[w - 1] ELSE 0)
<1>1. PICK p \in Nat \ {0} : p = Pow2[w - (m + 1)]
  <2>1. w - (m + 1) \in Nat
    OBVIOUS
  <2> QED BY <2>1, Pow2Is
<1>2. PICK q \in Nat \ {0} : q = Pow2[m]
  BY Pow2Is
<1>3. Pow2[w - m] = 2 * p /\ Pow2[m + 1] = 2 * q
  <2>1. w - (m + 1) \in Nat /\ (w - (m + 1)) + 1 = w - m
    OBVIOUS
  <2> QED BY <2>1, <1>1, <1>2, Pow2Is
<1>4. PICK t \in Nat : t = p * q /\ Pow2[w - 1] = t /\ Pow2[w] = 2 * t
  <2>1. w - 1 \in Nat /\ m \in 0 .. w - 1 /\ (w - 1) - m = w - (m + 1) /\ (w - 1) + 1 = w
    OBVIOUS
  <2>2. Pow2[w - 1] = Pow2[m] * Pow2[(w - 1) - m]
    BY <2>1, Pow2Splits
  <2>3. Pow2[w] = 2 * Pow2[w - 1]
    BY <2>1, Pow2Is
  <2>4. q * p = p * q /\ p * q \in Nat
    OBVIOUS
  <2> QED BY <2>1, <2>2, <2>3, <2>4, <1>1, <1>2
<1>5. PICK h \in Nat : h = u \div q
  OBVIOUS
<1>6. PICK l \in Nat : l = u % q /\ l < q
  BY DivisionIs
<1>7. PICK h2 \in Nat, b \in {0, 1} : h = 2 * h2 + b /\ h2 = h \div 2 /\ b = h % 2
  <2>1. h \div 2 \in Nat /\ h % 2 \in {0, 1} /\ h = 2 * (h \div 2) + (h % 2)
    OBVIOUS
  <2> QED BY <2>1
<1>8. u \div Pow2[m + 1] = h2 /\ u % Pow2[m + 1] = l + b * q
  <2>1. /\ u \div Pow2[m + 1] = (u \div Pow2[m]) \div 2
        /\ u % Pow2[m + 1] = (u % Pow2[m]) + (IF BitAt(u, m) THEN Pow2[m] ELSE 0)
    BY HalvesAgain
  <2>2. BitAt(u, m) <=> b = 1
    BY <1>2, <1>5, <1>7 DEF BitAt
  <2>3. u \div Pow2[m + 1] = h2
    BY <2>1, <1>2, <1>5, <1>7
  <2>4. u % Pow2[m + 1] = l + (IF b = 1 THEN q ELSE 0)
    BY <2>1, <2>2, <1>2, <1>6
  <2> QED BY <2>3, <2>4, <1>7
<1>9. TurnedRight(u, m, w) = h + l * (2 * p)
  BY <1>2, <1>3, <1>5, <1>6 DEF TurnedRight
<1>10. TurnedRight(u, m + 1, w) = h2 + (l + b * q) * p
  BY <1>1, <1>8 DEF TurnedRight
<1>11. PICK e \in Nat : e = l * p /\ e + p <= t
  <2>1. l * p \in Nat /\ (l + 1) * p <= q * p
    BY <1>6
  <2>2. (l + 1) * p = l * p + p /\ q * p = p * q
    OBVIOUS
  <2> QED BY <2>1, <2>2, <1>4
<1>12. (l + b * q) * p = e + b * t /\ l * (2 * p) = 2 * e
  <2>1. (l + b * q) * p = l * p + b * (p * q) /\ l * (2 * p) = 2 * (l * p)
    OBVIOUS
  <2> QED BY <2>1, <1>4, <1>11
<1>13. h2 < p
  <2> SUFFICES ASSUME h2 >= p PROVE FALSE
    OBVIOUS
  <2>1. h >= 2 * p
    BY <1>7
  <2>2. q * h >= q * (2 * p)
    BY <2>1
  <2>3. q * (2 * p) = 2 * t /\ q * h \in Nat
    BY <1>4
  <2>4. u = q * h + l
    BY <1>5, <1>6, DivisionIs
  <2> QED BY <2>2, <2>3, <2>4, <1>4
<1>14. PICK x \in Nat : x = 2 * e + 2 * h2 + b /\ x < 2 * t /\ TurnedRight(u, m, w) = x
  <2>1. h + l * (2 * p) = 2 * e + 2 * h2 + b
    BY <1>7, <1>12
  <2>2. 2 * e + 2 * h2 + b \in Nat /\ 2 * e + 2 * h2 + b < 2 * t
    BY <1>11, <1>13
  <2> QED BY <2>1, <2>2, <1>9
<1>15. x \div 2 = e + h2 /\ x % 2 = b
  BY <1>14
<1> QED BY <1>4, <1>10, <1>12, <1>14, <1>15

LEMMA TurnedNone ==
  ASSUME NEW w \in Nat \ {0}, NEW u \in Nat, u < Pow2[w]
  PROVE  /\ TurnedLeft(u, 0, w) = u /\ TurnedLeft(u, w, w) = u
         /\ TurnedRight(u, 0, w) = u /\ TurnedRight(u, w, w) = u
<1>1. PICK s \in Nat \ {0} : s = Pow2[w]
  BY Pow2Is
<1>2. Pow2[0] = 1 /\ w - 0 = w /\ w - w = 0
  BY Pow2Is
<1>3. u \div s = 0 /\ u % s = u
  BY <1>1
<1>4. u \div 1 = u /\ u % 1 = 0
  OBVIOUS
<1>5. TurnedLeft(u, 0, w) = u * 1 + 0 /\ TurnedLeft(u, w, w) = 0 * s + u
  BY <1>1, <1>2, <1>3, <1>4 DEF TurnedLeft
<1>6. TurnedRight(u, 0, w) = u + 0 * s /\ TurnedRight(u, w, w) = 0 + u * 1
  BY <1>1, <1>2, <1>3, <1>4 DEF TurnedRight
<1> QED BY <1>1, <1>5, <1>6

\* Turning one bit n times is turning n bits, w of them nothing at all.
LEMMA TurningLeft ==
  ASSUME NEW w \in Nat \ {0}, NEW n \in Nat, NEW f, f[0] \in Nat, f[0] < Pow2[w],
         \A k \in 0 .. n - 1 :
           f[k + 1] = IF f[k] >= Pow2[w - 1] THEN 2 * f[k] - Pow2[w] + 1 ELSE 2 * f[k]
  PROVE  f[n] = TurnedLeft(f[0], n % w, w)
<1> DEFINE S == {k \in Nat : k <= n => f[k] = TurnedLeft(f[0], k % w, w)}
<1>1. 0 \in S
  <2>1. 0 % w = 0
    OBVIOUS
  <2> QED BY <2>1, TurnedNone
<1>2. ASSUME NEW k \in Nat, k \in S PROVE k + 1 \in S
  <2> SUFFICES ASSUME k + 1 <= n PROVE f[k + 1] = TurnedLeft(f[0], (k + 1) % w, w)
    OBVIOUS
  <2>1. k \in 0 .. n - 1 /\ f[k] = TurnedLeft(f[0], k % w, w)
    BY <1>2
  <2>2. PICK m \in 0 .. w - 1 : m = k % w
    <3>1. k % w \in 0 .. w - 1
      OBVIOUS
    <3> QED BY <3>1
  <2>3. TurnedLeft(f[0], m + 1, w) = f[k + 1]
    <3>1. PICK x \in Nat : x = TurnedLeft(f[0], m, w)
      BY TurnedLeftAgain
    <3>2. TurnedLeft(f[0], m + 1, w)
            = IF x >= Pow2[w - 1] THEN 2 * x - Pow2[w] + 1 ELSE 2 * x
      BY <3>1, TurnedLeftAgain
    <3>3. f[k] = x
      BY <3>1, <2>1, <2>2
    <3> QED BY <2>1, <3>2, <3>3
  <2>4. (k + 1) % w = IF m + 1 = w THEN 0 ELSE m + 1
    BY <2>2, NextRemainder
  <2>5. m + 1 = w => TurnedLeft(f[0], m + 1, w) = TurnedLeft(f[0], 0, w)
    BY TurnedNone
  <2> QED BY <2>3, <2>4, <2>5
<1>3. Nat \subseteq S
  <2> HIDE DEF S
  <2> QED BY <1>1, <1>2, Induction
<1> QED BY <1>3

LEMMA TurningRight ==
  ASSUME NEW w \in Nat \ {0}, NEW n \in Nat, NEW f, f[0] \in Nat, f[0] < Pow2[w],
         \A k \in 0 .. n - 1 :
           f[k + 1] = (f[k] \div 2) + (IF f[k] % 2 = 1 THEN Pow2[w - 1] ELSE 0)
  PROVE  f[n] = TurnedRight(f[0], n % w, w)
<1> DEFINE S == {k \in Nat : k <= n => f[k] = TurnedRight(f[0], k % w, w)}
<1>1. 0 \in S
  <2>1. 0 % w = 0
    OBVIOUS
  <2> QED BY <2>1, TurnedNone
<1>2. ASSUME NEW k \in Nat, k \in S PROVE k + 1 \in S
  <2> SUFFICES ASSUME k + 1 <= n PROVE f[k + 1] = TurnedRight(f[0], (k + 1) % w, w)
    OBVIOUS
  <2>1. k \in 0 .. n - 1 /\ f[k] = TurnedRight(f[0], k % w, w)
    BY <1>2
  <2>2. PICK m \in 0 .. w - 1 : m = k % w
    <3>1. k % w \in 0 .. w - 1
      OBVIOUS
    <3> QED BY <3>1
  <2>3. TurnedRight(f[0], m + 1, w) = f[k + 1]
    <3>1. PICK x \in Nat : x = TurnedRight(f[0], m, w)
      BY TurnedRightAgain
    <3>2. TurnedRight(f[0], m + 1, w)
            = (x \div 2) + (IF x % 2 = 1 THEN Pow2[w - 1] ELSE 0)
      BY <3>1, TurnedRightAgain
    <3>3. f[k] = x
      BY <3>1, <2>1, <2>2
    <3> QED BY <2>1, <3>2, <3>3
  <2>4. (k + 1) % w = IF m + 1 = w THEN 0 ELSE m + 1
    BY <2>2, NextRemainder
  <2>5. m + 1 = w => TurnedRight(f[0], m + 1, w) = TurnedRight(f[0], 0, w)
    BY TurnedNone
  <2> QED BY <2>3, <2>4, <2>5
<1>3. Nat \subseteq S
  <2> HIDE DEF S
  <2> QED BY <1>1, <1>2, Induction
<1> QED BY <1>3

\* A word shifted left by k, and the bit that goes out next.
ShiftedLeft(a, k, w) == IF k >= w THEN 0 ELSE (a % Pow2[w - k]) * Pow2[k]

LEMMA ShiftedLeftAgain ==
  ASSUME NEW w \in Nat \ {0}, NEW a \in Nat, a < Pow2[w], NEW k \in Nat
  PROVE  LET x == ShiftedLeft(a, k, w)
         IN  /\ x \in Nat /\ x < Pow2[w]
             /\ x >= Pow2[w - 1] <=> k < w /\ BitAt(a, w - (k + 1))
             /\ ShiftedLeft(a, k + 1, w)
                  = IF x >= Pow2[w - 1] THEN 2 * x - Pow2[w] ELSE 2 * x
<1>0. Pow2[w] \in Nat \ {0} /\ Pow2[w - 1] \in Nat \ {0}
  <2>1. w - 1 \in Nat
    OBVIOUS
  <2> QED BY <2>1, Pow2Is
<1>1. CASE k >= w
  <2>1. ShiftedLeft(a, k, w) = 0 /\ ShiftedLeft(a, k + 1, w) = 0
    BY <1>1 DEF ShiftedLeft
  <2> QED BY <2>1, <1>0, <1>1
<1>2. CASE k < w
  <2>1. PICK p \in Nat \ {0} : p = Pow2[w - (k + 1)]
    <3>1. w - (k + 1) \in Nat
      BY <1>2
    <3> QED BY <3>1, Pow2Is
  <2>2. PICK q \in Nat \ {0} : q = Pow2[k]
    BY Pow2Is
  <2>3. Pow2[w - k] = 2 * p /\ Pow2[k + 1] = 2 * q
    <3>1. w - (k + 1) \in Nat /\ (w - (k + 1)) + 1 = w - k
      BY <1>2
    <3> QED BY <3>1, <2>1, <2>2, Pow2Is
  <2>4. PICK t \in Nat : t = p * q /\ Pow2[w - 1] = t /\ Pow2[w] = 2 * t
    <3>1. w - 1 \in Nat /\ k \in 0 .. w - 1 /\ (w - 1) - k = w - (k + 1) /\ (w - 1) + 1 = w
      BY <1>2
    <3>2. Pow2[w - 1] = Pow2[k] * Pow2[(w - 1) - k]
      BY <3>1, Pow2Splits
    <3>3. Pow2[w] = 2 * Pow2[w - 1]
      BY <3>1, Pow2Is
    <3>4. q * p = p * q /\ p * q \in Nat
      OBVIOUS
    <3> QED BY <3>1, <3>2, <3>3, <3>4, <2>1, <2>2
  <2>5. PICK l \in Nat : l = a % p /\ l < p
    BY DivisionIs
  <2>6. PICK b \in {0, 1} : BitAt(a, w - (k + 1)) <=> b = 1
    OBVIOUS
  <2>7. a % Pow2[w - k] = l + b * p
    <3>1. w - (k + 1) \in Nat /\ (w - (k + 1)) + 1 = w - k
      BY <1>2
    <3>2. a % Pow2[(w - (k + 1)) + 1]
            = (a % Pow2[w - (k + 1)]) + (IF BitAt(a, w - (k + 1)) THEN Pow2[w - (k + 1)] ELSE 0)
      BY <3>1, HalvesAgain
    <3>3. a % Pow2[w - k] = l + (IF b = 1 THEN p ELSE 0)
      BY <3>1, <3>2, <2>1, <2>5, <2>6
    <3> QED BY <3>3
  <2>8. ShiftedLeft(a, k, w) = (l + b * p) * q
    BY <1>2, <2>2, <2>7 DEF ShiftedLeft
  <2>9. ShiftedLeft(a, k + 1, w) = l * (2 * q)
    <3>1. CASE k + 1 < w
      BY <3>1, <2>1, <2>3, <2>5 DEF ShiftedLeft
    <3>2. CASE k + 1 = w
      <4>1. w - (k + 1) = 0 /\ p = 1
        <5>1. w - (k + 1) = 0
          BY <3>2
        <5> QED BY <5>1, <2>1, Pow2Is
      <4>2. l = 0
        BY <4>1, <2>5
      <4> QED BY <3>2, <4>2 DEF ShiftedLeft
    <3> QED BY <3>1, <3>2, <1>2
  <2>10. PICK e \in Nat : e = l * q /\ e + q <= t
    <3>1. l * q \in Nat /\ (l + 1) * q <= p * q
      BY <2>5
    <3>2. (l + 1) * q = l * q + q
      OBVIOUS
    <3> QED BY <3>1, <3>2, <2>4
  <2>11. (l + b * p) * q = e + b * t /\ l * (2 * q) = 2 * e
    <3>1. (l + b * p) * q = l * q + b * (p * q) /\ l * (2 * q) = 2 * (l * q)
      OBVIOUS
    <3> QED BY <3>1, <2>4, <2>10
  <2>12. PICK x \in Nat : x = e + b * t /\ x < 2 * t /\ ShiftedLeft(a, k, w) = x
    BY <2>8, <2>10, <2>11
  <2>13. x >= t <=> b = 1
    BY <2>10, <2>12
  <2>14. 2 * e = IF x >= t THEN 2 * x - 2 * t ELSE 2 * x
    <3>1. CASE b = 0
      BY <3>1, <2>12, <2>13
    <3>2. CASE b = 1
      BY <3>2, <2>12, <2>13
    <3> QED BY <3>1, <3>2
  <2> QED BY <1>2, <2>4, <2>6, <2>9, <2>11, <2>12, <2>13, <2>14
<1> QED BY <1>1, <1>2

\* Multiplying by a power of two and cutting to the word.
LEMMA WrapShifts ==
  ASSUME NEW size \in Sizes, NEW a \in Words(size), NEW k \in 0 .. Width(size)
  PROVE  Wrap(a * Pow2[k], size) = (a % Pow2[Width(size) - k]) * Pow2[k]
<1>1. PICK w \in Nat : w = Width(size) /\ Span(size) = Pow2[w]
  BY SpanIs
<1>2. PICK q \in Nat \ {0}, p \in Nat \ {0} :
        q = Pow2[k] /\ p = Pow2[w - k] /\ Pow2[w] = q * p
  <2>1. k \in 0 .. w
    BY <1>1
  <2>2. /\ Pow2[w] = Pow2[k] * Pow2[w - k]
        /\ Pow2[k] \in Nat \ {0} /\ Pow2[w - k] \in Nat \ {0}
    BY <2>1, Pow2Splits
  <2> QED BY <2>2
<1>3. a \in Nat
  BY <1>1, Pow2Is DEF Words
<1>4. PICK h \in Int : h = a \div p
  BY <1>3, DivisionIs
<1>5. PICK l \in Nat : l = a % p /\ l < p /\ a = p * h + l
  BY <1>3, <1>4, DivisionIs
<1>6. a * q = (q * p) * h + l * q
  <2>1. (p * h + l) * q = (q * p) * h + l * q
    OBVIOUS
  <2> QED BY <1>5, <2>1
<1>7. PICK s \in Nat \ {0} : s = q * p
  BY Pow2Is, <1>2
<1>8. PICK r \in Nat : r = l * q /\ r < s
  <2>1. l * q \in Nat /\ (l + 1) * q <= p * q
    BY <1>5
  <2>2. (l + 1) * q = l * q + q /\ p * q = q * p
    OBVIOUS
  <2> QED BY <2>1, <2>2, <1>7
<1>9. (s * h + r) % s = r
  BY <1>8, DivisionOnly
<1> QED BY <1>1, <1>2, <1>5, <1>6, <1>7, <1>8, <1>9 DEF Wrap

-----------------------------------------------------------------------------
(* The words and flags of ArchFlags are those of LazyFlags *)

LEMMA SameWords ==
  /\ \A size : Arch!Width(size) = Width(size) /\ Arch!Top(size) = Top(size)
               /\ Arch!Span(size) = Span(size) /\ Arch!Words(size) = Words(size)
  /\ \A v, size : /\ Arch!Wrap(v, size) = Wrap(v, size)
                  /\ Arch!Sign(v, size) = Sign(v, size)
                  /\ Arch!Signed(v, size) = Signed(v, size)
                  /\ Arch!Fits(v, size) = Fits(v, size)
<1>1. \A size : Arch!Width(size) = Width(size) /\ Arch!Top(size) = Top(size)
  BY DEF Arch!Width, Width, Arch!Top, Top
<1>2. \A size : Arch!Span(size) = Span(size) /\ Arch!Words(size) = Words(size)
  BY <1>1 DEF Arch!Span, Span, Arch!Words, Words
<1>3. \A v, size : /\ Arch!Wrap(v, size) = Wrap(v, size)
                   /\ Arch!Sign(v, size) = Sign(v, size)
                   /\ Arch!Fits(v, size) = Fits(v, size)
  BY <1>1, <1>2 DEF Arch!Wrap, Wrap, Arch!Sign, Sign, Arch!Fits, Fits
<1>4. \A v, size : Arch!Signed(v, size) = Signed(v, size)
  BY <1>2, <1>3 DEF Arch!Signed, Signed
<1> QED BY <1>1, <1>2, <1>3, <1>4

LEMMA SamePow2 == Arch!Pow2 = Pow2
BY DEF Arch!Pow2, Pow2

LEMMA SameBits ==
  /\ \A v, k : Arch!BitAt(v, k) = BitAt(v, k)
  /\ \A v, size : Arch!BitsOf(v, size) = BitsOf(v, size)
  /\ \A bits, size : Arch!WordOf(bits, size) = WordOf(bits, size)
<1>1. \A v, k : Arch!BitAt(v, k) = BitAt(v, k)
  BY SamePow2 DEF Arch!BitAt, BitAt
<1>2. \A v, size : Arch!BitsOf(v, size) = BitsOf(v, size)
  BY <1>1, SameWords DEF Arch!BitsOf, BitsOf
<1>3. \A bits, size : Arch!WordOf(bits, size) = WordOf(bits, size)
  BY SamePow2, SameWords DEF Arch!WordOf, WordOf
<1> QED BY <1>1, <1>2, <1>3

LEMMA SameCounts ==
  /\ \A S : Arch!Cardinality(S) = Cardinality(S)
  /\ \A S : Arch!Min(S) = Min(S) /\ Arch!Max(S) = Max(S)
<1>1. \A S : Arch!Cardinality(S) = Cardinality(S)
  BY DEF Arch!Cardinality, Cardinality
<1>2. \A S : Arch!Min(S) = Min(S) /\ Arch!Max(S) = Max(S)
  BY DEF Arch!Min, Min, Arch!Max, Max
<1> QED BY <1>1, <1>2

LEMMA SameFlags ==
  /\ Arch!Arith = Arith /\ Arch!Cc = Cc
  /\ \A f, b : Arch!On(f, b) = On(f, b)
  /\ \A size, r : Arch!ZSP(size, r) = ZSP(size, r)
  /\ \A c, f : Arch!CondHolds(c, f) = CondHolds(c, f)
<1>1. Arch!Arith = Arith /\ Arch!Cc = Cc /\ \A f, b : Arch!On(f, b) = On(f, b)
  BY DEF Arch!Arith, Arith, Arch!Cc, Cc, Arch!On, On
<1>2. \A v : Arch!EvenParity(v) = EvenParity(v)
  BY SameBits, SameCounts DEF Arch!EvenParity, EvenParity
<1>3. \A size, r : Arch!ZSP(size, r) = ZSP(size, r)
  BY <1>1, <1>2, SameWords DEF Arch!ZSP, ZSP
<1>4. \A c, f : Arch!CondHolds(c, f) = CondHolds(c, f)
  BY DEF Arch!CondHolds, CondHolds
<1> QED BY <1>1, <1>3, <1>4

ShiftOps == {"shl", "shld", "shr", "shrd", "sar", "rol", "ror", "rcl", "rcr"}
\* A word in the shifter, and the carry.
Shifter(size) == [v : Words(size), cf : BOOLEAN]

\* One step of ArchFlags, in numbers.
LEMMA StepIs ==
  ASSUME NEW size \in Sizes, NEW x \in Shifter(size), NEW op \in ShiftOps
  PROVE  LET T == Top(size)
             y == Arch!Step(op, size, x)
             c == IF x.cf THEN 1 ELSE 0
             left == IF x.v >= T THEN 2 * x.v - 2 * T ELSE 2 * x.v
         IN  /\ op \in {"shl", "shld"} => y.v = left /\ y.cf = (x.v >= T)
             /\ op \in {"shr", "shrd"} => y.v = x.v \div 2 /\ y.cf = (x.v % 2 = 1)
             /\ op = "sar" => /\ y.v = (x.v \div 2) + (IF x.v >= T THEN T ELSE 0)
                              /\ y.cf = (x.v % 2 = 1)
             /\ op = "rol" => /\ y.v = IF x.v >= T THEN left + 1 ELSE left
                              /\ y.cf = (x.v >= T)
             /\ op = "ror" => /\ y.v = (x.v \div 2) + (IF x.v % 2 = 1 THEN T ELSE 0)
                              /\ y.cf = (x.v % 2 = 1)
             /\ op = "rcl" => y.v = left + c /\ y.cf = (x.v >= T)
             /\ op = "rcr" => y.v = (x.v \div 2) + c * T /\ y.cf = (x.v % 2 = 1)
             /\ y \in Shifter(size)
<1>1. PICK t \in Nat \ {0} : t = Top(size) /\ Span(size) = 2 * t /\ t >= 128
  BY SpanIs
<1>2. PICK v \in Nat : v = x.v /\ v < 2 * t
  BY <1>1 DEF Shifter, Words
<1>3. Wrap(2 * v, size) = IF v >= t THEN 2 * v - 2 * t ELSE 2 * v
  BY <1>1, <1>2, WrapWithin
<1>4. Arch!Top(size) = t /\ Arch!Wrap(2 * x.v, size) = IF v >= t THEN 2 * v - 2 * t ELSE 2 * v
  BY <1>1, <1>2, <1>3, SameWords
<1> DEFINE y == Arch!Step(op, size, x)
           left == IF v >= t THEN 2 * v - 2 * t ELSE 2 * v
           c == IF x.cf THEN 1 ELSE 0
<1>5. x.cf \in BOOLEAN /\ c \in {0, 1}
  BY DEF Shifter
<1>6. CASE op \in {"shl", "shld"}
  <2>1. y = [v |-> left, cf |-> v >= t]
    BY <1>2, <1>4, <1>6 DEF Arch!Step
  <2>2. left \in Words(size)
    BY <1>1, <1>2 DEF Words
  <2> HIDE DEF y, left
  <2>3. y \in Shifter(size)
    BY <2>1, <2>2 DEF Shifter
  <2> QED BY <2>1, <2>3, <1>1, <1>2, <1>6 DEF y, left
<1>7. CASE op \in {"shr", "shrd"}
  <2>1. y = [v |-> v \div 2, cf |-> v % 2 = 1]
    BY <1>2, <1>4, <1>7 DEF Arch!Step
  <2>2. v \div 2 \in Words(size)
    BY <1>1, <1>2 DEF Words
  <2> HIDE DEF y, left
  <2>3. y \in Shifter(size)
    BY <2>1, <2>2 DEF Shifter
  <2> QED BY <2>1, <2>3, <1>1, <1>2, <1>7 DEF y, left
<1>8. CASE op = "sar"
  <2>1. y = [v |-> (v \div 2) + (IF v >= t THEN t ELSE 0), cf |-> v % 2 = 1]
    BY <1>2, <1>4, <1>8 DEF Arch!Step
  <2>2. (v \div 2) + (IF v >= t THEN t ELSE 0) \in Words(size)
    BY <1>1, <1>2 DEF Words
  <2> HIDE DEF y, left
  <2>3. y \in Shifter(size)
    BY <2>1, <2>2 DEF Shifter
  <2> QED BY <2>1, <2>3, <1>1, <1>2, <1>8 DEF y, left
<1>9. CASE op = "rol"
  <2>1. y = [v |-> left + (IF v >= t THEN 1 ELSE 0), cf |-> v >= t]
    BY <1>2, <1>4, <1>9 DEF Arch!Step
  <2>2. left + (IF v >= t THEN 1 ELSE 0) \in Words(size)
    BY <1>1, <1>2 DEF Words
  <2>3. left + (IF v >= t THEN 1 ELSE 0) = IF v >= t THEN left + 1 ELSE left
    BY <1>1, <1>2
  <2> HIDE DEF y, left
  <2>4. y \in Shifter(size)
    BY <2>1, <2>2 DEF Shifter
  <2> QED BY <2>1, <2>3, <2>4, <1>1, <1>2, <1>9 DEF y, left
<1>10. CASE op = "ror"
  <2>1. y = [v |-> (v \div 2) + (IF v % 2 = 1 THEN t ELSE 0), cf |-> v % 2 = 1]
    BY <1>2, <1>4, <1>10 DEF Arch!Step
  <2>2. (v \div 2) + (IF v % 2 = 1 THEN t ELSE 0) \in Words(size)
    BY <1>1, <1>2 DEF Words
  <2> HIDE DEF y, left
  <2>3. y \in Shifter(size)
    BY <2>1, <2>2 DEF Shifter
  <2> QED BY <2>1, <2>3, <1>1, <1>2, <1>10 DEF y, left
<1>11. CASE op = "rcl"
  <2>1. y = [v |-> left + c, cf |-> v >= t]
    BY <1>2, <1>4, <1>11 DEF Arch!Step
  <2>2. left + c \in Words(size)
    BY <1>1, <1>2, <1>5 DEF Words
  <2> HIDE DEF y, left, c
  <2>3. y \in Shifter(size)
    BY <2>1, <2>2 DEF Shifter
  <2> QED BY <2>1, <2>3, <1>1, <1>2, <1>11 DEF y, left, c
<1>12. CASE op = "rcr"
  <2>1. y = [v |-> (v \div 2) + c * t, cf |-> v % 2 = 1]
    BY <1>2, <1>4, <1>12 DEF Arch!Step
  <2>2. (v \div 2) + c * t \in Words(size)
    <3>1. CASE c = 0
      BY <3>1, <1>1, <1>2 DEF Words
    <3>2. CASE c = 1
      BY <3>2, <1>1, <1>2 DEF Words
    <3> QED BY <3>1, <3>2, <1>5
  <2> HIDE DEF y, left, c
  <2>3. y \in Shifter(size)
    BY <2>1, <2>2 DEF Shifter
  <2> QED BY <2>1, <2>3, <1>1, <1>2, <1>12 DEF y, left, c
<1> QED BY <1>6, <1>7, <1>8, <1>9, <1>10, <1>11, <1>12 DEF ShiftOps

\* The word and the carry after each of n steps.
Stepped(s, i, n) ==
  /\ s[0] = [v |-> i.a, cf |-> "CF" \in Visible(rflags, cc)]
  /\ \A k \in 0 .. n - 1 : s[k + 1] = Arch!Step(i.op, i.size, s[k])
  /\ \A k \in 0 .. n : s[k] \in Shifter(i.size)

LEMMA StepsAre ==
  ASSUME NEW i, i.size \in Sizes, i.a \in Words(i.size), i.op \in ShiftOps, NEW n \in Nat
  PROVE  \E s : Stepped(s, i, n) /\ Arch!Steps(i, n) = s[n]
<1> DEFINE x0 == [v |-> i.a, cf |-> "CF" \in Visible(rflags, cc)]
           step(x) == Arch!Step(i.op, i.size, x)
           g == [p \in Nat \X Shifter(i.size) |-> step(p[2])]
<1>0. x0 \in Shifter(i.size)
  <2>1. ("CF" \in Visible(rflags, cc)) \in BOOLEAN
    OBVIOUS
  <2> QED BY <2>1 DEF Shifter
<1>1. \A x \in Shifter(i.size) : step(x) \in Shifter(i.size)
  BY StepIs
<1> HIDE DEF x0, step
<1>2. PICK f : Iterates(f, g, x0, 0 .. n)
  BY IteratesExist
<1>3. f = [k \in 0 .. n |-> IF k = 0 THEN x0 ELSE g[<<k, f[k - 1]>>]]
  BY <1>2 DEF Iterates
<1>4. \A k \in 0 .. n : f[k] = IF k = 0 THEN x0 ELSE g[<<k, f[k - 1]>>]
  <2> HIDE DEF g
  <2> QED BY <1>3
<1> DEFINE S == {k \in Nat : k <= n => f[k] \in Shifter(i.size)}
<1>5. 0 \in S
  <2>1. 0 \in 0 .. n
    OBVIOUS
  <2>2. f[0] = x0
    <3> HIDE DEF g
    <3> QED BY <2>1, <1>4
  <2> QED BY <2>2, <1>0
<1>6. ASSUME NEW k \in Nat, k \in S PROVE k + 1 \in S
  <2> SUFFICES ASSUME k + 1 <= n PROVE f[k + 1] \in Shifter(i.size)
    OBVIOUS
  <2>1. k + 1 # 0 /\ k + 1 \in Nat /\ k + 1 \in 0 .. n /\ (k + 1) - 1 = k /\ f[k] \in Shifter(i.size)
    BY <1>6
  <2>2. f[k + 1] = g[<<k + 1, f[k]>>]
    <3> HIDE DEF g
    <3> QED BY <1>4, <2>1
  <2>3. g[<<k + 1, f[k]>>] = step(f[k])
    BY <2>1
  <2> HIDE DEF g
  <2> QED BY <2>1, <2>2, <2>3, <1>1
<1>7. Nat \subseteq S
  <2> HIDE DEF S
  <2> QED BY <1>5, <1>6, Induction
<1>8. ASSUME NEW k \in 0 .. n
      PROVE  f[k] = IF k = 0 THEN x0 ELSE step(f[k - 1])
  <2>1. CASE k = 0
    <3> HIDE DEF g
    <3> QED BY <2>1, <1>4
  <2>2. CASE k # 0
    <3>1. k - 1 \in Nat /\ k \in Nat /\ f[k - 1] \in Shifter(i.size)
      BY <2>2, <1>7
    <3>2. f[k] = g[<<k, f[k - 1]>>]
      <4> HIDE DEF g
      <4> QED BY <1>4, <2>2
    <3>3. g[<<k, f[k - 1]>>] = step(f[k - 1])
      BY <3>1
    <3> HIDE DEF g
    <3> QED BY <2>2, <3>2, <3>3
  <2> QED BY <2>1, <2>2
<1>9. f = [k \in 0 .. n |-> f[k]]
  <2> HIDE DEF g
  <2> QED BY <1>3
<1>10. f = [k \in 0 .. n |-> IF k = 0 THEN x0 ELSE step(f[k - 1])]
  <2> HIDE DEF g, S
  <2> QED BY <1>8, <1>9
<1> DEFINE s == CHOOSE s : s = [k \in 0 .. n |-> IF k = 0 THEN x0 ELSE step(s[k - 1])]
<1>11. s = [k \in 0 .. n |-> IF k = 0 THEN x0 ELSE step(s[k - 1])]
  <2>1. \E h : h = [k \in 0 .. n |-> IF k = 0 THEN x0 ELSE step(h[k - 1])]
    <3> HIDE DEF g, S, s
    <3> QED BY <1>10, Zenon
  <2> HIDE DEF g, S
  <2> QED BY <2>1, Zenon
<1>12. Arch!Steps(i, n) = s[n]
  BY DEF Arch!Steps, s, x0, step
<1> HIDE DEF s
<1>13. s[0] = x0
  <2>1. 0 \in 0 .. n
    OBVIOUS
  <2> QED BY <2>1, <1>11
<1>14. ASSUME NEW k \in 0 .. n - 1 PROVE s[k + 1] = step(s[k])
  <2>1. k + 1 \in 0 .. n /\ k + 1 # 0 /\ (k + 1) - 1 = k
    OBVIOUS
  <2> QED BY <2>1, <1>11
<1> DEFINE R == {k \in Nat : k <= n => s[k] \in Shifter(i.size)}
<1>15. 0 \in R
  BY <1>0, <1>13
<1>16. ASSUME NEW k \in Nat, k \in R PROVE k + 1 \in R
  <2> SUFFICES ASSUME k + 1 <= n PROVE s[k + 1] \in Shifter(i.size)
    OBVIOUS
  <2>1. k \in 0 .. n - 1 /\ s[k] \in Shifter(i.size)
    BY <1>16
  <2> QED BY <2>1, <1>1, <1>14
<1>17. Nat \subseteq R
  <2> HIDE DEF R
  <2> QED BY <1>15, <1>16, Induction
<1>18. \A k \in 0 .. n : s[k] \in Shifter(i.size)
  BY <1>17
<1>19. Stepped(s, i, n)
  <2>1. s[0] = [v |-> i.a, cf |-> "CF" \in Visible(rflags, cc)]
    BY <1>13 DEF x0
  <2>2. \A k \in 0 .. n - 1 : s[k + 1] = Arch!Step(i.op, i.size, s[k])
    BY <1>14 DEF step
  <2> QED BY <2>1, <2>2, <1>18 DEF Stepped
<1> QED BY <1>12, <1>19

\* SHL and SHLD: the word times a power of two; CF the last bit out, if any.
LEMMA ShlSteps ==
  ASSUME NEW i, i.size \in Sizes, i.a \in Words(i.size), i.op \in {"shl", "shld"},
         NEW n \in Nat
  PROVE  /\ Arch!Steps(i, n).v = ShiftedLeft(i.a, n, Width(i.size))
         /\ Arch!Steps(i, n).v \in Words(i.size)
         /\ n > 0 => Arch!Steps(i, n).cf
                       = (n <= Width(i.size) /\ BitAt(i.a, Width(i.size) - n))
<1>1. PICK w \in Nat \ {0} : w = Width(i.size) /\ Span(i.size) = Pow2[w] /\ Top(i.size) = Pow2[w - 1]
  BY SpanIs
<1>2. PICK s : Stepped(s, i, n) /\ Arch!Steps(i, n) = s[n]
  BY StepsAre DEF ShiftOps
<1>3. PICK t \in Nat \ {0} : t = Top(i.size) /\ Span(i.size) = 2 * t
  BY SpanIs
<1>4. i.a \in Nat /\ i.a < Pow2[w]
  BY <1>1, <1>3 DEF Words
<1>5. ASSUME NEW k \in 0 .. n - 1
      PROVE  /\ s[k + 1].v = IF s[k].v >= t THEN 2 * s[k].v - 2 * t ELSE 2 * s[k].v
             /\ s[k + 1].cf = (s[k].v >= t)
  <2>1. k \in 0 .. n
    OBVIOUS
  <2>2. s[k] \in Shifter(i.size) /\ s[k + 1] = Arch!Step(i.op, i.size, s[k])
    BY <1>2, <2>1 DEF Stepped
  <2>3. i.op \in ShiftOps
    BY DEF ShiftOps
  <2> QED BY <2>2, <2>3, <1>3, StepIs
<1> DEFINE S == {k \in Nat : k <= n => s[k].v = ShiftedLeft(i.a, k, w)}
<1>6. 0 \in S
  <2>1. s[0].v = i.a
    BY <1>2 DEF Stepped
  <2>2. PICK p \in Nat \ {0} : p = Pow2[w]
    BY Pow2Is
  <2>3. i.a % p = i.a
    BY <1>4, <2>2
  <2>4. ShiftedLeft(i.a, 0, w) = (i.a % Pow2[w]) * Pow2[0]
    BY DEF ShiftedLeft
  <2> QED BY <2>1, <2>2, <2>3, <2>4, <1>4, Pow2Is
<1>7. ASSUME NEW k \in Nat, k \in S PROVE k + 1 \in S
  <2> SUFFICES ASSUME k + 1 <= n PROVE s[k + 1].v = ShiftedLeft(i.a, k + 1, w)
    OBVIOUS
  <2>1. k \in 0 .. n - 1 /\ s[k].v = ShiftedLeft(i.a, k, w)
    BY <1>7
  <2>2. PICK x \in Nat : x = ShiftedLeft(i.a, k, w)
    BY <1>4, ShiftedLeftAgain
  <2>3. ShiftedLeft(i.a, k + 1, w) = IF x >= Pow2[w - 1] THEN 2 * x - Pow2[w] ELSE 2 * x
    BY <2>2, <1>4, ShiftedLeftAgain
  <2> QED BY <2>1, <2>2, <2>3, <1>1, <1>3, <1>5
<1>8. Nat \subseteq S
  <2> HIDE DEF S
  <2> QED BY <1>6, <1>7, Induction
<1>9. s[n].v = ShiftedLeft(i.a, n, w)
  BY <1>8
<1>10. s[n].v \in Words(i.size)
  <2>1. n \in 0 .. n
    OBVIOUS
  <2>2. s[n] \in Shifter(i.size)
    BY <1>2, <2>1 DEF Stepped
  <2> QED BY <2>2 DEF Shifter
<1>11. ASSUME n > 0 PROVE s[n].cf = (n <= w /\ BitAt(i.a, w - n))
  <2>1. PICK k \in Nat : n = k + 1 /\ k \in 0 .. n - 1
    <3>1. n - 1 \in Nat /\ n = (n - 1) + 1 /\ n - 1 \in 0 .. n - 1
      BY <1>11
    <3> QED BY <3>1
  <2>2. s[k].v = ShiftedLeft(i.a, k, w)
    BY <1>8, <2>1
  <2>3. ShiftedLeft(i.a, k, w) >= Pow2[w - 1] <=> k < w /\ BitAt(i.a, w - (k + 1))
    BY <1>4, ShiftedLeftAgain
  <2>4. s[k + 1].cf = (s[k].v >= t)
    BY <2>1, <1>5
  <2>5. (s[k].v >= t) <=> (n <= w /\ BitAt(i.a, w - n))
    BY <2>1, <2>2, <2>3, <1>1, <1>3
  <2> QED BY <2>1, <2>4, <2>5
<1> QED BY <1>1, <1>2, <1>9, <1>10, <1>11

\* SHR and SHRD: the word divided; CF the last bit out.
LEMMA ShrSteps ==
  ASSUME NEW i, i.size \in Sizes, i.a \in Words(i.size), i.op \in {"shr", "shrd"},
         NEW n \in Nat
  PROVE  /\ Arch!Steps(i, n).v = i.a \div Pow2[n]
         /\ Arch!Steps(i, n).v \in Words(i.size)
         /\ n > 0 => Arch!Steps(i, n).cf = BitAt(i.a, n - 1)
<1>2. PICK s : Stepped(s, i, n) /\ Arch!Steps(i, n) = s[n]
  BY StepsAre DEF ShiftOps
<1>4. i.a \in Nat
  BY SpanIs DEF Words
<1>5. ASSUME NEW k \in 0 .. n - 1
      PROVE  s[k + 1].v = s[k].v \div 2 /\ s[k + 1].cf = (s[k].v % 2 = 1)
  <2>1. k \in 0 .. n
    OBVIOUS
  <2>2. s[k] \in Shifter(i.size) /\ s[k + 1] = Arch!Step(i.op, i.size, s[k])
    BY <1>2, <2>1 DEF Stepped
  <2>3. i.op \in ShiftOps
    BY DEF ShiftOps
  <2> QED BY <2>2, <2>3, StepIs
<1> DEFINE S == {k \in Nat : k <= n => s[k].v = i.a \div Pow2[k]}
<1>6. 0 \in S
  <2>1. s[0].v = i.a
    BY <1>2 DEF Stepped
  <2>2. i.a \div 1 = i.a
    BY <1>4
  <2> QED BY <2>1, <2>2, Pow2Is
<1>7. ASSUME NEW k \in Nat, k \in S PROVE k + 1 \in S
  <2> SUFFICES ASSUME k + 1 <= n PROVE s[k + 1].v = i.a \div Pow2[k + 1]
    OBVIOUS
  <2>1. k \in 0 .. n - 1 /\ s[k].v = i.a \div Pow2[k]
    BY <1>7
  <2>2. i.a \div Pow2[k + 1] = (i.a \div Pow2[k]) \div 2
    BY <1>4, HalvesAgain
  <2> QED BY <2>1, <2>2, <1>5
<1>8. Nat \subseteq S
  <2> HIDE DEF S
  <2> QED BY <1>6, <1>7, Induction
<1>9. s[n].v = i.a \div Pow2[n]
  BY <1>8
<1>10. s[n].v \in Words(i.size)
  <2>1. n \in 0 .. n
    OBVIOUS
  <2>2. s[n] \in Shifter(i.size)
    BY <1>2, <2>1 DEF Stepped
  <2> QED BY <2>2 DEF Shifter
<1>11. ASSUME n > 0 PROVE s[n].cf = BitAt(i.a, n - 1)
  <2>1. PICK k \in Nat : n = k + 1 /\ k \in 0 .. n - 1 /\ k = n - 1
    <3>1. n - 1 \in Nat /\ n = (n - 1) + 1 /\ n - 1 \in 0 .. n - 1
      BY <1>11
    <3> QED BY <3>1
  <2>2. s[k].v = i.a \div Pow2[k]
    BY <1>8, <2>1
  <2>3. s[k + 1].cf = (s[k].v % 2 = 1)
    BY <2>1, <1>5
  <2> QED BY <2>1, <2>2, <2>3 DEF BitAt
<1> QED BY <1>2, <1>9, <1>10, <1>11

\* Beyond the width nothing is left.
LEMMA ShiftedOut ==
  ASSUME NEW size \in Sizes, NEW a \in Words(size), NEW k \in Nat, k >= Width(size)
  PROVE  a \div Pow2[k] = 0 /\ ~BitAt(a, k)
<1>1. PICK w \in Nat : w = Width(size) /\ Span(size) = Pow2[w]
  BY SpanIs
<1>2. PICK p \in Nat \ {0} : p = Pow2[w]
  BY Pow2Is
<1>3. PICK q \in Nat \ {0} : q = Pow2[k - w] /\ Pow2[k] = p * q
  <2>1. w \in 0 .. k
    BY <1>1
  <2> QED BY <2>1, <1>2, Pow2Splits
<1>4. PICK r \in Nat \ {0} : r = p * q /\ r >= p
  <2>1. p * q \in Nat \ {0} /\ p * q >= p
    OBVIOUS
  <2> QED BY <2>1
<1>5. a \in Nat /\ a < r
  BY <1>1, <1>2, <1>4 DEF Words
<1>6. a \div r = 0
  BY <1>4, <1>5
<1> QED BY <1>3, <1>4, <1>6 DEF BitAt

\* Half of a number with sign, as its word has it.
LEMMA HalfWithSign ==
  ASSUME NEW size \in Sizes, NEW z \in Int, Fits(z, size)
  PROVE  LET v == Wrap(z, size)
         IN  /\ (v \div 2) + (IF v >= Top(size) THEN Top(size) ELSE 0) = Wrap(z \div 2, size)
             /\ v % 2 = z % 2 /\ z \div 2 \in Int /\ Fits(z \div 2, size)
<1>1. PICK t \in Nat \ {0} : t = Top(size) /\ Span(size) = 2 * t
  BY SpanIs
<1>2. -t <= z /\ z < t
  BY <1>1 DEF Fits
<1>3. PICK h \in Int, b \in {0, 1} : z = 2 * h + b /\ h = z \div 2 /\ b = z % 2
  <2>1. z \div 2 \in Int /\ z % 2 \in {0, 1} /\ z = 2 * (z \div 2) + (z % 2)
    OBVIOUS
  <2> QED BY <2>1
<1>4. -t <= h /\ h < t
  BY <1>2, <1>3
<1>5. PICK v \in Int : v = Wrap(z, size) /\ v = IF z < 0 THEN z + 2 * t ELSE z
  <2>1. Wrap(z, size) = IF z < 0 THEN z + 2 * t ELSE z
    BY <1>1, <1>2, WrapWithin
  <2> QED BY <2>1
<1>6. Wrap(h, size) = IF h < 0 THEN h + 2 * t ELSE h
  BY <1>1, <1>4, WrapWithin
<1>7. CASE z < 0
  <2>1. v = 2 * (h + t) + b /\ h < 0 /\ v >= t
    <3>1. v = z + 2 * t /\ z = 2 * h + b
      BY <1>3, <1>5, <1>7
    <3>2. h < 0
      BY <1>3, <1>7
    <3>3. v >= t
      BY <3>1, <1>2
    <3> QED BY <3>1, <3>2, <3>3
  <2>2. v \div 2 = h + t /\ v % 2 = b
    BY <2>1
  <2> QED BY <2>1, <2>2, <1>1, <1>3, <1>4, <1>5, <1>6 DEF Fits
<1>8. CASE z >= 0
  <2>1. v = 2 * h + b /\ h >= 0 /\ v < t
    <3>0. v = z
      BY <1>5, <1>8
    <3>1. v = z /\ z = 2 * h + b
      BY <1>3, <3>0
    <3>2. h >= 0
      BY <1>3, <1>8
    <3> QED BY <3>1, <3>2, <1>2
  <2>2. v \div 2 = h /\ v % 2 = b
    BY <2>1
  <2> QED BY <2>1, <2>2, <1>1, <1>3, <1>4, <1>5, <1>6 DEF Fits
<1> QED BY <1>7, <1>8

\* The bits of a number with sign: those of its word, then the sign.
LEMMA SignedBits ==
  ASSUME NEW size \in Sizes, NEW a \in Words(size), NEW k \in Nat
  PROVE  /\ k < Width(size) => (BitAt(Signed(a, size), k) <=> BitAt(a, k))
         /\ k >= Width(size) =>
              /\ Signed(a, size) \div Pow2[k] = IF Signed(a, size) < 0 THEN -1 ELSE 0
              /\ BitAt(Signed(a, size), k) <=> Sign(a, size)
<1>1. PICK t \in Nat \ {0} : t = Top(size) /\ Span(size) = 2 * t
  BY SpanIs
<1>2. PICK w \in Nat : w = Width(size) /\ 2 * t = Pow2[w]
  BY <1>1, SpanIs
<1>3. a \in Nat /\ a < 2 * t
  BY <1>1 DEF Words
<1>4. PICK z \in Int : z = Signed(a, size) /\ z = IF a >= t THEN a - 2 * t ELSE a
  <2>1. Signed(a, size) = IF a >= t THEN a - 2 * t ELSE a
    BY <1>1 DEF Signed, Sign
  <2> QED BY <2>1, <1>3
<1>5. ASSUME k < w PROVE BitAt(z, k) <=> BitAt(a, k)
  <2>1. PICK p \in Nat \ {0} : p = Pow2[k]
    BY Pow2Is
  <2>2. PICK m \in Nat : Pow2[w] = p * (2 * m)
    <3>1. k \in 0 .. w /\ w - (k + 1) \in Nat /\ (w - (k + 1)) + 1 = w - k
      BY <1>5
    <3>2. Pow2[w] = Pow2[k] * Pow2[w - k]
      BY <3>1, Pow2Splits
    <3>3. Pow2[w - k] = 2 * Pow2[w - (k + 1)] /\ Pow2[w - (k + 1)] \in Nat
      BY <3>1, Pow2Is
    <3> QED BY <3>2, <3>3, <2>1
  <2>3. PICK h \in Int : h = z \div p
    BY DivisionIs
  <2>4. PICK r \in Nat : r < p /\ z = p * h + r
    BY <2>3, DivisionIs
  <2>5. CASE a >= t
    <3>1. a = p * (h + 2 * m) + r
      <4>1. p * (h + 2 * m) = p * h + p * (2 * m)
        OBVIOUS
      <4> QED BY <4>1, <2>2, <2>4, <2>5, <1>2, <1>3, <1>4
    <3>2. PICK j \in Int : j = h + 2 * m
      OBVIOUS
    <3>3. (p * j + r) \div p = j
      BY <2>4, DivisionOnly
    <3>4. a \div p = j
      BY <3>1, <3>2, <3>3
    <3>5. j % 2 = h % 2
      BY <3>2
    <3> QED BY <3>4, <3>5, <2>1, <2>3 DEF BitAt
  <2>6. CASE ~(a >= t)
    BY <2>6, <1>4
  <2> QED BY <2>5, <2>6
<1>6. ASSUME k >= w
      PROVE  z \div Pow2[k] = (IF z < 0 THEN -1 ELSE 0) /\ (BitAt(z, k) <=> a >= t)
  <2>1. PICK p \in Nat \ {0} : p = Pow2[k] /\ p >= 2 * t
    <3>1. w \in 0 .. k
      BY <1>6
    <3>2. PICK e \in Nat \ {0}, q \in Nat \ {0} :
            e = Pow2[w] /\ q = Pow2[k - w] /\ Pow2[k] = e * q
      <4>1. /\ Pow2[k] = Pow2[w] * Pow2[k - w]
            /\ Pow2[w] \in Nat \ {0} /\ Pow2[k - w] \in Nat \ {0}
        BY <3>1, Pow2Splits
      <4> QED BY <4>1
    <3>3. e * q \in Nat \ {0} /\ e * q >= e
      OBVIOUS
    <3> QED BY <3>2, <3>3, <1>2
  <2>2. CASE a >= t
    <3>1. PICK r \in Nat : r = z + p /\ r < p
      <4>1. z + p \in Nat /\ z + p < p
        BY <2>1, <2>2, <1>3, <1>4
      <4> QED BY <4>1
    <3>2. z = p * (-1) + r
      BY <3>1
    <3>3. (p * (-1) + r) \div p = -1
      BY <3>1, DivisionOnly
    <3>4. z \div p = -1 /\ z < 0
      BY <3>2, <3>3, <2>2, <1>3, <1>4
    <3>5. (-1) % 2 = 1
      <4>1. PICK d \in Nat \ {0} : d = 2
        OBVIOUS
      <4>2. PICK m \in Int, e \in Nat : m = -1 /\ e = 1 /\ e < d
        BY <4>1
      <4>3. (d * m + e) % d = e
        BY <4>2, DivisionOnly
      <4>4. d * m + e = -1
        BY <4>1, <4>2
      <4> QED BY <4>1, <4>2, <4>3, <4>4
    <3> QED BY <3>4, <3>5, <2>1, <2>2 DEF BitAt
  <2>3. CASE ~(a >= t)
    <3>1. z \in Nat /\ z < p
      BY <2>1, <2>3, <1>3, <1>4
    <3>2. z \div p = 0
      BY <3>1, <2>1
    <3> QED BY <3>1, <3>2, <2>1, <2>3 DEF BitAt
  <2> QED BY <2>2, <2>3
<1> QED BY <1>1, <1>2, <1>4, <1>5, <1>6 DEF Sign

\* SAR: the number with sign divided, rounded down.
LEMMA SarSteps ==
  ASSUME NEW i, i.size \in Sizes, i.a \in Words(i.size), i.op = "sar", NEW n \in Nat
  PROVE  /\ Arch!Steps(i, n).v = Wrap(Signed(i.a, i.size) \div Pow2[n], i.size)
         /\ Arch!Steps(i, n).v \in Words(i.size)
         /\ n > 0 => Arch!Steps(i, n).cf = BitAt(Signed(i.a, i.size), n - 1)
         /\ n = 1 => Sign(Arch!Steps(i, n).v, i.size) = Sign(i.a, i.size)
<1>2. PICK s : Stepped(s, i, n) /\ Arch!Steps(i, n) = s[n]
  BY StepsAre DEF ShiftOps
<1>3. PICK z \in Int : z = Signed(i.a, i.size) /\ Fits(z, i.size)
  BY SignedIs
<1>5. ASSUME NEW k \in 0 .. n - 1
      PROVE  /\ s[k + 1].v = (s[k].v \div 2)
                             + (IF s[k].v >= Top(i.size) THEN Top(i.size) ELSE 0)
             /\ s[k + 1].cf = (s[k].v % 2 = 1)
  <2>1. k \in 0 .. n
    OBVIOUS
  <2>2. s[k] \in Shifter(i.size) /\ s[k + 1] = Arch!Step(i.op, i.size, s[k])
    BY <1>2, <2>1 DEF Stepped
  <2>3. i.op \in ShiftOps
    BY DEF ShiftOps
  <2> QED BY <2>2, <2>3, StepIs
<1> DEFINE S == {k \in Nat : k <= n => /\ s[k].v = Wrap(z \div Pow2[k], i.size)
                                       /\ z \div Pow2[k] \in Int
                                       /\ Fits(z \div Pow2[k], i.size)}
<1>6. 0 \in S
  <2>1. s[0].v = i.a
    BY <1>2 DEF Stepped
  <2>2. z \div 1 = z
    OBVIOUS
  <2>3. Wrap(z, i.size) = i.a
    <3>1. PICK t \in Nat \ {0} : t = Top(i.size) /\ Span(i.size) = 2 * t
      BY SpanIs
    <3>2. i.a \in Nat /\ i.a < 2 * t
      BY <3>1 DEF Words
    <3>3. z = IF i.a >= t THEN i.a - 2 * t ELSE i.a
      BY <1>3, <3>1 DEF Signed, Sign
    <3>4. Wrap(z, i.size) = IF z < 0 THEN z + 2 * t ELSE z
      BY <3>1, <3>2, <3>3, WrapWithin
    <3> QED BY <3>2, <3>3, <3>4
  <2> QED BY <2>1, <2>2, <2>3, <1>3, Pow2Is
<1>7. ASSUME NEW k \in Nat, k \in S PROVE k + 1 \in S
  <2> SUFFICES ASSUME k + 1 <= n
               PROVE  /\ s[k + 1].v = Wrap(z \div Pow2[k + 1], i.size)
                      /\ z \div Pow2[k + 1] \in Int
                      /\ Fits(z \div Pow2[k + 1], i.size)
    OBVIOUS
  <2>1. k \in 0 .. n - 1 /\ s[k].v = Wrap(z \div Pow2[k], i.size)
    BY <1>7
  <2>2. PICK y \in Int : y = z \div Pow2[k] /\ Fits(y, i.size)
    BY <1>7
  <2>3. z \div Pow2[k + 1] = y \div 2
    BY <2>2, HalvesAgain
  <2>4. /\ (Wrap(y, i.size) \div 2) + (IF Wrap(y, i.size) >= Top(i.size) THEN Top(i.size) ELSE 0)
             = Wrap(y \div 2, i.size)
        /\ y \div 2 \in Int /\ Fits(y \div 2, i.size)
    BY <2>2, HalfWithSign
  <2> QED BY <2>1, <2>2, <2>3, <2>4, <1>5
<1>8. Nat \subseteq S
  <2> HIDE DEF S
  <2> QED BY <1>6, <1>7, Induction
<1>9. s[n].v = Wrap(z \div Pow2[n], i.size)
  BY <1>8
<1>10. s[n].v \in Words(i.size)
  <2>1. n \in 0 .. n
    OBVIOUS
  <2>2. s[n] \in Shifter(i.size)
    BY <1>2, <2>1 DEF Stepped
  <2> QED BY <2>2 DEF Shifter
<1>11. ASSUME n > 0 PROVE s[n].cf = BitAt(z, n - 1)
  <2>1. PICK k \in Nat : n = k + 1 /\ k \in 0 .. n - 1 /\ k = n - 1
    <3>1. n - 1 \in Nat /\ n = (n - 1) + 1 /\ n - 1 \in 0 .. n - 1
      BY <1>11
    <3> QED BY <3>1
  <2>2. PICK y \in Int : y = z \div Pow2[k] /\ Fits(y, i.size) /\ s[k].v = Wrap(y, i.size)
    BY <1>8, <2>1
  <2>3. Wrap(y, i.size) % 2 = y % 2
    BY <2>2, HalfWithSign
  <2>4. s[k + 1].cf = (s[k].v % 2 = 1)
    BY <2>1, <1>5
  <2> QED BY <2>1, <2>2, <2>3, <2>4 DEF BitAt
<1>12. ASSUME n = 1 PROVE Sign(s[1].v, i.size) = Sign(i.a, i.size)
  <2>1. s[0].v = i.a
    BY <1>2 DEF Stepped
  <2>2. 0 \in 0 .. n - 1 /\ 0 + 1 = 1
    BY <1>12
  <2>3. s[1].v = (i.a \div 2) + (IF i.a >= Top(i.size) THEN Top(i.size) ELSE 0)
    BY <2>1, <2>2, <1>5
  <2>4. PICK t \in Nat \ {0} : t = Top(i.size) /\ Span(i.size) = 2 * t
    BY SpanIs
  <2>5. i.a \in Nat /\ i.a < 2 * t
    BY <2>4 DEF Words
  <2>6. s[1].v >= t <=> i.a >= t
    BY <2>3, <2>4, <2>5
  <2> QED BY <2>4, <2>6 DEF Sign
<1> QED BY <1>2, <1>3, <1>9, <1>10, <1>11, <1>12

\* ROL and ROR: the word turned; CF the bit that went round.
LEMMA RolSteps ==
  ASSUME NEW i, i.size \in Sizes, i.a \in Words(i.size), i.op = "rol", NEW n \in Nat
  PROVE  LET x == Arch!Steps(i, n)
         IN  /\ x.v = TurnedLeft(i.a, n % Width(i.size), Width(i.size))
             /\ x.v \in Words(i.size)
             /\ n > 0 => x.cf = (x.v % 2 = 1)
             /\ n = 1 => x.cf = Sign(i.a, i.size)
<1>1. PICK w \in Nat \ {0} : w = Width(i.size) /\ Span(i.size) = Pow2[w] /\ Top(i.size) = Pow2[w - 1]
  BY SpanIs
<1>2. PICK s : Stepped(s, i, n) /\ Arch!Steps(i, n) = s[n]
  BY StepsAre DEF ShiftOps
<1>3. PICK t \in Nat \ {0} : t = Top(i.size) /\ Span(i.size) = 2 * t
  BY SpanIs
<1>4. i.a \in Nat /\ i.a < Pow2[w]
  BY <1>1, <1>3 DEF Words
<1>5. ASSUME NEW k \in 0 .. n - 1
      PROVE  /\ s[k].v \in Nat
             /\ s[k + 1].v = IF s[k].v >= t THEN 2 * s[k].v - 2 * t + 1 ELSE 2 * s[k].v
             /\ s[k + 1].cf = (s[k].v >= t)
  <2>1. k \in 0 .. n
    OBVIOUS
  <2>2. s[k] \in Shifter(i.size) /\ s[k + 1] = Arch!Step(i.op, i.size, s[k])
    BY <1>2, <2>1 DEF Stepped
  <2>3. i.op \in ShiftOps
    BY DEF ShiftOps
  <2>4. s[k].v \in Nat
    BY <2>2, <1>3 DEF Shifter, Words
  <2> QED BY <2>2, <2>3, <2>4, <1>3, StepIs
<1> DEFINE f == [k \in 0 .. n |-> s[k].v]
<1>6. f[0] = i.a /\ f[n] = s[n].v
  <2>1. s[0].v = i.a /\ 0 \in 0 .. n /\ n \in 0 .. n
    BY <1>2 DEF Stepped
  <2> QED BY <2>1
<1>7. ASSUME NEW k \in 0 .. n - 1
      PROVE  f[k + 1] = IF f[k] >= Pow2[w - 1] THEN 2 * f[k] - Pow2[w] + 1 ELSE 2 * f[k]
  <2>1. k \in 0 .. n /\ k + 1 \in 0 .. n
    OBVIOUS
  <2>2. f[k] = s[k].v /\ f[k + 1] = s[k + 1].v
    BY <2>1
  <2> HIDE DEF f
  <2> QED BY <2>2, <1>1, <1>3, <1>5
<1>8. f[n] = TurnedLeft(f[0], n % w, w)
  <2> HIDE DEF f
  <2> QED BY <1>4, <1>6, <1>7, TurningLeft
<1>9. s[n].v \in Words(i.size)
  <2>1. n \in 0 .. n
    OBVIOUS
  <2>2. s[n] \in Shifter(i.size)
    BY <1>2, <2>1 DEF Stepped
  <2> QED BY <2>2 DEF Shifter
<1>10. ASSUME n > 0 PROVE s[n].cf = (s[n].v % 2 = 1)
  <2>1. PICK k \in Nat : n = k + 1 /\ k \in 0 .. n - 1
    <3>1. n - 1 \in Nat /\ n = (n - 1) + 1 /\ n - 1 \in 0 .. n - 1
      BY <1>10
    <3> QED BY <3>1
  <2>2. PICK v \in Nat : v = s[k].v
    BY <2>1, <1>5
  <2>3. s[n].v = (IF v >= t THEN 2 * v - 2 * t + 1 ELSE 2 * v) /\ s[n].cf = (v >= t)
    BY <2>1, <2>2, <1>5
  <2>4. (IF v >= t THEN 2 * v - 2 * t + 1 ELSE 2 * v) % 2 = 1 <=> v >= t
    OBVIOUS
  <2> QED BY <2>3, <2>4
<1>11. ASSUME n = 1 PROVE s[1].cf = Sign(i.a, i.size)
  <2>1. s[0].v = i.a
    BY <1>2 DEF Stepped
  <2>2. 0 \in 0 .. n - 1 /\ 0 + 1 = 1
    BY <1>11
  <2>3. s[1].cf = (i.a >= t)
    BY <2>1, <2>2, <1>5
  <2> QED BY <2>3, <1>3 DEF Sign
<1> HIDE DEF f
<1> QED BY <1>1, <1>2, <1>6, <1>8, <1>9, <1>10, <1>11

LEMMA RorSteps ==
  ASSUME NEW i, i.size \in Sizes, i.a \in Words(i.size), i.op = "ror", NEW n \in Nat
  PROVE  LET x == Arch!Steps(i, n)
         IN  /\ x.v = TurnedRight(i.a, n % Width(i.size), Width(i.size))
             /\ x.v \in Words(i.size)
             /\ n > 0 => x.cf = Sign(x.v, i.size)
             /\ n = 1 => (BitAt(x.v, Width(i.size) - 2) <=> Sign(i.a, i.size))
<1>1. PICK w \in Nat \ {0} : w = Width(i.size) /\ Span(i.size) = Pow2[w] /\ Top(i.size) = Pow2[w - 1]
  BY SpanIs
<1>2. PICK s : Stepped(s, i, n) /\ Arch!Steps(i, n) = s[n]
  BY StepsAre DEF ShiftOps
<1>3. PICK t \in Nat \ {0} : t = Top(i.size) /\ Span(i.size) = 2 * t
  BY SpanIs
<1>4. i.a \in Nat /\ i.a < Pow2[w]
  BY <1>1, <1>3 DEF Words
<1>5. ASSUME NEW k \in 0 .. n - 1
      PROVE  /\ s[k].v \in Nat /\ s[k].v < 2 * t
             /\ s[k + 1].v = (s[k].v \div 2) + (IF s[k].v % 2 = 1 THEN t ELSE 0)
             /\ s[k + 1].cf = (s[k].v % 2 = 1)
  <2>1. k \in 0 .. n
    OBVIOUS
  <2>2. s[k] \in Shifter(i.size) /\ s[k + 1] = Arch!Step(i.op, i.size, s[k])
    BY <1>2, <2>1 DEF Stepped
  <2>3. i.op \in ShiftOps
    BY DEF ShiftOps
  <2>4. s[k].v \in Nat /\ s[k].v < 2 * t
    BY <2>2, <1>3 DEF Shifter, Words
  <2> QED BY <2>2, <2>3, <2>4, <1>3, StepIs
<1> DEFINE f == [k \in 0 .. n |-> s[k].v]
<1>6. f[0] = i.a /\ f[n] = s[n].v
  <2>1. s[0].v = i.a /\ 0 \in 0 .. n /\ n \in 0 .. n
    BY <1>2 DEF Stepped
  <2> QED BY <2>1
<1>7. ASSUME NEW k \in 0 .. n - 1
      PROVE  f[k + 1] = (f[k] \div 2) + (IF f[k] % 2 = 1 THEN Pow2[w - 1] ELSE 0)
  <2>1. k \in 0 .. n /\ k + 1 \in 0 .. n
    OBVIOUS
  <2>2. f[k] = s[k].v /\ f[k + 1] = s[k + 1].v
    BY <2>1
  <2> HIDE DEF f
  <2> QED BY <2>2, <1>1, <1>3, <1>5
<1>8. f[n] = TurnedRight(f[0], n % w, w)
  <2> HIDE DEF f
  <2> QED BY <1>4, <1>6, <1>7, TurningRight
<1>9. s[n].v \in Words(i.size)
  <2>1. n \in 0 .. n
    OBVIOUS
  <2>2. s[n] \in Shifter(i.size)
    BY <1>2, <2>1 DEF Stepped
  <2> QED BY <2>2 DEF Shifter
<1>10. ASSUME n > 0 PROVE s[n].cf = Sign(s[n].v, i.size)
  <2>1. PICK k \in Nat : n = k + 1 /\ k \in 0 .. n - 1
    <3>1. n - 1 \in Nat /\ n = (n - 1) + 1 /\ n - 1 \in 0 .. n - 1
      BY <1>10
    <3> QED BY <3>1
  <2>2. PICK v \in Nat : v = s[k].v /\ v < 2 * t
    BY <2>1, <1>5
  <2>3. s[n].v = (v \div 2) + (IF v % 2 = 1 THEN t ELSE 0) /\ s[n].cf = (v % 2 = 1)
    BY <2>1, <2>2, <1>5
  <2>4. (v \div 2) + (IF v % 2 = 1 THEN t ELSE 0) >= t <=> v % 2 = 1
    BY <2>2
  <2> QED BY <2>3, <2>4, <1>3 DEF Sign
<1>11. ASSUME n = 1 PROVE BitAt(s[1].v, w - 2) <=> Sign(i.a, i.size)
  <2>1. s[0].v = i.a
    BY <1>2 DEF Stepped
  <2>2. 0 \in 0 .. n - 1 /\ 0 + 1 = 1
    BY <1>11
  <2>3. s[1].v = (i.a \div 2) + (IF i.a % 2 = 1 THEN t ELSE 0)
    BY <2>1, <2>2, <1>5
  <2>4. PICK r \in Nat \ {0} : r = Pow2[w - 2] /\ t = 2 * r
    <3>1. w - 2 \in Nat /\ (w - 2) + 1 = w - 1
      BY <1>1, SpanIs
    <3> QED BY <3>1, <1>1, <1>3, Pow2Is
  <2>5. PICK b \in {0, 1}, l \in Nat : i.a = b * t + l /\ l < t /\ (b = 1 <=> i.a >= t)
    <3>1. CASE i.a >= t
      <4>1. i.a - t \in Nat /\ i.a - t < t /\ i.a = 1 * t + (i.a - t)
        BY <3>1, <1>1, <1>3, <1>4
      <4> QED BY <4>1, <3>1
    <3>2. CASE ~(i.a >= t)
      <4>1. i.a < t /\ i.a = 0 * t + i.a
        BY <3>2, <1>4
      <4> QED BY <4>1, <3>2, <1>4
    <3> QED BY <3>1, <3>2
  <2>6. PICK h \in Nat : h = l \div 2 /\ h < r
    <3>1. PICK d \in Nat, e \in {0, 1} : l = 2 * d + e /\ d = l \div 2
      OBVIOUS
    <3>2. d < r
      <4>1. 2 * d + e < 2 * r
        BY <2>4, <2>5, <3>1
      <4>2. e \in Nat
        BY <3>1
      <4> QED BY <4>1, <4>2
    <3> QED BY <3>1, <3>2
  <2>7. PICK c \in {0, 1} : c = 1 <=> i.a % 2 = 1
    OBVIOUS
  <2>8. i.a \div 2 = b * r + h
    <3>1. CASE b = 0
      BY <3>1, <2>5, <2>6
    <3>2. CASE b = 1
      BY <3>2, <2>4, <2>5, <2>6
    <3> QED BY <3>1, <3>2
  <2>9. s[1].v = r * (b + 2 * c) + h
    <3>1. CASE c = 0
      <4>1. s[1].v = b * r + h
        BY <3>1, <2>3, <2>7, <2>8
      <4> QED BY <3>1, <4>1
    <3>2. CASE c = 1
      <4>1. s[1].v = b * r + h + 2 * r
        BY <3>2, <2>3, <2>4, <2>7, <2>8
      <4> QED BY <3>2, <4>1
    <3> QED BY <3>1, <3>2
  <2>10. PICK j \in Int : j = b + 2 * c
    OBVIOUS
  <2>11. (r * j + h) \div r = j
    BY <2>6, DivisionOnly
  <2>12. j % 2 = 1 <=> b = 1
    BY <2>10
  <2> QED BY <2>4, <2>5, <2>9, <2>10, <2>11, <2>12, <1>3 DEF BitAt, Sign
<1> HIDE DEF f
<1> QED BY <1>1, <1>2, <1>6, <1>8, <1>9, <1>10, <1>11

-----------------------------------------------------------------------------
(* RCL and RCR turn a word and the carry, one bit wider than the word *)

\* A recursion of n steps over the states S, each the step of the one before.
Loop(f, S, x0, g, n) ==
  /\ f = [k \in 0 .. n |-> IF k = 0 THEN x0 ELSE g[f[k - 1]]]
  /\ \A k \in 0 .. n : f[k] \in S

LEMMA LoopIs ==
  ASSUME NEW S, NEW x0, x0 \in S, NEW g, g \in [S -> S], NEW n, n \in Nat
  PROVE  \E f : Loop(f, S, x0, g, n)
<1> DEFINE h == [p \in Nat \X S |-> g[p[2]]]
<1>2. PICK f : Iterates(f, h, x0, 0 .. n)
  BY IteratesExist
<1>3. f = [k \in 0 .. n |-> IF k = 0 THEN x0 ELSE h[<<k, f[k - 1]>>]]
  BY <1>2 DEF Iterates
<1>4. \A k \in 0 .. n : f[k] = IF k = 0 THEN x0 ELSE h[<<k, f[k - 1]>>]
  <2> HIDE DEF h
  <2> QED BY <1>3
<1>h. \A k \in Nat, y \in S : h[<<k, y>>] = g[y]
  OBVIOUS
<1> HIDE DEF h
<1> DEFINE R == {k \in Nat : k <= n => f[k] \in S}
<1>5. 0 \in R
  <2>1. 0 \in 0 .. n
    OBVIOUS
  <2> QED BY <2>1, <1>4
<1>6. ASSUME NEW k \in Nat, k \in R PROVE k + 1 \in R
  <2> SUFFICES ASSUME k + 1 <= n PROVE f[k + 1] \in S
    OBVIOUS
  <2>1. k + 1 # 0 /\ k + 1 \in Nat /\ k + 1 \in 0 .. n /\ (k + 1) - 1 = k /\ f[k] \in S
    BY <1>6
  <2>2. f[k + 1] = h[<<k + 1, f[k]>>]
    BY <1>4, <2>1
  <2> QED BY <2>1, <2>2, <1>h
<1>7. Nat \subseteq R
  <2> HIDE DEF R
  <2> QED BY <1>5, <1>6, Induction
<1>8. \A k \in 0 .. n : f[k] \in S
  BY <1>7
<1> HIDE DEF R
<1>9. ASSUME NEW k \in 0 .. n
      PROVE  f[k] = IF k = 0 THEN x0 ELSE g[f[k - 1]]
  <2>1. CASE k = 0
    BY <2>1, <1>4
  <2>2. CASE k # 0
    <3>1. k - 1 \in 0 .. n /\ k \in Nat /\ f[k - 1] \in S
      BY <2>2, <1>8
    <3>2. f[k] = h[<<k, f[k - 1]>>]
      BY <1>4, <2>2
    <3> QED BY <2>2, <3>1, <3>2, <1>h
  <2> QED BY <2>1, <2>2
<1>10. f = [k \in 0 .. n |-> f[k]]
  BY <1>3
<1>11. f = [k \in 0 .. n |-> IF k = 0 THEN x0 ELSE g[f[k - 1]]]
  BY <1>9, <1>10
<1> QED BY <1>8, <1>11 DEF Loop

\* v[k] and c[k] are the word and the carry after k steps of n.
TurnsLeft(v, c, n, size) ==
  /\ \A k \in 0 .. n : v[k] \in Words(size) /\ c[k] \in {0, 1}
  /\ \A k \in 0 .. n - 1 :
       /\ v[k + 1] = (IF v[k] >= Top(size) THEN 2 * v[k] - 2 * Top(size)
                      ELSE 2 * v[k]) + c[k]
       /\ c[k + 1] = IF v[k] >= Top(size) THEN 1 ELSE 0
TurnsRight(v, c, n, size) ==
  /\ \A k \in 0 .. n : v[k] \in Words(size) /\ c[k] \in {0, 1}
  /\ \A k \in 0 .. n - 1 : /\ v[k + 1] = (v[k] \div 2) + c[k] * Top(size)
                           /\ c[k + 1] = v[k] % 2

LEMMA WithCarry ==
  ASSUME NEW size \in Sizes, NEW v \in Words(size), NEW c \in {0, 1}
  PROVE  /\ c * Span(size) + v \in Nat
         /\ c * Span(size) + v < Pow2[Width(size) + 1]
         /\ Pow2[Width(size) + 1] = 2 * Span(size) /\ Pow2[Width(size)] = Span(size)
         /\ Width(size) \in Nat /\ Width(size) > 0
<1>1. PICK s \in Nat : s = Span(size) /\ s > 0
  BY SpanIs
<1>2. Width(size) \in Nat /\ Width(size) > 0 /\ Pow2[Width(size)] = s
  BY SpanIs, <1>1
<1>3. Pow2[Width(size) + 1] = 2 * s
  BY <1>2, Pow2Is
<1>4. v \in Nat /\ v < s
  BY <1>1 DEF Words
<1>5. c * s + v \in Nat /\ c * s + v < 2 * s
  <2>1. CASE c = 0
    BY <2>1, <1>4
  <2>2. CASE c = 1
    BY <2>2, <1>4
  <2> QED BY <2>1, <2>2
<1> QED BY <1>1, <1>2, <1>3, <1>5

LEMMA CarrySplits ==
  ASSUME NEW size \in Sizes, NEW v \in Words(size), NEW c \in {0, 1},
         NEW u \in Words(size), NEW d \in {0, 1}
  PROVE  c * Span(size) + v = d * Span(size) + u => v = u /\ c = d
<1>1. PICK s \in Nat : s = Span(size)
  BY SpanIs
<1>0. v \in Nat /\ v < s /\ u \in Nat /\ u < s
  BY <1>1 DEF Words
<1>2. SUFFICES ASSUME c * s + v = d * s + u PROVE v = u /\ c = d
  BY <1>1
<1>3. CASE c = 0 /\ d = 0
  BY <1>0, <1>2, <1>3
<1>4. CASE c = 1 /\ d = 1
  BY <1>0, <1>2, <1>4
<1>5. CASE c = 0 /\ d = 1
  BY <1>0, <1>2, <1>5
<1>6. CASE c = 1 /\ d = 0
  BY <1>0, <1>2, <1>6
<1> QED BY <1>3, <1>4, <1>5, <1>6

LEMMA TurnsLeftIs ==
  ASSUME NEW size \in Sizes, NEW n \in Nat, NEW v, NEW c, TurnsLeft(v, c, n, size)
  PROVE  c[n] * Span(size) + v[n]
           = TurnedLeft(c[0] * Span(size) + v[0], n % (Width(size) + 1), Width(size) + 1)
<1> DEFINE f == [k \in 0 .. n |-> c[k] * Span(size) + v[k]]
           w == Width(size) + 1
<1>1. PICK t \in Nat : t = Top(size) /\ Span(size) = 2 * t
  BY SpanIs
<1>2. w \in Nat \ {0} /\ w - 1 = Width(size)
  BY SpanIs
<1>3. \A k \in 0 .. n : f[k] \in Nat /\ f[k] < Pow2[w]
  BY WithCarry DEF TurnsLeft
<1>4. ASSUME NEW k \in 0 .. n - 1
      PROVE  f[k + 1] = IF f[k] >= Pow2[w - 1] THEN 2 * f[k] - Pow2[w] + 1 ELSE 2 * f[k]
  <2>1. k \in 0 .. n /\ k + 1 \in 0 .. n
    OBVIOUS
  <2>2. PICK a \in Nat, b \in {0, 1} : a = v[k] /\ b = c[k] /\ a < 2 * t
    <3>1. v[k] \in Words(size) /\ c[k] \in {0, 1}
      BY <2>1 DEF TurnsLeft
    <3> QED BY <3>1, <1>1 DEF Words
  <2>3. f[k] = b * (2 * t) + a
    BY <2>1, <2>2, <1>1
  <2>4. Pow2[w - 1] = 2 * t /\ Pow2[w] = 4 * t
    <3>1. Pow2[Width(size) + 1] = 2 * Span(size) /\ Pow2[Width(size)] = Span(size)
      BY <2>1, WithCarry DEF TurnsLeft
    <3> QED BY <3>1, <1>1, <1>2
  <2>5. /\ v[k + 1] = (IF a >= t THEN 2 * a - 2 * t ELSE 2 * a) + b
        /\ c[k + 1] = IF a >= t THEN 1 ELSE 0
    BY <2>2, <1>1 DEF TurnsLeft
  <2>6. f[k + 1] = 2 * a + b
    <3>1. f[k + 1] = c[k + 1] * (2 * t) + v[k + 1]
      BY <2>1, <1>1
    <3>2. CASE a >= t
      BY <3>1, <3>2, <2>5
    <3>3. CASE ~(a >= t)
      BY <3>1, <3>3, <2>5
    <3> QED BY <3>2, <3>3
  <2>7. CASE b = 0
    BY <2>2, <2>3, <2>4, <2>6, <2>7
  <2>8. CASE b = 1
    BY <2>2, <2>3, <2>4, <2>6, <2>8
  <2> QED BY <2>7, <2>8
<1>5. 0 \in 0 .. n /\ n \in 0 .. n
  OBVIOUS
<1>6. f[0] = c[0] * Span(size) + v[0] /\ f[n] = c[n] * Span(size) + v[n]
  BY <1>5
<1>7. f[0] \in Nat /\ f[0] < Pow2[w]
  BY <1>3, <1>5
<1> HIDE DEF f, w
<1>8. f[n] = TurnedLeft(f[0], n % w, w)
  BY <1>2, <1>4, <1>7, TurningLeft
<1> QED BY <1>6, <1>8 DEF w

LEMMA TurnsRightIs ==
  ASSUME NEW size \in Sizes, NEW n \in Nat, NEW v, NEW c, TurnsRight(v, c, n, size)
  PROVE  c[n] * Span(size) + v[n]
           = TurnedRight(c[0] * Span(size) + v[0], n % (Width(size) + 1), Width(size) + 1)
<1> DEFINE f == [k \in 0 .. n |-> c[k] * Span(size) + v[k]]
           w == Width(size) + 1
<1>1. PICK t \in Nat : t = Top(size) /\ Span(size) = 2 * t
  BY SpanIs
<1>2. w \in Nat \ {0} /\ w - 1 = Width(size)
  BY SpanIs
<1>3. \A k \in 0 .. n : f[k] \in Nat /\ f[k] < Pow2[w]
  BY WithCarry DEF TurnsRight
<1>4. ASSUME NEW k \in 0 .. n - 1
      PROVE  f[k + 1] = (f[k] \div 2) + (IF f[k] % 2 = 1 THEN Pow2[w - 1] ELSE 0)
  <2>1. k \in 0 .. n /\ k + 1 \in 0 .. n
    OBVIOUS
  <2>2. PICK a \in Nat, b \in {0, 1} : a = v[k] /\ b = c[k] /\ a < 2 * t
    <3>1. v[k] \in Words(size) /\ c[k] \in {0, 1}
      BY <2>1 DEF TurnsRight
    <3> QED BY <3>1, <1>1 DEF Words
  <2>3. f[k] = b * (2 * t) + a
    BY <2>1, <2>2, <1>1
  <2>4. Pow2[w - 1] = 2 * t
    <3>1. Pow2[Width(size)] = Span(size)
      BY <2>1, WithCarry DEF TurnsRight
    <3> QED BY <3>1, <1>1, <1>2
  <2>5. v[k + 1] = (a \div 2) + b * t /\ c[k + 1] = a % 2
    BY <2>2, <1>1 DEF TurnsRight
  <2>6. PICK d \in Nat, e \in {0, 1} : a = 2 * d + e /\ d = a \div 2 /\ e = a % 2
    OBVIOUS
  <2>7. f[k + 1] = e * (2 * t) + (d + b * t)
    <3>1. f[k + 1] = c[k + 1] * (2 * t) + v[k + 1]
      BY <2>1, <1>1
    <3> QED BY <3>1, <2>5, <2>6
  <2>8. f[k] \div 2 = d + b * t /\ f[k] % 2 = e
    <3>1. CASE b = 0
      BY <3>1, <2>3, <2>6
    <3>2. CASE b = 1
      <4>1. f[k] = 2 * (d + t) + e
        BY <3>2, <2>3, <2>6
      <4>2. PICK q \in Nat : q = d + t
        OBVIOUS
      <4>3. f[k] \div 2 = q /\ f[k] % 2 = e
        BY <4>1, <4>2
      <4> QED BY <3>2, <4>2, <4>3
    <3> QED BY <3>1, <3>2
  <2>9. CASE e = 0
    BY <2>4, <2>7, <2>8, <2>9
  <2>10. CASE e = 1
    <3>1. b * t \in Nat
      <4>1. CASE b = 0
        BY <4>1
      <4>2. CASE b = 1
        BY <4>2
      <4> QED BY <4>1, <4>2
    <3>2. PICK z \in Nat : z = d + b * t
      BY <3>1
    <3> QED BY <3>2, <2>4, <2>7, <2>8, <2>10
  <2> QED BY <2>9, <2>10
<1>5. 0 \in 0 .. n /\ n \in 0 .. n
  OBVIOUS
<1>6. f[0] = c[0] * Span(size) + v[0] /\ f[n] = c[n] * Span(size) + v[n]
  BY <1>5
<1>7. f[0] \in Nat /\ f[0] < Pow2[w]
  BY <1>3, <1>5
<1> HIDE DEF f, w
<1>8. f[n] = TurnedRight(f[0], n % w, w)
  BY <1>2, <1>4, <1>7, TurningRight
<1> QED BY <1>6, <1>8 DEF w

\* The words and carries that the code's loops go through.
Turner(size) == [v : Words(size), cf : {0, 1}]

\* A step of RCL and of RCR, in the form of TurnsLeft and TurnsRight.
LEMMA TurnerSteps ==
  ASSUME NEW size \in Sizes, NEW x \in Turner(size)
  PROVE  /\ Wrap(2 * x.v + x.cf, size)
              = (IF x.v >= Top(size) THEN 2 * x.v - 2 * Top(size) ELSE 2 * x.v) + x.cf
         /\ Wrap(2 * x.v + x.cf, size) \in Words(size)
         /\ (x.v \div 2) + x.cf * Top(size) \in Words(size)
         /\ x.v % 2 \in {0, 1}
<1>1. PICK t \in Nat : t = Top(size) /\ Span(size) = 2 * t /\ t >= 128
  BY SpanIs
<1>2. PICK a \in Nat, b \in {0, 1} : a = x.v /\ b = x.cf /\ a < 2 * t
  <2>1. x.v \in Words(size) /\ x.cf \in {0, 1}
    BY DEF Turner
  <2> QED BY <2>1, <1>1 DEF Words
<1>3. PICK z \in Int : z = 2 * a + b
  BY <1>2
<1>4. -Span(size) <= z /\ z < 2 * Span(size)
  BY <1>1, <1>2, <1>3
<1>5. Wrap(z, size) = IF z < 0 THEN z + Span(size)
                      ELSE IF z < Span(size) THEN z ELSE z - Span(size)
  BY <1>4, WrapWithin
<1>6. Wrap(z, size) = (IF a >= t THEN 2 * a - 2 * t ELSE 2 * a) + b
  <2>1. CASE a >= t
    BY <2>1, <1>1, <1>2, <1>3, <1>5
  <2>2. CASE ~(a >= t)
    BY <2>2, <1>1, <1>2, <1>3, <1>5
  <2> QED BY <2>1, <2>2
<1>7. Wrap(z, size) \in Words(size)
  BY WrapIs
<1>8. (a \div 2) + b * t \in Words(size)
  <2>1. PICK d \in Nat, e \in {0, 1} : a = 2 * d + e /\ d = a \div 2
    OBVIOUS
  <2>2. d < t
    <3>1. e \in Nat
      BY <2>1
    <3> QED BY <3>1, <2>1, <1>2
  <2>3. d + b * t \in Nat /\ d + b * t < 2 * t
    <3>1. CASE b = 0
      BY <3>1, <2>2
    <3>2. CASE b = 1
      BY <3>2, <2>2
    <3> QED BY <3>1, <3>2
  <2> QED BY <2>1, <2>3, <1>1 DEF Words
<1>9. a % 2 \in {0, 1}
  OBVIOUS
<1> QED BY <1>1, <1>2, <1>3, <1>6, <1>7, <1>8, <1>9

LEMMA RclLoopIs ==
  ASSUME NEW i, i.size \in Sizes, i.a \in Words(i.size), NEW n \in Nat
  PROVE  \E v, c : /\ TurnsLeft(v, c, n, i.size)
                   /\ v[0] = i.a /\ c[0] = CarryOf(Synced)
                   /\ RclLoop(i, n).v = v[n] /\ RclLoop(i, n).cf = c[n]
<1> DEFINE S == Turner(i.size)
           x0 == [v |-> i.a, cf |-> CarryOf(Synced)]
           step(x) == [v |-> Wrap(2 * x.v + x.cf, i.size),
                       cf |-> IF Sign(x.v, i.size) THEN 1 ELSE 0]
           g == [x \in S |-> step(x)]
           x == CHOOSE x : x = [k \in 0 .. n |-> IF k = 0 THEN x0 ELSE step(x[k - 1])]
<1>1. x0 \in S
  BY DEF Turner, CarryOf
<1>2. \A y \in S : step(y) \in S
  BY TurnerSteps DEF Turner
<1>3. RclLoop(i, n) = x[n]
  BY DEF RclLoop
<1>4. g \in [S -> S] /\ \A y \in S : g[y] = step(y)
  <2> HIDE DEF S, step
  <2> QED BY <1>2
<1> HIDE DEF g
<1>p. PICK f : Loop(f, S, x0, g, n)
  <2> HIDE DEF S, step, x0
  <2> QED BY <1>1, <1>4, LoopIs
<1>5. /\ f = [k \in 0 .. n |-> IF k = 0 THEN x0 ELSE g[f[k - 1]]]
      /\ \A k \in 0 .. n : f[k] \in S
  BY <1>p DEF Loop
<1>6. \A k \in 0 .. n : k # 0 => k - 1 \in 0 .. n
  OBVIOUS
<1>7. f = [k \in 0 .. n |-> IF k = 0 THEN x0 ELSE step(f[k - 1])]
  <2>1. \A k \in 0 .. n : f[k] = IF k = 0 THEN x0 ELSE step(f[k - 1])
    <3> HIDE DEF S, step, x0
    <3> QED BY <1>4, <1>5, <1>6
  <2>2. f = [k \in 0 .. n |-> f[k]]
    <3> HIDE DEF S, step, x0
    <3> QED BY <1>5
  <2> HIDE DEF S, step, x0
  <2> QED BY <2>1, <2>2
<1>8. x = [k \in 0 .. n |-> IF k = 0 THEN x0 ELSE step(x[k - 1])]
  <2>1. \E h : h = [k \in 0 .. n |-> IF k = 0 THEN x0 ELSE step(h[k - 1])]
    <3> HIDE DEF S, step, x0
    <3> QED BY <1>7, Zenon
  <2> QED BY <2>1, Zenon
<1> HIDE DEF x
<1>9. /\ x[0] = x0
      /\ \A k \in 0 .. n - 1 : x[k + 1] = step(x[k])
  <2>1. 0 \in 0 .. n
    OBVIOUS
  <2>2. \A k \in 0 .. n - 1 : k + 1 \in 0 .. n /\ k + 1 # 0 /\ (k + 1) - 1 = k
    OBVIOUS
  <2> HIDE DEF S, step, x0
  <2> QED BY <1>8, <2>1, <2>2
<1> DEFINE R == {k \in Nat : k <= n => x[k] \in S}
<1>10. 0 \in R
  BY <1>1, <1>9
<1>11. ASSUME NEW k \in Nat, k \in R PROVE k + 1 \in R
  <2> SUFFICES ASSUME k + 1 <= n PROVE x[k + 1] \in S
    OBVIOUS
  <2>1. k \in 0 .. n - 1 /\ x[k] \in S
    BY <1>11
  <2> HIDE DEF S, step, x0
  <2> QED BY <2>1, <1>2, <1>9
<1>12. Nat \subseteq R
  <2> HIDE DEF R
  <2> QED BY <1>10, <1>11, Induction
<1>13. \A k \in 0 .. n : x[k] \in S
  BY <1>12
<1> DEFINE v == [k \in 0 .. n |-> x[k].v]
           c == [k \in 0 .. n |-> x[k].cf]
<1>14. TurnsLeft(v, c, n, i.size)
  <2>1. \A k \in 0 .. n : v[k] \in Words(i.size) /\ c[k] \in {0, 1}
    BY <1>13 DEF Turner
  <2>2. ASSUME NEW k \in 0 .. n - 1
        PROVE  /\ v[k + 1] = (IF v[k] >= Top(i.size) THEN 2 * v[k] - 2 * Top(i.size)
                              ELSE 2 * v[k]) + c[k]
               /\ c[k + 1] = IF v[k] >= Top(i.size) THEN 1 ELSE 0
    <3>1. k \in 0 .. n /\ k + 1 \in 0 .. n
      OBVIOUS
    <3>2. v[k] = x[k].v /\ c[k] = x[k].cf /\ v[k + 1] = x[k + 1].v /\ c[k + 1] = x[k + 1].cf
      BY <3>1
    <3>3. x[k + 1] = step(x[k])
      <4> HIDE DEF step
      <4> QED BY <1>9
    <3>4. x[k] \in Turner(i.size)
      BY <1>13, <3>1
    <3> HIDE DEF v, c
    <3> QED BY <3>2, <3>3, <3>4, TurnerSteps DEF Sign
  <2> HIDE DEF v, c
  <2> QED BY <2>1, <2>2 DEF TurnsLeft
<1>15. 0 \in 0 .. n /\ n \in 0 .. n
  OBVIOUS
<1>16. v[0] = i.a /\ c[0] = CarryOf(Synced) /\ v[n] = x[n].v /\ c[n] = x[n].cf
  BY <1>9, <1>15
<1> HIDE DEF v, c
<1> QED BY <1>3, <1>14, <1>16, Zenon

LEMMA RcrLoopIs ==
  ASSUME NEW i, i.size \in Sizes, i.a \in Words(i.size), NEW n \in Nat
  PROVE  \E v, c : /\ TurnsRight(v, c, n, i.size)
                   /\ v[0] = i.a /\ c[0] = CarryOf(Synced)
                   /\ RcrLoop(i, n).v = v[n] /\ RcrLoop(i, n).cf = c[n]
<1> DEFINE S == Turner(i.size)
           x0 == [v |-> i.a, cf |-> CarryOf(Synced)]
           step(x) == [v |-> (x.v \div 2) + x.cf * Top(i.size), cf |-> x.v % 2]
           g == [x \in S |-> step(x)]
           x == CHOOSE x : x = [k \in 0 .. n |-> IF k = 0 THEN x0 ELSE step(x[k - 1])]
<1>1. x0 \in S
  BY DEF Turner, CarryOf
<1>2. \A y \in S : step(y) \in S
  BY TurnerSteps DEF Turner
<1>3. RcrLoop(i, n) = x[n]
  BY DEF RcrLoop
<1>4. g \in [S -> S] /\ \A y \in S : g[y] = step(y)
  <2> HIDE DEF S, step
  <2> QED BY <1>2
<1> HIDE DEF g
<1>p. PICK f : Loop(f, S, x0, g, n)
  <2> HIDE DEF S, step, x0
  <2> QED BY <1>1, <1>4, LoopIs
<1>5. /\ f = [k \in 0 .. n |-> IF k = 0 THEN x0 ELSE g[f[k - 1]]]
      /\ \A k \in 0 .. n : f[k] \in S
  BY <1>p DEF Loop
<1>6. \A k \in 0 .. n : k # 0 => k - 1 \in 0 .. n
  OBVIOUS
<1>7. f = [k \in 0 .. n |-> IF k = 0 THEN x0 ELSE step(f[k - 1])]
  <2>1. \A k \in 0 .. n : f[k] = IF k = 0 THEN x0 ELSE step(f[k - 1])
    <3> HIDE DEF S, step, x0
    <3> QED BY <1>4, <1>5, <1>6
  <2>2. f = [k \in 0 .. n |-> f[k]]
    <3> HIDE DEF S, step, x0
    <3> QED BY <1>5
  <2> HIDE DEF S, step, x0
  <2> QED BY <2>1, <2>2
<1>8. x = [k \in 0 .. n |-> IF k = 0 THEN x0 ELSE step(x[k - 1])]
  <2>1. \E h : h = [k \in 0 .. n |-> IF k = 0 THEN x0 ELSE step(h[k - 1])]
    <3> HIDE DEF S, step, x0
    <3> QED BY <1>7, Zenon
  <2> QED BY <2>1, Zenon
<1> HIDE DEF x
<1>9. /\ x[0] = x0
      /\ \A k \in 0 .. n - 1 : x[k + 1] = step(x[k])
  <2>1. 0 \in 0 .. n
    OBVIOUS
  <2>2. \A k \in 0 .. n - 1 : k + 1 \in 0 .. n /\ k + 1 # 0 /\ (k + 1) - 1 = k
    OBVIOUS
  <2> HIDE DEF S, step, x0
  <2> QED BY <1>8, <2>1, <2>2
<1> DEFINE R == {k \in Nat : k <= n => x[k] \in S}
<1>10. 0 \in R
  BY <1>1, <1>9
<1>11. ASSUME NEW k \in Nat, k \in R PROVE k + 1 \in R
  <2> SUFFICES ASSUME k + 1 <= n PROVE x[k + 1] \in S
    OBVIOUS
  <2>1. k \in 0 .. n - 1 /\ x[k] \in S
    BY <1>11
  <2> HIDE DEF S, step, x0
  <2> QED BY <2>1, <1>2, <1>9
<1>12. Nat \subseteq R
  <2> HIDE DEF R
  <2> QED BY <1>10, <1>11, Induction
<1>13. \A k \in 0 .. n : x[k] \in S
  BY <1>12
<1> DEFINE v == [k \in 0 .. n |-> x[k].v]
           c == [k \in 0 .. n |-> x[k].cf]
<1>14. TurnsRight(v, c, n, i.size)
  <2>1. \A k \in 0 .. n : v[k] \in Words(i.size) /\ c[k] \in {0, 1}
    BY <1>13 DEF Turner
  <2>2. ASSUME NEW k \in 0 .. n - 1
        PROVE  v[k + 1] = (v[k] \div 2) + c[k] * Top(i.size) /\ c[k + 1] = v[k] % 2
    <3>1. k \in 0 .. n /\ k + 1 \in 0 .. n
      OBVIOUS
    <3>2. v[k] = x[k].v /\ c[k] = x[k].cf /\ v[k + 1] = x[k + 1].v /\ c[k + 1] = x[k + 1].cf
      BY <3>1
    <3>3. x[k + 1] = step(x[k])
      <4> HIDE DEF step
      <4> QED BY <1>9
    <3> HIDE DEF v, c
    <3> QED BY <3>2, <3>3
  <2> HIDE DEF v, c
  <2> QED BY <2>1, <2>2 DEF TurnsRight
<1>15. 0 \in 0 .. n /\ n \in 0 .. n
  OBVIOUS
<1>16. v[0] = i.a /\ c[0] = CarryOf(Synced) /\ v[n] = x[n].v /\ c[n] = x[n].cf
  BY <1>9, <1>15
<1> HIDE DEF v, c
<1> QED BY <1>3, <1>14, <1>16, Zenon

LEMMA ArchRcl ==
  ASSUME NEW i, i.size \in Sizes, i.a \in Words(i.size), i.op = "rcl", NEW n \in Nat
  PROVE  \E v, c : /\ TurnsLeft(v, c, n, i.size)
                   /\ v[0] = i.a /\ c[0] = CarryOf(Synced)
                   /\ Arch!Steps(i, n).v = v[n]
                   /\ c[n] = IF Arch!Steps(i, n).cf THEN 1 ELSE 0
                   /\ Arch!Steps(i, n).cf \in BOOLEAN
<1>1. PICK s : Stepped(s, i, n) /\ Arch!Steps(i, n) = s[n]
  BY StepsAre DEF ShiftOps
<1>2. /\ s[0] = [v |-> i.a, cf |-> "CF" \in Visible(rflags, cc)]
      /\ \A k \in 0 .. n - 1 : s[k + 1] = Arch!Step(i.op, i.size, s[k])
      /\ \A k \in 0 .. n : s[k] \in Shifter(i.size)
  BY <1>1 DEF Stepped
<1> DEFINE v == [k \in 0 .. n |-> s[k].v]
           c == [k \in 0 .. n |-> IF s[k].cf THEN 1 ELSE 0]
<1>3. TurnsLeft(v, c, n, i.size)
  <2>1. \A k \in 0 .. n : v[k] \in Words(i.size) /\ c[k] \in {0, 1}
    BY <1>2 DEF Shifter
  <2>2. ASSUME NEW k \in 0 .. n - 1
        PROVE  /\ v[k + 1] = (IF v[k] >= Top(i.size) THEN 2 * v[k] - 2 * Top(i.size)
                              ELSE 2 * v[k]) + c[k]
               /\ c[k + 1] = IF v[k] >= Top(i.size) THEN 1 ELSE 0
    <3>1. k \in 0 .. n /\ k + 1 \in 0 .. n
      OBVIOUS
    <3>2. /\ v[k] = s[k].v /\ c[k] = IF s[k].cf THEN 1 ELSE 0
          /\ v[k + 1] = s[k + 1].v /\ c[k + 1] = IF s[k + 1].cf THEN 1 ELSE 0
      BY <3>1
    <3>3. s[k + 1] = Arch!Step(i.op, i.size, s[k]) /\ s[k] \in Shifter(i.size)
      BY <1>2, <3>1
    <3>4. /\ s[k + 1].v = (IF s[k].v >= Top(i.size) THEN 2 * s[k].v - 2 * Top(i.size)
                           ELSE 2 * s[k].v) + (IF s[k].cf THEN 1 ELSE 0)
          /\ s[k + 1].cf = (s[k].v >= Top(i.size))
      BY <3>3, StepIs DEF ShiftOps
    <3> HIDE DEF v, c
    <3> QED BY <3>2, <3>4
  <2> HIDE DEF v, c
  <2> QED BY <2>1, <2>2 DEF TurnsLeft
<1>4. 0 \in 0 .. n /\ n \in 0 .. n
  OBVIOUS
<1>5. v[0] = i.a /\ c[0] = CarryOf(Synced)
  <2>1. v[0] = s[0].v /\ c[0] = IF s[0].cf THEN 1 ELSE 0
    BY <1>4
  <2>2. s[0].v = i.a /\ s[0].cf = ("CF" \in Visible(rflags, cc))
    BY <1>2
  <2>3. CarryOf(Synced) = IF "CF" \in Visible(rflags, cc) THEN 1 ELSE 0
    BY DEF CarryOf, Synced
  <2> HIDE DEF v, c
  <2> QED BY <2>1, <2>2, <2>3
<1>6. v[n] = s[n].v /\ c[n] = IF s[n].cf THEN 1 ELSE 0
  BY <1>4
<1>7. s[n].cf \in BOOLEAN
  BY <1>2, <1>4 DEF Shifter
<1> HIDE DEF v, c
<1>8. c[n] = IF Arch!Steps(i, n).cf THEN 1 ELSE 0
  BY <1>1, <1>6
<1> QED BY <1>1, <1>3, <1>5, <1>6, <1>7, <1>8

\* The code's loop, which leaves out whole turns, is RCL step by step.
LEMMA RclSteps ==
  ASSUME NEW i, i.size \in Sizes, i.a \in Words(i.size), i.op = "rcl", NEW n \in Nat
  PROVE  LET x == Arch!Steps(i, n)
             y == RclLoop(i, n % (Width(i.size) + 1))
         IN  /\ x.v = y.v /\ (x.cf <=> y.cf = 1) /\ x.v \in Words(i.size)
             /\ n % (Width(i.size) + 1) = 0 =>
                  x.v = i.a /\ (x.cf <=> "CF" \in Visible(rflags, cc))
             /\ n = 1 => (x.cf <=> Sign(i.a, i.size))
<1> DEFINE w == Width(i.size) + 1
           m == n % w
           c0 == CarryOf(Synced)
<1>1. w \in Nat \ {0}
  BY SpanIs
<1>2. m \in Nat /\ m < w
  BY <1>1, DivisionIs
<1>3. m % w = m
  BY <1>1, <1>2
<1>4. PICK v, c : /\ TurnsLeft(v, c, n, i.size) /\ v[0] = i.a /\ c[0] = c0
                  /\ Arch!Steps(i, n).v = v[n]
                  /\ c[n] = IF Arch!Steps(i, n).cf THEN 1 ELSE 0
                  /\ Arch!Steps(i, n).cf \in BOOLEAN
  BY ArchRcl
<1>5. PICK a, b : /\ TurnsLeft(a, b, m, i.size) /\ a[0] = i.a /\ b[0] = c0
                  /\ RclLoop(i, m).v = a[m] /\ RclLoop(i, m).cf = b[m]
  BY <1>2, RclLoopIs
<1> DEFINE u == c0 * Span(i.size) + i.a
<1>6. c[n] * Span(i.size) + v[n] = TurnedLeft(u, m, w)
  <2>1. c[n] * Span(i.size) + v[n]
          = TurnedLeft(c[0] * Span(i.size) + v[0], n % (Width(i.size) + 1), Width(i.size) + 1)
    BY <1>4, TurnsLeftIs
  <2> QED BY <2>1, <1>4
<1>7. b[m] * Span(i.size) + a[m] = TurnedLeft(u, m, w)
  <2> HIDE DEF m
  <2>1. b[m] * Span(i.size) + a[m]
          = TurnedLeft(b[0] * Span(i.size) + a[0], m % (Width(i.size) + 1), Width(i.size) + 1)
    BY <1>2, <1>5, TurnsLeftIs
  <2> QED BY <2>1, <1>3, <1>5
<1>8. /\ v[n] \in Words(i.size) /\ c[n] \in {0, 1}
      /\ a[m] \in Words(i.size) /\ b[m] \in {0, 1}
      /\ c0 \in {0, 1}
  <2>1. n \in 0 .. n
    OBVIOUS
  <2>2. m \in 0 .. m
    <3> HIDE DEF m
    <3> QED BY <1>2
  <2>3. c0 \in {0, 1}
    BY DEF CarryOf
  <2> QED BY <2>1, <2>2, <2>3, <1>4, <1>5 DEF TurnsLeft
<1> HIDE DEF m
<1>9. v[n] = a[m] /\ c[n] = b[m]
  <2>1. c[n] * Span(i.size) + v[n] = b[m] * Span(i.size) + a[m]
    BY <1>6, <1>7
  <2> QED BY <2>1, <1>8, CarrySplits
<1>10. ASSUME m = 0 PROVE v[n] = i.a /\ c[n] = c0
  <2>1. u \in Nat /\ u < Pow2[w]
    BY <1>8, WithCarry
  <2>2. TurnedLeft(u, 0, w) = u
    <3> HIDE DEF u, w
    <3> QED BY <2>1, <1>1, TurnedNone
  <2>3. c[n] * Span(i.size) + v[n] = c0 * Span(i.size) + i.a
    BY <1>6, <2>2, <1>10
  <2> QED BY <2>3, <1>8, CarrySplits
<1>11. c0 = 1 <=> "CF" \in Visible(rflags, cc)
  BY DEF CarryOf, Synced
<1>12. ASSUME n = 1 PROVE c[n] = 1 <=> Sign(i.a, i.size)
  <2>1. 0 \in 0 .. n - 1 /\ 0 + 1 = 1
    BY <1>12
  <2>2. c[1] = IF i.a >= Top(i.size) THEN 1 ELSE 0
    BY <2>1, <1>4 DEF TurnsLeft
  <2> QED BY <2>2, <1>12 DEF Sign
<1>13. Arch!Steps(i, n).cf <=> c[n] = 1
  BY <1>4
<1>14. /\ Arch!Steps(i, n).v = RclLoop(i, m).v
       /\ (Arch!Steps(i, n).cf <=> RclLoop(i, m).cf = 1)
       /\ Arch!Steps(i, n).v \in Words(i.size)
  <2> HIDE DEF w, c0, u
  <2> QED BY <1>4, <1>5, <1>8, <1>9, <1>13
<1>15. m = 0 => /\ Arch!Steps(i, n).v = i.a
               /\ (Arch!Steps(i, n).cf <=> "CF" \in Visible(rflags, cc))
  <2> HIDE DEF w, c0, u
  <2> QED BY <1>4, <1>10, <1>11, <1>13
<1>16. n = 1 => (Arch!Steps(i, n).cf <=> Sign(i.a, i.size))
  BY <1>12, <1>13
<1> QED BY <1>14, <1>15, <1>16, Zenon DEF m, w

LEMMA ArchRcr ==
  ASSUME NEW i, i.size \in Sizes, i.a \in Words(i.size), i.op = "rcr", NEW n \in Nat
  PROVE  \E v, c : /\ TurnsRight(v, c, n, i.size)
                   /\ v[0] = i.a /\ c[0] = CarryOf(Synced)
                   /\ Arch!Steps(i, n).v = v[n]
                   /\ c[n] = IF Arch!Steps(i, n).cf THEN 1 ELSE 0
                   /\ Arch!Steps(i, n).cf \in BOOLEAN
<1>1. PICK s : Stepped(s, i, n) /\ Arch!Steps(i, n) = s[n]
  BY StepsAre DEF ShiftOps
<1>2. /\ s[0] = [v |-> i.a, cf |-> "CF" \in Visible(rflags, cc)]
      /\ \A k \in 0 .. n - 1 : s[k + 1] = Arch!Step(i.op, i.size, s[k])
      /\ \A k \in 0 .. n : s[k] \in Shifter(i.size)
  BY <1>1 DEF Stepped
<1> DEFINE v == [k \in 0 .. n |-> s[k].v]
           c == [k \in 0 .. n |-> IF s[k].cf THEN 1 ELSE 0]
<1>3. TurnsRight(v, c, n, i.size)
  <2>1. \A k \in 0 .. n : v[k] \in Words(i.size) /\ c[k] \in {0, 1}
    BY <1>2 DEF Shifter
  <2>2. ASSUME NEW k \in 0 .. n - 1
        PROVE  v[k + 1] = (v[k] \div 2) + c[k] * Top(i.size) /\ c[k + 1] = v[k] % 2
    <3>1. k \in 0 .. n /\ k + 1 \in 0 .. n
      OBVIOUS
    <3>2. /\ v[k] = s[k].v /\ c[k] = IF s[k].cf THEN 1 ELSE 0
          /\ v[k + 1] = s[k + 1].v /\ c[k + 1] = IF s[k + 1].cf THEN 1 ELSE 0
      BY <3>1
    <3>3. s[k + 1] = Arch!Step(i.op, i.size, s[k]) /\ s[k] \in Shifter(i.size)
      BY <1>2, <3>1
    <3>4. /\ s[k + 1].v = (s[k].v \div 2) + (IF s[k].cf THEN 1 ELSE 0) * Top(i.size)
          /\ s[k + 1].cf = (s[k].v % 2 = 1)
      BY <3>3, StepIs DEF ShiftOps
    <3>5. s[k].v \in Nat
      BY <3>3, SpanIs DEF Shifter, Words
    <3> HIDE DEF v, c
    <3>6. v[k + 1] = (v[k] \div 2) + c[k] * Top(i.size)
      BY <3>2, <3>4, Zenon
    <3>7. c[k + 1] = v[k] % 2
      <4>1. PICK a \in Nat : a = s[k].v
        BY <3>5
      <4>2. a % 2 = IF a % 2 = 1 THEN 1 ELSE 0
        OBVIOUS
      <4> QED BY <4>1, <4>2, <3>2, <3>4
    <3> QED BY <3>6, <3>7
  <2> HIDE DEF v, c
  <2> QED BY <2>1, <2>2 DEF TurnsRight
<1>4. 0 \in 0 .. n /\ n \in 0 .. n
  OBVIOUS
<1>5. v[0] = i.a /\ c[0] = CarryOf(Synced)
  <2>1. v[0] = s[0].v /\ c[0] = IF s[0].cf THEN 1 ELSE 0
    BY <1>4
  <2>2. s[0].v = i.a /\ s[0].cf = ("CF" \in Visible(rflags, cc))
    BY <1>2
  <2>3. CarryOf(Synced) = IF "CF" \in Visible(rflags, cc) THEN 1 ELSE 0
    BY DEF CarryOf, Synced
  <2> HIDE DEF v, c
  <2> QED BY <2>1, <2>2, <2>3
<1>6. v[n] = s[n].v /\ c[n] = IF s[n].cf THEN 1 ELSE 0
  BY <1>4
<1>7. s[n].cf \in BOOLEAN
  BY <1>2, <1>4 DEF Shifter
<1> HIDE DEF v, c
<1>8. c[n] = IF Arch!Steps(i, n).cf THEN 1 ELSE 0
  BY <1>1, <1>6
<1> QED BY <1>1, <1>3, <1>5, <1>6, <1>7, <1>8

\* The code's loop, which leaves out whole turns, is RCR step by step.
LEMMA RcrSteps ==
  ASSUME NEW i, i.size \in Sizes, i.a \in Words(i.size), i.op = "rcr", NEW n \in Nat
  PROVE  LET x == Arch!Steps(i, n)
             y == RcrLoop(i, n % (Width(i.size) + 1))
         IN  /\ x.v = y.v /\ (x.cf <=> y.cf = 1) /\ x.v \in Words(i.size)
             /\ n % (Width(i.size) + 1) = 0 =>
                  x.v = i.a /\ (x.cf <=> "CF" \in Visible(rflags, cc))
             /\ n = 1 => (Sign(x.v, i.size) <=> CarryOf(Synced) = 1)
<1> DEFINE w == Width(i.size) + 1
           m == n % w
           c0 == CarryOf(Synced)
<1>1. w \in Nat \ {0}
  BY SpanIs
<1>2. m \in Nat /\ m < w
  BY <1>1, DivisionIs
<1>3. m % w = m
  BY <1>1, <1>2
<1>4. PICK v, c : /\ TurnsRight(v, c, n, i.size) /\ v[0] = i.a /\ c[0] = c0
                  /\ Arch!Steps(i, n).v = v[n]
                  /\ c[n] = IF Arch!Steps(i, n).cf THEN 1 ELSE 0
                  /\ Arch!Steps(i, n).cf \in BOOLEAN
  BY ArchRcr
<1>5. PICK a, b : /\ TurnsRight(a, b, m, i.size) /\ a[0] = i.a /\ b[0] = c0
                  /\ RcrLoop(i, m).v = a[m] /\ RcrLoop(i, m).cf = b[m]
  BY <1>2, RcrLoopIs
<1> DEFINE u == c0 * Span(i.size) + i.a
<1>6. c[n] * Span(i.size) + v[n] = TurnedRight(u, m, w)
  <2>1. c[n] * Span(i.size) + v[n]
          = TurnedRight(c[0] * Span(i.size) + v[0], n % (Width(i.size) + 1), Width(i.size) + 1)
    BY <1>4, TurnsRightIs
  <2> QED BY <2>1, <1>4
<1>7. b[m] * Span(i.size) + a[m] = TurnedRight(u, m, w)
  <2> HIDE DEF m
  <2>1. b[m] * Span(i.size) + a[m]
          = TurnedRight(b[0] * Span(i.size) + a[0], m % (Width(i.size) + 1), Width(i.size) + 1)
    BY <1>2, <1>5, TurnsRightIs
  <2> QED BY <2>1, <1>3, <1>5
<1>8. /\ v[n] \in Words(i.size) /\ c[n] \in {0, 1}
      /\ a[m] \in Words(i.size) /\ b[m] \in {0, 1}
      /\ c0 \in {0, 1}
  <2>1. n \in 0 .. n
    OBVIOUS
  <2>2. m \in 0 .. m
    <3> HIDE DEF m
    <3> QED BY <1>2
  <2>3. c0 \in {0, 1}
    BY DEF CarryOf
  <2> QED BY <2>1, <2>2, <2>3, <1>4, <1>5 DEF TurnsRight
<1> HIDE DEF m
<1>9. v[n] = a[m] /\ c[n] = b[m]
  <2>1. c[n] * Span(i.size) + v[n] = b[m] * Span(i.size) + a[m]
    BY <1>6, <1>7
  <2> QED BY <2>1, <1>8, CarrySplits
<1>10. ASSUME m = 0 PROVE v[n] = i.a /\ c[n] = c0
  <2>1. u \in Nat /\ u < Pow2[w]
    BY <1>8, WithCarry
  <2>2. TurnedRight(u, 0, w) = u
    <3> HIDE DEF u, w
    <3> QED BY <2>1, <1>1, TurnedNone
  <2>3. c[n] * Span(i.size) + v[n] = c0 * Span(i.size) + i.a
    BY <1>6, <2>2, <1>10
  <2> QED BY <2>3, <1>8, CarrySplits
<1>11. c0 = 1 <=> "CF" \in Visible(rflags, cc)
  BY DEF CarryOf, Synced
<1>12. ASSUME n = 1 PROVE Sign(v[n], i.size) <=> c0 = 1
  <2>1. 0 \in 0 .. n - 1 /\ 0 + 1 = 1
    BY <1>12
  <2>2. v[1] = (i.a \div 2) + c0 * Top(i.size)
    BY <2>1, <1>4 DEF TurnsRight
  <2>3. PICK t \in Nat : t = Top(i.size) /\ Span(i.size) = 2 * t
    BY SpanIs
  <2>4. PICK h \in Nat : h = i.a \div 2 /\ h < t
    <3>1. i.a \in Nat /\ i.a < 2 * t
      BY <2>3 DEF Words
    <3>2. PICK d \in Nat, e \in {0, 1} : i.a = 2 * d + e /\ d = i.a \div 2
      BY <3>1
    <3>3. d < t
      <4>1. e \in Nat
        BY <3>2
      <4> QED BY <4>1, <3>1, <3>2
    <3> QED BY <3>2, <3>3
  <2>5. CASE c0 = 0
    BY <2>2, <2>3, <2>4, <2>5, <1>12 DEF Sign
  <2>6. CASE c0 = 1
    BY <2>2, <2>3, <2>4, <2>6, <1>12 DEF Sign
  <2> HIDE DEF c0
  <2> QED BY <2>5, <2>6, <1>8
<1>13. Arch!Steps(i, n).cf <=> c[n] = 1
  BY <1>4
<1>14. /\ Arch!Steps(i, n).v = RcrLoop(i, m).v
       /\ (Arch!Steps(i, n).cf <=> RcrLoop(i, m).cf = 1)
       /\ Arch!Steps(i, n).v \in Words(i.size)
  <2> HIDE DEF w, c0, u
  <2> QED BY <1>4, <1>5, <1>8, <1>9, <1>13
<1>15. m = 0 => /\ Arch!Steps(i, n).v = i.a
               /\ (Arch!Steps(i, n).cf <=> "CF" \in Visible(rflags, cc))
  <2> HIDE DEF w, c0, u
  <2> QED BY <1>4, <1>10, <1>11, <1>13
<1>16. n = 1 => (Sign(Arch!Steps(i, n).v, i.size) <=> CarryOf(Synced) = 1)
  BY <1>4, <1>12
<1> QED BY <1>14, <1>15, <1>16, Zenon DEF m, w

-----------------------------------------------------------------------------
(* The flags a flag state shows, and what a handler may leave *)

Shows(fl) == Visible(fl.bits, fl.cc)

\* A flag state of the right types.
FlagsOK(fl) ==
  /\ fl.bits \subseteq Flag
  /\ fl.cc.op \in CcOps /\ fl.cc.size \in Sizes
  /\ fl.cc.src2 \in 0 .. CountMask(fl.cc.size) - 1
  /\ IF fl.cc.op \in {"Eflags", "MulOv"} THEN fl.cc.dst = 0 /\ fl.cc.src \in {0, 1}
     ELSE {fl.cc.dst, fl.cc.src} \subseteq Words(fl.cc.size)

LEMMA ComputedIsArith ==
  ASSUME NEW bits, NEW c, c.op \in CcOps
  PROVE  Computed(bits, c) \subseteq Arith
<1>1. \A f, b : On(f, b) \subseteq {f}
  BY DEF On
<1>0. \A b : /\ On("CF", b) \subseteq Arith /\ On("OF", b) \subseteq Arith
             /\ On("AF", b) \subseteq Arith
  BY <1>1 DEF Arith
<1>2. \A size, r : ZSP(size, r) \subseteq Arith
  BY <1>1 DEF ZSP, Arith
<1>3. CASE c.op \in {"Eflags", "Rol", "Ror", "MulOv"}
  BY <1>1, <1>3 DEF Computed, ComputeRol, ComputeRor, ComputeMulOv, Arith
<1>4. CASE c.op \in {"Add", "Sub"}
  <2>1. \A size, b, r, x : ComputeAdd(size, b, r, x) \subseteq Arith
    BY <1>0, <1>2, Zenon DEF ComputeAdd
  <2>2. \A size, b, r, x : ComputeSub(size, b, r, x) \subseteq Arith
    BY <1>0, <1>2, Zenon DEF ComputeSub
  <2> QED BY <2>1, <2>2, <1>4 DEF Computed
<1>5. CASE c.op \in {"Inc", "Dec", "Neg", "Logic"}
  BY <1>1, <1>2, <1>5 DEF Computed, ComputeInc, ComputeDec, ComputeNeg, ComputeLogic, Arith
<1>6. CASE c.op \in {"Shl", "Shr", "Sar"}
  BY <1>1, <1>2, <1>6 DEF Computed, ComputeShl, ComputeShr, ComputeSar, Arith
<1> QED BY <1>3, <1>4, <1>5, <1>6 DEF CcOps

LEMMA NoStashShows == \A bits : Visible(bits, NoStash) = bits
BY DEF Visible, Computed, NoStash

LEMMA NowShows == Shows(Now) = Visible(rflags, cc)
BY DEF Shows, Now

LEMMA SyncedShows ==
  /\ Shows(Synced) = Visible(rflags, cc) /\ Synced.bits = Visible(rflags, cc)
  /\ Synced.cc = NoStash
BY NoStashShows DEF Shows, Synced

LEMMA PutShows ==
  ASSUME NEW fl, fl.cc = NoStash, NEW def, NEW on, fl = [bits |-> fl.bits, cc |-> fl.cc]
  PROVE  /\ Shows(Put(fl, def, on)) = (fl.bits \ def) \cup on
         /\ Put(fl, def, on).cc = NoStash
         /\ Put(fl, def, on).bits = (fl.bits \ def) \cup on
         /\ Put(fl, def, on) = [bits |-> Put(fl, def, on).bits, cc |-> Put(fl, def, on).cc]
<1>1. Put(fl, def, on) = [bits |-> (fl.bits \ def) \cup on, cc |-> fl.cc]
  BY DEF Put
<1> QED BY <1>1, NoStashShows DEF Shows

LEMMA OthersKept ==
  ASSUME cc.op \in CcOps
  PROVE  /\ Visible(rflags, cc) \ Arith = rflags \ Arith
         /\ Visible(rflags, cc) \cap Arith = Computed(rflags, cc)
BY ComputedIsArith DEF Visible

LEMMA StashShows ==
  ASSUME cc.op \in CcOps, NEW fl \in {Now, Synced}, NEW op \in CcOps, NEW size, NEW dst,
         NEW src, NEW src2,
         NEW c, c = [op |-> op, size |-> size, dst |-> dst, src |-> src, src2 |-> src2]
  PROVE  /\ Shows(Stash(fl, op, size, dst, src, src2))
              = (Visible(rflags, cc) \ Arith) \cup Computed(fl.bits, c)
         /\ Stash(fl, op, size, dst, src, src2) = [bits |-> fl.bits, cc |-> c]
         /\ Computed(fl.bits, c) \subseteq Arith
<1>1. Stash(fl, op, size, dst, src, src2) = [bits |-> fl.bits, cc |-> c]
  BY DEF Stash, Now, Synced
<1>2. Computed(fl.bits, c) \subseteq Arith
  BY ComputedIsArith
<1>3. fl.bits \ Arith = Visible(rflags, cc) \ Arith
  BY OthersKept DEF Now, Synced
<1> QED BY <1>1, <1>2, <1>3 DEF Shows, Visible

LEMMA TypeGives ==
  ASSUME TypeOK
  PROVE  /\ FlagsOK(Now) /\ FlagsOK(Synced) /\ cc.op \in CcOps
         /\ Visible(rflags, cc) \subseteq Flag
<1>1. FlagsOK(Now) /\ cc.op \in CcOps /\ rflags \subseteq Flag
  BY DEF TypeOK, FlagsOK, Now
<1>2. Visible(rflags, cc) \subseteq Flag
  BY <1>1, OthersKept, ComputedIsArith DEF Flag
<1>3. FlagsOK(Synced)
  BY <1>2 DEF FlagsOK, Synced, NoStash, CcOps, Sizes, CountMask
<1> QED BY <1>1, <1>2, <1>3

LEMMA PutOK ==
  ASSUME NEW fl, FlagsOK(fl), fl.cc = NoStash, fl = [bits |-> fl.bits, cc |-> fl.cc],
         NEW def, NEW on, on \subseteq Flag
  PROVE  FlagsOK(Put(fl, def, on))
<1>1. Put(fl, def, on).cc = fl.cc /\ Put(fl, def, on).bits = (fl.bits \ def) \cup on
  BY PutShows
<1> QED BY <1>1 DEF FlagsOK

LEMMA StashOK ==
  ASSUME NEW fl \in {Now, Synced}, FlagsOK(fl), cc.op \in CcOps,
         NEW op \in CcOps \ {"Eflags", "MulOv"}, NEW size \in Sizes,
         NEW dst \in Words(size), NEW src \in Words(size),
         NEW src2 \in 0 .. CountMask(size) - 1
  PROVE  FlagsOK(Stash(fl, op, size, dst, src, src2))
<1> DEFINE c == [op |-> op, size |-> size, dst |-> dst, src |-> src, src2 |-> src2]
<1>1. Stash(fl, op, size, dst, src, src2) = [bits |-> fl.bits, cc |-> c]
  BY DEF Stash, Now, Synced
<1> QED BY <1>1 DEF FlagsOK

\* The instructions of ArchFlags that end without a fault.
ArchDoes(i) ==
  \/ Arch!Adds(i) \/ Arch!Subtracts(i) \/ Arch!Bitwise(i) \/ Arch!Multiplies(i)
  \/ Arch!Divides(i) \/ Arch!Shifts(i) \/ Arch!DoubleShifts(i) \/ Arch!BitTests(i)
  \/ Arch!Scans(i) \/ Arch!Transfers(i)

\* What an instruction must do: keep the types and be one of ArchFlags.
Right == TypeOK' /\ Arch!Next

LEMMA RetireMaps ==
  ASSUME NEW i, NEW ws, NEW facts, NEW fl, Retire(i, ws, facts, fl)
  PROVE  /\ Visible(rflags', cc') = Shows(fl)
         /\ out' = [words |-> ws, facts |-> facts]
BY DEF Retire, Leaves, Shows

LEMMA RetireIsRight ==
  ASSUME TypeOK, fault = "None", NEW i \in Insns, NEW ws, NEW facts, NEW fl,
         Retire(i, ws, facts, fl), FlagsOK(fl), ArchDoes(i)
  PROVE  Right
<1>1. last' = i /\ fault' = fault /\ saved' = saved /\ rflags' = fl.bits /\ cc' = fl.cc
  BY DEF Retire, Leaves
<1>2. TypeOK'
  BY <1>1 DEF TypeOK, FlagsOK
<1>3. Arch!Execute(i)
  BY <1>1 DEF Arch!Execute, ArchDoes
<1>4. Arch!Next
  BY <1>1, <1>3 DEF Arch!Next
<1> QED BY <1>2, <1>4 DEF Right

LEMMA FaultIsRight ==
  ASSUME TypeOK, fault = "None", NEW i \in Insns, NEW fl, PageFault(i, fl), FlagsOK(fl),
         Shows(fl) \ Arch!Imprecise(i) = Visible(rflags, cc) \ Arch!Imprecise(i)
  PROVE  Right
<1>1. /\ last' = i /\ fault' = "PageFault" /\ saved' = saved /\ rflags' = fl.bits
      /\ cc' = fl.cc /\ i.mem /\ out' = NoOut
  BY DEF PageFault, Leaves
<1>2. TypeOK'
  BY <1>1 DEF TypeOK, FlagsOK
<1>3. Visible(rflags', cc') = Shows(fl)
  BY <1>1 DEF Shows
<1>4. Arch!Sets({}, {}, Arch!Imprecise(i))
  BY <1>3 DEF Arch!Sets
<1>5. Arch!MemoryFault(i)
  BY <1>1, <1>4 DEF Arch!MemoryFault, Arch!NoOut, NoOut
<1>6. Arch!Next
  BY <1>1, <1>5 DEF Arch!Next
<1> QED BY <1>2, <1>6 DEF Right

\* A store that faults leaves what ArchFlags allows, or lands and is right.
LEMMA WriteIsRight ==
  ASSUME TypeOK, fault = "None", NEW i \in Insns, NEW r, NEW fl, NEW early,
         Write(i, r, fl, early), FlagsOK(fl), FlagsOK(early),
         Shows(early) \ Arch!Imprecise(i) = Visible(rflags, cc) \ Arch!Imprecise(i),
         Retire(i, <<r>>, {}, fl) => ArchDoes(i)
  PROVE  Right
<1>1. CASE Retire(i, <<r>>, {}, fl)
  BY <1>1, RetireIsRight
<1>2. CASE PageFault(i, early)
  BY <1>2, FaultIsRight
<1> QED BY <1>1, <1>2 DEF Write

\* The operands of an instruction.
LEMMA InsnIs ==
  ASSUME NEW i \in Insns
  PROVE  /\ i.op \in Ops /\ i.size \in Sizes /\ i.f \subseteq Flag /\ i.mem \in BOOLEAN
         /\ i.a \in Words(i.size) /\ i.b \in Words(i.size) /\ i.n \in Words(i.size)
BY LazyFlagsAssumption DEF Insn

\* Setting the flags def to on and keeping the others, in the form of ArchFlags.
LEMMA SetsGives ==
  ASSUME NEW def, NEW on, NEW free, NEW new, Visible(rflags', cc') = new,
         new \ (def \cup free) = Visible(rflags, cc) \ (def \cup free),
         new \cap def = on
  PROVE  Arch!Sets(def, on, free)
BY DEF Arch!Sets

-----------------------------------------------------------------------------
(* Each handler is right: additions and subtractions *)

LEMMA OnIs ==
  /\ \A b : On("CF", b) \subseteq {"CF"} /\ ("CF" \in On("CF", b) <=> b)
  /\ \A b : On("OF", b) \subseteq {"OF"} /\ ("OF" \in On("OF", b) <=> b)
  /\ \A b : On("AF", b) \subseteq {"AF"} /\ ("AF" \in On("AF", b) <=> b)
  /\ \A b : On("ZF", b) \subseteq {"ZF"} /\ ("ZF" \in On("ZF", b) <=> b)
  /\ \A size, r : ZSP(size, r) \subseteq {"ZF", "SF", "PF"}
BY DEF On, ZSP

\* The flags of a sum or difference, computed at once, in the form of ArchFlags.
LEMMA ArithSets ==
  ASSUME NEW Z, Z \subseteq {"ZF", "SF", "PF"}, NEW C, C \subseteq {"CF"},
         NEW D, D \subseteq {"CF"}, NEW O, O \subseteq {"OF"}, NEW A, A \subseteq {"AF"},
         NEW keep, \/ keep = {} /\ C = D
                   \/ keep = {"CF"} /\ ("CF" \in D <=> "CF" \in Visible(rflags, cc)),
         Visible(rflags', cc') = (Visible(rflags, cc) \ Arith) \cup (Z \cup D \cup O \cup A)
  PROVE  Arch!Sets(Arith \ keep, (Z \cup C \cup O \cup A) \ keep, {})
<1> DEFINE F == Visible(rflags, cc)
           new == Visible(rflags', cc')
<1> HIDE DEF F, new
<1>0. new = (F \ Arith) \cup (Z \cup D \cup O \cup A)
  BY DEF F, new
<1>1. new \cap (Arith \ keep) = (Z \cup C \cup O \cup A) \ keep
  BY <1>0 DEF Arith, F
<1>2. new \ (Arith \ keep) = F \ (Arith \ keep)
  BY <1>0 DEF Arith, F
<1> QED BY <1>1, <1>2 DEF Arch!Sets, F, new

LEMMA SumIs ==
  ASSUME NEW i \in Insns, NEW b \in Words(i.size), NEW c \in {0, 1}, NEW D, D \subseteq {"CF"},
         NEW keep,
         \/ keep = {} /\ D = On("CF", i.a + b + c >= Span(i.size))
         \/ keep = {"CF"} /\ ("CF" \in D <=> "CF" \in Visible(rflags, cc)),
         Visible(rflags', cc') = (Visible(rflags, cc) \ Arith) \cup
           (ZSP(i.size, Wrap(i.a + b + c, i.size)) \cup D
            \cup On("OF", ~Fits(Signed(i.a, i.size) + Signed(b, i.size) + c, i.size))
            \cup On("AF", (i.a % 16) + (b % 16) + c >= 16))
  PROVE  Arch!Sum(i, b, c, keep)
<1> DEFINE Z == ZSP(i.size, Wrap(i.a + b + c, i.size))
           C == On("CF", i.a + b + c >= Span(i.size))
           O == On("OF", ~Fits(Signed(i.a, i.size) + Signed(b, i.size) + c, i.size))
           A == On("AF", (i.a % 16) + (b % 16) + c >= 16)
<1>1. /\ Z \subseteq {"ZF", "SF", "PF"} /\ C \subseteq {"CF"} /\ O \subseteq {"OF"}
      /\ A \subseteq {"AF"}
  BY OnIs, Zenon
<1>2. /\ \/ keep = {} /\ C = D
         \/ keep = {"CF"} /\ ("CF" \in D <=> "CF" \in Visible(rflags, cc))
      /\ Visible(rflags', cc') = (Visible(rflags, cc) \ Arith) \cup (Z \cup D \cup O \cup A)
  BY Zenon
<1>3. Arch!Sum(i, b, c, keep) <=> Arch!Sets(Arith \ keep, (Z \cup C \cup O \cup A) \ keep, {})
  BY SameFlags, SameWords, Zenon DEF Arch!Sum
<1> HIDE DEF Z, C, O, A
<1> QED BY <1>1, <1>2, <1>3, ArithSets

LEMMA DifferenceIs ==
  ASSUME NEW i \in Insns, NEW a, NEW b, NEW c, NEW D, D \subseteq {"CF"},
         NEW keep,
         \/ keep = {} /\ D = On("CF", a - b - c < 0)
         \/ keep = {"CF"} /\ ("CF" \in D <=> "CF" \in Visible(rflags, cc)),
         Visible(rflags', cc') = (Visible(rflags, cc) \ Arith) \cup
           (ZSP(i.size, Wrap(a - b - c, i.size)) \cup D
            \cup On("OF", ~Fits(Signed(a, i.size) - Signed(b, i.size) - c, i.size))
            \cup On("AF", a % 16 < (b % 16) + c))
  PROVE  Arch!Difference(i, a, b, c, keep)
<1> DEFINE Z == ZSP(i.size, Wrap(a - b - c, i.size))
           C == On("CF", a - b - c < 0)
           O == On("OF", ~Fits(Signed(a, i.size) - Signed(b, i.size) - c, i.size))
           A == On("AF", a % 16 < (b % 16) + c)
<1>1. /\ Z \subseteq {"ZF", "SF", "PF"} /\ C \subseteq {"CF"} /\ O \subseteq {"OF"}
      /\ A \subseteq {"AF"}
  BY OnIs, Zenon
<1>2. /\ \/ keep = {} /\ C = D
         \/ keep = {"CF"} /\ ("CF" \in D <=> "CF" \in Visible(rflags, cc))
      /\ Visible(rflags', cc') = (Visible(rflags, cc) \ Arith) \cup (Z \cup D \cup O \cup A)
  BY Zenon
<1>3. Arch!Difference(i, a, b, c, keep)
        <=> Arch!Sets(Arith \ keep, (Z \cup C \cup O \cup A) \ keep, {})
  BY SameFlags, SameWords, Zenon DEF Arch!Difference
<1> HIDE DEF Z, C, O, A
<1> QED BY <1>1, <1>2, <1>3, ArithSets

LEMMA PlainFault ==
  ASSUME TypeOK, NEW i, NEW fl \in {Now, Synced}
  PROVE  /\ FlagsOK(fl)
         /\ Shows(fl) \ Arch!Imprecise(i) = Visible(rflags, cc) \ Arch!Imprecise(i)
         /\ cc.op \in CcOps
BY TypeGives, NowShows, SyncedShows

LEMMA CarryIs ==
  /\ CarryOf(Synced) = Arch!Carry /\ CarryOf(Synced) \in {0, 1}
  /\ CarryOf(Synced) # 0 <=> "CF" \in Visible(rflags, cc)
BY SyncedShows DEF CarryOf, Arch!Carry

LEMMA AddIsRight ==
  ASSUME TypeOK, fault = "None", NEW i \in Insns, OpAdd(i)
  PROVE  Right
<1> DEFINE r == Wrap(i.a + i.b, i.size)
           c == [op |-> "Add", size |-> i.size, dst |-> r, src |-> i.b, src2 |-> 0]
           fl == Stash(Now, "Add", i.size, r, i.b, 0)
<1>1. i.op = "add" /\ Write(i, r, fl, Now)
  BY DEF OpAdd
<1>2. /\ i.size \in Sizes /\ i.a \in Words(i.size) /\ i.b \in Words(i.size)
      /\ i.a \in Int /\ i.b \in Int
  BY InsnIs, SpanIs DEF Words
<1>3. r \in Words(i.size) /\ i.a + i.b + 0 = i.a + i.b
  BY <1>2, WrapIs
<1>4. FlagsOK(Now) /\ FlagsOK(fl) /\ cc.op \in CcOps
  <2>1. 0 \in 0 .. CountMask(i.size) - 1
    BY DEF CountMask
  <2> HIDE DEF r
  <2> QED BY <2>1, <1>2, <1>3, PlainFault, StashOK DEF CcOps
<1>5. Shows(fl) = (Visible(rflags, cc) \ Arith) \cup Computed(rflags, c)
  <2>1. Now.bits = rflags
    BY DEF Now
  <2> HIDE DEF r
  <2> QED BY <2>1, <1>4, StashShows DEF CcOps
<1>6. Computed(rflags, c) = ComputeAdd(i.size, i.b, r, 0)
  BY DEF Computed
<1> DEFINE D == On("CF", i.a + i.b + 0 >= Span(i.size))
<1>7. ComputeAdd(i.size, i.b, r, 0)
        = ZSP(i.size, Wrap(i.a + i.b + 0, i.size)) \cup D
          \cup On("OF", ~Fits(Signed(i.a, i.size) + Signed(i.b, i.size) + 0, i.size))
          \cup On("AF", (i.a % 16) + (i.b % 16) + 0 >= 16)
  BY <1>2, <1>3, SumFlags
<1>8. D \subseteq {"CF"}
  BY OnIs
<1>9. ASSUME Retire(i, <<r>>, {}, fl) PROVE ArchDoes(i)
  <2>1. Visible(rflags', cc') = Shows(fl) /\ out' = [words |-> <<r>>, facts |-> {}]
    BY <1>9, RetireMaps
  <2>2. Arch!Sum(i, i.b, 0, {})
    <3> HIDE DEF r, fl, c
    <3> QED BY <2>1, <1>2, <1>5, <1>6, <1>7, <1>8, SumIs
  <2>3. Arch!Adds(i)
    BY <1>1, <2>1, <2>2, SameWords DEF Arch!Adds, Arch!Wrote
  <2> QED BY <2>3 DEF ArchDoes
<1> HIDE DEF fl, r
<1> QED BY <1>1, <1>4, <1>9, PlainFault, WriteIsRight

\* A handler that stashes and stores, or only stashes, is right if it does what
\* ArchFlags has when nothing faults.
LEMMA StashIsRight ==
  ASSUME TypeOK, fault = "None", NEW i \in Insns, NEW at \in {Now, Synced},
         NEW early \in {Now, Synced}, NEW op \in CcOps \ {"Eflags", "MulOv"}, NEW r \in Words(i.size),
         NEW src \in Words(i.size), NEW src2 \in 0 .. CountMask(i.size) - 1,
         NEW fl, fl = Stash(at, op, i.size, r, src, src2),
         \/ Write(i, r, fl, early) /\ (Retire(i, <<r>>, {}, fl) => ArchDoes(i))
         \/ Retire(i, <<>>, {}, fl) /\ (Retire(i, <<>>, {}, fl) => ArchDoes(i))
  PROVE  Right
<1>1. i.size \in Sizes
  BY InsnIs
<1>2. FlagsOK(at) /\ FlagsOK(fl) /\ cc.op \in CcOps
  BY <1>1, PlainFault, StashOK
<1>3. CASE Write(i, r, fl, early) /\ (Retire(i, <<r>>, {}, fl) => ArchDoes(i))
  BY <1>2, <1>3, PlainFault, WriteIsRight
<1>4. CASE Retire(i, <<>>, {}, fl) /\ (Retire(i, <<>>, {}, fl) => ArchDoes(i))
  BY <1>2, <1>4, RetireIsRight
<1> QED BY <1>3, <1>4

LEMMA ZeroIs == ASSUME NEW size \in Sizes
                PROVE  {0, 1} \subseteq Words(size) /\ {0, 1} \subseteq 0 .. CountMask(size) - 1
BY OneIs DEF CountMask

LEMMA AdcIsRight ==
  ASSUME TypeOK, fault = "None", NEW i \in Insns, OpAdc(i)
  PROVE  Right
<1> DEFINE x == CarryOf(Synced)
<1>0. PICK d \in {0, 1} : d = x /\ d = Arch!Carry
  BY CarryIs
<1> DEFINE r == Wrap(i.a + i.b + d, i.size)
           c == [op |-> "Add", size |-> i.size, dst |-> r, src |-> i.b, src2 |-> d]
           fl == Stash(Synced, "Add", i.size, r, i.b, d)
<1>1. i.op = "adc" /\ Write(i, r, fl, Synced)
  BY <1>0 DEF OpAdc
<1>2. /\ i.size \in Sizes /\ i.a \in Words(i.size) /\ i.b \in Words(i.size)
      /\ i.a \in Int /\ i.b \in Int /\ d \in Int
  BY InsnIs, SpanIs DEF Words
<1>3. r \in Words(i.size) /\ d \in 0 .. CountMask(i.size) - 1
  BY <1>2, WrapIs, ZeroIs
<1> DEFINE D == On("CF", i.a + i.b + d >= Span(i.size))
<1>4. Computed(Synced.bits, c)
        = ZSP(i.size, Wrap(i.a + i.b + d, i.size)) \cup D
          \cup On("OF", ~Fits(Signed(i.a, i.size) + Signed(i.b, i.size) + d, i.size))
          \cup On("AF", (i.a % 16) + (i.b % 16) + d >= 16)
  <2>1. Computed(Synced.bits, c) = ComputeAdd(i.size, i.b, r, d)
    BY DEF Computed
  <2> HIDE DEF c
  <2> QED BY <2>1, <1>2, SumFlags
<1>5. D \subseteq {"CF"}
  BY OnIs
<1>6. ASSUME Retire(i, <<r>>, {}, fl) PROVE ArchDoes(i)
  <2>1. /\ Visible(rflags', cc') = (Visible(rflags, cc) \ Arith) \cup Computed(Synced.bits, c)
        /\ out' = [words |-> <<r>>, facts |-> {}]
    <3>1. Shows(fl) = (Visible(rflags, cc) \ Arith) \cup Computed(Synced.bits, c)
      <4> HIDE DEF r
      <4> QED BY PlainFault, StashShows DEF CcOps
    <3> HIDE DEF r, c, fl
    <3> QED BY <1>6, <3>1, RetireMaps
  <2>2. Arch!Sum(i, i.b, d, {})
    <3> HIDE DEF r, fl, c
    <3> QED BY <2>1, <1>2, <1>4, <1>5, SumIs
  <2>3. Arch!Adds(i)
    BY <1>0, <1>1, <2>1, <2>2, SameWords DEF Arch!Adds, Arch!Wrote
  <2> QED BY <2>3 DEF ArchDoes
<1> HIDE DEF r, fl
<1> QED BY <1>1, <1>2, <1>3, <1>6, StashIsRight DEF CcOps, fl

LEMMA SubIsRight ==
  ASSUME TypeOK, fault = "None", NEW i \in Insns, OpSub(i) \/ OpCmp(i)
  PROVE  Right
<1> DEFINE r == Wrap(i.a - i.b, i.size)
           c == [op |-> "Sub", size |-> i.size, dst |-> r, src |-> i.b, src2 |-> 0]
           fl == Stash(Now, "Sub", i.size, r, i.b, 0)
<1>1. \/ i.op = "sub" /\ Write(i, r, fl, Now)
      \/ i.op = "cmp" /\ Retire(i, <<>>, {}, fl)
  BY DEF OpSub, OpCmp, RetireOnly
<1>2. /\ i.size \in Sizes /\ i.a \in Words(i.size) /\ i.b \in Words(i.size)
      /\ i.a \in Int /\ i.b \in Int
  BY InsnIs, SpanIs DEF Words
<1>3. r \in Words(i.size) /\ 0 \in 0 .. CountMask(i.size) - 1 /\ i.a - i.b - 0 = i.a - i.b
  BY <1>2, WrapIs, ZeroIs
<1> DEFINE D == On("CF", i.a - i.b - 0 < 0)
<1>4. Computed(Now.bits, c)
        = ZSP(i.size, Wrap(i.a - i.b - 0, i.size)) \cup D
          \cup On("OF", ~Fits(Signed(i.a, i.size) - Signed(i.b, i.size) - 0, i.size))
          \cup On("AF", i.a % 16 < (i.b % 16) + 0)
  <2>1. Computed(Now.bits, c) = ComputeSub(i.size, i.b, r, 0)
    BY DEF Computed
  <2> HIDE DEF c
  <2> QED BY <2>1, <1>2, <1>3, DifferenceFlags
<1>5. D \subseteq {"CF"}
  BY OnIs
<1>6. ASSUME NEW ws, Retire(i, ws, {}, fl)
      PROVE  Arch!Difference(i, i.a, i.b, 0, {}) /\ out' = [words |-> ws, facts |-> {}]
  <2>1. /\ Visible(rflags', cc') = (Visible(rflags, cc) \ Arith) \cup Computed(Now.bits, c)
        /\ out' = [words |-> ws, facts |-> {}]
    <3>1. Shows(fl) = (Visible(rflags, cc) \ Arith) \cup Computed(Now.bits, c)
      <4> HIDE DEF r
      <4> QED BY PlainFault, StashShows DEF CcOps
    <3> HIDE DEF r, c, fl
    <3> QED BY <1>6, <3>1, RetireMaps
  <2>2. Arch!Difference(i, i.a, i.b, 0, {})
    <3> HIDE DEF r, fl, c
    <3> QED BY <2>1, <1>2, <1>4, <1>5, DifferenceIs
  <2> QED BY <2>1, <2>2
<1>7. CASE i.op = "sub" /\ Write(i, r, fl, Now)
  <2>1. ASSUME Retire(i, <<r>>, {}, fl) PROVE ArchDoes(i)
    <3>1. Arch!Difference(i, i.a, i.b, 0, {}) /\ out' = [words |-> <<r>>, facts |-> {}]
      BY <2>1, <1>6
    <3>2. Arch!Subtracts(i)
      BY <3>1, <1>7, SameWords DEF Arch!Subtracts, Arch!Wrote
    <3> QED BY <3>2 DEF ArchDoes
  <2> HIDE DEF r, fl
  <2> QED BY <1>2, <1>3, <1>7, <2>1, StashIsRight DEF CcOps, fl
<1>8. CASE i.op = "cmp" /\ Retire(i, <<>>, {}, fl)
  <2>1. ASSUME Retire(i, <<>>, {}, fl) PROVE ArchDoes(i)
    <3>1. Arch!Difference(i, i.a, i.b, 0, {}) /\ out' = [words |-> <<>>, facts |-> {}]
      BY <2>1, <1>6
    <3>2. Arch!Subtracts(i)
      BY <3>1, <1>8 DEF Arch!Subtracts, Arch!NoOut
    <3> QED BY <3>2 DEF ArchDoes
  <2> HIDE DEF r, fl
  <2> QED BY <1>2, <1>3, <1>8, <2>1, StashIsRight DEF CcOps, fl
<1> QED BY <1>1, <1>7, <1>8

LEMMA SbbIsRight ==
  ASSUME TypeOK, fault = "None", NEW i \in Insns, OpSbb(i)
  PROVE  Right
<1> DEFINE x == CarryOf(Synced)
<1>0. PICK d \in {0, 1} : d = x /\ d = Arch!Carry
  BY CarryIs
<1> DEFINE r == Wrap(i.a - i.b - d, i.size)
           c == [op |-> "Sub", size |-> i.size, dst |-> r, src |-> i.b, src2 |-> d]
           fl == Stash(Synced, "Sub", i.size, r, i.b, d)
<1>1. i.op = "sbb" /\ Write(i, r, fl, Synced)
  BY <1>0 DEF OpSbb
<1>2. /\ i.size \in Sizes /\ i.a \in Words(i.size) /\ i.b \in Words(i.size)
      /\ i.a \in Int /\ i.b \in Int /\ d \in Int
  BY InsnIs, SpanIs DEF Words
<1>3. r \in Words(i.size) /\ d \in 0 .. CountMask(i.size) - 1
  BY <1>2, WrapIs, ZeroIs
<1> DEFINE D == On("CF", i.a - i.b - d < 0)
<1>4. Computed(Synced.bits, c)
        = ZSP(i.size, Wrap(i.a - i.b - d, i.size)) \cup D
          \cup On("OF", ~Fits(Signed(i.a, i.size) - Signed(i.b, i.size) - d, i.size))
          \cup On("AF", i.a % 16 < (i.b % 16) + d)
  <2>1. Computed(Synced.bits, c) = ComputeSub(i.size, i.b, r, d)
    BY DEF Computed
  <2> HIDE DEF c
  <2> QED BY <2>1, <1>2, DifferenceFlags
<1>5. D \subseteq {"CF"}
  BY OnIs
<1>6. ASSUME Retire(i, <<r>>, {}, fl) PROVE ArchDoes(i)
  <2>1. /\ Visible(rflags', cc') = (Visible(rflags, cc) \ Arith) \cup Computed(Synced.bits, c)
        /\ out' = [words |-> <<r>>, facts |-> {}]
    <3>1. Shows(fl) = (Visible(rflags, cc) \ Arith) \cup Computed(Synced.bits, c)
      <4> HIDE DEF r
      <4> QED BY PlainFault, StashShows DEF CcOps
    <3> HIDE DEF r, c, fl
    <3> QED BY <1>6, <3>1, RetireMaps
  <2>2. Arch!Difference(i, i.a, i.b, d, {})
    <3> HIDE DEF r, fl, c
    <3> QED BY <2>1, <1>2, <1>4, <1>5, DifferenceIs
  <2>3. Arch!Subtracts(i)
    BY <1>0, <1>1, <2>1, <2>2, SameWords DEF Arch!Subtracts, Arch!Wrote
  <2> QED BY <2>3 DEF ArchDoes
<1> HIDE DEF r, fl
<1> QED BY <1>1, <1>2, <1>3, <1>6, StashIsRight DEF CcOps, fl

LEMMA IncIsRight ==
  ASSUME TypeOK, fault = "None", NEW i \in Insns, OpInc(i)
  PROVE  Right
<1> DEFINE x == CarryOf(Synced)
<1>0. PICK d \in {0, 1} : d = x /\ (d # 0 <=> "CF" \in Visible(rflags, cc))
  BY CarryIs
<1> DEFINE r == Wrap(i.a + 1, i.size)
           c == [op |-> "Inc", size |-> i.size, dst |-> r, src |-> d, src2 |-> 0]
           fl == Stash(Synced, "Inc", i.size, r, d, 0)
<1>1. i.op = "inc" /\ Write(i, r, fl, Now)
  <2>1. CarryOf(Synced) = d
    BY <1>0
  <2>2. i.op = "inc" /\ Write(i, r, Stash(Synced, "Inc", i.size, r, CarryOf(Synced), 0), Now)
    BY DEF OpInc
  <2> HIDE DEF r
  <2> QED BY <2>1, <2>2, Zenon DEF fl
<1>2. i.size \in Sizes /\ i.a \in Words(i.size) /\ i.a \in Int
  BY InsnIs, SpanIs DEF Words
<1>3. /\ r \in Words(i.size) /\ d \in Words(i.size) /\ 1 \in Words(i.size)
      /\ 0 \in 0 .. CountMask(i.size) - 1 /\ i.a + 1 + 0 = i.a + 1
  BY <1>2, WrapIs, ZeroIs
<1> DEFINE D == On("CF", d # 0)
<1>4. Computed(Synced.bits, c)
        = ZSP(i.size, Wrap(i.a + 1 + 0, i.size)) \cup D
          \cup On("OF", ~Fits(Signed(i.a, i.size) + Signed(1, i.size) + 0, i.size))
          \cup On("AF", (i.a % 16) + (1 % 16) + 0 >= 16)
  <2>1. Computed(Synced.bits, c) = ComputeInc(i.size, d # 0, r)
    BY DEF Computed
  <2>2. ComputeInc(i.size, d # 0, r)
        = ZSP(i.size, r) \cup D
          \cup On("OF", ~Fits(Signed(i.a, i.size) + Signed(1, i.size) + 0, i.size))
          \cup On("AF", (i.a % 16) + (1 % 16) + 0 >= 16)
    <3>1. r = Wrap(i.a + 1, i.size)
      OBVIOUS
    <3>2. PICK cf : cf = (d # 0)
      OBVIOUS
    <3>3. ComputeInc(i.size, cf, r)
        = ZSP(i.size, r) \cup On("CF", cf)
          \cup On("OF", ~Fits(Signed(i.a, i.size) + Signed(1, i.size) + 0, i.size))
          \cup On("AF", (i.a % 16) + (1 % 16) + 0 >= 16)
      <4> HIDE DEF r
      <4> QED BY <3>1, <1>2, IncFlags
    <3> HIDE DEF r
    <3> QED BY <3>2, <3>3, Zenon DEF D
  <2> HIDE DEF c, D
  <2> QED BY <2>1, <2>2, <1>3
<1>5. D \subseteq {"CF"} /\ ("CF" \in D <=> "CF" \in Visible(rflags, cc))
  BY <1>0, OnIs
<1>6. ASSUME Retire(i, <<r>>, {}, fl) PROVE ArchDoes(i)
  <2>1. /\ Visible(rflags', cc') = (Visible(rflags, cc) \ Arith) \cup Computed(Synced.bits, c)
        /\ out' = [words |-> <<r>>, facts |-> {}]
    <3>1. Shows(fl) = (Visible(rflags, cc) \ Arith) \cup Computed(Synced.bits, c)
      <4> HIDE DEF r
      <4> QED BY PlainFault, StashShows DEF CcOps
    <3> HIDE DEF r, c, fl
    <3> QED BY <1>6, <3>1, RetireMaps
  <2>2. Arch!Sum(i, 1, 0, {"CF"})
    <3> HIDE DEF r, fl, c, D
    <3> QED BY <2>1, <1>2, <1>3, <1>4, <1>5, SumIs
  <2>3. Arch!Adds(i)
    BY <1>1, <2>1, <2>2, SameWords DEF Arch!Adds, Arch!Wrote
  <2> QED BY <2>3 DEF ArchDoes
<1> HIDE DEF r, fl
<1> QED BY <1>1, <1>2, <1>3, <1>6, StashIsRight DEF CcOps, fl

LEMMA DecIsRight ==
  ASSUME TypeOK, fault = "None", NEW i \in Insns, OpDec(i)
  PROVE  Right
<1> DEFINE x == CarryOf(Synced)
<1>0. PICK d \in {0, 1} : d = x /\ (d # 0 <=> "CF" \in Visible(rflags, cc))
  BY CarryIs
<1> DEFINE r == Wrap(i.a - 1, i.size)
           c == [op |-> "Dec", size |-> i.size, dst |-> r, src |-> d, src2 |-> 0]
           fl == Stash(Synced, "Dec", i.size, r, d, 0)
<1>1. i.op = "dec" /\ Write(i, r, fl, Now)
  <2>1. CarryOf(Synced) = d
    BY <1>0
  <2>2. i.op = "dec" /\ Write(i, r, Stash(Synced, "Dec", i.size, r, CarryOf(Synced), 0), Now)
    BY DEF OpDec
  <2> HIDE DEF r
  <2> QED BY <2>1, <2>2, Zenon DEF fl
<1>2. i.size \in Sizes /\ i.a \in Words(i.size) /\ i.a \in Int
  BY InsnIs, SpanIs DEF Words
<1>3. /\ r \in Words(i.size) /\ d \in Words(i.size) /\ 1 \in Words(i.size)
      /\ 0 \in 0 .. CountMask(i.size) - 1 /\ i.a - 1 - 0 = i.a - 1
  BY <1>2, WrapIs, ZeroIs
<1> DEFINE D == On("CF", d # 0)
<1>4. Computed(Synced.bits, c)
        = ZSP(i.size, Wrap(i.a - 1 - 0, i.size)) \cup D
          \cup On("OF", ~Fits(Signed(i.a, i.size) - Signed(1, i.size) - 0, i.size))
          \cup On("AF", i.a % 16 < (1 % 16) + 0)
  <2>1. Computed(Synced.bits, c) = ComputeDec(i.size, d # 0, r)
    BY DEF Computed
  <2>2. ComputeDec(i.size, d # 0, r)
        = ZSP(i.size, r) \cup D
          \cup On("OF", ~Fits(Signed(i.a, i.size) - Signed(1, i.size) - 0, i.size))
          \cup On("AF", i.a % 16 < (1 % 16) + 0)
    <3>1. r = Wrap(i.a - 1, i.size)
      OBVIOUS
    <3>2. PICK cf : cf = (d # 0)
      OBVIOUS
    <3>3. ComputeDec(i.size, cf, r)
        = ZSP(i.size, r) \cup On("CF", cf)
          \cup On("OF", ~Fits(Signed(i.a, i.size) - Signed(1, i.size) - 0, i.size))
          \cup On("AF", i.a % 16 < (1 % 16) + 0)
      <4> HIDE DEF r
      <4> QED BY <3>1, <1>2, DecFlags
    <3> HIDE DEF r
    <3> QED BY <3>2, <3>3, Zenon DEF D
  <2> HIDE DEF c, D
  <2> QED BY <2>1, <2>2, <1>3
<1>5. D \subseteq {"CF"} /\ ("CF" \in D <=> "CF" \in Visible(rflags, cc))
  BY <1>0, OnIs
<1>6. ASSUME Retire(i, <<r>>, {}, fl) PROVE ArchDoes(i)
  <2>1. /\ Visible(rflags', cc') = (Visible(rflags, cc) \ Arith) \cup Computed(Synced.bits, c)
        /\ out' = [words |-> <<r>>, facts |-> {}]
    <3>1. Shows(fl) = (Visible(rflags, cc) \ Arith) \cup Computed(Synced.bits, c)
      <4> HIDE DEF r
      <4> QED BY PlainFault, StashShows DEF CcOps
    <3> HIDE DEF r, c, fl
    <3> QED BY <1>6, <3>1, RetireMaps
  <2>2. Arch!Difference(i, i.a, 1, 0, {"CF"})
    <3> HIDE DEF r, fl, c, D
    <3> QED BY <2>1, <1>2, <1>3, <1>4, <1>5, DifferenceIs
  <2>3. Arch!Subtracts(i)
    BY <1>1, <2>1, <2>2, SameWords DEF Arch!Subtracts, Arch!Wrote
  <2> QED BY <2>3 DEF ArchDoes
<1> HIDE DEF r, fl
<1> QED BY <1>1, <1>2, <1>3, <1>6, StashIsRight DEF CcOps, fl

LEMMA NegIsRight ==
  ASSUME TypeOK, fault = "None", NEW i \in Insns, OpNeg(i)
  PROVE  Right
<1> DEFINE r == Wrap(Span(i.size) - i.a, i.size)
           c == [op |-> "Neg", size |-> i.size, dst |-> r, src |-> i.a, src2 |-> 0]
           fl == Stash(Now, "Neg", i.size, r, i.a, 0)
<1>1. i.op = "neg" /\ Write(i, r, fl, Now)
  BY DEF OpNeg
<1>2. /\ i.size \in Sizes /\ i.a \in Words(i.size) /\ i.a \in Int
      /\ Span(i.size) - i.a \in Int
  BY InsnIs, SpanIs DEF Words
<1>3. /\ r \in Words(i.size) /\ 0 \in 0 .. CountMask(i.size) - 1
      /\ r = Wrap(-i.a, i.size) /\ (i.a # 0 <=> i.a > 0)
      /\ (i.a = Top(i.size) <=> ~Fits(-Signed(i.a, i.size), i.size))
  BY <1>2, WrapIs, ZeroIs, NegFlags
<1> DEFINE Z == ZSP(i.size, r)
           C == On("CF", i.a # 0)
           O == On("OF", i.a = Top(i.size))
           A == On("AF", BitAt(i.a, 4) \/ BitAt(r, 4))
<1>4. Computed(Now.bits, c) = Z \cup C \cup O \cup A
  BY DEF Computed, ComputeNeg
<1>5. /\ Z \subseteq {"ZF", "SF", "PF"} /\ C \subseteq {"CF"} /\ O \subseteq {"OF"}
      /\ A \subseteq {"AF"}
  BY OnIs, Zenon
<1>6. ASSUME Retire(i, <<r>>, {}, fl) PROVE ArchDoes(i)
  <2>1. /\ Visible(rflags', cc') = (Visible(rflags, cc) \ Arith) \cup Computed(Now.bits, c)
        /\ out' = [words |-> <<r>>, facts |-> {}]
    <3>1. Shows(fl) = (Visible(rflags, cc) \ Arith) \cup Computed(Now.bits, c)
      <4> HIDE DEF r
      <4> QED BY PlainFault, StashShows DEF CcOps
    <3> HIDE DEF r, c, fl
    <3> QED BY <1>6, <3>1, RetireMaps
  <2>2. Arch!Sets(Arith \ {"AF"}, Z \cup C \cup O, {"AF"})
    <3> HIDE DEF r, fl, c, Z, C, O, A
    <3>1. PICK F, new : F = Visible(rflags, cc) /\ new = Visible(rflags', cc')
      OBVIOUS
    <3>2. new = (F \ Arith) \cup (Z \cup C \cup O \cup A)
      BY <2>1, <1>4, <3>1
    <3>3. new \ ((Arith \ {"AF"}) \cup {"AF"}) = F \ ((Arith \ {"AF"}) \cup {"AF"})
      BY <3>2, <1>5 DEF Arith
    <3>4. new \cap (Arith \ {"AF"}) = Z \cup C \cup O
      BY <3>2, <1>5 DEF Arith
    <3> QED BY <3>1, <3>3, <3>4, SetsGives
  <2>3. /\ Z = ZSP(i.size, Wrap(-i.a, i.size))
        /\ C = On("CF", i.a > 0)
        /\ O = On("OF", ~Fits(-Signed(i.a, i.size), i.size))
    <3>1. /\ On("CF", i.a # 0) = On("CF", i.a > 0)
          /\ On("OF", i.a = Top(i.size)) = On("OF", ~Fits(-Signed(i.a, i.size), i.size))
      BY <1>3, Zenon DEF On
    <3> HIDE DEF r
    <3> QED BY <3>1, <1>3 DEF Z
  <2>4. Arch!Subtracts(i)
    <3> HIDE DEF r, fl, c, Z, C, O, A
    <3> QED BY <1>1, <1>3, <2>1, <2>2, <2>3, SameWords, SameFlags DEF Arch!Subtracts, Arch!Wrote
  <2> QED BY <2>4 DEF ArchDoes
<1> HIDE DEF r, fl
<1> QED BY <1>1, <1>2, <1>3, <1>6, StashIsRight DEF CcOps, fl

-----------------------------------------------------------------------------
(* The logical handlers *)

\* All six flags are those of a result, in the form of ArchFlags.
LEMMA ResultSets ==
  ASSUME NEW on, on \subseteq Arith,
         Visible(rflags', cc') = (Visible(rflags, cc) \ Arith) \cup on
  PROVE  Arch!Sets(Arith, on, {})
<1>1. PICK F, new : F = Visible(rflags, cc) /\ new = Visible(rflags', cc')
  OBVIOUS
<1>2. new \ (Arith \cup {}) = F \ (Arith \cup {}) /\ new \cap Arith = on
  BY <1>1
<1> QED BY <1>1, <1>2, SetsGives

LEMMA LogicShows ==
  ASSUME TypeOK, NEW i \in Insns, NEW r, NEW ws,
         Retire(i, ws, {}, Stash(Now, "Logic", i.size, r, 0, 0))
  PROVE  Arch!Sets(Arith, ZSP(i.size, r), {}) /\ out' = [words |-> ws, facts |-> {}]
<1> DEFINE c == [op |-> "Logic", size |-> i.size, dst |-> r, src |-> 0, src2 |-> 0]
           fl == Stash(Now, "Logic", i.size, r, 0, 0)
<1>1. Shows(fl) = (Visible(rflags, cc) \ Arith) \cup Computed(Now.bits, c)
  BY PlainFault, StashShows DEF CcOps
<1>2. Computed(Now.bits, c) = ZSP(i.size, r)
  BY DEF Computed, ComputeLogic
<1> HIDE DEF c, fl
<1>3. /\ Visible(rflags', cc') = (Visible(rflags, cc) \ Arith) \cup ZSP(i.size, r)
      /\ out' = [words |-> ws, facts |-> {}]
  BY <1>1, <1>2, RetireMaps DEF fl
<1>4. ZSP(i.size, r) \subseteq Arith
  BY OnIs DEF Arith
<1> QED BY <1>3, <1>4, ResultSets

LEMMA LogicIsRight ==
  ASSUME TypeOK, fault = "None", NEW i \in Insns, NEW r \in Words(i.size), Logic(i, r),
         /\ Arch!Sets(Arith, ZSP(i.size, r), {})
         /\ out' = [words |-> <<r>>, facts |-> {}]
         => Arch!Bitwise(i)
  PROVE  Right
<1> DEFINE fl == Stash(Now, "Logic", i.size, r, 0, 0)
<1>1. Write(i, r, fl, Now)
  BY DEF Logic
<1>2. Retire(i, <<r>>, {}, fl) => ArchDoes(i)
  BY LogicShows DEF ArchDoes
<1>3. 0 \in Words(i.size) /\ 0 \in 0 .. CountMask(i.size) - 1
  BY InsnIs, ZeroIs
<1> HIDE DEF fl
<1> QED BY <1>1, <1>2, <1>3, StashIsRight DEF CcOps, fl

LEMMA BitwiseIsRight ==
  ASSUME TypeOK, fault = "None", NEW i \in Insns,
         OpAnd(i) \/ OpOr(i) \/ OpXor(i) \/ OpNot(i) \/ OpTest(i)
  PROVE  Right
<1> DEFINE a == BitsOf(i.a, i.size)
           b == BitsOf(i.b, i.size)
<1>0. /\ i.size \in Sizes /\ i.a \in Words(i.size)
      /\ \A bits : WordOf(bits, i.size) \in Words(i.size)
  BY InsnIs, WordOfFits
<1>1. CASE OpAnd(i)
  <2> DEFINE r == WordOf(a \cap b, i.size)
  <2>1. i.op = "and" /\ Logic(i, r)
    BY <1>1 DEF OpAnd, And
  <2>2. /\ Arch!Sets(Arith, ZSP(i.size, r), {})
        /\ out' = [words |-> <<r>>, facts |-> {}]
        => Arch!Bitwise(i)
    BY <2>1, SameBits, SameFlags DEF Arch!Bitwise, Arch!Wrote
  <2> HIDE DEF r
  <2> QED BY <1>0, <2>1, <2>2, LogicIsRight DEF r
<1>2. CASE OpOr(i)
  <2> DEFINE r == WordOf(a \cup b, i.size)
  <2>1. i.op = "or" /\ Logic(i, r)
    BY <1>2 DEF OpOr
  <2>2. /\ Arch!Sets(Arith, ZSP(i.size, r), {})
        /\ out' = [words |-> <<r>>, facts |-> {}]
        => Arch!Bitwise(i)
    BY <2>1, SameBits, SameFlags DEF Arch!Bitwise, Arch!Wrote
  <2> HIDE DEF r
  <2> QED BY <1>0, <2>1, <2>2, LogicIsRight DEF r
<1>3. CASE OpXor(i)
  <2> DEFINE r == WordOf((a \cup b) \ (a \cap b), i.size)
  <2>1. i.op = "xor" /\ Logic(i, r)
    <3>1. (a \ b) \cup (b \ a) = (a \cup b) \ (a \cap b)
      OBVIOUS
    <3>2. i.op = "xor" /\ Logic(i, WordOf((a \ b) \cup (b \ a), i.size))
      BY <1>3 DEF OpXor
    <3> QED BY <3>1, <3>2
  <2>2. /\ Arch!Sets(Arith, ZSP(i.size, r), {})
        /\ out' = [words |-> <<r>>, facts |-> {}]
        => Arch!Bitwise(i)
    BY <2>1, SameBits, SameFlags DEF Arch!Bitwise, Arch!Wrote
  <2> HIDE DEF r
  <2> QED BY <1>0, <2>1, <2>2, LogicIsRight DEF r
<1>4. CASE OpNot(i)
  <2> DEFINE r == Span(i.size) - 1 - i.a
  <2>1. i.op = "not" /\ Write(i, r, Now, Now)
    BY <1>4 DEF OpNot
  <2>2. r = WordOf((0 .. Width(i.size) - 1) \ a, i.size)
    BY <1>0, ComplementIs
  <2> HIDE DEF r
  <2>3. ASSUME Retire(i, <<r>>, {}, Now) PROVE ArchDoes(i)
    <3>1. Visible(rflags', cc') = Visible(rflags, cc) /\ out' = [words |-> <<r>>, facts |-> {}]
      BY <2>3, RetireMaps, NowShows
    <3>2. Arch!Bitwise(i)
      BY <3>1, <2>1, <2>2, SameBits, SameWords DEF Arch!Bitwise, Arch!Wrote, Arch!Kept
    <3> QED BY <3>2 DEF ArchDoes
  <2> QED BY <2>1, <2>3, PlainFault, WriteIsRight
<1>5. CASE OpTest(i)
  <2> DEFINE r == WordOf(a \cap b, i.size)
             fl == Stash(Now, "Logic", i.size, r, 0, 0)
  <2>1. i.op = "test" /\ Retire(i, <<>>, {}, fl)
    BY <1>5 DEF OpTest, And, RetireOnly
  <2>2. Arch!Sets(Arith, ZSP(i.size, r), {}) /\ out' = [words |-> <<>>, facts |-> {}]
    <3> HIDE DEF r
    <3> QED BY <2>1, LogicShows
  <2>3. Arch!Bitwise(i)
    BY <2>1, <2>2, SameBits, SameFlags DEF Arch!Bitwise, Arch!NoOut
  <2>4. ArchDoes(i)
    BY <2>3 DEF ArchDoes
  <2>5. r \in Words(i.size) /\ 0 \in Words(i.size) /\ 0 \in 0 .. CountMask(i.size) - 1
    BY <1>0, ZeroIs
  <2> HIDE DEF r, fl
  <2> QED BY <2>1, <2>4, <2>5, StashIsRight DEF CcOps, fl
<1> QED BY <1>1, <1>2, <1>3, <1>4, <1>5

-----------------------------------------------------------------------------
(* Multiplication and division *)

LEMMA MulOvIs ==
  ASSUME TypeOK, NEW i, NEW ws, NEW over \in BOOLEAN, Retire(i, ws, {}, MulOv(over))
  PROVE  /\ FlagsOK(MulOv(over))
         /\ Arch!Sets({"CF", "OF"}, IF over THEN {"CF", "OF"} ELSE {}, {})
         /\ out' = [words |-> ws, facts |-> {}]
<1> DEFINE s == IF over THEN 1 ELSE 0
           c == [op |-> "MulOv", size |-> 8, dst |-> 0, src |-> s, src2 |-> 0]
<1>1. MulOv(over) = [bits |-> Synced.bits, cc |-> c]
  BY DEF MulOv, Stash, Synced
<1>2. FlagsOK(Synced) /\ cc.op \in CcOps
  BY TypeGives
<1>3. FlagsOK(MulOv(over))
  BY <1>1, <1>2 DEF FlagsOK, CcOps, Sizes, CountMask
<1>4. Shows(MulOv(over)) = (Visible(rflags, cc) \ Arith) \cup Computed(Synced.bits, c)
  <2> HIDE DEF s
  <2> QED BY PlainFault, StashShows DEF CcOps, MulOv, s
<1>5. Computed(Synced.bits, c)
        = ((Visible(rflags, cc) \cap Arith) \ {"CF", "OF"}) \cup IF over THEN {"CF", "OF"} ELSE {}
  <2>1. Computed(Synced.bits, c) = ComputeMulOv(Synced.bits \cap Arith, s # 0)
    BY DEF Computed
  <2>2. (s # 0) = over
    OBVIOUS
  <2>3. ComputeMulOv(Synced.bits \cap Arith, over)
          = ((Visible(rflags, cc) \cap Arith) \ {"CF", "OF"}) \cup IF over THEN {"CF", "OF"} ELSE {}
    <3>1. CASE over
      BY <3>1, SyncedShows DEF ComputeMulOv, On
    <3>2. CASE ~over
      BY <3>2, SyncedShows DEF ComputeMulOv, On
    <3> QED BY <3>1, <3>2
  <2> HIDE DEF s, c
  <2> QED BY <2>1, <2>2, <2>3, Zenon
<1>6. Visible(rflags', cc') = Shows(MulOv(over)) /\ out' = [words |-> ws, facts |-> {}]
  BY RetireMaps
<1>7. Arch!Sets({"CF", "OF"}, IF over THEN {"CF", "OF"} ELSE {}, {})
  <2>1. PICK F, new : F = Visible(rflags, cc) /\ new = Visible(rflags', cc')
    OBVIOUS
  <2>2. new = (F \ Arith) \cup (((F \cap Arith) \ {"CF", "OF"})
                                \cup IF over THEN {"CF", "OF"} ELSE {})
    BY <2>1, <1>4, <1>5, <1>6
  <2>3. new \ ({"CF", "OF"} \cup {}) = F \ ({"CF", "OF"} \cup {})
    BY <2>2 DEF Arith
  <2>4. new \cap {"CF", "OF"} = IF over THEN {"CF", "OF"} ELSE {}
    BY <2>2 DEF Arith
  <2> QED BY <2>1, <2>3, <2>4, SetsGives
<1> QED BY <1>3, <1>6, <1>7

LEMMA ImulIsRight ==
  ASSUME TypeOK, fault = "None", NEW i \in Insns, OpImul(i) \/ OpImul1(i)
  PROVE  Right
<1>0. i.size \in Sizes /\ i.a \in Words(i.size) /\ i.b \in Words(i.size)
  BY InsnIs
<1>1. PICK p \in Int : p = Signed(i.a, i.size) * Signed(i.b, i.size)
  <2>1. PICK x \in Int, y \in Int : x = Signed(i.a, i.size) /\ y = Signed(i.b, i.size)
    BY <1>0, SignedIs
  <2>2. x * y \in Int
    OBVIOUS
  <2> QED BY <2>1, <2>2
<1>2. PICK lo, hi : lo = Wrap(p, i.size) /\ hi = Wrap(p \div Span(i.size), i.size)
  OBVIOUS
<1>3. PICK over \in BOOLEAN : over <=> ~Fits(p, i.size)
  OBVIOUS
<1>4. (p # Signed(lo, i.size)) = over /\ (Signed(lo, i.size) # p) = over
  BY <1>0, <1>2, <1>3, SignedOfWord
<1>5. hi = Wrap((p - lo) \div Span(i.size), i.size)
  BY <1>0, <1>2, UpperWord
<1>6. \/ i.op = "imul" /\ Retire(i, <<lo>>, {}, MulOv(over))
      \/ i.op = "imul1" /\ Retire(i, <<lo, hi>>, {}, MulOv(over))
  <2>1. CASE OpImul(i)
    <3>1. i.op = "imul" /\ Retire(i, <<lo>>, {}, MulOv(p # Signed(lo, i.size)))
      BY <2>1, <1>1, <1>2 DEF OpImul
    <3> QED BY <3>1, <1>4, Zenon
  <2>2. CASE OpImul1(i)
    <3>1. i.op = "imul1" /\ Retire(i, <<lo, hi>>, {}, MulOv(Signed(lo, i.size) # p))
      BY <2>2, <1>1, <1>2 DEF OpImul1
    <3> QED BY <3>1, <1>4, Zenon
  <2> QED BY <2>1, <2>2
<1>7. ASSUME NEW ws, Retire(i, ws, {}, MulOv(over)),
             \/ i.op = "imul" /\ ws = <<lo>>
             \/ i.op = "imul1" /\ ws = <<lo, hi>>
      PROVE  Right
  <2>1. /\ FlagsOK(MulOv(over)) /\ out' = [words |-> ws, facts |-> {}]
        /\ Arch!Sets({"CF", "OF"}, IF over THEN {"CF", "OF"} ELSE {}, {})
    BY <1>7, MulOvIs
  <2>2. Arch!Multiplies(i)
    BY <1>1, <1>2, <1>3, <1>5, <1>7, <2>1, SameWords DEF Arch!Multiplies, Arch!Wrote
  <2>3. ArchDoes(i)
    BY <2>2 DEF ArchDoes
  <2> QED BY <1>7, <2>1, <2>3, RetireIsRight
<1> QED BY <1>6, <1>7

LEMMA MulIsRight ==
  ASSUME TypeOK, fault = "None", NEW i \in Insns, OpMul(i)
  PROVE  Right
<1>0. i.size \in Sizes /\ i.a \in Words(i.size) /\ i.b \in Words(i.size)
  BY InsnIs
<1>1. PICK p \in Nat : p = i.a * i.b
  BY <1>0, ProductWords
<1>2. PICK lo, hi : lo = Wrap(p, i.size) /\ hi = p \div Span(i.size)
  OBVIOUS
<1>3. PICK over \in BOOLEAN : over <=> p >= Span(i.size)
  OBVIOUS
<1>4. (hi # 0) = over /\ Wrap(hi, i.size) = hi
  BY <1>0, <1>1, <1>2, <1>3, ProductWords
<1>5. hi = Wrap((p - lo) \div Span(i.size), i.size)
  BY <1>0, <1>2, <1>4, UpperWord
<1>6. i.op = "mul" /\ Retire(i, <<lo, hi>>, {}, MulOv(over))
  <2>1. i.op = "mul" /\ Retire(i, <<lo, hi>>, {}, MulOv(hi # 0))
    BY <1>1, <1>2 DEF OpMul
  <2> QED BY <2>1, <1>4, Zenon
<1>7. /\ FlagsOK(MulOv(over)) /\ out' = [words |-> <<lo, hi>>, facts |-> {}]
      /\ Arch!Sets({"CF", "OF"}, IF over THEN {"CF", "OF"} ELSE {}, {})
  BY <1>6, MulOvIs
<1>8. Arch!Multiplies(i)
  BY <1>1, <1>2, <1>3, <1>5, <1>6, <1>7, SameWords DEF Arch!Multiplies, Arch!Wrote
<1>9. ArchDoes(i)
  BY <1>8 DEF ArchDoes
<1> QED BY <1>6, <1>7, <1>9, RetireIsRight

LEMMA DivideErrorIsRight ==
  ASSUME TypeOK, fault = "None", NEW i \in Insns, DivideError(i), i.op \in {"div", "idiv"},
         i.b = 0 \/ Arch!Quotients(i) = {} \/ Arch!MayRefuse(i)
  PROVE  Right
<1>1. /\ last' = i /\ fault' = "DivideError" /\ rflags' = rflags /\ cc' = cc
      /\ saved' = saved /\ out' = NoOut
  BY DEF DivideError
<1>2. TypeOK'
  BY <1>1 DEF TypeOK
<1>3. Visible(rflags', cc') = Visible(rflags, cc)
  BY <1>1
<1>4. Arch!DivideFault(i)
  BY <1>1, <1>3 DEF Arch!DivideFault, Arch!NoOut, NoOut
<1>5. Arch!Next
  BY <1>1, <1>4 DEF Arch!Next
<1> QED BY <1>2, <1>5 DEF Right

\* The quotients ArchFlags admits: the truncated one, if it fits.
LEMMA QuotientsAre ==
  ASSUME NEW i \in Insns, NEW num \in Int, NEW div \in Int,
         \/ i.op = "div" /\ num = i.n * Span(i.size) + i.a /\ div = i.b
         \/ i.op = "idiv" /\ num = Signed(i.n, i.size) * Span(i.size) + i.a
                          /\ div = Signed(i.b, i.size)
  PROVE  /\ Arch!Dividend(i) = num /\ Arch!Divisor(i) = div
         /\ i.op = "div" => Arch!Quotients(i) = {q \in Words(i.size) : Truncates(q, num, div)}
         /\ i.op = "idiv" => Arch!Quotients(i)
              = {q \in -Top(i.size) .. Top(i.size) - 1 : Truncates(q, num, div)}
<1>1. Arch!Dividend(i) = num /\ Arch!Divisor(i) = div
  BY SameWords DEF Arch!Dividend, Arch!Divisor
<1>2. Arch!Quotients(i) =
        {q \in IF i.op = "div" THEN Words(i.size) ELSE -Top(i.size) .. Top(i.size) - 1 :
           Truncates(q, num, div)}
  BY <1>1, SameWords, Zenon DEF Arch!Quotients, Truncates
<1> QED BY <1>1, <1>2

LEMMA DividesIsRight ==
  ASSUME TypeOK, fault = "None", NEW i \in Insns, i.op \in {"div", "idiv"},
         NEW q \in Arch!Quotients(i),
         Retire(i, <<Wrap(q, i.size), Wrap(Arch!Dividend(i) - q * Arch!Divisor(i), i.size)>>,
                {}, Now)
  PROVE  Right
<1> DEFINE ws == <<Wrap(q, i.size), Wrap(Arch!Dividend(i) - q * Arch!Divisor(i), i.size)>>
<1>1. Visible(rflags', cc') = Visible(rflags, cc) /\ out' = [words |-> ws, facts |-> {}]
  <2> HIDE DEF ws
  <2> QED BY RetireMaps, NowShows DEF ws
<1>2. Arch!Wrote(ws)
  BY <1>1 DEF Arch!Wrote
<1>3. Arch!Divides(i)
  BY <1>1, <1>2, SameWords, Zenon DEF Arch!Divides, Arch!Kept
<1>4. ArchDoes(i)
  BY <1>3 DEF ArchDoes
<1> HIDE DEF ws
<1> QED BY <1>4, PlainFault, RetireIsRight DEF ws

LEMMA DivIsRight ==
  ASSUME TypeOK, fault = "None", NEW i \in Insns, OpDiv(i)
  PROVE  Right
<1>0. /\ i.size \in Sizes /\ i.a \in Words(i.size) /\ i.b \in Words(i.size)
      /\ i.a \in Nat /\ i.b \in Nat /\ i.n \in Nat /\ Span(i.size) \in Nat \ {0}
      /\ i.op = "div"
  BY InsnIs, SpanIs DEF Words, OpDiv
<1>1. PICK num \in Nat : num = i.n * Span(i.size) + i.a
  <2>1. PICK x \in Nat, y \in Nat : x = i.n /\ y = Span(i.size)
    BY <1>0
  <2>2. x * y \in Nat
    OBVIOUS
  <2>3. x * y + i.a \in Nat
    BY <2>2, <1>0
  <2> QED BY <2>1, <2>3
<1>2. /\ Arch!Dividend(i) = num /\ Arch!Divisor(i) = i.b
      /\ Arch!Quotients(i) = {q \in Words(i.size) : Truncates(q, num, i.b)}
  BY <1>0, <1>1, QuotientsAre
<1>3. IF i.b = 0 \/ num \div i.b >= Span(i.size) THEN DivideError(i)
      ELSE Retire(i, <<num \div i.b, num % i.b>>, {}, Now)
  BY <1>1 DEF OpDiv
<1>4. CASE i.b = 0
  BY <1>0, <1>3, <1>4, DivideErrorIsRight
<1>5. CASE i.b # 0
  <2>1. PICK q \in Nat : q = num \div i.b /\ Truncates(q, num, i.b) /\ num - q * i.b = num % i.b
    BY <1>0, <1>5, FloorTruncates
  <2>2. CASE q >= Span(i.size)
    <3>1. ASSUME NEW p \in Arch!Quotients(i) PROVE FALSE
      <4>1. p \in Words(i.size) /\ Truncates(p, num, i.b)
        BY <1>2
      <4>2. p \in Int /\ p < Span(i.size)
        BY <1>0, <4>1 DEF Words
      <4>3. p = q
        <5>1. i.b \in Int /\ num \in Int /\ q \in Int /\ i.b # 0 /\ Truncates(q, num, i.b)
          BY <1>0, <1>5, <2>1
        <5> QED BY <5>1, <4>1, <4>2, TruncatesOnce
      <4> QED BY <4>2, <4>3, <2>2, <1>0
    <3>2. Arch!Quotients(i) = {}
      BY <3>1
    <3>3. DivideError(i)
      BY <1>3, <2>1, <2>2
    <3> QED BY <1>0, <3>2, <3>3, DivideErrorIsRight
  <2>3. CASE ~(q >= Span(i.size))
    <3>1. q \in Words(i.size)
      BY <2>3, <1>0 DEF Words
    <3>2. q \in Arch!Quotients(i)
      BY <3>1, <2>1, <1>2
    <3>3. PICK m \in Nat : m = num % i.b /\ m < i.b
      <4>1. i.b \in Nat \ {0}
        BY <1>0, <1>5
      <4> QED BY <4>1, DivisionIs
    <3>4. m \in Words(i.size)
      BY <1>0, <3>3 DEF Words
    <3>5. Wrap(q, i.size) = q /\ Wrap(m, i.size) = m
      <4>1. ASSUME NEW v \in Words(i.size) PROVE Wrap(v, i.size) = v
        <5>1. v \in Nat /\ -Span(i.size) <= v /\ v < Span(i.size)
          BY <1>0 DEF Words
        <5> QED BY <5>1, <1>0, WrapNear
      <4> QED BY <4>1, <3>1, <3>4
    <3>6. Retire(i, <<q, m>>, {}, Now)
      BY <1>3, <1>5, <2>1, <2>3, <3>3
    <3>7. num - q * i.b = m
      BY <2>1, <3>3
    <3>8. Retire(i, <<Wrap(q, i.size), Wrap(Arch!Dividend(i) - q * Arch!Divisor(i), i.size)>>,
                 {}, Now)
      BY <3>5, <3>6, <3>7, <1>2, Zenon
    <3> QED BY <1>0, <3>2, <3>8, DividesIsRight
  <2> QED BY <2>2, <2>3
<1> QED BY <1>4, <1>5

\* What the 64-bit form does not divide needs more than one word.
LEMMA TooWideMayRefuse ==
  ASSUME NEW i \in Insns, i.op = "idiv", TooWide(i)
  PROVE  Arch!MayRefuse(i)
<1>1. i.size = 8 /\ i.size \in Sizes /\ i.a \in Words(i.size) /\ i.n \in Words(i.size)
  BY InsnIs DEF TooWide
<1>2. PICK t \in Nat \ {0} : t = Top(i.size) /\ Span(i.size) = 2 * t
  BY <1>1, SpanIs
<1>3. PICK x \in Int : x = Signed(i.n, i.size)
  BY <1>1, SignedIs
<1>4. i.a \in Nat /\ i.a < 2 * t
  BY <1>1, <1>2 DEF Words
<1>5. Arch!Dividend(i) = x * (2 * t) + i.a
  BY <1>2, <1>3, SameWords DEF Arch!Dividend
<1>6. x # IF i.a >= t THEN -1 ELSE 0
  BY <1>2, <1>3 DEF TooWide
<1>7. PICK y \in Int : y = x * (2 * t)
  <2>1. x * (2 * t) \in Int
    OBVIOUS
  <2> QED BY <2>1
<1>8. /\ x >= 1 => y >= 2 * t
      /\ x = 0 => y = 0
      /\ x = -1 => y = -(2 * t)
      /\ x <= -2 => y <= -(4 * t)
  <2>1. ASSUME x >= 1 PROVE y >= 2 * t
    <3>1. PICK k \in Nat : k = x - 1
      BY <2>1
    <3>2. k * (2 * t) >= 0 /\ y = k * (2 * t) + 2 * t
      BY <3>1, <1>7
    <3> QED BY <3>2
  <2>2. ASSUME x <= -2 PROVE y <= -(4 * t)
    <3>1. PICK k \in Nat : k = -2 - x
      BY <2>2
    <3>2. k * (2 * t) >= 0 /\ y = -(k * (2 * t)) - 4 * t
      BY <3>1, <1>7
    <3> QED BY <3>2
  <2>3. (x = 0 => y = 0) /\ (x = -1 => y = -(2 * t))
    BY <1>7
  <2> QED BY <2>1, <2>2, <2>3
<1>9. ~(y + i.a >= -t /\ y + i.a <= t - 1)
  BY <1>4, <1>6, <1>7, <1>8
<1>10. Arch!Top(i.size) = t
  BY <1>2, SameWords
<1> QED BY <1>1, <1>5, <1>7, <1>9, <1>10 DEF Arch!MayRefuse

LEMMA IdivIsRight ==
  ASSUME TypeOK, fault = "None", NEW i \in Insns, OpIdiv(i)
  PROVE  Right
<1>0. /\ i.size \in Sizes /\ i.a \in Words(i.size) /\ i.b \in Words(i.size)
      /\ i.n \in Words(i.size)
      /\ i.a \in Nat /\ Span(i.size) \in Nat /\ Top(i.size) \in Nat
      /\ i.op = "idiv"
  BY InsnIs, SpanIs DEF Words, OpIdiv
<1>1. PICK num \in Int : num = Signed(i.n, i.size) * Span(i.size) + i.a
  <2>1. PICK x \in Int, y \in Nat : x = Signed(i.n, i.size) /\ y = Span(i.size)
    BY <1>0, SignedIs
  <2>2. x * y \in Int
    OBVIOUS
  <2>3. x * y + i.a \in Int
    BY <2>2, <1>0
  <2> QED BY <2>1, <2>3
<1>2. PICK div \in Int : div = Signed(i.b, i.size) /\ (div = 0 <=> i.b = 0)
  BY <1>0, SignedIs
<1>3. /\ Arch!Dividend(i) = num /\ Arch!Divisor(i) = div
      /\ Arch!Quotients(i) = {q \in -Top(i.size) .. Top(i.size) - 1 : Truncates(q, num, div)}
  BY <1>0, <1>1, <1>2, QuotientsAre
<1>4. PICK q : q = Quot(num, div)
  OBVIOUS
<1>5. IF i.b = 0 \/ TooWide(i) \/ q < -Top(i.size) \/ q >= Top(i.size) THEN DivideError(i)
      ELSE Retire(i, <<Wrap(q, i.size), Wrap(num - q * div, i.size)>>, {}, Now)
  BY <1>1, <1>2, <1>4 DEF OpIdiv
<1>6. CASE i.b = 0
  BY <1>0, <1>5, <1>6, DivideErrorIsRight
<1>8. CASE TooWide(i)
  BY <1>0, <1>5, <1>8, TooWideMayRefuse, DivideErrorIsRight
<1>7. CASE i.b # 0 /\ ~TooWide(i)
  <2>1. q \in Int /\ Truncates(q, num, div) /\ div # 0
    BY <1>2, <1>4, <1>7, QuotIs
  <2>2. CASE q < -Top(i.size) \/ q >= Top(i.size)
    <3>1. ASSUME NEW p \in Arch!Quotients(i) PROVE FALSE
      <4>1. p \in -Top(i.size) .. Top(i.size) - 1 /\ Truncates(p, num, div)
        BY <1>3
      <4>2. p \in Int /\ p < Top(i.size) /\ p >= -Top(i.size)
        BY <1>0, <4>1
      <4>3. p = q
        BY <1>0, <2>1, <4>1, <4>2, TruncatesOnce
      <4> QED BY <4>2, <4>3, <2>2, <1>0
    <3>2. Arch!Quotients(i) = {}
      BY <3>1
    <3>3. DivideError(i)
      BY <1>5, <2>2
    <3> QED BY <1>0, <3>2, <3>3, DivideErrorIsRight
  <2>3. CASE ~(q < -Top(i.size) \/ q >= Top(i.size))
    <3>1. q \in -Top(i.size) .. Top(i.size) - 1
      BY <2>1, <2>3, <1>0
    <3>2. q \in Arch!Quotients(i)
      BY <3>1, <2>1, <1>3
    <3>3. Retire(i, <<Wrap(q, i.size), Wrap(Arch!Dividend(i) - q * Arch!Divisor(i), i.size)>>,
                 {}, Now)
      BY <1>3, <1>5, <1>7, <2>3
    <3> QED BY <1>0, <3>2, <3>3, DividesIsRight
  <2> QED BY <2>2, <2>3
<1> QED BY <1>6, <1>7, <1>8

-----------------------------------------------------------------------------
(* Shifts and rotates *)

LEMMA CountIs ==
  ASSUME NEW i \in Insns
  PROVE  /\ Count(i) \in Nat /\ Count(i) \in 0 .. CountMask(i.size) - 1
         /\ i.op \notin {"shld", "shrd"} => Arch!Count(i) = Count(i)
<1>1. i.b \in Nat
  BY InsnIs, SpanIs DEF Words
<1>2. Count(i) \in Nat /\ Count(i) \in 0 .. CountMask(i.size) - 1
  BY <1>1 DEF Count, CountMask
<1>3. i.op \notin {"shld", "shrd"} => Arch!Count(i) = Count(i)
  BY DEF Arch!Count, Count, CountMask
<1> QED BY <1>2, <1>3

\* OF after a shift or rotate by one: the sign has changed.
Moved(i, n, x) == On("OF", n = 1 /\ Sign(i.a, i.size) # Sign(x.v, i.size))
Plain(i) == i.op \in {"shl", "shr", "sar"}

\* What ArchFlags lets a shift or rotate by n to x leave: the flags of the result
\* if plain, CF, and for a count of 1 OF.
ShiftShows(i, n, x) ==
  IF n = 0 THEN Visible(rflags', cc') = Visible(rflags, cc)
  ELSE \E on \in SUBSET {"OF"} :
         /\ Visible(rflags', cc')
              = (Visible(rflags, cc) \ (IF Plain(i) THEN Arith ELSE {"CF", "OF"}))
                \cup ((IF Plain(i) THEN ZSP(i.size, x.v) ELSE {}) \cup On("CF", x.cf)
                      \cup on)
         /\ n = 1 => on = Moved(i, n, x)
ShiftWrites(i, n, x) ==
  IF i.op \in {"rcl", "rcr"} /\ n % (Width(i.size) + 1) = 0
  THEN out' = [words |-> <<>>, facts |-> {}]
  ELSE out' = [words |-> <<x.v>>, facts |-> {}]

LEMMA ShiftIs ==
  ASSUME NEW i \in Insns, i.op \in {"shl", "shr", "sar", "rol", "ror", "rcl", "rcr"},
         NEW n, n = Arch!Count(i), NEW x, x = Arch!Steps(i, n),
         ShiftShows(i, n, x), ShiftWrites(i, n, x)
  PROVE  ArchDoes(i)
<1> DEFINE Z == IF Plain(i) THEN ZSP(i.size, x.v) ELSE {}
           C == On("CF", x.cf)
           O == Moved(i, n, x)
<1>p. PICK plain \in BOOLEAN : plain <=> Plain(i)
  OBVIOUS
<1>0. IF n = 0 THEN Visible(rflags', cc') = Visible(rflags, cc)
      ELSE \E on \in SUBSET {"OF"} :
             /\ Visible(rflags', cc')
                  = (Visible(rflags, cc) \ (IF plain THEN Arith ELSE {"CF", "OF"}))
                    \cup (Z \cup C \cup on)
             /\ n = 1 => on = O
  <2>1. (IF plain THEN Arith ELSE {"CF", "OF"}) = IF Plain(i) THEN Arith ELSE {"CF", "OF"}
    BY <1>p
  <2> QED BY <2>1, Zenon DEF ShiftShows
<1>z. ~plain => Z = {}
  BY <1>p
<1>1. /\ Z \subseteq {"ZF", "SF", "PF"} /\ C \subseteq {"CF"} /\ O \subseteq {"OF"}
      /\ n # 1 => O = {}
  <2>1. Z \subseteq {"ZF", "SF", "PF"} /\ C \subseteq {"CF"} /\ O \subseteq {"OF"}
    <3>1. Z \subseteq {"ZF", "SF", "PF"}
      BY OnIs
    <3>2. C \subseteq {"CF"} /\ O \subseteq {"OF"}
      BY OnIs, Zenon DEF Moved
    <3> QED BY <3>1, <3>2
  <2>2. n # 1 => O = {}
    BY Zenon DEF On, Moved
  <2> QED BY <2>1, <2>2
<1> DEFINE def == (IF plain THEN Arith ELSE {"CF", "OF"}) \ (IF n = 1 THEN {} ELSE {"OF"})
           on == Z \cup C \cup O
<1> HIDE DEF Z, C, O
<1>2. ASSUME n # 0 PROVE Arch!Sets(def, on, {"OF"} \ def)
  <2>1. PICK F, new : F = Visible(rflags, cc) /\ new = Visible(rflags', cc')
    OBVIOUS
  <2>2. PICK of \in SUBSET {"OF"} :
          /\ new = (F \ (IF plain THEN Arith ELSE {"CF", "OF"})) \cup (Z \cup C \cup of)
          /\ n = 1 => of = O
    BY <1>0, <1>2, <2>1
  <2>3. /\ new \ (def \cup ({"OF"} \ def)) = F \ (def \cup ({"OF"} \ def))
        /\ new \cap def = on
    <3>1. CASE plain /\ n = 1
      BY <3>1, <2>2, <1>1 DEF Arith
    <3>2. CASE plain /\ n # 1
      BY <3>2, <2>2, <1>1 DEF Arith
    <3>3. CASE ~plain /\ n = 1
      BY <3>3, <2>2, <1>1, <1>z
    <3>4. CASE ~plain /\ n # 1
      BY <3>4, <2>2, <1>1, <1>z
    <3> QED BY <3>1, <3>2, <3>3, <3>4
  <2> HIDE DEF def, on
  <2> QED BY <2>1, <2>3, SetsGives
<1>3. n = 0 => Arch!Kept
  BY <1>0 DEF Arch!Kept
<1>4. IF i.op \in {"rcl", "rcr"} /\ n % (Width(i.size) + 1) = 0
      THEN out' = Arch!NoOut ELSE Arch!Wrote(<<x.v>>)
  BY DEF ShiftWrites, Arch!NoOut, Arch!Wrote
<1>5. Arch!Shifts(i)
  <2>1. def = (IF i.op \in {"shl", "shr", "sar"} THEN Arith ELSE {"CF", "OF"})
              \ (IF n = 1 THEN {} ELSE {"OF"})
    BY <1>p DEF Plain
  <2>2. on = (IF i.op \in {"shl", "shr", "sar"} THEN ZSP(i.size, x.v) ELSE {})
             \cup On("CF", x.cf)
             \cup On("OF", n = 1 /\ Sign(i.a, i.size) # Sign(x.v, i.size))
    BY Zenon DEF Z, C, O, Plain, Moved
  <2>3. IF n = 0 THEN Arch!Kept ELSE Arch!Sets(def, on, {"OF"} \ def)
    <3> HIDE DEF def, on
    <3> QED BY <1>2, <1>3
  <2> HIDE DEF def, on
  <2> QED BY <1>4, <2>1, <2>2, <2>3, SameWords, SameFlags, Zenon DEF Arch!Shifts
<1> QED BY <1>5 DEF ArchDoes

LEMMA PlainShiftIsRight ==
  ASSUME TypeOK, fault = "None", NEW i \in Insns, i.op \in {"shl", "shr", "sar"},
         NEW op \in {"Shl", "Shr", "Sar"}, NEW n, n = Count(i),
         NEW x, x = Arch!Steps(i, n), NEW r \in Words(i.size), r = x.v,
         Write(i, r, StashShift(op, i, n, r), Now),
         NEW c, c = [op |-> op, size |-> i.size, dst |-> r, src |-> i.a, src2 |-> n],
         n # 0 => \E on \in SUBSET {"OF"} :
                    /\ Computed(Now.bits, c) = ZSP(i.size, r) \cup On("CF", x.cf) \cup on
                    /\ n = 1 => on = Moved(i, n, x)
  PROVE  Right
<1> DEFINE fl == StashShift(op, i, n, r)
<1>1. /\ i.size \in Sizes /\ i.a \in Words(i.size) /\ n = Arch!Count(i)
      /\ n \in 0 .. CountMask(i.size) - 1 /\ cc.op \in CcOps /\ FlagsOK(Now)
  BY InsnIs, CountIs, PlainFault
<1>2. fl = IF n = 0 THEN Now ELSE Stash(Now, op, i.size, r, i.a, n)
  BY DEF StashShift
<1>3. FlagsOK(fl)
  <2>1. FlagsOK(Stash(Now, op, i.size, r, i.a, n))
    BY <1>1, StashOK DEF CcOps
  <2> HIDE DEF fl
  <2> QED BY <1>1, <1>2, <2>1
<1>4. Shows(fl) = IF n = 0 THEN Visible(rflags, cc)
                  ELSE (Visible(rflags, cc) \ Arith) \cup Computed(Now.bits, c)
  <2>1. Shows(Stash(Now, op, i.size, r, i.a, n))
          = (Visible(rflags, cc) \ Arith) \cup Computed(Now.bits, c)
    BY <1>1, StashShows DEF CcOps
  <2> HIDE DEF fl
  <2> QED BY <1>2, <2>1, NowShows
<1> HIDE DEF fl
<1>5. ASSUME Retire(i, <<r>>, {}, fl) PROVE ArchDoes(i)
  <2>1. Visible(rflags', cc') = Shows(fl) /\ out' = [words |-> <<r>>, facts |-> {}]
    BY <1>5, RetireMaps
  <2>2. ASSUME n # 0
        PROVE  \E on \in SUBSET {"OF"} :
                 /\ Visible(rflags', cc')
                      = (Visible(rflags, cc) \ Arith)
                        \cup (ZSP(i.size, x.v) \cup On("CF", x.cf) \cup on)
                 /\ n = 1 => on = Moved(i, n, x)
    <3>1. PICK on \in SUBSET {"OF"} :
               /\ Computed(Now.bits, c) = ZSP(i.size, r) \cup On("CF", x.cf) \cup on
               /\ n = 1 => on = Moved(i, n, x)
      BY <2>2
    <3> QED BY <3>1, <2>1, <2>2, <1>4
  <2>3. ShiftShows(i, n, x)
    <3>1. Plain(i)
      BY DEF Plain
    <3>2. CASE n = 0
      BY <3>2, <2>1, <1>4 DEF ShiftShows
    <3>3. CASE n # 0
      BY <3>1, <3>3, <2>2 DEF ShiftShows
    <3> QED BY <3>2, <3>3
  <2>4. ShiftWrites(i, n, x)
    BY <2>1 DEF ShiftWrites
  <2> QED BY <1>1, <2>3, <2>4, ShiftIs
<1>6. Write(i, r, fl, Now)
  BY DEF fl
<1> QED BY <1>3, <1>5, <1>6, PlainFault, WriteIsRight

LEMMA TopBit ==
  ASSUME NEW size \in Sizes, NEW a \in Words(size)
  PROVE  /\ BitAt(a, Width(size) - 1) <=> Sign(a, size)
         /\ Width(size) \in Nat /\ Width(size) > 1 /\ a \in Nat /\ a < Pow2[Width(size)]
<1>1. Width(size) \in Nat \ {0} /\ Width(size) > 1 /\ 0 \in Nat
  BY SpanIs
<1>2. a \in Nat /\ a < Pow2[Width(size)] /\ Top(size) = Pow2[Width(size) - 1]
  BY SpanIs DEF Words
<1>3. Pow2[Width(size)] \in Nat \ {0}
  BY <1>1, Pow2Is
<1>4. ShiftedLeft(a, 0, Width(size)) = a
  <2>1. PICK p \in Nat \ {0} : p = Pow2[Width(size)]
    BY <1>3
  <2>2. a % p = a
    BY <1>2, <2>1
  <2>3. ~(0 >= Width(size)) /\ Width(size) - 0 = Width(size)
    BY <1>1
  <2> QED BY <2>1, <2>2, <2>3, <1>2, Pow2Is DEF ShiftedLeft
<1>5. a >= Pow2[Width(size) - 1] <=> 0 < Width(size) /\ BitAt(a, Width(size) - (0 + 1))
  BY <1>1, <1>2, <1>4, ShiftedLeftAgain
<1>6. Width(size) - (0 + 1) = Width(size) - 1 /\ 0 < Width(size)
  BY <1>1
<1>7. BitAt(a, Width(size) - 1) <=> a >= Pow2[Width(size) - 1]
  BY <1>5, <1>6
<1> QED BY <1>1, <1>2, <1>7 DEF Sign

LEMMA ShlIsRight ==
  ASSUME TypeOK, fault = "None", NEW i \in Insns, OpShl(i)
  PROVE  Right
<1>1. PICK n \in Nat : n = Count(i)
  BY CountIs
<1>2. PICK x : x = Arch!Steps(i, n)
  OBVIOUS
<1>3. PICK w \in Nat : w = Width(i.size) /\ w > 1 /\ i.size \in Sizes /\ i.a \in Words(i.size)
  BY InsnIs, TopBit
<1>4. i.op = "shl"
  BY DEF OpShl
<1>5. /\ x.v = ShiftedLeft(i.a, n, w) /\ x.v \in Words(i.size)
      /\ n > 0 => x.cf = (n <= w /\ BitAt(i.a, w - n))
  BY <1>2, <1>3, <1>4, ShlSteps
<1> DEFINE r == IF n >= w THEN 0 ELSE Wrap(i.a * Pow2[n], i.size)
<1>6. r = x.v
  <2>1. CASE n >= w
    BY <2>1, <1>5 DEF ShiftedLeft
  <2>2. CASE ~(n >= w)
    <3>1. n \in 0 .. w
      BY <2>2
    <3>2. Wrap(i.a * Pow2[n], i.size) = (i.a % Pow2[w - n]) * Pow2[n]
      BY <3>1, <1>3, WrapShifts
    <3> QED BY <2>2, <3>2, <1>5 DEF ShiftedLeft
  <2> QED BY <2>1, <2>2
<1>7. Write(i, r, StashShift("Shl", i, n, r), Now)
  BY <1>1, <1>3 DEF OpShl
<1> HIDE DEF r
<1> DEFINE c == [op |-> "Shl", size |-> i.size, dst |-> r, src |-> i.a, src2 |-> n]
<1>8. ASSUME n # 0
      PROVE  \E on \in SUBSET {"OF"} :
               /\ Computed(Now.bits, c) = ZSP(i.size, r) \cup On("CF", x.cf) \cup on
               /\ n = 1 => on = Moved(i, n, x)
  <2>1. PICK cf \in BOOLEAN : cf = (n <= w /\ BitAt(i.a, w - n))
    OBVIOUS
  <2>2. x.cf = cf
    BY <1>5, <1>8, <2>1
  <2> DEFINE on == On("OF", n = 1 /\ Sign(r, i.size) # cf)
  <2>3. Computed(Now.bits, c) = ZSP(i.size, r) \cup On("CF", cf) \cup on
    <3>1. Computed(Now.bits, c) = ComputeShl(i.size, i.a, r, n)
      BY DEF Computed
    <3>2. ComputeShl(i.size, i.a, r, n) = ZSP(i.size, r) \cup On("CF", cf) \cup on
      BY <2>1, <1>3, Zenon DEF ComputeShl
    <3> HIDE DEF c, on
    <3> QED BY <3>1, <3>2
  <2>4. on \in SUBSET {"OF"}
    BY OnIs, Zenon
  <2>5. ASSUME n = 1 PROVE on = Moved(i, n, x)
    <3>1. cf <=> Sign(i.a, i.size)
      <4>1. BitAt(i.a, w - 1) <=> Sign(i.a, i.size)
        BY <1>3, TopBit
      <4>2. n <= w /\ w - n = w - 1
        BY <2>5, <1>3
      <4> QED BY <2>1, <4>1, <4>2
    <3>2. (Sign(r, i.size) # cf) <=> (Sign(i.a, i.size) # Sign(r, i.size))
      <4>1. Sign(r, i.size) \in BOOLEAN /\ Sign(i.a, i.size) \in BOOLEAN
        BY DEF Sign
      <4> QED BY <3>1, <4>1
    <3> QED BY <3>2, <1>6, Zenon DEF Moved, On
  <2> HIDE DEF on, c
  <2> QED BY <2>2, <2>3, <2>4, <2>5
<1>9. r \in Words(i.size) /\ i.op \in {"shl", "shr", "sar"}
  BY <1>4, <1>5, <1>6
<1> HIDE DEF c
<1> QED BY <1>1, <1>2, <1>6, <1>7, <1>8, <1>9, PlainShiftIsRight DEF c

LEMMA ShrIsRight ==
  ASSUME TypeOK, fault = "None", NEW i \in Insns, OpShr(i)
  PROVE  Right
<1>1. PICK n \in Nat : n = Count(i)
  BY CountIs
<1>2. PICK x : x = Arch!Steps(i, n)
  OBVIOUS
<1>3. PICK w \in Nat : w = Width(i.size) /\ w > 1 /\ i.size \in Sizes /\ i.a \in Words(i.size)
  BY InsnIs, TopBit
<1>4. i.op = "shr"
  BY DEF OpShr
<1>5. /\ x.v = i.a \div Pow2[n] /\ x.v \in Words(i.size)
      /\ n > 0 => x.cf = BitAt(i.a, n - 1)
  BY <1>2, <1>3, <1>4, ShrSteps
<1> DEFINE r == IF n >= w THEN 0 ELSE i.a \div Pow2[n]
<1>6. r = x.v
  BY <1>3, <1>5, ShiftedOut
<1>7. Write(i, r, StashShift("Shr", i, n, r), Now)
  BY <1>1, <1>3 DEF OpShr
<1> HIDE DEF r
<1> DEFINE c == [op |-> "Shr", size |-> i.size, dst |-> r, src |-> i.a, src2 |-> n]
<1>8. ASSUME n # 0
      PROVE  \E on \in SUBSET {"OF"} :
               /\ Computed(Now.bits, c) = ZSP(i.size, r) \cup On("CF", x.cf) \cup on
               /\ n = 1 => on = Moved(i, n, x)
  <2>1. PICK cf \in BOOLEAN : cf <=> n <= w /\ BitAt(i.a, n - 1)
    OBVIOUS
  <2>2. x.cf <=> cf
    <3>1. n - 1 \in Nat
      BY <1>8
    <3>2. ~(n <= w) => ~BitAt(i.a, n - 1)
      BY <3>1, <1>3, ShiftedOut
    <3> QED BY <1>5, <1>8, <2>1, <3>2
  <2> DEFINE on == On("OF", n = 1 /\ Sign(i.a, i.size))
  <2>3. Computed(Now.bits, c) = ZSP(i.size, r) \cup On("CF", x.cf) \cup on
    <3>1. Computed(Now.bits, c) = ComputeShr(i.size, i.a, r, n)
      BY DEF Computed
    <3>2. On("CF", x.cf) = On("CF", n <= Width(i.size) /\ BitAt(i.a, n - 1))
      <4>1. x.cf <=> n <= Width(i.size) /\ BitAt(i.a, n - 1)
        BY <2>1, <2>2, <1>3
      <4> QED BY <4>1, Zenon DEF On
    <3>3. ComputeShr(i.size, i.a, r, n) = ZSP(i.size, r) \cup On("CF", x.cf) \cup on
      BY <3>2, Zenon DEF ComputeShr
    <3> HIDE DEF c, on
    <3> QED BY <3>1, <3>3
  <2>4. on \in SUBSET {"OF"}
    BY OnIs, Zenon
  <2>5. ASSUME n = 1 PROVE on = Moved(i, n, x)
    <3>1. ~Sign(x.v, i.size)
      <4>1. Pow2[1] = 2
        <5>1. Pow2[0 + 1] = 2 * Pow2[0]
          BY Pow2Is
        <5> QED BY <5>1, Pow2Is
      <4>2. i.a \in Nat /\ i.a < 2 * Top(i.size) /\ Top(i.size) \in Nat
        BY <1>3, SpanIs DEF Words
      <4>3. i.a \div 2 < Top(i.size)
        <5>1. PICK d \in Nat, e \in {0, 1} : i.a = 2 * d + e /\ d = i.a \div 2
          BY <4>2
        <5>2. e \in Nat
          BY <5>1
        <5>3. PICK t \in Nat : t = Top(i.size)
          BY <4>2
        <5> QED BY <4>2, <5>1, <5>2, <5>3
      <4>4. x.v < Top(i.size)
        BY <1>5, <2>5, <4>1, <4>3
      <4>5. x.v \in Int
        BY <1>5, <2>5, <4>1, <4>2
      <4> QED BY <4>2, <4>4, <4>5 DEF Sign
    <3>2. Sign(i.a, i.size) <=> (Sign(i.a, i.size) # Sign(x.v, i.size))
      <4>1. Sign(x.v, i.size) \in BOOLEAN /\ Sign(i.a, i.size) \in BOOLEAN
        BY DEF Sign
      <4> QED BY <3>1, <4>1
    <3> QED BY <3>2, Zenon DEF Moved, On
  <2> HIDE DEF on, c
  <2> QED BY <2>3, <2>4, <2>5
<1>9. r \in Words(i.size) /\ i.op \in {"shl", "shr", "sar"}
  BY <1>4, <1>5, <1>6
<1> HIDE DEF c
<1> QED BY <1>1, <1>2, <1>6, <1>7, <1>8, <1>9, PlainShiftIsRight DEF c

LEMMA SarIsRight ==
  ASSUME TypeOK, fault = "None", NEW i \in Insns, OpSar(i)
  PROVE  Right
<1>1. PICK n \in Nat : n = Count(i)
  BY CountIs
<1>2. PICK x : x = Arch!Steps(i, n)
  OBVIOUS
<1>3. PICK w \in Nat : w = Width(i.size) /\ w > 1 /\ i.size \in Sizes /\ i.a \in Words(i.size)
  BY InsnIs, TopBit
<1>4. i.op = "sar"
  BY DEF OpSar
<1>5. /\ x.v = Wrap(Signed(i.a, i.size) \div Pow2[n], i.size) /\ x.v \in Words(i.size)
      /\ n > 0 => x.cf = BitAt(Signed(i.a, i.size), n - 1)
      /\ n = 1 => Sign(x.v, i.size) = Sign(i.a, i.size)
  BY <1>2, <1>3, <1>4, SarSteps
<1> DEFINE sa == Signed(i.a, i.size)
           sr == IF n < w THEN sa \div Pow2[n] ELSE IF sa < 0 THEN -1 ELSE 0
           r == Wrap(sr, i.size)
<1>6. r = x.v
  <2>1. sr = sa \div Pow2[n]
    BY <1>3, SignedBits
  <2> HIDE DEF sr, sa
  <2> QED BY <2>1, <1>5 DEF sa
<1>7. Write(i, r, StashShift("Sar", i, n, r), Now)
  BY <1>1, <1>3 DEF OpSar
<1> HIDE DEF r, sa, sr
<1> DEFINE c == [op |-> "Sar", size |-> i.size, dst |-> r, src |-> i.a, src2 |-> n]
<1>8. ASSUME n # 0
      PROVE  \E on \in SUBSET {"OF"} :
               /\ Computed(Now.bits, c) = ZSP(i.size, r) \cup On("CF", x.cf) \cup on
               /\ n = 1 => on = Moved(i, n, x)
  <2>1. x.cf <=> IF n <= Width(i.size) THEN BitAt(i.a, n - 1) ELSE Sign(i.a, i.size)
    <3>1. n - 1 \in Nat /\ (n <= w <=> n - 1 < w) /\ (~(n <= w) <=> n - 1 >= w)
      BY <1>8
    <3>2. n - 1 < w => (BitAt(Signed(i.a, i.size), n - 1) <=> BitAt(i.a, n - 1))
      BY <3>1, <1>3, SignedBits
    <3>3. n - 1 >= w => (BitAt(Signed(i.a, i.size), n - 1) <=> Sign(i.a, i.size))
      BY <3>1, <1>3, SignedBits
    <3>4. x.cf = BitAt(Signed(i.a, i.size), n - 1)
      BY <1>5, <1>8
    <3> QED BY <3>1, <3>2, <3>3, <3>4, <1>3
  <2>2. Computed(Now.bits, c) = ZSP(i.size, r) \cup On("CF", x.cf) \cup {}
    <3>1. Computed(Now.bits, c) = ComputeSar(i.size, i.a, r, n)
      BY DEF Computed
    <3>2. On("CF", x.cf) = On("CF", IF n <= Width(i.size) THEN BitAt(i.a, n - 1)
                                   ELSE Sign(i.a, i.size))
      BY <2>1, Zenon DEF On
    <3>3. ComputeSar(i.size, i.a, r, n) = ZSP(i.size, r) \cup On("CF", x.cf)
      BY <3>2, Zenon DEF ComputeSar
    <3> HIDE DEF c
    <3> QED BY <3>1, <3>3
  <2>3. ASSUME n = 1 PROVE {} = Moved(i, n, x)
    <3>1. ~(Sign(i.a, i.size) # Sign(x.v, i.size))
      BY <1>5, <2>3
    <3> QED BY <3>1, Zenon DEF Moved, On
  <2> HIDE DEF c
  <2> QED BY <2>2, <2>3
<1>9. r \in Words(i.size) /\ i.op \in {"shl", "shr", "sar"}
  BY <1>4, <1>5, <1>6
<1> HIDE DEF c
<1> QED BY <1>1, <1>2, <1>6, <1>7, <1>8, <1>9, PlainShiftIsRight DEF c

LEMMA RotateIsRight ==
  ASSUME TypeOK, fault = "None", NEW i \in Insns, i.op \in {"rol", "ror"},
         NEW op \in {"Rol", "Ror"}, NEW n, n = Count(i),
         NEW x, x = Arch!Steps(i, n), NEW r \in Words(i.size), r = x.v,
         Write(i, r, StashRotate(op, i, n, r), Now),
         NEW c, c = [op |-> op, size |-> i.size, dst |-> r, src |-> i.a, src2 |-> n],
         n # 0 => \E on \in SUBSET {"OF"} :
                    /\ Computed(Synced.bits, c)
                         = ((Visible(rflags, cc) \cap Arith) \ {"CF", "OF"})
                           \cup (On("CF", x.cf) \cup on)
                    /\ n = 1 => on = Moved(i, n, x)
  PROVE  Right
<1> DEFINE fl == StashRotate(op, i, n, r)
<1>1. /\ i.size \in Sizes /\ i.a \in Words(i.size) /\ n = Arch!Count(i)
      /\ n \in 0 .. CountMask(i.size) - 1 /\ cc.op \in CcOps
      /\ FlagsOK(Now) /\ FlagsOK(Synced)
  BY InsnIs, CountIs, PlainFault
<1>2. fl = IF n = 0 THEN Now ELSE Stash(Synced, op, i.size, r, i.a, n)
  BY DEF StashRotate
<1>3. FlagsOK(fl)
  <2>1. FlagsOK(Stash(Synced, op, i.size, r, i.a, n))
    BY <1>1, StashOK DEF CcOps
  <2> HIDE DEF fl
  <2> QED BY <1>1, <1>2, <2>1
<1>4. Shows(fl) = IF n = 0 THEN Visible(rflags, cc)
                  ELSE (Visible(rflags, cc) \ Arith) \cup Computed(Synced.bits, c)
  <2>1. Shows(Stash(Synced, op, i.size, r, i.a, n))
          = (Visible(rflags, cc) \ Arith) \cup Computed(Synced.bits, c)
    BY <1>1, StashShows DEF CcOps
  <2> HIDE DEF fl
  <2> QED BY <1>2, <2>1, NowShows
<1> HIDE DEF fl
<1>5. ASSUME Retire(i, <<r>>, {}, fl) PROVE ArchDoes(i)
  <2>1. Visible(rflags', cc') = Shows(fl) /\ out' = [words |-> <<r>>, facts |-> {}]
    BY <1>5, RetireMaps
  <2>2. ASSUME n # 0
        PROVE  \E on \in SUBSET {"OF"} :
                 /\ Visible(rflags', cc')
                      = (Visible(rflags, cc) \ {"CF", "OF"}) \cup ({} \cup On("CF", x.cf) \cup on)
                 /\ n = 1 => on = Moved(i, n, x)
    <3>1. PICK on \in SUBSET {"OF"} :
               /\ Computed(Synced.bits, c)
                    = ((Visible(rflags, cc) \cap Arith) \ {"CF", "OF"})
                      \cup (On("CF", x.cf) \cup on)
               /\ n = 1 => on = Moved(i, n, x)
      BY <2>2
    <3>2. Visible(rflags', cc')
            = (Visible(rflags, cc) \ {"CF", "OF"}) \cup ({} \cup On("CF", x.cf) \cup on)
      <4>1. Visible(rflags', cc') = (Visible(rflags, cc) \ Arith)
              \cup (((Visible(rflags, cc) \cap Arith) \ {"CF", "OF"}) \cup (On("CF", x.cf) \cup on))
        BY <3>1, <2>1, <2>2, <1>4
      <4>2. {"CF", "OF"} \subseteq Arith
        BY DEF Arith
      <4> QED BY <4>1, <4>2
    <3> QED BY <3>1, <3>2
  <2>3. ShiftShows(i, n, x)
    <3>1. ~Plain(i)
      BY DEF Plain
    <3>2. CASE n = 0
      BY <3>2, <2>1, <1>4 DEF ShiftShows
    <3>3. CASE n # 0
      BY <3>1, <3>3, <2>2 DEF ShiftShows
    <3> QED BY <3>2, <3>3
  <2>4. ShiftWrites(i, n, x)
    BY <2>1 DEF ShiftWrites
  <2> QED BY <1>1, <2>3, <2>4, ShiftIs
<1>6. Write(i, r, fl, Now)
  BY DEF fl
<1> QED BY <1>3, <1>5, <1>6, PlainFault, WriteIsRight

\* The flags a rotate computes: CF, and OF when the count is 1.
RotateOn(n, kept, of) == IF n = 1 THEN On("OF", of) ELSE kept \cap {"OF"}

RotateFlagsAre(n, cf, of, kept) ==
  /\ (kept \ (IF n = 1 THEN {"CF", "OF"} ELSE {"CF"}))
     \cup On("CF", cf) \cup On("OF", n = 1 /\ of)
       = (kept \ {"CF", "OF"}) \cup (On("CF", cf) \cup RotateOn(n, kept, of))
  /\ RotateOn(n, kept, of) \in SUBSET {"OF"}

LEMMA RotateFlags ==
  ASSUME NEW n, NEW cf, NEW of, NEW kept, kept \subseteq Arith
  PROVE  RotateFlagsAre(n, cf, of, kept)
<1>1. CASE n = 1
  <2>1. On("OF", n = 1 /\ of) = On("OF", of)
    BY <1>1, Zenon DEF On
  <2>2. On("OF", of) \in SUBSET {"OF"}
    BY OnIs, Zenon
  <2> QED BY <1>1, <2>1, <2>2 DEF RotateOn, RotateFlagsAre
<1>2. CASE n # 1
  <2>1. On("OF", n = 1 /\ of) = {}
    BY <1>2, Zenon DEF On
  <2>2. (kept \cap {"OF"}) \in SUBSET {"OF"}
    OBVIOUS
  <2>3. (kept \ (IF n = 1 THEN {"CF", "OF"} ELSE {"CF"}))
              \cup On("CF", cf) \cup On("OF", n = 1 /\ of)
          = (kept \ {"CF", "OF"}) \cup (On("CF", cf) \cup (kept \cap {"OF"}))
    BY <1>2, <2>1
  <2> QED BY <1>2, <2>2, <2>3 DEF RotateOn, RotateFlagsAre
<1> QED BY <1>1, <1>2

LEMMA RolIsRight ==
  ASSUME TypeOK, fault = "None", NEW i \in Insns, OpRol(i)
  PROVE  Right
<1>1. PICK n \in Nat : n = Count(i)
  BY CountIs
<1>2. PICK x : x = Arch!Steps(i, n)
  OBVIOUS
<1>3. PICK w \in Nat : w = Width(i.size) /\ w > 1 /\ i.size \in Sizes /\ i.a \in Words(i.size)
  BY InsnIs, TopBit
<1>4. i.op = "rol"
  BY DEF OpRol
<1>5. /\ x.v = TurnedLeft(i.a, n % w, w) /\ x.v \in Words(i.size)
      /\ n > 0 => x.cf = (x.v % 2 = 1)
      /\ n = 1 => x.cf = Sign(i.a, i.size)
  BY <1>2, <1>3, <1>4, RolSteps
<1>6. PICK m \in Nat : m = n % w /\ m < w
  <2>1. w \in Nat \ {0}
    BY <1>3
  <2> QED BY <2>1, DivisionIs
<1> DEFINE r == Wrap(i.a * Pow2[m], i.size) + (i.a \div Pow2[w - m])
<1>7. r = x.v
  <2>1. m \in 0 .. w
    BY <1>6
  <2>2. Wrap(i.a * Pow2[m], i.size) = (i.a % Pow2[w - m]) * Pow2[m]
    BY <2>1, <1>3, WrapShifts
  <2> QED BY <2>2, <1>5, <1>6 DEF TurnedLeft
<1>8. Write(i, r, StashRotate("Rol", i, n, r), Now)
  BY <1>1, <1>3, <1>6 DEF OpRol
<1> HIDE DEF r
<1> DEFINE c == [op |-> "Rol", size |-> i.size, dst |-> r, src |-> i.a, src2 |-> n]
           kept == Visible(rflags, cc) \cap Arith
<1>9. ASSUME n # 0
      PROVE  \E on \in SUBSET {"OF"} :
               /\ Computed(Synced.bits, c) = (kept \ {"CF", "OF"}) \cup (On("CF", x.cf) \cup on)
               /\ n = 1 => on = Moved(i, n, x)
  <2>1. PICK cf \in BOOLEAN : cf = (r % 2 = 1)
    OBVIOUS
  <2>2. x.cf = cf
    BY <1>5, <1>7, <1>9, <2>1
  <2>3. PICK of \in BOOLEAN : of = (Sign(r, i.size) # cf)
    OBVIOUS
  <2>4. Computed(Synced.bits, c)
          = (kept \ (IF n = 1 THEN {"CF", "OF"} ELSE {"CF"}))
            \cup On("CF", cf) \cup On("OF", n = 1 /\ of)
    <3>1. Computed(Synced.bits, c) = ComputeRol(i.size, r, n, kept)
      BY SyncedShows DEF Computed
    <3>2. ComputeRol(i.size, r, n, kept)
            = (kept \ (IF n = 1 THEN {"CF", "OF"} ELSE {"CF"}))
              \cup On("CF", cf) \cup On("OF", n = 1 /\ of)
      <4> HIDE DEF kept
      <4> QED BY <2>1, <2>3, Zenon DEF ComputeRol
    <3> HIDE DEF c, kept
    <3> QED BY <3>1, <3>2, Zenon
  <2>5. PICK on \in SUBSET {"OF"} :
          /\ Computed(Synced.bits, c) = (kept \ {"CF", "OF"}) \cup (On("CF", cf) \cup on)
          /\ n = 1 => on = On("OF", of)
    <3>1. kept \subseteq Arith
      OBVIOUS
    <3> HIDE DEF kept, c
    <3>2. /\ (kept \ (IF n = 1 THEN {"CF", "OF"} ELSE {"CF"}))
             \cup On("CF", cf) \cup On("OF", n = 1 /\ of)
               = (kept \ {"CF", "OF"}) \cup (On("CF", cf) \cup RotateOn(n, kept, of))
          /\ RotateOn(n, kept, of) \in SUBSET {"OF"}
      <4>1. RotateFlagsAre(n, cf, of, kept)
        BY <3>1, RotateFlags
      <4> QED BY <4>1, Zenon DEF RotateFlagsAre
    <3>3. Computed(Synced.bits, c)
            = (kept \ {"CF", "OF"}) \cup (On("CF", cf) \cup RotateOn(n, kept, of))
      BY <2>4, <3>2, Zenon
    <3>4. n = 1 => RotateOn(n, kept, of) = On("OF", of)
      BY DEF RotateOn
    <3> QED BY <3>2, <3>3, <3>4
  <2>6. ASSUME n = 1 PROVE On("OF", of) = Moved(i, n, x)
    <3>1. x.cf = Sign(i.a, i.size)
      BY <1>5, <2>6
    <3>2. of <=> (n = 1 /\ Sign(i.a, i.size) # Sign(x.v, i.size))
      <4>1. Sign(r, i.size) \in BOOLEAN /\ Sign(i.a, i.size) \in BOOLEAN
        BY DEF Sign
      <4> QED BY <4>1, <3>1, <2>2, <2>3, <2>6, <1>7
    <3> QED BY <3>2, Zenon DEF Moved, On
  <2> HIDE DEF kept, c
  <2> QED BY <2>2, <2>5, <2>6
<1>10. r \in Words(i.size) /\ i.op \in {"rol", "ror"}
  BY <1>4, <1>5, <1>7
<1> HIDE DEF c
<1> QED BY <1>1, <1>2, <1>7, <1>8, <1>9, <1>10, RotateIsRight DEF c

LEMMA RorIsRight ==
  ASSUME TypeOK, fault = "None", NEW i \in Insns, OpRor(i)
  PROVE  Right
<1>1. PICK n \in Nat : n = Count(i)
  BY CountIs
<1>2. PICK x : x = Arch!Steps(i, n)
  OBVIOUS
<1>3. PICK w \in Nat : w = Width(i.size) /\ w > 1 /\ i.size \in Sizes /\ i.a \in Words(i.size)
  BY InsnIs, TopBit
<1>4. i.op = "ror"
  BY DEF OpRor
<1>5. /\ x.v = TurnedRight(i.a, n % w, w) /\ x.v \in Words(i.size)
      /\ n > 0 => x.cf = Sign(x.v, i.size)
      /\ n = 1 => (BitAt(x.v, w - 2) <=> Sign(i.a, i.size))
  BY <1>2, <1>3, <1>4, RorSteps
<1>6. PICK m : m = n % w
  OBVIOUS
<1> DEFINE r == (i.a \div Pow2[m]) + (i.a % Pow2[m]) * Pow2[w - m]
<1>7. r = x.v
  BY <1>5, <1>6 DEF TurnedRight
<1>8. Write(i, r, StashRotate("Ror", i, n, r), Now)
  BY <1>1, <1>3, <1>6 DEF OpRor
<1> HIDE DEF r
<1> DEFINE c == [op |-> "Ror", size |-> i.size, dst |-> r, src |-> i.a, src2 |-> n]
           kept == Visible(rflags, cc) \cap Arith
<1>9. ASSUME n # 0
      PROVE  \E on \in SUBSET {"OF"} :
               /\ Computed(Synced.bits, c) = (kept \ {"CF", "OF"}) \cup (On("CF", x.cf) \cup on)
               /\ n = 1 => on = Moved(i, n, x)
  <2>1. PICK cf \in BOOLEAN : cf = Sign(r, i.size)
    <3>1. Sign(r, i.size) \in BOOLEAN
      BY DEF Sign
    <3> QED BY <3>1
  <2>2. x.cf = cf
    BY <1>5, <1>7, <1>9, <2>1
  <2>3. PICK of \in BOOLEAN : of = (cf # BitAt(r, Width(i.size) - 2))
    OBVIOUS
  <2>4. Computed(Synced.bits, c)
          = (kept \ (IF n = 1 THEN {"CF", "OF"} ELSE {"CF"}))
            \cup On("CF", cf) \cup On("OF", n = 1 /\ of)
    <3>1. Computed(Synced.bits, c) = ComputeRor(i.size, r, n, kept)
      BY SyncedShows DEF Computed
    <3>2. ComputeRor(i.size, r, n, kept)
            = (kept \ (IF n = 1 THEN {"CF", "OF"} ELSE {"CF"}))
              \cup On("CF", cf) \cup On("OF", n = 1 /\ of)
      <4> HIDE DEF kept
      <4> QED BY <2>1, <2>3, Zenon DEF ComputeRor
    <3> HIDE DEF c, kept
    <3> QED BY <3>1, <3>2, Zenon
  <2>5. PICK on \in SUBSET {"OF"} :
          /\ Computed(Synced.bits, c) = (kept \ {"CF", "OF"}) \cup (On("CF", cf) \cup on)
          /\ n = 1 => on = On("OF", of)
    <3>1. kept \subseteq Arith
      OBVIOUS
    <3> HIDE DEF kept, c
    <3>2. /\ (kept \ (IF n = 1 THEN {"CF", "OF"} ELSE {"CF"}))
             \cup On("CF", cf) \cup On("OF", n = 1 /\ of)
               = (kept \ {"CF", "OF"}) \cup (On("CF", cf) \cup RotateOn(n, kept, of))
          /\ RotateOn(n, kept, of) \in SUBSET {"OF"}
      <4>1. RotateFlagsAre(n, cf, of, kept)
        BY <3>1, RotateFlags
      <4> QED BY <4>1, Zenon DEF RotateFlagsAre
    <3>3. Computed(Synced.bits, c)
            = (kept \ {"CF", "OF"}) \cup (On("CF", cf) \cup RotateOn(n, kept, of))
      BY <2>4, <3>2, Zenon
    <3>4. n = 1 => RotateOn(n, kept, of) = On("OF", of)
      BY DEF RotateOn
    <3> QED BY <3>2, <3>3, <3>4
  <2>6. ASSUME n = 1 PROVE On("OF", of) = Moved(i, n, x)
    <3>1. BitAt(x.v, w - 2) <=> Sign(i.a, i.size)
      BY <1>5, <2>6
    <3>2. of <=> (n = 1 /\ Sign(i.a, i.size) # Sign(x.v, i.size))
      <4>1. Sign(r, i.size) \in BOOLEAN /\ Sign(i.a, i.size) \in BOOLEAN
            /\ BitAt(r, w - 2) \in BOOLEAN
        BY DEF Sign, BitAt
      <4> QED BY <4>1, <3>1, <2>1, <2>3, <2>6, <1>3, <1>7
    <3> QED BY <3>2, Zenon DEF Moved, On
  <2> HIDE DEF kept, c
  <2> QED BY <2>2, <2>5, <2>6
<1>10. r \in Words(i.size) /\ i.op \in {"rol", "ror"}
  BY <1>4, <1>5, <1>7
<1> HIDE DEF c
<1> QED BY <1>1, <1>2, <1>7, <1>8, <1>9, <1>10, RotateIsRight DEF c

\* A flag state that is written directly, after a sync.
DirectIs(fl, shown) == /\ FlagsOK(fl) /\ Shows(fl) = shown
                       /\ fl.bits = shown /\ fl.cc = NoStash
                       /\ fl = [bits |-> fl.bits, cc |-> fl.cc]

LEMMA DirectOK ==
  ASSUME NEW bits, bits \subseteq Flag
  PROVE  DirectIs([bits |-> bits, cc |-> NoStash], bits)
<1>1. Shows([bits |-> bits, cc |-> NoStash]) = bits
  BY NoStashShows DEF Shows
<1>2. FlagsOK([bits |-> bits, cc |-> NoStash])
  BY DEF FlagsOK, NoStash, CcOps, Sizes, CountMask
<1> QED BY <1>1, <1>2 DEF DirectIs

LEMMA SetAfterSync ==
  ASSUME TypeOK, NEW def, NEW on, on \subseteq Flag
  PROVE  DirectIs(Put(Synced, def, on), (Visible(rflags, cc) \ def) \cup on)
<1>1. Put(Synced, def, on) = [bits |-> (Visible(rflags, cc) \ def) \cup on, cc |-> NoStash]
  BY DEF Put, Synced
<1>2. (Visible(rflags, cc) \ def) \cup on \subseteq Flag
  BY TypeGives
<1> QED BY <1>1, <1>2, DirectOK

\* Setting two flags one after the other.
LEMMA SetTwice ==
  ASSUME TypeOK, NEW d, NEW e, d \in {"CF", "OF"}, e \in {"CF", "OF"}, d # e,
         NEW P, NEW Q, P \subseteq {d}, Q \subseteq {e}
  PROVE  DirectIs(Put(Put(Synced, {d}, P), {e}, Q),
                  (Visible(rflags, cc) \ {"CF", "OF"}) \cup (P \cup Q))
<1>1. PICK new : new = (Visible(rflags, cc) \ {"CF", "OF"}) \cup (P \cup Q)
  OBVIOUS
<1>2. new = (((Visible(rflags, cc) \ {d}) \cup P) \ {e}) \cup Q
  BY <1>1
<1>3. Put(Put(Synced, {d}, P), {e}, Q) = [bits |-> new, cc |-> NoStash]
  <2>1. PICK once : once = (Visible(rflags, cc) \ {d}) \cup P
    OBVIOUS
  <2>2. Put(Synced, {d}, P) = [bits |-> once, cc |-> NoStash]
    BY <2>1 DEF Put, Synced
  <2>3. new = (once \ {e}) \cup Q
    BY <2>1, <1>2
  <2>4. Put([bits |-> once, cc |-> NoStash], {e}, Q) = [bits |-> (once \ {e}) \cup Q, cc |-> NoStash]
    BY DEF Put
  <2> QED BY <2>2, <2>3, <2>4, Zenon
<1>4. new \subseteq Flag
  BY <1>1, TypeGives DEF Flag, Arith
<1> QED BY <1>1, <1>3, <1>4, DirectOK

\* RCL and RCR through CF: what they show when they have turned, and when the
\* count is a multiple of the width and the carry.
CarryShows(i, n, x) ==
  \E on \in SUBSET {"OF"} :
     /\ n = 1 => on = Moved(i, n, x)
     /\ Visible(rflags', cc')
          = (Visible(rflags, cc) \ {"CF", "OF"}) \cup (On("CF", x.cf) \cup on)

LEMMA CarryTurned ==
  ASSUME NEW i, i.op \in {"rcl", "rcr"}, NEW n, n # 0, NEW x, CarryShows(i, n, x)
  PROVE  ShiftShows(i, n, x)
<1>1. ~Plain(i)
  BY DEF Plain
<1>0. PICK on \in SUBSET {"OF"} :
        /\ n = 1 => on = Moved(i, n, x)
        /\ Visible(rflags', cc')
             = (Visible(rflags, cc) \ {"CF", "OF"}) \cup (On("CF", x.cf) \cup on)
  BY DEF CarryShows
<1>2. Visible(rflags', cc')
        = (Visible(rflags, cc) \ {"CF", "OF"}) \cup ({} \cup On("CF", x.cf) \cup on)
  BY <1>0
<1> QED BY <1>0, <1>1, <1>2 DEF ShiftShows

LEMMA CarryKept ==
  ASSUME NEW i, i.op \in {"rcl", "rcr"}, NEW n \in Nat, n # 1, NEW x,
         x.cf <=> "CF" \in Visible(rflags, cc),
         Visible(rflags', cc') = Visible(rflags, cc)
  PROVE  ShiftShows(i, n, x)
<1>1. CASE n = 0
  BY <1>1 DEF ShiftShows
<1>2. CASE n # 0
  <2>1. PICK on : on = Visible(rflags, cc) \cap {"OF"}
    OBVIOUS
  <2>2. On("CF", x.cf) = Visible(rflags, cc) \cap {"CF"}
    <3>1. CASE x.cf
      BY <3>1 DEF On
    <3>2. CASE ~x.cf
      BY <3>2 DEF On
    <3> QED BY <3>1, <3>2
  <2>3. Visible(rflags', cc')
           = (Visible(rflags, cc) \ {"CF", "OF"}) \cup (On("CF", x.cf) \cup on)
    BY <2>1, <2>2
  <2>4. on \in SUBSET {"OF"}
    BY <2>1
  <2>5. CarryShows(i, n, x)
    BY <2>3, <2>4 DEF CarryShows
  <2> QED BY <1>2, <2>5, CarryTurned
<1> QED BY <1>1, <1>2

\* A whole number of turns leaves everything as it was.
LEMMA WholeTurns ==
  ASSUME TypeOK, fault = "None", NEW i \in Insns, i.op \in {"rcl", "rcr"},
         NEW n \in Nat, n = Count(i), n % (Width(i.size) + 1) = 0, RetireOnly(i, Now)
  PROVE  Right
<1>1. PICK x : x = Arch!Steps(i, n)
  OBVIOUS
<1>2. i.size \in Sizes /\ i.a \in Words(i.size) /\ n = Arch!Count(i)
  BY InsnIs, CountIs
<1>3. x.cf <=> "CF" \in Visible(rflags, cc)
  <2>1. CASE i.op = "rcl"
    BY <2>1, <1>1, <1>2, RclSteps
  <2>2. CASE i.op = "rcr"
    BY <2>2, <1>1, <1>2, RcrSteps
  <2> QED BY <2>1, <2>2
<1>4. n # 1
  <2>1. PICK w \in Nat : w = Width(i.size) + 1 /\ w > 1
    BY <1>2, SpanIs
  <2> QED BY <2>1
<1>5. Visible(rflags', cc') = Visible(rflags, cc) /\ out' = [words |-> <<>>, facts |-> {}]
  BY RetireMaps, NowShows DEF RetireOnly
<1>6. ShiftShows(i, n, x)
  BY <1>3, <1>4, <1>5, CarryKept
<1>7. ShiftWrites(i, n, x)
  BY <1>5 DEF ShiftWrites
<1>8. ArchDoes(i)
  BY <1>1, <1>2, <1>6, <1>7, ShiftIs
<1> QED BY <1>8, PlainFault, RetireIsRight DEF RetireOnly

LEMMA RclIsRight ==
  ASSUME TypeOK, fault = "None", NEW i \in Insns, OpRcl(i)
  PROVE  Right
<1>1. PICK n \in Nat : n = Count(i) /\ n = Arch!Count(i)
  BY CountIs DEF OpRcl
<1>2. PICK y : y = Arch!Steps(i, n)
  OBVIOUS
<1>3. i.size \in Sizes /\ i.a \in Words(i.size) /\ i.op = "rcl"
  BY InsnIs DEF OpRcl
<1>4. PICK m : m = n % (Width(i.size) + 1)
  OBVIOUS
<1>5. PICK x : x = RclLoop(i, m)
  OBVIOUS
<1>6. /\ y.v = x.v /\ (y.cf <=> x.cf = 1) /\ y.v \in Words(i.size)
      /\ n = 1 => (y.cf <=> Sign(i.a, i.size))
  BY <1>2, <1>3, <1>4, <1>5, RclSteps
<1> DEFINE C == On("CF", x.cf = 1)
           O == On("OF", Sign(x.v, i.size) # (x.cf = 1))
           set == Put(Synced, {"CF"}, C)
           fl == IF n = 1 THEN Put(set, {"OF"}, O) ELSE set
<1>7. IF m = 0 THEN RetireOnly(i, Now) ELSE Write(i, x.v, fl, Synced)
  BY <1>1, <1>4, <1>5 DEF OpRcl
<1>8. C \subseteq {"CF"} /\ O \subseteq {"OF"} /\ C = On("CF", y.cf)
  <2>1. C \subseteq {"CF"} /\ O \subseteq {"OF"}
    BY OnIs, Zenon
  <2>2. C = On("CF", y.cf)
    BY <1>6, Zenon DEF On
  <2> QED BY <2>1, <2>2
<1>9. n = 1 => O = Moved(i, n, y)
  <2> SUFFICES ASSUME n = 1 PROVE O = Moved(i, n, y)
    OBVIOUS
  <2>1. (Sign(x.v, i.size) # (x.cf = 1)) <=> (n = 1 /\ Sign(i.a, i.size) # Sign(y.v, i.size))
    <3>1. Sign(x.v, i.size) \in BOOLEAN /\ Sign(i.a, i.size) \in BOOLEAN
      BY DEF Sign
    <3> QED BY <3>1, <1>6
  <2> QED BY <2>1, Zenon DEF Moved, On
<1> HIDE DEF C, O
<1>10. CASE m = 0
  BY <1>1, <1>3, <1>4, <1>7, <1>10, WholeTurns
<1>11. CASE m # 0
  <2>1. n # 0
    <3>1. PICK w \in Nat : w = Width(i.size) + 1 /\ w > 1
      BY <1>3, SpanIs
    <3> QED BY <3>1, <1>4, <1>11
  <2>2. FlagsOK(fl) /\ \E on \in SUBSET {"OF"} :
          /\ Shows(fl) = (Visible(rflags, cc) \ {"CF", "OF"}) \cup (C \cup on)
          /\ n = 1 => on = O
    <3>1. CASE n = 1
      <4>1. DirectIs(Put(Put(Synced, {"CF"}, C), {"OF"}, O),
                     (Visible(rflags, cc) \ {"CF", "OF"}) \cup (C \cup O))
        BY <1>8, SetTwice
      <4>2. fl = Put(Put(Synced, {"CF"}, C), {"OF"}, O)
        BY <3>1
      <4> HIDE DEF fl, set
      <4> QED BY <3>1, <4>1, <4>2, <1>8 DEF DirectIs
    <3>2. CASE n # 1
      <4>1. C \subseteq Flag
        BY <1>8 DEF Flag, Arith
      <4>2. FlagsOK(set) /\ Shows(set) = (Visible(rflags, cc) \ {"CF"}) \cup C
        BY <4>1, SetAfterSync DEF DirectIs
      <4>3. (Visible(rflags, cc) \ {"CF"}) \cup C
              = (Visible(rflags, cc) \ {"CF", "OF"}) \cup (C \cup (Visible(rflags, cc) \cap {"OF"}))
        OBVIOUS
      <4>4. Visible(rflags, cc) \cap {"OF"} \in SUBSET {"OF"}
        OBVIOUS
      <4> HIDE DEF set
      <4> QED BY <3>2, <4>2, <4>3, <4>4
    <3> QED BY <3>1, <3>2
  <2> HIDE DEF fl
  <2>3. ASSUME Retire(i, <<x.v>>, {}, fl) PROVE ArchDoes(i)
    <3>1. Visible(rflags', cc') = Shows(fl) /\ out' = [words |-> <<x.v>>, facts |-> {}]
      BY <2>3, RetireMaps
    <3>2. ShiftShows(i, n, y)
      <4>1. PICK on \in SUBSET {"OF"} :
              /\ Shows(fl) = (Visible(rflags, cc) \ {"CF", "OF"}) \cup (C \cup on)
              /\ n = 1 => on = O
        BY <2>2
      <4>2. Visible(rflags', cc')
              = (Visible(rflags, cc) \ {"CF", "OF"}) \cup (On("CF", y.cf) \cup on)
        BY <4>1, <3>1, <1>8
      <4>3. n = 1 => on = Moved(i, n, y)
        BY <4>1, <1>9
      <4>4. CarryShows(i, n, y)
        BY <4>2, <4>3 DEF CarryShows
      <4> QED BY <4>4, <2>1, <1>3, CarryTurned
    <3>3. ShiftWrites(i, n, y)
      BY <3>1, <1>4, <1>6, <1>11 DEF ShiftWrites
    <3> QED BY <1>1, <1>2, <1>3, <3>2, <3>3, ShiftIs
  <2> QED BY <1>7, <1>11, <2>2, <2>3, PlainFault, WriteIsRight
<1> QED BY <1>10, <1>11

LEMMA RcrIsRight ==
  ASSUME TypeOK, fault = "None", NEW i \in Insns, OpRcr(i)
  PROVE  Right
<1>1. PICK n \in Nat : n = Count(i) /\ n = Arch!Count(i)
  BY CountIs DEF OpRcr
<1>2. PICK y : y = Arch!Steps(i, n)
  OBVIOUS
<1>3. i.size \in Sizes /\ i.a \in Words(i.size) /\ i.op = "rcr"
  BY InsnIs DEF OpRcr
<1>4. PICK m : m = n % (Width(i.size) + 1)
  OBVIOUS
<1>5. PICK x : x = RcrLoop(i, m)
  OBVIOUS
<1>6. /\ y.v = x.v /\ (y.cf <=> x.cf = 1) /\ y.v \in Words(i.size)
      /\ n = 1 => (Sign(y.v, i.size) <=> CarryOf(Synced) = 1)
  BY <1>2, <1>3, <1>4, <1>5, RcrSteps
<1> DEFINE C == On("CF", x.cf = 1)
           O == On("OF", Sign(i.a, i.size) # (CarryOf(Synced) = 1))
           early == IF n = 1 THEN Put(Synced, {"OF"}, O) ELSE Synced
           fl == Put(early, {"CF"}, C)
<1>7. IF m = 0 THEN RetireOnly(i, Now) ELSE Write(i, x.v, fl, early)
  BY <1>1, <1>4, <1>5 DEF OpRcr
<1>8. C \subseteq {"CF"} /\ O \subseteq {"OF"} /\ C = On("CF", y.cf)
  <2>1. C \subseteq {"CF"} /\ O \subseteq {"OF"}
    BY OnIs, Zenon
  <2>2. C = On("CF", y.cf)
    BY <1>6, Zenon DEF On
  <2> QED BY <2>1, <2>2
<1>9. n = 1 => O = Moved(i, n, y)
  <2> SUFFICES ASSUME n = 1 PROVE O = Moved(i, n, y)
    OBVIOUS
  <2>1. (Sign(i.a, i.size) # (CarryOf(Synced) = 1))
          <=> (n = 1 /\ Sign(i.a, i.size) # Sign(y.v, i.size))
    <3>1. Sign(y.v, i.size) \in BOOLEAN /\ Sign(i.a, i.size) \in BOOLEAN
      BY DEF Sign
    <3> QED BY <3>1, <1>6
  <2> QED BY <2>1, Zenon DEF Moved, On
<1> HIDE DEF C, O
<1>10. CASE m = 0
  BY <1>1, <1>3, <1>4, <1>7, <1>10, WholeTurns
<1>11. CASE m # 0
  <2>1. n # 0
    <3>1. PICK w \in Nat : w = Width(i.size) + 1 /\ w > 1
      BY <1>3, SpanIs
    <3> QED BY <3>1, <1>4, <1>11
  <2>f. O \subseteq Flag /\ C \subseteq Flag
    BY <1>8 DEF Flag, Arith
  <2>2. FlagsOK(fl) /\ \E on \in SUBSET {"OF"} :
          /\ Shows(fl) = (Visible(rflags, cc) \ {"CF", "OF"}) \cup (C \cup on)
          /\ n = 1 => on = O
    <3>1. CASE n = 1
      <4>1. DirectIs(Put(Put(Synced, {"OF"}, O), {"CF"}, C),
                     (Visible(rflags, cc) \ {"CF", "OF"}) \cup (O \cup C))
        BY <1>8, SetTwice
      <4>2. fl = Put(Put(Synced, {"OF"}, O), {"CF"}, C)
        BY <3>1
      <4>3. O \cup C = C \cup O
        OBVIOUS
      <4> HIDE DEF fl
      <4> QED BY <3>1, <4>1, <4>2, <4>3, <1>8 DEF DirectIs
    <3>2. CASE n # 1
      <4>2. FlagsOK(Put(Synced, {"CF"}, C))
            /\ Shows(Put(Synced, {"CF"}, C)) = (Visible(rflags, cc) \ {"CF"}) \cup C
        BY <2>f, SetAfterSync DEF DirectIs
      <4>3. (Visible(rflags, cc) \ {"CF"}) \cup C
              = (Visible(rflags, cc) \ {"CF", "OF"}) \cup (C \cup (Visible(rflags, cc) \cap {"OF"}))
        OBVIOUS
      <4>4. Visible(rflags, cc) \cap {"OF"} \in SUBSET {"OF"}
        OBVIOUS
      <4>5. fl = Put(Synced, {"CF"}, C)
        BY <3>2
      <4> HIDE DEF fl
      <4> QED BY <3>2, <4>2, <4>3, <4>4, <4>5
    <3> QED BY <3>1, <3>2
  <2>4. /\ FlagsOK(early)
        /\ Shows(early) \ Arch!Imprecise(i) = Visible(rflags, cc) \ Arch!Imprecise(i)
    <3>1. Arch!Imprecise(i) = {"OF"}
      BY <1>3 DEF Arch!Imprecise
    <3>2. CASE n = 1
      <4>1. /\ FlagsOK(Put(Synced, {"OF"}, O))
            /\ Shows(Put(Synced, {"OF"}, O)) = (Visible(rflags, cc) \ {"OF"}) \cup O
        BY <2>f, SetAfterSync DEF DirectIs
      <4>2. early = Put(Synced, {"OF"}, O)
        BY <3>2
      <4> HIDE DEF early
      <4> QED BY <4>1, <4>2, <3>1, <1>8
    <3>3. CASE n # 1
      BY <3>3, PlainFault
    <3> QED BY <3>2, <3>3
  <2> HIDE DEF fl, early
  <2>3. ASSUME Retire(i, <<x.v>>, {}, fl) PROVE ArchDoes(i)
    <3>1. Visible(rflags', cc') = Shows(fl) /\ out' = [words |-> <<x.v>>, facts |-> {}]
      BY <2>3, RetireMaps
    <3>2. ShiftShows(i, n, y)
      <4>1. PICK on \in SUBSET {"OF"} :
              /\ Shows(fl) = (Visible(rflags, cc) \ {"CF", "OF"}) \cup (C \cup on)
              /\ n = 1 => on = O
        BY <2>2
      <4>2. Visible(rflags', cc')
              = (Visible(rflags, cc) \ {"CF", "OF"}) \cup (On("CF", y.cf) \cup on)
        BY <4>1, <3>1, <1>8
      <4>3. n = 1 => on = Moved(i, n, y)
        BY <4>1, <1>9
      <4>4. CarryShows(i, n, y)
        BY <4>2, <4>3 DEF CarryShows
      <4> QED BY <4>4, <2>1, <1>3, CarryTurned
    <3>3. ShiftWrites(i, n, y)
      BY <3>1, <1>4, <1>6, <1>11 DEF ShiftWrites
    <3> QED BY <1>1, <1>2, <1>3, <3>2, <3>3, ShiftIs
  <2> QED BY <1>7, <1>11, <2>2, <2>3, <2>4, WriteIsRight
<1> QED BY <1>10, <1>11

-----------------------------------------------------------------------------
(* Double shifts *)

\* Two words side by side, of which k bits are the lower one's, make one word.
LEMMA JoinFits ==
  ASSUME NEW size \in Sizes, NEW k \in 0 .. Width(size), NEW h \in Nat, NEW l \in Nat,
         h < Pow2[Width(size) - k], l < Pow2[k]
  PROVE  h * Pow2[k] + l \in Words(size)
<1>1. PICK w \in Nat : w = Width(size) /\ Span(size) = Pow2[w]
  BY SpanIs
<1>2. PICK p \in Nat \ {0}, q \in Nat \ {0} :
        p = Pow2[k] /\ q = Pow2[w - k] /\ Pow2[w] = p * q
  <2>1. k \in 0 .. w
    BY <1>1
  <2>2. /\ w - k \in Nat /\ Pow2[w] = Pow2[k] * Pow2[w - k]
        /\ Pow2[k] \in Nat \ {0} /\ Pow2[w - k] \in Nat \ {0}
    BY <2>1, Pow2Splits
  <2> QED BY <2>2
<1>3. PICK d \in Nat : q = h + 1 + d
  <2>1. q - (h + 1) \in Nat /\ q = h + 1 + (q - (h + 1))
    BY <1>1, <1>2
  <2> QED BY <2>1
<1>4. p * q = h * p + p + p * d
  BY <1>3
<1>5. h * p \in Nat /\ p * d \in Nat
  OBVIOUS
<1>6. h * p + l \in Nat /\ h * p + l < p * q
  <2>1. PICK x \in Nat, y \in Nat : x = h * p /\ y = p * d
    BY <1>5
  <2>2. l < p
    BY <1>2
  <2>3. p * q = x + p + y
    BY <1>4, <2>1
  <2>4. x + l < x + p + y /\ x + l \in Nat
    BY <2>2
  <2> QED BY <2>1, <2>3, <2>4
<1> QED BY <1>1, <1>2, <1>6 DEF Words

\* The upper bits of a word are fewer than the word's.
LEMMA UpperFits ==
  ASSUME NEW size \in Sizes, NEW a \in Words(size), NEW k \in 0 .. Width(size)
  PROVE  a \div Pow2[k] \in Nat /\ a \div Pow2[k] < Pow2[Width(size) - k]
<1>1. PICK w \in Nat : w = Width(size) /\ Span(size) = Pow2[w]
  BY SpanIs
<1>2. PICK p \in Nat \ {0}, q \in Nat \ {0} :
        p = Pow2[k] /\ q = Pow2[w - k] /\ Pow2[w] = p * q
  <2>1. k \in 0 .. w
    BY <1>1
  <2>2. /\ w - k \in Nat /\ Pow2[w] = Pow2[k] * Pow2[w - k]
        /\ Pow2[k] \in Nat \ {0} /\ Pow2[w - k] \in Nat \ {0}
    BY <2>1, Pow2Splits
  <2> QED BY <2>2
<1>3. PICK n \in Nat : n = p * q
  OBVIOUS
<1>4. a \in Nat /\ a < n
  BY <1>1, <1>2, <1>3, Pow2Is DEF Words
<1>5. PICK d \in Int, e \in Nat : d = a \div p /\ a = p * d + e /\ e < p
  BY <1>4, DivisionIs
<1>6. d >= 0
  <2> SUFFICES ASSUME d < 0 PROVE FALSE
    OBVIOUS
  <2>1. PICK f \in Nat : d = - f - 1
    <3>1. - d - 1 \in Nat /\ d = - (- d - 1) - 1
      OBVIOUS
    <3> QED BY <3>1
  <2>2. p * d = - (p * f) - p /\ p * f \in Nat
    BY <2>1
  <2>3. PICK x \in Nat : x = p * f
    BY <2>2
  <2> QED BY <2>2, <2>3, <1>4, <1>5
<1>7. d < q
  <2> SUFFICES ASSUME d >= q PROVE FALSE
    OBVIOUS
  <2>1. PICK f \in Nat : d = q + f
    <3>1. d - q \in Nat /\ d = q + (d - q)
      OBVIOUS
    <3> QED BY <3>1
  <2>2. p * d = n + p * f /\ p * f \in Nat
    BY <2>1, <1>3
  <2>3. PICK x \in Nat : x = p * f
    BY <2>2
  <2> QED BY <2>2, <2>3, <1>3, <1>4, <1>5
<1> QED BY <1>1, <1>2, <1>5, <1>6, <1>7

\* The two halves of a double shift by n.
Joined(i, n, x) ==
  IF i.op = "shld" THEN x.v + (i.b \div Pow2[Width(i.size) - n])
  ELSE x.v + Wrap(i.b * Pow2[Width(i.size) - n], i.size)

\* What ArchFlags lets a double shift leave: all flags of the result r, CF that
\* of the shift x, and OF defined for SHLD by one.
DoubleShows(i, n, x, r) ==
  \E on \in SUBSET {"OF"} :
    /\ Visible(rflags', cc')
         = (Visible(rflags, cc) \ Arith) \cup (ZSP(i.size, r) \cup On("CF", x.cf) \cup on)
    /\ i.op = "shld" /\ n = 1 => on = On("OF", Sign(i.a, i.size) # Sign(r, i.size))

LEMMA DoubleIs ==
  ASSUME NEW i \in Insns, i.op \in {"shld", "shrd"}, NEW n, n = Arch!Count(i),
         n \in 1 .. Width(i.size) - 1, NEW x, x = Arch!Steps(i, n), NEW r,
         r = Joined(i, n, x), DoubleShows(i, n, x, r),
         out' = [words |-> <<r>>, facts |-> {}]
  PROVE  ArchDoes(i)
<1>1. PICK Z, C, O : /\ Z = ZSP(i.size, r) /\ C = On("CF", x.cf)
                     /\ O = On("OF", Sign(i.a, i.size) # Sign(r, i.size))
  OBVIOUS
<1>2. Z \subseteq {"ZF", "SF", "PF"} /\ C \subseteq {"CF"} /\ O \subseteq {"OF"}
  <2>1. Z \subseteq {"ZF", "SF", "PF"}
    BY <1>1, OnIs
  <2>2. C \subseteq {"CF"} /\ O \subseteq {"OF"}
    BY <1>1, OnIs, Zenon
  <2> QED BY <2>1, <2>2
<1> DEFINE undef == IF i.op = "shrd" \/ n # 1 THEN {"OF"} ELSE {}
<1>3. PICK u : u = undef
  OBVIOUS
<1>4. PICK F, new : F = Visible(rflags, cc) /\ new = Visible(rflags', cc')
  OBVIOUS
<1>5. PICK of \in SUBSET {"OF"} :
        new = (F \ Arith) \cup (Z \cup C \cup of) /\ (u = {} => of = O)
  <2>1. PICK of \in SUBSET {"OF"} :
          /\ Visible(rflags', cc') = (Visible(rflags, cc) \ Arith)
                                     \cup (ZSP(i.size, r) \cup On("CF", x.cf) \cup of)
          /\ i.op = "shld" /\ n = 1 => of = On("OF", Sign(i.a, i.size) # Sign(r, i.size))
    BY DEF DoubleShows
  <2>2. u = {} => of = O
    BY <2>1, <1>1, <1>3
  <2> QED BY <2>1, <2>2, <1>1, <1>4
<1>6. u \in SUBSET {"OF"}
  BY <1>3
<1>7. /\ new \ ((Arith \ u) \cup u) = F \ ((Arith \ u) \cup u)
      /\ new \cap (Arith \ u) = (Z \cup C \cup O) \ u
  <2>1. CASE u = {}
    BY <2>1, <1>2, <1>5 DEF Arith
  <2>2. CASE u = {"OF"}
    BY <2>2, <1>2, <1>5 DEF Arith
  <2> QED BY <2>1, <2>2, <1>6
<1>8. Arch!Sets(Arith \ u, (Z \cup C \cup O) \ u, u)
  BY <1>4, <1>7, SetsGives
<1>9. PICK w : w = Width(i.size) /\ n \in 1 .. w - 1
  OBVIOUS
<1>10. Arch!Wrote(<<r>>)
  BY DEF Arch!Wrote
<1>11. r = IF i.op = "shld" THEN x.v + (i.b \div Pow2[w - n])
           ELSE x.v + Wrap(i.b * Pow2[w - n], i.size)
  BY <1>9 DEF Joined
<1>12. Arch!DoubleShifts(i)
  <2>1. Arch!Sets(Arith \ undef,
                  (ZSP(i.size, r) \cup On("CF", x.cf)
                   \cup On("OF", Sign(i.a, i.size) # Sign(r, i.size))) \ undef, undef)
    BY <1>1, <1>3, <1>8
  <2> QED BY <2>1, <1>9, <1>10, <1>11, SameWords, SamePow2, SameFlags, Zenon
          DEF Arch!DoubleShifts
<1> QED BY <1>12 DEF ArchDoes

\* A count beyond the width: all flags are free.
LEMMA DoubleBeyond ==
  ASSUME TypeOK, fault = "None", NEW i \in Insns, i.op \in {"shld", "shrd"}, NEW n \in Nat,
         n = Arch!Count(i), n >= Width(i.size), Logic(i, 0)
  PROVE  Right
<1>1. 0 \in Words(i.size) /\ 0 \in 0 .. CountMask(i.size) - 1
  BY InsnIs, ZeroIs
<1> DEFINE fl == Stash(Now, "Logic", i.size, 0, 0, 0)
<1>2. Write(i, 0, fl, Now)
  BY DEF Logic
<1>3. ASSUME Retire(i, << 0 >>, {}, fl) PROVE ArchDoes(i)
  <2>1. Arch!Sets(Arith, ZSP(i.size, 0), {}) /\ out' = [words |-> <<0>>, facts |-> {}]
    BY <1>3, LogicShows
  <2>2. Arch!Sets({}, {}, Arith)
    BY <2>1 DEF Arch!Sets
  <2>3. \E v \in Words(i.size) : Arch!Wrote(<<v>>)
    BY <1>1, <2>1 DEF Arch!Wrote
  <2>4. Arch!DoubleShifts(i)
    BY <2>2, <2>3, SameWords, SameFlags DEF Arch!DoubleShifts
  <2> QED BY <2>4 DEF ArchDoes
<1> HIDE DEF fl
<1> QED BY <1>1, <1>2, <1>3, StashIsRight DEF CcOps, fl

\* SHLD and SHRD of a count within the width, stashed as op.
LEMMA DoubleWithin ==
  ASSUME TypeOK, fault = "None", NEW i \in Insns, i.op \in {"shld", "shrd"},
         NEW op \in {"Shl", "Shr"}, NEW n \in Nat, n = Arch!Count(i),
         n \in 1 .. Width(i.size) - 1, n \in 0 .. CountMask(i.size) - 1,
         NEW x, x = Arch!Steps(i, n),
         NEW r \in Words(i.size), r = Joined(i, n, x),
         Write(i, r, Stash(Now, op, i.size, r, i.a, n), Now),
         NEW c, c = [op |-> op, size |-> i.size, dst |-> r, src |-> i.a, src2 |-> n],
         \E on \in SUBSET {"OF"} :
           /\ Computed(Now.bits, c) = ZSP(i.size, r) \cup On("CF", x.cf) \cup on
           /\ i.op = "shld" /\ n = 1 => on = On("OF", Sign(i.a, i.size) # Sign(r, i.size))
  PROVE  Right
<1> DEFINE fl == Stash(Now, op, i.size, r, i.a, n)
<1>1. i.size \in Sizes /\ i.a \in Words(i.size) /\ cc.op \in CcOps
  BY InsnIs, PlainFault
<1>2. Shows(fl) = (Visible(rflags, cc) \ Arith) \cup Computed(Now.bits, c)
  BY <1>1, StashShows DEF CcOps
<1> HIDE DEF fl
<1>3. ASSUME Retire(i, <<r>>, {}, fl) PROVE ArchDoes(i)
  <2>1. Visible(rflags', cc') = Shows(fl) /\ out' = [words |-> <<r>>, facts |-> {}]
    BY <1>3, RetireMaps
  <2>2. DoubleShows(i, n, x, r)
    <3>1. PICK on \in SUBSET {"OF"} :
             /\ Computed(Now.bits, c) = ZSP(i.size, r) \cup On("CF", x.cf) \cup on
             /\ i.op = "shld" /\ n = 1 => on = On("OF", Sign(i.a, i.size) # Sign(r, i.size))
      OBVIOUS
    <3>2. Visible(rflags', cc')
            = (Visible(rflags, cc) \ Arith) \cup (ZSP(i.size, r) \cup On("CF", x.cf) \cup on)
      BY <3>1, <2>1, <1>2
    <3> QED BY <3>1, <3>2 DEF DoubleShows
  <2> QED BY <2>1, <2>2, DoubleIs
<1>4. Write(i, r, fl, Now)
  BY DEF fl
<1> QED BY <1>1, <1>3, <1>4, StashIsRight DEF CcOps, fl

DoubleCount(i) == i.n % CountMask(i.size)

LEMMA DoubleCountIs ==
  ASSUME NEW i \in Insns, i.op \in {"shld", "shrd"}
  PROVE  /\ DoubleCount(i) \in Nat /\ DoubleCount(i) \in 0 .. CountMask(i.size) - 1
         /\ Arch!Count(i) = DoubleCount(i)
<1>1. i.n \in Nat
  BY InsnIs, SpanIs DEF Words
<1>2. DoubleCount(i) \in Nat /\ DoubleCount(i) \in 0 .. CountMask(i.size) - 1
  BY <1>1 DEF DoubleCount, CountMask
<1>3. Arch!Count(i) = DoubleCount(i)
  BY DEF Arch!Count, DoubleCount, CountMask
<1> QED BY <1>2, <1>3

LEMMA DoubleNone ==
  ASSUME TypeOK, fault = "None", NEW i \in Insns, i.op \in {"shld", "shrd"},
         Arch!Count(i) = 0, RetireOnly(i, Now)
  PROVE  Right
<1>1. Visible(rflags', cc') = Visible(rflags, cc) /\ out' = [words |-> <<>>, facts |-> {}]
  BY RetireMaps, NowShows DEF RetireOnly
<1>2. Arch!DoubleShifts(i)
  BY <1>1 DEF Arch!DoubleShifts, Arch!Kept, Arch!NoOut
<1>3. ArchDoes(i)
  BY <1>2 DEF ArchDoes
<1> QED BY <1>3, PlainFault, RetireIsRight DEF RetireOnly

LEMMA ShldIsRight ==
  ASSUME TypeOK, fault = "None", NEW i \in Insns, OpShld(i)
  PROVE  Right
<1>1. i.op = "shld"
  BY DEF OpShld
<1>2. PICK n \in Nat : /\ n = DoubleCount(i) /\ n \in 0 .. CountMask(i.size) - 1
                       /\ n = Arch!Count(i)
  BY <1>1, DoubleCountIs
<1>3. PICK x : x = Arch!Steps(i, n)
  OBVIOUS
<1>4. PICK w \in Nat : w = Width(i.size) /\ w > 1 /\ i.size \in Sizes /\ i.a \in Words(i.size)
                       /\ i.b \in Words(i.size)
  BY InsnIs, TopBit
<1>5. PICK r : r = Wrap(i.a * Pow2[n], i.size) + (i.b \div Pow2[w - n])
  OBVIOUS
<1>6. DoubleShift(i, "Shl", r)
  <2>1. DoubleShift(i, "Shl", Wrap(i.a * Pow2[DoubleCount(i)], i.size)
                              + (i.b \div Pow2[Width(i.size) - DoubleCount(i)]))
    BY DEF OpShld, DoubleCount
  <2> QED BY <2>1, <1>2, <1>4, <1>5
<1>7. CASE n = 0
  BY <1>1, <1>2, <1>6, <1>7, DoubleNone DEF DoubleShift, DoubleCount
<1>8. CASE n # 0 /\ n >= w
  <2>1. Logic(i, 0)
    BY <1>2, <1>4, <1>6, <1>8 DEF DoubleShift, DoubleCount
  <2> QED BY <2>1, <1>1, <1>2, <1>4, <1>8, DoubleBeyond
<1>9. CASE n # 0 /\ ~(n >= w)
  <2>0. n \in 1 .. w - 1 /\ n \in 0 .. w /\ w - n \in 0 .. w /\ w - (w - n) = n
    BY <1>9
  <2>1. Write(i, r, Stash(Now, "Shl", i.size, r, i.a, n), Now)
    BY <1>2, <1>4, <1>6, <1>9 DEF DoubleShift, DoubleCount
  <2>2. /\ x.v = ShiftedLeft(i.a, n, w)
        /\ x.cf = (n <= w /\ BitAt(i.a, w - n))
    BY <1>1, <1>3, <1>4, <1>9, ShlSteps
  <2>3. Wrap(i.a * Pow2[n], i.size) = (i.a % Pow2[w - n]) * Pow2[n]
    BY <2>0, <1>4, WrapShifts
  <2>4. x.v = Wrap(i.a * Pow2[n], i.size)
    BY <2>2, <2>3, <1>9 DEF ShiftedLeft
  <2>5. r = Joined(i, n, x)
    BY <2>4, <1>1, <1>4, <1>5 DEF Joined
  <2>6. r \in Words(i.size)
    <3>1. PICK l \in Nat : l = i.b \div Pow2[w - n] /\ l < Pow2[n]
      BY <2>0, <1>4, UpperFits
    <3>2. PICK h \in Nat : h = i.a % Pow2[w - n] /\ h < Pow2[w - n]
      <4>1. Pow2[w - n] \in Nat \ {0}
        BY <2>0, Pow2Is
      <4>2. i.a \in Int
        BY <1>4, SpanIs DEF Words
      <4> QED BY <4>1, <4>2, DivisionIs
    <3>3. h * Pow2[n] + l \in Words(i.size)
      BY <3>1, <3>2, <2>0, <1>4, JoinFits
    <3> QED BY <3>1, <3>2, <3>3, <2>3, <1>5
  <2> DEFINE c == [op |-> "Shl", size |-> i.size, dst |-> r, src |-> i.a, src2 |-> n]
  <2>7. \E on \in SUBSET {"OF"} :
           /\ Computed(Now.bits, c) = ZSP(i.size, r) \cup On("CF", x.cf) \cup on
           /\ i.op = "shld" /\ n = 1 => on = On("OF", Sign(i.a, i.size) # Sign(r, i.size))
    <3>1. PICK cf \in BOOLEAN : cf = (n <= w /\ BitAt(i.a, w - n))
      OBVIOUS
    <3>2. x.cf = cf
      BY <2>2, <3>1
    <3> DEFINE on == On("OF", n = 1 /\ Sign(r, i.size) # cf)
    <3>3. Computed(Now.bits, c) = ZSP(i.size, r) \cup On("CF", cf) \cup on
      <4>1. Computed(Now.bits, c) = ComputeShl(i.size, i.a, r, n)
        BY DEF Computed
      <4>2. ComputeShl(i.size, i.a, r, n) = ZSP(i.size, r) \cup On("CF", cf) \cup on
        BY <3>1, <1>4, Zenon DEF ComputeShl
      <4> HIDE DEF c, on
      <4> QED BY <4>1, <4>2
    <3>4. on \in SUBSET {"OF"}
      BY OnIs, Zenon
    <3>5. ASSUME n = 1 PROVE on = On("OF", Sign(i.a, i.size) # Sign(r, i.size))
      <4>1. cf <=> Sign(i.a, i.size)
        <5>1. BitAt(i.a, w - 1) <=> Sign(i.a, i.size)
          BY <1>4, TopBit
        <5>2. n <= w /\ w - n = w - 1
          BY <3>5, <1>4
        <5> QED BY <3>1, <5>1, <5>2
      <4>2. (n = 1 /\ Sign(r, i.size) # cf) <=> (Sign(i.a, i.size) # Sign(r, i.size))
        <5>1. Sign(r, i.size) \in BOOLEAN /\ Sign(i.a, i.size) \in BOOLEAN
          BY DEF Sign
        <5> QED BY <4>1, <5>1, <3>5
      <4> QED BY <4>2, Zenon DEF On
    <3> HIDE DEF on, c
    <3> QED BY <3>2, <3>3, <3>4, <3>5
  <2> HIDE DEF c
  <2> QED BY <1>1, <1>2, <1>3, <1>4, <2>0, <2>1, <2>5, <2>6, <2>7, DoubleWithin DEF c
<1> QED BY <1>7, <1>8, <1>9

LEMMA ShrdIsRight ==
  ASSUME TypeOK, fault = "None", NEW i \in Insns, OpShrd(i)
  PROVE  Right
<1>1. i.op = "shrd"
  BY DEF OpShrd
<1>2. PICK n \in Nat : /\ n = DoubleCount(i) /\ n \in 0 .. CountMask(i.size) - 1
                       /\ n = Arch!Count(i)
  BY <1>1, DoubleCountIs
<1>3. PICK x : x = Arch!Steps(i, n)
  OBVIOUS
<1>4. PICK w \in Nat : w = Width(i.size) /\ w > 1 /\ i.size \in Sizes /\ i.a \in Words(i.size)
                       /\ i.b \in Words(i.size)
  BY InsnIs, TopBit
<1>5. PICK r : r = (i.a \div Pow2[n]) + Wrap(i.b * Pow2[w - n], i.size)
  OBVIOUS
<1>6. DoubleShift(i, "Shr", r)
  <2>1. DoubleShift(i, "Shr", (i.a \div Pow2[DoubleCount(i)])
                              + Wrap(i.b * Pow2[Width(i.size) - DoubleCount(i)], i.size))
    BY DEF OpShrd, DoubleCount
  <2> QED BY <2>1, <1>2, <1>4, <1>5
<1>7. CASE n = 0
  BY <1>1, <1>2, <1>6, <1>7, DoubleNone DEF DoubleShift, DoubleCount
<1>8. CASE n # 0 /\ n >= w
  <2>1. Logic(i, 0)
    BY <1>2, <1>4, <1>6, <1>8 DEF DoubleShift, DoubleCount
  <2> QED BY <2>1, <1>1, <1>2, <1>4, <1>8, DoubleBeyond
<1>9. CASE n # 0 /\ ~(n >= w)
  <2>0. n \in 1 .. w - 1 /\ n \in 0 .. w /\ w - n \in 0 .. w /\ w - (w - n) = n
    BY <1>9
  <2>1. Write(i, r, Stash(Now, "Shr", i.size, r, i.a, n), Now)
    BY <1>2, <1>4, <1>6, <1>9 DEF DoubleShift, DoubleCount
  <2>2. x.v = i.a \div Pow2[n] /\ x.cf = BitAt(i.a, n - 1)
    BY <1>1, <1>3, <1>4, <1>9, ShrSteps
  <2>5. r = Joined(i, n, x)
    BY <2>2, <1>1, <1>4, <1>5 DEF Joined
  <2>6. r \in Words(i.size)
    <3>1. PICK l \in Nat : l = i.a \div Pow2[n] /\ l < Pow2[w - n]
      BY <2>0, <1>4, UpperFits
    <3>2. PICK h \in Nat : h = i.b % Pow2[n] /\ h < Pow2[n]
      <4>1. Pow2[n] \in Nat \ {0}
        BY <2>0, Pow2Is
      <4>2. i.b \in Int
        BY <1>4, SpanIs DEF Words
      <4> QED BY <4>1, <4>2, DivisionIs
    <3>3. PICK k \in 0 .. w : k = w - n /\ w - k = n
      BY <2>0
    <3>4. h * Pow2[k] + l \in Words(i.size)
      BY <3>1, <3>2, <3>3, <1>4, JoinFits
    <3>5. Wrap(i.b * Pow2[k], i.size) = (i.b % Pow2[w - k]) * Pow2[k]
      BY <3>3, <1>4, WrapShifts
    <3>6. PICK u : u = h * Pow2[k]
      OBVIOUS
    <3>7. Wrap(i.b * Pow2[w - n], i.size) = u
      BY <3>2, <3>3, <3>5, <3>6
    <3>8. u \in Int
      <4>1. Pow2[k] \in Nat
        BY <3>3, Pow2Is
      <4> QED BY <4>1, <3>6
    <3>9. r = u + l
      BY <3>1, <3>7, <3>8, <1>5
    <3> QED BY <3>4, <3>6, <3>9
  <2> DEFINE c == [op |-> "Shr", size |-> i.size, dst |-> r, src |-> i.a, src2 |-> n]
  <2>7. \E on \in SUBSET {"OF"} :
           /\ Computed(Now.bits, c) = ZSP(i.size, r) \cup On("CF", x.cf) \cup on
           /\ i.op = "shld" /\ n = 1 => on = On("OF", Sign(i.a, i.size) # Sign(r, i.size))
    <3> DEFINE on == On("OF", n = 1 /\ Sign(i.a, i.size))
    <3>1. Computed(Now.bits, c) = ComputeShr(i.size, i.a, r, n)
      BY DEF Computed
    <3>2. On("CF", x.cf) = On("CF", n <= Width(i.size) /\ BitAt(i.a, n - 1))
      <4>1. x.cf <=> n <= Width(i.size) /\ BitAt(i.a, n - 1)
        BY <2>0, <2>2, <1>4
      <4> QED BY <4>1, Zenon DEF On
    <3>3. ComputeShr(i.size, i.a, r, n) = ZSP(i.size, r) \cup On("CF", x.cf) \cup on
      BY <3>2, Zenon DEF ComputeShr
    <3>4. on \in SUBSET {"OF"}
      BY OnIs, Zenon
    <3> HIDE DEF on, c
    <3> QED BY <3>1, <3>3, <3>4, <1>1
  <2> HIDE DEF c
  <2> QED BY <1>1, <1>2, <1>3, <1>4, <2>0, <2>1, <2>5, <2>6, <2>7, DoubleWithin DEF c
<1> QED BY <1>7, <1>8, <1>9

-----------------------------------------------------------------------------
(* Bit tests, scans, loaders and readers of the flags *)

\* Flags written directly after a sync, in the form of ArchFlags.
LEMMA DirectSets ==
  ASSUME NEW fl, NEW def, NEW on, on \subseteq def,
         DirectIs(fl, (Visible(rflags, cc) \ def) \cup on),
         Visible(rflags', cc') = Shows(fl)
  PROVE  Arch!Sets(def, on, {})
<1>1. PICK F, new : F = Visible(rflags, cc) /\ new = Visible(rflags', cc')
  OBVIOUS
<1>2. new = (F \ def) \cup on
  BY <1>1 DEF DirectIs
<1>3. new \ (def \cup {}) = F \ (def \cup {}) /\ new \cap def = on
  BY <1>2
<1> QED BY <1>1, <1>3, SetsGives

LEMMA BitTestIsRight ==
  ASSUME TypeOK, fault = "None", NEW i \in Insns, BitTest(i)
  PROVE  Right
<1> DEFINE v == BitsOf(i.a, i.size)
           bit == i.b % Width(i.size)
           on == On("CF", bit \in v)
           set == Put(Synced, {"CF"}, on)
<1>1. on \subseteq {"CF"} /\ on \subseteq Flag
  <2>1. on \subseteq {"CF"}
    BY OnIs, Zenon
  <2> HIDE DEF on
  <2> QED BY <2>1 DEF Flag, Arith
<1>2. DirectIs(set, (Visible(rflags, cc) \ {"CF"}) \cup on)
  <2> HIDE DEF on
  <2> QED BY <1>1, SetAfterSync
<1> HIDE DEF set
<1>3. ASSUME Visible(rflags', cc') = Shows(set)
      PROVE  Arch!Sets({"CF"}, on, {})
  <2> HIDE DEF on
  <2> QED BY <1>1, <1>2, <1>3, DirectSets
<1>4. FlagsOK(set)
  BY <1>2 DEF DirectIs
<1>5. ASSUME i.op \in {"bts", "btr", "btc"}
      PROVE  Shows(set) \ Arch!Imprecise(i) = Visible(rflags, cc) \ Arch!Imprecise(i)
  <2>1. Arch!Imprecise(i) = {"CF"}
    BY <1>5 DEF Arch!Imprecise
  <2> HIDE DEF on
  <2> QED BY <2>1, <1>1, <1>2 DEF DirectIs
<1>6. ASSUME NEW ws, Retire(i, ws, {}, set)
      PROVE  Arch!Sets({"CF"}, on, {}) /\ out' = [words |-> ws, facts |-> {}]
  <2>1. Visible(rflags', cc') = Shows(set) /\ out' = [words |-> ws, facts |-> {}]
    BY <1>6, RetireMaps
  <2> QED BY <2>1, <1>3
<1>7. CASE i.op = "bt" /\ RetireOnly(i, set)
  <2>1. Retire(i, <<>>, {}, set)
    BY <1>7 DEF RetireOnly
  <2>2. Arch!BitTests(i)
    BY <2>1, <1>6, <1>7, SameWords, SameBits, SameFlags DEF Arch!BitTests, Arch!NoOut
  <2> QED BY <2>1, <2>2, <1>4, RetireIsRight DEF ArchDoes
<1>8. CASE i.op = "bts" /\ Write(i, WordOf(v \cup {bit}, i.size), set, set)
  <2> DEFINE r == WordOf(v \cup {bit}, i.size)
  <2>1. ASSUME Retire(i, <<r>>, {}, set) PROVE ArchDoes(i)
    <3>1. Arch!BitTests(i)
      BY <2>1, <1>6, <1>8, SameWords, SameBits, SameFlags DEF Arch!BitTests, Arch!Wrote
    <3> QED BY <3>1 DEF ArchDoes
  <2> HIDE DEF r
  <2> QED BY <2>1, <1>4, <1>5, <1>8, WriteIsRight DEF r
<1>9. CASE i.op = "btr" /\ Write(i, WordOf(v \ {bit}, i.size), set, set)
  <2> DEFINE r == WordOf(v \ {bit}, i.size)
  <2>1. ASSUME Retire(i, <<r>>, {}, set) PROVE ArchDoes(i)
    <3>1. Arch!BitTests(i)
      BY <2>1, <1>6, <1>9, SameWords, SameBits, SameFlags DEF Arch!BitTests, Arch!Wrote
    <3> QED BY <3>1 DEF ArchDoes
  <2> HIDE DEF r
  <2> QED BY <2>1, <1>4, <1>5, <1>9, WriteIsRight DEF r
<1>10. CASE i.op = "btc" /\ Write(i, WordOf((v \ {bit}) \cup ({bit} \ v), i.size), set, set)
  <2> DEFINE r == WordOf(IF bit \in v THEN v \ {bit} ELSE v \cup {bit}, i.size)
  <2>0. (v \ {bit}) \cup ({bit} \ v) = IF bit \in v THEN v \ {bit} ELSE v \cup {bit}
    <3> HIDE DEF v, bit
    <3>1. CASE bit \in v
      BY <3>1
    <3>2. CASE bit \notin v
      BY <3>2
    <3> QED BY <3>1, <3>2
  <2>1. ASSUME Retire(i, <<r>>, {}, set) PROVE ArchDoes(i)
    <3>0. /\ Arch!Sets({"CF"}, on, {}) /\ out' = [words |-> <<r>>, facts |-> {}]
          /\ i.op = "btc"
      <4> HIDE DEF r, on
      <4> QED BY <2>1, <1>6, <1>10
    <3>1. Arch!BitTests(i)
      <4>1. CASE bit \in v
        <5>1. r = WordOf(v \ {bit}, i.size)
          BY <4>1
        <5> HIDE DEF r
        <5> QED BY <3>0, <4>1, <5>1, SameWords, SameBits, SameFlags
                DEF Arch!BitTests, Arch!Wrote
      <4>2. CASE bit \notin v
        <5>1. r = WordOf(v \cup {bit}, i.size)
          BY <4>2
        <5> HIDE DEF r
        <5> QED BY <3>0, <4>2, <5>1, SameWords, SameBits, SameFlags
                DEF Arch!BitTests, Arch!Wrote
      <4> QED BY <4>1, <4>2
    <3> QED BY <3>1 DEF ArchDoes
  <2>2. Write(i, r, set, set)
    BY <2>0, <1>10
  <2> HIDE DEF r
  <2> QED BY <2>1, <2>2, <1>4, <1>5, <1>10, WriteIsRight
<1> QED BY <1>7, <1>8, <1>9, <1>10 DEF BitTest, set

\* The least and the greatest bit of a word.
LEMMA BitsEnds ==
  ASSUME NEW v, NEW w \in Nat, v \subseteq 0 .. w - 1, v # {}
  PROVE  /\ Max(v) \in 0 .. w - 1 /\ Min(v) \in 0 .. w - 1
<1> DEFINE S == {k \in Nat : v \cap (0 .. k - 1) # {} =>
                   /\ \E x \in v \cap (0 .. k - 1) : \A y \in v \cap (0 .. k - 1) : x >= y
                   /\ \E x \in v \cap (0 .. k - 1) : \A y \in v \cap (0 .. k - 1) : x <= y}
<1>1. 0 \in S
  OBVIOUS
<1>2. ASSUME NEW k \in Nat, k \in S PROVE k + 1 \in S
  <2> DEFINE u == v \cap (0 .. k - 1)
             t == v \cap (0 .. (k + 1) - 1)
  <2>1. t = IF k \in v THEN u \cup {k} ELSE u
    OBVIOUS
  <2>2. u \subseteq 0 .. k - 1
    OBVIOUS
  <2>3. u # {} => /\ \E x \in u : \A y \in u : x >= y
                  /\ \E x \in u : \A y \in u : x <= y
    BY <1>2
  <2> HIDE DEF u, t
  <2>4. ASSUME t # {}
        PROVE  /\ \E x \in t : \A y \in t : x >= y
               /\ \E x \in t : \A y \in t : x <= y
    <3>1. CASE k \notin v
      BY <3>1, <2>1, <2>3, <2>4
    <3>2. CASE k \in v /\ u = {}
      BY <3>2, <2>1
    <3>3. CASE k \in v /\ u # {}
      <4>1. t = u \cup {k}
        BY <3>3, <2>1
      <4>2. PICK x \in u : \A y \in u : x <= y
        BY <3>3, <2>3
      <4>3. x <= k
        BY <2>2, <4>2
      <4>4. \A y \in t : x <= y
        BY <4>1, <4>2, <4>3
      <4>5. \A y \in t : k >= y
        BY <4>1, <2>2
      <4> QED BY <4>1, <4>2, <4>4, <4>5
    <3> QED BY <3>1, <3>2, <3>3
  <2> QED BY <2>4 DEF t
<1>3. w \in S
  <2> HIDE DEF S
  <2>1. Nat \subseteq S
    BY <1>1, <1>2, Induction
  <2> QED BY <2>1
<1>4. v \cap (0 .. w - 1) = v
  OBVIOUS
<1>5. /\ \E x \in v : \A y \in v : x >= y
      /\ \E x \in v : \A y \in v : x <= y
  BY <1>3, <1>4
<1> QED BY <1>5 DEF Max, Min

\* What a scan or count leaves: the flags def become on, the word c is written.
LEMMA DirectIsRight ==
  ASSUME TypeOK, fault = "None", NEW i \in Insns, NEW def, NEW on, on \subseteq def,
         def \subseteq Flag, NEW ws, NEW facts, Retire(i, ws, facts, Put(Synced, def, on)),
         /\ Arch!Sets(def, on, {}) /\ out' = [words |-> ws, facts |-> facts]
         => ArchDoes(i)
  PROVE  Right
<1> DEFINE fl == Put(Synced, def, on)
<1>1. DirectIs(fl, (Visible(rflags, cc) \ def) \cup on)
  BY SetAfterSync
<1> HIDE DEF fl
<1>2. Visible(rflags', cc') = Shows(fl) /\ out' = [words |-> ws, facts |-> facts]
  BY RetireMaps DEF fl
<1>3. Arch!Sets(def, on, {})
  BY <1>1, <1>2, DirectSets
<1>4. FlagsOK(fl)
  BY <1>1 DEF DirectIs
<1> QED BY <1>2, <1>3, <1>4, RetireIsRight DEF fl

LEMMA CountedIsRight ==
  ASSUME TypeOK, fault = "None", NEW i \in Insns, i.op \in {"tzcnt", "lzcnt"},
         NEW v, v = BitsOf(i.b, i.size), NEW w, w = Width(i.size),
         NEW c, c = IF v = {} THEN w
                    ELSE IF i.op = "tzcnt" THEN Min(v) ELSE w - 1 - Max(v),
         Retire(i, <<c>>, {},
                Put(Synced, {"CF", "ZF"}, On("CF", c = w) \cup On("ZF", c = 0)))
  PROVE  Right
<1>1. w \in Nat /\ w > 1 /\ i.size \in Sizes /\ v \subseteq 0 .. w - 1
  BY InsnIs, TopBit DEF BitsOf
<1>2. c = w <=> v = {}
  <2>1. v # {} => Max(v) \in 0 .. w - 1 /\ Min(v) \in 0 .. w - 1
    BY <1>1, BitsEnds
  <2>2. CASE v = {}
    BY <2>2
  <2>3. CASE v # {}
    <3>1. PICK m \in 0 .. w - 1, n \in 0 .. w - 1 : m = Max(v) /\ n = Min(v)
      BY <2>1, <2>3
    <3>2. c = n \/ c = w - 1 - m
      BY <2>3, <3>1
    <3> QED BY <1>1, <2>3, <3>1, <3>2
  <2> QED BY <2>2, <2>3
<1> DEFINE on == On("CF", v = {}) \cup On("ZF", c = 0)
           def == {"CF", "ZF"}
<1>3. On("CF", c = w) = On("CF", v = {})
  BY <1>2, Zenon DEF On
<1>4. Retire(i, <<c>>, {}, Put(Synced, def, on))
  <2>1. On("CF", c = w) \cup On("ZF", c = 0) = on
    BY <1>3
  <2> HIDE DEF on
  <2> QED BY <2>1
<1>5. on \subseteq def /\ def \subseteq Flag
  <2>1. On("CF", v = {}) \subseteq {"CF"} /\ On("ZF", c = 0) \subseteq {"ZF"}
    BY OnIs, Zenon
  <2>2. on \subseteq def
    BY <2>1, Zenon
  <2> QED BY <2>2 DEF Flag, Arith
<1>6. ASSUME Arch!Sets(def, on, {}), out' = [words |-> <<c>>, facts |-> {}]
      PROVE  ArchDoes(i)
  <2>1. Arch!Wrote(<<c>>)
    BY <1>6 DEF Arch!Wrote
  <2>2. CASE i.op = "tzcnt"
    <3>1. c = IF v = {} THEN w ELSE Min(v)
      BY <2>2
    <3>2. Arch!Scans(i)
      BY <1>6, <2>1, <2>2, <3>1, SameWords, SameBits, SameFlags, SameCounts, Zenon
         DEF Arch!Scans
    <3> QED BY <3>2 DEF ArchDoes
  <2>3. CASE i.op = "lzcnt"
    <3>1. c = IF v = {} THEN w ELSE w - 1 - Max(v)
      BY <2>3
    <3>2. Arch!Scans(i)
      BY <1>6, <2>1, <2>3, <3>1, SameWords, SameBits, SameFlags, SameCounts, Zenon
         DEF Arch!Scans
    <3> QED BY <3>2 DEF ArchDoes
  <2> QED BY <2>2, <2>3
<1> HIDE DEF on, def
<1> QED BY <1>4, <1>5, <1>6, DirectIsRight

LEMMA FirstBitIsRight ==
  ASSUME TypeOK, fault = "None", NEW i \in Insns, i.op \in {"bsf", "bsr"},
         NEW v, v = BitsOf(i.b, i.size), NEW ws,
         ws = IF v = {} THEN <<>> ELSE <<IF i.op = "bsf" THEN Min(v) ELSE Max(v)>>,
         Retire(i, ws, {}, Put(Synced, {"ZF"}, On("ZF", v = {})))
  PROVE  Right
<1> DEFINE on == On("ZF", v = {})
<1>1. on \subseteq {"ZF"} /\ {"ZF"} \subseteq Flag
  BY OnIs, Zenon DEF Flag, Arith
<1>2. on = IF v = {} THEN {"ZF"} ELSE {}
  BY DEF On
<1>3. ASSUME Arch!Sets({"ZF"}, on, {}), out' = [words |-> ws, facts |-> {}]
      PROVE  ArchDoes(i)
  <2>1. CASE v = {}
    <3>1. Arch!Sets({"ZF"}, {"ZF"}, {}) /\ out' = Arch!NoOut
      BY <1>2, <1>3, <2>1 DEF Arch!NoOut
    <3>2. Arch!Scans(i)
      BY <3>1, <2>1, SameWords, SameBits, Zenon DEF Arch!Scans
    <3> QED BY <3>2 DEF ArchDoes
  <2>2. CASE v # {} /\ i.op = "bsf"
    <3>1. Arch!Sets({"ZF"}, {}, {}) /\ Arch!Wrote(<<Min(v)>>)
      BY <1>2, <1>3, <2>2 DEF Arch!Wrote
    <3>2. Arch!Scans(i)
      BY <3>1, <2>2, SameWords, SameBits, SameCounts DEF Arch!Scans
    <3> QED BY <3>2 DEF ArchDoes
  <2>3. CASE v # {} /\ i.op = "bsr"
    <3>1. Arch!Sets({"ZF"}, {}, {}) /\ Arch!Wrote(<<Max(v)>>)
      BY <1>2, <1>3, <2>3 DEF Arch!Wrote
    <3>2. Arch!Scans(i)
      BY <3>1, <2>3, SameWords, SameBits, SameCounts DEF Arch!Scans
    <3> QED BY <3>2 DEF ArchDoes
  <2> QED BY <2>1, <2>2, <2>3
<1> HIDE DEF on
<1> QED BY <1>1, <1>3, DirectIsRight DEF on

LEMMA PopcntIsRight ==
  ASSUME TypeOK, fault = "None", NEW i \in Insns, i.op = "popcnt",
         NEW v, v = BitsOf(i.b, i.size),
         Retire(i, <<Cardinality(v)>>, {}, Put(Synced, Arith, On("ZF", v = {})))
  PROVE  Right
<1> DEFINE on == On("ZF", v = {})
<1>1. on \subseteq Arith /\ Arith \subseteq Flag
  <2>1. on \subseteq {"ZF"}
    BY OnIs, Zenon
  <2> HIDE DEF on
  <2> QED BY <2>1 DEF Arith, Flag
<1>2. ASSUME Arch!Sets(Arith, on, {}), out' = [words |-> <<Cardinality(v)>>, facts |-> {}]
      PROVE  ArchDoes(i)
  <2>1. Arch!Wrote(<<Cardinality(v)>>)
    BY <1>2 DEF Arch!Wrote
  <2>2. Arch!Scans(i)
    BY <1>2, <2>1, SameBits, SameFlags, SameCounts, Zenon DEF Arch!Scans
  <2> QED BY <2>2 DEF ArchDoes
<1> HIDE DEF on
<1> QED BY <1>1, <1>2, DirectIsRight DEF on

LEMMA ScanIsRight ==
  ASSUME TypeOK, fault = "None", NEW i \in Insns, Scan(i)
  PROVE  Right
<1>1. PICK v, w : v = BitsOf(i.b, i.size) /\ w = Width(i.size)
  OBVIOUS
<1>2. w \in Nat /\ w > 1 /\ v \subseteq 0 .. w - 1
  BY <1>1, InsnIs, TopBit DEF BitsOf
<1>3. v # {} => Max(v) \in 0 .. w - 1
  BY <1>2, BitsEnds
<1> DEFINE tz == IF v = {} THEN w ELSE Min(v)
           lz == IF v = {} THEN w ELSE w - 1 - Max(v)
           zf == Put(Synced, {"ZF"}, On("ZF", v = {}))
           Counted(c) == Retire(i, <<c>>, {},
                                Put(Synced, {"CF", "ZF"}, On("CF", c = w) \cup On("ZF", c = 0)))
<1>4. \/ /\ i.op \in {"bsf", "bsr"}
         /\ IF v = {} THEN RetireOnly(i, zf)
            ELSE Retire(i, <<IF i.op = "bsf" THEN tz ELSE w - 1 - lz>>, {}, zf)
      \/ /\ i.op = "popcnt"
         /\ Retire(i, <<Cardinality(v)>>, {}, Put(Synced, Arith, On("ZF", v = {})))
      \/ i.op = "tzcnt" /\ Counted(tz)
      \/ i.op = "lzcnt" /\ Counted(lz)
  BY <1>1, Zenon DEF Scan
<1>5. CASE /\ i.op \in {"bsf", "bsr"}
           /\ IF v = {} THEN RetireOnly(i, zf)
              ELSE Retire(i, <<IF i.op = "bsf" THEN tz ELSE w - 1 - lz>>, {}, zf)
  <2>1. PICK ws : ws = IF v = {} THEN <<>> ELSE <<IF i.op = "bsf" THEN Min(v) ELSE Max(v)>>
    OBVIOUS
  <2>2. Retire(i, ws, {}, zf)
    <3> HIDE DEF zf
    <3>1. CASE v = {}
      BY <1>5, <2>1, <3>1 DEF RetireOnly
    <3>2. CASE v # {}
      <4>1. PICK m \in 0 .. w - 1 : m = Max(v)
        BY <1>3, <3>2
      <4>2. w - 1 - (w - 1 - m) = m
        BY <1>2, <4>1
      <4>3. (IF i.op = "bsf" THEN tz ELSE w - 1 - lz) = IF i.op = "bsf" THEN Min(v) ELSE Max(v)
        BY <3>2, <4>1, <4>2
      <4> HIDE DEF tz, lz
      <4> QED BY <1>5, <2>1, <3>2, <4>3
    <3> QED BY <3>1, <3>2
  <2> QED BY <1>1, <1>5, <2>1, <2>2, FirstBitIsRight
<1>6. CASE /\ i.op = "popcnt"
           /\ Retire(i, <<Cardinality(v)>>, {}, Put(Synced, Arith, On("ZF", v = {})))
  BY <1>1, <1>6, PopcntIsRight
<1>7. CASE i.op = "tzcnt" /\ Counted(tz)
  <2>1. PICK c : c = tz
    OBVIOUS
  <2>2. c = IF v = {} THEN w ELSE IF i.op = "tzcnt" THEN Min(v) ELSE w - 1 - Max(v)
    BY <1>7, <2>1
  <2> QED BY <1>1, <1>7, <2>1, <2>2, CountedIsRight
<1>8. CASE i.op = "lzcnt" /\ Counted(lz)
  <2>1. PICK c : c = lz
    OBVIOUS
  <2>2. c = IF v = {} THEN w ELSE IF i.op = "tzcnt" THEN Min(v) ELSE w - 1 - Max(v)
    BY <1>8, <2>1
  <2> QED BY <1>1, <1>8, <2>1, <2>2, CountedIsRight
<1> QED BY <1>4, <1>5, <1>6, <1>7, <1>8

LEMMA SahfIsRight ==
  ASSUME TypeOK, fault = "None", NEW i \in Insns, OpSahf(i)
  PROVE  Right
<1> DEFINE def == Arith \ {"OF"}
           on == i.f \ {"OF", "DF"}
<1>1. on \subseteq def /\ def \subseteq Flag
  BY InsnIs DEF Flag, Arith
<1>2. Retire(i, <<>>, {}, Put(Synced, def, on)) /\ i.op = "sahf"
  BY DEF OpSahf, RetireOnly
<1>3. ASSUME Arch!Sets(def, on, {}), out' = [words |-> <<>>, facts |-> {}]
      PROVE  ArchDoes(i)
  <2>1. Arch!Transfers(i)
    BY <1>2, <1>3, SameFlags DEF Arch!Transfers, Arch!NoOut
  <2> QED BY <2>1 DEF ArchDoes
<1> HIDE DEF def, on
<1> QED BY <1>1, <1>2, <1>3, DirectIsRight

LEMMA PopfIsRight ==
  ASSUME TypeOK, fault = "None", NEW i \in Insns, OpPopf(i)
  PROVE  Right
<1> DEFINE fl == [bits |-> i.f, cc |-> NoStash]
<1>1. DirectIs(fl, i.f)
  BY InsnIs, DirectOK
<1>2. Retire(i, <<>>, {}, fl) /\ i.op = "popf"
  BY DEF OpPopf, RetireOnly
<1> HIDE DEF fl
<1>3. Visible(rflags', cc') = i.f /\ out' = [words |-> <<>>, facts |-> {}]
  BY <1>1, <1>2, RetireMaps DEF DirectIs
<1>4. Arch!Transfers(i)
  BY <1>2, <1>3 DEF Arch!Transfers, Arch!NoOut
<1>5. FlagsOK(fl) /\ ArchDoes(i)
  BY <1>1, <1>4 DEF DirectIs, ArchDoes
<1> QED BY <1>2, <1>5, RetireIsRight

\* LAHF, PUSHF and Jcc report what they see, synced.
LEMMA ReaderIsRight ==
  ASSUME TypeOK, fault = "None", NEW i \in Insns, OpLahf(i) \/ OpPushf(i) \/ OpJcc(i)
  PROVE  Right
<1>1. PICK F : F = Visible(rflags, cc) /\ Synced.bits = F
  BY SyncedShows
<1>2. ASSUME NEW facts, Retire(i, <<>>, facts, Synced)
      PROVE  Visible(rflags', cc') = F /\ out' = [words |-> <<>>, facts |-> facts]
  BY <1>1, <1>2, RetireMaps, SyncedShows
<1>3. CASE OpLahf(i)
  <2>1. Retire(i, <<>>, F \ {"OF", "DF"}, Synced) /\ i.op = "lahf"
    BY <1>1, <1>3 DEF OpLahf
  <2>2. Arch!Transfers(i)
    BY <1>1, <1>2, <2>1 DEF Arch!Transfers, Arch!Kept
  <2> QED BY <2>1, <2>2, PlainFault, RetireIsRight DEF ArchDoes
<1>4. CASE OpPushf(i)
  <2>1. CASE Retire(i, <<>>, Synced.bits, Synced)
    <3>1. Retire(i, <<>>, F, Synced) /\ i.op = "pushf"
      BY <1>1, <1>4, <2>1 DEF OpPushf
    <3>2. Arch!Transfers(i)
      BY <1>1, <1>2, <3>1 DEF Arch!Transfers, Arch!Kept
    <3> QED BY <3>1, <3>2, PlainFault, RetireIsRight DEF ArchDoes
  <2>2. CASE PageFault(i, Synced)
    BY <2>2, PlainFault, FaultIsRight
  <2> QED BY <2>1, <2>2, <1>4 DEF OpPushf
<1>5. CASE OpJcc(i)
  <2>1. Retire(i, <<>>, {c \in Cc : CondHolds(c, F)}, Synced) /\ i.op = "jcc"
    BY <1>1, <1>5 DEF OpJcc
  <2>2. out' = [words |-> <<>>, facts |-> {c \in Arch!Cc : Arch!CondHolds(c, F)}]
    <3>1. {c \in Arch!Cc : Arch!CondHolds(c, F)} = {c \in Cc : CondHolds(c, F)}
      BY SameFlags, Zenon
    <3> QED BY <1>2, <2>1, <3>1
  <2>3. Visible(rflags', cc') = F
    BY <1>2, <2>1
  <2>4. Arch!Transfers(i)
    BY <1>1, <2>1, <2>2, <2>3, Zenon DEF Arch!Transfers, Arch!Kept
  <2> QED BY <2>1, <2>4, PlainFault, RetireIsRight DEF ArchDoes
<1> QED BY <1>3, <1>4, <1>5

\* Every handler, and a memory operand that cannot be read.
LEMMA HandlerIsRight ==
  ASSUME TypeOK, fault = "None", NEW i \in Insns, Handler(i)
  PROVE  Right
<1>1. CASE OpAdd(i) \/ OpAdc(i) \/ OpSub(i) \/ OpSbb(i) \/ OpInc(i) \/ OpDec(i)
           \/ OpNeg(i) \/ OpCmp(i)
  BY <1>1, AddIsRight, AdcIsRight, SubIsRight, SbbIsRight, IncIsRight, DecIsRight, NegIsRight
<1>2. CASE OpImul(i) \/ OpMul(i) \/ OpImul1(i) \/ OpDiv(i) \/ OpIdiv(i)
  BY <1>2, ImulIsRight, MulIsRight, DivIsRight, IdivIsRight
<1>3. CASE OpAnd(i) \/ OpOr(i) \/ OpXor(i) \/ OpNot(i) \/ OpTest(i)
  BY <1>3, BitwiseIsRight
<1>4. CASE OpShl(i) \/ OpShr(i) \/ OpSar(i) \/ OpRol(i) \/ OpRor(i) \/ OpRcl(i) \/ OpRcr(i)
           \/ OpShld(i) \/ OpShrd(i)
  BY <1>4, ShlIsRight, ShrIsRight, SarIsRight, RolIsRight, RorIsRight, RclIsRight, RcrIsRight,
     ShldIsRight, ShrdIsRight
<1>5. CASE BitTest(i) \/ Scan(i)
  BY <1>5, BitTestIsRight, ScanIsRight
<1>6. CASE OpLahf(i) \/ OpSahf(i) \/ OpPushf(i) \/ OpPopf(i) \/ OpJcc(i)
  BY <1>6, ReaderIsRight, SahfIsRight, PopfIsRight
<1>7. CASE ReadFault(i)
  BY <1>7, PlainFault, FaultIsRight DEF ReadFault
<1> QED BY <1>1, <1>2, <1>3, <1>4, <1>5, <1>6, <1>7, Zenon DEF Handler

-----------------------------------------------------------------------------
(* The host between instructions *)

\* What a step must do: keep the types and be a step of ArchFlags or none.
RightOrIdle == TypeOK' /\ [Arch!Next]_(Arch!vars)

\* Cleared flags under a stash: a switch of sync_flags_ raises none that it would
\* not raise over any other flags.
LEMMA ComputedGrows ==
  ASSUME NEW bits, NEW c, c.op \in CcOps
  PROVE  Computed({}, c) \subseteq Computed(bits, c)
<1>1. CASE c.op = "Eflags"
  BY <1>1 DEF Computed
<1>2. CASE c.op \in {"Logic", "Add", "Sub", "Inc", "Dec", "Neg", "Shl", "Shr", "Sar"}
  BY <1>2 DEF Computed
<1>3. CASE c.op = "Rol"
  <2>1. PICK k, e : k = bits \cap Arith /\ e = {} \cap Arith
    OBVIOUS
  <2>2. /\ Computed({}, c) = ComputeRol(c.size, c.dst, c.src2, e)
        /\ Computed(bits, c) = ComputeRol(c.size, c.dst, c.src2, k)
    BY <1>3, <2>1 DEF Computed
  <2> DEFINE cf == c.dst % 2 = 1
             gone == IF c.src2 = 1 THEN {"CF", "OF"} ELSE {"CF"}
             C == On("CF", cf)
             O == On("OF", c.src2 = 1 /\ Sign(c.dst, c.size) # cf)
  <2>3. \A kept : ComputeRol(c.size, c.dst, c.src2, kept) = (kept \ gone) \cup C \cup O
    BY Zenon DEF ComputeRol
  <2> HIDE DEF gone, C, O
  <2> QED BY <2>1, <2>2, <2>3
<1>4. CASE c.op = "Ror"
  <2>1. PICK k, e : k = bits \cap Arith /\ e = {} \cap Arith
    OBVIOUS
  <2>2. /\ Computed({}, c) = ComputeRor(c.size, c.dst, c.src2, e)
        /\ Computed(bits, c) = ComputeRor(c.size, c.dst, c.src2, k)
    BY <1>4, <2>1 DEF Computed
  <2> DEFINE cf == Sign(c.dst, c.size)
             gone == IF c.src2 = 1 THEN {"CF", "OF"} ELSE {"CF"}
             C == On("CF", cf)
             O == On("OF", c.src2 = 1 /\ cf # BitAt(c.dst, Width(c.size) - 2))
  <2>3. \A kept : ComputeRor(c.size, c.dst, c.src2, kept) = (kept \ gone) \cup C \cup O
    BY Zenon DEF ComputeRor
  <2> HIDE DEF gone, C, O
  <2> QED BY <2>1, <2>2, <2>3
<1>5. CASE c.op = "MulOv"
  BY <1>5 DEF Computed, ComputeMulOv
<1> QED BY <1>1, <1>2, <1>3, <1>4, <1>5 DEF CcOps

\* A snapshot as the host holds it, and as ArchFlags has it.
Seen(s) == IF s = <<>> THEN <<>>
           ELSE <<[flags |-> Visible(s[1].bits, s[1].cc), fault |-> s[1].fault]>>

LEMMA ArchVars == Arch!vars = <<last, fault, Visible(rflags, cc), out, Seen(saved)>>
BY DEF Arch!vars, Seen

LEMMA ReadFlagsIsRight ==
  ASSUME TypeOK, ReadFlags
  PROVE  RightOrIdle
<1>1. /\ rflags' = Synced.bits /\ cc' = Synced.cc /\ last' = last /\ fault' = fault
      /\ out' = out /\ saved' = saved
  BY DEF ReadFlags, Leaves
<1>2. TypeOK'
  BY <1>1, TypeGives DEF TypeOK, FlagsOK
<1>3. Visible(rflags', cc') = Visible(rflags, cc)
  BY <1>1, SyncedShows DEF Shows
<1>4. UNCHANGED Arch!vars
  <2>1. (Arch!vars)' = <<last', fault', Visible(rflags', cc'), out', Seen(saved')>>
    BY DEF Arch!vars, Seen
  <2> QED BY <2>1, <1>1, <1>3, ArchVars
<1> QED BY <1>2, <1>4 DEF RightOrIdle

LEMMA ClearFaultIsRight ==
  ASSUME TypeOK, ClearFault
  PROVE  RightOrIdle
<1>1. TypeOK'
  BY DEF TypeOK, ClearFault, Nothing
<1>2. Arch!Recover
  BY DEF ClearFault, Nothing, Arch!Recover, Arch!Nothing, NoInsn, NoOut, Arch!NoInsn, Arch!NoOut
<1> QED BY <1>1, <1>2 DEF RightOrIdle, Arch!Next

LEMMA SnapshotIsRight ==
  ASSUME TypeOK, Snapshot
  PROVE  RightOrIdle
<1>1. /\ rflags' = Synced.bits /\ cc' = Synced.cc /\ last' = last /\ fault' = fault
      /\ out' = out
      /\ saved' = <<[bits |-> Visible(rflags, cc), cc |-> NoStash, fault |-> fault]>>
  BY DEF Snapshot, Leaves, Synced
<1>2. fault \in {"None", "PageFault", "DivideError"} /\ Visible(rflags, cc) \in SUBSET Flag
  BY TypeGives DEF TypeOK
<1>3. TypeOK'
  BY <1>1, <1>2, TypeGives DEF TypeOK, FlagsOK
<1>4. Visible(rflags', cc') = Visible(rflags, cc)
  BY <1>1, SyncedShows DEF Shows
<1>5. Seen(saved') = <<[flags |-> Visible(rflags, cc), fault |-> fault]>>
  <2>1. saved' # <<>> /\ saved'[1].bits = Visible(rflags, cc) /\ saved'[1].cc = NoStash
        /\ saved'[1].fault = fault
    BY <1>1
  <2> QED BY <2>1, NoStashShows DEF Seen
<1>6. Arch!Snapshot
  BY <1>1, <1>4, <1>5 DEF Arch!Snapshot, Seen
<1> QED BY <1>3, <1>6 DEF RightOrIdle, Arch!Next

LEMMA RestoreIsRight ==
  ASSUME TypeOK, Restore
  PROVE  RightOrIdle
<1>1. /\ rflags' = saved[1].bits /\ cc' = saved[1].cc /\ fault' = saved[1].fault
      /\ last' = NoInsn /\ out' = NoOut /\ saved' = saved /\ saved # <<>>
  BY DEF Restore, Leaves, Nothing
<1>2. PICK bits \in SUBSET Flag, f \in {"None", "PageFault", "DivideError"} :
        saved = <<[bits |-> bits, cc |-> NoStash, fault |-> f]>>
  BY <1>1 DEF TypeOK
<1>3. saved[1].bits = bits /\ saved[1].cc = NoStash /\ saved[1].fault = f
  BY <1>2
<1>4. FlagsOK([bits |-> bits, cc |-> NoStash])
  BY DirectOK DEF DirectIs
<1>5. TypeOK'
  BY <1>1, <1>2, <1>3, <1>4 DEF TypeOK, FlagsOK
<1>6. Seen(saved)[1].flags = Visible(rflags', cc') /\ Seen(saved)[1].fault = fault'
      /\ Seen(saved) # <<>>
  BY <1>1 DEF Seen
<1>7. Arch!Restore
  BY <1>1, <1>6 DEF Arch!Restore, Arch!Nothing, Arch!NoInsn, Arch!NoOut, NoInsn, NoOut, Seen
<1> QED BY <1>5, <1>7 DEF RightOrIdle, Arch!Next

LEMMA ResetIsRight ==
  ASSUME TypeOK, Reset
  PROVE  RightOrIdle
<1>1. TypeOK'
  BY DEF TypeOK, Reset, Nothing
<1>2. Visible(rflags', cc') = Computed({}, cc)
  BY DEF Reset, Visible
<1>3. /\ Computed({}, cc) \subseteq Visible(rflags, cc)
      /\ Computed({}, cc) \subseteq Arith
  BY TypeGives, ComputedGrows, ComputedIsArith DEF Visible
<1>4. Visible(rflags', cc') \subseteq Visible(rflags, cc) \ {"DF"}
  BY <1>2, <1>3 DEF Arith
<1>5. Arch!Reset
  BY <1>4 DEF Reset, Nothing, Arch!Reset, Arch!Nothing, Arch!NoInsn, Arch!NoOut, NoInsn, NoOut
<1> QED BY <1>1, <1>5 DEF RightOrIdle, Arch!Next

LEMMA StepIsRight ==
  ASSUME TypeOK, [Next]_vars
  PROVE  RightOrIdle
<1>1. ASSUME NEW i \in Insns, fault = "None", Handler(i)
      PROVE  RightOrIdle
  BY <1>1, HandlerIsRight DEF Right, RightOrIdle
<1>2. CASE UNCHANGED vars
  <2>1. TypeOK'
    BY <1>2 DEF TypeOK, vars
  <2>2. UNCHANGED Arch!vars
    BY <1>2 DEF vars, Arch!vars
  <2> QED BY <2>1, <2>2 DEF RightOrIdle
<1> QED BY <1>1, <1>2, ReadFlagsIsRight, ClearFaultIsRight, SnapshotIsRight, RestoreIsRight,
           ResetIsRight DEF Next

LEMMA InitIsRight ==
  ASSUME Init
  PROVE  TypeOK /\ Arch!Init
<1>1. TypeOK
  BY DEF Init, TypeOK, NoStash, CcOps, Sizes, CountMask
<1>2. Visible({}, NoStash) = {}
  BY NoStashShows
<1> QED BY <1>1, <1>2 DEF Init, Arch!Init, NoInsn, NoOut, Arch!NoInsn, Arch!NoOut

-----------------------------------------------------------------------------
(* The theorems *)

\* Whatever handlers stash and in whatever order instructions, readers and the
\* host come, a stash holds words of its own size and a masked count, a snapshot
\* no pending stash (stash_*, shift_count_mask, Cpu::snapshot).
THEOREM TypeOKAlways == Spec => []TypeOK
<1>1. Init => TypeOK
  BY InitIsRight
<1>2. TypeOK /\ [Next]_vars => TypeOK'
  BY StepIsRight DEF RightOrIdle
<1> QED BY <1>1, <1>2, PTL DEF Spec

\* A guest cannot tell that flags are computed lazily: behind every handler,
\* sync_flags_, snapshot, restore and reset, for words of any size and any
\* operands, the flags a reader sees are those ArchFlags has updated at once, and
\* an instruction that faults leaves what ArchFlags allows.
THEOREM ImplementsArch == Spec => ArchSpec
<1>1. Init => Arch!Init
  BY InitIsRight
<1>2. TypeOK /\ [Next]_vars => [Arch!Next]_(Arch!vars)
  BY StepIsRight DEF RightOrIdle
<1> QED BY <1>1, <1>2, TypeOKAlways, PTL DEF Spec, ArchSpec, Arch!Spec

=============================================================================
