-------------------------------- MODULE Handlers --------------------------------
(***************************************************************************)
(* The handlers of data movement, control flow and strings: what each does *)
(* to registers, memory and RIP, up to its first access that is refused.   *)
(* Memory is N cells, and every operand is one cell wide.  The instruction *)
(* lies outside, at Here; After is the next one and Away its target.       *)
(***************************************************************************)
EXTENDS Integers, Sequences

CONSTANT N

ASSUME CellsAssumption == N \in Nat \ {0}

Cells == 0 .. N - 1
Here == N
After == N + 1
Away == N + 2
Values == 0 .. N + 2

RAX == 0
RCX == 1
RSP == 4
RSI == 6
RDI == 7
Other == 2    \* any register that no handler names
Registers == {RAX, RCX, Other, RSP, RSI, RDI}

NoFault == [kind |-> "None", cell |-> 0, write |-> FALSE]

Up(x) == (x + 1) % N
Down(x) == (x + N - 1) % N

-----------------------------------------------------------------------------
(* Accesses to memory, and operands *)

R(c) == [cell |-> c, write |-> FALSE]
W(c) == [cell |-> c, write |-> TRUE]

Refused(a, g) == g.perm[a.cell] = "none" \/ (a.write /\ g.perm[a.cell] # "rw")
AnyRefused(accesses, g) == \E i \in 1 .. Len(accesses) : Refused(accesses[i], g)

\* The fault of the first access that is refused, with g as it is then.
Faulted(accesses, g) ==
  LET i == CHOOSE i \in 1 .. Len(accesses) :
             /\ Refused(accesses[i], g)
             /\ \A j \in 1 .. i - 1 : ~Refused(accesses[j], g)
  IN  [g EXCEPT !.fault = [kind |-> "Memory", cell |-> accesses[i].cell,
                           write |-> accesses[i].write]]

\* A handler that makes these accesses, one after the other, before it
\* changes anything.
Guarded(accesses, g, then) == IF AnyRefused(accesses, g) THEN Faulted(accesses, g) ELSE then

OtherFault(g) == [g EXCEPT !.fault = [kind |-> "Other", cell |-> 0, write |-> FALSE]]

InMemory(o) == o.kind \in {"Mem", "RipRelMem"}

\* ea: by way of a base register, or fixed relative to RIP.
Address(o, g) == IF o.kind = "Mem" THEN g.reg[o.reg] ELSE 0

ReadsOf(o, g) == IF InMemory(o) THEN <<R(Address(o, g))>> ELSE <<>>
WritesOf(o, g) == IF InMemory(o) THEN <<W(Address(o, g))>> ELSE <<>>

ValueOf(o, g) ==
  CASE o.kind = "Reg" -> g.reg[o.reg]
    [] InMemory(o) -> g.mem[Address(o, g)]
    [] OTHER -> 0

Put(o, v, g) ==
  IF InMemory(o) THEN [g EXCEPT !.mem[Address(o, g)] = v] ELSE [g EXCEPT !.reg[o.reg] = v]

Branch(target, g) == [g EXCEPT !.rip = target]

-----------------------------------------------------------------------------
(* Data movement *)

OpMov(op, g) ==
  Guarded(ReadsOf(op.src, g) \o WritesOf(op.dst, g), g, Put(op.dst, ValueOf(op.src, g), g))

\* The address alone; memory is not touched.
OpLea(op, g) == Put(op.dst, Address(op.src, g), g)

OpCmov(op, g) ==
  IF g.zf THEN Guarded(ReadsOf(op.src, g), g, Put(op.dst, ValueOf(op.src, g), g)) ELSE g

\* dst is memory or a register, src a register.
OpXchg(op, g) ==
  Guarded(ReadsOf(op.dst, g) \o WritesOf(op.dst, g), g,
          Put(op.src, ValueOf(op.dst, g), Put(op.dst, ValueOf(op.src, g), g)))

MutOpPush(op, g) ==                 \* mutant: RSP moves before the store
  LET top == Down(g.reg[RSP])
      low == [g EXCEPT !.reg[RSP] = top]
  IN  Guarded(ReadsOf(op.dst, g) \o <<W(top)>>, low,
              [low EXCEPT !.mem[top] = ValueOf(op.dst, g)])
OpPush(op, g) ==
  LET top == Down(g.reg[RSP])
  IN  Guarded(ReadsOf(op.dst, g) \o <<W(top)>>, g,
              [g EXCEPT !.mem[top] = ValueOf(op.dst, g), !.reg[RSP] = top])

\* RSP is assigned last: POP RSP keeps nothing of what it popped.
OpPop(op, g) ==
  Guarded(<<R(g.reg[RSP])>>, g,
          [Put(op.dst, g.mem[g.reg[RSP]], g) EXCEPT !.reg[RSP] = Up(g.reg[RSP])])

-----------------------------------------------------------------------------
(* Control flow *)

TargetOf(o, g) == IF o.kind = "Rel" THEN Away ELSE ValueOf(o, g)

OpJmp(op, g) == Guarded(ReadsOf(op.dst, g), g, Branch(TargetOf(op.dst, g), g))
OpJcc(op, g) == IF g.zf THEN Branch(Away, g) ELSE g

\* The target is looked for when the return address is pushed already; if it
\* cannot be read the call goes to 0, with the fault.
OpCall(op, g) ==
  LET top    == Down(g.reg[RSP])
      pushed == [g EXCEPT !.mem[top] = op.next, !.reg[RSP] = top]
      reads  == ReadsOf(op.dst, pushed)
  IN  Guarded(<<W(top)>>, g,
              IF AnyRefused(reads, pushed) THEN Branch(0, Faulted(reads, pushed))
              ELSE Branch(TargetOf(op.dst, pushed), pushed))

\* RET n drops one more cell.
OpRet(op, g) ==
  LET rsp == g.reg[RSP] IN
  Guarded(<<R(rsp)>>, g,
          Branch(g.mem[rsp],
                 [g EXCEPT !.reg[RSP] = IF op.dst.kind = "Imm" THEN Up(Up(rsp)) ELSE Up(rsp)]))

\* RCX below zero is not zero.
OpLoop(op, g) ==
  LET rcx  == IF g.reg[RCX] = 0 THEN N ELSE g.reg[RCX] - 1
      take == /\ rcx # 0
              /\ CASE op.kind = "LoopE" -> g.zf [] op.kind = "LoopNE" -> ~g.zf [] OTHER -> TRUE
      down == [g EXCEPT !.reg[RCX] = rcx]
  IN  IF take THEN Branch(Away, down) ELSE down
OpJcxz(op, g) == IF g.reg[RCX] = 0 THEN Branch(Away, g) ELSE g

\* The canned syscalls, a hook, clear RAX and halt when they know the number;
\* the handler runs after the hook and leaves its fault all the same.
SyscallNumbers == {1}
OpSyscall(op, g) ==
  OtherFault(IF g.reg[RAX] \in SyscallNumbers THEN [g EXCEPT !.reg[RAX] = 0] ELSE g)

\* FST, FSTP, FIST and FISTP: a store that is refused is dropped in silence.
OpX87Store(op, g) ==
  IF AnyRefused(WritesOf(op.src, g), g) THEN g ELSE Put(op.src, 0, g)

-----------------------------------------------------------------------------
(* Strings *)

Strings == {"Movs", "Stos", "Lods", "Scas", "Cmps"}

\* The registers move on by one element.
Moved(regs, g) ==
  [g EXCEPT !.reg = [r \in Registers |->
     IF r \in regs THEN IF g.df THEN Down(@[r]) ELSE Up(@[r]) ELSE @[r]]]

Element(op, g) ==
  LET si == g.reg[RSI]
      di == g.reg[RDI]
  IN  CASE op.kind = "Movs" ->
             Guarded(<<R(si), W(di)>>, g, Moved({RSI, RDI}, [g EXCEPT !.mem[di] = g.mem[si]]))
        [] op.kind = "Stos" ->
             Guarded(<<W(di)>>, g, Moved({RDI}, [g EXCEPT !.mem[di] = g.reg[RAX]]))
        [] op.kind = "Lods" ->
             Guarded(<<R(si)>>, g, Moved({RSI}, [g EXCEPT !.reg[RAX] = g.mem[si]]))
        [] op.kind = "Scas" ->
             Guarded(<<R(di)>>, g, Moved({RDI}, [g EXCEPT !.zf = g.reg[RAX] = g.mem[di]]))
        [] op.kind = "Cmps" ->
             Guarded(<<R(si), R(di)>>, g,
                     Moved({RSI, RDI}, [g EXCEPT !.zf = g.mem[si] = g.mem[di]]))

\* zf_after is set by SCAS and CMPS only, and REP is taken for REPE.
MutEnds(op, g) ==                   \* mutant: REPE and REPNE are swapped
  LET zfAfter == op.kind \in {"Scas", "Cmps"} /\ g.zf
  IN  (op.repne /\ ~zfAfter) \/ (op.rep /\ zfAfter)
Ends(op, g) ==
  LET zfAfter == op.kind \in {"Scas", "Cmps"} /\ g.zf
  IN  (op.rep /\ ~zfAfter) \/ (op.repne /\ zfAfter)

Counted(g) == [g EXCEPT !.reg[RCX] = @ - 1]

\* turn[n] is the loop after n turns, or when it ended before.
RunString(op, g) ==
  LET turn[n \in 0 .. N + 1] ==
        IF n = 0 THEN [guest |-> g, more |-> g.reg[RCX] # 0]
        ELSE LET t == turn[n - 1]
                 e == Element(op, t.guest)
                 c == Counted(e)
             IN  IF ~t.more THEN t
                 ELSE IF e.fault # NoFault THEN [guest |-> e, more |-> FALSE]
                 ELSE [guest |-> c, more |-> c.reg[RCX] # 0 /\ ~Ends(op, c)]
  IN  IF op.rep \/ op.repne THEN turn[N + 1].guest ELSE Element(op, g)

-----------------------------------------------------------------------------
LoopKinds == {"Loop", "LoopE", "LoopNE"}
Faulting == {"Hlt", "Int3", "Int_n"}
Handled ==
  {"Mov", "Lea", "Cmov", "Xchg", "Push", "Pop", "Jmp", "Jcc", "Call", "Ret", "Jcxz",
   "Syscall", "X87Store"} \cup Strings \cup LoopKinds \cup Faulting

Handle(op, g) ==
  CASE op.kind = "Mov" -> OpMov(op, g)   [] op.kind = "Lea" -> OpLea(op, g)
    [] op.kind = "Cmov" -> OpCmov(op, g) [] op.kind = "Xchg" -> OpXchg(op, g)
    [] op.kind = "Push" -> OpPush(op, g) [] op.kind = "Pop" -> OpPop(op, g)
    [] op.kind = "Jmp" -> OpJmp(op, g)   [] op.kind = "Jcc" -> OpJcc(op, g)
    [] op.kind = "Call" -> OpCall(op, g) [] op.kind = "Ret" -> OpRet(op, g)
    [] op.kind = "Jcxz" -> OpJcxz(op, g) [] op.kind \in LoopKinds -> OpLoop(op, g)
    [] op.kind = "Syscall" -> OpSyscall(op, g)
    [] op.kind = "X87Store" -> OpX87Store(op, g)
    [] op.kind \in Strings -> RunString(op, g)
    [] op.kind \in Faulting -> OtherFault(g)

=============================================================================
