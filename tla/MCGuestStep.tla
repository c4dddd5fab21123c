------------------------------ MODULE MCGuestStep ------------------------------
(* One instruction from its bytes to its effect; or else a block of two, on *)
(* two registers, is folded and run.                                        *)
EXTENDS GuestStep

VARIABLES stage, block, folded, at, plain, fast

foldVars == <<stage, block, folded, at, plain, fast>>

Fold == INSTANCE Peephole WITH
          Regs <- {"rax", "rcx"}, MaxInsns <- 2, Held <- 2 .. 3, Bases <- {1},
          Loaded <- 2

ASSUME FoldAssumption == Fold!PeepholeAssumption

MCInit == GuestInit /\ Fold!Init
MCNext ==
  \/ block = <<>> /\ GuestNext /\ UNCHANGED foldVars
  \/ bytes = <<>> /\ phase = "decode" /\ Fold!Next /\ UNCHANGED guestVars
MCSpec == MCInit /\ [][MCNext]_<<guestVars, foldVars>>

FoldedRunsAlikeOtherwise == Fold!FoldedRunsAlikeOtherwise

-----------------------------------------------------------------------------
(* Bytes *)

Pp == 0 .. 3
WBit(w) == IF w THEN 128 ELSE 0

\* As many prefixes as make the shortest instruction after them too long.
Run == [i \in 1 .. 13 |-> \h66]

\* As many as leave one byte before the count of bytes comes round to 0.
LongRun == [i \in 1 .. 255 |-> \h66]

\* Prefixes in front of every opcode: legacy and REX ones, then VEX and EVEX.
Starts ==
  {<<>>, <<\h66>>, <<\hF3>>, <<\hF2>>, <<\h48>>, <<\h41>>, <<\h66, \h48>>, Run}
LongOpcodes == {\h66, \h90, \h8B, \hB8, \hE8, \hC3}
VexStarts ==
  {<<\hC5, 248 + pp>> : pp \in Pp}
    \cup {<<\hC4, \hE0 + map, WBit(w) + 120 + pp>> : map \in 1 .. 4, pp \in Pp, w \in BOOLEAN}
    \cup {<<\h62, \hF0 + map, WBit(w) + 124 + pp, \h48>> :
            map \in 1 .. 3, pp \in Pp, w \in BOOLEAN}

\* ModRM bytes: every addressing form and, with registers and with memory,
\* every opcode extension.  SIB bytes: a base register, and none.
Forms == {\h04, \h05, \h44, \h80, \h84, \hC4}
Modes == Forms \cup {8 * r : r \in 0 .. 7} \cup {\hC0 + 8 * r : r \in 0 .. 7} \cup {\hFA}
VexModes == Forms \cup {\h00, \h10, \hC0} \cup {\hC8 + 8 * r : r \in 0 .. 6}
Sibs == {\h00, \h25}

Decided(s) == DecodeOne(s).status # "TruncatedInstruction"

MCFollow(s) ==
  LET on == {t \in Starts \cup VexStarts \cup {LongRun} : Len(t) > Len(s) /\ SubSeq(t, 1, Len(s)) = s}
      px == ScanPrefixes(s)
      head == px.len + OpcodeMap(px, s).bytes
      next == IF ScanTruncated(s)
              THEN IF s \in Starts THEN {b \in Byte \ Legacy : LongPrefix(b) = 0}
                  ELSE IF s = LongRun THEN LongOpcodes ELSE {}
              ELSE IF Len(s) < head THEN Byte
              ELSE IF Decided(s) THEN IF Decided(SubSeq(s, 1, Len(s) - 1)) THEN {} ELSE {0}
              ELSE IF Len(s) = head THEN IF px.vex = "no" THEN Modes ELSE VexModes
              ELSE IF Len(s) = head + 1 THEN Sibs
              ELSE {0}
  IN  {t[Len(s) + 1] : t \in on} \cup next

-----------------------------------------------------------------------------
(* Guest states: what is not the instruction's business stays as it is. *)
RegFor(rax, rcx, rsp, rsi, rdi) ==
  [Idle.reg EXCEPT ![RAX] = rax, ![RCX] = rcx, ![RSP] = rsp, ![RSI] = rsi, ![RDI] = rdi,
                   ![Other] = 1]
Perms == [Cells -> {"none", "rw"}] \cup [Cells -> {"r", "rw"}]

StringGuests ==
  {[Idle EXCEPT !.reg = RegFor(rax, rcx, 0, rsi, rdi), !.mem = m, !.perm = p, !.df = d] :
     rax \in {1}, rcx \in 0 .. N, rsi \in Cells, rdi \in Cells, d \in BOOLEAN,
     m \in {[c \in Cells |-> c \div 2]}, p \in Perms}
OtherGuests ==
  {[Idle EXCEPT !.reg = RegFor(1, rcx, rsp, rsi, 0), !.mem = [c \in Cells |-> (c + 1) % N],
                !.perm = p, !.zf = z] :
     rcx \in {0, 2}, rsp \in Cells, rsi \in Cells, z \in BOOLEAN, p \in Perms}
MCArrivals(kind) == IF kind \in Strings THEN StringGuests ELSE OtherGuests

=============================================================================
