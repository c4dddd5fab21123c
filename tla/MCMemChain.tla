----------------------------- MODULE MCMemChain -----------------------------
(***************************************************************************)
(* Five bytes in four lines, three pages and two regions of unequal sizes: *)
(*                                                                         *)
(*   address   0  1 | 2 | 3 | 4                                            *)
(*   page      -- 0 ----| 1 | 2                                            *)
(*   region    ---- 0 ------| 1                                            *)
(*                                                                         *)
(* L1 and L2 have two entries and L3 one, so that every kind of conflict,  *)
(* partial hit and eviction occurs.                                        *)
(***************************************************************************)
EXTENDS MemChain

MCAddr == 0..4
MCLineOf == [a \in MCAddr |-> IF a = 0 THEN 0 ELSE a - 1]
MCPageOf == [a \in MCAddr |-> IF a <= 2 THEN 0 ELSE IF a = 3 THEN 1 ELSE 2]
MCRegionOf == [a \in MCAddr |-> IF a <= 3 THEN 0 ELSE 1]
MCSlotL1 == [n \in 0..3 |-> n % 2]
MCSlotL2 == [p \in 0..2 |-> p % 2]

\* Two lines of a page, two pages of a region, and the stack.
MCAccesses == {{1, 2}, {2, 3}, {4}}
\* A whole page, and a range that covers one page and the end of another.
MCPrivateRanges == {{4}, {2, 3}}
MCStackOnly == {{4}}
MCProtRanges == {{1, 2}}
MCStack == {4}

\* Five bytes in four regions of one page each (0 and 1 share a line),
\* all in the same slots of L1 and L2: every access goes to L3, whose two
\* entries have to be chosen by age.
LruAddr == 0..4
LruPageOf == [a \in LruAddr |-> IF a = 0 THEN 0 ELSE a - 1]
LruSlot == [p \in 0..3 |-> 0]
LruAccesses == {{a} : a \in 1..4}

=============================================================================
