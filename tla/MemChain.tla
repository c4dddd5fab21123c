------------------------------ MODULE MemChain ------------------------------
(***************************************************************************)
(* The memory path of an emulated access:                                  *)
(*                                                                         *)
(*   handler -> L1 (lines) -> L2 (pages) -> L3 (regions) -> ShadowPages    *)
(*           -> the live target (ReadProcessMemory)                        *)
(*                                                                         *)
(* A byte is represented by the version it carries: every change of a byte,*)
(* by the guest or by the running target, gets a version newer than all    *)
(* before it, so two copies of a byte can be compared by age.  0 is the    *)
(* zero a private page starts with.  A cache is a partial map from         *)
(* addresses to versions: a valid entry tagged with line (page, region) t  *)
(* is the map being defined on all the addresses of t.                     *)
(***************************************************************************)
EXTENDS Integers, FiniteSets

CONSTANTS
  Addr,          \* guest byte addresses
  LineOf,        \* 64-byte line, 4 KiB page and 2 MiB region of an address
  PageOf,
  RegionOf,
  SlotL1,        \* the direct-mapped entry of a line in L1, of a page in L2
  SlotL2,
  Ways,          \* number of L3 entries
  Accesses,      \* the address ranges a guest access may cover
  PrivateRanges, \* the ranges add_private_region may reserve
  ProtRanges,    \* the ranges protect may be called on
  Entry,         \* entry point handed to prefetch_region
  Stack,         \* where the tester pushes the sentinel return address
  InitReadable,  \* pages of the target that are mapped at the start
  TargetLive,    \* may the target process change its memory?
  TargetMayFail, \* may ReadProcessMemory stop working for a page?
  MaxVersion     \* bound on the number of byte changes

Pages == {PageOf[a] : a \in Addr}
Regions == {RegionOf[a] : a \in Addr}
None == -1                               \* no copy of this byte here

ASSUME AddrAssumption ==
  /\ DOMAIN LineOf = Addr /\ DOMAIN PageOf = Addr /\ DOMAIN RegionOf = Addr
  /\ \A a, b \in Addr : LineOf[a] = LineOf[b] => PageOf[a] = PageOf[b]
  /\ \A a, b \in Addr : PageOf[a] = PageOf[b] => RegionOf[a] = RegionOf[b]
ASSUME AccessAssumption ==
  /\ Addr \subseteq Int
  /\ \A A \in Accesses : A \subseteq Addr /\ A # {}
  /\ Stack \subseteq Addr
  /\ Entry \in Addr
ASSUME BoundAssumption ==
  /\ Ways \in Nat \ {0}
  /\ MaxVersion \in Nat \ {0}
  /\ InitReadable \subseteq Pages
  /\ TargetLive \in BOOLEAN /\ TargetMayFail \in BOOLEAN
\* The tester keeps the emulated stack in a 2 MiB region of its own.
ASSUME StackApart == \A a \in Stack : RegionOf[a] # RegionOf[Entry]

VARIABLES
  target,     \* current version of every byte of the target process
  readable,   \* pages ReadProcessMemory can read
  priv,       \* private_ranges_
  perm,       \* write permission given by the latest protect() of each byte
  shadow,     \* pages_: the copy-on-write pages
  l1, l2, l3, \* the bytes each cache holds
  older,      \* for each L3 region, the ones last used before it
  phase,      \* of the tester: "setup", "armed" (prefetched), "run"
  todo,       \* addresses the read in progress has still to deliver
  out,        \* the caller's buffer of that read
  status,     \* "busy" during a read, then the Status returned ("Written"
              \* is the Status::Ok of a write)
  clock,      \* newest version so far
  floor       \* newest version of each byte the guest has read or written

chainVars == <<l1, l2, l3, older>>
shadowVars == <<priv, perm, shadow>>
targetVars == <<target, readable>>
readVars == <<todo, out, status>>
vars == <<target, readable, priv, perm, shadow, l1, l2, l3, older, phase,
          todo, out, status, clock, floor>>

Empty == [a \in Addr |-> None]

-----------------------------------------------------------------------------
(* ShadowPages *)

PageBytes(p) == {a \in Addr : PageOf[a] = p}

\* range_is_private_(page, 4096): one registered range covers the whole page.
PagePrivate(p) == \E r \in priv : PageBytes(p) \subseteq r

\* What ShadowPages::read delivers for one byte; None when the read fails.
\* The target is readable in whole pages, so a chunk fails as its page does.
ShadowByte(a) ==
  IF shadow[a] # None THEN shadow[a]
  ELSE IF PagePrivate(PageOf[a]) THEN 0
  ELSE IF PageOf[a] \in readable THEN target[a]
  ELSE None

View == [a \in Addr |-> ShadowByte(a)]

\* perm_of(a) & PROT_W.  No range: private bytes are writable, others are not.
MayWrite(a) ==
  \/ perm[a] = "W"
  \/ perm[a] = "default" /\ \E r \in priv : a \in r

\* prot_ranges_ is empty: nothing is enforced.
Permissive == \A a \in Addr : perm[a] = "default"

MutCowZero(a) == 0                  \* mutant: the page is not copied in

\* get_or_make_page_: the initial content of a page touched by a write, from
\* the target unless the page is private; zeros when the target cannot be read.
CowByte(a) ==
  IF PagePrivate(PageOf[a]) \/ PageOf[a] \notin readable THEN 0 ELSE target[a]

\* ShadowPages::write of version v to the bytes of A.
ShadowWritten(A, v) ==
  [a \in Addr |->
     IF a \in A THEN v
     ELSE IF shadow[a] = None /\ \E b \in A : PageOf[b] = PageOf[a]
          THEN CowByte(a)
          ELSE shadow[a]]

WriteAllowed(A) == Permissive \/ \A a \in A : MayWrite(a)

-----------------------------------------------------------------------------
(* The caches *)

LineBytes(a)   == {b \in Addr : LineOf[b] = LineOf[a]}
RegionBytes(r) == {b \in Addr : RegionOf[b] = r}
SameSlotL1(a)  == {b \in Addr : SlotL1[LineOf[b]] = SlotL1[LineOf[a]]}
SameSlotL2(a)  == {b \in Addr : SlotL2[PageOf[b]] = SlotL2[PageOf[a]]}

Holds(c, S) == \A b \in S : c[b] # None
Drop(c, S)  == [b \in Addr |-> IF b \in S THEN None ELSE c[b]]
\* Overwrite the entry that used to hold the bytes of old with those of S.
Fill(c, old, S, from) ==
  [b \in Addr |-> IF b \in S THEN from[b] ELSE IF b \in old THEN None ELSE c[b]]
MutPatchNone(c, A, v) == c          \* mutant: cached copies are not updated

\* The in-place update of every cached byte a write covers.
Patch(c, A, v) == [b \in Addr |-> IF b \in A /\ c[b] # None THEN v ELSE c[b]]

\* The valid L3 entries, and last_use as an order: older[r] are the regions
\* whose last_use is smaller than that of r.
HeldRegions == {RegionOf[a] : a \in {b \in Addr : l3[b] # None}}
Touched(r) == [x \in Regions |->
                IF x = r THEN HeldRegions \ {r} ELSE older[x] \ {r}]

\* The entry prefetch_region gives up for a new region: the least recently
\* used one, when none is free.
Victims == IF Cardinality(HeldRegions) = Ways
           THEN {r \in HeldRegions : older[r] = {}} ELSE {}
InRegions(R) == {b \in Addr : RegionOf[b] \in R}

\* prefetch_region(r) on a region L3 does not hold: the bulk read of all of it
\* fails when any of its pages does, and the victim is lost either way.
RegionReadable(r) == \A b \in RegionBytes(r) : View[b] # None
FetchRegion(r) ==
  IF RegionReadable(r)
  THEN /\ l3' = Fill(l3, InRegions(Victims), RegionBytes(r), View)
       /\ older' = [x \in Regions |-> IF x = r THEN HeldRegions \ Victims
                                                ELSE older[x] \ Victims]
  ELSE /\ l3' = Drop(l3, InRegions(Victims))
       /\ older' = [x \in Regions |-> older[x] \ Victims]

-----------------------------------------------------------------------------
(* Setting up an emulation, as the tester does: reserve regions, write      *)
(* initial data straight into the shadow pages, prefetch the entry region   *)
(* and push the sentinel return address, again past the caches.             *)

Init ==
  /\ target = [a \in Addr |-> 1]
  /\ readable = InitReadable
  /\ priv = {}
  /\ perm = [a \in Addr |-> "default"]
  /\ shadow = Empty
  /\ l1 = Empty /\ l2 = Empty /\ l3 = Empty
  /\ older = [r \in Regions |-> {}]
  /\ phase = "setup"
  /\ todo = {} /\ out = Empty /\ status = "Ok"
  /\ clock = 1
  /\ floor = [a \in Addr |-> 0]

AddPrivateRegion(r) ==
  /\ phase = "setup"
  /\ r \notin priv
  /\ priv' = priv \cup {r}
  /\ UNCHANGED <<targetVars, perm, shadow, chainVars, phase, readVars, clock, floor>>

\* One write through ShadowPages itself; the caches above do not see it.
DirectWrite(A) ==
  /\ clock < MaxVersion
  /\ clock' = clock + 1
  /\ IF WriteAllowed(A)
     THEN /\ shadow' = ShadowWritten(A, clock + 1)
          /\ floor' = [a \in Addr |-> IF a \in A THEN clock + 1 ELSE floor[a]]
     ELSE UNCHANGED <<shadow, floor>>
  /\ UNCHANGED <<targetVars, priv, perm, chainVars, readVars>>

SetupWrite(A) == phase = "setup" /\ phase' = "setup" /\ DirectWrite(A)

Prefetch ==
  /\ phase = "setup"
  /\ phase' = "armed"
  /\ FetchRegion(RegionOf[Entry])
  /\ UNCHANGED <<targetVars, shadowVars, l1, l2, readVars, clock, floor>>

PushSentinel == phase = "armed" /\ phase' = "run" /\ DirectWrite(Stack)

Protect(r, w) ==
  /\ todo = {}
  /\ perm' = [a \in Addr |-> IF a \in r THEN w ELSE perm[a]]
  /\ UNCHANGED <<targetVars, priv, shadow, chainVars, phase, readVars, clock, floor>>

-----------------------------------------------------------------------------
(* Reads: one step per line of the L1 loop. *)

BeginRead(A) ==
  /\ phase = "run" /\ todo = {}
  /\ todo' = A /\ out' = Empty /\ status' = "busy"
  /\ UNCHANGED <<targetVars, shadowVars, chainVars, phase, clock, floor>>

\* The read has got to address a.
At(a) == a \in todo /\ \A b \in todo : a <= b

\* The bytes of the current line go from L1 to the caller.
Deliver(a) ==
  LET got == todo \cap LineBytes(a) IN
  /\ todo' = todo \ got
  /\ out' = [b \in Addr |-> IF b \in got THEN l1'[b] ELSE out[b]]
  /\ floor' = [b \in Addr |-> IF b \in got THEN l1'[b] ELSE floor[b]]
  /\ status' = IF todo' = {} THEN "Ok" ELSE "busy"

MutFillL2(a, from) ==               \* mutant: only the line is copied
  l2' = Fill(l2, SameSlotL2(a), LineBytes(a), from)

FillL1(a, from) == l1' = Fill(l1, SameSlotL1(a), LineBytes(a), from)
FillL2(a, from) == l2' = Fill(l2, SameSlotL2(a), PageBytes(PageOf[a]), from)

MutHitL1(a) ==                      \* mutant: the tag is not compared
  \E b \in SameSlotL1(a) : l1[b] # None

HitL1(a) == Holds(l1, LineBytes(a))
HitL2(a) == Holds(l2, PageBytes(PageOf[a]))
HitL3(a) == Holds(l3, RegionBytes(RegionOf[a]))

ReadHitL1(a) ==
  /\ At(a) /\ HitL1(a)
  /\ UNCHANGED <<targetVars, shadowVars, chainVars, phase, clock>>
  /\ Deliver(a)

ReadHitL2(a) ==
  /\ At(a) /\ ~HitL1(a) /\ HitL2(a)
  /\ FillL1(a, l2)
  /\ UNCHANGED <<targetVars, shadowVars, l2, l3, older, phase, clock>>
  /\ Deliver(a)

ReadHitL3(a) ==
  /\ At(a) /\ ~HitL1(a) /\ ~HitL2(a) /\ HitL3(a)
  /\ FillL2(a, l3) /\ FillL1(a, l3)
  /\ older' = Touched(RegionOf[a])
  /\ UNCHANGED <<targetVars, shadowVars, l3, phase, clock>>
  /\ Deliver(a)

MissAll(a) == At(a) /\ ~HitL1(a) /\ ~HitL2(a) /\ ~HitL3(a)

\* The region is fetched in bulk or, failing that, the page on its own.
ReadFetch(a) ==
  /\ MissAll(a)
  /\ \A b \in PageBytes(PageOf[a]) : View[b] # None
  /\ FetchRegion(RegionOf[a])
  /\ FillL2(a, View) /\ FillL1(a, View)
  /\ UNCHANGED <<targetVars, shadowVars, phase, clock>>
  /\ Deliver(a)

\* Nothing below can read the page: every level has given up the entry it
\* was about to overwrite, and the lines already copied stay in the buffer.
ReadFail(a) ==
  /\ MissAll(a)
  /\ \E b \in PageBytes(PageOf[a]) : View[b] = None
  /\ FetchRegion(RegionOf[a])
  /\ l2' = Drop(l2, SameSlotL2(a))
  /\ l1' = Drop(l1, SameSlotL1(a))
  /\ todo' = {} /\ status' = "UnmappedRead"
  /\ UNCHANGED <<targetVars, shadowVars, phase, out, clock, floor>>

-----------------------------------------------------------------------------
(* Writes go down the chain first and patch the cached copies on the way up *)

Write(A) ==
  /\ phase = "run" /\ todo = {}
  /\ clock < MaxVersion
  /\ WriteAllowed(A)
  /\ clock' = clock + 1
  /\ shadow' = ShadowWritten(A, clock')
  /\ l3' = Patch(l3, A, clock')
  /\ l2' = Patch(l2, A, clock')
  /\ l1' = Patch(l1, A, clock')
  /\ floor' = [a \in Addr |-> IF a \in A THEN clock' ELSE floor[a]]
  /\ status' = "Written" /\ out' = Empty
  /\ UNCHANGED <<targetVars, priv, perm, older, phase, todo>>

WriteDenied(A) ==
  /\ phase = "run" /\ todo = {}
  /\ ~WriteAllowed(A)
  /\ status' = "ProtectionViolation" /\ out' = Empty
  /\ UNCHANGED <<targetVars, shadowVars, chainVars, phase, todo, clock, floor>>

-----------------------------------------------------------------------------
(* invalidate() of each cache drops the entries that overlap the range; it  *)
(* is not forwarded to the next layer.  flush() is invalidate of all.       *)

Touching(A, of) == {b \in Addr : \E a \in A : of[a] = of[b]}

InvalidateL1(A) ==
  /\ todo = {}
  /\ l1' = Drop(l1, Touching(A, LineOf))
  /\ UNCHANGED <<targetVars, shadowVars, l2, l3, older, phase, readVars, clock, floor>>

InvalidateL2(A) ==
  /\ todo = {}
  /\ l2' = Drop(l2, Touching(A, PageOf))
  /\ UNCHANGED <<targetVars, shadowVars, l1, l3, older, phase, readVars, clock, floor>>

InvalidateL3(A) ==
  /\ todo = {}
  /\ l3' = Drop(l3, Touching(A, RegionOf))
  /\ LET gone == {RegionOf[a] : a \in A}
     IN  older' = [r \in Regions |-> IF r \in gone THEN {} ELSE older[r] \ gone]
  /\ UNCHANGED <<targetVars, shadowVars, l1, l2, phase, readVars, clock, floor>>

-----------------------------------------------------------------------------
(* The target process runs concurrently and is never stopped. *)

TargetChange(a) ==
  /\ TargetLive /\ clock < MaxVersion
  /\ clock' = clock + 1
  /\ target' = [target EXCEPT ![a] = clock + 1]
  /\ UNCHANGED <<readable, shadowVars, chainVars, phase, readVars, floor>>

TargetMap(p) ==
  /\ TargetLive /\ p \notin readable
  /\ readable' = readable \cup {p}
  /\ UNCHANGED <<target, shadowVars, chainVars, phase, readVars, clock, floor>>

TargetUnmap(p) ==
  /\ TargetMayFail /\ p \in readable
  /\ readable' = readable \ {p}
  /\ UNCHANGED <<target, shadowVars, chainVars, phase, readVars, clock, floor>>

-----------------------------------------------------------------------------
Setup ==
  \/ \E r \in PrivateRanges : AddPrivateRegion(r)
  \/ \E A \in Accesses : SetupWrite(A)
  \/ Prefetch
  \/ PushSentinel
  \/ \E r \in ProtRanges, w \in {"W", "RO"} : Protect(r, w)

Read ==
  \/ \E A \in Accesses : BeginRead(A)
  \/ \E a \in Addr : ReadHitL1(a) \/ ReadHitL2(a) \/ ReadHitL3(a)
                    \/ ReadFetch(a) \/ ReadFail(a)

GuestWrite == \E A \in Accesses : Write(A) \/ WriteDenied(A)

Invalidate == \E A \in Accesses \cup {Addr} :
                InvalidateL1(A) \/ InvalidateL2(A) \/ InvalidateL3(A)

Target ==
  \/ \E a \in Addr : TargetChange(a)
  \/ \E p \in Pages : TargetMap(p) \/ TargetUnmap(p)

Next == Setup \/ Read \/ GuestWrite \/ Invalidate \/ Target

Spec == Init /\ [][Next]_vars

-----------------------------------------------------------------------------
(* Correctness *)

Version == Nat
Copy == Version \cup {None}

TypeOK ==
  /\ target \in [Addr -> Version]
  /\ readable \subseteq Pages
  /\ priv \subseteq PrivateRanges
  /\ perm \in [Addr -> {"default", "W", "RO"}]
  /\ shadow \in [Addr -> Copy]
  /\ l1 \in [Addr -> Copy] /\ l2 \in [Addr -> Copy] /\ l3 \in [Addr -> Copy]
  /\ older \in [Regions -> SUBSET Regions]
  /\ phase \in {"setup", "armed", "run"}
  /\ todo \subseteq Addr
  /\ out \in [Addr -> Copy]
  /\ status \in {"Ok", "busy", "UnmappedRead", "Written", "ProtectionViolation"}
  /\ clock \in Version
  /\ floor \in [Addr -> Version]

\* Entries are filled and dropped as a whole, and a shadow page is instantiated
\* as a whole: no sequence of hits, failed fetches and invalidations leaves a
\* half-valid entry behind.
EntriesWhole ==
  /\ \A a, b \in Addr : LineOf[a] = LineOf[b] => (l1[a] = None <=> l1[b] = None)
  /\ \A a, b \in Addr : PageOf[a] = PageOf[b] => (l2[a] = None <=> l2[b] = None)
  /\ \A a, b \in Addr : RegionOf[a] = RegionOf[b] => (l3[a] = None <=> l3[b] = None)
  /\ \A a, b \in Addr : PageOf[a] = PageOf[b] => (shadow[a] = None <=> shadow[b] = None)

\* The age order of the copies of a byte: what a layer holds is never newer
\* than what a layer below it would deliver.  It is what makes it safe to
\* drop any entry at any time.
Older(c, d) == \A a \in Addr : c[a] # None /\ d[a] # None => c[a] <= d[a]
AgeOrder ==
  /\ Older(l1, l2) /\ Older(l1, l3) /\ Older(l2, l3)
  /\ Older(l1, View) /\ Older(l2, View) /\ Older(l3, View)

\* No copy is older than what the guest has already read or written.
NotBehindGuest ==
  /\ Older(floor, l1) /\ Older(floor, l2) /\ Older(floor, l3) /\ Older(floor, View)

\* The guest never goes back: a read returns, for each byte, a version at
\* least as new as every earlier read or write of that byte, through every
\* eviction, copy-on-write, invalidation and change of the target.
GuestNeverGoesBack == [][\A a \in Addr : floor'[a] >= floor[a]]_vars

\* A write changes no byte outside its range, although it copies whole pages
\* into the shadow (get_or_make_page_).
WriteIsolated ==
  [][shadow' # shadow =>
       \A a \in Addr : View'[a] # View[a] => floor'[a] = clock' \/ View[a] = None]_vars

\* With a target that stands still, every cached byte is the byte below it.
Coherent == \A a \in Addr : \A c \in {l1, l2, l3} : c[a] # None => c[a] = View[a]

\* A byte the guest has written (any version but 0 and 1, when the target
\* stands still) is the same in every layer, whatever becomes unreadable.
OwnBytesCoherent ==
  \A a \in Addr : View[a] > 1 =>
    \A c \in {l1, l2, l3} : c[a] \in {None, View[a]}

\* The chain over a target that stands still is a flat memory (FlatMemory):
\* caching, copy-on-write and line-by-line reads are invisible to the guest.
Wanted == IF todo = {} THEN {} ELSE todo \cup {a \in Addr : out[a] # None}
Flat == INSTANCE FlatMemory WITH
  mem     <- View,
  running <- phase = "run",
  want    <- Wanted,
  reply   <- IF status = "Ok" THEN out ELSE Empty
FlatMemorySpec == Flat!Spec

=============================================================================
