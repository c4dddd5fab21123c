--------------------------- MODULE MemChainProofs ---------------------------
(***************************************************************************)
(* Proofs about MemChain, for any geometry of lines, pages, regions, slots *)
(* and ways, in three parts.  Inv is the inductive strengthening of         *)
(* AgeOrder and NotBehindGuest.  Entries stay whole and writes isolated    *)
(* whatever the target does; over a target that stands still the caches    *)
(* are coherent and the chain implements FlatMemory; over one whose pages  *)
(* only stop being readable the bytes the guest has written are coherent.  *)
(***************************************************************************)
EXTENDS MemChain, TLAPS

USE DEF None, Version, Copy

\* A byte with a copy in a cache can also be read below it.
CopiesMapped ==
  \A a \in Addr : l1[a] # None \/ l2[a] # None \/ l3[a] # None => View[a] # None

\* So can a byte the guest has read or written.
FloorMapped == \A a \in Addr : floor[a] # 0 => View[a] # None

\* While the emulation is set up the caches hold nothing, but for the region
\* of the entry point once it is prefetched.
SetupClean ==
  /\ phase # "run" => l1 = Empty /\ l2 = Empty /\ todo = {}
  /\ phase = "setup" => l3 = Empty
  /\ phase = "setup" => \A a \in Addr : shadow[a] = None => floor[a] = 0
  /\ phase = "armed" => \A a \in Addr : l3[a] # None => RegionOf[a] = RegionOf[Entry]

\* Nothing is newer than the clock.
Bounded ==
  \A a \in Addr : target[a] <= clock /\ shadow[a] <= clock /\ floor[a] <= clock

Inv ==
  /\ TypeOK /\ EntriesWhole /\ SetupClean /\ Bounded
  /\ CopiesMapped /\ FloorMapped
  /\ AgeOrder /\ NotBehindGuest

-----------------------------------------------------------------------------
(* Lemmas on the operators. *)

\* What ShadowPages::read shows is a version or nothing.
LEMMA ViewType ==
  ASSUME TypeOK
  PROVE  View \in [Addr -> Copy]
BY DEF TypeOK, View, ShadowByte

\* Nothing below the caches is newer than the newest version.
LEMMA ViewBounded ==
  ASSUME TypeOK, Bounded
  PROVE  \A a \in Addr : View[a] <= clock
<1>1. \A a \in Addr : View[a] = ShadowByte(a)
  BY DEF View
<1> QED BY <1>1 DEF ShadowByte, Bounded, TypeOK

\* The tester starts from a well typed state.
LEMMA InitType ==
  ASSUME Init
  PROVE  TypeOK
BY BoundAssumption DEF Init, TypeOK, Empty

\* ShadowPages::write shows the new version in its range and, elsewhere, every
\* byte that could be read as it was.
LEMMA WriteView ==
  ASSUME TypeOK, EntriesWhole,
         NEW A \in SUBSET Addr, NEW v \in Version,
         shadow' = ShadowWritten(A, v),
         UNCHANGED <<target, readable, priv>>
  PROVE  /\ \A a \in A : View'[a] = v
         /\ \A a \in Addr \ A : View[a] # None => View'[a] = View[a]
         /\ \A a \in Addr \ A : View[a] = None => View'[a] \in {None, 0}
         /\ shadow' \in [Addr -> Copy]
<1>1. \A a \in Addr : shadow'[a] = IF a \in A THEN v
        ELSE IF shadow[a] = None /\ \E b \in A : PageOf[b] = PageOf[a]
             THEN CowByte(a) ELSE shadow[a]
  BY DEF ShadowWritten
<1>2. \A a \in Addr : CowByte(a) \in Version
  BY DEF CowByte, TypeOK
<1>3. \A p : PagePrivate(p)' = PagePrivate(p)
  BY DEF PagePrivate
<1>4. \A a \in Addr : View[a] = ShadowByte(a) /\ View'[a] = ShadowByte(a)'
  BY DEF View
<1>5. \A a \in A : View'[a] = v
  BY <1>1, <1>4 DEF ShadowByte
<1>6. \A a \in Addr \ A : View[a] # None => View'[a] = View[a]
  BY <1>1, <1>2, <1>3, <1>4 DEF ShadowByte, CowByte
<1>7. \A a \in Addr \ A : View[a] = None => View'[a] \in {None, 0}
  BY <1>1, <1>2, <1>3, <1>4 DEF ShadowByte, CowByte
<1>8. shadow' \in [Addr -> Copy]
  BY <1>2 DEF ShadowWritten, TypeOK
<1> QED BY <1>5, <1>6, <1>7, <1>8

\* A page is a set of whole lines, a region a set of whole pages.
LEMMA Nested ==
  ASSUME NEW a \in Addr
  PROVE  /\ a \in LineBytes(a)
         /\ LineBytes(a) \subseteq PageBytes(PageOf[a])
         /\ PageBytes(PageOf[a]) \subseteq RegionBytes(RegionOf[a])
         /\ PageBytes(PageOf[a]) \subseteq Addr
BY AddrAssumption DEF LineBytes, PageBytes, RegionBytes

\* The step that hands the current line over keeps the types, provided that
\* L1 holds the line by then.
LEMMA DeliverType ==
  ASSUME TypeOK, NEW a \in Addr, Deliver(a),
         l1' \in [Addr -> Copy], Holds(l1', LineBytes(a))
  PROVE  /\ todo' \subseteq Addr
         /\ out' \in [Addr -> Copy] /\ floor' \in [Addr -> Version]
         /\ status' \in {"Ok", "busy"}
<1> DEFINE got == todo \cap LineBytes(a)
<1>1. \A b \in got : b \in Addr /\ l1'[b] \in Version
  BY DEF Holds, TypeOK
<1>2. todo' \subseteq Addr /\ status' \in {"Ok", "busy"}
  BY DEF Deliver, TypeOK
<1>3. \A b \in Addr : (IF b \in got THEN l1'[b] ELSE out[b]) \in Copy
  BY DEF TypeOK
<1>4. \A b \in Addr : (IF b \in got THEN l1'[b] ELSE floor[b]) \in Version
  BY <1>1 DEF TypeOK
<1> QED BY <1>2, <1>3, <1>4 DEF Deliver

\* What the cache operations return, byte by byte.
LEMMA FillType ==
  ASSUME NEW c \in [Addr -> Copy], NEW from \in [Addr -> Copy], NEW old, NEW S
  PROVE  /\ Fill(c, old, S, from) \in [Addr -> Copy]
         /\ Drop(c, S) \in [Addr -> Copy]
BY DEF Fill, Drop

\* prefetch_region fills or empties L3 with copies.
LEMMA FetchType ==
  ASSUME TypeOK, NEW r \in Regions, FetchRegion(r)
  PROVE  l3' \in [Addr -> Copy] /\ older' \in [Regions -> SUBSET Regions]
<1>1. l3' \in [Addr -> Copy]
  BY ViewType DEF FetchRegion, TypeOK, Fill, Drop
<1>2. HeldRegions \subseteq Regions
  BY DEF HeldRegions, Regions
<1>3. older' \in [Regions -> SUBSET Regions]
  BY <1>2 DEF FetchRegion, TypeOK
<1> QED BY <1>1, <1>3

-----------------------------------------------------------------------------
(* Type correctness. *)

\* Where a read step takes the line from, L1 holds the whole line after it.
LEMMA LineInL1 ==
  ASSUME TypeOK, NEW a \in Addr,
         ReadHitL1(a) \/ ReadHitL2(a) \/ ReadHitL3(a) \/ ReadFetch(a)
  PROVE  /\ l1' \in [Addr -> Copy] /\ l2' \in [Addr -> Copy]
         /\ Holds(l1', LineBytes(a))
<1>1. CASE ReadHitL1(a)
  BY <1>1 DEF ReadHitL1, HitL1, TypeOK, chainVars
<1>2. CASE ReadHitL2(a)
  BY <1>2, Nested DEF ReadHitL2, FillL1, Fill, HitL2, Holds, TypeOK, LineBytes
<1>3. CASE ReadHitL3(a)
  BY <1>3, Nested DEF ReadHitL3, FillL1, FillL2, Fill, HitL3, Holds, TypeOK, LineBytes
<1>4. CASE ReadFetch(a)
  BY <1>4, Nested, ViewType DEF ReadFetch, FillL1, FillL2, Fill, Holds, TypeOK, LineBytes
<1> QED BY <1>1, <1>2, <1>3, <1>4

\* A step of a read, whatever level it hits, keeps the types.
LEMMA ReadType ==
  ASSUME TypeOK, NEW a \in Addr,
         \/ ReadHitL1(a) \/ ReadHitL2(a) \/ ReadHitL3(a)
         \/ ReadFetch(a) \/ ReadFail(a)
  PROVE  TypeOK'
<1>0. RegionOf[a] \in Regions
  BY DEF Regions
<1>1. CASE ReadHitL1(a) \/ ReadHitL2(a) \/ ReadHitL3(a) \/ ReadFetch(a)
  <2>1. Deliver(a)
    BY <1>1 DEF ReadHitL1, ReadHitL2, ReadHitL3, ReadFetch
  <2>2. UNCHANGED <<target, readable, priv, perm, shadow, phase, clock>>
    BY <1>1 DEF ReadHitL1, ReadHitL2, ReadHitL3, ReadFetch, targetVars, shadowVars
  <2>3. HeldRegions \subseteq Regions
    BY DEF HeldRegions, Regions
  <2>4. l3' \in [Addr -> Copy] /\ older' \in [Regions -> SUBSET Regions]
    <3>1. CASE ReadHitL1(a) \/ ReadHitL2(a)
      BY <3>1 DEF ReadHitL1, ReadHitL2, chainVars, TypeOK
    <3>2. CASE ReadHitL3(a)
      BY <3>2, <2>3 DEF ReadHitL3, Touched, TypeOK
    <3>3. CASE ReadFetch(a)
      BY <3>3, <1>0, FetchType DEF ReadFetch
    <3> QED BY <1>1, <3>1, <3>2, <3>3
  <2> QED BY <1>1, <2>1, <2>2, <2>4, LineInL1, DeliverType DEF TypeOK
<1>2. CASE ReadFail(a)
  BY <1>2, <1>0, FetchType, FillType DEF ReadFail, TypeOK, targetVars, shadowVars
<1> QED BY <1>1, <1>2

\* A write straight into the shadow pages keeps the types.
LEMMA DirectWriteType ==
  ASSUME TypeOK, NEW A \in SUBSET Addr, DirectWrite(A)
  PROVE  /\ shadow' \in [Addr -> Copy] /\ floor' \in [Addr -> Version]
         /\ clock' \in Version
         /\ UNCHANGED <<target, readable, priv, perm, l1, l2, l3, older,
                       todo, out, status>>
<1>1. \A a \in Addr : CowByte(a) \in Version
  BY DEF CowByte, TypeOK
<1> QED
  BY <1>1 DEF DirectWrite, ShadowWritten, TypeOK, targetVars, chainVars, readVars

\* A guest write through the chain keeps the types.
LEMMA WriteType ==
  ASSUME TypeOK, NEW A \in SUBSET Addr, Write(A)
  PROVE  TypeOK'
<1>1. \A a \in Addr : CowByte(a) \in Version
  BY DEF CowByte, TypeOK
<1>2. clock' \in Version
  BY DEF Write, TypeOK
<1>3. shadow' \in [Addr -> Copy]
  BY <1>1, <1>2 DEF Write, ShadowWritten, TypeOK
<1>4. l1' \in [Addr -> Copy] /\ l2' \in [Addr -> Copy] /\ l3' \in [Addr -> Copy]
  BY <1>2 DEF Write, Patch, TypeOK
<1>5. floor' \in [Addr -> Version] /\ out' \in [Addr -> Copy]
  BY <1>2 DEF Write, TypeOK, Empty
<1> QED
  BY <1>2, <1>3, <1>4, <1>5 DEF Write, TypeOK, targetVars

\* Every step keeps the types.
LEMMA TypeStep ==
  ASSUME TypeOK, [Next]_vars
  PROVE  TypeOK'
<1>0. \A A \in Accesses : A \in SUBSET Addr
  BY AccessAssumption
<1>1. ASSUME NEW r \in PrivateRanges, AddPrivateRegion(r)
      PROVE  TypeOK'
  BY <1>1 DEF AddPrivateRegion, TypeOK, targetVars, chainVars, readVars
<1>2. ASSUME NEW A \in Accesses, SetupWrite(A)
      PROVE  TypeOK'
  BY <1>0, <1>2, DirectWriteType DEF SetupWrite, TypeOK
<1>3. CASE Prefetch
  <2>1. RegionOf[Entry] \in Regions
    BY AccessAssumption DEF Regions
  <2> QED BY <1>3, <2>1, FetchType DEF Prefetch, TypeOK, targetVars, shadowVars, readVars
<1>4. CASE PushSentinel
  BY <1>4, AccessAssumption, DirectWriteType DEF PushSentinel, TypeOK
<1>5. ASSUME NEW r \in ProtRanges, NEW w \in {"W", "RO"}, Protect(r, w)
      PROVE  TypeOK'
  BY <1>5 DEF Protect, TypeOK, targetVars, chainVars, readVars
<1>6. ASSUME NEW A \in Accesses, BeginRead(A)
      PROVE  TypeOK'
  BY <1>0, <1>6 DEF BeginRead, Empty, TypeOK, targetVars, shadowVars, chainVars
<1>7. ASSUME NEW a \in Addr,
             \/ ReadHitL1(a) \/ ReadHitL2(a) \/ ReadHitL3(a)
             \/ ReadFetch(a) \/ ReadFail(a)
      PROVE  TypeOK'
  BY <1>7, ReadType
<1>8. ASSUME NEW A \in Accesses, Write(A)
      PROVE  TypeOK'
  BY <1>0, <1>8, WriteType
<1>9. ASSUME NEW A \in Accesses, WriteDenied(A)
      PROVE  TypeOK'
  BY <1>9 DEF WriteDenied, Empty, TypeOK, targetVars, shadowVars, chainVars
<1>10. ASSUME NEW A, InvalidateL1(A) \/ InvalidateL2(A) \/ InvalidateL3(A)
       PROVE  TypeOK'
  BY <1>10 DEF InvalidateL1, InvalidateL2, InvalidateL3, Drop, TypeOK,
               targetVars, shadowVars, readVars
<1>11. ASSUME NEW a \in Addr, TargetChange(a)
       PROVE  TypeOK'
  BY <1>11 DEF TargetChange, TypeOK, shadowVars, chainVars, readVars
<1>12. ASSUME NEW p \in Pages, TargetMap(p) \/ TargetUnmap(p)
       PROVE  TypeOK'
  BY <1>12 DEF TargetMap, TargetUnmap, TypeOK, shadowVars, chainVars, readVars
<1>13. CASE UNCHANGED vars
  BY <1>13 DEF vars, TypeOK
<1> QED
  BY <1>1, <1>2, <1>3, <1>4, <1>5, <1>6, <1>7, <1>8, <1>9, <1>10, <1>11, <1>12, <1>13
  DEF Next, Setup, Read, GuestWrite, Invalidate, Target

\* Every state of the memory chain is well typed (all of MemChain's actions).
THEOREM TypeCorrect == Spec => []TypeOK
<1>1. Init => TypeOK
  BY InitType
<1>2. TypeOK /\ [Next]_vars => TypeOK'
  BY TypeStep
<1> QED BY <1>1, <1>2, PTL DEF Spec

-----------------------------------------------------------------------------
(* Reads preserve the invariant. *)

\* Reads and invalidations leave the memory below the caches alone.
LEMMA ViewUnchanged ==
  ASSUME UNCHANGED <<target, readable, priv, shadow>>
  PROVE  View' = View
BY DEF View, ShadowByte, PagePrivate

\* The effect of prefetch_region, byte by byte: a region is filled or dropped
\* as a whole.
LEMMA FetchEffect ==
  ASSUME TypeOK, EntriesWhole, NEW r \in Regions, FetchRegion(r)
  PROVE  /\ \A b \in Addr : \/ l3'[b] \in {None, l3[b]}
                            \/ RegionOf[b] = r /\ l3'[b] = View[b] /\ View[b] # None
         /\ \A b, c \in Addr : RegionOf[b] = RegionOf[c]
                                 => (l3'[b] = None <=> l3'[c] = None)
         /\ \A b \in Addr : RegionOf[b] = r /\ RegionReadable(r) => l3'[b] = View[b]
<1>1. CASE RegionReadable(r)
  <2>1. \A b \in Addr : l3'[b] = IF RegionOf[b] = r THEN View[b]
                                 ELSE IF RegionOf[b] \in Victims THEN None ELSE l3[b]
    BY <1>1 DEF FetchRegion, Fill, InRegions, RegionBytes
  <2>2. \A b \in Addr : RegionOf[b] = r => View[b] # None
    BY <1>1 DEF RegionReadable, RegionBytes
  <2> QED BY <2>1, <2>2 DEF EntriesWhole
<1>2. CASE ~RegionReadable(r)
  <2>1. \A b \in Addr : l3'[b] = IF RegionOf[b] \in Victims THEN None ELSE l3[b]
    BY <1>2 DEF FetchRegion, Drop, InRegions
  <2> QED BY <1>2, <2>1 DEF EntriesWhole
<1> QED BY <1>1, <1>2

\* What Fill and Drop do to a byte of L1 and of L2.
LEMMA FillEffect ==
  ASSUME NEW c, NEW old, NEW S, NEW from, NEW b \in Addr
  PROVE  /\ b \in S => Fill(c, old, S, from)[b] = from[b]
         /\ b \notin S /\ b \in old => Fill(c, old, S, from)[b] = None
         /\ b \notin S /\ b \notin old => Fill(c, old, S, from)[b] = c[b]
         /\ b \in S => Drop(c, S)[b] = None
         /\ b \notin S => Drop(c, S)[b] = c[b]
BY DEF Fill, Drop

\* The three levels after a read step, byte by byte: a level keeps its copy,
\* loses it, or takes the copy of the level it was filled from, in which case
\* the levels between hold the same copy.
ReadEffect(a) ==
  \A b \in Addr :
    /\ \/ l1'[b] \in {None, l1[b]}
       \/ b \in LineBytes(a) /\ l1'[b] = l2'[b]
    /\ \/ l2'[b] \in {None, l2[b]}
       \/ l2'[b] = l3'[b]
       \/ l2'[b] = View[b] /\ l3'[b] = None
    /\ \/ l3'[b] \in {None, l3[b]}
       \/ l3'[b] = View[b]

\* A step of a read fills entries from the layer below or drops them, in
\* every case of the three read() functions.
LEMMA ReadEffectHolds ==
  ASSUME TypeOK, EntriesWhole, NEW a \in Addr,
         \/ ReadHitL1(a) \/ ReadHitL2(a) \/ ReadHitL3(a)
         \/ ReadFetch(a) \/ ReadFail(a)
  PROVE  ReadEffect(a)
<1>0. RegionOf[a] \in Regions
  BY DEF Regions
<1>1. CASE ReadHitL1(a)
  BY <1>1 DEF ReadHitL1, chainVars, ReadEffect
<1>2. CASE ReadHitL2(a)
  BY <1>2, FillEffect DEF ReadHitL2, FillL1, ReadEffect
<1>3. CASE ReadHitL3(a)
  BY <1>3, Nested, FillEffect DEF ReadHitL3, FillL1, FillL2, ReadEffect
<1>4. CASE ReadFetch(a)
  <2>1. l1' = Fill(l1, SameSlotL1(a), LineBytes(a), View)
    BY <1>4 DEF ReadFetch, FillL1
  <2>2. l2' = Fill(l2, SameSlotL2(a), PageBytes(PageOf[a]), View)
    BY <1>4 DEF ReadFetch, FillL2
  <2>3. \A b \in Addr : RegionOf[b] = RegionOf[a] => l3[b] = None
    BY <1>4 DEF ReadFetch, MissAll, HitL3, Holds, RegionBytes, EntriesWhole
  <2>4. \A b \in Addr : \/ l3'[b] \in {None, l3[b]}
                        \/ RegionOf[b] = RegionOf[a] /\ l3'[b] = View[b]
    <3>1. FetchRegion(RegionOf[a])
      BY <1>4 DEF ReadFetch
    <3> QED BY <1>0, <3>1, FetchEffect
  <2>5. \A b \in PageBytes(PageOf[a]) : RegionOf[b] = RegionOf[a]
    BY Nested DEF RegionBytes
  <2> QED BY <2>1, <2>2, <2>3, <2>4, <2>5, Nested, FillEffect DEF ReadEffect
<1>5. CASE ReadFail(a)
  <2>1. FetchRegion(RegionOf[a])
    BY <1>5 DEF ReadFail
  <2>2. \A b \in Addr : l3'[b] \in {None, l3[b]} \/ l3'[b] = View[b]
    BY <1>0, <2>1, FetchEffect
  <2>3. l2' = Drop(l2, SameSlotL2(a)) /\ l1' = Drop(l1, SameSlotL1(a))
    BY <1>5 DEF ReadFail
  <2> QED BY <2>2, <2>3 DEF ReadEffect, Drop
<1> QED BY <1>1, <1>2, <1>3, <1>4, <1>5

\* Reads fill and drop whole entries.
LEMMA ReadWhole ==
  ASSUME TypeOK, EntriesWhole, NEW a \in Addr,
         \/ ReadHitL1(a) \/ ReadHitL2(a) \/ ReadHitL3(a)
         \/ ReadFetch(a) \/ ReadFail(a)
  PROVE  EntriesWhole'
<1>0. RegionOf[a] \in Regions
  BY DEF Regions
<1>a. shadow' = shadow
  BY DEF ReadHitL1, ReadHitL2, ReadHitL3, ReadFetch, ReadFail, shadowVars
<1>1. \A b, c \in Addr : LineOf[b] = LineOf[c] => (l1'[b] = None <=> l1'[c] = None)
  <2>1. CASE ReadHitL1(a)
    BY <2>1 DEF ReadHitL1, chainVars, EntriesWhole
  <2>2. CASE ReadHitL2(a) \/ ReadHitL3(a) \/ ReadFetch(a)
    <3>1. Holds(l1', LineBytes(a))
      BY <2>2, LineInL1
    <3>2. \A b \in Addr : LineOf[b] # LineOf[a] =>
            l1'[b] = IF SlotL1[LineOf[b]] = SlotL1[LineOf[a]] THEN None ELSE l1[b]
      BY <2>2 DEF ReadHitL2, ReadHitL3, ReadFetch, FillL1, Fill, LineBytes, SameSlotL1
    <3> QED BY <3>1, <3>2 DEF EntriesWhole, Holds, LineBytes
  <2>3. CASE ReadFail(a)
    BY <2>3 DEF ReadFail, Drop, SameSlotL1, EntriesWhole
  <2> QED BY <2>1, <2>2, <2>3
<1>2. \A b, c \in Addr : PageOf[b] = PageOf[c] => (l2'[b] = None <=> l2'[c] = None)
  <2>1. CASE ReadHitL1(a) \/ ReadHitL2(a)
    BY <2>1 DEF ReadHitL1, ReadHitL2, chainVars, EntriesWhole
  <2>2. CASE ReadHitL3(a) \/ ReadFetch(a)
    <3>1. \A b \in PageBytes(PageOf[a]) : l2'[b] # None
      BY <2>2, Nested DEF ReadHitL3, ReadFetch, FillL2, Fill, HitL3, Holds, PageBytes
    <3>2. \A b \in Addr : PageOf[b] # PageOf[a] =>
            l2'[b] = IF SlotL2[PageOf[b]] = SlotL2[PageOf[a]] THEN None ELSE l2[b]
      BY <2>2 DEF ReadHitL3, ReadFetch, FillL2, Fill, PageBytes, SameSlotL2
    <3> QED BY <3>1, <3>2 DEF EntriesWhole, PageBytes
  <2>3. CASE ReadFail(a)
    BY <2>3 DEF ReadFail, Drop, SameSlotL2, EntriesWhole
  <2> QED BY <2>1, <2>2, <2>3
<1>3. \A b, c \in Addr : RegionOf[b] = RegionOf[c] => (l3'[b] = None <=> l3'[c] = None)
  <2>1. CASE ReadHitL1(a) \/ ReadHitL2(a) \/ ReadHitL3(a)
    BY <2>1 DEF ReadHitL1, ReadHitL2, ReadHitL3, chainVars, EntriesWhole
  <2>2. CASE ReadFetch(a) \/ ReadFail(a)
    <3>1. FetchRegion(RegionOf[a])
      BY <2>2 DEF ReadFetch, ReadFail
    <3> QED BY <1>0, <3>1, FetchEffect
  <2> QED BY <2>1, <2>2
<1> QED BY <1>a, <1>1, <1>2, <1>3 DEF EntriesWhole

\* Reads preserve the invariant.
LEMMA ReadInv ==
  ASSUME Inv, NEW a \in Addr,
         \/ ReadHitL1(a) \/ ReadHitL2(a) \/ ReadHitL3(a)
         \/ ReadFetch(a) \/ ReadFail(a)
  PROVE  Inv' /\ \A b \in Addr : floor'[b] >= floor[b]
<1>1. TypeOK' /\ EntriesWhole'
  BY ReadType, ReadWhole DEF Inv
<1>2. /\ View' = View
      /\ UNCHANGED <<target, shadow, phase, clock>>
  BY ViewUnchanged DEF ReadHitL1, ReadHitL2, ReadHitL3, ReadFetch, ReadFail,
     targetVars, shadowVars
<1>3. phase = "run"
  BY DEF ReadHitL1, ReadHitL2, ReadHitL3, ReadFetch, ReadFail, MissAll, At, Inv, SetupClean
<1>4. ReadEffect(a)
  BY ReadEffectHolds DEF Inv
<1>5. View \in [Addr -> Copy]
  BY ViewType DEF Inv
<1>6. CopiesMapped'
  BY <1>2, <1>4 DEF Inv, CopiesMapped, ReadEffect
<1>7. AgeOrder'
  <2> SUFFICES ASSUME NEW b \in Addr
      PROVE  /\ l1'[b] # None /\ l2'[b] # None => l1'[b] <= l2'[b]
             /\ l1'[b] # None /\ l3'[b] # None => l1'[b] <= l3'[b]
             /\ l2'[b] # None /\ l3'[b] # None => l2'[b] <= l3'[b]
             /\ l1'[b] # None /\ View[b] # None => l1'[b] <= View[b]
             /\ l2'[b] # None /\ View[b] # None => l2'[b] <= View[b]
             /\ l3'[b] # None /\ View[b] # None => l3'[b] <= View[b]
    BY <1>2 DEF AgeOrder, Older
  <2>1. /\ l1[b] \in Copy /\ l2[b] \in Copy /\ l3[b] \in Copy /\ View[b] \in Copy
        /\ l1'[b] \in Copy /\ l2'[b] \in Copy /\ l3'[b] \in Copy
    BY <1>1, <1>5 DEF Inv, TypeOK
  <2>2. /\ l1[b] # None /\ l2[b] # None => l1[b] <= l2[b]
        /\ l1[b] # None /\ l3[b] # None => l1[b] <= l3[b]
        /\ l2[b] # None /\ l3[b] # None => l2[b] <= l3[b]
        /\ l1[b] # None => l1[b] <= View[b] /\ View[b] # None
        /\ l2[b] # None => l2[b] <= View[b] /\ View[b] # None
        /\ l3[b] # None => l3[b] <= View[b] /\ View[b] # None
    BY DEF Inv, AgeOrder, Older, CopiesMapped
  <2>3. /\ l1'[b] \in {None, l1[b]} \/ l1'[b] = l2'[b]
        /\ \/ l2'[b] \in {None, l2[b]}
           \/ l2'[b] = l3'[b]
           \/ l2'[b] = View[b] /\ l3'[b] = None
        /\ l3'[b] \in {None, l3[b]} \/ l3'[b] = View[b]
    BY <1>4 DEF ReadEffect
  <2> QED BY <2>1, <2>2, <2>3
<1>8. \A b \in Addr : floor'[b] = floor[b] \/ (b \in LineBytes(a) /\ floor'[b] = l1'[b])
  BY DEF ReadHitL1, ReadHitL2, ReadHitL3, ReadFetch, ReadFail, Deliver, Inv, TypeOK
<1>9. Older(floor, l1') /\ Older(floor, l2') /\ Older(floor, l3')
  BY <1>1, <1>4, <1>5 DEF Inv, NotBehindGuest, Older, ReadEffect, TypeOK
<1>10. \A b \in Addr : floor'[b] >= floor[b]
  BY <1>1, <1>8, <1>9 DEF Inv, Older, TypeOK
<1>11. NotBehindGuest'
  BY <1>1, <1>2, <1>7, <1>8, <1>9 DEF Inv, NotBehindGuest, AgeOrder, Older, TypeOK
<1>12. FloorMapped'
  BY <1>1, <1>2, <1>6, <1>8 DEF Inv, FloorMapped, CopiesMapped, TypeOK
<1>13. SetupClean'
  BY <1>2, <1>3 DEF SetupClean
<1>14. Bounded'
  <2>1. \A b \in Addr : View[b] <= clock
    BY ViewBounded DEF Inv
  <2>2. \A b \in Addr : floor'[b] # floor[b] => floor'[b] <= View[b]
    BY <1>1, <1>2, <1>6, <1>7, <1>8 DEF CopiesMapped, AgeOrder, Older, TypeOK
  <2> QED BY <1>1, <1>2, <1>5, <2>1, <2>2 DEF Inv, Bounded, TypeOK
<1> QED BY <1>1, <1>6, <1>7, <1>10, <1>11, <1>12, <1>13, <1>14 DEF Inv

-----------------------------------------------------------------------------
(* The other actions preserve the invariant. *)

\* A step that leaves the memory below and the guest's floor alone, and at
\* most drops copies.
LEMMA DropInv ==
  ASSUME Inv, TypeOK', EntriesWhole',
         UNCHANGED <<target, readable, priv, shadow, floor, clock>>,
         \A b \in Addr : /\ l1'[b] \in {None, l1[b]}
                         /\ l2'[b] \in {None, l2[b]}
                         /\ l3'[b] \in {None, l3[b]},
         SetupClean'
  PROVE  Inv'
<1>1. View' = View
  BY ViewUnchanged
<1>2. CopiesMapped' /\ FloorMapped'
  BY <1>1 DEF Inv, CopiesMapped, FloorMapped
<1>3. AgeOrder'
  BY <1>1 DEF Inv, AgeOrder, Older
<1>4. NotBehindGuest'
  BY <1>1 DEF Inv, NotBehindGuest, Older
<1>5. Bounded'
  BY DEF Inv, Bounded
<1> QED BY <1>2, <1>3, <1>4, <1>5 DEF Inv

\* A shadow page is copied as a whole.
LEMMA WriteWhole ==
  ASSUME TypeOK, EntriesWhole, NEW A \in SUBSET Addr, NEW v \in Version,
         shadow' = ShadowWritten(A, v)
  PROVE  \A b, c \in Addr : PageOf[b] = PageOf[c]
                              => (shadow'[b] = None <=> shadow'[c] = None)
<1>1. \A b \in Addr : CowByte(b) \in Version
  BY DEF CowByte, TypeOK
<1>2. \A b \in Addr : shadow'[b] = IF b \in A THEN v
        ELSE IF shadow[b] = None /\ \E c \in A : PageOf[c] = PageOf[b]
             THEN CowByte(b) ELSE shadow[b]
  BY DEF ShadowWritten
<1> QED BY <1>1, <1>2 DEF EntriesWhole

\* What a write of the next version leaves true of the memory below.
LEMMA WriteBounded ==
  ASSUME TypeOK, EntriesWhole, Bounded, NEW A \in SUBSET Addr,
         shadow' = ShadowWritten(A, clock + 1),
         UNCHANGED <<target, readable, priv>>, clock' = clock + 1,
         floor' = [a \in Addr |-> IF a \in A THEN clock + 1 ELSE floor[a]]
  PROVE  Bounded'
<1>1. \A b \in Addr : CowByte(b) \in Version /\ CowByte(b) <= clock
  BY DEF CowByte, TypeOK, Bounded
<1>2. \A b \in Addr : shadow'[b] <= clock + 1
  <2>1. \A b \in Addr : shadow'[b] \in {clock + 1, CowByte(b), shadow[b]}
    BY DEF ShadowWritten
  <2> QED BY <1>1, <2>1 DEF TypeOK, Bounded
<1> QED BY <1>2 DEF Bounded, TypeOK

\* A guest write preserves the invariant: it patches every copy it makes old.
LEMMA WriteInv ==
  ASSUME Inv, NEW A \in SUBSET Addr, Write(A)
  PROVE  Inv' /\ \A b \in Addr : floor'[b] >= floor[b]
<1>1. TypeOK'
  BY WriteType DEF Inv
<1>2. /\ clock' = clock + 1 /\ clock + 1 \in Version
      /\ shadow' = ShadowWritten(A, clock + 1)
      /\ floor' = [a \in Addr |-> IF a \in A THEN clock + 1 ELSE floor[a]]
      /\ UNCHANGED <<target, readable, priv, phase, todo>>
      /\ phase = "run"
  BY DEF Write, Inv, TypeOK, targetVars
<1>3. /\ \A a \in A : View'[a] = clock + 1
      /\ \A a \in Addr \ A : View[a] # None => View'[a] = View[a]
      /\ \A a \in Addr \ A : View[a] = None => View'[a] \in {None, 0}
  BY <1>2, WriteView DEF Inv
<1>4. \A b \in Addr :
        /\ l1'[b] = IF b \in A /\ l1[b] # None THEN clock + 1 ELSE l1[b]
        /\ l2'[b] = IF b \in A /\ l2[b] # None THEN clock + 1 ELSE l2[b]
        /\ l3'[b] = IF b \in A /\ l3[b] # None THEN clock + 1 ELSE l3[b]
        /\ floor'[b] = IF b \in A THEN clock + 1 ELSE floor[b]
  BY <1>2 DEF Write, Patch
<1>5. EntriesWhole'
  BY <1>2, <1>4, WriteWhole DEF Inv, EntriesWhole
<1>6. Bounded'
  BY <1>2, WriteBounded DEF Inv
<1>7. CopiesMapped'
  BY <1>2, <1>3, <1>4 DEF Inv, CopiesMapped
<1>8. FloorMapped'
  BY <1>2, <1>3, <1>4 DEF Inv, FloorMapped
<1>9. AgeOrder'
  <2>1. \A b \in Addr : b \notin A => View[b] = None \/ View'[b] = View[b]
    BY <1>3
  <2> QED BY <1>2, <1>3, <1>4, <2>1 DEF Inv, CopiesMapped, AgeOrder, Older
<1>10. NotBehindGuest'
  <2>1. \A b \in Addr : floor[b] # 0 => View[b] # None
    BY DEF Inv, FloorMapped
  <2> QED BY <1>2, <1>3, <1>4, <2>1 DEF Inv, NotBehindGuest, Older, CopiesMapped
<1>11. SetupClean'
  BY <1>2 DEF SetupClean
<1>12. \A b \in Addr : floor'[b] >= floor[b]
  BY <1>4 DEF Inv, Bounded, TypeOK
<1> QED BY <1>1, <1>5, <1>6, <1>7, <1>8, <1>9, <1>10, <1>11, <1>12 DEF Inv

\* The direct writes of the setup do not see the caches, which hold nothing
\* of the pages they touch.
LEMMA DirectWriteInv ==
  ASSUME Inv, NEW A \in SUBSET Addr, DirectWrite(A), TypeOK', SetupClean',
         \A a \in A : l1[a] = None /\ l2[a] = None /\ l3[a] = None
  PROVE  Inv' /\ \A b \in Addr : floor'[b] >= floor[b]
<1>1. /\ UNCHANGED <<target, readable, priv, l1, l2, l3, todo>>
      /\ clock' = clock + 1 /\ clock \in Version /\ clock + 1 \in Version
  BY DEF DirectWrite, Inv, TypeOK, targetVars, chainVars, readVars
<1>2. CASE ~WriteAllowed(A)
  <2>1. shadow' = shadow /\ floor' = floor
    BY <1>2 DEF DirectWrite
  <2>2. View' = View
    BY <1>1, <2>1, ViewUnchanged
  <2>3. EntriesWhole' /\ CopiesMapped' /\ FloorMapped' /\ AgeOrder' /\ NotBehindGuest'
    BY <1>1, <2>1, <2>2
    DEF Inv, EntriesWhole, CopiesMapped, FloorMapped, AgeOrder, NotBehindGuest, Older
  <2>4. Bounded'
    BY <1>1, <2>1 DEF Inv, Bounded, TypeOK
  <2>5. \A b \in Addr : floor'[b] >= floor[b]
    BY <2>1 DEF Inv, TypeOK
  <2> QED BY <2>3, <2>4, <2>5 DEF Inv
<1>3. CASE WriteAllowed(A)
  <2>1. /\ shadow' = ShadowWritten(A, clock + 1)
        /\ floor' = [a \in Addr |-> IF a \in A THEN clock + 1 ELSE floor[a]]
    BY <1>3 DEF DirectWrite
  <2>2. /\ \A a \in A : View'[a] = clock + 1
        /\ \A a \in Addr \ A : View[a] # None => View'[a] = View[a]
        /\ \A a \in Addr \ A : View[a] = None => View'[a] \in {None, 0}
    BY <1>1, <2>1, WriteView DEF Inv
  <2>3. EntriesWhole'
    BY <1>1, <2>1, WriteWhole DEF Inv, EntriesWhole
  <2>4. CopiesMapped'
    BY <1>1, <2>2 DEF Inv, CopiesMapped
  <2>5. FloorMapped'
    BY <1>1, <2>1, <2>2 DEF Inv, FloorMapped
  <2>6. AgeOrder'
    <3>1. \A b \in Addr : l1[b] # None \/ l2[b] # None \/ l3[b] # None => View'[b] = View[b]
      BY <2>2 DEF Inv, CopiesMapped
    <3> QED BY <1>1, <3>1 DEF Inv, AgeOrder, Older
  <2>7. NotBehindGuest'
    <3>1. \A b \in Addr : floor[b] # 0 => View[b] # None
      BY DEF Inv, FloorMapped
    <3> QED BY <1>1, <2>1, <2>2, <3>1 DEF Inv, NotBehindGuest, Older, TypeOK
  <2>8. Bounded'
    BY <1>1, <2>1, WriteBounded DEF Inv
  <2>9. \A b \in Addr : floor'[b] >= floor[b]
    BY <2>1 DEF Inv, Bounded, TypeOK
  <2> QED BY <2>3, <2>4, <2>5, <2>6, <2>7, <2>8, <2>9 DEF Inv
<1> QED BY <1>2, <1>3

\* The steps of the tester before the guest runs preserve the invariant.
LEMMA SetupInv ==
  ASSUME Inv, Setup, TypeOK'
  PROVE  Inv' /\ \A b \in Addr : floor'[b] >= floor[b]
<1>0. \A A \in Accesses : A \in SUBSET Addr
  BY AccessAssumption
<1>f. \A b \in Addr : floor[b] \in Version
  BY DEF Inv, TypeOK
<1>1. ASSUME NEW r \in PrivateRanges, AddPrivateRegion(r)
      PROVE  Inv' /\ floor' = floor
  <2>1. /\ UNCHANGED <<target, readable, perm, shadow, l1, l2, l3, older, phase,
                       todo, out, status, clock, floor>>
        /\ phase = "setup" /\ priv \subseteq priv'
    BY <1>1 DEF AddPrivateRegion, targetVars, chainVars, readVars
  <2>2. l1 = Empty /\ l2 = Empty /\ l3 = Empty
    BY <2>1 DEF Inv, SetupClean
  <2>3. \A b \in Addr : View'[b] = View[b] \/ (shadow[b] = None /\ View'[b] = 0)
    <3>1. \A b \in Addr : View[b] = ShadowByte(b) /\ View'[b] = ShadowByte(b)'
      BY DEF View
    <3>2. \A p : PagePrivate(p) => PagePrivate(p)'
      BY <2>1 DEF PagePrivate
    <3> QED BY <2>1, <3>1, <3>2 DEF ShadowByte
  <2>4. \A b \in Addr : shadow[b] = None => floor[b] = 0
    BY <2>1 DEF Inv, SetupClean
  <2>5. CopiesMapped' /\ AgeOrder'
    BY <2>1, <2>2 DEF Empty, CopiesMapped, AgeOrder, Older
  <2>6. FloorMapped'
    BY <2>1, <2>3, <2>4 DEF Inv, FloorMapped
  <2>7. NotBehindGuest'
    BY <2>1, <2>2, <2>3, <2>4 DEF Inv, NotBehindGuest, Older, Empty
  <2>8. EntriesWhole' /\ SetupClean' /\ Bounded'
    BY <2>1 DEF Inv, EntriesWhole, SetupClean, Bounded
  <2> QED BY <2>1, <2>5, <2>6, <2>7, <2>8 DEF Inv
<1>2. ASSUME NEW A \in Accesses, SetupWrite(A)
      PROVE  Inv' /\ \A b \in Addr : floor'[b] >= floor[b]
  <2>1. A \in SUBSET Addr /\ DirectWrite(A) /\ phase = "setup" /\ phase' = "setup"
    BY <1>0, <1>2 DEF SetupWrite
  <2>2. l1 = Empty /\ l2 = Empty /\ l3 = Empty
    BY <2>1 DEF Inv, SetupClean
  <2>3. UNCHANGED <<l1, l2, l3, todo>>
    BY <2>1 DEF DirectWrite, chainVars, readVars
  <2>4. \A b \in Addr : shadow'[b] = None => floor'[b] = 0
    <3>0. clock + 1 # None
      BY DEF Inv, TypeOK
    <3>1. \A b \in Addr : shadow[b] = None => floor[b] = 0
      BY <2>1 DEF Inv, SetupClean
    <3> QED BY <2>1, <3>0, <3>1 DEF DirectWrite, ShadowWritten
  <2>5. SetupClean'
    BY <2>1, <2>2, <2>3, <2>4 DEF Inv, SetupClean, Empty
  <2>6. \A a \in A : l1[a] = None /\ l2[a] = None /\ l3[a] = None
    BY <2>1, <2>2 DEF Empty
  <2> QED BY <2>1, <2>5, <2>6, DirectWriteInv
<1>3. CASE Prefetch
  <2>1. /\ UNCHANGED <<target, readable, priv, perm, shadow, l1, l2, todo, clock, floor>>
        /\ phase = "setup" /\ phase' = "armed"
        /\ FetchRegion(RegionOf[Entry])
    BY <1>3 DEF Prefetch, targetVars, shadowVars, readVars
  <2>2. RegionOf[Entry] \in Regions
    BY AccessAssumption DEF Regions
  <2>3. l1 = Empty /\ l2 = Empty /\ l3 = Empty
    BY <2>1 DEF Inv, SetupClean
  <2>4. /\ \A b \in Addr : \/ l3'[b] = None
                           \/ RegionOf[b] = RegionOf[Entry] /\ l3'[b] = View[b] /\ View[b] # None
        /\ \A b, c \in Addr : RegionOf[b] = RegionOf[c] => (l3'[b] = None <=> l3'[c] = None)
    <3>1. \A b \in Addr : l3[b] = None
      BY <2>3 DEF Empty
    <3> QED BY <2>1, <2>2, <3>1, FetchEffect DEF Inv
  <2>5. View' = View
    BY <2>1, ViewUnchanged
  <2>6. EntriesWhole' /\ Bounded' /\ FloorMapped'
    BY <2>1, <2>4, <2>5 DEF Inv, EntriesWhole, Bounded, FloorMapped
  <2>7. CopiesMapped'
    BY <2>1, <2>3, <2>4, <2>5 DEF CopiesMapped, Empty
  <2>8. AgeOrder' /\ NotBehindGuest'
    <3>1. \A b \in Addr : l1[b] = None /\ l2[b] = None
      BY <2>3 DEF Empty
    <3>2. View \in [Addr -> Copy]
      BY ViewType DEF Inv
    <3> QED BY <2>1, <2>4, <2>5, <3>1, <3>2 DEF Inv, AgeOrder, NotBehindGuest, Older
  <2>9. SetupClean'
    BY <2>1, <2>4 DEF Inv, SetupClean, Empty
  <2>10. \A b \in Addr : floor'[b] >= floor[b]
    BY <2>1, <1>f
  <2> QED BY <2>6, <2>7, <2>8, <2>9, <2>10 DEF Inv
<1>4. CASE PushSentinel
  <2>1. Stack \in SUBSET Addr /\ DirectWrite(Stack) /\ phase = "armed" /\ phase' = "run"
    BY <1>4, AccessAssumption DEF PushSentinel
  <2>2. \A a \in Stack : l1[a] = None /\ l2[a] = None /\ l3[a] = None
    <3>1. l1 = Empty /\ l2 = Empty
      BY <2>1 DEF Inv, SetupClean
    <3>2. \A a \in Addr : l3[a] # None => RegionOf[a] = RegionOf[Entry]
      BY <2>1 DEF Inv, SetupClean
    <3> QED BY <2>1, <3>1, <3>2, StackApart DEF Empty
  <2>3. SetupClean'
    BY <2>1 DEF SetupClean
  <2> QED BY <2>1, <2>2, <2>3, DirectWriteInv
<1>5. ASSUME NEW r \in ProtRanges, NEW w \in {"W", "RO"}, Protect(r, w)
      PROVE  Inv' /\ floor' = floor
  <2>1. UNCHANGED <<target, readable, priv, shadow, l1, l2, l3, phase, todo, clock, floor>>
    BY <1>5 DEF Protect, targetVars, chainVars, readVars
  <2>2. EntriesWhole' /\ SetupClean'
    BY <2>1 DEF Inv, EntriesWhole, SetupClean
  <2> QED BY <2>1, <2>2, DropInv
<1> QED BY <1>f, <1>1, <1>2, <1>3, <1>4, <1>5 DEF Setup

\* invalidate() drops whole entries.
LEMMA InvalidateInv ==
  ASSUME Inv, NEW A, TypeOK', InvalidateL1(A) \/ InvalidateL2(A) \/ InvalidateL3(A)
  PROVE  Inv' /\ floor' = floor
<1>1. UNCHANGED <<target, readable, priv, shadow, phase, todo, clock, floor>>
  BY DEF InvalidateL1, InvalidateL2, InvalidateL3, targetVars, shadowVars, readVars
<1>2. /\ l1' = l1 \/ l1' = Drop(l1, Touching(A, LineOf))
      /\ l2' = l2 \/ l2' = Drop(l2, Touching(A, PageOf))
      /\ l3' = l3 \/ l3' = Drop(l3, Touching(A, RegionOf))
  BY DEF InvalidateL1, InvalidateL2, InvalidateL3
<1>3. \A b \in Addr : /\ l1'[b] \in {None, l1[b]}
                      /\ l2'[b] \in {None, l2[b]}
                      /\ l3'[b] \in {None, l3[b]}
  BY <1>2 DEF Drop
<1>4. EntriesWhole'
  BY <1>1, <1>2 DEF Inv, EntriesWhole, Drop, Touching
<1>5. SetupClean'
  <2>1. \A b \in Addr : /\ l1[b] = None => l1'[b] = None
                        /\ l2[b] = None => l2'[b] = None
                        /\ l3[b] = None => l3'[b] = None
    BY <1>3
  <2>2. /\ l1 = Empty => l1' = Empty
        /\ l2 = Empty => l2' = Empty
        /\ l3 = Empty => l3' = Empty
    BY <1>2 DEF Empty, Drop
  <2> QED BY <1>1, <1>3, <2>1, <2>2 DEF Inv, SetupClean, TypeOK
<1> QED BY <1>1, <1>3, <1>4, <1>5, DropInv

\* The target only ever moves forward: a byte it changes gets a newer version,
\* and a page it maps could not be read before.
LEMMA TargetInv ==
  ASSUME Inv, ~TargetMayFail, TypeOK',
         \/ \E a \in Addr : TargetChange(a)
         \/ \E p \in Pages : TargetMap(p) \/ TargetUnmap(p)
  PROVE  Inv' /\ floor' = floor
<1>1. /\ UNCHANGED <<priv, perm, shadow, l1, l2, l3, older, phase, todo, out, status, floor>>
      /\ clock' \in {clock, clock + 1}
      /\ \A b \in Addr : target[b] <= target'[b] /\ target'[b] <= clock'
      /\ readable \subseteq readable'
  BY DEF TargetChange, TargetMap, TargetUnmap, shadowVars, chainVars, readVars,
         Inv, TypeOK, Bounded
<1>2. \A b \in Addr : /\ View[b] # None => View'[b] # None /\ View[b] <= View'[b]
                      /\ View'[b] \in Copy /\ View[b] \in Copy
  <2>1. \A b \in Addr : View[b] = ShadowByte(b) /\ View'[b] = ShadowByte(b)'
    BY DEF View
  <2>2. \A p : PagePrivate(p)' = PagePrivate(p)
    BY <1>1 DEF PagePrivate
  <2> QED BY <1>1, <2>1, <2>2 DEF ShadowByte, Inv, TypeOK
<1>3. CopiesMapped' /\ FloorMapped'
  BY <1>1, <1>2 DEF Inv, CopiesMapped, FloorMapped
<1>4. AgeOrder'
  <2>1. \A b \in Addr : /\ l1[b] # None => View[b] # None
                        /\ l2[b] # None => View[b] # None
                        /\ l3[b] # None => View[b] # None
    BY DEF Inv, CopiesMapped
  <2> QED BY <1>1, <1>2, <2>1 DEF Inv, AgeOrder, Older, TypeOK
<1>5. NotBehindGuest'
  <2>1. \A b \in Addr : floor[b] # 0 => View[b] # None
    BY DEF Inv, FloorMapped
  <2> QED BY <1>1, <1>2, <2>1 DEF Inv, NotBehindGuest, Older, TypeOK
<1>6. EntriesWhole' /\ SetupClean'
  BY <1>1 DEF Inv, EntriesWhole, SetupClean
<1>7. Bounded'
  BY <1>1 DEF Inv, Bounded, TypeOK
<1> QED BY <1>1, <1>3, <1>4, <1>5, <1>6, <1>7 DEF Inv

-----------------------------------------------------------------------------
\* The invariant holds when the tester starts.
LEMMA InitInv == Init => Inv
<1> SUFFICES ASSUME Init PROVE Inv
  OBVIOUS
<1>1. TypeOK
  BY InitType
<1>2. \A a \in Addr : View[a] \in {None, 0, 1}
  BY DEF Init, View, ShadowByte, Empty
<1>3. EntriesWhole /\ SetupClean /\ Bounded /\ CopiesMapped /\ FloorMapped
  BY DEF Init, Empty, EntriesWhole, SetupClean, Bounded, CopiesMapped, FloorMapped
<1>4. AgeOrder /\ NotBehindGuest
  BY <1>2 DEF Init, Empty, AgeOrder, NotBehindGuest, Older
<1> QED BY <1>1, <1>3, <1>4 DEF Inv

\* Every step preserves the invariant, unless pages stop being readable.
LEMMA NextInv ==
  ASSUME Inv, [Next]_vars, ~TargetMayFail
  PROVE  Inv' /\ \A b \in Addr : floor'[b] >= floor[b]
<1>0. TypeOK'
  BY TypeStep DEF Inv
<1>f. \A b \in Addr : floor[b] \in Version
  BY DEF Inv, TypeOK
<1>a. \A A \in Accesses : A \in SUBSET Addr
  BY AccessAssumption
<1>1. CASE Setup
  BY <1>0, <1>1, SetupInv
<1>2. ASSUME NEW A \in Accesses, BeginRead(A)
      PROVE  Inv' /\ floor' = floor
  <2>1. /\ UNCHANGED <<target, readable, priv, shadow, l1, l2, l3, phase, clock, floor>>
        /\ phase = "run"
    BY <1>2 DEF BeginRead, targetVars, shadowVars, chainVars
  <2>2. EntriesWhole' /\ SetupClean'
    BY <2>1 DEF Inv, EntriesWhole, SetupClean
  <2> QED BY <1>0, <2>1, <2>2, DropInv
<1>3. ASSUME NEW a \in Addr,
             \/ ReadHitL1(a) \/ ReadHitL2(a) \/ ReadHitL3(a)
             \/ ReadFetch(a) \/ ReadFail(a)
      PROVE  Inv' /\ \A b \in Addr : floor'[b] >= floor[b]
  BY <1>3, ReadInv
<1>4. ASSUME NEW A \in Accesses, Write(A)
      PROVE  Inv' /\ \A b \in Addr : floor'[b] >= floor[b]
  BY <1>a, <1>4, WriteInv
<1>5. ASSUME NEW A \in Accesses, WriteDenied(A)
      PROVE  Inv' /\ floor' = floor
  <2>1. UNCHANGED <<target, readable, priv, shadow, l1, l2, l3, phase, todo, clock, floor>>
    BY <1>5 DEF WriteDenied, targetVars, shadowVars, chainVars
  <2>2. EntriesWhole' /\ SetupClean'
    BY <2>1 DEF Inv, EntriesWhole, SetupClean
  <2> QED BY <1>0, <2>1, <2>2, DropInv
<1>6. CASE Invalidate
  BY <1>0, <1>6, <1>f, InvalidateInv DEF Invalidate
<1>7. CASE Target
  BY <1>0, <1>7, <1>f, TargetInv DEF Target
<1>8. CASE UNCHANGED vars
  <2>1. UNCHANGED <<target, readable, priv, shadow, l1, l2, l3, phase, todo, clock, floor>>
    BY <1>8 DEF vars
  <2>2. EntriesWhole' /\ SetupClean'
    BY <2>1 DEF Inv, EntriesWhole, SetupClean
  <2> QED BY <1>0, <1>f, <2>1, <2>2, DropInv
<1> QED
  BY <1>f, <1>1, <1>2, <1>3, <1>4, <1>5, <1>6, <1>7, <1>8 DEF Next, Read, GuestWrite

\* Whatever the sizes and geometry of the caches, no layer of the read path
\* (l1_cache.cpp, l2_cache.cpp, l3_cache.cpp, shadow_pages.cpp) is ahead of the
\* layer below it, as long as the target stays readable.
THEOREM AgeOrderHolds ==
  ASSUME ~TargetMayFail
  PROVE  Spec => []AgeOrder
<1>1. Init => Inv
  BY InitInv
<1>2. Inv /\ [Next]_vars => Inv'
  BY NextInv
<1>3. Inv => AgeOrder
  BY DEF Inv
<1> QED BY <1>1, <1>2, <1>3, PTL DEF Spec

\* What any layer of the chain would deliver next is at least as new as what
\* the guest has read or written.
THEOREM NotBehindGuestHolds ==
  ASSUME ~TargetMayFail
  PROVE  Spec => []NotBehindGuest
<1>1. Inv /\ [Next]_vars => Inv'
  BY NextInv
<1>2. Inv => NotBehindGuest
  BY DEF Inv
<1> QED BY InitInv, <1>1, <1>2, PTL DEF Spec

\* A guest read never returns a byte older than one the guest has already read
\* or written there, in any geometry, through every eviction, copy-on-write,
\* invalidation and change of the target.
THEOREM GuestNeverGoesBackHolds ==
  ASSUME ~TargetMayFail
  PROVE  Spec => GuestNeverGoesBack
<1>1. Init => Inv
  BY InitInv
<1>2. Inv /\ [Next]_vars => Inv'
  BY NextInv
<1>3. Inv /\ [Next]_vars => [\A a \in Addr : floor'[a] >= floor[a]]_vars
  BY NextInv
<1> QED BY <1>1, <1>2, <1>3, PTL DEF Spec, GuestNeverGoesBack

-----------------------------------------------------------------------------
(* Entries and writes, over any target. *)

\* A write straight into the shadow pages keeps the entries whole.
LEMMA DirectWriteWhole ==
  ASSUME TypeOK, EntriesWhole, NEW A \in SUBSET Addr, DirectWrite(A)
  PROVE  EntriesWhole'
<1>1. UNCHANGED <<l1, l2, l3>>
  BY DEF DirectWrite, chainVars
<1>2. CASE WriteAllowed(A)
  <2>1. clock + 1 \in Version /\ shadow' = ShadowWritten(A, clock + 1)
    BY <1>2 DEF DirectWrite, TypeOK
  <2> QED BY <1>1, <2>1, WriteWhole DEF EntriesWhole
<1>3. CASE ~WriteAllowed(A)
  BY <1>1, <1>3 DEF DirectWrite, EntriesWhole
<1> QED BY <1>2, <1>3

\* Every step keeps the entries of the caches and the shadow pages whole.
LEMMA WholeStep ==
  ASSUME TypeOK, EntriesWhole, [Next]_vars
  PROVE  EntriesWhole'
<1>0. /\ \A A \in Accesses : A \in SUBSET Addr
      /\ Stack \in SUBSET Addr
  BY AccessAssumption
<1>1. ASSUME NEW r \in PrivateRanges, AddPrivateRegion(r)
      PROVE  EntriesWhole'
  BY <1>1 DEF AddPrivateRegion, chainVars, EntriesWhole
<1>2. ASSUME NEW A \in Accesses, SetupWrite(A)
      PROVE  EntriesWhole'
  BY <1>0, <1>2, DirectWriteWhole DEF SetupWrite
<1>3. CASE Prefetch
  <2>1. UNCHANGED <<shadow, l1, l2>> /\ FetchRegion(RegionOf[Entry])
    BY <1>3 DEF Prefetch, shadowVars
  <2>2. RegionOf[Entry] \in Regions
    BY AccessAssumption DEF Regions
  <2> QED BY <2>1, <2>2, FetchEffect DEF EntriesWhole
<1>4. CASE PushSentinel
  BY <1>0, <1>4, DirectWriteWhole DEF PushSentinel
<1>5. ASSUME NEW r \in ProtRanges, NEW w \in {"W", "RO"}, Protect(r, w)
      PROVE  EntriesWhole'
  BY <1>5 DEF Protect, chainVars, EntriesWhole
<1>6. ASSUME NEW A \in Accesses, BeginRead(A)
      PROVE  EntriesWhole'
  BY <1>6 DEF BeginRead, shadowVars, chainVars, EntriesWhole
<1>7. ASSUME NEW a \in Addr,
             \/ ReadHitL1(a) \/ ReadHitL2(a) \/ ReadHitL3(a)
             \/ ReadFetch(a) \/ ReadFail(a)
      PROVE  EntriesWhole'
  BY <1>7, ReadWhole
<1>8. ASSUME NEW A \in Accesses, Write(A)
      PROVE  EntriesWhole'
  <2>1. /\ clock' = clock + 1 /\ clock' \in Version
        /\ shadow' = ShadowWritten(A, clock')
    BY <1>8 DEF Write, TypeOK
  <2>2. \A b \in Addr : /\ l1'[b] = IF b \in A /\ l1[b] # None THEN clock' ELSE l1[b]
                        /\ l2'[b] = IF b \in A /\ l2[b] # None THEN clock' ELSE l2[b]
                        /\ l3'[b] = IF b \in A /\ l3[b] # None THEN clock' ELSE l3[b]
    BY <1>8 DEF Write, Patch
  <2> QED BY <1>0, <2>1, <2>2, WriteWhole DEF EntriesWhole
<1>9. ASSUME NEW A \in Accesses, WriteDenied(A)
      PROVE  EntriesWhole'
  BY <1>9 DEF WriteDenied, shadowVars, chainVars, EntriesWhole
<1>10. CASE Invalidate
  <2>1. PICK A \in Accesses \cup {Addr} :
          InvalidateL1(A) \/ InvalidateL2(A) \/ InvalidateL3(A)
    BY <1>10 DEF Invalidate
  <2>2. /\ shadow' = shadow
        /\ l1' = l1 \/ l1' = Drop(l1, Touching(A, LineOf))
        /\ l2' = l2 \/ l2' = Drop(l2, Touching(A, PageOf))
        /\ l3' = l3 \/ l3' = Drop(l3, Touching(A, RegionOf))
    BY <2>1 DEF InvalidateL1, InvalidateL2, InvalidateL3, shadowVars
  <2> QED BY <2>2 DEF EntriesWhole, Drop, Touching
<1>11. CASE Target
  BY <1>11 DEF Target, TargetChange, TargetMap, TargetUnmap, shadowVars, chainVars,
               EntriesWhole
<1>12. CASE UNCHANGED vars
  BY <1>12 DEF vars, EntriesWhole
<1> QED
  BY <1>1, <1>2, <1>3, <1>4, <1>5, <1>6, <1>7, <1>8, <1>9, <1>10, <1>11, <1>12
  DEF Next, Setup, Read, GuestWrite

\* Entries of l1_cache.cpp, l2_cache.cpp, l3_cache.cpp and the pages of
\* shadow_pages.cpp are filled and dropped as a whole, even when pages of the
\* target stop being readable in between.
THEOREM EntriesWholeHolds == Spec => []EntriesWhole
<1>1. Init => TypeOK /\ EntriesWhole
  <2>1. Init => TypeOK
    BY InitType
  <2>2. Init => EntriesWhole
    BY DEF Init, Empty, EntriesWhole
  <2> QED BY <2>1, <2>2
<1>2. TypeOK /\ EntriesWhole /\ [Next]_vars => (TypeOK /\ EntriesWhole)'
  BY TypeStep, WholeStep
<1> QED BY <1>1, <1>2, PTL DEF Spec

\* One write through the shadow pages is isolated.
LEMMA WriteIsolatedStep ==
  ASSUME TypeOK, EntriesWhole, NEW A \in SUBSET Addr,
         shadow' = ShadowWritten(A, clock'), clock' \in Version,
         UNCHANGED <<target, readable, priv>>,
         \A a \in A : floor'[a] = clock'
  PROVE  \A a \in Addr : View'[a] # View[a] => floor'[a] = clock' \/ View[a] = None
<1>1. \A a \in Addr \ A : View[a] # None => View'[a] = View[a]
  BY WriteView
<1> QED BY <1>1

\* A write of the guest or of the tester changes no byte outside its range,
\* although get_or_make_page_ copies whole pages, whatever the target does.
THEOREM WriteIsolatedHolds == Spec => WriteIsolated
<1> DEFINE Isolated == \A a \in Addr : View'[a] # View[a]
                                         => floor'[a] = clock' \/ View[a] = None
<1>0. /\ \A A \in Accesses : A \in SUBSET Addr
      /\ Stack \in SUBSET Addr
  BY AccessAssumption
<1>1. ASSUME TypeOK, EntriesWhole, NEW A \in SUBSET Addr, DirectWrite(A), shadow' # shadow
      PROVE  Isolated
  <2>1. /\ clock' = clock + 1 /\ clock' \in Version
        /\ UNCHANGED <<target, readable, priv>>
        /\ shadow' = ShadowWritten(A, clock')
        /\ \A a \in A : floor'[a] = clock'
    BY <1>1 DEF DirectWrite, TypeOK, targetVars
  <2> QED BY <1>1, <2>1, WriteIsolatedStep
<1>2. ASSUME TypeOK, EntriesWhole, NEW A \in SUBSET Addr, Write(A)
      PROVE  Isolated
  <2>1. /\ clock' = clock + 1 /\ clock' \in Version
        /\ UNCHANGED <<target, readable, priv>>
        /\ shadow' = ShadowWritten(A, clock')
        /\ \A a \in A : floor'[a] = clock'
    BY <1>2 DEF Write, TypeOK, targetVars
  <2> QED BY <1>2, <2>1, WriteIsolatedStep
<1>3. ASSUME TypeOK, EntriesWhole, Next, shadow' # shadow
      PROVE  Isolated
  <2>1. \/ \E A \in Accesses : SetupWrite(A) \/ Write(A)
        \/ PushSentinel
    BY <1>3 DEF Next, Setup, Read, GuestWrite, Invalidate, Target, AddPrivateRegion,
       Prefetch, Protect, BeginRead, ReadHitL1, ReadHitL2, ReadHitL3, ReadFetch,
       ReadFail, WriteDenied, InvalidateL1, InvalidateL2, InvalidateL3,
       TargetChange, TargetMap, TargetUnmap, shadowVars
  <2> QED BY <1>0, <1>1, <1>2, <1>3, <2>1 DEF SetupWrite, PushSentinel
<1>4. TypeOK /\ EntriesWhole /\ [Next]_vars => [shadow' # shadow => Isolated]_vars
  BY <1>3
<1>5. Spec => []TypeOK
  BY TypeCorrect
<1>6. Spec => []EntriesWhole
  BY EntriesWholeHolds
<1> QED BY <1>4, <1>5, <1>6, PTL DEF Spec, WriteIsolated

-----------------------------------------------------------------------------
(* A target that stands still. *)

\* The state of a read in progress: what it has delivered so far is still what
\* memory holds, since nothing writes during a read.
ReadState ==
  /\ todo # {} => status = "busy" /\ phase = "run"
  /\ status = "busy" => todo # {}
  /\ todo # {} => \A a \in Addr : out[a] # None => a \notin todo /\ out[a] = View[a]

CoherentAt(a) == /\ l1[a] # None => l1[a] = View[a]
                 /\ l2[a] # None => l2[a] = View[a]
                 /\ l3[a] # None => l3[a] = View[a]

FlatInv == Inv /\ (\A a \in Addr : CoherentAt(a)) /\ ReadState

\* Coherent, layer by layer.
LEMMA CoherentLayers == Coherent <=> \A a \in Addr : CoherentAt(a)
BY DEF Coherent, CoherentAt

\* The step that hands the current line over keeps what was delivered true to
\* memory.
LEMMA DeliverState ==
  ASSUME TypeOK, ReadState, View' = View, phase' = phase,
         NEW a \in Addr, At(a), Deliver(a),
         \A b \in Addr : CoherentAt(b)'
  PROVE  ReadState'
<1>1. phase = "run"
  BY DEF At, ReadState
<1>2. status' = "busy" <=> todo' # {}
  BY DEF Deliver
<1>3. ASSUME NEW b \in Addr, out'[b] # None
      PROVE  b \notin todo' /\ out'[b] = View[b]
  <2>1. CASE b \in todo \cap LineBytes(a)
    <3>1. out'[b] = l1'[b] /\ b \notin todo'
      BY <2>1 DEF Deliver
    <3> QED BY <1>3, <3>1 DEF CoherentAt
  <2>2. CASE b \notin todo \cap LineBytes(a)
    <3>1. out'[b] = out[b]
      BY <2>2 DEF Deliver
    <3>2. todo # {}
      BY DEF At
    <3> QED BY <1>3, <3>1, <3>2 DEF Deliver, ReadState
  <2> QED BY <2>1, <2>2
<1> QED BY <1>1, <1>2, <1>3 DEF ReadState

\* Reads only fill the caches with what is below them.
LEMMA ReadFlat ==
  ASSUME FlatInv, NEW a \in Addr,
         \/ ReadHitL1(a) \/ ReadHitL2(a) \/ ReadHitL3(a)
         \/ ReadFetch(a) \/ ReadFail(a)
  PROVE  (\A b \in Addr : CoherentAt(b)') /\ ReadState' /\ View' = View /\ phase' = phase
<1>1. View' = View /\ phase' = phase
  BY ViewUnchanged DEF ReadHitL1, ReadHitL2, ReadHitL3, ReadFetch, ReadFail,
     targetVars, shadowVars
<1>2. ReadEffect(a)
  BY ReadEffectHolds DEF FlatInv, Inv
<1>3. \A b \in Addr : CoherentAt(b)'
  BY <1>1, <1>2 DEF FlatInv, CoherentAt, ReadEffect
<1>4. CASE ReadFail(a)
  BY <1>1, <1>3, <1>4 DEF ReadFail, ReadState
<1>5. CASE ReadHitL1(a) \/ ReadHitL2(a) \/ ReadHitL3(a) \/ ReadFetch(a)
  <2>1. At(a) /\ Deliver(a)
    BY <1>5 DEF ReadHitL1, ReadHitL2, ReadHitL3, ReadFetch, MissAll
  <2> QED BY <1>1, <1>3, <2>1, DeliverState DEF FlatInv, Inv
<1> QED BY <1>1, <1>3, <1>4, <1>5

\* Writes below the caches of bytes they hold no copy of keep them coherent.
LEMMA DirectWriteFlat ==
  ASSUME FlatInv, NEW A \in SUBSET Addr, DirectWrite(A),
         \A a \in A : l1[a] = None /\ l2[a] = None /\ l3[a] = None
  PROVE  \A b \in Addr : CoherentAt(b)'
<1>1. UNCHANGED <<target, readable, priv, l1, l2, l3>>
  BY DEF DirectWrite, targetVars, chainVars
<1>2. CASE WriteAllowed(A)
  <2>1. clock + 1 \in Version /\ shadow' = ShadowWritten(A, clock + 1)
    BY <1>2 DEF DirectWrite, FlatInv, Inv, TypeOK
  <2>2. \A b \in Addr \ A : View[b] # None => View'[b] = View[b]
    BY <1>1, <2>1, WriteView DEF FlatInv, Inv
  <2> QED BY <1>1, <2>2 DEF FlatInv, CoherentAt
<1>3. CASE ~WriteAllowed(A)
  <2>1. View' = View
    BY <1>1, <1>3, ViewUnchanged DEF DirectWrite
  <2> QED BY <1>1, <2>1 DEF FlatInv, CoherentAt
<1> QED BY <1>2, <1>3

\* A step that leaves the memory below alone and at most drops copies.
LEMMA DropFlat ==
  ASSUME FlatInv,
         UNCHANGED <<target, readable, priv, shadow, phase, todo, out, status>>,
         \A b \in Addr : /\ l1'[b] \in {None, l1[b]}
                         /\ l2'[b] \in {None, l2[b]}
                         /\ l3'[b] \in {None, l3[b]}
  PROVE  (\A b \in Addr : CoherentAt(b)') /\ ReadState'
<1>1. View' = View
  BY ViewUnchanged
<1> QED BY <1>1 DEF FlatInv, CoherentAt, ReadState

\* Every step keeps the caches coherent and the read in progress true to memory.
LEMMA FlatStep ==
  ASSUME FlatInv, [Next]_vars, ~TargetLive, ~TargetMayFail
  PROVE  FlatInv'
<1> DEFINE Goal == (\A b \in Addr : CoherentAt(b)') /\ ReadState'
<1>0. /\ \A A \in Accesses : A \in SUBSET Addr
      /\ Stack \in SUBSET Addr
  BY AccessAssumption
<1>i. Inv'
  BY NextInv DEF FlatInv
<1>s. phase # "run" => todo = {} /\ status # "busy" /\ \A b \in Addr : l1[b] = None /\ l2[b] = None
  BY DEF FlatInv, Inv, SetupClean, ReadState, Empty
<1>1. ASSUME NEW r \in PrivateRanges, AddPrivateRegion(r)
      PROVE  Goal
  <2>1. phase = "setup" /\ UNCHANGED <<l1, l2, l3, todo, status>>
    BY <1>1 DEF AddPrivateRegion, chainVars, readVars
  <2>2. \A b \in Addr : l3[b] = None
    BY <2>1 DEF FlatInv, Inv, SetupClean, Empty
  <2> QED BY <1>s, <2>1, <2>2 DEF CoherentAt, ReadState
<1>2. ASSUME NEW A \in Accesses, SetupWrite(A)
      PROVE  Goal
  <2>1. phase = "setup" /\ DirectWrite(A) /\ UNCHANGED <<todo, status>>
    BY <1>2 DEF SetupWrite, DirectWrite, readVars
  <2>2. \A b \in Addr : l3[b] = None
    BY <2>1 DEF FlatInv, Inv, SetupClean, Empty
  <2>3. \A b \in Addr : CoherentAt(b)'
    BY <1>0, <1>s, <2>1, <2>2, DirectWriteFlat
  <2> QED BY <1>s, <2>1, <2>3 DEF ReadState
<1>3. ASSUME Prefetch PROVE Goal
  <2>1. /\ UNCHANGED <<target, readable, priv, shadow, l1, l2, todo, status>>
        /\ phase = "setup" /\ FetchRegion(RegionOf[Entry])
    BY <1>3 DEF Prefetch, targetVars, shadowVars, readVars
  <2>2. RegionOf[Entry] \in Regions
    BY AccessAssumption DEF Regions
  <2>3. View' = View
    BY <2>1, ViewUnchanged
  <2>4. \A b \in Addr : l3'[b] \in {None, l3[b]} \/ l3'[b] = View[b]
    BY <2>1, <2>2, FetchEffect DEF FlatInv, Inv
  <2> QED BY <1>s, <2>1, <2>3, <2>4 DEF FlatInv, CoherentAt, ReadState
<1>4. ASSUME PushSentinel PROVE Goal
  <2>1. phase = "armed" /\ DirectWrite(Stack) /\ UNCHANGED <<todo, status>>
    BY <1>4 DEF PushSentinel, DirectWrite, readVars
  <2>2. \A a \in Stack : l3[a] = None
    BY <1>0, <2>1, StackApart DEF FlatInv, Inv, SetupClean
  <2>3. \A b \in Addr : CoherentAt(b)'
    BY <1>0, <1>s, <2>1, <2>2, DirectWriteFlat
  <2> QED BY <1>s, <2>1, <2>3 DEF ReadState
<1>5. ASSUME NEW r \in ProtRanges, NEW w \in {"W", "RO"}, Protect(r, w)
      PROVE  Goal
  BY <1>5, DropFlat DEF Protect, targetVars, chainVars, readVars
<1>6. ASSUME NEW A \in Accesses, BeginRead(A)
      PROVE  Goal
  <2>1. /\ UNCHANGED <<target, readable, priv, shadow, l1, l2, l3, phase>>
        /\ phase = "run" /\ todo' = A /\ out' = Empty /\ status' = "busy"
    BY <1>6 DEF BeginRead, targetVars, shadowVars, chainVars
  <2>2. View' = View
    BY <2>1, ViewUnchanged
  <2>3. A # {}
    BY AccessAssumption
  <2> QED BY <2>1, <2>2, <2>3 DEF FlatInv, CoherentAt, ReadState, Empty
<1>7. ASSUME NEW a \in Addr,
             \/ ReadHitL1(a) \/ ReadHitL2(a) \/ ReadHitL3(a)
             \/ ReadFetch(a) \/ ReadFail(a)
      PROVE  Goal
  BY <1>7, ReadFlat
<1>8. ASSUME NEW A \in Accesses, Write(A)
      PROVE  Goal
  <2>1. /\ clock' = clock + 1 /\ clock' \in Version
        /\ shadow' = ShadowWritten(A, clock')
        /\ UNCHANGED <<target, readable, priv>>
        /\ todo' = {} /\ status' = "Written"
    BY <1>8 DEF Write, FlatInv, Inv, TypeOK, targetVars
  <2>2. \A b \in Addr : /\ l1'[b] = IF b \in A /\ l1[b] # None THEN clock' ELSE l1[b]
                        /\ l2'[b] = IF b \in A /\ l2[b] # None THEN clock' ELSE l2[b]
                        /\ l3'[b] = IF b \in A /\ l3[b] # None THEN clock' ELSE l3[b]
    BY <1>8 DEF Write, Patch
  <2>3. /\ \A b \in A : View'[b] = clock'
        /\ \A b \in Addr \ A : View[b] # None => View'[b] = View[b]
    BY <1>0, <2>1, WriteView DEF FlatInv, Inv
  <2> QED BY <2>1, <2>2, <2>3 DEF FlatInv, CoherentAt, ReadState
<1>9. ASSUME NEW A \in Accesses, WriteDenied(A)
      PROVE  Goal
  <2>1. /\ UNCHANGED <<target, readable, priv, shadow, l1, l2, l3, phase, todo>>
        /\ todo = {} /\ status' = "ProtectionViolation"
    BY <1>9 DEF WriteDenied, targetVars, shadowVars, chainVars
  <2>2. View' = View
    BY <2>1, ViewUnchanged
  <2> QED BY <2>1, <2>2 DEF FlatInv, CoherentAt, ReadState
<1>10. ASSUME Invalidate PROVE Goal
  <2>1. PICK A \in Accesses \cup {Addr} :
          InvalidateL1(A) \/ InvalidateL2(A) \/ InvalidateL3(A)
    BY <1>10 DEF Invalidate
  <2>2. /\ UNCHANGED <<target, readable, priv, shadow, phase, todo, out, status>>
        /\ l1' = l1 \/ l1' = Drop(l1, Touching(A, LineOf))
        /\ l2' = l2 \/ l2' = Drop(l2, Touching(A, PageOf))
        /\ l3' = l3 \/ l3' = Drop(l3, Touching(A, RegionOf))
    BY <2>1 DEF InvalidateL1, InvalidateL2, InvalidateL3, targetVars, shadowVars, readVars
  <2> QED BY <2>2, DropFlat DEF Drop
<1>11. ~Target
  BY DEF Target, TargetChange, TargetMap, TargetUnmap
<1>12. ASSUME UNCHANGED vars PROVE Goal
  BY <1>12, DropFlat DEF vars
<1> QED
  BY <1>i, <1>1, <1>2, <1>3, <1>4, <1>5, <1>6, <1>7, <1>8, <1>9, <1>10, <1>11, <1>12
  DEF Next, Setup, Read, GuestWrite, FlatInv

\* FlatInv holds when the tester starts.
LEMMA FlatInit == Init => FlatInv
<1> SUFFICES ASSUME Init PROVE FlatInv
  OBVIOUS
<1>1. Inv
  BY InitInv
<1>2. \A a \in Addr : CoherentAt(a)
  BY DEF Init, Empty, CoherentAt
<1>3. ReadState
  BY DEF Init, ReadState
<1> QED BY <1>1, <1>2, <1>3 DEF FlatInv

\* Over a target that stands still, every cached byte of every cache is the
\* byte the shadow pages would deliver, for any geometry of the caches.
THEOREM CoherentHolds ==
  ASSUME ~TargetLive, ~TargetMayFail
  PROVE  Spec => []Coherent
<1>1. FlatInv /\ [Next]_vars => FlatInv'
  BY FlatStep
<1>2. FlatInv => Coherent
  BY CoherentLayers DEF FlatInv
<1> QED BY FlatInit, <1>1, <1>2, PTL DEF Spec

-----------------------------------------------------------------------------
(* The refinement of FlatMemory. *)

\* A chunk of a read fails as a whole page does.
LEMMA PageFails ==
  ASSUME TypeOK, EntriesWhole, NEW a \in Addr, NEW b \in Addr, PageOf[a] = PageOf[b]
  PROVE  View[a] = None <=> View[b] = None
<1>1. View[a] = ShadowByte(a) /\ View[b] = ShadowByte(b)
  BY DEF View
<1>2. shadow[a] = None <=> shadow[b] = None
  BY DEF EntriesWhole
<1> QED BY <1>1, <1>2 DEF ShadowByte, TypeOK

\* A step that neither changes what the guest can read nor answers a call.
LEMMA FlatStutter ==
  ASSUME View' = View, UNCHANGED <<phase, todo, out, status>>
  PROVE  UNCHANGED Flat!flatVars
BY DEF Flat!flatVars, Wanted, Empty

\* A step of the setup is a SetUp of the flat memory.
LEMMA FlatSetUp ==
  ASSUME TypeOK', phase # "run", UNCHANGED <<todo, out, status>>
  PROVE  Flat!SetUp
<1>1. View' \in [Addr -> Copy]
  BY DEF TypeOK, View, ShadowByte
<1> QED BY <1>1 DEF Flat!SetUp, Flat!Byte, Flat!Unmapped, Wanted, Empty

\* A read that fails is a ReadFails: the page of the current address is not
\* there, so the address is not.
LEMMA ReadFailFlat ==
  ASSUME FlatInv, NEW a \in Addr, ReadFail(a), View' = View, phase' = phase
  PROVE  Flat!ReadFails
<1>1. a \in todo /\ todo' = {} /\ status' = "UnmappedRead"
  BY DEF ReadFail, MissAll, At
<1>2. View[a] = None
  <2>1. PICK b \in PageBytes(PageOf[a]) : View[b] = None
    BY DEF ReadFail
  <2>2. b \in Addr /\ PageOf[b] = PageOf[a]
    BY <2>1 DEF PageBytes
  <2> QED BY <2>1, <2>2, PageFails DEF FlatInv, Inv
<1>3. a \in Wanted /\ Wanted # {} /\ Wanted' = {}
  BY <1>1 DEF Wanted
<1> QED BY <1>1, <1>2, <1>3
        DEF Flat!ReadFails, Flat!Nothing, Flat!Unmapped, Empty

\* A step that hands over a line is a ReadOk when it is the last of the read,
\* and invisible otherwise.
LEMMA DeliverFlat ==
  ASSUME FlatInv, FlatInv', NEW a \in Addr, At(a), Deliver(a),
         Holds(l1', LineBytes(a)), View' = View, phase' = phase
  PROVE  Flat!ReadOk \/ UNCHANGED Flat!flatVars
<1> DEFINE got == todo \cap LineBytes(a)
<1>1. /\ a \in todo /\ status = "busy" /\ todo \subseteq Addr
      /\ \A b \in Addr : out[b] # None => out[b] = View[b]
  BY DEF At, FlatInv, ReadState, Inv, TypeOK
<1>2. \A b \in got : l1'[b] # None /\ l1'[b] = View[b]
  BY <1>1 DEF FlatInv, CoherentAt, Holds
<1>3. /\ todo' = todo \ got
      /\ out' = [b \in Addr |-> IF b \in got THEN View[b] ELSE out[b]]
      /\ status' = IF todo' = {} THEN "Ok" ELSE "busy"
  BY <1>1, <1>2 DEF Deliver
<1>4. Wanted = todo \cup {b \in Addr : out[b] # None} /\ Wanted # {}
  BY <1>1 DEF Wanted
<1>5. CASE todo' # {}
  <2>1. Wanted' = Wanted
    BY <1>1, <1>2, <1>3, <1>4, <1>5 DEF Wanted
  <2> QED BY <1>1, <1>3, <1>5, <2>1 DEF Flat!flatVars
<1>6. CASE todo' = {}
  <2>1. \A b \in Wanted : View[b] # None
    BY <1>1, <1>2, <1>3, <1>4, <1>6
  <2>2. out' = [b \in Addr |-> IF b \in Wanted THEN View[b] ELSE None]
    BY <1>1, <1>3, <1>4, <1>6
  <2>3. Wanted' = {} /\ status' = "Ok"
    BY <1>3, <1>6 DEF Wanted
  <2> QED BY <1>4, <2>1, <2>2, <2>3 DEF Flat!ReadOk, Flat!Unmapped
<1> QED BY <1>5, <1>6

\* A guest write is a Write of the flat memory.
LEMMA WriteFlat ==
  ASSUME FlatInv, FlatInv', NEW A \in Accesses, Write(A)
  PROVE  Flat!Write(A)
<1>1. A \in SUBSET Addr
  BY AccessAssumption
<1>2. /\ clock' = clock + 1 /\ clock' \in Version
      /\ shadow' = ShadowWritten(A, clock')
      /\ UNCHANGED <<target, readable, priv, phase, todo>>
      /\ phase = "run" /\ todo = {} /\ status' = "Written"
  BY DEF Write, FlatInv, Inv, TypeOK, targetVars
<1>3. /\ \A b \in A : View'[b] = clock'
      /\ \A b \in Addr \ A : View[b] # None => View'[b] = View[b]
      /\ \A b \in Addr \ A : View[b] = None => View'[b] \in {None, 0}
  BY <1>1, <1>2, WriteView DEF FlatInv, Inv
<1>4. View' \in [Addr -> Copy]
  BY DEF FlatInv, Inv, TypeOK, View, ShadowByte
<1>5. Wanted = {} /\ Wanted' = {}
  BY <1>2 DEF Wanted
<1> QED BY <1>2, <1>3, <1>4, <1>5
        DEF Flat!Write, Flat!Byte, Flat!Unmapped, Flat!Nothing, Empty

\* Every step of the chain is a step of the flat memory or invisible to it.
LEMMA FlatSimulates ==
  ASSUME FlatInv, FlatInv', [Next]_vars, ~TargetLive, ~TargetMayFail
  PROVE  Flat!Next \/ UNCHANGED Flat!flatVars
<1>0. TypeOK /\ TypeOK'
  BY DEF FlatInv, Inv
<1>1. ASSUME NEW r \in PrivateRanges, AddPrivateRegion(r)
      PROVE  Flat!SetUp
  BY <1>0, <1>1, FlatSetUp DEF AddPrivateRegion, readVars
<1>2. ASSUME NEW A \in Accesses, SetupWrite(A)
      PROVE  Flat!SetUp
  BY <1>0, <1>2, FlatSetUp DEF SetupWrite, DirectWrite, readVars
<1>3. ASSUME Prefetch PROVE Flat!SetUp
  BY <1>0, <1>3, FlatSetUp DEF Prefetch, readVars
<1>4. ASSUME PushSentinel PROVE Flat!SetUp
  BY <1>0, <1>4, FlatSetUp DEF PushSentinel, DirectWrite, readVars
<1>5. ASSUME NEW r \in ProtRanges, NEW w \in {"W", "RO"}, Protect(r, w)
      PROVE  UNCHANGED Flat!flatVars
  <2>1. UNCHANGED <<target, readable, priv, shadow, phase, todo, out, status>>
    BY <1>5 DEF Protect, targetVars, readVars
  <2> QED BY <2>1, ViewUnchanged, FlatStutter
<1>6. ASSUME NEW A \in Accesses, BeginRead(A)
      PROVE  Flat!BeginRead(A)
  <2>1. /\ UNCHANGED <<target, readable, priv, shadow, phase>>
        /\ phase = "run" /\ todo = {} /\ todo' = A /\ out' = Empty /\ status' = "busy"
    BY <1>6 DEF BeginRead, targetVars, shadowVars
  <2>2. View' = View
    BY <2>1, ViewUnchanged
  <2>3. Wanted = {} /\ Wanted' = A
    BY <2>1, AccessAssumption DEF Wanted, Empty
  <2> QED BY <2>1, <2>2, <2>3
          DEF Flat!BeginRead, Flat!Nothing, Flat!Unmapped, Empty
<1>7. ASSUME NEW a \in Addr, ReadFail(a)
      PROVE  Flat!ReadFails
  BY <1>7, ReadFlat, ReadFailFlat
<1>8. ASSUME NEW a \in Addr,
             ReadHitL1(a) \/ ReadHitL2(a) \/ ReadHitL3(a) \/ ReadFetch(a)
      PROVE  Flat!ReadOk \/ UNCHANGED Flat!flatVars
  <2>1. At(a) /\ Deliver(a)
    BY <1>8 DEF ReadHitL1, ReadHitL2, ReadHitL3, ReadFetch, MissAll
  <2>2. Holds(l1', LineBytes(a))
    BY <1>0, <1>8, LineInL1
  <2>3. View' = View /\ phase' = phase
    BY <1>8, ReadFlat
  <2> QED BY <2>1, <2>2, <2>3, DeliverFlat
<1>9. ASSUME NEW A \in Accesses, Write(A)
      PROVE  Flat!Write(A)
  BY <1>9, WriteFlat
<1>10. ASSUME NEW A \in Accesses, WriteDenied(A)
       PROVE  Flat!WriteDenied
  <2>1. /\ UNCHANGED <<target, readable, priv, shadow, phase, todo>>
        /\ phase = "run" /\ todo = {} /\ status' = "ProtectionViolation"
    BY <1>10 DEF WriteDenied, targetVars, shadowVars
  <2>2. View' = View
    BY <2>1, ViewUnchanged
  <2>3. Wanted = {} /\ Wanted' = {}
    BY <2>1 DEF Wanted
  <2> QED BY <2>1, <2>2, <2>3
          DEF Flat!WriteDenied, Flat!Nothing, Flat!Unmapped, Empty
<1>11. ASSUME Invalidate PROVE UNCHANGED Flat!flatVars
  <2>1. UNCHANGED <<target, readable, priv, shadow, phase, todo, out, status>>
    BY <1>11 DEF Invalidate, InvalidateL1, InvalidateL2, InvalidateL3, targetVars,
                 shadowVars, readVars
  <2> QED BY <2>1, ViewUnchanged, FlatStutter
<1>12. ~Target
  BY DEF Target, TargetChange, TargetMap, TargetUnmap
<1>13. ASSUME UNCHANGED vars PROVE UNCHANGED Flat!flatVars
  <2>1. UNCHANGED <<target, readable, priv, shadow, phase, todo, out, status>>
    BY <1>13 DEF vars
  <2> QED BY <2>1, ViewUnchanged, FlatStutter
<1> QED
  BY <1>1, <1>2, <1>3, <1>4, <1>5, <1>6, <1>7, <1>8, <1>9, <1>10, <1>11, <1>12, <1>13
  DEF Next, Setup, Read, GuestWrite, Flat!Next

\* The three caches over the copy-on-write pages are a flat memory, whatever
\* their geometry, as long as the target stands still: no sequence of partial
\* reads, failed fetches, evictions and invalidations is visible to the guest.
THEOREM ImplementsFlatMemory ==
  ASSUME ~TargetLive, ~TargetMayFail
  PROVE  Spec => FlatMemorySpec
<1>1. Init => Flat!Init
  <2> SUFFICES ASSUME Init PROVE Flat!Init
    OBVIOUS
  <2>1. View \in [Addr -> Copy]
    BY InitType, ViewType
  <2> QED BY <2>1 DEF Init, Wanted, Empty, Flat!Init, Flat!Byte, Flat!Nothing,
                      Flat!Unmapped
<1>2. FlatInv /\ [Next]_vars => FlatInv'
  BY FlatStep
<1>3. FlatInv /\ FlatInv' /\ [Next]_vars => [Flat!Next]_(Flat!flatVars)
  BY FlatSimulates
<1> QED BY FlatInit, <1>1, <1>2, <1>3, PTL DEF Spec, FlatMemorySpec, Flat!Spec

-----------------------------------------------------------------------------
(* Bytes the guest has written, over a target that does not change its bytes *)
(* but whose pages may stop being readable.                                  *)

\* A byte of version 2 and above is the guest's own, and sits in its shadow page.
OwnAt(a) == shadow[a] > 1 => /\ l1[a] \in {None, shadow[a]}
                             /\ l2[a] \in {None, shadow[a]}
                             /\ l3[a] \in {None, shadow[a]}

\* What is in the caches before the guest runs.
EarlyClean ==
  /\ phase # "run" => l1 = Empty /\ l2 = Empty /\ todo = {}
  /\ phase = "setup" => l3 = Empty
  /\ phase = "armed" => \A a \in Addr : l3[a] # None => RegionOf[a] = RegionOf[Entry]

OwnInv ==
  /\ TypeOK /\ EntriesWhole
  /\ (\A a \in Addr : target[a] = 1)
  /\ EarlyClean
  /\ (\A a \in Addr : OwnAt(a))

\* A byte of version 2 and above is read from its shadow page.
LEMMA OwnView ==
  ASSUME TypeOK, \A a \in Addr : target[a] = 1, NEW a \in Addr
  PROVE  /\ shadow[a] > 1 => View[a] = shadow[a]
         /\ View[a] > 1 => shadow[a] = View[a]
<1>1. View[a] = ShadowByte(a) /\ shadow[a] \in Copy /\ target[a] = 1
  BY DEF View, TypeOK
<1> QED BY <1>1 DEF ShadowByte

\* A write through the shadow pages makes only the bytes in its range the guest's.
LEMMA OwnShadow ==
  ASSUME TypeOK, \A a \in Addr : target[a] = 1, NEW A \in SUBSET Addr,
         NEW v \in Version, shadow' = ShadowWritten(A, v)
  PROVE  /\ \A a \in A : shadow'[a] = v
         /\ \A a \in Addr \ A : shadow'[a] > 1 => shadow'[a] = shadow[a]
<1>1. \A a \in Addr : shadow'[a] = IF a \in A THEN v
        ELSE IF shadow[a] = None /\ \E b \in A : PageOf[b] = PageOf[a]
             THEN CowByte(a) ELSE shadow[a]
  BY DEF ShadowWritten
<1>2. \A a \in Addr : CowByte(a) \in {0, 1}
  BY DEF CowByte
<1> QED BY <1>1, <1>2

\* A write past the caches is harmless where they hold no copy.
LEMMA DirectWriteOwn ==
  ASSUME OwnInv, NEW A \in SUBSET Addr, DirectWrite(A),
         \A a \in A : l1[a] = None /\ l2[a] = None /\ l3[a] = None
  PROVE  \A a \in Addr : OwnAt(a)'
<1>1. UNCHANGED <<l1, l2, l3>>
  BY DEF DirectWrite, chainVars
<1>2. CASE WriteAllowed(A)
  <2>1. clock + 1 \in Version /\ shadow' = ShadowWritten(A, clock + 1)
    BY <1>2 DEF DirectWrite, OwnInv, TypeOK
  <2>2. \A a \in Addr \ A : shadow'[a] > 1 => shadow'[a] = shadow[a]
    BY <2>1, OwnShadow DEF OwnInv
  <2> QED BY <1>1, <2>2 DEF OwnInv, OwnAt
<1>3. CASE ~WriteAllowed(A)
  BY <1>1, <1>3 DEF DirectWrite, OwnInv, OwnAt
<1> QED BY <1>2, <1>3

\* A step that leaves the shadow pages alone and at most drops copies.
LEMMA DropOwn ==
  ASSUME OwnInv, shadow' = shadow, phase' = phase, phase # "run" => todo' = {},
         \A b \in Addr : /\ l1'[b] \in {None, l1[b]}
                         /\ l2'[b] \in {None, l2[b]}
                         /\ l3'[b] \in {None, l3[b]},
         l1' \in [Addr -> Copy], l2' \in [Addr -> Copy], l3' \in [Addr -> Copy]
  PROVE  (\A a \in Addr : OwnAt(a)') /\ EarlyClean'
<1>1. \A a \in Addr : OwnAt(a)'
  BY DEF OwnInv, OwnAt
<1>2. phase # "run" => l1' = Empty /\ l2' = Empty
  BY DEF OwnInv, EarlyClean, Empty
<1>3. phase = "setup" => l3' = Empty
  BY DEF OwnInv, EarlyClean, Empty
<1>4. phase = "armed" => \A a \in Addr : l3'[a] # None => RegionOf[a] = RegionOf[Entry]
  BY DEF OwnInv, EarlyClean
<1> QED BY <1>1, <1>2, <1>3, <1>4 DEF EarlyClean

\* Every step keeps the guest's bytes the same in every layer.
LEMMA OwnStep ==
  ASSUME OwnInv, [Next]_vars, ~TargetLive
  PROVE  OwnInv'
<1> DEFINE Goal == (\A a \in Addr : OwnAt(a)') /\ EarlyClean'
<1>0. /\ \A A \in Accesses : A \in SUBSET Addr
      /\ Stack \in SUBSET Addr
  BY AccessAssumption
<1>t. TypeOK' /\ EntriesWhole'
  BY TypeStep, WholeStep DEF OwnInv
<1>u. l1' \in [Addr -> Copy] /\ l2' \in [Addr -> Copy] /\ l3' \in [Addr -> Copy]
  BY <1>t DEF TypeOK
<1>s. phase # "run" => /\ todo = {} /\ l1 = Empty /\ l2 = Empty
                       /\ \A b \in Addr : l1[b] = None /\ l2[b] = None
  BY DEF OwnInv, EarlyClean, Empty
<1>v. target' = target
  BY DEF Next, Setup, Read, GuestWrite, Invalidate, Target, vars, AddPrivateRegion,
     SetupWrite, Prefetch, PushSentinel, DirectWrite, Protect, BeginRead, ReadHitL1,
     ReadHitL2, ReadHitL3, ReadFetch, ReadFail, Write, WriteDenied, InvalidateL1,
     InvalidateL2, InvalidateL3, TargetChange, TargetMap, TargetUnmap, targetVars
<1>1. ASSUME NEW r \in PrivateRanges, AddPrivateRegion(r)
      PROVE  Goal
  BY <1>1, <1>s, <1>u, DropOwn DEF AddPrivateRegion, chainVars, readVars
<1>2. ASSUME NEW A \in Accesses, SetupWrite(A)
      PROVE  Goal
  <2>1. phase = "setup" /\ phase' = "setup" /\ DirectWrite(A)
        /\ UNCHANGED <<l1, l2, l3, todo>>
    BY <1>2 DEF SetupWrite, DirectWrite, readVars, chainVars
  <2>2. l3 = Empty /\ \A b \in Addr : l3[b] = None
    BY <2>1 DEF OwnInv, EarlyClean, Empty
  <2>3. \A a \in Addr : OwnAt(a)'
    BY <1>0, <1>s, <2>1, <2>2, DirectWriteOwn
  <2> QED BY <1>s, <2>1, <2>2, <2>3 DEF EarlyClean, Empty
<1>3. ASSUME Prefetch PROVE Goal
  <2>1. /\ UNCHANGED <<shadow, l1, l2, todo>> /\ phase = "setup" /\ phase' = "armed"
        /\ FetchRegion(RegionOf[Entry])
    BY <1>3 DEF Prefetch, shadowVars, readVars
  <2>2. RegionOf[Entry] \in Regions
    BY AccessAssumption DEF Regions
  <2>3. \A b \in Addr : \/ l3'[b] \in {None, l3[b]}
                        \/ RegionOf[b] = RegionOf[Entry] /\ l3'[b] = View[b]
    BY <2>1, <2>2, FetchEffect DEF OwnInv
  <2>4. \A b \in Addr : l3[b] = None
    BY <2>1 DEF OwnInv, EarlyClean, Empty
  <2>5. \A a \in Addr : OwnAt(a)'
    BY <1>s, <2>1, <2>3, <2>4, OwnView DEF OwnInv, OwnAt
  <2> QED BY <1>s, <2>1, <2>3, <2>4, <2>5 DEF EarlyClean, Empty
<1>4. ASSUME PushSentinel PROVE Goal
  <2>1. phase = "armed" /\ phase' = "run" /\ DirectWrite(Stack)
    BY <1>4 DEF PushSentinel
  <2>2. \A a \in Stack : l3[a] = None
    BY <1>0, <2>1, StackApart DEF OwnInv, EarlyClean
  <2>3. \A a \in Addr : OwnAt(a)'
    BY <1>0, <1>s, <2>1, <2>2, DirectWriteOwn
  <2> QED BY <2>1, <2>3 DEF EarlyClean
<1>5. ASSUME NEW r \in ProtRanges, NEW w \in {"W", "RO"}, Protect(r, w)
      PROVE  Goal
  BY <1>5, <1>s, <1>u, DropOwn DEF Protect, chainVars, readVars
<1>6. ASSUME NEW A \in Accesses, BeginRead(A)
      PROVE  Goal
  BY <1>6, <1>u, DropOwn DEF BeginRead, shadowVars, chainVars
<1>7. ASSUME NEW a \in Addr,
             \/ ReadHitL1(a) \/ ReadHitL2(a) \/ ReadHitL3(a)
             \/ ReadFetch(a) \/ ReadFail(a)
      PROVE  Goal
  <2>1. shadow' = shadow /\ phase' = phase /\ At(a)
    BY <1>7 DEF ReadHitL1, ReadHitL2, ReadHitL3, ReadFetch, ReadFail, MissAll, shadowVars
  <2>2. phase' = "run"
    BY <1>s, <2>1 DEF At, OwnInv, TypeOK
  <2>3. ReadEffect(a)
    BY <1>7, ReadEffectHolds DEF OwnInv
  <2>4. \A b \in Addr : shadow[b] > 1 => View[b] = shadow[b]
    BY OwnView DEF OwnInv
  <2>5. \A b \in Addr : OwnAt(b)'
    BY <2>1, <2>3, <2>4 DEF OwnInv, OwnAt, ReadEffect
  <2> QED BY <2>2, <2>5 DEF EarlyClean
<1>8. ASSUME NEW A \in Accesses, Write(A)
      PROVE  Goal
  <2>1. /\ clock' \in Version /\ shadow' = ShadowWritten(A, clock')
        /\ phase' = "run"
    BY <1>8, <1>t DEF Write, TypeOK
  <2>2. \A b \in Addr : /\ l1'[b] = IF b \in A /\ l1[b] # None THEN clock' ELSE l1[b]
                        /\ l2'[b] = IF b \in A /\ l2[b] # None THEN clock' ELSE l2[b]
                        /\ l3'[b] = IF b \in A /\ l3[b] # None THEN clock' ELSE l3[b]
    BY <1>8 DEF Write, Patch
  <2>3. /\ \A a \in A : shadow'[a] = clock'
        /\ \A a \in Addr \ A : shadow'[a] > 1 => shadow'[a] = shadow[a]
    BY <1>0, <2>1, OwnShadow DEF OwnInv
  <2>4. \A a \in Addr : OwnAt(a)'
    BY <2>2, <2>3 DEF OwnInv, OwnAt
  <2> QED BY <2>1, <2>4 DEF EarlyClean
<1>9. ASSUME NEW A \in Accesses, WriteDenied(A)
      PROVE  Goal
  BY <1>9, <1>u, DropOwn DEF WriteDenied, shadowVars, chainVars
<1>10. ASSUME Invalidate PROVE Goal
  <2>1. PICK A \in Accesses \cup {Addr} :
          InvalidateL1(A) \/ InvalidateL2(A) \/ InvalidateL3(A)
    BY <1>10 DEF Invalidate
  <2>2. /\ shadow' = shadow /\ phase' = phase /\ todo' = todo
        /\ l1' = l1 \/ l1' = Drop(l1, Touching(A, LineOf))
        /\ l2' = l2 \/ l2' = Drop(l2, Touching(A, PageOf))
        /\ l3' = l3 \/ l3' = Drop(l3, Touching(A, RegionOf))
    BY <2>1 DEF InvalidateL1, InvalidateL2, InvalidateL3, shadowVars, readVars
  <2>3. \A b \in Addr : /\ l1'[b] \in {None, l1[b]}
                        /\ l2'[b] \in {None, l2[b]}
                        /\ l3'[b] \in {None, l3[b]}
    BY <2>2 DEF Drop
  <2> QED BY <1>s, <1>u, <2>2, <2>3, DropOwn
<1>11. ASSUME Target PROVE Goal
  BY <1>11, <1>s, <1>u, DropOwn
  DEF Target, TargetChange, TargetMap, TargetUnmap, shadowVars, chainVars, readVars
<1>12. ASSUME UNCHANGED vars PROVE Goal
  BY <1>12, <1>s, <1>u, DropOwn DEF vars
<1>13. Goal
  BY <1>1, <1>2, <1>3, <1>4, <1>5, <1>6, <1>7, <1>8, <1>9, <1>10, <1>11, <1>12
  DEF Next, Setup, Read, GuestWrite
<1>14. (\A a \in Addr : target[a] = 1)'
  BY <1>v DEF OwnInv
<1> QED BY <1>t, <1>13, <1>14 DEF OwnInv

\* A byte the guest has written is the same in L1, L2, L3 and ShadowPages, through
\* failed fetches, evictions and invalidations, and whatever pages of the target
\* stop being readable.
THEOREM OwnBytesCoherentHolds ==
  ASSUME ~TargetLive
  PROVE  Spec => []OwnBytesCoherent
<1>1. Init => OwnInv
  <2> SUFFICES ASSUME Init PROVE OwnInv
    OBVIOUS
  <2>1. TypeOK /\ EntriesWhole
    BY InitType DEF Init, Empty, EntriesWhole
  <2> QED BY <2>1 DEF Init, OwnInv, OwnAt, EarlyClean, Empty
<1>2. OwnInv /\ [Next]_vars => OwnInv'
  BY OwnStep
<1>3. OwnInv => OwnBytesCoherent
  <2> SUFFICES ASSUME OwnInv, NEW a \in Addr, View[a] > 1, NEW c \in {l1, l2, l3}
               PROVE  c[a] \in {None, View[a]}
    BY DEF OwnBytesCoherent
  <2>1. shadow[a] = View[a] /\ OwnAt(a)
    BY OwnView DEF OwnInv
  <2> QED BY <2>1 DEF OwnAt
<1> QED BY <1>1, <1>2, <1>3, PTL DEF Spec

=============================================================================
