# picoCPU in TLA+

picoCPU emulates x86-64 user-mode code. It attaches to a running Windows
process, reads that process's memory through three caches, decodes and runs a
function of it on its own CPU state, and keeps every write in private
copy-on-write pages. This directory holds a model of the parts of it that keep
state over time, the TLC configurations that check the model, and the proofs
about it. Paths below are relative to the repository (`src/emu/...`).

Notation: a *step* is an action of a module. The unit of atomicity is chosen per
module and given there.

## 1. The system

| component | files | state | operations |
|---|---|---|---|
| L1, L2, L3 caches | `emu/memory/l1_cache.cpp`, `l2_cache.cpp`, `l3_cache.cpp` | direct-mapped 64-byte lines; direct-mapped 4 KiB pages; 2 MiB regions with `last_use` | read, write, invalidate, flush; L3 prefetch_region |
| ShadowPages | `emu/memory/shadow_pages.cpp` | copy-on-write pages, private ranges, permissions, code ranges | read, write, protect, add_private_region, add_code_range |
| Target reader | `host/win_process.cpp` | none of its own (the target's memory) | read (ReadProcessMemory) |
| Dispatcher | `emu/dispatcher/dispatcher.cpp` | RIP, halt flag, latched fault, branch flag, instruction count | run_with_cpu |
| Block cache, decode_block | `emu/cache/block_cache.cpp` | decoded blocks by start address | lookup, insert, invalidate_range, clear |
| IAT stubs | `emu/iat_stubs.cpp` | bound entries, handlers by name | bind, on, dispatch |
| Hooks | `emu/include/emu/hooks.h` | lists of callbacks | add, remove, for_each |
| CPU state, flags, faults | `emu/cpu/*.cpp` | registers, lazy flags, x87 stack, fault | reset, set_fault, snapshot, restore |
| Decoder, IR, peephole | `emu/decoder/*`, `emu/ir/*` | none | decode_one, peephole passes |
| Handlers | `emu/handlers/*` | through the CPU state | one per operation |
| StubHeap | `emu/include/emu/stub_heap.h` | block list | install, alloc, free |
| Guest heap | `emu/memory/heap.cpp` | bump pointer and free lists in guest memory | alloc, free |
| Logger | `emu/logger/logger.cpp` | ring of 1024 records, sequence words, flush thread | init, emit, flush, shutdown |
| SEH, PE, TLS | `host/seh.cpp`, `pe_image.cpp`, `pe_loader.cpp`, `win_tls.cpp` | .pdata, import and relocation tables | load, unwind, dispatch to handlers |
| Tester, target | `tester/tester.cpp`, `target/target.cpp` | command line | wires all of the above |

Interaction. A handler reads and writes through L1, which calls L2, L3,
ShadowPages and the target in turn (calls, returning a `Status`). ShadowPages
calls the write listener, a lambda of the tester, when a write hits a code
range; the lambda calls `BlockCache::invalidate_range`. The dispatcher looks up
blocks, has them decoded through the same memory chain, calls handlers, hooks
and the recovery callback, and calls `IatStubs::dispatch` when RIP enters the
stub region; stub handlers call StubHeap. Everything logs. Two things are
concurrent: the target process, which is never suspended, and the flush thread
of the logger.

What is hard, per component, and what makes it right:

* **Memory chain.** A byte can be cached at three granularities, each filled at
  its own time from a target that keeps changing it; writes patch cached copies
  on the way up; copy-on-write freezes a whole page at the first write to it;
  fetches fail half way; setup writes bypass the caches. Right means: a guest
  never sees a byte go back to an older value, a write changes nothing but its
  range, and over a target that stands still the whole is one flat memory.
* **Dispatcher and block cache.** Stops, budget, halts, faults, recovery and
  breakpoints are tested at different places of two nested loops, and stores
  may erase the block the inner loop is iterating over. Right means: cached
  blocks are what memory holds, stops and budgets are kept, every run ends,
  what is executed is the current code.
* **StubHeap.** Splitting and coalescing with indices that move, 64-bit
  rounding. Right means: it is an allocator.
* **Logger.** Unlocked producers, one consumer, a lossy notification, shutdown.
  Right means: in order, whole, none lost unless the ring overflows, and a
  logging thread is never blocked.
* **Flags and integer handlers.** An instruction leaves its operands and result;
  a later reader turns them into flags, and instructions that preserve some
  flags, stores that fault, snapshots and POPF come in between. Right means: as
  if the flags had been updated at once.
* **Guest heap.** Its free lists are threaded through memory the guest owns, and
  their links can be refused by the pages. Right means: blocks never overlap,
  none is lost, each has the room asked for.
* **Decoder and handlers.** Sequential, but an instruction is decoded from bytes
  that may end in the middle of it, its length is the sum of what some 400
  branches read, and it is executed again from its start after a fault that the
  host repaired. Right means: as long as the architecture says, the same
  whatever lies behind it, and with the effect it would have had without faults.
* **Peephole.** Instructions are replaced after decoding. Right means: the block
  does what it did before.

`PROJECT.json` lists the hazards line by line with the properties that cover
them.

## 2. The modules

| module | models | atomicity |
|---|---|---|
| `MemChain` | the caches, ShadowPages, the tester's setup and the live target | one line of a read; a whole write or invalidation |
| `FlatMemory` | what a `MemoryProvider` promises (abstract) | a call |
| `MCMemChain` | instances of MemChain | |
| `MemChainProofs` | types, age order, entries, writes and coherence of MemChain; it implements FlatMemory | |
| `Dispatcher` | run_with_cpu, block cache, write listener, stub dispatch | one instruction, stub or block fetch |
| `MCDispatcher` | an instance of Dispatcher | |
| `DispatcherProofs` | the invariants of Dispatcher | |
| `LogRing` | emit, flush_loop, shutdown | one atomic operation |
| `LogRingProofs` | order, drain and writers of the ring | |
| `Allocator` | what HeapAlloc and HeapFree promise (abstract) | a call |
| `StubHeap` | the block list behind them | a call |
| `StubHeapProofs` | the list tiles the region, stays coalesced and implements Allocator; the results on GuestHeap for MCHeaps | |
| `GuestHeap` | the size-class heap in guest memory, and the guest that uses it | a call, a guest store |
| `GuestHeapProofs` | its blocks stay apart, none leaks, each has room | |
| `MCHeaps` | an instance of StubHeap, or else one of GuestHeap | |
| `Alu` | words of 1, 2, 4 or 8 bytes, the compute functions of `flags.cpp`, the conditions | |
| `ArchFlags` | what an instruction does to flags and destination (abstract) | an instruction |
| `LazyFlags` | the integer handlers, stash and sync, snapshot, restore, reset | an instruction |
| `MCLazyFlags` | an instance of LazyFlags | |
| `LazyFlagsProofs` | LazyFlags implements ArchFlags, and CMP decides the comparison, for every size | |
| `Prefixes` | the prefix scanner, REX, VEX, EVEX, ModRM and SIB | |
| `Opcodes` | the opcode tables: for every opcode its kind, size, operands and format | |
| `Decoder` | decode_one and decode_bytes over bytes that become readable | a byte |
| `Handlers` | data movement, branches, strings, syscalls, with refused accesses | |
| `GuestStep` | one instruction: decode, execute, fault, recover (composes the two) | a handler |
| `Peephole` | peephole_block, and the block run with it and without it | an instruction |
| `PeepholeProofs` | what the pass folds does the same, but for 32-bit instructions and LEA with a segment base | |
| `MCGuestStep` | an instance of GuestStep, or else one of Peephole | |
| `GuestStepProofs` | what the decoder says: lengths, own bytes only, buffers; handlers that restart, branches that end their block, strings; the result on Peephole for MCGuestStep | |

**MemChain.** Data is abstracted to *versions*: each change of a byte, by the
guest or by the target, gets a version newer than all before it (`clock`), so
two copies of a byte are compared by age, and 0 is the zero of a private page. A
cache is a partial map from addresses to versions (`l1`, `l2`, `l3`, `shadow`);
a valid entry with tag t is the map being defined on the addresses of t, which
`EntriesWhole` checks rather than assumes. (It is about the abstraction, not about
`valid`: a byte that a failed refill has half overwritten is simply dropped.)
`older` is `last_use` of L3 as an order. `Victims` picks the least recently used
entry as `prefetch_region` does
when none is free; which of several free entries is used cannot be observed.
`Fill(c, old, S, from)` is `memcpy` into the slot that held `old`. A read takes
one step per L1 line (`ReadHitL1`, `ReadHitL2`, `ReadHitL3`, `ReadFetch`,
`ReadFail`), so the target may change between two lines of one read. It may also
change between two bytes of one `ReadProcessMemory`; a fill is atomic here,
which loses nothing for the properties stated, as they speak of one byte each.
Writes are whole: no other thread of the emulator runs, and the target cannot
observe a write. `floor[a]` is a history variable, the newest version of a the
guest has read or written. `phase` follows the tester: reserve private ranges
and write initial data (straight into ShadowPages), prefetch the region of the
entry point, push the sentinel return address (again below the caches), run.
`TargetLive` and `TargetMayFail` say what the target process may do: write and
map memory, and unmap it. Code ranges and the listener are in Dispatcher.

**Dispatcher.** An instruction occupies one address and is known by what it may
do to control flow: `op`, `store`, `branch`, or `bad` (does not decode); any of
them may fault. `FetchBlock` is lookup, decode_block and insert with the BLOCK
hooks; `ExecStraight`, `ExecBranch`, `ExecRecovered` and `ExecHalted` are the four
ways out of one iteration of the replay loop after the handler, `ReplayHalted`
and `HitBreakpoint` the two before it; `StubReturn` and `StubFails` are
`IatStubs::dispatch`. `LeaveBlock` is the stop check after the inner loop. The
fault of an earlier run stays latched when a run starts, as in the code. When a
store erases the block being replayed, what the loop reads next is freed
memory: in the model it finds the old instructions, or the program crashes
(`ReadBack`). Between runs the host may write code and clear the block cache.

The decoder reads through L1, L2 and L3. Of these the module keeps `above`: for
each address the older instructions that caches still hold, the one a read finds
first in front (`Seen`); a copy that equals what is below it needs no mention.
`WriteCode` is a write through the chain, by the guest, a stub or the host
(`HostWrite`): it brings the copies up to date and tells the listener.
`HostWriteBelow` is the host's write straight into ShadowPages, as the tester
makes while it sets up memory: the listener erases the blocks, but a cache that
holds the instruction may keep the old one, or not have had it. `GiveUp` is an
eviction or an invalidation, which may come at any time. So an erased block may
be decoded again from an old copy: `hidden` names the addresses last written
under one, and BlocksFresh is about the others. A target that changes its own
code is the subject of MemChain and is not in this module. Instructions have a
length of at least one; the lengths of 0 and the scan without end of section 4
are in Decoder only.

**LogRing.** A record is its `my_seq`. Every atomic load or store of `seq`,
`write_seq`, `read_seq` and `running` is a step, and the two unsynchronised
accesses to a record's fields are intervals: a record read while a producer is
between `BeginWrite` and `Publish` is `Torn`. `lapped` is a history variable: a
producer has overwritten a record not drained yet. `Shutdown` is taken only when
no thread is inside emit, which is how the tester calls it.

**StubHeap.** `Take` splits, `Merge` coalesces, `Given` is free; sizes wrap at
`Modulus` (2^64), as in `(sz + 15) & ~15`.

**GuestHeap.** `word[a]` is the first word of the block at a, in guest memory:
`Free` stores the link there, `AllocReuse` reads it, and in between the guest
may `Store` into blocks it holds and `Protect` the pages. `lost` is a history
variable: a link was refused (`heap.cpp:68` does not look) or a list was
dropped because it could not be read; nothing is promised from then on.

**Prefixes, Opcodes, Decoder.** `bytes` are the bytes readable from RIP on, and
each step adds one, as if the page behind had been mapped; `insn` is what
`decode_one` makes of them. `Opcodes` has one entry per opcode of every map
(one-byte, 0F, 0F38, 0F3A, the VEX and EVEX maps), as a *format*: whether there is a
ModRM byte, what is read before and after it, the immediate, and which field
each operand comes from. Some 350 vector and x87 operations are one kind;
their lengths, prefixes and rejections are modelled, not which of them is meant.
Values of immediates and displacements are left out. `ByteSource.consumed` and
`Insn.len` are one byte wide: `Fetched` is what a source delivers, which after
256 bytes is the first one again; the `len` of a verdict is the low byte of what
was consumed, and a run of 256 legacy prefixes, which `decode_one` scans forever,
has the verdict `Endless`, which stands for a call that does not return.
`IsaLength` is the length
of an instruction by the architecture's rules, written from the opcode map's
regularities and not from the decoder's branches.

**Handlers, GuestStep.** Memory has N cells, and every operand is one cell wide. A
handler is a function from guest states to guest states; `Guarded(accesses, g,
then)` is a handler that makes these accesses before it changes anything: the
first one refused leaves its fault and g. `Handle` is called by `Execute`;
`Recover` is the host's callback that makes the faulting cell accessible, after
which the instruction starts again. `start` is a history variable, the state in
which it was first executed. An instruction of length 0 leaves RIP `Here` (`next`).
Instructions whose effect is only on registers and
flags are in LazyFlags.

**Peephole.** A register has two halves of 32 bits, one bit each, which is what
the widths of an operand tell apart. LEA may have an FS or GS override (`seg`), which
adds `base`; for the others an override changes only the address of what they
load, and what memory holds is the same everywhere. After `Fold` the block runs
twice, side by
side: `plain` executes what was decoded and `fast` what is cached.

**LazyFlags.** `rflags` is the set of flags that are 1 in `rflags_`, of the six
arithmetic ones and DF; `cc` is the stash. A flag state is a record of the two;
`Now` is the one a handler finds and `Synced` the one `sync_flags_` leaves, so a
handler reads as in the code: which of the two it starts from, what it stashes
or sets, and what is left behind when the store fails (the last argument of
`Write`). An instruction carries the values of its operands: what the registers
and memory hold is not state of this module, so any instruction may follow any
other with any operands of the instance. `out` is what the instruction wrote or
reported, for the comparison with `ArchFlags`. `OpJcc` reports all the conditions
at once. Adc and Sbb share the stash of Add and Sub with `src2` = 1, and the
words of a stash that has been synced, which nothing reads, are dropped. The
words are exact, so `Alu` is arithmetic modulo 2^8 ... 2^64 and not a width made
small. Powers of two are the recursive function `Pow2` and a word is put together
from its bits by another (`WordOf`), not by `^` and a fold: the provers have no
facts about `2 ^ k` for a k they do not know. The 64-bit forms of MUL, IMUL, DIV and
IDIV are those
of the MSVC build for x64, the one that attaches to processes (128-bit
products; `_udiv128`; an IDIV that divides only when the upper half is the sign
of the lower, `TooWide`); other builds fall back to 64 bits. Left out: those;
BMI; the dividends of IDIV whose quotient overflows in the host (undefined
behaviour).
`ArchFlags` states each flag by its meaning (a carry is a sum that does not fit,
an overflow a signed sum that does not, a shift is a shift by one repeated),
independently of the formulas of `flags.cpp`. What handler comments call
undefined is free there. Four places where the code is not the architecture
are free too, so that the refinement says precisely where they are: AF after
NEG (`flags.cpp:165` has bit 4 of operand | result), OF after SHRD by one, a
64-bit IDIV that refuses a dividend of more than one word (`MayRefuse`), and the
flags that RCR, BTS, BTR and BTC change before a store that fails
(`Imprecise`).

## 3. What is checked

| run | instance | shows |
|---|---|---|
| `mem_live` | 5 bytes, 4 lines, 3 pages, 2 regions; 2 L1 and 2 L2 slots, 1 L3 entry; live target; `MaxVersion` 4 | AgeOrder, NotBehindGuest, GuestNeverGoesBack, EntriesWhole |
| `mem_frozen` | the same, target stands still, private ranges and protections | Coherent; MemChain implements FlatMemory |
| `mem_lru` | 4 regions, 2 L3 entries, pages may stop being readable; `MaxVersion` 3 | OwnBytesCoherent, WriteIsolated |
| `dispatcher` | 4 instructions, 1 of them writable, 2 stubs, blocks of up to 3, budget 2, 1 return address, 1 cache above | BlocksFresh, InsideBlock, BudgetKept, StopRespected, Terminates |
| `dispatcher_smc` | the same without a cache above | finding 1 |
| `log_ring` | 2 threads, ring of 2, 4 records, 2 spins | PrintedInOrder, OneWriter, ShutdownDrains, EventuallyPrinted, EmitReturns |
| `log_overflow` | 1 thread, ring of 2, 3 records | finding 2 |
| `flags` | 65 instructions on bytes (and two on words of 2 bytes) at the edges of the ranges; snapshots after NEG | CmpDecides; LazyFlags implements ArchFlags |
| `heaps` | stub heap: 7 granules of 2 bytes, 5-bit addresses, every size and every pointer; guest heap: classes of 2, 4 and 8 bytes, 10 bytes, requests of 0, 2, 3 and 9, guest stores that look like links, protection | Tiled, Coalesced; StubHeap implements Allocator; HeapBlocksApart, HeapNoneLeaked, HeapRoomy |
| `guest_insn` | every opcode of every map behind 8 sets of prefixes; 3 cells; peephole blocks of 2 | LengthIsArchitectural, OwnBytesOnly, BufferAgrees; Restartable, StringsArchitectural, BranchesEndBlocks; FoldedRunsAlikeOtherwise |
| `rep_stops` | the same instructions | finding 3 |
| `junk_fold` | peephole blocks of 2 on 2 registers | finding 4 |

Each property also has a mutant, a small bug put in one definition of the model
(the operators named `Mut...`), under which TLC reports it violated.

Bounds and why they are enough.

* *Memory geometry.* The five bytes are laid out so that there is a line of two
  bytes, a page of two lines, a region of two pages, a page and a line alone in
  a region, two lines in one L1 slot, two pages in one L2 slot, and an access
  that crosses a line and one that crosses a page. With one L3 entry each region
  evicts the other. One page is not readable at the start, so bulk fetches fail
  and per-page fetches succeed. The LRU run has twice as many regions as
  entries. The theorems of section 5 remove these bounds for the properties
  that matter most.
* *`MaxVersion`.* Three changes after the initial state: a guest write, a target
  change before and one after it. Violations by the mutants need one or two.
* *Dispatcher.* Every kind of instruction between a store and an operation, a block
  that ends by size, by a branch, by a decode error and by the budget; a stop and a
  breakpoint inside a block. One CPU; runs are sequential, so a second CPU adds
  only its own latched fault. Number of runs is not bounded. The
  instruction that can be overwritten is the first of one block, the last or the
  middle of others and in none of the rest. One cache above suffices to hide a
  host write; DispatcherProofs has any number of caches and of writable addresses.
* *`MaxStack`.* Return addresses the guest finds above RSP; the code reads until
  RSP leaves mapped memory. Some bound exists in any address space; Terminates
  rests on it.
* *LogRing.* `MaxEmits` is twice the ring: a full lap, and a producer one lap
  behind another. `Spins` stands for 16.
* *LazyFlags.* Bytes 0, 1, 127, 128, 129, 255 and neighbours, counts 0, 1, 8, 9,
  10, 34 around the width of 8 and the mask of 31; each stash is pending before
  each instruction. No bound on the number of instructions. `SnapshotAfter`
  limits where snapshots are taken; after NEG a stash is pending. `View`
  identifies states that differ only in bits of `rflags_` which the pending stash
  replaces: every action and property depends on those through `Visible`
  only, so this loses nothing. TLC's integers end at 2^31, so sizes 4 and 8 are
  left to the theorems of section 5, which hold for every size and all operands.
* *Heaps.* No bound on the number of calls; the state space is finite. The two
  heaps share nothing: a behaviour of `MCHeaps` uses one of them. Three classes
  have a smallest, a middle and a largest one, and requests lie at, between and
  above them. A guest store writes the heap's base, a valid block address, or leaves
  the old link: both would mislead a list that did not overwrite them.
* *Instructions.* A behaviour of `MCGuestStep` decodes and executes one
  instruction, or folds and runs one block. Every opcode byte of the one-byte,
  0F, 0F38 and 0F3A maps, VEX maps 1 to 4 and EVEX maps 1 to 3, behind no
  prefix, 66, F3, F2, REX.W, REX.B, 66 REX.W and 13 times 66 (longer than 15
  bytes), and some of them behind 255 times 66, where the 8-bit count comes round,
  one 66 more included; ModRM bytes for every addressing form and every opcode
  extension, a
  SIB byte with a base and one without; displacements and immediates are zero,
  which nothing looks at. Three cells suffice for copies that overlap in both
  directions and wrap; every register a handler names takes every value that
  matters, and each cell is readable, writable or neither.
* *Peephole.* Every block of one or two foldable or branching instructions, with
  registers whose upper half is not zero and a segment base that is not zero.
  Section 5 removes the bounds.

`CHECK_DEADLOCK FALSE` is set where the system stops for good: MemChain (the
version bound is reached), Dispatcher (crashed), LogRing (the flush thread has
ended), GuestStep (the instruction is done) and Peephole (the block is).

Fairness. `Dispatcher!FairSpec`: the run loop is sequential code and a run in
progress goes on (WF of RunStep); nothing says that the host starts one.
`LogRing!FairSpec`: threads are scheduled, so the flush loop goes on and so does
a thread inside emit (WF each); nobody has to log or shut down. Waking from
`wait_for` is fair because it has a timeout; the mutant of EventuallyPrinted
shows that the notification alone is not enough.

## 4. Disagreements between the code and its documents

With a run that shows them:

1. `README.md:14` promises self-modifying code; a store into the block being
   replayed frees that block under the replay loop, which goes on with the old
   instructions or worse (`dispatcher.cpp:96`; run `dispatcher_smc`).
2. `logger.cpp:4-5` says overflow drops the oldest unread records; after one
   lap the flush thread waits for a sequence number that is gone and prints
   nothing until shutdown (run `log_overflow`).
3. `string_ops.cpp:9` says only REPE and REPNE end a loop early; F3 is taken for
   REPE in front of MOVS, STOS and LODS too, which never set the flag it looks
   at, so they stop after one element with RIP moved on (run `rep_stops`).
4. `peephole.h:3-4` says identity instructions are replaced; `mov eax, eax`,
   and 32-bit XCHG and LEA of a register on itself, clear its upper half
   (`handler_util.h:113`) and are replaced all the same (run `junk_fold`). So is
   `lea rax, gs:[rax]` of any size, to which `op_lea` adds the segment's base
   (`handler_util.h:35-39`) and `is_self_lea` does not look (`peephole.cpp:29-36`);
   the tester sets `gs_base` to the TEB (`tester.cpp:446`).
   FoldedRunsAlikeOtherwise shows that these two are all that goes wrong.

Seen while modelling, not shown by a run. The models do what the code does.

* Memory: `memory.h:28` says `out` is unmodified when a read fails; L1 copies
  line by line and a failure on the second line leaves the first in `out`.
  `cache.h:8` and `memory.h:33` say caches invalidate their own entries on a
  write; they patch them in place. Copy-on-write of a page that cannot be read
  fills it with zeros and reports success. `add_code_range` and the listener
  (`tester.cpp:807-814`) invalidate blocks, not L1, L2 and L3: after a host write
  straight into ShadowPages a block is decoded again from the old bytes these
  hold. No document promises otherwise; BlocksFresh excepts these addresses.
* Dispatcher: `hooks.h:14` says a fault hook is fired when the dispatcher
  latches a fault; faults of IAT stubs and execute breakpoints end the run past
  the hooks. `run_with_cpu` keeps the fault of an earlier run, so a halt by a
  hook is reported as that fault.
* CPU: `cpu.h:404` says `reset` resets everything to zero but the always-on bit;
  it leaves the stash, so the flags of the last instruction come back at the
  next read. (The tester makes a new Cpu and never calls it.)
  `tests/unit/test_flags_crosscheck.cpp:1-4` says the lazy and the eager flags
  are identical; after a rotate by a multiple of the width only the lazy ones
  set CF, and after a shift by more than one only the lazy ones clear OF.
* Logger: `logger.cpp:189-191` speaks of dropping a record; emit never drops one.
* Guest heap: `class_for` stops at 512 KiB where `heap.h:28` promises at least the
  size asked for; a size near 2^64 wraps to the smallest class; a free whose link
  is refused makes the block's old contents the rest of the list; a list whose
  head cannot be read is dropped.
* Syscalls: `canned_syscall_dispatch` is followed by the syscall handler's own
  fault, where `syscalls.h:14` says the CPU halts cleanly;
  `install_default_syscalls` registers the range [0, 0].
* Handlers: POP RSP yields RSP + 8. CALL RSP and CALL through [RSP + n] evaluate
  their operand after the push. CALL through memory that cannot be read has
  pushed and branches to 0. FST, FSTP and FISTP drop a store that is refused
  (`x87.cpp:72`) without a fault. LEA with an FS or GS override adds the
  segment's base, which the architecture's does not. IDIV of 64 bits refuses a
  dividend that is not the sign extension of its lower word although the quotient
  would fit. The 67 prefix is decoded and
  then ignored.
* Decoder: `decoder.h:3` speaks of 15 bytes, `decode_one` has no such limit.
  `decoder.h:18` says that `len` is the total byte count consumed; the count has 8
  bits (`decoder.cpp:51-54`, `221`), so 255 prefixes and a NOP are accepted with a
  length of 0, on which RIP stays where it is until the budget ends, and 256
  prefixes are scanned forever (both are reached by `guest_insn`). 66 68 reads four
  bytes of immediate. MOV r8, imm8
  of registers 4 to 7 without REX writes SPL to DIL instead of AH to BH
  (`modrm.cpp:61-63` does it right for ModRM operands); the register forms of
  PEXTRB and PINSRB do the opposite. 41 90 is NOP. 0F 50 and 0F D7 with a memory
  operand read no SIB and no displacement. A REX before a legacy prefix is
  rejected; 66, F2, F3 and REX before VEX are accepted. EVEX displacements are not
  scaled, V' is inverted twice, and VSIB index 4 is no index. 66 F3 0F 6F is
  decoded as MOVDQA. Some opcodes are bound to handlers of a neighbour: PMINSB
  and relatives, and FSUBRP and FDIVRP to FSUBP and FDIVP; the register form of
  DC writes ST(0).

## 5. What is proved

All proofs are for every value of the constants that satisfies the named
assumptions of the module.

`MemChainProofs`:

* `TypeCorrect`: Spec => []TypeOK.
* `AgeOrderHolds`: copies are ordered by age; `NotBehindGuestHolds`: none is
  behind the guest.
* `GuestNeverGoesBackHolds`: the guest never goes back.

These, but for the first, assume `~TargetMayFail`. Without it they are false:
copy-on-write of
a page that has become unreadable fills it with zeros below copies that are
newer. AgeOrder and NotBehindGuest are not inductive alone. The invariant `Inv`
adds `EntriesWhole` (a fill or a copy-on-write replaces whole entries, so a byte
is never left behind in a half-valid one), `SetupClean` (direct writes during
setup bypass the caches and are harmless only because these are empty then, but
for the entry region, which the stack is apart from: `StackApart`), `Bounded` (a
write's version is newer than anything), `CopiesMapped` and `FloorMapped` (a byte
once cached or seen stays readable, so that View cannot fall back to zero). The
step lemmas follow the actions: reads (`ReadEffect`: every byte of a cache is
kept, dropped or taken from the layer below), drops, writes, setup, target.

Whole entries and coherence:

* `EntriesWholeHolds`, `WriteIsolatedHolds`: whole entries and isolated writes,
  over any target (no assumption).
* `CoherentHolds`, `ImplementsFlatMemory`: with `~TargetLive` and
  `~TargetMayFail`, the caches are coherent and the chain implements
  `FlatMemory`. The invariant `FlatInv` adds to `Inv` that every copy equals the
  byte below and that what a read in progress has delivered is still true
  (`ReadState`). Each action maps to an action of FlatMemory or to a stutter: a
  line that is not the last one of a read is a stutter, the last is `ReadOk`; a
  failure is `ReadFails` because a page fails as a whole (`PageFails`).
* `OwnBytesCoherentHolds`: with `~TargetLive` alone, so that pages may stop being
  readable, the bytes the guest has written are the same in every layer. Such a
  byte has a version above 1 and sits in its shadow page (`OwnView`): a write
  makes only the bytes in its range the guest's (`OwnShadow`), since the rest of
  the page is copied in as 0 or 1, and the direct writes of the setup meet empty
  caches (`EarlyClean`).

`DispatcherProofs`, for any code, CPUs, stops, breakpoints and budgets:

* `TypeCorrect`, `BudgetKeptHolds`, `InsideBlockHolds`, `StopRespectedHolds`. The
  invariant `Inv` says where the loop stands
  (`Replaying`: inside the block with budget left) and that it is at a stop
  address only before its first instruction (`AtStop`).
* `BlocksFreshHolds`: a store erases exactly the blocks whose interval holds it
  (`WriteShadowFresh`). `DecodeBlockIs` shows that decode_block returns what a read
  of the memory chain finds; the longest block exists because a set of naturals
  has a least element (`LeastNat`). The strengthening is `Shown`: but for the
  addresses in `hidden` no cache above the shadow pages holds an older
  instruction, so what is decoded there is what they hold.

`LazyFlagsProofs`, for any instructions and operands, of every size:

* `CmpDecidesAlways`: after CMP a, b the conditions B, BE, Z, L and LE are a < b
  and so on. The invariant `Compared` says that the flags a reader would see are
  those of a - b; it is kept because a sync does not change what a reader sees
  (`SyncKeepsVisible`). `ComputeSubCompares` is the arithmetic: the first operand
  comes back from b and the difference modulo the size, and SF # OF is the
  signed comparison.
* `TypeOKAlways`: a stash holds words of its own size and a masked count, and a
  snapshot no pending stash. `TypeOK` is inductive as it stands.
* `ImplementsArch`: `Spec => ArchSpec`, with `Visible(rflags, cc)` for the flags.
  Every step of LazyFlags is a step of ArchFlags or, for a reader, none
  (`StepIsRight`); `TypeOK` is all it needs to know of the state before. The
  only assumption is that the operands are words of their sizes
  (`LazyFlagsAssumption`). There are three layers:
  * *Arithmetic.* `Induction` is induction over a set of numbers, from the least
    element of its complement; `IteratesExist` and `IteratesForever` say that a
    recursive function is what its equation says. On these rest `Pow2`, the bits
    of a word (`HalvesAgain`, `WordOfIs`, `ComplementIs`), division (`DivisionOnly`:
    quotient and remainder are unique) and a lemma for each compute function: the
    carry and overflow of a sum and a difference with and without a carry in
    (`SumFlags`, `DifferenceFlags`), INC, DEC and NEG, the upper half of a product,
    truncating division, and shifts. For these ArchFlags repeats a step of one
    bit; `ShlSteps`, `ShrSteps`, `SarSteps`, `RolSteps` and `RorSteps` say by
    induction over the steps what n of them give, and that CF is the bit the
    formula of `flags.cpp` reads; RCL and RCR turn a word one bit wider, where
    a whole number of turns changes nothing (`TurnsLeftIs`, `TurnsRightIs`).
  * *Flag states.* `StashShows` and `PutShows` say what a reader sees of a stash and
    of flags written directly, `FlagsOK` which states a handler may leave. A handler
    that fails to store must leave what it found, but for `Imprecise`
    (`WriteIsRight`).
  * *Handlers.* One lemma `...IsRight` for each handler, all of them together
    (`HandlerIsRight`), and one for each step of the host. `ResetIsRight` needs
    `ComputedGrows`: a pending stash over cleared flags raises no flag it would not
    raise over the flags that were there.

  At 8 bytes this is about the MSVC build for x64. A 64-bit IDIV that refuses its
  dividend refuses one that is wider than a word (`TooWideMayRefuse`), which is all
  ArchFlags lets it refuse. The dividends of IDIV that overflow in the host are
  covered as formulas only.

`StubHeapProofs`, for any region, granule, word size, request and pointer:

* `TypeCorrect`, `TiledHolds`, `CoalescedHolds`. The invariant `IInv` says that
  the blocks lie inside the region, each where the one before it ends (`Laid`),
  and that no two neighbours are free (`Apart`). A call is made of three
  operations on the list, and each has its lemma: marking a block (`MarkLaid`),
  splitting one (`SplitLaid`) and joining two (`JoinLaid`). While free works,
  neighbours of the freed block may both be free; `Apart(bs, X)` names the places
  X where that is so, and each of the two merges clears one.
* `ImplementsAllocator`: HeapAlloc and HeapFree keep what `Allocator` promises,
  with the blocks in use as its `live`. The invariant `AInv` adds to `IInv` that
  every block starts and ends on the granule (`Grained`), which splitting keeps
  since a request is rounded up first. alloc takes the first free block that is
  large enough; when it finds none, no gap between the blocks in use is large
  enough either, because a gap is one free block (`Apart`). A pointer that is
  freed names one block because the blocks lie in order (`InOrder`). The theorem
  assumes that the guest may pass any address of the region to HeapFree
  (`Base .. Base + Size - 1 \subseteq Pointers`), as it may.
* `HeapBlocksApartHolds`, `HeapNoneLeakedHolds`, `HeapRoomyHolds` carry the
  theorems about the guest heap over to the instance that `MCHeaps` runs.

`GuestHeapProofs`, for any heap that GuestHeapAssumption allows (word, alignment,
number of classes, size), any sizes asked for and any values stored:

* `BlocksApartHolds`, `NoneLeakedHolds`, `RoomyHolds`. None is inductive, since the
  heap keeps no list of its blocks: a free block is known only from a link in
  guest memory. The invariant `IInv` says that, as long as no link was lost, there
  are blocks B, lists L and lengths N that are `Sound`: B tiles the heap up to the
  bump pointer, each block of B is either held by the guest or on exactly one
  place of the list of its class, and following the links from a head visits that
  list and ends with 0. A store of the guest stays in a block it holds, so it
  reaches no link; alloc takes the first place of a list or cuts a new block, free
  adds a first place. `Chain`, the blocks a list reaches, is the least set closed
  under the links; that it is the set of places of L is an induction over places
  by `LeastNat`.
* A page that the guest protects makes a link unreadable or its write fail; the
  code goes on with the list cut off. From there on (`lost`) the first two
  properties say nothing, as in the run.

`LogRingProofs`, for any number of threads and any capacity:

* `TypeCorrect`; `PrintedInOrderHolds`, `OneWriterHolds`, `ShutdownDrainsHolds`.
  The invariant `Inv` has what holds always, overflow included (`Bounds`: where
  the flush thread is between what it has printed and what is claimed; `Claims`:
  each record is claimed by one thread; `Filled`) and, as long as nobody is
  lapped, `Ring` and `Told`. `Ring` says what each slot's word means: it runs
  through 0, Published(k), Emptied(k), Published(k + N) and so on; a published
  record is whole and the one a lap before it is printed, and a claimed record is
  published or somebody is at work on it. `Told` is the conclusion: what is
  printed is 0, 1, 2, ... The arithmetic is in `LapApart` (two records in one
  slot are a whole number of laps apart) and `BeforeTells` (what a slot holds
  before a record is written to it tells which record that is, so two writers
  of one slot are one).

`PeepholeProofs`, for any registers, what they hold, and blocks of any length:

* `FoldedRunsAlikeOtherwiseHolds`. The invariant `Inv` says that after the fold
  `folded` is `PeepholeBlock(block)`, that the two CPUs agree unless the block
  has an instruction that is `Misfolded`, and that behind an XOR of a register with
  itself the
  flags are those a folded branch relies on. `JunkDoesNothing` and `SameEffect`
  are the lemmas about single instructions.

`GuestStepProofs`, for any bytes in any order of becoming readable, any buffer size:

* `TypeOKHolds`, `LengthIsArchitecturalHolds`, `OwnBytesOnlyHolds`,
  `BufferAgreesHolds`. They assume that the bytes the instance offers are bytes
  (`\A s \in Seq(Byte) : Follow(s) \subseteq Byte`), nothing more. The invariant
  `DInv` says that the bytes read so far are bytes and that the verdict is
  DecodeOne of them. Then everything is about DecodeOne of two sequences of
  which one begins the other (`Begins`): every part of it, from the prefix scanner
  to the displacement, reads the same as far as both go, and says that bytes are
  missing exactly when they are (`DecodeOneSame`). `Suffices` says when a
  sequence is long enough. The immediate is the part that depends on the opcode:
  `Right` says what a format of the opcode tables must read for the opcode maps of
  the architecture (Isa) to agree, and it is shown for every row of the four maps;
  `FormatSteady` says that the format depends on the bytes of the opcode, the
  prefixes and the ModRM byte and on no other. `LengthIsIsa` puts these together:
  the length is that of the architecture but where `Departs` names the decoder's
  departure (the same list as in section 4). All of this is about the bytes a
  source delivers; from 256 readable bytes on that is `Fetched`, the same
  256 twice: an instruction that has anything but legacy prefixes among them ends
  in the second round (`FetchedSame`, `RunIsTruncated`). The length is then the low byte
  (`AroundRemainder`), so the theorems speak of lengths modulo 256, and
  `BufferAgrees` of the bytes consumed.
* `RestartableHolds`, for any number of cells and any guests that
  `ArrivalsAssumption` allows (registers and memory hold values, RSP, RSI and RDI
  point into memory, RCX is at most N + 1; TLC evaluates it on the run). The
  invariant `RInv` says that whatever is still to be done, done with all memory
  open, ends where the instruction would have ended from its start (`Underway`).
  One lemma per handler (`MovSame` to `StringSame`) shows that it either does the
  same whoever may access what, or reports a refused access and has changed
  nothing. A repeated string instruction has done the elements before the refused
  one; that doing the rest from there is doing all of it is an induction over the
  turns by `LeastNat`. The two exceptions of the property are where it is
  false: CALL through memory, which pushes before it reads its operand, and the
  x87 stores, which drop a refused store.
* `BranchesEndBlocksHolds` assumes, as the decoder's theorems do, that the bytes
  offered are bytes. `Leaving` are the kinds whose handler may set RIP or stop the
  run. `Marked` is shown for every row of the four opcode maps and carried through
  the decoder (`OneByteMarks` to `DecodeMarks`): a kind in `Leaving` has the
  CONTROL_FLOW flag. `StraightOn` is the other half: a handler of any other kind
  leaves RIP alone. The invariant `BInv` joins them with `DInv` and `RInv`.
* `StringsArchitecturalHolds` needs no more than `RInv`: however often an access
  was refused, the instruction ends as over open memory, so the theorem is about
  the loop over open memory. `Did` says what one element does, `Walk` that m
  elements follow one another, `StringRan` that the loop is such a walk and where it
  ends. Three inductions over the elements give where the registers stand
  (`WalkStands`, with the arithmetic modulo N in `AroundOnce`), that a cell holds
  what the last element that went to it moved (`CellHolds`), and that this is what
  `Copied` says, which looks for the same value from the start (`WalkSources`).
* `FoldedRunsAlikeOtherwiseHolds` carries the theorem of PeepholeProofs over to
  the instance that `MCGuestStep` runs.

Only model-checked:

* the liveness properties Terminates, EventuallyPrinted and EmitReturns, which are
  out of the prover's reach. Every other property of a passing run has a theorem.

## 6. Not modelled, and the plan

Not to be modelled: what the vector and floating-point handlers compute (SSE,
AVX, AES, x87, `float80.cpp`), a matter for test vectors; name tables,
diagnostics and counters (`semantic_block_hash`, branch target cache, hit
counts); FakeMemoryProvider, which is filled once; opening and enumerating
processes; the command lines of the tester and the target.

Modelled, with proofs: the memory chain, the dispatcher with its block cache,
the stub heap, the guest heap, the logger, the decoder, the peephole pass; of the
handlers, that they restart, that branches end their block and that strings do
what their definition says; the integer handlers and the lazy flags.

What a next step would take up, in this order:

1. SehUnwind: `pdata_lookup`, unwinding with chained entries and handler dispatch
   over small tables;
2. IatStubs: bind and names; Hooks: adding and removing hooks while `for_each`
   runs over them;
3. CpuState: reset, snapshot, restore and the x87 stack; BMI;
4. PE relocations and imports.
