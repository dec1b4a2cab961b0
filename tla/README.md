# spctrx: specifications and proofs

TLA+ specifications of the spctrx kernel (a C kernel for x86-64, booted by
Limine), the TLC configurations that check them and the proofs that the TLA+
proof system TLAPS checks. All source paths below are relative to
`src/kernel/src/`.

1. [The system](#1-the-system)
2. [The modules](#2-the-modules)
3. [The runs](#3-the-runs)
4. [The proofs](#4-the-proofs)
5. [Disagreements between the code and its words](#5-disagreements-between-the-code-and-its-words)
6. [What is not modelled, and the plan](#6-what-is-not-modelled-and-the-plan)

## 1. The system

The boot processor runs `main` (`kernel/kernel.c`): it sets up the console, the
descriptor tables, the page allocator, the page tables, interrupts, the file
systems, ACPI, the interrupt controllers and PCI, and starts the other
processors (`cpu/mp.c`). Those run `mpEntry` at the same time as the rest of
`main`: they load the tables, set up their local APIC, which maps a page and may
allocate page tables, print, and halt. Interrupts are never enabled, so nothing
preempts a processor; exceptions are possible at any instruction and end in a
panic. All concurrency is that of several processors in shared code, and every
shared structure has a test-and-set spinlock of its own, or none.

### Inventory

| component | state | operations | hard behaviour | what makes it correct |
|---|---|---|---|---|
| spinlock (`cpu/spinlock.c`) | one flag | acquire, drop | no owner, no queue, no timeout | one CPU inside; dropped again on every path that does not panic |
| bitmap (`util/datastructures/bitmap.c`) | bits in words | find, fill, set, check, size | the answer 0 has two meanings | finds the first run of free bits; never outside its bounds |
| page allocator (`mem/pmm.c`) | bitmap, lock | alloc, zero-alloc, free | contention; clearing outside the lock; panic inside it | a page has one owner; none is lost; out of memory is genuine |
| start-up of the allocator (`pmmInit`) | memory map, bitmap | one pass | three roundings, placement of the bitmap in the memory it describes | exactly the usable pages are free |
| page tables (`mem/vmm.c`) | four levels of tables, lock, TLBs | map, unmap | the MMU reads while tables grow; last write outside the lock; local `invlpg` | the tables are the map that was asked for, for every page, at every moment |
| slab (`mem/slab.c`) with lists (`ll.c`) | pages of objects, three lists, lock | alloc, free | links inside the objects' memory; lock dropped to start over | objects are disjoint; free list and lists exact |
| vfs (`filesystem/vfs.c`, `vfsops.c`) | mounts, root node | lookup, mount, read, write, readdir, create | mounts on mounts, on files and under mounts; names too long for the lookup's buffer; a mount that fails | all paths together are one tree |
| tmpfs (`filesystem/tmpfs/tmpfs.c`) | nodes, children, data | create, mkdir, lookup, readdir, read, write | bounds of a file, sums that wrap, duplicate and cut names | a read returns what was written, a directory lists what it leads to |
| interrupts (`driver/irq.c`, `cpu/isr.c`, `isr.asm`, `idt.c`) | vectors, handlers, table of gates | allocate, install, handle | exhaustion; 256 stubs that must match what the CPU pushes; size of the stub table | a vector has one owner and leads to its handler; a report shows the exception as it was |
| interrupt controllers (`cpu/ioapic.c`, `lapic.c`, `apic.c`) | controllers, overrides, redirection entries | parse, map | tables in any order, read much later; an entry is two words | the interrupt of a device goes to its driver |
| panic and assertions (`kernel/panic.c`) | none | panic | locks it holds, prints while a print is under way | its report gets out |
| console (`util/printf.c`, `driver/log/*`) | two locks | printf | nested locks below every other lock; printing in a panic | no cycle of waiting CPUs; texts in one piece |
| processors (`cpu/mp.c`) | none | start, entry | creates the concurrency | each one gets to its end |
| AHCI (`driver/disk/ahci.c`) | command slots, registers of ports that the controller changes too | set-up, read, write | one wait of many has a limit; errors stay behind; any slot is prepared, slot 0 is issued; counts are cut to their fields | the drive runs what was prepared, the answer is what it did |
| ACPI, PCI (`driver/acpi.c`, `pci.c`) | tables found, functions found | find a table, reboot; enumerate | tables that are missing; class codes without a name | each table is the one with its signature; each disk controller gets the driver |
| strings (`util/string.c`) | none | memcpy, memmove, strcmp, ... | overlap, ends of strings | agree with their definitions |
| boot, segments, framebuffer, self-test | constants | - | - | - |

How they call each other: slab, vfs, tmpfs and irq take pages through
`vmmAlloc`; `vmmWalk` takes tables through `pmmZeroAlloc`; vfs and tmpfs take
nodes from slab caches; the I/O APIC code reads the table that ACPI found, a
driver takes a vector from irq and maps its line through the I/O APIC; the scan
of PCI starts the disk driver; everything prints. The locks nest as
{`cache->lock`, `walkSpinlock`} > `pmmSpinlock` > `printfSpinlock` > the serial
lock; a panic in an inner component leaves every outer lock taken. `PROJECT.json`
lists the hazards line by line with the properties that watch them.

## 2. The modules

A definition has the name of the function it models where that is possible; a
local variable of a function is a variable indexed by CPU, set when the code
sets it and reset when the call returns. `lock` variables are plain Booleans,
because the flag knows no owner: that a CPU which drops it is the one that took
it is a property, not part of the model. Comments `Mutant:` mark definitions
that no specification uses: each is the definition behind it with one plausible
mistake, and TLC finds a property violated when it takes the definition's place.

### Page allocator

* **`PageAllocator`** is the promise: a request is answered in one step with the
  lowest free run of pages, or it fails for want of one and then every CPU is
  stuck. No bitmap, no lock.
* **`Pmm`** is the code. `CallAlloc` and `CallFree` are the calls; `AllocAcquire`
  / `FreeAcquire` the spinlock; `ScanUsed`, `ScanFree`, `ScanFound` and `ScanEnd`
  one iteration of the loop of `bitmapFind` each and its two ends; `Fill` and
  `Clear` the two uses of `bitmapFill`; `AllocDrop`, `ZeroAllocDrop` and
  `FreeDrop` the drop; `Memset` and `ZeroAllocReturn` the rest of
  `pmmZeroAlloc`. `halted` is a CPU that panicked: it keeps the lock. A caller
  frees pages the kernel owns, all of an allocation, a part or several together.
  `bitmapFill` is one step although it is a loop in C: only the lock's holder
  reads or writes the bitmap, which is the invariant `ExclusiveBitmap`. Two
  ghosts: `owned`, the pages the kernel may use, and `clean`, those that hold
  zeroes (`Write` is the kernel using a page).
* **`PmmRefinement`** maps the one to the other; `ImplementsPageAllocator`.
* **`PmmBoot`** is `pmmInit`, from the memory map to the bitmap: an action per
  loop iteration or statement. Its result, page 0 and every unusable page
  marked used, is what `Pmm` assumes of `Reserved` (`ReservedAssumption`).
  The memory map is input from the boot loader; `WellFormed` is what the Limine
  protocol promises of it (usable entries sorted, disjoint, in whole pages).

### Page tables

* **`AddressSpace`** is the promise: a map from virtual to physical pages, which
  each request changes one page at a time.
* **`Vmm`** is the code. A table is a function from `Index` to entries in the
  frame it occupies; `Acquire`, `Missing`, `Descend` and `Drop` are `vmmWalk`;
  `AllocTable` and `ZeroTable` are the two halves of `pmmZeroAlloc`, and
  `LinkTable` the assignment of its result, so that the MMU can look in between;
  `WriteEntry` and `InvalidatePage` are the rest of `vmmMap` and `vmmUnmap`, with
  no lock held; `NextPage` is the loop of `vmmMapPages` and `vmmUnmapPages`.
  `TlbFill` is the MMU of any CPU caching any translation at any moment. `Fault`
  is the null table that an unmap indexes when an upper table is missing: a page
  fault, hence a panic with `walkSpinlock` held. `free` is what `PageAllocator`
  promises, so this module composes with the allocator through its abstract
  specification.
* **`VmmRefinement`** maps the tables to the map; `ImplementsAddressSpace`.

### Slab allocator

* **`Slab`** is one cache, down to the words of its pages, because links and
  objects share them: a slab that is taken apart wrongly shows as a link in an
  object. `GrowAlloc`, `Grow` and `GrowDrop` are `slabAllocSlab` and the retry,
  `Select` and `Take` the allocation, `FreeLink` and `FreeMove` the free;
  `WriteObject` is a user of an object writing all of it. Addresses are
  `<<slab, word>>`. The lists are sequences, as `ll.c` keeps them from the head.
  Frees move objects through the page (section 5), so that two users can hold one
  address: the ghost `live` is a set of pairs of an address and a number. In the end
  they move them out of it, and what happens then is not a matter of one cache any more:
  `FreeBehindPage` finds a header in another page, `FollowData` follows a word
  of data as if it were a link, `WriteObject` writes behind the page. The ghost `strayed`
  becomes true with the first of these; what the code does until then is modelled without a limit
  on frees.

The code's `empty` list holds slabs that are partly used as well: an
allocation moves a slab only when it becomes full. `ListsMatchUse` says what is
true of the three lists.

### All processors

* **`Processors`** is the composition over locks: every processor runs the code
  it has from `mpInit` on, with all spinlocks at once. What a function does to
  locks, console and other processors is a sequence of instructions (`printf`,
  `vmmWalk`, `slabAlloc`, ...), the code before a processor is such a sequence
  (`code`), and there is one action per kind of instruction: `TakeLock`,
  `DropLock`, `PutChar`, `CallFunction`, `StartProcessor`, `EnterPanic`. A
  function whose course depends on data has one body for each course, so out of
  memory and every number of missing page tables are possible at every call.
  `Exception` is an exception at any instruction. Two ghosts: `owner`, the CPU
  that took a lock, and `caught`, the CPUs an exception hit inside `printf`.
  The two caches of tmpfs are one lock here: only the boot processor takes
  them, one after the other.

### File system

* **`FileTree`** is the promise: a map from paths to entries, and what each call
  does to it, including where the kernel hangs (a name of 64 characters or more
  in a place where it is looked up), panics (an empty extent) or goes astray (an
  extent whose end wraps around). It has no nodes, no lists, no mounts.
* **`Vfs`** is the code, `vfs.c`, `vfsops.c` and `tmpfs.c` together. `nodes` are
  the `FsNode`s with their `TmpfsNode`s, `children` and `mnts` the lists in their
  order. `Request` is a call with its arguments, `vfsCreate`, `vfsMount`,
  `vfsWrite`, `vfsRead` and `vfsReadDir` serve it in one step (there is no lock and
  only the boot processor calls). `vfsLookup` goes through the text piece by piece as the
  loop does: it crosses a mount after every name, gives up at a slash behind a
  file, and never ends at a piece that does not fit. `strncpy` is what it leaves of a
  name that is too long, `strcmp` the comparison with a child's. A path is its text split at
  the slashes, so empty pieces are slashes that meet. The ghost `wrote` collects the
  bytes of files that calls of write were to change (`Asked`, from the arguments of the call
  alone); it is what reads are compared with.
* **`VfsRefinement`** rebuilds the tree from nodes, children and mounts;
  `ImplementsFileTree`, `ReadsSeeWrites`, `DirectoriesListTheTree`.

### Interrupts

* **`Interrupts`** goes from the firmware's tables to the handlers. `isrInit` and
  `idtSetDesc` fill the gates from a table of stubs that is one entry short;
  `acpiFindTable`, which finds a table by its signature (`memcmp`), `ioApicInit` and
  `ParseEntry` (an iteration of the loop of `ioApicParseMadt`) read the tables;
  `apicInit` and `lapicInit` set the base of the local APIC and its spurious
  interrupt register, without which no line gets anywhere; `irqAllocVector`, `irqInstall`, `WriteLow` and
  `WriteHigh` are what each driver does, the last two the halves of
  `ioApicWriteRedirEntry`; `Exception` is an exception at any step, with the frame
  that CPU, stub and `isrCommon` push and `Regs` reads (`RegsOf`), in which the field
  `rsp` is the stack pointer of `isrCommon` itself and `kRsp` that of the exception; `acpiReboot` is
  the end of `main`, where `acpiOut` writes nothing to a port register whose access size it does
  not know. The interrupt flag is never set, so a device's interrupt is
  not a step: where it would go is the operator `Handler`, evaluated in every
  state. External: the frame that the CPU pushes, and the machine's tables. The
  ISA flags of an override are pairs of two-bit codes.

### Disk

* **`Ahci`** is the scan of PCI and the driver, beside the controller: its ports
  and the memory that both read. `ScanFunction` is one function of the scan, which
  hangs the kernel at a class without a name: the null pointer is read in `printf`, with its
  lock held, for which the panic then waits.
  `EnumPort`, `ahciCmdStop`, `ahciCmdStopFis`, `ahciRebase`, `ahciCmdStart` and
  `ahciCmdStartFis` are the set-up, each write to a command register a step;
  `CallReadOrWrite` and `ahciCmdFindFree` prepare a command; `SpinReady`,
  `PortHung`, `Issue`, `Poll` and `Check` are `ahciSendCommand`. Two reads of
  registers that the controller changes are two steps. External: what the
  controller does between them (`FollowList`, `FollowFis`, `GetReady`, `Fetch`,
  `Complete`, `Fail`). A command is the number of the call it was prepared for and
  its two counts, each cut to its field. Firmware may have left ports running and
  drives busy for good, and a drive may be `"mute"`: a disk that is free to leave a command
  without an answer. Ghosts: `outcome`, what a call returned, and `moved`, the
  bytes the drive moved for it.

`Pmm`, `Vmm` and `Slab` each treat one lock in full detail and the functions
below it as steps; that these functions come back although they take locks of
their own is what `Processors` checks.

### Abstractions they share

Outside `Processors` printing is left out: it changes nothing the properties see,
and its locks are released again (`LocksAreReturned`, `EverybodyArrives`). Page
table flags are left out: no decision of `vmm.c` depends on them. Numbers are
unbounded: no sum in these functions can wrap for addresses below 2^52. `panic` is a CPU that stops with the locks it has.

## 3. The runs

Each run has a configuration of its own. CPUs are symmetric in the runs without
liveness properties in which no CPU is the boot processor.
`CHECK_DEADLOCK FALSE` is there because a panic really stops the system, because
`pmmInit` ends, and because application processors halt. In `vfs`, `interrupts` and
`ahci` the kernel really hangs, panics or reboots, and the number of calls is
bounded.

| run | module, configuration | question | bounds |
|---|---|---|---|
| `pmm` | `MCPmm`, `Pmm.cfg` | Is every page accounted for whatever three CPUs do, and is the allocator the abstract one? | 3 CPUs, 6 pages of which 0 and 2 are reserved, runs of 1 or 2 |
| `pmm_liveness` | `MCPmm`, `PmmLiveness.cfg` | Is the lock dropped again? | 2 CPUs, 4 pages |
| `pmm_boot` | `MCPmmBoot`, `PmmBoot.cfg` | Does `pmmInit` free exactly the usable pages? | every well-formed map of up to 3 entries in 16 bytes, pages of 2 bytes, words of 2 bits |
| `vmm` | `MCVmm`, `Vmm.cfg` | Are the page tables the map that was asked for, at every moment and for every CPU? | 2 CPUs, tables of 2 entries, 6 frames, 3 virtual and 2 physical pages, runs of 1 or 2 |
| `slab` | `MCSlab`, `Slab.cfg` | Are objects disjoint and the lists exact? | 3 CPUs, 2 slabs of 3 objects of 3 words in pages of 10, 4 frees |
| `processors` | `MCProcessors`, `Processors.cfg` | Do all locks together, panics and exceptions leave everybody able to go on? | 3 CPUs, a walk allocates at most 1 table, 2 exceptions, texts of 2 characters |
| `vfs` | `MCVfs`, `Vfs.cfg` | Are nodes, lists and mounts the tree that the calls promise? | 4 calls on 9 paths, 3 names (one of them cut), files of 4 bytes, words up to 7 |
| `interrupts` | `MCInterrupts`, `Interrupts.cfg` | Do lines reach their drivers' handlers, and are exceptions reported as they were? | 3 drivers, 3 vectors behind the exceptions, 24 orders of a table with 2 I/O APICs and 2 overrides, 5 other firmwares, 9 exceptions |
| `ahci` | `MCAhci`, `Ahci.cfg` | Does the drive do what was asked, is do the loops end? | 8 machines, 3 calls of 0, 1, 4 or 5 sectors; sectors of 2 bytes, counts of 8; 1 to 5 slots of which 2 bits are read; 2 rounds of waiting |
| `spurious_vector` | `MCInterrupts`, `Spurious.cfg` | Does the spurious interrupt's vector lead to its handler? (it does not, section 5) | as `interrupts` |
| `everything_halted` | `MCProcessors`, `Halted.cfg` | Does a panic halt everything? (it does not, section 5) | 2 CPUs, no exceptions |
| `slab_format` | `MCSlab`, `SlabFormat.cfg` | Do objects stay in the documented format? (they do not, section 5) | 1 CPU, 1 slab, 1 free |

Why the bounds are enough: in `pmm` the reserved page in the middle leaves a
free run of one page and one of three, so scans restart, runs that are too short
are passed over, a request of two fails with single pages free, and three CPUs
show a waiter overtaken by another. In `pmm_boot` the bitmap takes several words
and several pages, its entry may be too short or just long enough, and
unusable entries need not be in whole pages. In `vmm` page 1 and page 2 share
their tables above the last level, 15 shares only the root with them: a walk
misses zero, one or three tables, two CPUs miss the same one, and six frames, the
root among them, are two short of what all pages need, so out of memory is
reached too. In `slab` a slab fills up, a second one is needed while
the lock is being dropped, and memory runs out; with a page of ten words three frees
move an object behind the last slot, two users come to hold one address, and the fourth free
gives one of them back or goes behind the page. In `processors` three CPUs are
enough for two that wait for each other while a third prints, two exceptions for
one that strikes while another one's report is under way; a second table would
take the same locks in the same order once more. In `vfs` four calls are
enough to create, mount over, create below and read, for the extents there is one
that ends behind the last byte, one that is empty and one that wraps around, and
the paths hold empty pieces, a slash at the end, a name that is cut and one that
the lookup cannot take in. In `interrupts` two vectors are free for three drivers
(the third is the spurious interrupt's), an override moves the timer to the pin
of another line, one asks for level and low, a line can lie behind every I/O
APIC, and the tables can be missing. In `ahci` a failed call leaves its bit
behind so that the second takes another slot and the third finds none, one
machine has a slot count that the mask reads as none, four sectors fill the
byte count of a table and five are cut.

Properties (each has a mutant of the code that TLC finds to violate it):

* `pmm`: `TypeOK`; `ExclusiveBitmap`, the lock is taken exactly while one CPU is
  inside; `NoDoubleAllocation`; `NoPageLost`, a bit is set exactly for reserved
  and owned pages and those of unfinished calls; `AssertsHold`, the assertions
  of `bitmapFill`; `OomIsGenuine`; `ZeroedPagesAreZero`; the action property
  `PanicStopsAllocator`, after a panic no CPU gets past the allocator; and the
  refinement `ImplementsPageAllocator`.
* `pmm_liveness`: `LockIsDropped`. The fairness is weak fairness of each CPU's
  steps inside the allocator: interrupts are disabled and there is no scheduler,
  so a CPU that can take a step does. Calls are not fair, and a spinning CPU has
  no more than weak fairness, which does not promise it the lock; nothing in
  `spinlock.c` does.
* `pmm_boot`: `FreePagesAreExact`, `BitmapFits`, `AssertsHold`,
  `PanicIsJustified`.
* `vmm`: `NoGarbageReachable`, the MMU never reaches a table that was not zeroed;
  `EveryTableLinkedOnce`; `WalkStaysValid`, the table used after the lock was
  dropped is still the right one; `StaleOnlyFromRemote`, a stale translation is
  one another CPU's call left behind; `ImplementsAddressSpace`.
* `slab`: until the first free, `ObjectsAreDisjoint` and `FreeListIsExact`;
  with frees as well, `ListsMatchUse` and `UsedIsCounted` until a page is overrun or data is
  followed as a link; `TypeOK` always.
* `processors`: `NoWaitCycle`, no set of processors that all wait for one of the
  set, but for the one that the code has: an exception in the middle of a `printf`
  makes its processor wait for itself; `LocksAreReturned`; `LinesAreWhole`, the text of one `printf`
  is in one piece; `PanicIsReported`, a panic gets to its `hlt` whatever locks
  are held; `EverybodyArrives`, without a panic all processors get through their
  code. The fairness is weak fairness of each processor, as above. It is
  enough although the locks are unfair: each processor takes them a bounded
  number of times, so whoever waits is alone in the end.
* `vfs`: the refinement `ImplementsFileTree`; `ReadsSeeWrites`, a read by any
  path returns the bytes that writes by any path put into that file and zeroes elsewhere,
  and what the tree has there;
  `DirectoriesListTheTree`, what `readdir` counts up and what lookup finds agree.
* `interrupts`: `LinesReachTheirHandlers`, after a driver mapped its line, the pin
  at which the firmware says that it arrives leads through entry, vector, gate and
  stub to that driver's handler, and the local APIC on the way is enabled; `SharedOnlyWhenFull`, two drivers get one vector
  only when all are taken; `ReportsAreTrue`, the report of an exception has the
  registers, the place, the number and the error code of the exception, with its stack
  pointer in `kRsp`; the `rsp` that `panicIsr` prints (`kernel/panic.c:48`) is that of
  `isrCommon` in the middle of its pushes (`cpu/isr.asm:292`), and the property says so. What the
  code does not keep is stated in the properties: an entry between the writes of its two
  words, the first of which unmasks it (`cpu/ioapic.c:113`); lines or vectors that two drivers
  share; the ISA polarity code 1, of whose two bits one is programmed;
  exceptions 21 and 29, for which the CPU pushes an error code and the stub does not
  know of it; exceptions 30 and 31, whose names are null pointers.
* `ahci`: `DeviceRunsTheCall`, a port works only on the command of the call under
  way, in the driver's own list, and once; `OutcomesAreGenuine`, the answer is
  true exactly when the drive did all of it and nothing that failed is done later;
  `EveryLoopEnds`, the set-up and every call come to an end. The fairness is weak fairness
  of the driver (nothing preempts it), of a port's lists, which stop and start as told, and
  of the answers of each drive that is not `"mute"`. A busy drive need not
  get ready and nobody need call. What the code does not keep is excepted: the scan of
  a machine with a class that has no name (it may hang in `printf`); a call on a mute drive and a
  call on a port that an earlier error stopped (nothing sets its `ST` again), because the
  second wait of `ahciSendCommand` (`driver/disk/ahci.c:239`) has no limit.

## 4. The proofs

`PmmProofs` holds for every number of CPUs, every bitmap size, every reserved set
that contains page 0 and every bound on requests; the assumptions are the four
named ones of `Pmm`, and `PmmBoot` checks the one about page 0.

| theorem | says |
|---|---|
| `TypeCorrect` | `[]TypeOK` |
| `MutualExclusion` | `[]ExclusiveBitmap` |
| `NeverAllocatedTwice` | `[]NoDoubleAllocation` |
| `NeverLost` | `[]NoPageLost` |
| `OutOfMemoryIsGenuine` | `[]OomIsGenuine` |
| `BitmapAssertsHold` | `[]AssertsHold` |
| `ZeroAllocZeroes` | `[]ZeroedPagesAreZero` |
| `PanicIsFinal` | `PanicStopsAllocator` |
| `AllocatorIsCorrect` | `ImplementsPageAllocator` |
| `VectorsAreShared` | `[]SharedOnlyWhenFull` |
| `PreparedCommandRuns` | `[]DeviceRunsTheCall` |
| `ResultsAreGenuine` | `[]OutcomesAreGenuine` |
| `PageTablesTyped` | `[]TypeOK` of `Vmm` |
| `TablesAreClean` | `[]NoGarbageReachable` |
| `TablesAreATree` | `[]EveryTableLinkedOnce` |
| `LateWriteIsRight` | `[]WalkStaysValid` |
| `OwnTlbIsFresh` | `[]StaleOnlyFromRemote` |
| `PageTablesAreAMap` | `ImplementsAddressSpace` |
| `BootTyped` | `[]TypeOK` of `PmmBoot` |
| `BootFreesExactly` | `[]FreePagesAreExact` |
| `BitmapHasRoom` | `[]BitmapFits` |
| `BootAssertsHold` | `[]AssertsHold` of `PmmBoot` |
| `BootPanicIsJustified` | `[]PanicIsJustified` |
| `ReportsMatchExceptions` | `[]ReportsAreTrue` |
| `LinesAreRouted` | `[]LinesReachTheirHandlers` |
| `ObjectsShareNothing` | `[]ObjectsAreDisjoint` |
| `ListThreadsFreeSlots` | `[]FreeListIsExact` |
| `TypesHold` | `[]TypeOK` of `Slab` |
| `ListsAreKept` | `[]ListsMatchUse` |
| `UseIsCounted` | `[]UsedIsCounted` |
| `NoCircleOfWaits` | `[]NoWaitCycle` |
| `LocksComeBack` | `[]LocksAreReturned` |
| `LinesStayWhole` | `[]LinesAreWhole` |
| `ReadsAreTrue` | `[]ReadsSeeWrites` |
| `ListsAreTrue` | `[]DirectoriesListTheTree` |
| `TreeIsImplemented` | `ImplementsFileTree` |

The argument. None of these is inductive. That an allocation takes free pages
rests on what `bitmapFind` found out some steps earlier, so the inductive
invariant `IInv` has for each CPU the loop invariant of the scan (`ScanInv`: the
bits from `start` to `pos` are free, the bit before `start` is used, and every
complete run that ends before `pos` has a used bit), what it gives at its two
ends (`FillInv`, the run is free and the first one; `OomInv`, there is none), and
the exact accounting of pages (`AccountInv`). A scan's knowledge survives the
steps of other CPUs because only one CPU is at the bitmap, so mutual exclusion
(`ExclusiveBitmap`) is part of it; and it needs the bounds of the calls' locals
(`TypeInv`). `ScanFoundSearch` is where page 0 matters: a free run never starts at
index 0. TLC checked `IInv` on the small instance before it was proved.

`AllocatorIsCorrect` maps each statement: `Fill` is the grant, whose run is the
lowest by `FillInv`; the end of the scan is the failure, genuine by `OomInv`;
`Clear` is the reclaim; calls and returns are themselves; everything else
stutters.

`VmmProofs` holds for every number of CPUs, every number of
entries in a table, all frames and pages and calls of every length, on four levels; the
assumptions are the six named ones of `Vmm`, of which the one that matters says that no
frame of a table is mapped to a caller. The invariant gives each frame a rank, 4 for
the root, 3, 2 and 1 for the levels below, 0 for what is not linked: entries lead one
rank down (`TablesIn`), no two entries to the same table (`LinksIn`), each table but
the root is led to (`LinkedIn`), and a frame of rank 0 is free or in one CPU's hands
(`FreeInv`). A rank is given once, by `LinkTable`, which is why a walk that another CPU
made earlier stays right (`PathsGrow`: linking an empty table only makes paths
longer and changes no translation). That the look at an empty entry and the link
are one needs `walkSpinlock` (`LockInv`, `WalkInv`). That a write changes the
translation of one page and no other (`PageWritten`) is arithmetic: paths to the same
table have the same indices (`PathInjective`), and the four indices are all of a page
(`DigitsDetermine`). `PageTablesAreAMap` maps `WriteEntry` to the abstract step,
and a walk for an unmap that finds no last table to unmapping what was not mapped.

`PmmBootProofs` holds for every page size, every word size and every memory map that
keeps the Limine promise (`MemMapsAssumption`: usable entries are sorted, disjoint and
of whole pages). The invariant `Steps` says at each statement of `pmmInit` what the
loops before it have established: no usable entry ends behind `last` (`LastInv`), the
bitmap lies in a usable entry that holds it, and while the entries are freed the clear
bits are the pages of those seen so far (`FreeBefore`). That the page of the bitmap's
last byte is in its own entry and inside the bitmap (`BitmapInEntry`) is what keeps the
assertion of `bitmapFill` true when it is reserved. The properties are about bytes and
the invariant about pages; `RunIsBytes` and `BitmapRunIsBytes` lead from one to the
other, over `QuotientIsGreatest` and `RoundUp`, the facts about division behind the
three roundings of the code.

`InterruptsProofs` holds for every number of vectors and drivers and whatever the
firmware says. That a vector is shared only when all are taken follows from three
facts that are inductive together: before `irqInit` nobody has a vector, behind it
the spurious interrupt's is taken (`SpuriousTaken`), and a vector that was given
stays taken (`GivenTaken`). The assumption that there are at least two vectors is
needed: with one, the answer 0 of `bitmapFind` would be the spurious interrupt's.
That reports are true (`RInv`) is a look at every exception; no other step reports.
For the lines the invariant goes with the table: the lists that `ParseEntry` builds
hold entries of the table, and every override is still to be parsed or in the list
(`Parsed`), so that once parsing has ended the loops of `ioApicMapISA` and
`ioApicFindForGSI` find what the firmware says, whatever its order. A pin that a
driver wrote stays as it is while no other driver's line arrives there
(`PinsMapped`): the table's ranges are disjoint and its names distinct
(`FirmwaresAssumption`, which is what the ACPI specification asks of it), the two
words of an entry are written by one driver at a time (`OneWriter`), and the lower
word, which unmasks, is written before the upper one but does not change it.
`StubsAssumption` says that no more than the one stub is missing.

`SlabProofs` holds for every number of CPUs, pages and frees and every size of objects
and pages; the assumptions are those of `Slab`. The invariant must not speak of slots: frees
push links through the page, over other links and into each other, and the chain from a `firstFree`
may come to one address twice or end in data. What survives all of this is little and is
enough: whatever is a link leads into its own page (`OwnLinks`), so `slabFree` finds by
`ALIGN_DOWN` the header of the slab that the object came from; every object in the hands of a user
or of a call comes from a slab that is in a list (`Places`); `usedObj` counts them
(`Counted`), with several users of one address counted one by one; and the lists follow
`usedObj` (`UseOfLists`). All of it needs that one CPU at a time is behind the lock (`Exclusive`)
and what that CPU found there (`Selection`). It holds without a condition: a call that
overran its page is stopped with the lock held, so that no other one changes the lists,
and a user who writes behind its page writes to memory that the module does not have; that is why
the properties claim nothing once `strayed` is true. `ObjectsShareNothing` and
`ListThreadsFreeSlots` are about the time before the first free, in which slots are
taken in their order, each by one user (`InOrder`).

`ProcessorsProofs` holds for every finite set of processors, every number of
exceptions and up to the three tables that a walk can miss. The argument is a
typing of code. A state of a processor is the set of locks it holds and the
characters of its line that it has printed; `Runs(k, s, t)` says that the
instructions k take it from s to t, each taking only a lock that ranks behind all
that are held (cache, walk, pmm, printf, serial), dropping only one that is held, and
calling a function only where its first lock may be taken. Every course of every
function runs from any state in which it may be called back to that state
(`pmmAlloc`, `vmmWalk`, `slabAlloc`, `printf`), a panic in it ends its code, and
typings compose (`RunsJoin`). The invariant is that what every
processor has left to run is typed from the locks it holds (`Running`), but for
those that an exception hit in the middle of a `printf`, which wait for
`printfSpinlock` for ever (`Stuck`). So whoever waits for a lock waits for one that
ranks behind all it holds; in a circle of waits take the processor whose lock ranks
highest, and the one that holds it waits for a lock that ranks higher still.

`AhciProofs` holds for every machine, every number of slots and every size of the
fields; the assumptions are `SizesAssumption` (the counts of a command can hold
what the byte count of its table can) and `MachinesAssumption`. The invariant
follows one command: what was prepared is in slot 0 or its port has
stopped for good (`Prepared`), because a bit that was left behind means an error
(`PortInv`) and otherwise slot 0 is the first free one (`FirstSlotIsFound`); while the
bit is set nothing has been moved (`Pending`); and when the loop ends everything was, or
nothing ever will be (`Finished`). `CommandCounts` is the arithmetic of the fields:
the greatest transfer, whose sector count is cut to 0, is right too.

`VfsProofs` holds for every set of names and calls, paths of every length, every
number of calls and every size of files; the assumptions are the three named ones of
`Vfs`, which say what the arguments of calls are. Nodes and mounts are a graph:
`looks` is where each name leads from each node (a child, or the root of the mount
that covers it), and `Leads(looks, p, n)` that the path p leads to node n. The
invariant `Sound` says of the graph that a name leads to a node that was made later
(`NodesSound`, `MountsSound`, hence `Rising`) and that no two names lead to one node
(`Separate`). So there is no cycle, a node has one path (`PathUnique`), the rebuilding
of `VfsRefinement` goes through every path that leads somewhere and meets no node twice
(`TreeIs`), and the loop of `vfsLookup` ends where its path leads, piece by piece, with
its empty pieces, files in the middle and names too long (`LookupIs`). Duplicate names
are in it: the graph has the first child of a name, and `Separate` says nothing of a
child that a newer one of the same name hides. A call that creates or mounts
replaces what one path leads to by nodes that are new (`Graft`): every path that
does not begin with that one leads where it did, every one that does leads to a new node
or nowhere (`Regraft`), which is what `FileTree` says of the tree. From the
invariant the lists and each step of the refinement follow. For the reads it needs one part
more, `Kept`: the bytes of every file are what the calls of write were to make of them
(`wrote`), which each call keeps because it changes the data of one node or makes new nodes
of zeroes.

The recursive functions of the file system and of the chain of free slots are not
out of reach of the prover: an argument by induction is one about the least
counterexample (`LeastExists`), and `IterationExists` of `SlabProofs` shows so
that a recursion along the natural numbers has a value, which is what `FreeChain`
of `Slab` needs. The modules with proofs each state the few facts about least
elements and lists that they use.

Only model-checked: liveness (`LockIsDropped`, `EverybodyArrives`, `PanicIsReported`,
`EveryLoopEnds`), because liveness under fairness is beyond this prover. Every safety
property of every run that passes is a theorem.

## 5. Disagreements between the code and its words

`slab_format` is a run TLC ends with a counterexample. `mem/slab.c:44-46` says
that objects are in the format "pointer to the next free object (size_t) - actual
object data". `slabAlloc` returns the address behind the link; `slabFree`
(`mem/slab.c:98-100`) takes that address for the address of the slot, writes the
link there and puts it in `firstFree`. The next allocation returns the address
behind that one. Each round of allocation and free so moves an object by one
word, into the next slot and eventually out of the slab: in a page of ten words with three
objects of three, three rounds bring two users to one address or an object to the end
of the page, and the next free writes its link behind it. Counts and lists stay right until then
(`UsedIsCounted`, `ListsMatchUse`); the objects are no longer disjoint. Nothing in the
kernel calls `slabFree` yet.

`everything_halted` is the other one. `doPanic` prints "panic: call trace end,
everything halted!" (`kernel/panic.c:76`) and then halts its own processor. TLC
shows a processor that halts after its panic while the other one goes on running
code. What does hold is that the others get no further than the next lock the
panicked one holds: `PanicStopsAllocator` for the page allocator.

`spurious_vector` is the third. `irqInit` installs a handler for vector 255
(`irqInstall(255, irqHandleSpurious)`, `driver/irq.c:43`) that prints "irq: spurious
interrupt!". `isr.c:6` declares `isrStub[256]` and `isrInit` reads all 256,
but `isr.asm:23` defines 255 entries (`%rep 255`). The gate of vector 255 so gets
the first bytes of the code behind the table for an address.

## 6. What is not modelled, and the plan

Not modelled, for good: `include/limine.h` (declarations), the formatting in
`util/printf.c` (third-party), `driver/log/term.c` (font data and a third-party
terminal), `driver/fb.c` and `cpu/gdt.c` (constant data and pixels), the build
files, and what nothing calls: the writes to PCI configuration space, and
`acpiShutdown` with its search for the sleep type.

Modelled in part:

* Of `isrCommon` the way back from a handler, and of the local APIC the end of an
  interrupt: interrupts are never enabled, so no handler of a device returns in this
  version of the kernel.
* Of `util/string.c` what the modules meet (the assertion of `memcpy`, the
  comparisons of `strcmp` and `memcmp`, a name cut by `strncpy`). The inline assembly of `memset` and `memcpy` does not name the
  registers that hold the addresses, so what a build makes of them is the compiler's
  choice; the modules take them to set and copy.
* Of `doPanic` the walk up the stack frames, which reads whatever is in memory.
* The slab caches of vfs and tmpfs never run out in `Vfs`; running out is a
  panic in `Slab` and `Pmm`.

Next, in this order:

1. **`Strings`**: `memcpy`, `memmove`, `memcmp`, `strcmp`, `strncpy` against their
   reference definitions over bounded memories.
