# Formal models of the mcube kernel

This directory holds TLA+ models of the mcube kernel in `../src`. It also holds
the TLC configurations that model-check them and TLAPS proofs about them. Each
module says in its header which source file it models. Each action names the
lines it translates. `PROJECT.json` maps every definition to its lines.

## 1. The system and its parts

mcube is a small x86-64 kernel. Its scheduling core runs on every CPU. The parts
that interact are these:

| Part | Source | Shared state | Operations |
|---|---|---|---|
| Spinlock | `arch/x86/lib/spinlock.c`, `unnamed/part_009` (spinlock.h) | `lock->val`, `lock->rflags`, each CPU's IF flag | `spin_init`, `spin_lock`, `spin_trylock`, `spin_unlock` |
| O(1) run-queue | `unnamed/part_011` (kernel/queue/o1.c) | `rq->array[p]` circular lists through `th->next/prev`, `rq->bitmap`, `bindex[cpu]` | `init_rq`, `enqueue_rq_queue`, `enqueue_rq_queue_head`, `dequeue_rq_queue`, `pick_next_task` |
| SMP bring-up | `arch/x86/smpboot.c`, `include/x86_64/smpboot.h` | `nr_alive_cpus`, the trampoline parameter block, `start_running_testcases` | `smpboot_init`, `start_secondary_cpu`, `secondary_start`, `smpboot_trigger_secondary_cores_testcases` |
| Local APIC / IPIs | `arch/x86/apic.c` | the ICR and its delivery status; the LVT timer entry and the timer's initial and current counts | `apic_send_ipi`, `apic_ipi_acked`, `pit_calibrate_cpu`, `pit_calibrate_apic_timer`, `apic_set_counter_us`, `apic_udelay`, `apic_monotonic`, `init_apic_timer`, `start_apic_timer`, `stop_apic_timer`, `__apic_timer_handler` |
| Doubly-linked lists | `include/mcube/list.h` | each node's `next` and `prev` | `list_init`, `list_empty`, `list_add`, `list_add_tail`, `list_del` |
| I/O APIC | `unnamed/part_001`, `include/x86/ioapic.h` | redirection table | `ioapic_init`, ISA IRQ set-up |
| E820 map | `unnamed/part_000`, `arch/x86/mm/e820.c`, `unnamed/part_010` | the BIOS map and the page-frame cursor | validation, page allocation |
| MP tables | `arch/x86_64/mptables.c` | CPU and I/O APIC tables | floating-pointer search, parsing |
| PS/2 keyboard | `unnamed/part_006` (drivers/misc/keyboard.c) | the i8042 output buffer, IRQ1's I/O APIC entry, the IRR bit | `keyboard_init`, `kbd_flush_buffer`, `__kb_handler` |
| ACPI | `arch/x86/acpi.c` | the boot page table and its page pool, `struct acpi`, the physical memory map | `init_acpi`, `map_table`, `madt_find` |
| Kernel virtual memory | `arch/x86/vm_map.c` | the kernel's PML4 tree | `vm_init`, `vm_kmap`, `map_kernel_range` |
| PIT driver | `unnamed/part_004` (pit.c) | the 8254's counters 0 and 2, port 0x61, `timer0_monotonic` | `pit_mdelay`, `pit_oneshot`, `init_timer`, `start_timer`, `stop_timer` |
| String copy | `unnamed/part_005` (string.c) | the bytes copied | `memcpy_forward`, `memcpy_nocheck` |
| syscalls, shell, dump, GDT/IDT | the remaining files | | |

How they interact:

- Every shared kernel structure is protected by a spinlock. Run-queues are one
  example (spec.md 4.2). An interrupt handler may take the same lock as the
  thread it interrupted, so the lock disables local interrupts.
- The run-queue operations run with the run-queue lock held. The preemption
  glue calls `pick_next_task` from the timer interrupt. That glue and the
  thread and per-CPU descriptors are not under `src/`.
- `ioapic_init` masks every routing entry at boot. Drivers then route their ISA
  IRQ with `ioapic_setup_isairq`, which looks the pin up in the MP tables. The
  keyboard driver is one such driver: its IRQ1 is edge-triggered, so an edge
  that reaches a masked entry is lost.
- SMP bring-up uses the local APIC to send INIT and SIPI IPIs. It counts live
  cores through `nr_alive_cpus`. APs start only after the BSP releases them.

The hard behaviours:

- **Spinlock.** Interleavings of CPUs on the lock word. An interrupt handler
  may re-enter `spin_lock` on the same lock while the outer call spins with
  interrupts re-enabled. The order of the save, clear and restore steps
  matters.
- **Run-queue.** Pointer updates whose order matters. The bitmap must be
  cleared exactly when a list empties. The lists are corrupted when a caller
  breaks the contract.
- **SMP bring-up.** IPIs may be lost or late. Acks and the alive-count wait
  have timeouts and retries. One parameter block is shared between cores.

## 2. Modules

### Spinlock (`Spinlock.tla`, `MCSpinlock.tla`, `SpinlockProofs.tla`)

- **State.** `val` is the lock word. `lockRflags` is `lock->rflags`,
  abstracted to its IF bit. `intr[c]` is CPU c's IF flag. `inIrq[c]` says
  whether an interrupt handler is running on c. Each context x (a CPU's thread
  or its interrupt handler) has a program location `pc[x]` and its local
  `rflags[x]`. The history variable `entryIF[x]` records IF on entry.
- **Actions.** Each C statement that touches shared state is one action.
  `LockSave` is line 91. `LockTAS` is the atomic test-and-set of line 93.
  `LockRestore`, `LockSpin` and `LockDisable` are lines 94-99. `LockStore` is
  line 107. The `Try*` actions are `spin_trylock`. `UnlockRead`, `UnlockClear`
  and `UnlockRestore` are lines 140, 142 and 144.
- **Environment.** `ThreadCall` calls a lock function. `ThreadSetIF` is a
  thread's own cli/sti outside the lock functions. `IrqEnter` is an interrupt
  taken when IF is set. `IrqReturn` is its iret, which restores IF.
- **Instance.** `MCSpinlock` uses two CPUs, so four contexts.

### Run-queue (`RunQueue.tla`, `RunQueueAbs.tla`, `MCRunQueue.tla`)

- **State.** `next` and `prev` are the link fields of every node. Node p is
  the sentinel head `rq->array[p]`. The other nodes are thread descriptors.
  `bitmap` is the set of set bits. `bindex` and `picked` hold the last
  `pick_next_task` result.
- **Actions.** Each C function is one atomic action, because its caller holds
  the run-queue lock. Its assignments are applied in the C order, by chained
  EXCEPTs. `List(p)` reads the list from memory by following `next`. It is a
  recursive function, not a RECURSIVE operator.
- **Abstract spec.** `RunQueueAbs` is what spec.md 4.2 promises: one FIFO
  sequence per priority. `MCRunQueue` instantiates it with
  `rq <- [p |-> List(p)]` and checks `AbsSpec` as a property. This is the
  refinement.
- **Contract.** `Next` follows the caller contract. `MisuseNext` drops it.

### SMP bring-up (`SMPBoot.tla`, `SMPBootProofs.tla`)

- **BSP.** The BSP is one program counter over `smpboot_init` and
  `start_secondary_cpu`. Its locals are `count`, `j` and `timeout`.
- **IPIs.** IPIs in flight are a set. `Deliver` gives one to its target and
  `Lose` drops it. The ack poll of `apic_ipi_acked` succeeds once nothing is
  in flight. It may time out while something is.
- **APs.** An AP moves through halted, waiting for SIPI, trampoline, spinning
  in `secondary_start`, and running tests. `SecondaryStart` loads the per-CPU
  area from the shared parameter block and increments `nr_alive_cpus`.
- **Time.** `pit_udelay` is the interleaving: APs take any number of steps
  between two polls.

### I/O APIC (`IOAPIC.tla`, `MCIOAPIC.tla`, `IOAPICProofs.tla`)

- **Constants.** The MP-table data `ioapic.c` reads are constants: the ids in
  `ioapic_descs[]` (`DescId`) and a set of possible `mp_irqs[]` tables.
- **State.** Each chip has an id register (`chipId`), which the BIOS may have
  left different, and a redirection table (`red`). The BIOS may have left the
  table in any state. An entry is abstracted to its delivery mode, mask bit
  and vector. `bios` records the table as the BIOS left it. `written` and
  `stray` record where `ioapic_setup_isairq` wrote: a pin of a table, or a
  target outside every table.
- **Actions.** `ioapic_init` is the whole function, as one step: the id
  fix-up, `max_irq`, the two pin searches (`Get8259APin`, `IsaPin`) and the
  mask loop (`MaskAll`). `ioapic_setup_isairq` is one step. The pin is taken
  `% 256`, as the `uint8_t` parameter of `ioapic_write_irqentry` does.
- **Instance.** `MCIOAPIC` uses two chips with two pins each. It has three
  MP tables: a complete one; one whose keyboard entry follows an entry on
  another bus; and one whose only keyboard entry is on another bus.

### PS/2 keyboard (`Keyboard.tla`, `KeyboardProofs.tla`)

- **Environment.** The i8042 buffer, IRQ1's mask bit and the IRR bit follow
  the comment of `keyboard.c` lines 310-349. A scancode arriving in an empty
  buffer raises an edge. So does a read that leaves the buffer non-empty. An
  edge sets IRR only if the entry is unmasked.
- **Actions.** `KeyPress` is the user typing. `KeyboardSetup` is lines
  306-308: routing and unmasking. `FlushStep` is one iteration of
  `kbd_flush_buffer`. `EnableIrqs` is the kernel enabling interrupts.
  `kb_handler` is `__kb_handler`: it reads through `kbd_read_input` and tracks
  shift.

### E820 memory map (`E820.tla`, `MCE820.tla`, `E820Proofs.tla`)

- **State.** The buffer the real-mode code leaves below 1 MByte, as cells:
  a uint32 word, or a whole `struct e820_range`. `desc` is the layout the
  buffer was written from. `setup` is `memory_setup`.
- **Actions.** `e820_init` is `validate_e820h_struct` (the walk, the
  checksum, the error code, the bound) followed by `build_memory_setup`.
  `SanitizeRange` is one call of `e820_sanitize_range` by the page allocator.
- **Reference.** `WellFormed(desc)` says, without the walk, which buffers are
  valid. `UsablePages` says which pages an available range gives.

### Kernel virtual memory (`VMMap.tla`, `MCVMMap.tla`)

- **Scale.** A table has E = 4 entries and a large page is LP units, so the
  four levels nest as in the code at 2 entries per bit instead of 9.
- **State.** `pt` holds the four levels, with `NONE` for an empty entry.
  `done` is the set of ranges `vm_kmap` has promised.
- **Actions.** `vm_init` maps the kernel text and the physical memory.
  `vm_kmap` is one call with its `vaddr_is_mapped` check, the whole
  `map_kernel_range` walk (`map_pml4_range`, `map_pml3_range`,
  `map_pml2_range`) and the panic on a re-map.
- **Contract.** `ContractSpec` adds `MapKernelRangeCall`. This is a caller of
  `map_kernel_range` that keeps the contract stated in its comment and
  nothing more.

### MP tables (`MPTables.tla`, `MCMPTables.tla`)

- **Inputs.** Five memories, holding valid, corrupt and unsupported floating
  pointers in the three search areas. A configuration table of up to three
  of ten entry kinds, with a good or a bad header checksum.
- **Actions.** `SearchSlot` is one 16-byte slot of `search_for_mpf`.
  `NextArea` moves `get_mpf` to the next area. `CheckMpc` is
  `mptables_init`'s checks and `mpc_check`. `ParseEntry` is one iteration of
  `parse_mpc`, through `ParseCpu`, `ParseIoapic`, `ParseIrq` or `ParseBus`.
  `ParseDone` ends the walk.
- **Reference.** `Outcome` and the `Upto` counts give, without the loops,
  what a declarative reading of the code says the parse should produce.

### ACPI (`ACPI.tla`, `MCACPI.tla`)

- **Scale.** A page is `PAGE_SIZE` = 4 units and a page table has E = 2
  entries. A PD entry therefore spans 8 units, a PDPT entry 16 and a PML4
  entry 32.
- **Boot state.** The boot loader's table maps units 0-15 with two large
  pages. It has a pool of `POOL` = 5 free pages.
- **Firmware.** Seven tables sit at fixed addresses: the RSDT, the XSDT, an
  HPET, a FADT, an MCFG, two MADTs and an SSDT.
  - The second MADT's length ends before its second I/O APIC entry.
  - The RSDP is found in the EBDA, or in the ROM after a misaligned
    signature. It is ACPI 1.0 or 2.0, with or without an XSDT.
  - The root table lists any 0-3 of the six other tables in any order, which
    gives 473 machines.
  - Two machines lack the RSDP or the root table.
- **Actions.**
  - `LocateRsdp` covers lines 247-256.
  - `ChooseRoot` covers lines 260-284 up to the first `map_table`.
  - `ReadSdtEntry` is one iteration of `read_xsdt` or `read_rsdt`. It includes
    the whole `map_table` (`map_range`, `is_mapped`, `create_page`,
    `alloc_page`), the HPET window and `read_table`.
  - `ReserveLapic` and `NextIoApic` cover the two reservations.
  - `fatal()` in `alloc_page` ends the run in `fatal_pool`.
- **Reference.** `Outcome` derives the end state from the firmware alone:
  which RSDP and root, and how many page-table pages the listed tables need
  beyond the boot table.

### String copy (`MemcpyForward.tla`)

- **Memory.** Each address holds its own number, so every byte is told apart.
  The `QWORD` bytes after the callers' area show any overrun.
- **Actions.** `memcpy_forward` is the overlap check. `memcpy_nocheck` stands
  for both unchecked entries. `Movsb` and `Movsq` are one iteration of the
  two `rep` instructions, and `MovRcx` loads the second count. Each `movsq`
  loads its quadword before it stores it.

### PIT driver (`PIT.tla`)

- **Driver.** Each call is the sequence of its port accesses, built by
  `Program`. One access happens per step: `timer2_stop`, `timer2_start`,
  `WriteControl`, `CheckCounter`, `WriteByte`, `CheckMonotonic` and `Poll`.
- **Hardware.** The 8254 is modelled from the datasheet the file cites.
  - `CtlWrite` resets a counter and its OUT, and the counter waits for a
    count.
  - `ByteWrite` takes the LSB, then the MSB.
  - `ClockCtr` loads a pending count on the next clock without decrementing.
    In mode 0 it counts down and raises OUT. In modes 2 and 3 it reloads.
  - `Clk` ticks both counters between any two driver steps. An edge on OUT-0
    is `__pit_periodic_handler`.
- **Counts.** `Counter` is the code's integer formula with the real clock
  rate. With us = 2 and us = 5 it gives counts of 2 and 5.

### Local APIC timer (`APICTimer.tla`, `APICTimerProofs.tla`)

`apic.h` is not under `src/`, so the timer is modelled from Intel's
description of it. With divide-by-one, the current count drops by one per bus
clock. Writing the initial count restarts the count there. At zero the timer
raises the LVT vector unless the entry is masked. In periodic mode it then
reloads the initial count; in one-shot mode it stays at zero.

- **State.**
  - `apc` is the caller's place: calibrating, idle, in `apic_udelay`'s poll,
    or panicked.
  - `diff_min`, `ticks_min`, `cpu_clock` and `apic_clock` are the
    calibration's variables.
  - `lvtt`, `initcnt` and `curcnt` are the timer registers. `irr` is a raised
    vector waiting to be taken.
  - `waits` records each returned `apic_udelay`: its `us` and the bus clocks
    it waited.
- **Actions.**
  - `CalibrateCpu` and `CalibrateBus` are one round of `pit_calibrate_cpu`
    and of `pit_calibrate_apic_timer`. A round measures a window of 5000 us
    (`pit_udelay`, whose full wait the PIT run checks) stretched by up to
    `SMI_MAX` clocks. The last round stores the minimum times 200, and the
    bus calibration ends with `apic_local_regs_init`'s LVT timer entry. The
    `UINT32_MAX` count left running is `FAR`, which never runs out in a
    bounded behaviour.
  - `apic_udelay`, `apic_monotonic` and `init_apic_timer` each write their LVT
    entry and call `apic_set_counter_us` (`SetCounterUs`). Its assertions
    panic when `us` is 0 or above 1000000.
  - `UdelayReturn` is the poll reading a count of zero.
  - `start_apic_timer` and `stop_apic_timer` clear or set the entry's mask.
  - `Tick` is one bus clock. `apic_timer_handler` takes a raised vector.
- **Scaling.** One `Tick` is one bus clock, so `BUS_HZ` is scaled to 700 Hz.
  The arithmetic is the code's, unscaled, so the 200 Hz resolution and the
  rounding of `1000000 / us` are as large relative to the clock as the values
  TLC can reach allow.
- **Fairness.** Weak fairness on `Tick` (the bus clock runs), on
  `UdelayReturn` (the CPU keeps polling) and on `apic_timer_handler` (an
  unmasked vector is delivered). Periodic reloads are capped at `MAX_FIRES`,
  and calls at `MAXCALLS`.

### Doubly-linked lists (`DList.tla`, `DListProofs.tla`)

- **State.** `next` and `prev` give every node's pointers; heads and embedded
  nodes alike are members of `Nodes`. `failed` records a failed assertion.
- **Actions.** `list_add`, `list_add_tail` and `list_del` are their four
  pointer writes in the code's order, each reading the earlier writes. An
  aliased call (a list of one, a node added after its own neighbour) does
  what the C does. `list_empty` evaluates the assertions of lines 91 and 95.
- **Contract.** A node is added only when it is on no list and is not the
  node it is added to. The header allows no other use.
- This model has no run. Its properties are proved for every set of nodes.
  TLC checked them with four nodes while the model was written.

## 3. Runs

| Run | Checks | Shows |
|---|---|---|
| `spinlock` (MCSpinlock.cfg, 2 CPUs, ~28k states) | TypeOK, MutualExclusion, NoSelfDeadlock, IrqStateRestored, FreeLockIsTaken | Mutual exclusion holds with reentrant handlers. No handler spins over its own CPU's holder. Every lock function returns with IF as it found it. A free lock is taken by a spinner. |
| `runqueue` (MCRunQueue.cfg, 4 threads, 4 priorities, 3 threads at one priority) | TypeOK, BitmapConsistent, ListsWellFormed, AbsSpec | The bitmap mirrors the lists. The lists stay doubly linked. The pointer code implements FIFO queues with head insertion. |
| `runqueue_misuse` (violation, cfg only) | ListsWellFormed | A double enqueue silently corrupts a list. spec.md says it is a fatal, detected error. |
| `smpboot` (2 APs, 3 SIPI tries, 2 polls) | TypeOK, BootCompleteAllAlive, ParamsOwn | The assertions of lines 300 and 246 hold under lost and late IPIs. |
| `smpboot_free` (violation, cfg only) | NoFreeOfStartedAP | The fail path frees the stack of an AP that did or will start. |
| `ioapic` (2 chips, 2 pins, 3 MP tables, ~4.6k states) | TypeOK, I8259PinFromHardware, RoutedToMPDestination | The i8259 pin is found before the masking hides it. The BIOS may leave a chip with an APIC id that differs from the MP tables; a routed ISA IRQ still ends on the chip and pin the MP tables name, with its vector. |
| `ioapic_mask` (violation, cfg only) | OnlyProgrammedUnmasked | The mask loop stops one pin short. The last pin keeps the BIOS routing, possibly unmasked. |
| `ioapic_stray` (violation, cfg only) | WritesInTable | Without an MP entry for the ISA IRQ, `ioapic_setup_isairq` writes to I/O APIC -1, pin 255. |
| `keyboard` (buffer 2, 2 flush trials, 4 keys) | TypeOK, KeysEventuallyRead | Keys typed at any moment around `keyboard_init` are all eventually read. This is the race the flush after unmasking exists for. |
| `e820` (buffers of up to 2 entries) | TypeOK, ValidationExact, SanitizeExact, AllocatorFits | Validation accepts exactly the well-formed buffers. Sanitizing keeps exactly the whole pages above the kernel. `memory_setup` bounds what the allocator gets. |
| `e820_overlap` (violation, cfg only) | AcceptedDisjoint | Two overlapping available BIOS ranges both reach the page allocator. |
| `vmmap` (3 memory sizes, 6 kmap requests) | TypeOK, KernMapIdentity, RangesMapped, NoRemapPanic | Every promised page is mapped to the right frame. No call re-maps a present entry. |
| `vmmap_contract` (violation, cfg only) | RangesMapped | A call within `map_kernel_range`'s stated contract that crosses a PML3 entry boundary returns with pages unmapped (`vm_map.c:114`). |
| `mptables` (5 memories, tables of up to 3 entries) | TypeOK, InitOutcome, ParsedTablesExact | `mptables_init` takes the first valid floating pointer. The parse fills the CPU, I/O APIC and IRQ tables exactly as the reference says. |
| `acpi` (473 firmwares, ~2.1k states) | TypeOK, ReadsMapped, OutcomeExact, ReservedExact | Everything `init_acpi` reads is mapped when read. It stops exactly when the firmware or the pool forces it. The memory map ends with exactly the table, HPET and APIC ranges of the last MADT, up to its length. |
| `memcpy` (20-byte area, lengths 0-19, ~42k states) | TypeOK, CopyExact | Every call the check lets through, or a caller of the unchecked entries may make, copies exactly `len` bytes and writes nothing else. |
| `memcpy_margin` (violation, cfg only) | PanicOnlyUnsafe | `memcpy_forward` panics on overlapping calls with dst <= src < dst + 8, which the forward copy serves exactly. |
| `pit` (any 2 calls, ~450k states) | TypeOK, DelayFull, CallsReturn | `pit_mdelay` never returns before counter 2 has counted its whole count with GATE-2 up, even when OUT-2 starts high. Every call returns or stops on an assertion. |
| `pit_oneshot` (violation, cfg only) | OneshotPanicsOnlyWhenPeriodic | After `start_timer` and `stop_timer`, `pit_oneshot` panics: `timer0_monotonic` is never cleared. |
| `pit_ticks` (violation, cfg only) | TimerTicks | `init_timer` then `start_timer` leaves counter 0 waiting for a count. The control word discards the earlier count, so IRQ 0 never fires. |
| `apictimer` (700 Hz bus, SMI of 1 clock, 3 calls, us in {0, 50, 5000, 1000000, 1000001}, ~1.2M states) | TypeOK, UdelayAtLeast, UdelayReturns | Under any SMI stretch of the calibration windows, every `apic_udelay` waits at least `us` of the real bus clock, short by at most the 200 Hz resolution and one clock. Every `apic_udelay` that sets its counter returns, whatever was programmed before. |
| `apictimer_round` (violation, cfg only) | UdelayAsCommented | With us = 600000, `1000000 / us` rounds down to 1, so `apic_udelay` waits the whole calibrated second, not the 0.6 s the comment of lines 280-283 promises. |

`PROJECT.json` lists the twelve passing runs. The
rows marked "cfg only" are reproduced by their configuration. For example,
`tlc -config MCPITTicks.cfg PIT` reports `TimerTicks` violated. Each such
finding in `PROJECT.json` names its configuration.

**Bounds.**

- Two CPUs are the least that shows contention and same-CPU reentrancy
  together. The invariant used by the proofs was also checked with three CPUs.
- Three threads at one priority show head and tail insertion and removal from
  the middle. A fourth thread on another priority makes `find_first_bit`
  choose.
- Two APs let the parameter block be reused.
- Two I/O APIC pins suffice for a "last pin" to differ from the others. Two
  chips make the lowest-numbered search and the id lookup choose.
- A buffer of two scancodes is the least in which a read leaves the buffer
  non-empty, which is what raises the second edge. Four keys fill it before
  and after the unmasking.
- ACPI: five pool pages are between what the root needs (2-3 pages) and what
  all tables need (9), so both `done` and `fatal_pool` occur. Two MADTs make
  "the last one wins" observable.
- memcpy: lengths up to 19 cover 0-2 quadwords and every residue of `len & 7`.
  Every distance between dst and src up to the area appears, including those
  under a quadword.
- PIT: two calls give every pair of operations, including `init_timer` with
  `start_timer` in both orders. The counts 2 and 5 keep the clock short. The
  arguments 0 and 60000 reach the first and third assertions. `CAP` = 6
  bounds the clock counters above the largest count.
- APIC timer: a 700 Hz bus gives 3.5 clocks per 5000 us window, so the
  200 Hz resolution and the SMI stretch change the calibrated clock. The
  argument 50 is `kbd_flush_buffer`'s. 1000000 makes `1000000 / us` equal 1.
  0 and 1000001 reach the panics. Three calls let a periodic timer still run,
  masked or not, when `apic_udelay` reprograms it.
- Two polls stand in for the code's 1000. Any positive bound lets an AP be
  faster or slower than the wait, because time is the interleaving.

**Fairness.** `FairSpec` assumes weak fairness of every context's lock steps
and of `IrqReturn`. A CPU keeps executing the context it runs, and interrupt
handlers return. It assumes nothing of `IrqEnter` or of callers. The keyboard's `FairSpec`
assumes weak fairness of `keyboard_init`'s steps, of the kernel enabling
interrupts and of the handler. The boot CPU runs `keyboard_init` to its end,
and a pending, unmasked interrupt is taken once IF is set. Nothing obliges the
user to type. The PIT's
`Spec` assumes weak fairness of the clock and of the driver's steps. The
oscillator never stops, and the CPU executes the call it is in. Nothing
obliges a caller to call. `APICTimer`'s `Spec` assumes weak fairness of the
bus clock, of `apic_udelay`'s poll and of the delivery of an unmasked
vector. The CPU spins in the poll until it sees zero. The SMP and
run-queue runs check safety only. The boot may stop: a panic or halted APs are
final, so deadlock is not checked there.

**Mutants.** Every property of a passing run is broken by a plausible bug in
the code it is about. `PROJECT.json` lists them: a load/store instead of the
test-and-set, the restore before the clear, a dropped retry, a loop stopping
one CPU early.

**Findings.** The violation runs above show the run-queue, SMP and I/O APIC
findings. These are the others:

- **`e820_map.c:120`: the entries are never checked.** Two overlapping
  available ranges are both handed to the page allocator.
- **`vm_map.c:114`.** `map_pml3_range` ends a non-last entry's sub-range one
  entry span after its start instead of at the entry's boundary.
  `map_pml4_range` has the same shape at line 168. The bug is latent for the
  calls `vm_init` makes.
- **`pit.c`: `stop_timer` never clears `timer0_monotonic`.** A later
  `pit_oneshot` therefore panics spuriously.
- **`pit.c`: a discarded count.** `init_timer` writes a count before
  `start_timer`'s control word, and the 8254 discards that count. The call
  order `init_timer`, `start_timer` gives no tick.
- **`apic.c:285`: the counter's rounding.** `apic_set_counter_us` computes
  `apic_clock / (1000000 / us)`. The comment above it says
  `apic_clock * (us / 1000000)`. The integer quotient `1000000 / us` rounds
  down, so a delay of 600000 us waits a whole second, and every `us` above
  500000 waits too long. `MCAPICTimerRound.cfg` shows it.
- **`memcpy_forward`'s 8-byte margin is stricter than the copy needs.** Every
  forward overlap is copied exactly, so the margin only costs panics on legal
  calls.

## 4. Proofs

`SpinlockProofs.tla` proves the following for every finite non-empty set of
CPUs, from `CPUsAssumption`:

- `TypeCorrect`: `Spec => []TypeOK`.
- `MutualExclusionHolds`: `Spec => []MutualExclusion`.
- `NoSelfDeadlockHolds`: `Spec => []NoSelfDeadlock`.
- `IrqStateRestoredHolds`: `Spec => IrqStateRestored`, the action property
  that `spin_unlock` and a failed `spin_trylock` return with the caller's
  interrupt flag. It rests on `RflagsSaved`, which says where that flag is
  kept from entry to return: in the local `rflags` until the lock is taken,
  in `lock->rflags` while it is held, and in `rflags` again from the read of
  line 140. Only the holder writes `lock->rflags`, so the step that stores
  it needs `MutualExclusion` from `IInv`. TLC checked `RflagsSaved` on the
  run's instance before the proof was written.

None of these is inductive alone. The inductive invariant `IInv` conjoins
three further facts:

- `LockedIfHeld`: the lock word is set while anyone holds the lock.
- `IrqOffInside`: from the save of line 91 to the restore of line 144, the
  running context has IF clear, except in the busy-wait.
- `IrqOnlyOutside`: an interrupt never arrives over a thread inside the lock
  functions, and the handler context is idle when no interrupt is served.

`InitIInv` and `NextIInv` prove `IInv` inductive, with one step per action.
`IInvInvariant` concludes by PTL. TLC checked `IInv` as an invariant with
three CPUs before the proof was written.

`MemcpyForwardProofs.tla` proves the following for every positive `AREA`
and every `MAXLEN`, from `MemcpyAssumption`:

- `TypeCorrect`: `Spec => []TypeOK`.
- `CopyExactHolds`: `Spec => []CopyExact`.

`CopyExact` speaks only of the final state, so it is not inductive. `IInv`
states where each loop is:

- Before the copy (and on panic), memory is untouched.
- Once the copy starts, the call is forward-safe. `StartSafe` proves this
  from `memcpy_forward`'s check and from the callers' contracts.
- In `rep movsb`, after `k = len % 8 - rcx` bytes, rdi and rsi are k past
  dst and src. Memory is then `CopiedOf(dst, src, k)`: the first k bytes of
  dst hold src's, and every other byte is unchanged.
- In `rep movsq`, the same holds with `k = len - 8 * rcx`.

The key lemma is `CopiedStep` (with `CopiedQword` for a quadword). When the
call is forward-safe, the byte a step reads at src + k has not yet been
overwritten, so one step extends the copy by one byte (or by eight). That
is where the overlap check matters. Each action has its own lemma, and
`NextIInv` combines them. TLC checked `IInv` on the memcpy run's instance
before the proof was written.

`DListProofs.tla` proves the following for every set of nodes, with no
assumption:

- `LinkedHolds`: `Spec => []Linked`: `prev` is the inverse of `next`.
- `NoAssertFailsHolds`: `Spec => []NoAssertFails`: the assertions of
  `list_empty` and `list_del` never fail.

`NoAssertFails` is not inductive alone. A state with `failed` false but the
pointers broken would fail the next `list_del`'s assertion. `IInv` is
`TypeOK /\ Linked /\ ~failed`. `AddKeepsLinked` and `DelKeepsLinked` show
that the four writes of `list_add` and of `list_del` keep the pointers
inverse; `list_add` needs its contract for this (the new node links to
itself and is not the node it is added to). `list_add_tail` is proved the
same way inside `NextIInv`.

`SMPBootProofs.tla` proves the following for every number of APs, SIPI
retry count and wait timeout, from `SMPBootAssumption`, with IPIs that may be
delivered late or lost:

- `TypeCorrect`: `Spec => []TypeOK`.
- `BootCompleteAllAliveHolds`: `Spec => []BootCompleteAllAlive`, the
  assertion of `smpboot_init`.
- `ParamsOwnHolds`: `Spec => []ParamsOwn`, the assertion of
  `secondary_start`.

Neither property is inductive alone: both depend on where the BSP's loop is
and on what is in flight. `IInv` conjoins five facts besides `TypeOK`:

- `Places`: `cur`, `count`, `params` and `timeout` for each place of the BSP.
  For example, between the INIT and the end of the wait, `params = cur`.
- `AliveCount`: `nr_alive_cpus` is `cur`, plus one if AP `cur` is already
  alive.
- `InFlight`: every IPI in flight is for AP `cur`, and the parameter block is
  `cur`'s. Nothing is in flight outside the INIT/SIPI sequence. A SIPI is
  never in flight together with an INIT for the same AP.
- `InOrder`: the APs below `cur` are alive and the APs above it are halted.
  Only AP `cur` can be waiting for a SIPI or in the trampoline.
- `OwnArea`: every alive AP runs on its own per-CPU area.

`InOrder` and `InFlight` carry the argument. Only AP `cur` can reach the
trampoline, and only while the block holds `cur`'s parameters, so the AP
that loads the block loads its own. `AliveCount` and `InOrder` give the
assertion once `cur` has passed the last AP. `BSPIInv` proves one step per
BSP place, and `EnvIInv` covers delivery, loss, the AP's start and the tests.
TLC checked `IInv` with two and with three APs before the proof was
written.

`APICTimerProofs.tla` proves the following for every bus and TSC rate, SMI
stretch, set of `us` arguments and call bound, from `APICTimerAssumption`:

- `UdelayAtLeastHolds`: `Spec => []UdelayAtLeast`. Every `apic_udelay(us)`
  that returns has waited w bus clocks with
  `(w + 1) * 1000000 > (BUS_HZ - 200) * us`.
- `TypeCorrect`: `Spec => []TypeOK`.

The argument runs in three parts:

1. A calibration window counts at least `Lo = BUS_HZ * 5000 \div 1000000`
   clocks, and an SMI only adds clocks. So the minimum over five windows is
   at least `Lo` (`TicksMinBound`).
2. `apic_clock = ticks_min * 200` then exceeds `BUS_HZ - 200` (`ClockBound`,
   lemma `WindowScaled`).
3. While `apic_udelay` polls, the clocks waited plus the one-shot count equal
   the programmed count `apic_clock \div (1000000 \div us)` (`PollState`).
   When the poll reads zero, the wait is the whole count.
   `CalibratedCountLongEnough` shows that this count, plus one, covers `us`
   microseconds of a clock above `BUS_HZ - 200`.

The division facts are proved once, as `DivBounds`, `CountCoversUs` and
`CounterUsNat`, for every operand. `IInv` is `TypeOK` with these four facts
and `RoundBound`, and each action has its own lemma. TLC checked `IInv` on
the run's instance and with `BUS_HZ = 1033` and `SMI_MAX = 2` before the
proof was written.

`IOAPICProofs.tla` proves the following for every number of chips (1 to
8) and pins, every MP interrupt table, every set of driver set-ups and every
routing the BIOS may leave, from `IOAPICAssumption`:

- `I8259PinFromHardwareHolds`: `Spec => []I8259PinFromHardware`. Once
  `ioapic_init` has run, `i8259_pin` names an unmasked ExtINT entry of the
  BIOS routing whenever the BIOS left one.
- `RoutedToMPDestinationHolds`: `Spec => []RoutedToMPDestination`. Every
  entry a driver routed is on the chip whose id register, and on the pin,
  the MP tables give for its ISA IRQ, and it carries that IRQ's vector.
- `TypeCorrect`: `Spec => []TypeOK`. This includes the pair a failed lookup
  writes to: an `int` apic and a `uint8_t` pin.

`I8259PinFromHardware` is not inductive alone, because it depends on what
`ioapic_init` reads. `IInv` adds `BootState`: before `ioapic_init`, the
tables are as the BIOS left them, and nothing is located or written. The
argument for `ioapic_init` is that it searches `red`, which is still `bios`.
Any BIOS ExtINT entry is within `max_irq`, so the set the loops accept is not
empty. `Get8259APinResult` shows that the search then returns an accepted
entry, and that the MP-table fallback is not taken.

The loops stop at the first candidate, and the model takes that as a CHOOSE
of the least one. That CHOOSE is defined because a non-empty set of naturals
has a least element. `NatMin` proves this from the library's
`NatLessThanWellFounded` and `WFMin`. `FirstPair` lifts it to (apic, pin)
pairs. `IsaPinType` uses `NatMin` for the two loops of `ioapic_isa_pin`.
`RoutedToMPDestination` is not inductive alone either. `ioapic_isa_pin`
compares the MP destination with `ioapic_descs[].id`, not with the chips'
id registers. So the proof needs `IdsFixed`: after `ioapic_init`, every chip
answers to its MP id. `BootState` says nothing is written before
`ioapic_init`. `IsaPinRoute` shows that a pin `ioapic_isa_pin` finds is
the destination of an MP entry for the IRQ, on the chip with that MP id.
TLC checked `IInv` on the run's instance before the proof was written.

`KeyboardProofs.tla` proves `TypeCorrect`: `Spec => []TypeOK` for every
buffer size, number of flush trials and number of keys, from
`KeyboardAssumption`. `TypeOK` is not inductive. It says `trials` stays in
`0 .. FLUSH_TRIALS`, and that holds only because `kbd_flush_buffer` stops
when its last trial is spent. The strengthening `TrialsLeft` says that
`keyboard_init` is before the flush, or inside the loop, only with a trial
left. The buffer facts come from the library's `HeadTailProperties` and
`AppendProperties`. TLC checked `IInv` on the run's instance before the
proof was written.

`E820Proofs.tla` proves `SanitizeExactHolds`: `Spec => []SanitizeExact`.
It holds for every word width, page size and kernel end that
`E820Assumption` allows, for every buffer the BIOS may write and every order
of calls. It has one hypothesis, `RangesBelowLastPage`: no BIOS range
reaches into the last page of the address space. x86-64 physical addresses
have at most 52 bits, so a real BIOS range is far below 2^64 - 4096. The
hypothesis is needed. `ROUND_UP` is `((x - 1) | (n - 1)) + 1`, and it wraps
to 0 for a base in the last page. TLC finds `SanitizeExact` violated on a
scratch instance with `WORD = 32` and a single range at base 29. The run's
ranges all end at or below 28 = `WORD - PAGE_SIZE`.

The argument has two parts.

- `SanitizeCorrect` is the arithmetic. It works on one available range:
  - `RoundUpFacts` and `RoundDownFacts` bound the rounded ends.
  - `PageStart` and `PageEnd` show that a page lies inside the range exactly
    when it lies inside the rounded ends.
  - Cases on the order of the rounded ends and the kernel end then give the
    result and the new range.
- `IInv` is the inductive invariant. It says three things:
  - cell 0 is a word;
  - a range not yet sanitized is still what the BIOS wrote;
  - a sanitized one holds `Sanitize` of the BIOS range, and that range was
    available.

  `LayoutShape` shows that an available cell of the buffer the BIOS wrote
  is a BIOS range. It does not need the walk, the entry positions or the
  checksum, so those recursive functions stay opaque. TLC checked `IInv`
  on the run's instance before the proof was written.

**Only model-checked.** Some things stay with TLC:

- Liveness: `FreeLockIsTaken`, `KeysEventuallyRead`, `CallsReturn` and
  `UdelayReturns`. These need fairness and ENABLED, which this prover cannot
  handle.
- The run-queue invariants and refinement. `Queued` and the lists are
  defined by walking the `next` pointers. Proving what a walk returns for
  every list is induction over data, which needs the induction theorems
  with an operator parameter.
- The other invariants of E820 (`TypeOK`, `ValidationExact`,
  `AllocatorFits`), and those of VMMap, MPTables and ACPI. Their results are
  recursive functions over the tables and the page-table walk, so a proof
  would be induction over data.
- The invariants of PIT. `PIT.tla` uses `Bitwise` for the bits of port 0x61,
  and a module that reaches `Bitwise` cannot hold a proof.

## 5. Not modelled

Not modelled: GDT/IDT, the shell, dump, the console and `init_syscall`. These
are register writes, I/O and formatting. Of `apic.c`, the other LVT entries,
the SPIV and the IPI paths other than the ones `SMPBoot` uses are left out.
So is the 32-bit wrap of `ticks_min * 200`, which needs a bus clock above
4.29 GHz (bus clocks are 100-200 MHz). `list.h`'s `list_for_each` macros are loops over the ring that change
no state.
The timer and IPI preemption handlers and the thread and per-CPU descriptors
are not under `src/`. `PROJECT.json` lists each part with its reason.

## 6. Plan

1. A composed model: the run-queue under its spinlock, with several CPUs.
2. TLAPS: run-queue type correctness and `BitmapConsistent`, which do not
   need the list walk.
