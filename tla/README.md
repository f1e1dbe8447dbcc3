# A TLA+ model of microv

microv is a small KVM hypervisor in C: it boots a Linux kernel in a guest with
one vCPU and gives it a serial port and a virtio block device on a PCI bus.
This directory holds TLA+ modules of microv, from the options of `main` to the
accesses its threads make to shared state, TLC configurations that check them on
small instances, and TLAPS proofs, for every value of the constants, of the
safety properties those runs check of all five specifications.

## 1. The system

### Parts

| Part | Source | Modules |
|---|---|---|
| block device | `virtio-blk.c` | `VirtioBlk`, `VirtioBlkDelivery`, `BlkDevice`; start-up: `Machine` |
| packed queue | `virtqueue.c` | `VirtioBlk` (the ring), `VirtioPci` (enabling, notification) |
| event thread | `ioeventfd.c` | `VirtioPci`, `VirtioBlk`; start-up: `Machine` |
| virtio transport | `virtio-pci.c` | `VirtioPci`; the ISR register: `VirtioBlk` |
| PCI bus | `pci.c` | `PciBus`; start-up: `Machine` |
| I/O bus | `iobus.c` | `PciBus` (MMIO list), `Machine` (port list) |
| serial port | `serial.c` | `Serial`, `SerialRaces`; start-up: `Machine` |
| memory map | `memory.c` | `GuestMemory`, `Machine` |
| boot protocol, descriptor tables | `bootparams.c`, `gdt.c`, `global.h` | `BootParams`, `Machine` |
| MP table | `mptable.c`, `mpspec_def.h` | `MpTable`, `Machine` |
| vCPU set-up | `vcpu.c` | `Machine` |
| life cycle | `main.c` | `Machine` |

### Threads, and where they meet

After start-up three threads run, and no lock exists anywhere:

* the **vCPU thread** runs the guest; port I/O and MMIO exits run the serial,
  PCI and virtio-pci handlers in it;
* the **ioeventfd thread** waits for kicks and runs the block device;
* the **stdin thread** waits for keys and feeds the serial port.

The vCPU thread and the ioeventfd thread share the descriptor ring, the event
suppression flag, the ISR register, and two eventfds. The vCPU thread and the
stdin thread share `struct Serial`. The PCI bus and the region lists belong to
the vCPU thread alone once the program runs; there, and in the registers of the
virtio transport, the difficulty is the order in which a guest may program them.
Before the threads start, `main` runs through some thirty calls that may fail,
and goes on after almost every failure. `PROJECT.json` lists these hazards line by
line.

## 2. Modules

### `VirtioBlk` — ring, device thread, driver, ISR

One action per access (or per run of accesses the other thread cannot tell
apart). The device's program counter `dpc` follows `virtio_blk_handle_output`:

| `dpc` | code | actions |
|---|---|---|
| `idle` | `ioeventfd.c:26-40` | `Wake` |
| `get` | `virtio-blk.c:84-89` | `GetHead`, `Drained` |
| `data` | lines 90-100 | `Transfer`, `NoNext` |
| `status` | lines 104-107 | `PutStatus`, `NoNext` |
| `used`, `len` | lines 109, 110 | `MarkUsed`, `PutLen` |
| `event`, `isr`, `irqfd` | lines 113-117 | `CheckEvent`, `SetIsr`, `WriteIrqfd` |
| `crash` | a NULL from `virtq_get_avail` is dereferenced | none |

The guest (`gpc`) has a packed-ring driver, which is not in the repository: it
writes a chain and publishes the head last (`Prepare`, `Publish`), kicks
(`Kick`), and in its interrupt handler reads the ISR, turns events off, reaps,
turns them on and looks again. The ISR read is microv code in the vCPU thread
(`virtio-pci.c:157-159`) and takes two steps, `IsrCopy` and `IsrClear`.
`Ioeventfd` chooses between the two ways a kick arrives: through KVM's
ioeventfd, or as an MMIO exit that runs the handler in the vCPU thread.

Data is abstract: a sector or a buffer holds one value, a descriptor knows what
its address points at (`hdr`, `data`, `status`) and of which request. Flags,
wrap counters and lengths are concrete. A host read or write ends `done`,
`short` or in `error`. Memory is sequentially consistent: the model says nothing
about reordering by the processor.

### `VirtioBlkDelivery` — its interrupts

Adds to `VirtioBlk` the history variable `wiped`: a store of 1 to the ISR came
between the copy and the clear of a read, and was lost (`IsrWiped`). The
properties say that this is the only way a completion fails to reach the driver,
with any number of requests in flight.

### `BlkDevice` — what a block device promises

Requests are accepted in an order and served one at a time in that order, each
exactly once, on the disk the earlier ones left. `VirtioBlk` implements it: a
request counts as accepted when its head is published, and as answered when the
handler has fixed its status. `ServesAsBlkDevice` says that it takes no step
`BlkDevice` does not have, `ImplementsBlkDevice` also that it goes on serving.

### `Serial` — the 16550A port

`fifo_put` and `update_serial_iir` are run by both threads, and are actions with
a thread as parameter. A step is a load or a store, so `count++` is two steps.
Bytes put into the FIFO are numbered (`nput`); `got` is what the guest read and
`nget` how often `fifo_get` took a byte, both only there to state properties. The other
bits of `lsr`, and `msr`, never change; `div` and `scr` are latches. The guest's
interrupt handler reads IIR, and then LSR and RBR until no data is ready.
Nothing keeps one thread out of its handlers while the other is in one.

### `SerialRaces` — what holds without a lock

Adds to `Serial` the history variable `races`, with the places at which one
thread has overtaken the other so far:

| race | happens when |
|---|---|
| `"put"` | both threads are in `fifo_put` (the vCPU's in loopback mode) |
| `"count"` | `count++` or `count--` stores a value computed from an older `count` |
| `"dr"` | DR is cleared after a byte was counted, or set after the byte was read |
| `"iir"` | a stale IIR is stored, or a new one cleared by a read of the old one |

Each property names the races after which it no longer holds, and so says that
every other way of overlapping is harmless.

### `PciBus` — configuration space and region list

The guest selects a register and writes it. The list is kept as in the code,
as a head and `next` pointers, because a region registered twice makes it
cyclic. A write of the command register starts the loop of `pci_bar_command`,
which takes one step per BAR (`BarCommand`, with `bar` as its index); the guest
goes on when it is over (`Ready`). `Disciplined = TRUE` restricts the guest to writing a BAR only while
the device does not decode memory, which is how Linux sizes and moves BARs.

### `VirtioPci` — from the registers to a running queue

The registers of BAR 0 (`dev`), the `info` and ring of every queue (`vq`), what
KVM and epoll hold (`kvm`, `polled`, `efd`), and the two threads in which
`virtq_notify` may run (`thread`, `vcpu`). `IospaceWrite` is
`virtio_pci_iospace_write` with one disjunct per case of its switch, each with
the function it calls; `Kick` is a write to the notify register, which KVM turns
into a signal if it has the pair of address and queue, and into an exit
otherwise. The driver's part is what Linux's `virtio_pci_modern` and
`virtio_ring` write and read, in order; it is not in the repository. `Program`
gives it in four parts (probe, set-up and enabling of each queue, finish),
`Following` what comes next, and `Accepted` what the driver checks. The guest may also kick too early, move the BAR of an idle device,
and load the driver again. KVM may refuse an eventfd; the pointer that
`ioeventfd_add_event` then frees was never set, so the program may end there
(`alive`). A queue's addresses are one value, a load's ring.

### `GuestMemory`, `MpTable`, `BootParams` — what boot leaves in memory

Operators, translated function by function: slots and address translation;
the MP table byte by byte, since it has checksums, but for the letters of its
names, which stand for any (`Letters`); the areas boot code writes and
their order, the e820 map, the page tables, descriptors and header. `Walk`,
`Loaded` and `SoundTable` are the other side: a processor walking the page
tables or loading a descriptor, and a reader going through the MP table.
The fields of a segment that `entry_to_kvm_seg` never sets are a parameter
(`left`), and `Handoff` takes any of their values (`Unset`).
`Fits` says which configurations the layout is made for: the MP table ends below
the VGA memory, and the kernel below the initrd.

### `Machine` — the program from its options to its end

`pc` is where `main` is, with one action per function it calls, and one per
area of memory for the boot code. `failed` collects the calls that failed. A
write outside of the slots leads to `"wild"`. The vCPU's state is kept as: which
parts `setup_vcpu` filled in (`soft`) and what KVM has of each after `reset_vcpu`
(`hw`); the values are operators (`Regs`, `Sregs`, `Segments`, `SetupCpuid`). The vCPU's
thread takes any exit KVM may report. `ret` of `vcpu_exec` starts unset, and an
exit that leaves it alone goes on or ends by chance.

`MCVirtioBlk`, `MCPciBus` and `MCMachine` define constants for TLC. A definition `X_Y`
beside `X` is `X` with a plausible slip; each property fails on one of them.

## 3. Runs

| Run | Checks | Shows |
|---|---|---|
| `BlkRing` | `TypeOK`, `NoNullDescriptor`, `UsedInOrder`, `StatusBeforeUsed`, `NoLostKick`, `NoLostInterrupt`, `RingInv` | the ring works, full and across its end; an interrupt is lost only by the wiped ISR |
| `BlkRefines` | `ServesAsBlkDevice`, `ImplementsBlkDevice`, `DeliveredUnlessWiped` | the device is the abstract one, liveness included, and every completion arrives unless the ISR is wiped |
| `BlkSlack` | `AvailLenIntact`, `NoNullDescriptor` | a ring with room for one chain more: the late length store is harmless, and an unsupported request with data is survived |
| `BlkIsrRace` | `Delivered`, violated | two in flight: a completion can be lost for ever |
| `SerialFifo` | `TypeOK`, `FifoConsistent`, `InOrder` | what the FIFO keeps right while handlers overlap, up to the races each property names |
| `SerialReceived` | `InFifo`, `RaisedWhenReady`, `ReceivedUnlessRaced` | no write outside the array and no lost interrupt, up to the race each names; and when no race happens every byte is read |
| `SerialStuck` | `Received`, violated | overlapping handlers can strand a byte |
| `PciBars` | `TypeOK`, `ListEnds`, `ListIsDecoding`, `Dispatch` | a disciplined guest gets a correct MMIO list |
| `PciTwice` | `ListEnds`, violated | a BAR cleared while enabled makes the list cyclic |
| `TransportUp` | `TypeOK`, `RingProgrammed`, `HandlerHasRing`, `OneHandler`, `KickServed`, `ComesUpFirst` | a driver brings the device up, and every kick is served in one of the two threads, never in both at once |
| `TransportReload` | `ComesUp`, violated | a driver that is loaded again refuses the queue |
| `Machine` | `TypeOK`, `NoWild`, `BootIntact`, `E820Backed`, `MpTableSound`, `Handoff`, `TopologyAgrees`, `PioDispatch`, `Terminates` | what boot writes is in memory, apart and true; the vCPU starts on it; the program ends |

**Bounds.** `BlkRing` has six descriptors, at most three requests in flight and
five in all, with chains of two and three descriptors: the ring fills up, and
chains begin at every slot and run over the end in both laps. `BlkRefines` has
seven descriptors, so that chains straddle the end at changing places, and
requests that read, write, fail and are unsupported. `BlkSlack` has room for
three chains and keeps two in flight, for five requests: the slots are reused
while the device still works. The configurations kept here take kicks through
the ioeventfd, which lets device and driver interleave; with
`Ioeventfd = FALSE` the properties of `BlkRing`, `BlkRefines` and `BlkSlack`
hold too, and the proofs cover both. `SerialFifo` scales the FIFO
to 2 bytes and `count` to 2 bits (16 and 8 in the code), with three keys and
two register writes, which in loopback mode are bytes too: the FIFO
overflows, `count` wraps, and all four races happen. `SerialReceived` has two
keys and three register writes of all five kinds, so that the interrupt can be
enabled in loopback mode; there too the FIFO overflows and all four races
happen. `PciBars` has two devices (the program has
one), each with BARs of 2 and 4 units and an unused one, in 8 units of address
space, so that BARs can overlap and be 0; the state space is complete.
`TransportUp` has two queues (the program has one), so that a register can go to
the wrong one, two addresses for the BAR, two loads of the driver and one kick
before it is up. `Machine` has ten configurations: the 512 MiB of `RAM_SIZE` with
a small, an exactly fitting, a one byte too large and an empty initrd, RAM that
ends below the kernel's place, at the gap, and one byte and 64 MiB past it, up to
40 processors, the most the area of the MP table holds, and missing arguments. Up to two calls fail. TLC's integers have
32 bits, so the gap is scaled to 1 GiB .. 1.25 GiB (3 GiB .. 4 GiB in the code);
it stays above `INITRD_ADDR_MAX`, which is all that the layout depends on and
what `GapAssumption` says.

**Fairness.** `FairSpec` of `VirtioBlk` assumes that the device thread goes on
while it has work and that the vCPU goes on with what it has begun, including
taking a pending interrupt; both are threads the host schedules. A new request
is never forced. `Serial` likewise: nobody is forced to type or to write a
register. `VirtioPci`: the driver goes on with its program, a handler returns,
and the event thread runs; reloading, moving the BAR and kicking are never
forced. `Machine`: `main` and the vCPU's thread are scheduled. Deadlock is not
checked: a guest may make no more requests, and all
bounds end a behaviour.

**What the violated runs show.** `BlkIsrRace`: the device sets the ISR bit
between the copy and the clear in the vCPU's read; the next interrupt finds the
register 0 and the driver does not look. `SerialStuck`: `update_serial_iir` in
one thread stores a NO_INT it computed before the other thread announced a byte.
`PciTwice`: clearing an enabled BAR keeps it from being taken off the list.
`TransportReload`: writing 0 to the status, a reset, leaves `info.enable` as it
is; the driver that is loaded next reads `queue_enable` = 1 and gives up.

**Limits of the properties that hold.** These are behaviours of the code the
passing runs exclude by their constants, and changing the constant shows them:

* `AvailLenIntact` fails when the driver fills the ring (`Size = 6`, `Depth = 2`,
  `MaxReq = 4`, reads and writes): the length is stored after the head was
  given back (`virtio-blk.c:109-110`).
* `StatusBeforeUsed` fails for requests of `MCGetId`: the data descriptor of an
  unsupported request is taken for its status.
* `ServesAsBlkDevice` and `ImplementsBlkDevice` fail with `"short"` in `HostIO`: a partial transfer is
  answered OK (`virtio-blk.c:100`).
* `FifoConsistent`, `InOrder`, `InFifo`, `RaisedWhenReady` and
  `ReceivedUnlessRaced` fail when the races they name are left out of them. The
  code does nothing to avoid these races.
* `NoLostInterrupt` and `DeliveredUnlessWiped` likewise fail without `wiped`
  (this is `BlkIsrRace`).
* `OneHandler` assumes that the guest moves the BAR only while no kick is on its
  way and no handler runs, as `MoveBar` does.
* `HandlerHasRing` and `OneHandler` are about queue numbers the device has; the
  code compares none with `num_queues` when it notifies or enables a queue.
* `Handoff` says nothing of `selector` and `unusable` of a segment, which are
  uninitialised (`gdt.c:47`).
* `NoWild` and `E820Backed` ask for all RAM in `MemMapper` (`Backed`), which holds
  also when KVM refused the last range: it is entered before KVM is asked.
* `Dispatch` fails with `Disciplined = FALSE`: a BAR programmed after decoding
  was enabled is never registered.
* `TopologyAgrees` is stated for up to 27 processors: from 28 on, the `32 - n`
  bits that leaf 0xb gives to an id (`vcpu.c:154`) do not hold all ids.
* `NoWild`, `BootIntact`, `E820Backed` and `Handoff` assume `Fits`, which the
  code does not test: an initrd that runs into the kernel is loaded over it.
* `KickServed` assumes that `pthread_create`, `malloc` and `epoll_ctl` succeed in
  `ioeventfd.c`; else KVM takes kicks that nobody waits for.
* `Terminates` is about exits that set `ret`.

## 4. Proofs

Eight modules hold proofs, about all five specifications. What each assumes of
its constants is an `ASSUME` of the specification (`ConstantsAssumption`,
`SerialAssumption`, `PciAssumption`, ...), which TLC evaluates in every run.
Where a theorem has a hypothesis of its own, it is the condition under which the
code has the property; what happens without it is under "limits" above.

| Theorem | Property | Hypothesis |
|---|---|---|
| `RingInvariant`, `BlkTypeTheorem` | `RingInv`, `TypeOK` | `ExpectedChains` |
| `NoNullDescriptorTheorem` | `NoNullDescriptor` | `ExpectedChains` |
| `CompletionTheorem`, `StatusTheorem` | `UsedInOrder`, `StatusBeforeUsed` | `ExpectedChains` |
| `NoLostKickTheorem`, `NoLostInterruptTheorem` | `NoLostKick`, `NoLostInterrupt` | `ExpectedChains` |
| `AvailLenTheorem` | `AvailLenIntact` | `ExpectedChains`, `Slack` |
| `RefinementTheorem` | `ServesAsBlkDevice` | `ExpectedChains`, no `"short"` in `HostIO` |
| `InFifoTheorem`, `SerialTypeTheorem` | `InFifo`, `TypeOK` | none (the races are in the properties) |
| `FifoTheorem`, `InOrderTheorem`, `RaisedTheorem` | `FifoConsistent`, `InOrder`, `RaisedWhenReady` | none (the same) |
| `PciInvariant`, `PciTypeTheorem` | `PciInv`, `TypeOK` | `Disciplined` |
| `ListEndsTheorem`, `ListIsDecodingTheorem`, `DispatchTheorem` | `ListEnds`, `ListIsDecoding`, `Dispatch` | `Disciplined` |
| `TransportInvariant`, `TransportTypeTheorem` | `TransportInv`, `TypeOK` | none |
| `HandlerTheorem`, `OneHandlerTheorem` | `HandlerHasRing`, `OneHandler` | none |
| `RingProgrammedTheorem`, `NoSecondLoadTheorem` | `RingProgrammed`, `NoSecondLoad` | none |
| `NoWildTheorem`, `BootIntactTheorem`, `E820BackedTheorem` | `NoWild`, `BootIntact`, `E820Backed` | none (`Fits` is in the properties) |
| `MachineTypeTheorem`, `PioTheorem`, `HandoffTheorem` | `TypeOK`, `PioDispatch`, `Handoff` | none (`Fits` is in `Handoff`) |

### The ring of the block device (`VirtioBlkRing`, `VirtioBlkGuestProofs`, `VirtioBlkProofs`)

For every ring size of at least 3, every depth, every number of requests and
both kinds of kick, provided all requests have the chains the device expects
(`ExpectedChains`: no unsupported request with data).

None of the properties is inductive. That the descriptor after a header is
available depends on every flag of the lap being as the driver left it, also in
slots that are free and carry the flags of the lap before. `RingInv` therefore
describes one trip round the ring from `drvUsed`: chains in use, one after the
other in order of their requests (`Chains`), then free slots; how far the device
and the driver are (`Positions`); what the two flag bits are in each stretch
(`Flags`); where the device is inside its chain (`Cursor`); and that a chain it
has not seen has a kick on its way (`Kicked`). The lemmas on positions
(`DistAdvance`, `Rebase`, `AheadFrom` ...) reduce wrap-around arithmetic to
offsets from `drvUsed`; they and the steps that leave the set of chains alone are
in `VirtioBlkRing`, the two that change it, `Prepare` and `Reap`, in
`VirtioBlkGuestProofs`, and `VirtioBlkProofs` puts them together.

`AvailLenIntact` needs room: the device stores the length after it gave the
head back, so the driver may have written that slot again. With `Slack`, a ring
of at least `3 * (Depth + 1)` descriptors, it cannot have got that far: `LenInv`
gives a request in flight and those after it at most three descriptors each, and
says how far behind the device that slot is.

`NoLostInterrupt` rests on `DeliveryInv`: while a completed request waits to be
reaped, its notice is somewhere on the way (`Noticed`), with the device thread
before its ISR store, in the ISR with the interrupt pending or about to be, in
the value a read has copied, or with the driver that will look at the ring again;
and the driver has events off only while it reaps.

### The device as a block device (`VirtioBlkRefinement`)

`RefinementTheorem`: the safety part of the refinement. `Publish` is a `Submit`;
the transfer of a read or write, and the reading of the header of a request
without data, is a `Serve`; every other step is a stutter. `ServeInv` says that
the answered requests are the first `m`, that the device is at request `m + 1`,
and that the buffers from there on are as the driver made them. A short transfer is answered OK by the code, hence the hypothesis
on `HostIO`; and a request with an unexpected chain breaks the ring's invariant.

### The serial port (`SerialProofs`)

For every FIFO length, any number of bytes and accesses, and every interleaving
of the two threads. No theorem has a hypothesis: the races after which the code
no longer has a property are in the property itself.

`FifoInv` is in layers, each under the races it survives. `HeadInv`, until
`"put"`: `head` is the number of bytes put modulo the length, corrected for the
place the thread in `fifo_put` is at (between the increment and the wrap test
`head` may be out of range, so that `InFifo` is not inductive), and each slot
holds the latest byte put there. `CountInv`, until `"count"`: `tail` is the number
of bytes taken modulo the length, and `count` the difference modulo its width,
corrected for both threads' places. `DrInv` and `OrderInv`, until `"dr"`: the
data-ready bit is there, or about to be set, when there is a byte; and, as long as
no overflow is reported, the bytes read are the first ones put. A FIFO overflow
does not stop `fifo_put`, so only counters that never wrap can say how `count` and
`head` belong together; this is what `nput` and `nget` are for. `SerialAssumption`
has the code's relation of the two sizes: the length is less than the range of
`count` and divides it (16 and 256).

`RaiseInv`, until `"iir"`: where the interrupt for ready data can be, raised with
the IIR saying so, on its way there in either thread, or taken by a handler that
will look at the LSR. It does not depend on the FIFO's accounts, so no race for
them loses an interrupt.

### The PCI bus (`PciBusProofs`)

For every finite set of devices, every number and size of BARs and every address
range, if the guest writes a BAR only while it does not decode (`Disciplined`).
`ListInv` says there is a sequence of distinct regions that the `next` pointers
follow, that it holds the active programmed BARs and no others, and `BarInv`
that `bar_active` agrees with the command register but for the BARs the loop of
`pci_bar_command` has not reached. The sequence is needed since the list is only
pointers: a region taken off its middle leaves the rest reachable because no
region occurs twice. What the walk of `iobus_find_region` computes is a
recursive function; that it visits the sequence is shown by a least
counterexample (`LeastNat`, from the well-foundedness of `<` on `Nat`).

### The virtio transport (`VirtioPciProofs`)

For any number and size of queues, any addresses, loads and kicks, and with KVM
refusing eventfds. A queue's ring is what its `info` holds when it is enabled,
and the register window shows the queue selected before; so `Progress` says, for
each place of the driver's program, which queue is selected, which have their
address and which are enabled. A later load finds all queues enabled and gets no
further than its first look at queue 0 (`LaterLoad`): this is
`NoSecondLoadTheorem`, what the run `TransportReload` shows on one behaviour.
`OneHandler` rests on `Ways`: what is on its way to the event thread is of a pair
of address and queue that KVM has, a handler in the vCPU's thread is of one it
does not have, and what KVM has changes only while the vCPU runs the guest.

### Boot and life cycle (`BootProofs`)

For every RAM size, every gap above `INITRD_ADDR_MAX`, images of
any size, any number of processors and any failing calls (`ConfigAssumption`,
`GapAssumption`, `FailsAssumption`); so also for the code's own gap, which the
run scales down. `BootInv` adds to `NoWild` that no vCPU thread exists during
set-up, so that a wild step there is a boot step. `AllWritable` shows that the
areas of a configuration that fits are in the first slot, `Apart` that they are
apart, and `MapTruthful` that the e820 entries match the slots, with one case
for RAM below the gap and one for RAM past it.

`MachineInv` says for each stage of `main` which regions are on `pio_bus` and
how much boot has written, and that the guest runs only after the last stage;
`PioDispatch` and `Handoff` are about that moment and follow. For `Handoff`,
`WalkIdentity` shows that the page tables map every address of the first
gigabyte to itself, `LowArea` that all areas are there and off the stack, and
`SegmentsAgree` that the segments KVM got have what the descriptors in memory
load as, whatever their unset fields hold.

### Only model-checked

* All that is live: `DeliveredUnlessWiped`, `ReceivedUnlessRaced`, `KickServed`, `ComesUpFirst`,
  `Terminates`, and what `ImplementsBlkDevice` adds to `ServesAsBlkDevice`. The
  prover handles neither fairness nor `ENABLED`.
* `MpTableSound`: the checksums are folds over the bytes of a table whose length
  depends on the number of processors, compared with a sum counted bit by bit.
* `TopologyAgrees`: it relates numbers to sets of their bits, `2 ^ b` for an
  unknown `b`, and the prover knows powers only of literals.
* `NoNullDescriptor` for unsupported requests with data (`BlkSlack`), which
  `ExpectedChains` excludes.

## 5. Not modelled

* Code that nothing calls: `ioeventfd_exit` (which reads back the token it has
  just written for the thread), `virtio_blk_exit`, `diskimg_exit`, the `_test_*`
  functions.
* What the event and stdin threads do between `free(kvm_state)` (`main.c:308`)
  and the end of the process.
* `malloc`, `eventfd` and `epoll_ctl` failing in `ioeventfd_add_event`; images
  of 2 GiB and more, whose length `file_len` cannot return.
* Accesses to the virtio registers with another size or offset than a
  register's, and writes to the device's configuration, which Linux does not
  make; a queue number the device does not have in a notification or when a queue
  is enabled, where the code indexes `vq` with it unchecked.
* The 0 that `serial_thread_fn` stores behind the one byte it reads
  (`serial.c:210`).
* Values the code sets once and never reads: FPU and MSRs, the terminal's
  modes, the header's other fields.
* `string.c` and `list.h`: loops without state of their own; the list of events
  is never read.
* Printing, and the order in which a processor makes stores visible to another.
