------------------------------- MODULE PciBus -------------------------------
(***************************************************************************)
(* The PCI bus of microv (pci.c) and the list of I/O regions on which the  *)
(* vCPU thread looks up every MMIO exit (iobus.c).                         *)
(*                                                                         *)
(* The guest selects a register of a device's configuration space with     *)
(* the address port and writes it through the data port.  A write of the   *)
(* command register adds the BARs of the device to the MMIO list or takes  *)
(* them off it; a write of a BAR moves its region, on the list or not.     *)
(* All of this happens in the vCPU thread, one exit after the other.  The  *)
(* loop of pci_bar_command over the BARs is a step for each BAR.           *)
(*                                                                         *)
(* The list is kept as the code keeps it, in next pointers: a region       *)
(* registered twice makes a cycle.  The region_count of the MMIO bus is    *)
(* left out, since nothing reads it.  Every BAR is a memory BAR, as is     *)
(* every BAR the program creates; for these the header and the base of the *)
(* region hold the same value.                                             *)
(*                                                                         *)
(* A definition X_Y next to definition X is X with a plausible slip in it: *)
(* no specification uses it; it shows that a property would notice.        *)
(***************************************************************************)
EXTENDS Integers, FiniteSets

CONSTANTS Devs,        \* device numbers on the bus
          NumBars,     \* BARs of a device (PCI_STD_NUM_BARS is 6)
          BarSize,     \* size of each BAR: a power of 2, or 0 if unused
          AddrMax,     \* bound: addresses are 0 .. AddrMax
          Disciplined  \* the guest writes a BAR only while decoding is off

BarNums == 0 .. NumBars - 1
Regions == Devs \X BarNums
NULL    == <<>>
Addrs   == 0 .. AddrMax

ASSUME PciAssumption ==
  /\ NumBars \in Nat \ {0} /\ AddrMax \in Nat /\ Disciplined \in BOOLEAN
  /\ BarSize \in [Regions -> Nat] /\ IsFiniteSet(Devs) /\ Devs \subseteq Nat

VARIABLES
  pci_addr,   \* the address register: enable_bit, dev_num, and the register
  mem,        \* per device, PCI_COMMAND_MEMORY
  base,       \* per region, its base (and the BAR in the header)
  active,     \* per region, bar_active
  bus,        \* mmio_bus.head, and per region next and (bus # NULL)
  bar         \* the loop variable of pci_bar_command; NumBars outside the loop

vars == <<pci_addr, mem, base, active, bus, bar>>

(* Registers of the configuration space, by reg_num: the command register, *)
(* the BARs, and one (the vendor id) whose writes change nothing here.     *)
VENDOR_ID == 0
COMMAND   == 1
BAR(i)    == 4 + i
Registers == {VENDOR_ID, COMMAND} \cup {BAR(i) : i \in BarNums}

----------------------------------------------------------------------------
(* iobus.c                                                                 *)

(* The k-th region of list b, NULL past its end. *)
Walk(b) ==
  LET hop[k \in 0 .. Cardinality(Regions)] ==
        IF k = 0 THEN b.head
        ELSE IF hop[k - 1] = NULL THEN NULL ELSE b.next[hop[k - 1]]
  IN  hop

OnList(b) == {Walk(b)[k] : k \in DOMAIN Walk(b)} \ {NULL}

Covers(r, addr) == base[r] <= addr /\ addr <= base[r] + BarSize[r] - 1

(* iobus_find_region, on a list that ends. *)
FindRegion(b, addr) ==
  LET hits == {k \in DOMAIN Walk(b) : Walk(b)[k] # NULL /\ Covers(Walk(b)[k], addr)}
  IN  IF hits = {} THEN NULL ELSE Walk(b)[CHOOSE k \in hits : \A j \in hits : k <= j]

(* iobus_register_region *)
Register(b, r) == [head |-> r, next |-> [b.next EXCEPT ![r] = b.head],
                   onBus |-> [b.onBus EXCEPT ![r] = TRUE]]

Deregister_DropRest(b, r) == [b EXCEPT !.head = IF r \in OnList(b) THEN b.next[r] ELSE @]

(* iobus_deregister_region: the first pointer to r skips it; r keeps its   *)
(* own next and bus.                                                       *)
Deregister(b, r) ==
  IF ~b.onBus[r] \/ r \notin OnList(b) THEN b
  ELSE IF b.head = r THEN [b EXCEPT !.head = b.next[r]]
  ELSE LET p == CHOOSE q \in OnList(b) : b.next[q] = r
       IN  [b EXCEPT !.next[p] = b.next[r]]

----------------------------------------------------------------------------
(* pci.c                                                                   *)

Masked_Up(v, size) == IF size = 0 THEN 0 ELSE ((v + size - 1) \div size) * size

(* v & ~(size - 1), in 32 bits: 0 for a BAR of size 0. *)
Masked(v, size) == IF size = 0 THEN 0 ELSE (v \div size) * size

Decodes_Always(r, v) == TRUE

(* base & mask is not 0, where v is the base. *)
Decodes(r, v) == Masked(v, BarSize[r]) # 0

BarCommand_NoActiveCheck ==
  LET d      == pci_addr.dev
      r      == <<d, bar>>
      enable == mem[d]
  IN  /\ bar < NumBars
      /\ bus' = IF ~Decodes(r, base[r]) THEN bus
                ELSE IF enable THEN Register(bus, r) ELSE Deregister(bus, r)
      /\ active' = [active EXCEPT ![r] = enable]
      /\ bar' = bar + 1
      /\ UNCHANGED <<pci_addr, mem, base>>

(* pci_bar_command: one turn of the loop over the BARs of the device. *)
BarCommand ==
  LET d      == pci_addr.dev
      r      == <<d, bar>>
      enable == mem[d]
  IN  /\ bar < NumBars
      /\ bus' = IF active[r] = enable \/ ~Decodes(r, base[r]) THEN bus
                ELSE IF enable THEN Register(bus, r) ELSE Deregister(bus, r)
      /\ active' = [active EXCEPT ![r] = enable]
      /\ bar' = bar + 1
      /\ UNCHANGED <<pci_addr, mem, base>>

(* No exit is being handled: the guest runs, and causes the next one. *)
Ready == bar = NumBars

(* A write to the address port. *)
WriteAddr(e, d, reg) ==
  /\ Ready
  /\ pci_addr' = [enable |-> e, dev |-> d, reg |-> reg]
  /\ UNCHANGED <<mem, base, active, bus, bar>>

(* A write to the data port reaches the configuration space of the device  *)
(* that the address register names, if there is one.                       *)
Selected(d) == pci_addr.enable /\ d \in Devs /\ pci_addr.dev = d

(* The command register is stored, and pci_bar_command is called. *)
WriteCommand(d, m) ==
  /\ Ready /\ Selected(d) /\ pci_addr.reg = COMMAND
  /\ mem' = [mem EXCEPT ![d] = m]
  /\ bar' = 0
  /\ UNCHANGED <<pci_addr, base, active, bus>>

(* pci_bar_config.  A guest that sizes a BAR writes all ones. *)
WriteBar(d, i, v) ==
  /\ Ready /\ Selected(d) /\ pci_addr.reg = BAR(i)
  /\ Disciplined => ~mem[d]
  /\ base' = [base EXCEPT ![<<d, i>>] = Masked(v, BarSize[<<d, i>>])]
  /\ UNCHANGED <<pci_addr, mem, active, bus, bar>>

(* pci_dev_init and pci_init_bar. *)
Init ==
  /\ pci_addr = [enable |-> FALSE, dev |-> 0, reg |-> VENDOR_ID]
  /\ mem = [d \in Devs |-> FALSE]
  /\ base = [r \in Regions |-> 0]
  /\ active = [r \in Regions |-> FALSE]
  /\ bus = [head |-> NULL, next |-> [r \in Regions |-> NULL],
            onBus |-> [r \in Regions |-> FALSE]]
  /\ bar = NumBars

Next ==
  \/ \E e \in BOOLEAN, d \in Devs, reg \in Registers : WriteAddr(e, d, reg)
  \/ \E d \in Devs, m \in BOOLEAN : WriteCommand(d, m)
  \/ BarCommand
  \/ \E d \in Devs, i \in BarNums, v \in Addrs : WriteBar(d, i, v)

Spec == Init /\ [][Next]_vars

----------------------------------------------------------------------------
(* Properties.                                                             *)

Buses == [head : Regions \cup {NULL}, next : [Regions -> Regions \cup {NULL}],
          onBus : [Regions -> BOOLEAN]]

(* The type of every variable. *)
TypeOK ==
  /\ pci_addr \in [enable : BOOLEAN, dev : Devs \cup {0}, reg : Registers]
  /\ mem \in [Devs -> BOOLEAN] /\ base \in [Regions -> Addrs]
  /\ active \in [Regions -> BOOLEAN]
  /\ bus \in Buses
  /\ bar \in 0 .. NumBars

(* The list ends: iobus_find_region and iobus_deregister_region, which     *)
(* follow next until they meet NULL, return whatever they look for.        *)
ListEnds == Walk(bus)[Cardinality(Regions)] = NULL

(* Programmed BARs of a device that decodes memory. *)
Decoding(r) == mem[r[1]] /\ BarSize[r] > 0 /\ base[r] # 0

(* Between two exits exactly the BARs that decode are on the list, each    *)
(* once.                                                                   *)
ListIsDecoding ==
  Ready =>
    /\ OnList(bus) = {r \in Regions : Decoding(r)}
    /\ \A j, k \in DOMAIN Walk(bus) :
         Walk(bus)[j] = Walk(bus)[k] /\ Walk(bus)[j] # NULL => j = k

(* An MMIO access goes to a BAR that decodes its address, whenever there   *)
(* is one, and otherwise nowhere, however BARs were sized, moved, enabled  *)
(* and disabled before.                                                    *)
Dispatch ==
  Ready =>
    \A a \in Addrs :
      LET decoders == {r \in Regions : Decoding(r) /\ Covers(r, a)}
      IN  FindRegion(bus, a) \in IF decoders = {} THEN {NULL} ELSE decoders

(***************************************************************************)
(* The inductive invariant.  The next pointers of list b chain the n       *)
(* regions s[1] .. s[n], all different, and end there.                     *)
(***************************************************************************)
Linked(b, n, s) ==
  /\ b.head = IF n = 0 THEN NULL ELSE s[1]
  /\ \A k \in 1 .. n : b.next[s[k]] = IF k = n THEN NULL ELSE s[k + 1]
  /\ \A j, k \in 1 .. n : s[j] = s[k] => j = k

(* The list holds the regions pci_bar_command has registered and not taken *)
(* off again: those of the active BARs that are programmed.                *)
Live(r) == active[r] /\ BarSize[r] > 0 /\ base[r] # 0

ListInv ==
  \E n \in 0 .. Cardinality(Regions) : \E s \in [1 .. n -> Regions] :
    /\ Linked(bus, n, s)
    /\ {s[k] : k \in 1 .. n} = {r \in Regions : Live(r)}
    /\ \A k \in 1 .. n : bus.onBus[s[k]]

(* bar_active agrees with the command register, but for the BARs the loop  *)
(* of pci_bar_command has not reached; bases are aligned.                  *)
BarInv ==
  /\ \A r \in Regions : active[r] = mem[r[1]] \/ (r[1] = pci_addr.dev /\ bar <= r[2])
  /\ ~Ready => pci_addr.dev \in Devs
  /\ \A r \in Regions : base[r] = Masked(base[r], BarSize[r])

PciInv == BarInv /\ ListInv
=============================================================================
