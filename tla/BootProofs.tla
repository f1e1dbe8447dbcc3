----------------------------- MODULE BootProofs -----------------------------
(***************************************************************************)
(* What init_linux_boot writes, for every RAM size, kernel, initrd and     *)
(* number of processors that leave room for one another (Fits), not only   *)
(* for the sizes of a run: it stays in guest memory, no area overlaps an   *)
(* earlier one, and the e820 map tells the truth. Then the program as a    *)
(* whole: its types, the ports on pio_bus and what the vCPU starts with,   *)
(* whichever of the set-up calls fail.                                     *)
(***************************************************************************)
EXTENDS Machine, FiniteSetTheorems, SequenceTheorems, TLAPS

(* The areas of the steps, in order, with their addresses worked out. *)
LEMMA Areas ==
  ASSUME NEW c
  PROVE  /\ BootArea(c, BootSteps[1]) = At(\h9000, 8)
         /\ BootArea(c, BootSteps[2]) = At(\ha000, 8)
         /\ BootArea(c, BootSteps[3]) = At(\hb000, 4096)
         /\ BootArea(c, BootSteps[4]) = At(\h9fc00, MpSize(c.ncpu))
         /\ BootArea(c, BootSteps[5]) = At(\h20000, 69)
         /\ BootArea(c, BootSteps[6]) = At(\h7000, 4096)
         /\ BootArea(c, BootSteps[7]) = At(\h1000000, c.klen)
         /\ BootArea(c, BootSteps[8]) = At(InitrdAddr(c), c.ilen)
         /\ BootArea(c, BootSteps[9]) = At(\h71e8, 332)
         /\ BootArea(c, BootSteps[10]) = At(\h500, 32)
         /\ BootArea(c, BootSteps[11]) = At(\h520, 8)
  BY DEF BootSteps, BootArea, PML4_START, PDPTE_START, PDE_START, MPTABLE_START, CMDLINE_START,
     ZERO_PAGE_START, VMLINUX_START, BOOT_GDT_START, BOOT_IDT_START

(* The address of the initrd is an integer, with the image below the end   *)
(* of the RAM and below the gap.                                           *)
LEMMA InitrdBelow ==
  ASSUME NEW c \in Configs
  PROVE  /\ InitrdAddr(c) \in Int
         /\ InitrdAddr(c) + c.ilen <= RamEnd(c.ram)
         /\ InitrdAddr(c) + c.ilen <= \h37ffffff
  BY ConfigAssumption, GapAssumption DEF InitrdAddr, RamEnd, INITRD_ADDR_MAX

(* Where the areas are that depend on the configuration. *)
LEMMA Room ==
  ASSUME NEW c \in Configs, Fits(c)
  PROVE  /\ c.klen \in Nat /\ c.ilen \in Nat /\ InitrdAddr(c) \in Int
         /\ MpSize(c.ncpu) \in Nat /\ \h9fc00 + MpSize(c.ncpu) <= \ha0000
         /\ \h1000000 + c.klen <= InitrdAddr(c)
         /\ Rams(c.ram)[1].start = 0 /\ Rams(c.ram)[1].size \in Nat
         /\ InitrdAddr(c) + c.ilen <= Rams(c.ram)[1].size
PROOF
  <1>1. c.ncpu \in Nat /\ c.klen \in Nat /\ c.ilen \in Nat /\ c.ram \in Nat
    BY ConfigAssumption
  <1>2. /\ Rams(c.ram)[1].start = 0
        /\ Rams(c.ram)[1].size = IF c.ram <= GapStart THEN c.ram ELSE GapStart
    BY DEF Rams, At
  <1>3. /\ MpSize(c.ncpu) \in Nat /\ \h9fc00 + MpSize(c.ncpu) <= \ha0000
        /\ \h1000000 + c.klen <= InitrdAddr(c)
    BY <1>1 DEF Fits, MpSize, MPF_SIZE, HEADER_SIZE, MPTABLE_START, VGA_RAM_START, VMLINUX_START
  <1> QED BY <1>1, <1>2, <1>3, InitrdBelow, GapAssumption DEF RamEnd

(* An area that starts and ends in the first slot is written there. *)
LEMMA InFirstSlot ==
  ASSUME NEW m, NEW a \in Nat, NEW n \in Nat, NEW size \in Nat,
         m[1].start = 0, m[1].size = size, a + n <= size
  PROVE  Writable(m, At(a, n))
  BY DEF Writable, FindMapperIndex, Within, Inside, At

LEMMA AllWritable ==
  ASSUME NEW c \in Configs, Fits(c), NEW m, m = <<Rams(c.ram)[1], Rams(c.ram)[2]>>,
         NEW k \in 1 .. 11
  PROVE  Writable(m, BootArea(c, BootSteps[k]))
PROOF
  <1> DEFINE size == Rams(c.ram)[1].size
  <1>1. m[1].start = 0 /\ m[1].size = size /\ size \in Nat
    BY Room
  <1>2. PICK a \in Nat, n \in Nat : BootArea(c, BootSteps[k]) = At(a, n) /\ a + n <= size
    <2> HIDE DEF size
    <2> QED BY Areas, Room DEF size
  <1> HIDE DEF size
  <1> QED BY <1>1, <1>2, InFirstSlot

(* Each step's area is apart from those of the later ones. *)
LEMMA Apart ==
  ASSUME NEW c \in Configs, Fits(c), NEW i \in 1 .. 11, NEW j \in 1 .. 11, i < j
  PROVE  \/ Disjoint(BootArea(c, BootSteps[i]), BootArea(c, BootSteps[j]))
         \/ BootSteps[i] = "zeropage" /\ BootSteps[j] = "params"
PROOF
  <1>1. \A a, b, x, y : Disjoint(At(a, x), At(b, y)) <=> a + x <= b \/ b + y <= a
    BY DEF Disjoint, At
  <1>2. BootSteps[6] = "zeropage" /\ BootSteps[9] = "params"
    BY DEF BootSteps
  <1> QED BY <1>1, <1>2, Areas, Room

(* The areas setup_e820 calls usable, for RAM that ends below the gap, and *)
(* for RAM that goes on past it.                                           *)
UsableAreas(ram) ==
  {E820(ram)[k].area : k \in {k \in DOMAIN E820(ram) : E820(ram)[k].ram}}

LEMMA UsableLow ==
  ASSUME NEW ram \in Nat, ram <= GapStart
  PROVE  UsableAreas(ram) = {Usable(0, MPTABLE_START).area, Usable(VMLINUX_RAM_START, ram).area}
PROOF
  <1>1. E820(ram) = <<Usable(0, MPTABLE_START), Reserved(MPTABLE_START, VGA_RAM_START),
                      Reserved(MB_BIOS_START, MB_BIOS_START), Usable(VMLINUX_RAM_START, ram)>>
    BY GapAssumption, SMT DEF E820, RamEnd
  <1>2. \A x, y : Usable(x, y).ram = TRUE /\ Reserved(x, y).ram = FALSE
    BY SMT DEF Usable, Reserved
  <1> QED BY <1>1, <1>2, SMT DEF UsableAreas

LEMMA UsableHigh ==
  ASSUME NEW ram \in Nat, ram > GapStart
  PROVE  UsableAreas(ram) = {Usable(0, MPTABLE_START).area, Usable(VMLINUX_RAM_START, GapStart).area,
                             Usable(GapEnd, RamEnd(ram)).area}
PROOF
  <1>1. RamEnd(ram) = GapEnd + (ram - GapStart) /\ RamEnd(ram) > GapEnd
    BY GapAssumption, SMT DEF RamEnd
  <1>2. E820(ram) = <<Usable(0, MPTABLE_START), Reserved(MPTABLE_START, VGA_RAM_START),
                      Reserved(MB_BIOS_START, MB_BIOS_START),
                      Usable(VMLINUX_RAM_START, GapStart), Usable(GapEnd, RamEnd(ram))>>
    BY <1>1, GapAssumption, SMT DEF E820
  <1>3. \A x, y : Usable(x, y).ram = TRUE /\ Reserved(x, y).ram = FALSE
    BY SMT DEF Usable, Reserved
  <1> QED BY <1>2, <1>3, SMT DEF UsableAreas

(* The three things E820Backed says of the usable areas. *)
Truthful(c, m, usable) ==
  /\ \A u \in usable : /\ \E i \in 1 .. 2 : Inside(u, m[i])
                       /\ Disjoint(u, BootArea(c, "mptable"))
  /\ \A i \in 1 .. 2 : m[i].size > 0 =>
       \E u \in usable : /\ u.start + u.size = m[i].start + m[i].size
                         /\ u.start = m[i].start \/ (i = 1 /\ u.start = VMLINUX_RAM_START)
  /\ \A s \in {"kernel", "initrd"} : \E u \in usable : Inside(BootArea(c, s), u)

(* Usable areas low and high in the first slot, and perhaps all of the     *)
(* second one, are truthful.                                               *)
LEMMA Covered ==
  ASSUME NEW c \in Configs, Fits(c), NEW m, NEW usable, NEW size, NEW low, NEW high, NEW above,
         size = Rams(c.ram)[1].size, m[1] = At(0, size),
         low = At(0, \h9fc00), high = At(\h100000, size - \h100000),
         \/ usable = {low, high} /\ m[2] = At(0, 0)
         \/ usable = {low, high, above} /\ m[2] = above /\ \E n \in Nat : above = At(GapEnd, n)
  PROVE  Truthful(c, m, usable)
PROOF
  <1>1. /\ BootArea(c, "mptable") = At(\h9fc00, MpSize(c.ncpu))
        /\ BootArea(c, "kernel") = At(\h1000000, c.klen)
        /\ BootArea(c, "initrd") = At(InitrdAddr(c), c.ilen)
    BY SMT DEF BootArea, MPTABLE_START, VMLINUX_START
  <1>2. /\ size \in Nat /\ c.klen \in Nat /\ c.ilen \in Nat /\ InitrdAddr(c) \in Int
        /\ MpSize(c.ncpu) \in Nat /\ \h9fc00 + MpSize(c.ncpu) <= \ha0000
        /\ \h1000000 + c.klen <= InitrdAddr(c) /\ InitrdAddr(c) + c.ilen <= size
    BY Room, SMT
  <1>3. Inside(low, m[1]) /\ Inside(high, m[1])
    BY <1>2, SMT DEF Inside, At
  <1>4. Disjoint(low, BootArea(c, "mptable")) /\ Disjoint(high, BootArea(c, "mptable"))
    BY <1>1, <1>2, SMT DEF Disjoint, At
  <1>5. Inside(BootArea(c, "kernel"), high) /\ Inside(BootArea(c, "initrd"), high)
    BY <1>1, <1>2, SMT DEF Inside, At
  <1>6. high.start + high.size = m[1].start + m[1].size /\ high.start = VMLINUX_RAM_START
    BY <1>2, SMT DEF At, VMLINUX_RAM_START
  <1>7. ASSUME NEW n \in Nat, above = At(GapEnd, n)
        PROVE  Inside(above, above) /\ Disjoint(above, BootArea(c, "mptable"))
    BY <1>1, <1>2, <1>7, GapAssumption, SMT DEF Inside, Disjoint, At
  <1>8. m[2] = At(0, 0) => ~ m[2].size > 0
    BY SMT DEF At
  <1> QED BY <1>3, <1>4, <1>5, <1>6, <1>7, <1>8, SMT DEF Truthful

LEMMA MapTruthful ==
  ASSUME NEW c \in Configs, Fits(c), NEW m, m = <<Rams(c.ram)[1], Rams(c.ram)[2]>>
  PROVE  Truthful(c, m, UsableAreas(c.ram))
PROOF
  <1> DEFINE size == Rams(c.ram)[1].size
             low  == At(0, \h9fc00)
             high == At(\h100000, size - \h100000)
  <1>1. c.ram \in Nat
    BY ConfigAssumption, SMT
  <1>2. CASE c.ram <= GapStart
    <2>1. m[1] = At(0, size) /\ m[2] = At(0, 0) /\ size = c.ram
      BY <1>1, <1>2, SMT DEF Rams, At, Unused
    <2>2. UsableAreas(c.ram) = {low, high}
      BY <1>1, <1>2, <2>1, UsableLow, SMT DEF Usable, MPTABLE_START, VMLINUX_RAM_START
    <2> DEFINE usable == {low, high}
    <2>3. /\ size = Rams(c.ram)[1].size /\ low = At(0, \h9fc00)
          /\ high = At(\h100000, size - \h100000) /\ usable = {low, high}
      OBVIOUS
    <2> HIDE DEF size, low, high, usable
    <2>4. Truthful(c, m, usable)
      BY <2>1, <2>3, Covered, SMT
    <2> QED BY <2>2, <2>3, <2>4
  <1>3. CASE c.ram > GapStart
    <2> DEFINE above == At(GapEnd, c.ram - GapStart)
    <2>1. m[1] = At(0, size) /\ m[2] = above /\ size = GapStart /\ c.ram - GapStart \in Nat
      BY <1>1, <1>3, GapAssumption, SMT DEF Rams, At
    <2>2. RamEnd(c.ram) - GapEnd = c.ram - GapStart
      BY <1>1, <1>3, GapAssumption, SMT DEF RamEnd
    <2>3. UsableAreas(c.ram) = {low, high, above}
      BY <1>1, <1>3, <2>1, <2>2, UsableHigh, SMT DEF Usable, MPTABLE_START, VMLINUX_RAM_START
    <2>4. \E n \in Nat : above = At(GapEnd, n)
      BY <2>1
    <2> HIDE DEF size, low, high, above
    <2> QED BY <2>1, <2>3, <2>4, Covered, SMT DEF size, low, high
  <1> QED BY <1>1, <1>2, <1>3, GapAssumption, SMT

----------------------------------------------------------------------------
(* The stages of main before the vCPU's thread is there. *)
Setup ==
  {"options", "open", "base", "memory", "vcpu", "boot", "ioeventfd", "buses", "serial",
   "disk", "setup", "reset", "thread"}

(* The inductive invariant: no guest runs while the memory is written. *)
BootInv ==
  /\ config \in Configs /\ written \in 0 .. 11
  /\ pc \in Setup => vpc = "none"
  /\ NoWild

LEMMA BootInit == Init => BootInv
  BY DEF Init, BootInv, Setup, NoWild

(* A step of main that writes no guest memory. *)
Quiet ==
  /\ pc # "wild" /\ pc' # "wild" /\ (pc' \in Setup => pc \in Setup /\ vpc' = vpc)
  /\ config' = config /\ written' = written

LEMMA QuietStep == BootInv /\ Quiet => BootInv'
  BY DEF BootInv, Quiet, NoWild

LEMMA BootStepSafe == BootInv /\ BootStep => BootInv'
PROOF
  <1> SUFFICES ASSUME BootInv, BootStep PROVE BootInv'
    OBVIOUS
  <1>1. /\ config' = config /\ mapper' = mapper /\ vpc' = vpc /\ pc = "boot" /\ vpc = "none"
        /\ config \in Configs
    BY DEF BootStep, Goto, BootInv, Setup, guest
  <1>2. written + 1 \in 1 .. 11 /\ written' \in 0 .. 11
    <2>1. Len(BootSteps) = 11
      BY DEF BootSteps
    <2>2. written < Len(BootSteps) /\ (written' = written + 1 \/ written' = written)
      BY DEF BootStep
    <2> QED BY <2>1, <2>2 DEF BootInv
  <1>3. pc' = "wild" => ~ Writable(mapper, BootArea(config, BootSteps[written + 1]))
    BY DEF BootStep, Goto
  <1>4. pc' = "wild" => ~ Backed \/ ~ Fits(config)
    BY <1>1, <1>2, <1>3, AllWritable DEF Backed
  <1>5. NoWild'
    BY <1>1, <1>4 DEF NoWild, Backed
  <1> QED BY <1>1, <1>2, <1>5 DEF BootInv

LEMMA MainStep == BootInv /\ Main => BootInv'
PROOF
  <1> SUFFICES ASSUME Main, ~ BootStep PROVE Quiet
    BY QuietStep, BootStepSafe
  <1> USE DEF Quiet, Goto, Setup, memory, guest
  <1>1. ASSUME Options \/ OpenKvm \/ CreateBaseDev PROVE Quiet
    BY <1>1 DEF Options, OpenKvm, CreateBaseDev
  <1>2. ASSUME InitMemory PROVE Quiet
    BY <1>2, Zenon DEF InitMemory
  <1>3. ASSUME InitVcpu \/ InitIoeventfd \/ InitBuses PROVE Quiet
    BY <1>3 DEF InitVcpu, InitIoeventfd, InitBuses
  <1>4. ASSUME CreateSerialDev \/ CreateDisk \/ SetupVcpu \/ ResetVcpu PROVE Quiet
    BY <1>4 DEF CreateSerialDev, CreateDisk, SetupVcpu, ResetVcpu
  <1>5. ASSUME StartThread \/ Join \/ Close PROVE Quiet
    BY <1>5 DEF StartThread, Join, Close
  <1> QED BY <1>1, <1>2, <1>3, <1>4, <1>5 DEF Main

LEMMA VcpuThreadStep == BootInv /\ Vcpu => BootInv'
PROOF
  <1> SUFFICES ASSUME BootInv, Vcpu PROVE BootInv'
    OBVIOUS
  <1>1. config' = config /\ written' = written /\ pc # "wild" /\ failed' = failed
    BY DEF Vcpu, VcpuExec, VcpuFault, DestroyVcpu, memory
  <1>2. pc \notin Setup
    BY DEF Vcpu, VcpuExec, VcpuFault, DestroyVcpu, BootInv
  <1>3. \/ pc' = pc
        \/ pc' = "wild" /\ vpc' = "fault" /\ "mmap_run" \in failed
    BY DEF Vcpu, VcpuExec, VcpuFault, DestroyVcpu
  <1> QED BY <1>1, <1>2, <1>3 DEF BootInv, NoWild, Setup

LEMMA BootInvariant == Spec => []BootInv
PROOF
  <1>1. BootInv /\ [Next]_vars => BootInv'
    <2>1. BootInv /\ UNCHANGED vars => BootInv'
      BY DEF vars, memory, guest, BootInv, NoWild, Backed
    <2> QED BY <2>1, MainStep, VcpuThreadStep DEF Next
  <1> QED BY BootInit, <1>1, PTL DEF Spec

(* Boot code never leaves the slots' memory: get_userspace_addr is only    *)
(* given what is there.  The run Machine checks it for a few sizes; here   *)
(* the RAM, the images and the number of processors are any that fit.      *)
THEOREM NoWildTheorem == Spec => []NoWild
PROOF
  <1>1. BootInv => NoWild
    BY DEF BootInv
  <1> QED BY BootInvariant, <1>1, PTL

(* No step of init_linux_boot overwrites what an earlier one left, for any *)
(* sizes that fit.                                                         *)
THEOREM BootIntactTheorem == Spec => []BootIntact
PROOF
  <1>1. BootInv => BootIntact
    BY Apart DEF BootInv, BootIntact
  <1> QED BY BootInvariant, <1>1, PTL

(* The e820 map is true of the slots, for RAM below or past the gap and    *)
(* any images that fit.                                                    *)
THEOREM E820BackedTheorem == Spec => []E820Backed
PROOF
  <1>1. BootInv => E820Backed
    <2> SUFFICES ASSUME config \in Configs, Backed, Fits(config)
                 PROVE  Truthful(config, mapper, UsableAreas(config.ram))
      BY DEF BootInv, E820Backed, Truthful, UsableAreas
    <2> QED BY MapTruthful DEF Backed
  <1> QED BY BootInvariant, <1>1, PTL

----------------------------------------------------------------------------
(* Which devices are on pio_bus and how much of the memory is written      *)
(* depends on the stage main is in, and a guest runs only after the last.  *)
SerialPorts == Region(\h3f8, 8, "serial")
DataPort    == Region(\hCFC, 4, "pci_data")
AddrPort    == Region(\hCF8, 4, "pci_addr")

PciPio == <<DataPort, AddrPort>>
AllPio == <<SerialPorts, DataPort, AddrPort>>

Early == {"options", "open", "base", "memory", "vcpu", "boot", "ioeventfd", "buses"}
Late  == {"disk", "setup", "reset", "thread", "join", "close"}

StageInv ==
  /\ pc \in Setup => vpc = "none"
  /\ pc \in Early => pio = <<>>
  /\ pc = "serial" => pio = PciPio
  /\ pc \in Late => pio = AllPio
  /\ pc \in Late \cup {"ioeventfd", "buses", "serial"} => written = 11
  /\ vpc # "none" => pio = AllPio /\ written = 11

TypeInv ==
  /\ pc \in Stages /\ config \in Configs /\ Cardinality(failed) <= MaxFails
  /\ mapper \in [1 .. 2 -> [start : Int, size : Int]] /\ written \in 0 .. 11
  /\ pio \in {<<>>, PciPio, AllPio} /\ threads \subseteq {"ioevent", "serial"}
  /\ soft \subseteq Parts /\ hw \in [Parts -> {"kvm", "zero", "set"}]
  /\ vpc \in {"none", "run", "destroy", "done", "fault"}
  /\ last \in Exits \cup {"none"} /\ ret \in {"unset", "0", "-1"}

MachineInv == TypeInv /\ StageInv

LEMMA MachineInit == Init => MachineInv
<1> SUFFICES ASSUME Init PROVE MachineInv
  OBVIOUS
<1>1. Cardinality({}) <= MaxFails
  BY FS_EmptySet, FailsAssumption
<1>2. mapper \in [1 .. 2 -> [start : Int, size : Int]]
  BY DEF Init, Unused, At
<1>3. TypeInv
  BY <1>1, <1>2 DEF Init, TypeInv, Stages, Parts, Exits
<1>4. StageInv
  BY Zenon DEF Init, StageInv, Late, Setup
<1>5. QED
  BY <1>3, <1>4, Zenon DEF MachineInv

(* The effect of each function main calls: where it starts and may lead,   *)
(* and that it keeps the bound on failures.                                *)
From(stage, next) == pc = stage /\ pc' \in next /\ Cardinality(failed') <= MaxFails

Allowed(F) == F = {} \/ Cardinality(failed \cup F) <= MaxFails

LEMMA GotoFrom ==
  ASSUME TypeInv, NEW F, Allowed(F), NEW stage, NEW next, NEW n \in next, Goto(stage, n, F)
  PROVE  From(stage, next)
<1>1. CASE F = {}
  BY <1>1 DEF Goto, From, TypeInv
<1>2. CASE Cardinality(failed \cup F) <= MaxFails
  BY <1>2, Zenon DEF Goto, From
<1>3. QED
  BY <1>1, <1>2 DEF Allowed

LEMMA PlainStep ==
  ASSUME TypeInv,
         \/ Options \/ OpenKvm \/ CreateBaseDev \/ InitVcpu \/ CreateDisk \/ Join \/ Close
  PROVE  /\ UNCHANGED <<memory, devices, vcpu, guest>>
         /\ \/ From("options", {"open", "ended"}) \/ From("open", {"base", "ended"})
            \/ From("base", {"memory"}) \/ From("vcpu", {"boot"}) \/ From("disk", {"setup", "ended"})
            \/ From("join", {"close"}) \/ From("close", {"ended"})
<1>1. CASE Options
  <2>1. PICK n : n \in {"open", "ended"} /\ Allowed({}) /\ Goto("options", n, {})
    BY <1>1, Zenon DEF Options, Allowed
  <2>2. QED
    BY <1>1, <2>1, GotoFrom, Zenon DEF Options
<1>2. CASE OpenKvm
  <2>1. PICK F, n : n \in {"base", "ended"} /\ Allowed(F) /\ Goto("open", n, F)
    BY <1>2, Zenon DEF OpenKvm, Allowed, Failing
  <2>2. QED
    BY <1>2, <2>1, GotoFrom, Zenon DEF OpenKvm
<1>3. CASE CreateBaseDev
  <2>1. PICK F : Allowed(F) /\ Goto("base", "memory", F)
    BY <1>3, Zenon DEF CreateBaseDev, Allowed, Failing
  <2>2. QED
    BY <1>3, <2>1, GotoFrom, Zenon DEF CreateBaseDev
<1>4. CASE InitVcpu
  <2>1. PICK F : Allowed(F) /\ Goto("vcpu", "boot", F)
    BY <1>4, Zenon DEF InitVcpu, Allowed, Failing
  <2>2. QED
    BY <1>4, <2>1, GotoFrom, Zenon DEF InitVcpu
<1>5. CASE CreateDisk
  <2>1. PICK F, n : n \in {"setup", "ended"} /\ Allowed(F) /\ Goto("disk", n, F)
    BY <1>5, Zenon DEF CreateDisk, Allowed, Failing
  <2>2. QED
    BY <1>5, <2>1, GotoFrom, Zenon DEF CreateDisk
<1>6. CASE Join
  BY <1>6, GotoFrom, Zenon DEF Join, Allowed
<1>7. CASE Close
  BY <1>7, GotoFrom, Zenon DEF Close, Allowed
<1>8. QED
  BY <1>1, <1>2, <1>3, <1>4, <1>5, <1>6, <1>7, Zenon

LEMMA PlainInv ==
  ASSUME MachineInv, Options \/ OpenKvm \/ CreateBaseDev \/ InitVcpu \/ CreateDisk \/ Join \/ Close
  PROVE  MachineInv'
<1>1. /\ UNCHANGED <<config, mapper, written, pio, threads, soft, hw, vpc, last, ret>>
      /\ \/ From("options", {"open", "ended"}) \/ From("open", {"base", "ended"})
         \/ From("base", {"memory"}) \/ From("vcpu", {"boot"}) \/ From("disk", {"setup", "ended"})
         \/ From("join", {"close"}) \/ From("close", {"ended"})
  BY PlainStep, Zenon DEF MachineInv, memory, devices, vcpu, guest
<1>2. pc' \in Stages /\ Cardinality(failed') <= MaxFails
  BY <1>1 DEF From, Stages
<1>3. TypeInv'
  BY <1>1, <1>2, Zenon DEF MachineInv, TypeInv
<1>4. /\ pc' \in Setup => pc \in Setup
      /\ pc' \in Early => pc \in Early
      /\ pc' # "serial"
      /\ pc' \in Late => pc \in Late
      /\ pc' \in {"ioeventfd", "buses"} => pc \in {"ioeventfd", "buses"}
  BY <1>1 DEF From, Setup, Early, Late
<1>5. StageInv'
  BY <1>1, <1>4, Zenon DEF MachineInv, StageInv
<1>6. QED
  BY <1>3, <1>5, Zenon DEF MachineInv

LEMMA MemoryInv ==
  ASSUME MachineInv, InitMemory
  PROVE  MachineInv'
<1>1. UNCHANGED <<config, written, pio, threads, soft, hw, vpc, last, ret>>
  BY Zenon DEF InitMemory, devices, vcpu, guest
<1>2. PICK F, k, call : Allowed(F) /\ Goto("memory", "vcpu", F) /\ mapper' = InitMemoryMap(config.ram, k, call)
  BY Zenon DEF InitMemory, Allowed, Failing
<1>3. From("memory", {"vcpu"})
  BY <1>2, GotoFrom, Zenon DEF MachineInv
<1>4. \A i \in 1 .. 2 : Rams(config.ram)[i] \in [start : Int, size : Int]
  <2>1. config.ram \in Nat
    BY ConfigAssumption DEF MachineInv, TypeInv
  <2>2. QED
    BY <2>1, GapAssumption DEF Rams, At, Unused
<1>5. Unused \in [start : Int, size : Int]
  BY DEF Unused, At
<1>6. mapper' \in [1 .. 2 -> [start : Int, size : Int]]
  BY <1>2, <1>4, <1>5, Zenon DEF InitMemoryMap
<1>7. TypeInv'
  <2>1. "vcpu" \in Stages
    BY DEF Stages
  <2>2. QED
    BY <1>1, <1>3, <1>6, <2>1, Zenon DEF MachineInv, TypeInv, From
<1>8. StageInv'
  BY <1>1, <1>3 DEF MachineInv, StageInv, From, Setup, Early, Late
<1>9. QED
  BY <1>7, <1>8, Zenon DEF MachineInv

LEMMA BootStepInv ==
  ASSUME MachineInv, BootStep
  PROVE  MachineInv'
<1>1. UNCHANGED <<config, mapper, pio, threads, soft, hw, vpc, last, ret>>
  BY Zenon DEF BootStep, devices, vcpu, guest
<1>2. Len(BootSteps) = 11
  BY DEF BootSteps
<1>3. /\ From("boot", {"wild", "ioeventfd", "boot", "ended"})
      /\ written < 11 /\ (written' = written + 1 \/ written' = written)
      /\ pc' = "ioeventfd" => written + 1 = 11 /\ written' = written + 1
  <2>1. CASE written' = written + 1 /\ Goto("boot", pc', {})
    <3>1. written < 11 /\ (pc' = "ioeventfd" => written + 1 = 11)
      BY <1>2, <2>1 DEF BootStep, Goto
    <3>2. pc' \in {"wild", "ioeventfd", "boot", "ended"}
      BY <2>1 DEF BootStep, Goto
    <3>3. From("boot", {"wild", "ioeventfd", "boot", "ended"})
      BY <2>1, <3>2, GotoFrom, Zenon DEF MachineInv, Allowed
    <3>4. QED
      BY <2>1, <3>1, <3>3
  <2>2. CASE /\ UNCHANGED written
             /\ \E F : {F} \in Failing({F}) /\ Goto("boot", "ended", {F})
    <3>1. From("boot", {"wild", "ioeventfd", "boot", "ended"})
      BY <2>2, GotoFrom, Zenon DEF MachineInv, Allowed, Failing
    <3>2. written < 11 /\ pc' = "ended"
      BY <1>2, <2>2 DEF BootStep, Goto
    <3>3. QED
      BY <2>2, <3>1, <3>2
  <2>3. QED
    BY <2>1, <2>2, Zenon DEF BootStep, Goto
<1>4. pc' \in Stages /\ written' \in 0 .. 11
  BY <1>3 DEF MachineInv, TypeInv, From, Stages
<1>5. TypeInv'
  BY <1>1, <1>3, <1>4, Zenon DEF MachineInv, TypeInv, From
<1>6. StageInv'
  <2>1. pc = "boot" /\ pio = <<>> /\ vpc = "none"
    BY <1>3 DEF MachineInv, StageInv, From, Setup, Early
  <2>2. pc' \notin Late /\ pc' \notin {"buses", "serial"} /\ (pc' = "ioeventfd" => written' = 11)
    BY <1>3 DEF From, Late
  <2>3. QED
    BY <1>1, <2>1, <2>2, Zenon DEF StageInv
<1>7. QED
  BY <1>5, <1>6, Zenon DEF MachineInv

LEMMA DevicesInv ==
  ASSUME MachineInv, InitIoeventfd \/ InitBuses \/ CreateSerialDev
  PROVE  MachineInv'
<1>1. UNCHANGED <<config, mapper, written, soft, hw, vpc, last, ret>>
  <2>1. UNCHANGED <<memory, vcpu, guest>>
    BY SMT DEF InitIoeventfd, InitBuses, CreateSerialDev
  <2>2. QED
    BY <2>1, Zenon DEF memory, vcpu, guest
<1>2. threads' \subseteq {"ioevent", "serial"}
  <2>1. threads' \subseteq threads \cup {"ioevent", "serial"}
    BY SMT DEF InitIoeventfd, InitBuses, CreateSerialDev
  <2>2. QED
    BY <2>1, Zenon DEF MachineInv, TypeInv
<1>3. CASE InitIoeventfd
  <2>1. PICK F : Allowed(F) /\ Goto("ioeventfd", "buses", F)
    BY <1>3, Zenon DEF InitIoeventfd, Allowed, Failing
  <2>2. From("ioeventfd", {"buses"}) /\ pio' = pio
    BY <1>3, <2>1, GotoFrom, Zenon DEF MachineInv, InitIoeventfd
  <2>3. "buses" \in Stages /\ {"ioeventfd", "buses"} \subseteq Early /\ "ioeventfd" \in Setup
        /\ "buses" \notin Late
    BY DEF Stages, Early, Setup, Late
  <2>4. QED
    BY <1>1, <1>2, <2>2, <2>3 DEF MachineInv, TypeInv, StageInv, From
<1>4. CASE InitBuses
  <2>1. From("buses", {"serial"}) /\ pio' = PciPio
    <3>1. Goto("buses", "serial", {}) /\ pio' = WithPci(<<>>)
      BY <1>4, Zenon DEF InitBuses
    <3>2. WithPci(<<>>) = PciPio
      <4>1. \A a, b : <<a, b>> \o <<>> = <<a, b>>
        BY SMT
      <4>2. WithPci(<<>>) = <<DataPort, AddrPort>> \o <<>>
        BY SMT DEF WithPci, DataPort, AddrPort
      <4>3. QED
        BY <4>1, <4>2, Zenon DEF PciPio
    <3>3. QED
      BY <3>1, <3>2, GotoFrom, Zenon DEF MachineInv, Allowed
  <2>2. "serial" \in Stages /\ "buses" \in Setup /\ "serial" \notin Early /\ "serial" \notin Late
    BY DEF Stages, Early, Setup, Late
  <2>3. QED
    BY <1>1, <1>2, <2>1, <2>2 DEF MachineInv, TypeInv, StageInv, From
<1>5. CASE CreateSerialDev
  <2>1. PICK F : Allowed(F) /\ Goto("serial", "disk", F)
    BY <1>5, Zenon DEF CreateSerialDev, Allowed, Failing
  <2>2. From("serial", {"disk"}) /\ pio' = <<SerialPorts>> \o pio
    BY <1>5, <2>1, GotoFrom, Zenon DEF MachineInv, CreateSerialDev, SerialPorts
  <2>3. "disk" \in Stages /\ "serial" \in Setup /\ "disk" \notin Early
    BY DEF Stages, Early, Setup
  <2>4. pio' = AllPio
    <3>1. pio = PciPio
      BY <2>2, Zenon DEF MachineInv, StageInv, From
    <3>2. ASSUME NEW a, NEW b, NEW c PROVE <<a>> \o <<b, c>> = <<a, b, c>>
      <4> DEFINE S == {a, b, c}
      <4>1. <<a>> \in Seq(S) /\ <<b, c>> \in Seq(S) /\ <<a, b, c>> \in Seq(S)
        OBVIOUS
      <4>2. Len(<<a>>) = 1 /\ Len(<<b, c>>) = 2 /\ Len(<<a, b, c>>) = 3
        OBVIOUS
      <4> DEFINE s == <<a>> \o <<b, c>>
      <4>3. s \in Seq(S) /\ Len(s) = 3 /\ s[1] = a /\ s[2] = b /\ s[3] = c
        BY <4>1, <4>2, ConcatProperties
      <4>4. s \in Seq(S) /\ Len(s) = Len(<<a, b, c>>)
            /\ \A k \in 1 .. Len(s) : s[k] = <<a, b, c>>[k]
        BY <4>2, <4>3
      <4>5. QED
        BY <4>1, <4>4, SeqEqual, Zenon
    <3>3. QED
      BY <2>2, <3>1, <3>2, Zenon DEF PciPio, AllPio
  <2>5. QED
    BY <1>1, <1>2, <2>2, <2>3, <2>4 DEF MachineInv, TypeInv, StageInv, From
<1>6. QED
  BY <1>3, <1>4, <1>5

LEMMA VcpuStateInv ==
  ASSUME MachineInv, SetupVcpu \/ ResetVcpu
  PROVE  MachineInv'
<1>1. UNCHANGED <<config, mapper, written, pio, threads, vpc, last, ret>>
  BY Zenon DEF SetupVcpu, ResetVcpu, memory, devices, guest
<1>2. From("setup", {"reset"}) \/ From("reset", {"thread"})
  <2>1. \E F : Allowed(F) /\ (Goto("setup", "reset", F) \/ Goto("reset", "thread", F))
    BY Zenon DEF SetupVcpu, ResetVcpu, Allowed, Failing
  <2>2. QED
    BY <2>1, GotoFrom, Zenon DEF MachineInv
<1>3. soft' \subseteq Parts /\ hw' \in [Parts -> {"kvm", "zero", "set"}]
  <2>1. soft \subseteq Parts /\ hw \in [Parts -> {"kvm", "zero", "set"}]
    BY Zenon DEF MachineInv, TypeInv
  <2>2. CASE SetupVcpu
    BY <2>1, <2>2, Zenon DEF SetupVcpu
  <2>3. CASE ResetVcpu
    <3>1. soft' = soft
      BY <2>3, Zenon DEF ResetVcpu
    <3>2. PICK F : hw' = [p \in Parts |->
                  CASE p \in F \/ "KVM_CREATE_VCPU" \in failed -> hw[p]
                    [] p = "cpuid" -> IF "KVM_GET_SUPPORTED_CPUID" \in F THEN "zero" ELSE "set"
                    [] OTHER -> IF p \in soft THEN "set" ELSE "zero"]
      BY <2>3, Zenon DEF ResetVcpu
    <3>3. QED
      BY <2>1, <3>1, <3>2
  <2>4. QED
    BY <2>2, <2>3
<1>4. pc' \in Stages /\ pc \in Setup \cap Late /\ pc' \in Late /\ pc' \notin Early /\ pc' # "serial"
  BY <1>2 DEF From, Stages, Setup, Early, Late
<1>5. TypeInv'
  BY <1>1, <1>2, <1>3, <1>4, Zenon DEF MachineInv, TypeInv, From
<1>6. StageInv'
  BY <1>1, <1>4, Zenon DEF MachineInv, StageInv
<1>7. QED
  BY <1>5, <1>6, Zenon DEF MachineInv

LEMMA StartInv ==
  ASSUME MachineInv, StartThread
  PROVE  MachineInv'
<1>1. UNCHANGED <<config, mapper, written, pio, threads, soft, hw, last, ret>>
  BY Zenon DEF StartThread, memory, devices, vcpu
<1>2. From("thread", {"join", "ended"}) /\ vpc' \in {"run", vpc}
  <2>1. PICK F : Allowed(F) /\ Goto("thread", IF F = {} THEN "join" ELSE "ended", F)
                 /\ vpc' = IF F = {} THEN "run" ELSE vpc
    BY Zenon DEF StartThread, Allowed, Failing
  <2>2. (IF F = {} THEN "join" ELSE "ended") \in {"join", "ended"}
    OBVIOUS
  <2>3. QED
    BY <2>1, <2>2, GotoFrom, Zenon DEF MachineInv
<1>3. /\ pc' \in Stages /\ pc \in Late /\ pc' \notin Setup /\ pc' \notin Early /\ pc' # "serial"
      /\ pc' \notin {"ioeventfd", "buses", "serial"}
  BY <1>2 DEF From, Stages, Setup, Early, Late
<1>4. TypeInv'
  BY <1>1, <1>2, <1>3, Zenon DEF MachineInv, TypeInv, From
<1>5. StageInv'
  BY <1>1, <1>3, Zenon DEF MachineInv, StageInv
<1>6. QED
  BY <1>4, <1>5, Zenon DEF MachineInv

(* The vCPU's thread. *)
LEMMA VcpuInv ==
  ASSUME MachineInv, Vcpu
  PROVE  MachineInv'
<1>1. UNCHANGED <<failed, config, mapper, written, pio, threads, soft, hw>>
  BY Zenon DEF Vcpu, VcpuExec, VcpuFault, DestroyVcpu, memory, devices, vcpu
<1>2. vpc # "none" /\ pc' \in {pc, "wild"}
  BY DEF Vcpu, VcpuExec, VcpuFault, DestroyVcpu
<1>3. /\ vpc' \in {"none", "run", "destroy", "done", "fault"}
      /\ last' \in Exits \cup {"none"} /\ ret' \in {"unset", "0", "-1"}
  <2>1. last \in Exits \cup {"none"} /\ ret \in {"unset", "0", "-1"}
    BY Zenon DEF MachineInv, TypeInv
  <2>2. CASE VcpuExec
    <3>1. PICK r : r \in Exits /\ last' = r /\ ret' = Handled(r, ret) /\ vpc' \in {"run", "destroy"}
      BY <2>2 DEF VcpuExec, Exits
    <3>2. Handled(r, ret) \in {"0", "-1", ret}
      BY Zenon DEF Handled
    <3>3. QED
      BY <2>1, <3>1, <3>2
  <2>3. CASE VcpuFault
    BY <2>1, <2>3, Zenon DEF VcpuFault
  <2>4. CASE DestroyVcpu
    BY <2>1, <2>4, Zenon DEF DestroyVcpu
  <2>5. QED
    BY <2>2, <2>3, <2>4, Zenon DEF Vcpu
<1>4. TypeInv'
  <2>1. "wild" \in Stages
    BY DEF Stages
  <2>2. QED
    BY <1>1, <1>2, <1>3, <2>1, Zenon DEF MachineInv, TypeInv
<1>5. StageInv'
  <2>1. /\ "wild" \notin Setup /\ "wild" \notin Early
        /\ "wild" \notin Late \cup {"ioeventfd", "buses", "serial"}
    BY DEF Setup, Early, Late
  <2>2. pc \notin Setup /\ pio = AllPio /\ written = 11
    BY <1>2, Zenon DEF MachineInv, StageInv
  <2>3. \A s \in Early \cup {"serial"} : s \in Setup
    BY DEF Setup, Early
  <2>4. QED
    BY <1>1, <1>2, <2>1, <2>2, <2>3, Zenon DEF StageInv
<1>6. QED
  BY <1>4, <1>5, Zenon DEF MachineInv

LEMMA MachineInvariant == Spec => []MachineInv
<1>1. MachineInv /\ [Next]_vars => MachineInv'
  <2> SUFFICES ASSUME MachineInv, [Next]_vars PROVE MachineInv'
    OBVIOUS
  <2>1. CASE Main
    BY <2>1, PlainInv, MemoryInv, BootStepInv, DevicesInv, VcpuStateInv, StartInv, Zenon DEF Main
  <2>2. CASE Vcpu
    BY <2>2, VcpuInv
  <2>3. CASE UNCHANGED vars
    BY <2>3, Zenon DEF vars, memory, devices, vcpu, guest, MachineInv, TypeInv, StageInv
  <2>4. QED
    BY <2>1, <2>2, <2>3, Zenon DEF Next
<1>2. QED
  BY <1>1, MachineInit, PTL DEF Spec

(* The variables of main.c and vcpu.c keep their types, and no more calls  *)
(* fail than may, whatever is configured.                                  *)
THEOREM MachineTypeTheorem == Spec => []TypeOK
<1>1. MachineInv => TypeOK
  <2> SUFFICES ASSUME MachineInv PROVE TypeOK
    OBVIOUS
  <2>1. Len(BootSteps) = 11
    BY DEF BootSteps
  <2>2. Len(pio) <= 3
    <3>1. \A a, b, c : Len(<<>>) <= 3 /\ Len(<<a, b>>) <= 3 /\ Len(<<a, b, c>>) <= 3
      BY SMT
    <3>2. QED
      BY <3>1, Zenon DEF MachineInv, TypeInv, PciPio, AllPio
  <2>3. QED
    BY <2>1, <2>2, Zenon DEF MachineInv, TypeInv, TypeOK
<1>2. QED
  BY <1>1, MachineInvariant, PTL

LEMMA WhenRunning ==
  MachineInv /\ vpc = "run" => pio = AllPio /\ config \in Configs /\ written = 11
  BY Zenon DEF MachineInv, TypeInv, StageInv

(* Once the guest runs, every port of the serial line and of the PCI       *)
(* configuration is found in the region of its device                      *)
(* (iobus_find_region), whichever set-up calls failed.                     *)
THEOREM PioTheorem == Spec => []PioDispatch
<1>1. MachineInv => PioDispatch
  <2> DEFINE Found(a, p) == LET found == {i \in DOMAIN pio : Within(a, pio[i].area)}
                            IN  \E i \in found : (\A j \in found : i <= j) /\ pio[i].area = p
  <2> SUFFICES ASSUME pio = AllPio,
                      NEW p \in {At(\h3f8, 8), At(\hCF8, 4), At(\hCFC, 4)},
                      NEW a \in p.start .. p.start + p.size - 1
               PROVE  Found(a, p)
    BY WhenRunning DEF PioDispatch
  <2>1. /\ DOMAIN pio = 1 .. 3
        /\ pio[1].area = At(\h3f8, 8) /\ pio[2].area = At(\hCFC, 4) /\ pio[3].area = At(\hCF8, 4)
    BY DEF AllPio, SerialPorts, DataPort, AddrPort, Region
  <2>2. ASSUME NEW k \in 1 .. 3, pio[k].area = p,
               \A j \in 1 .. 3 : Within(a, pio[j].area) <=> j = k
        PROVE  Found(a, p)
    BY <2>1, <2>2
  <2>3. /\ p = pio[1].area \/ p = pio[2].area \/ p = pio[3].area
        /\ \A q \in {At(\h3f8, 8), At(\hCF8, 4), At(\hCFC, 4)} : Within(a, q) <=> q = p
    <3>2. CASE p = At(\h3f8, 8)
      BY <2>1, <3>2, SMT DEF Within, At
    <3>3. CASE p = At(\hCF8, 4)
      BY <2>1, <3>3, SMT DEF Within, At
    <3>4. CASE p = At(\hCFC, 4)
      BY <2>1, <3>4, SMT DEF Within, At
    <3>5. QED
      BY <3>2, <3>3, <3>4, SMT
  <2>4. QED
    BY <2>1, <2>2, <2>3
<1>2. QED
  BY <1>1, MachineInvariant, PTL

(* The page tables setup_pagetable writes map the first gigabyte to        *)
(* itself.                                                                 *)
LEMMA WalkIdentity ==
  ASSUME NEW x \in Nat, x < 2 ^ 30
  PROVE  Walk(PML4_START, x) = x
<1> DEFINE T == 2 ^ 21
           G == 2 ^ 30
<1>1. 2 ^ 21 = T /\ 2 ^ 30 = G
  OBVIOUS
<1>2. T = 2097152 /\ G = 1073741824
  BY SMT
<1> HIDE DEF T, G
<1> DEFINE i == x \div T
           pde == i * T + 131
<1>3. x \div G = 0 /\ i \in 0 .. 511 /\ x % T \in Nat /\ i * T + (x % T) = x
  <2>1. x \div 1073741824 = 0
    BY SMT
  <2>2. x \div 2097152 \in 0 .. 511
    BY SMT
  <2>3. x % 2097152 \in Nat /\ (x \div 2097152) * 2097152 + (x % 2097152) = x
    BY SMT
  <2>4. QED
    BY <1>2, <2>1, <2>2, <2>3, SMT
<1>4. (x \div G) \div 512 = 0 /\ (x \div G) % 512 = 0 /\ i % 512 = i
  BY <1>3, SMT
<1>5. PageWord(PML4_START) = PDPTE_START + 3 /\ PageWord(PDPTE_START) = PDE_START + 3
  BY SMT DEF PageWord, PML4_START, PDPTE_START, PDE_START
<1>6. \A k \in 0 .. 511 : PageWord(PDE_START + 8 * k) = k * T + 131
  BY <1>1, <1>2, SMT DEF PageWord, PML4_START, PDPTE_START, PDE_START
<1>7. pde % 2 # 0 /\ (pde \div T) * T = i * T
  BY <1>2, <1>3, SMT
<1>8. (PDPTE_START + 3) % 2 # 0 /\ (PDE_START + 3) % 2 # 0
  BY SMT DEF PDPTE_START, PDE_START
<1>9. /\ (PML4_START \div 4096) * 4096 + 8 * 0 = PML4_START
      /\ ((PDPTE_START + 3) \div 4096) * 4096 + 8 * 0 = PDPTE_START
      /\ ((PDE_START + 3) \div 4096) * 4096 = PDE_START
  BY SMT DEF PML4_START, PDPTE_START, PDE_START
<1>10. PageWord(PDE_START + 8 * i) = pde
  BY <1>3, <1>6, SMT
<1> HIDE DEF i, pde
<1>11. /\ PageWord((PML4_START \div 4096) * 4096 + 8 * ((x \div G) \div 512)) = PDPTE_START + 3
       /\ PageWord(((PDPTE_START + 3) \div 4096) * 4096 + 8 * ((x \div G) % 512)) = PDE_START + 3
       /\ PageWord(((PDE_START + 3) \div 4096) * 4096 + 8 * ((x \div T) % 512)) = pde
  BY <1>4, <1>5, <1>9, <1>10, SMT DEF i
<1>12. Walk(PML4_START, x) = (pde \div T) * T + (x % T)
  BY <1>1, <1>7, <1>8, <1>11, SMT DEF Walk
<1>13. QED
  BY <1>3, <1>7, <1>12, SMT

(* Every area of a configuration that fits, and the stack, lies in the     *)
(* first gigabyte, and no area is on the stack.                            *)
LEMMA LowArea ==
  ASSUME NEW c \in Configs, Fits(c), NEW k \in 1 .. 11
  PROVE  \E a, n \in Nat : /\ BootArea(c, BootSteps[k]) = At(a, n) /\ a + n < 2 ^ 30
                           /\ a + n <= \h8000 \/ \h8ff0 <= a
<1>1. /\ c.klen \in Nat /\ c.ilen \in Nat /\ InitrdAddr(c) \in Int /\ MpSize(c.ncpu) \in Nat
      /\ \h9fc00 + MpSize(c.ncpu) <= \ha0000 /\ \h1000000 + c.klen <= InitrdAddr(c)
      /\ InitrdAddr(c) + c.ilen <= \h37ffffff
  BY Room, InitrdBelow
<1>2. QED
  BY <1>1, Areas

Mapped(a) == \A x \in {a.start, a.start + a.size - 1} : a.size > 0 => Walk(Sregs.cr3, x) = x

LEMMA AreaMapped ==
  ASSUME NEW a \in Nat, NEW n \in Nat, a + n < 2 ^ 30
  PROVE  Mapped(At(a, n))
<1>1. Sregs.cr3 = PML4_START
  BY DEF Sregs
<1>2. ASSUME n > 0 PROVE Walk(PML4_START, a) = a /\ Walk(PML4_START, a + n - 1) = a + n - 1
  BY <1>2, WalkIdentity
<1>3. At(a, n).start = a /\ At(a, n).size = n
  BY DEF At
<1>4. QED
  BY <1>1, <1>2, <1>3 DEF Mapped

(* The descriptors in guest memory and the segments given to KVM, whatever *)
(* was left in the fields entry_to_kvm_seg does not set.                   *)
LEMMA SegmentsAgree ==
  ASSUME NEW code, NEW data
  PROVE  \A r \in DOMAIN Segments(code, data) :
           Agrees(Segments(code, data)[r], STARTUP_GDT[IF r = "cs" THEN 3 ELSE 4])
<1>1. /\ STARTUP_GDT[3] = GDT_ENTRY_INIT(\ha09b, 0, \hfffff)
      /\ STARTUP_GDT[4] = GDT_ENTRY_INIT(\hc093, 0, \hfffff)
  BY DEF STARTUP_GDT
<1>2. /\ GDT_ENTRY_INIT(\ha09b, 0, \hfffff) = <<65535, 0, 39680, 175>>
      /\ GDT_ENTRY_INIT(\hc093, 0, \hfffff) = <<65535, 0, 37632, 207>>
  BY DEF GDT_ENTRY_INIT, Field
<1>3. Agrees(get_code_kvm_seg(code), STARTUP_GDT[3])
  BY <1>1, <1>2 DEF Agrees, Loaded, get_code_kvm_seg, entry_to_kvm_seg, Field
<1>4. Agrees(get_data_kvm_seg(data), STARTUP_GDT[4])
  BY <1>1, <1>2 DEF Agrees, Loaded, get_data_kvm_seg, entry_to_kvm_seg, Field
<1>5. ASSUME NEW r \in DOMAIN Segments(code, data)
      PROVE  Agrees(Segments(code, data)[r], STARTUP_GDT[IF r = "cs" THEN 3 ELSE 4])
  <2>1. r \in {"cs", "ds", "es", "fs", "gs", "ss"}
    BY <1>5, Zenon DEF Segments
  <2>2. CASE r = "cs"
    <3>1. Segments(code, data)[r] = get_code_kvm_seg(code)
      BY <2>1, <2>2, Zenon DEF Segments
    <3>2. QED
      BY <1>3, <2>2, <3>1, Zenon
  <2>3. CASE r # "cs"
    <3>1. Segments(code, data)[r] = get_data_kvm_seg(data)
      BY <2>1, <2>3, Zenon DEF Segments
    <3>2. QED
      BY <1>4, <2>3, <3>1, Zenon
  <2>4. QED
    BY <2>2, <2>3, Zenon
<1>6. QED
  BY <1>5, Zenon

(* What the vCPU starts with agrees with what boot left, for every RAM     *)
(* size, image and number of processors that fit: setup_regs, setup_sregs, *)
(* setup_pagetable, setup_header_ramdisk and setup_gdt, which share no     *)
(* data, mean the same places, and the segments have what the descriptors  *)
(* say, whatever is left in their selector and unusable.                   *)
THEOREM HandoffTheorem == Spec => []Handoff
<1>1. MachineInv => Handoff
  <2> SUFFICES ASSUME config \in Configs, written = 11, Fits(config)
               PROVE  LET Area(s)   == BootArea(config, s)
                          areas     == {Area(BootSteps[i]) : i \in DOMAIN BootSteps}
                          hdr       == HeaderRamdisk(config)
                      IN  /\ written = Len(BootSteps)
                          /\ \A a \in areas \cup {BootStack} : Mapped(a)
                          /\ \A a \in areas : Disjoint(a, BootStack)
                          /\ Regs.rsp = BootStack.start + BootStack.size
                          /\ Regs.rip = Area("kernel").start /\ Regs.rsi = Area("zeropage").start
                          /\ At(hdr.ramdisk_image, hdr.ramdisk_size) = Area("initrd")
                          /\ At(hdr.cmd_line_ptr, hdr.cmdline_size) = Area("cmdline")
                          /\ At(Sregs.gdt.base, Sregs.gdt.limit + 1) = Area("gdt")
                          /\ At(Sregs.idt.base, Sregs.idt.limit + 1) = Area("idt")
                          /\ \A code, data \in Unset : \A r \in DOMAIN Segments(code, data) :
                               Agrees(Segments(code, data)[r],
                                      STARTUP_GDT[IF r = "cs" THEN 3 ELSE 4])
    BY WhenRunning, Zenon DEF Handoff, Mapped
  <2>1. Len(BootSteps) = 11 /\ DOMAIN BootSteps = 1 .. 11
    BY DEF BootSteps
  <2>2. BootStack = At(32768, 4080)
    BY DEF BootStack, BOOT_LOADER_SP
  <2>3. ASSUME NEW k \in 1 .. 11
        PROVE  Mapped(BootArea(config, BootSteps[k])) /\ Disjoint(BootArea(config, BootSteps[k]), BootStack)
    <3>1. PICK a \in Nat, n \in Nat :
            /\ BootArea(config, BootSteps[k]) = At(a, n) /\ a + n < 2 ^ 30
            /\ a + n <= \h8000 \/ \h8ff0 <= a
      BY LowArea
    <3>2. Disjoint(At(a, n), At(32768, 4080))
      BY <3>1 DEF Disjoint, At
    <3>3. QED
      BY <2>2, <3>1, <3>2, AreaMapped
  <2>4. Mapped(BootStack)
    BY <2>2, AreaMapped
  <2>5. /\ BootArea(config, "kernel") = At(VMLINUX_START, config.klen)
        /\ BootArea(config, "zeropage") = At(ZERO_PAGE_START, 4096)
        /\ BootArea(config, "initrd") = At(InitrdAddr(config), config.ilen)
        /\ BootArea(config, "cmdline") = At(CMDLINE_START, 69)
        /\ BootArea(config, "gdt") = At(BOOT_GDT_START, 32)
        /\ BootArea(config, "idt") = At(BOOT_IDT_START, 8)
    BY DEF BootArea
  <2>6. /\ Regs.rsp = BootStack.start + BootStack.size
        /\ Regs.rip = BootArea(config, "kernel").start
        /\ Regs.rsi = BootArea(config, "zeropage").start
    BY <2>2, <2>5 DEF Regs, At, BOOT_LOADER_SP
  <2>7. /\ At(HeaderRamdisk(config).ramdisk_image, HeaderRamdisk(config).ramdisk_size)
             = BootArea(config, "initrd")
        /\ At(HeaderRamdisk(config).cmd_line_ptr, HeaderRamdisk(config).cmdline_size)
             = BootArea(config, "cmdline")
    BY <2>5 DEF HeaderRamdisk
  <2>8. /\ At(Sregs.gdt.base, Sregs.gdt.limit + 1) = BootArea(config, "gdt")
        /\ At(Sregs.idt.base, Sregs.idt.limit + 1) = BootArea(config, "idt")
    <3>1. /\ Sregs.gdt.base = BOOT_GDT_START /\ Sregs.gdt.limit + 1 = 32
          /\ Sregs.idt.base = BOOT_IDT_START /\ Sregs.idt.limit + 1 = 8
      BY DEF Sregs
    <3>2. QED
      BY <2>5, <3>1, SMT
  <2>9. \A a \in {BootArea(config, BootSteps[i]) : i \in DOMAIN BootSteps} :
          Mapped(a) /\ Disjoint(a, BootStack)
    BY <2>1, <2>3, Zenon
  <2>10. QED
    BY <2>1, <2>4, <2>6, <2>7, <2>8, <2>9, SegmentsAgree, Zenon
<1>2. QED
  BY <1>1, MachineInvariant, PTL
=============================================================================
