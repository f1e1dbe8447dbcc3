------------------------------ MODULE Machine ------------------------------
(***************************************************************************)
(* The program from its start to its end (main.c): options, the KVM        *)
(* objects, guest memory, what the boot code puts there, the devices, the  *)
(* state of the vCPU (vcpu.c), and the vCPU's thread, which main waits for.*)
(* Almost every call's failure is only reported: failed collects the calls *)
(* that failed, and the program goes on with what it has.                  *)
(*                                                                         *)
(* A definition X_Y next to definition X is X with a plausible slip in it: *)
(* no specification uses it; it shows that a property would notice.        *)
(***************************************************************************)
EXTENDS BootParams

CONSTANTS Configs,   \* command lines and sizes to start with
          Supported, \* entries KVM_GET_SUPPORTED_CPUID may return
          Host,      \* the host's own cpuid registers, by function and index
          Unset,     \* what may be left in selector and unusable of a segment
          MaxFails   \* bound on the calls that fail

ASSUME ConfigAssumption ==
  \A c \in Configs : /\ c.ram \in Nat \ {0} /\ c.klen \in Nat /\ c.ilen \in Nat
                     /\ c.ncpu \in Nat \ {0} /\ c.args \subseteq {"k", "i", "d", "h"}

ASSUME UnsetAssumption ==
  Unset # {} /\ Unset \subseteq [selector : 0 .. 2 ^ 16 - 1, unusable : 0 .. 255]

ASSUME FailsAssumption == MaxFails \in Nat

VARIABLES pc,      \* where main is
          config,  \* the configuration, chosen once
          failed,  \* the calls that failed
          mapper,  \* MemMapper
          written, \* how many of BootSteps are done
          pio,     \* the regions of pio_bus, from its head
          threads, \* the helper threads that run
          soft,    \* the parts of the vCPU's state that setup_vcpu has set
          hw,      \* for each part, what KVM has: its own, zeroes, or what was set
          vpc,     \* where the vCPU's thread is
          last,    \* run->exit_reason of the last exit
          ret      \* ret of vcpu_exec

memory  == <<config, mapper, written>>
devices == <<pio, threads>>
vcpu    == <<soft, hw>>
guest   == <<vpc, last, ret>>
vars    == <<pc, failed, memory, devices, vcpu, guest>>

Region(start, size, dev) == [area |-> At(start, size), dev |-> dev]

Parts == {"cpuid", "lapic", "mp_state", "regs", "sregs", "fpu", "msrs"}

(* Some of calls fail, in what is left of the bound; F is the set of them. *)
Failing(calls) == {F \in SUBSET calls : Cardinality(failed \cup F) <= MaxFails}

Init ==
  /\ pc = "options" /\ config \in Configs /\ failed = {}
  /\ mapper = <<Unused, Unused>> /\ written = 0 /\ pio = <<>> /\ threads = {}
  /\ soft = {} /\ hw = [p \in Parts |-> "kvm"]
  /\ vpc = "none" /\ last = "none" /\ ret = "unset"

----------------------------------------------------------------------------
(* A step of main: from pc to next, with F the calls that fail. *)
Goto(from, next, F) == pc = from /\ pc' = next /\ failed' = failed \cup F

Options ==
  /\ LET end == "h" \in config.args \/ ~ {"k", "i"} \subseteq config.args
     IN  Goto("options", IF end THEN "ended" ELSE "open", {})
  /\ UNCHANGED <<memory, devices, vcpu, guest>>

(* /dev/kvm, its version, and the VM; a failure of one of them ends main.  *)
(* An interrupted KVM_CREATE_VM is one too: ioctl returns -1, not -EINTR.  *)
OpenKvm ==
  /\ \E F \in Failing({"open"}) \cup Failing({"KVM_GET_API_VERSION"}) \cup Failing({"KVM_CREATE_VM"}) :
       Goto("open", IF F = {} THEN "base" ELSE "ended", F)
  /\ UNCHANGED <<memory, devices, vcpu, guest>>

CreateBaseDev ==
  /\ \E F \in Failing({"KVM_CREATE_IRQCHIP", "KVM_SET_TSS_ADDR", "KVM_CREATE_PIT"}) :
       Goto("base", "memory", F)
  /\ UNCHANGED <<memory, devices, vcpu, guest>>

(* init_memory_map for RAM_SIZE *)
InitMemory ==
  /\ \/ Goto("memory", "vcpu", {}) /\ mapper' = InitMemoryMap(config.ram, 3, "none")
     \/ \E k \in {i \in 1 .. 2 : Rams(config.ram)[i].size > 0}, call \in Calls :
          /\ {call} \in Failing(Calls)
          /\ Goto("memory", "vcpu", {call})
          /\ mapper' = InitMemoryMap(config.ram, k, call)
  /\ UNCHANGED <<config, written, devices, vcpu, guest>>

(* init_vcpu; without a vCPU there is nothing to map either. *)
InitVcpu ==
  /\ \E F \in Failing({"KVM_CREATE_VCPU", "mmap_run"}) : Goto("vcpu", "boot", F)
  /\ UNCHANGED <<memory, devices, vcpu, guest>>

(* One step of init_linux_boot.  A file that cannot be opened ends the     *)
(* program; a write outside of the slots' memory makes anything possible.  *)
BootStep ==
  /\ written < Len(BootSteps)
  /\ LET step == BootSteps[written + 1]
         next == IF ~ Writable(mapper, BootArea(config, step)) THEN "wild"
                 ELSE IF written + 1 = Len(BootSteps) THEN "ioeventfd" ELSE "boot"
     IN  \/ Goto("boot", next, {}) /\ written' = written + 1
         \/ /\ step \in {"kernel", "initrd"} /\ {step} \in Failing({step})
            /\ Goto("boot", "ended", {step}) /\ UNCHANGED written
  /\ UNCHANGED <<config, mapper, devices, vcpu, guest>>

(* ioeventfd_init; the thread is not there either if pthread_create fails. *)
InitIoeventfd ==
  /\ \E F \in Failing({"KVM_CAP_IOEVENTFD"}) \cup Failing({"epoll"}) \cup Failing({"ioevent_thread"}) :
       /\ Goto("ioeventfd", "buses", F)
       /\ threads' = IF F = {} THEN threads \cup {"ioevent"} ELSE threads
  /\ UNCHANGED <<memory, pio, vcpu, guest>>

(* pcibus_init on a bus, and iobus_init. *)
WithPci(bus) ==
  <<Region(\hCFC, 4, "pci_data"), Region(\hCF8, 4, "pci_addr")>> \o bus

InitBuses_Swapped ==
  /\ Goto("buses", "serial", {}) /\ pio' = <<>>
  /\ UNCHANGED <<memory, threads, vcpu, guest>>

InitBuses ==
  /\ Goto("buses", "serial", {}) /\ pio' = WithPci(<<>>)
  /\ UNCHANGED <<memory, threads, vcpu, guest>>

(* create_serial_dev *)
CreateSerialDev ==
  /\ \E F \in Failing({"serial_eventfd", "KVM_IRQFD", "serial_thread"}) :
       /\ Goto("serial", "disk", F)
       /\ threads' = IF "serial_thread" \in F THEN threads ELSE threads \cup {"serial"}
  /\ pio' = <<Region(\h3f8, 8, "serial")>> \o pio
  /\ UNCHANGED <<memory, vcpu, guest>>

(* The disk, if there is one; an image that cannot be opened ends main. *)
CreateDisk ==
  /\ \/ "d" \notin config.args /\ Goto("disk", "setup", {})
     \/ /\ "d" \in config.args
        /\ \E F \in Failing({"disk_open"}) \cup Failing({"disk_irqfd"}) :
             Goto("disk", IF "disk_open" \in F THEN "ended" ELSE "setup", F)
  /\ UNCHANGED <<memory, devices, vcpu, guest>>

----------------------------------------------------------------------------
(* vcpu.c.  The registers setup_regs and setup_sregs leave; bits of cr0,   *)
(* cr4 and efer are added to what KVM_GET_SREGS returned.                  *)
Regs == [rflags |-> 2, rip |-> VMLINUX_START, rsp |-> BOOT_LOADER_SP,
         rbp |-> BOOT_LOADER_SP, rsi |-> ZERO_PAGE_START]

Sregs ==
  [gdt |-> [base |-> BOOT_GDT_START, limit |-> 4 * 8 - 1],
   idt |-> [base |-> BOOT_IDT_START, limit |-> 8 - 1],
   cr3 |-> PML4_START, set |-> {"PE", "PG", "PAE", "LME", "LMA"}]

(* Its segments, with what was left in the code's and in the data's. *)
Segments(code, data) ==
  [r \in {"cs", "ds", "es", "fs", "gs", "ss"} |->
     IF r = "cs" THEN get_code_kvm_seg(code) ELSE get_data_kvm_seg(data)]

(* setup_vcpu: every part but the cpuid entries.  The delivery modes of    *)
(* setup_lapic are bits 8 to 10 of a char, so the LAPIC stays as it was.   *)
SetupVcpu ==
  /\ \E F \in Failing({"KVM_GET_LAPIC", "KVM_GET_SREGS"}) : Goto("setup", "reset", F)
  /\ soft' = Parts \ {"cpuid"}
  /\ UNCHANGED <<memory, devices, hw, guest>>

(* reset_vcpu; the call for part p, here named as p is, may fail, and the  *)
(* entries to start from may be missing.                                   *)
ResetVcpu ==
  /\ \E F \in Failing(Parts \cup {"KVM_GET_SUPPORTED_CPUID"}) :
       /\ Goto("reset", "thread", F)
       /\ hw' = [p \in Parts |->
                  CASE p \in F \/ "KVM_CREATE_VCPU" \in failed -> hw[p]
                    [] p = "cpuid" -> IF "KVM_GET_SUPPORTED_CPUID" \in F THEN "zero" ELSE "set"
                    [] OTHER -> IF p \in soft THEN "set" ELSE "zero"]
  /\ UNCHANGED <<memory, devices, soft, guest>>

(* The registers of cpuid as sets of bits. *)
Bits(x) == {b \in 0 .. 30 : Field(x, b, 1) = 1}

(* The bits of leaf 4 for the n cores of a package. *)
Cores_Count(n) == {b + 26 : b \in Bits(n)}

Cores(n) == {b + 26 : b \in Bits(n - 1)}

(* An entry as setup_cpuid leaves it, for vcpu_count processors, n. *)
SetupCpuid(e, n, apic_id) ==
  LET host == Host[e.function] IN
  CASE e.function = "1" /\ e.index = 0 -> [e EXCEPT !.ecx = @ \cup {24, 31}]
    [] e.function \in {"2", "brand"} -> [host EXCEPT !.index = e.index]
    [] e.function = "4" ->
         [host EXCEPT !.index = e.index, !.eax = (@ \ (26 .. 31)) \cup
            IF @ \cap (0 .. 16) # {} /\ n > 1 THEN Cores(n) ELSE {}]
    [] e.function = "6" -> [e EXCEPT !.ecx = @ \ {3}]
    [] e.function = "10" ->
         [e EXCEPT !.eax = IF @ \cap (0 .. 7) # {1} \/ @ \cap (8 .. 15) = {} THEN {} ELSE @]
    [] e.function = "11" ->
         [e EXCEPT !.edx = Bits(apic_id),
            !.ecx = Bits(e.index % 256) \cup
                      CASE e.index = 0 -> Bits(1 * 256) [] e.index = 1 -> Bits(2 * 256) [] OTHER -> {},
            !.eax = CASE e.index = 0 -> {} [] e.index = 1 -> Bits(32 - n) [] OTHER -> @,
            !.ebx = CASE e.index = 0 -> Bits(1) [] e.index = 1 -> Bits(n) [] OTHER -> Bits(\hff)]
    [] OTHER -> e

----------------------------------------------------------------------------
(* The vCPU's thread, and main waiting for it. *)
StartThread ==
  /\ \E F \in Failing({"vcpu_thread"}) :
       /\ Goto("thread", IF F = {} THEN "join" ELSE "ended", F)
       /\ vpc' = IF F = {} THEN "run" ELSE vpc
  /\ UNCHANGED <<memory, devices, vcpu, last, ret>>

Exits == {"hlt", "io", "mmio", "irq_window", "shutdown", "unknown", "internal", "system", "failed"}

(* ret after the switch of vcpu_exec.  Three reasons leave it alone: if it *)
(* is not set yet, its value is whatever it is.                            *)
Handled_Errno(r, old) == IF r = "failed" THEN "errno" ELSE "0"

Handled_Shutdown(r, old) ==
  CASE r \in {"io", "mmio"} -> "0"
    [] r \in {"irq_window", "unknown", "failed"} -> "-1"
    [] OTHER -> old

Handled(r, old) ==
  CASE r \in {"io", "mmio"} -> "0"
    [] r \in {"irq_window", "shutdown", "unknown", "failed"} -> "-1"
    [] OTHER -> old

(* An exit of KVM_RUN, or its failure.  The loop ends on hlt and when ret  *)
(* is not 0.                                                               *)
VcpuExec ==
  /\ vpc = "run"
  /\ \E r \in IF "KVM_CREATE_VCPU" \in failed THEN {"failed"} ELSE Exits :
       /\ r = "failed" \/ "mmap_run" \notin failed
       /\ last' = r /\ ret' = Handled(r, ret)
       /\ \/ vpc' = "run" /\ r # "hlt" /\ ret' # "-1"
          \/ vpc' = "destroy" /\ (r = "hlt" \/ ret' # "0")
  /\ UNCHANGED <<pc, failed, memory, devices, vcpu>>

(* The exit reason is read through kvm_run, mapped or not. *)
VcpuFault ==
  /\ vpc = "run" /\ "mmap_run" \in failed /\ "KVM_CREATE_VCPU" \notin failed
  /\ vpc' = "fault" /\ pc' = "wild"
  /\ UNCHANGED <<failed, memory, devices, vcpu, last, ret>>

DestroyVcpu ==
  /\ vpc = "destroy" /\ vpc' = "done"
  /\ UNCHANGED <<pc, failed, memory, devices, vcpu, last, ret>>

Join ==
  /\ vpc = "done"
  /\ Goto("join", "close", {})
  /\ UNCHANGED <<memory, devices, vcpu, guest>>

(* The descriptors are closed, vcpu and kvm_state freed, and main returns. *)
Close ==
  /\ Goto("close", "ended", {})
  /\ UNCHANGED <<memory, devices, vcpu, guest>>

Main ==
  \/ Options \/ OpenKvm \/ CreateBaseDev \/ InitMemory \/ InitVcpu \/ BootStep
  \/ InitIoeventfd \/ InitBuses \/ CreateSerialDev \/ CreateDisk
  \/ SetupVcpu \/ ResetVcpu \/ StartThread \/ Join \/ Close

Vcpu == pc \notin {"ended", "wild"} /\ (VcpuExec \/ VcpuFault \/ DestroyVcpu)

Next == Main \/ Vcpu

Spec == Init /\ [][Next]_vars /\ WF_vars(Main) /\ WF_vars(Vcpu)

----------------------------------------------------------------------------
Stages ==
  {"options", "open", "base", "memory", "vcpu", "boot", "ioeventfd", "buses", "serial",
   "disk", "setup", "reset", "thread", "join", "close", "ended", "wild"}

(* The variables have the values main.c and vcpu.c give them. *)
TypeOK ==
  /\ pc \in Stages /\ config \in Configs /\ Cardinality(failed) <= MaxFails
  /\ mapper \in [1 .. 2 -> [start : Int, size : Int]] /\ written \in 0 .. Len(BootSteps)
  /\ Len(pio) <= 3 /\ threads \subseteq {"ioevent", "serial"}
  /\ soft \subseteq Parts /\ hw \in [Parts -> {"kvm", "zero", "set"}]
  /\ vpc \in {"none", "run", "destroy", "done", "fault"}
  /\ last \in Exits \cup {"none"} /\ ret \in {"unset", "0", "-1"}

(* All RAM is in MemMapper.  A range is entered there before KVM is asked  *)
(* to take it, so KVM may have refused the last one.                       *)
Backed == mapper = <<Rams(config.ram)[1], Rams(config.ram)[2]>>

(* Boot code writes through addresses it does not check                    *)
(* (get_userspace_addr makes one from any index): it never leaves the      *)
(* slots' memory, whatever the RAM size, if the slots are there and the    *)
(* images fit.  Only an unmapped kvm_run makes the vCPU's thread fault.    *)
NoWild ==
  pc = "wild" => \/ vpc = "fault" /\ "mmap_run" \in failed
                 \/ vpc = "none" /\ (~ Backed \/ ~ Fits(config))

(* No step of init_linux_boot overwrites what an earlier one left: the     *)
(* page tables, the zero page, the images and the rest lie apart; only the *)
(* zero page is written twice, cleared before it is filled in.             *)
BootIntact ==
  Fits(config) =>
    \A i, j \in 1 .. written :
      i < j => \/ Disjoint(BootArea(config, BootSteps[i]), BootArea(config, BootSteps[j]))
               \/ BootSteps[i] = "zeropage" /\ BootSteps[j] = "params"

(* The map setup_e820 hands to the kernel is true: what it calls usable is *)
(* in a range of MemMapper, it has all of a range from 1 MiB on, the       *)
(* images are in it, and the MP table is not.                              *)
E820Backed ==
  Backed /\ Fits(config) /\ written = Len(BootSteps) =>
    LET e820   == E820(config.ram)
        usable == {e820[k].area : k \in {k \in DOMAIN e820 : e820[k].ram}}
    IN  /\ \A u \in usable : /\ \E i \in 1 .. 2 : Inside(u, mapper[i])
                             /\ Disjoint(u, BootArea(config, "mptable"))
        /\ \A i \in 1 .. 2 : mapper[i].size > 0 =>
             \E u \in usable : /\ u.start + u.size = mapper[i].start + mapper[i].size
                               /\ u.start = mapper[i].start \/ (i = 1 /\ u.start = VMLINUX_RAM_START)
        /\ \A s \in {"kernel", "initrd"} : \E u \in usable : Inside(BootArea(config, s), u)

(* The MP table has the checksums, the length and the entries a reader     *)
(* looks for, for any number of processors it has room for                 *)
(* (setup_mptable).                                                        *)
MpTableSound ==
  pc = "buses" /\ Fits(config) => SoundTable(config.ncpu)

(* The registers the vCPU starts with agree with what boot left: through   *)
(* the page tables at cr3 every area and the stack is found at its own     *)
(* address, rip is the kernel's first byte and rsi the zero page, whose    *)
(* header points at the other areas; the stack is no one else's; and each  *)
(* segment given to KVM has, in every field a descriptor has, what the     *)
(* table at gdt.base would give, though gdt.c writes the flags down twice. *)
(* selector and unusable, which entry_to_kvm_seg leaves as they were, may  *)
(* have any value: nothing is said of them.                                *)
Handoff ==
  vpc = "run" /\ last = "none" /\ hw["regs"] = "set" /\ hw["sregs"] = "set" /\ Fits(config) =>
    LET Area(s)   == BootArea(config, s)
        Mapped(a) == \A x \in {a.start, a.start + a.size - 1} : a.size > 0 => Walk(Sregs.cr3, x) = x
        areas     == {Area(BootSteps[i]) : i \in DOMAIN BootSteps}
        hdr       == HeaderRamdisk(config)
    IN  /\ written = Len(BootSteps)
        /\ \A a \in areas \cup {BootStack} : Mapped(a)
        /\ \A a \in areas : Disjoint(a, BootStack)
        /\ Regs.rsp = BootStack.start + BootStack.size
        /\ Regs.rip = Area("kernel").start /\ Regs.rsi = Area("zeropage").start
        /\ At(hdr.ramdisk_image, hdr.ramdisk_size) = Area("initrd")
        /\ At(hdr.cmd_line_ptr, hdr.cmdline_size) = Area("cmdline")
        /\ At(Sregs.gdt.base, Sregs.gdt.limit + 1) = Area("gdt")
        /\ At(Sregs.idt.base, Sregs.idt.limit + 1) = Area("idt")
        /\ \A code, data \in Unset : \A r \in DOMAIN Segments(code, data) :
             Agrees(Segments(code, data)[r], STARTUP_GDT[IF r = "cs" THEN 3 ELSE 4])

(* The MP table, cpuid leaf 4 and cpuid leaf 0xb tell of the same          *)
(* processors, though mptable.c and vcpu.c count them on their own: as     *)
(* many cores, in one package, this one with the id of the boot processor. *)
(* The 32 - n bits leaf 0xb gives to an id in the package are enough of    *)
(* them for up to 27 processors.                                           *)
TopologyAgrees ==
  vpc = "run" /\ last = "none" /\ hw["cpuid"] = "set" /\ config.ncpu <= 27 =>
    LET n       == config.ncpu
        Leaf(f) == {SetupCpuid(e, n, 0) : e \in {e \in Supported : e.function = f}}
        Ids     == {Entries(n)[i][2] : i \in 1 .. n}
        Boot    == {i \in 1 .. n : Entries(n)[i][4] = 3}
    IN  /\ \A e \in Leaf("4") : e.eax \cap (0 .. 16) # {} =>
                                 Bits(n - 1) = {b - 26 : b \in e.eax \cap (26 .. 31)}
        /\ \A e \in Leaf("11") : \E i \in Boot : e.edx = Bits(Entries(n)[i][2])
        /\ \E e \in Leaf("11") :
             /\ e.index = 1 /\ e.ebx = Bits(Cardinality(Ids))
             /\ \E shift \in 0 .. 31 : /\ e.eax = Bits(shift)
                                       /\ \A id \in Ids : Bits(id) \subseteq 0 .. shift - 1

(* The ports of the serial line and of the PCI configuration are each      *)
(* found on pio_bus when the guest runs (iobus_find_region takes the first *)
(* region from the head), whichever of the set-up calls failed.            *)
PioDispatch ==
  vpc = "run" =>
    \A p \in {At(\h3f8, 8), At(\hCF8, 4), At(\hCFC, 4)} :
      \A a \in p.start .. p.start + p.size - 1 :
        LET found == {i \in DOMAIN pio : Within(a, pio[i].area)}
        IN  \E i \in found : (\A j \in found : i <= j) /\ pio[i].area = p

(* Once the guest has shut down or KVM_RUN has failed, the program ends:   *)
(* the loop of vcpu_exec is left and main's wait is over.                  *)
Terminates ==
  (last \in {"hlt", "shutdown", "unknown", "irq_window", "failed"}) ~> (pc = "ended")
=============================================================================
