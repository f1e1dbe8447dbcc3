----------------------------- MODULE VirtioPci -----------------------------
(***************************************************************************)
(* The virtio transport (virtio-pci.c, virtqueue.c, ioeventfd.c): how a    *)
(* guest driver finds the device, agrees on features and sets up queues    *)
(* through the registers in BAR 0, and how a kick, a write to the notify   *)
(* register, gets to the queue's handler: by an eventfd that KVM signals   *)
(* and the ioevent thread polls, or by an MMIO exit in the vCPU's thread.  *)
(* The handler itself is VirtioBlk's subject; the driver is Linux's.       *)
(*                                                                         *)
(* A definition X_Y next to definition X is X with a plausible slip in it: *)
(* no specification uses it; it shows that a property would notice.        *)
(***************************************************************************)
EXTENDS Integers, Sequences

CONSTANTS NumQueues, \* VIRTIO_BLK_VIRTQUEUE_NUM, 1 in the code
          MaxSize,   \* VIRTQUEUE_SIZE
          Bars,      \* addresses the guest may give BAR 0
          Faults,    \* "kvm": KVM_IOEVENTFD may fail; "init": ioeventfd_init may
          MaxLoads,  \* bound on how often the driver is loaded
          MaxStray   \* bound on the kicks while it is not up

ASSUME TransportAssumption ==
  /\ NumQueues \in Nat \ {0} /\ MaxSize \in Nat \ {0} /\ Bars # {} /\ Bars \subseteq Nat
  /\ Faults \subseteq {"kvm", "init"} /\ MaxLoads \in Nat \ {0} /\ MaxStray \in Nat

Queues == 0 .. NumQueues - 1

VARIABLES dev,      \* common_cfg: the registers as the guest sees them
          vq,       \* info and desc_ring of every queue
          features, \* guest_feature
          bar,      \* the address of BAR 0
          ioinit,   \* init_ioeventfd
          kvm,      \* what KVM signals an eventfd for: address and queue
          polled,   \* those of them in the epoll set
          efd,      \* those whose eventfd is not 0
          thread,   \* the ioevent thread: its place, and what epoll_wait returned
          vcpu,     \* the queue whose handler the vCPU's thread is in, or -1
          drv,      \* the driver: state, place in its program (part of it, queue and step),
                    \* times loaded, stray kicks
          owed,     \* queues kicked since their handler last started
          alive     \* the program has not been ended by a wild free

regs  == <<dev, vq, features>>
event == <<ioinit, kvm, polled>>
vars  == <<regs, bar, event, efd, thread, vcpu, drv, owed, alive>>

----------------------------------------------------------------------------
(* virtio_pci_set_cap: the capabilities, of types 1 to 5, follow each      *)
(* other from 0x40 on; behind the last one config space is 0.              *)
CapLen(type) == IF type \in {2, 5} THEN 20 ELSE 16

CapAt[type \in 1 .. 6] == IF type = 1 THEN \h40 ELSE CapAt[type - 1] + CapLen(type - 1)

CAP == [common |-> 1, notify |-> 2, isr |-> 3, device |-> 4]

NOTIFY_OFFSET == 60

(* Where in BAR 0 the registers of a capability are; the device's are as   *)
(* long as the system's struct virtio_blk_config.                          *)
CapArea(type) ==
  CASE type = CAP.common -> [offset |-> 0, length |-> 56]
    [] type = CAP.isr    -> [offset |-> 56, length |-> 4]
    [] type = CAP.notify -> [offset |-> NOTIFY_OFFSET, length |-> 4]
    [] type = CAP.device -> [offset |-> 64, length |-> 60]
    [] OTHER             -> [offset |-> 0, length |-> 0]

Capability(a) ==
  IF \E type \in 1 .. 5 : CapAt[type] = a
  THEN LET type == CHOOSE t \in 1 .. 5 : CapAt[t] = a
       IN  [type |-> type, next |-> CapAt[type + 1], area |-> CapArea(type)]
  ELSE [type |-> 0, next |-> 0, area |-> CapArea(0)]

(* The driver's walk from the capability pointer, at most 48 long, ends    *)
(* and meets the types it needs, each inside the BAR and apart.            *)
CapsUsable ==
  LET hop[k \in 0 .. 48] == IF k = 0 THEN \h40 ELSE Capability(hop[k - 1]).next
      end  == CHOOSE k \in 0 .. 48 : hop[k] = 0
      seen == {Capability(hop[k]) : k \in 0 .. end - 1}
      Of(t) == {c.area : c \in {c \in seen : c.type = t}}
  IN  /\ \E k \in 0 .. 7 : hop[k] = 0
      /\ \A t \in {CAP[n] : n \in DOMAIN CAP} :
           \E a \in Of(t) : a.offset + a.length <= \h100
      /\ \A s, t \in {CAP[n] : n \in DOMAIN CAP} : s # t =>
           \A a \in Of(s), b \in Of(t) :
             a.offset + a.length <= b.offset \/ b.offset + b.length <= a.offset

----------------------------------------------------------------------------
(* The registers.  device_feature: VERSION_1 and RING_PACKED, as bits.     *)
DeviceFeature == {32, 34}

(* virtio_pci_cmd_select_device_feature *)
SelectedFeature_Low(select) ==
  IF select \in {0, 1} THEN DeviceFeature \cap (0 .. 31) ELSE {}

SelectedFeature_Raw(select) == DeviceFeature

SelectedFeature(select) ==
  CASE select = 0 -> DeviceFeature \cap (0 .. 31)
    [] select = 1 -> {b - 32 : b \in DeviceFeature \ (0 .. 31)}
    [] OTHER -> {}

SelectDeviceFeature(select) ==
  /\ dev' = [dev EXCEPT !.dfselect = select, !.df = SelectedFeature(select)]
  /\ UNCHANGED <<vq, features, event, alive>>

(* virtio_pci_cmd_write_guest_feature: run when the selector is written,   *)
(* with the feature bits written before.                                   *)
WriteGuestFeature(select) ==
  /\ dev' = [dev EXCEPT !.gfselect = select]
  /\ features' = IF select \in {0, 1} THEN features \cup {b + 32 * select : b \in dev.gf}
                                      ELSE features
  /\ UNCHANGED <<vq, event, alive>>

(* virtio_pci_cmd_select_virtq: the registers show the queue's info. *)
SelectVirtq(q) ==
  /\ dev' = IF q \in Queues
            THEN [dev EXCEPT !.qselect = q, !.qsize = vq[q].qsize, !.qdesc = vq[q].qdesc,
                             !.qenable = vq[q].enable]
            ELSE [dev EXCEPT !.qselect = q, !.qsize = 0]
  /\ UNCHANGED <<vq, features, event, alive>>

(* The registers of the selected queue are copied to its info. *)
WriteInfo_First(reg, val) ==
  /\ dev' = [dev EXCEPT ![reg] = val]
  /\ vq' = [vq EXCEPT ![0][reg] = val]
  /\ UNCHANGED <<features, event, alive>>

WriteInfo(reg, val) ==
  /\ dev' = [dev EXCEPT ![reg] = val]
  /\ vq' = IF dev.qselect \in Queues THEN [vq EXCEPT ![dev.qselect][reg] = val] ELSE vq
  /\ UNCHANGED <<features, event, alive>>

(* virtio_pci_init_ioeventfd: the write that stands for a kick of q, with  *)
(* the address BAR 0 has now.                                              *)
KickOf(q) == [addr |-> bar + NOTIFY_OFFSET, vqn |-> q]

(* ioeventfd_add_event.  If KVM refuses, for a reason of its own or since  *)
(* it has this pair already, a pointer that was never set is freed.        *)
AddEvent(q) ==
  LET e == KickOf(q)
  IN  /\ UNCHANGED ioinit
      /\ \/ ~ ioinit /\ UNCHANGED <<kvm, polled, alive>>
         \/ /\ ioinit /\ e \notin kvm
            /\ kvm' = kvm \cup {e} /\ polled' = polled \cup {e} /\ UNCHANGED alive
         \/ /\ ioinit /\ (e \in kvm \/ "kvm" \in Faults)
            /\ alive' \in BOOLEAN /\ UNCHANGED <<kvm, polled>>

(* virtio_pci_cmd_enable_virtq and virtq_enable, for a queue there is: the *)
(* code does not compare queue_select with num_queues, and the driver      *)
(* enables no other.                                                       *)
EnableVirtq(val) ==
  LET q == dev.qselect
  IN  /\ dev' = [dev EXCEPT !.qenable = val] /\ UNCHANGED features
      /\ IF val = 0 THEN UNCHANGED <<vq, event, alive>>
         ELSE /\ q \in Queues /\ AddEvent(q)
              /\ vq' = IF vq[q].enable # 0 THEN vq
                       ELSE [vq EXCEPT ![q].enable = 1, ![q].ring = vq[q].qdesc]

(* virtio_pci_iospace_write, but for the notify register. *)
IospaceWrite(reg, val) ==
  \/ reg = "dfselect" /\ SelectDeviceFeature(val)
  \/ reg = "gfselect" /\ WriteGuestFeature(val)
  \/ reg = "qselect" /\ SelectVirtq(val)
  \/ reg = "qenable" /\ EnableVirtq(val)
  \/ reg \in {"qsize", "qdesc"} /\ WriteInfo(reg, val)
  \/ /\ reg \in {"gf", "status"} /\ dev' = [dev EXCEPT ![reg] = val]
     /\ UNCHANGED <<vq, features, event, alive>>

----------------------------------------------------------------------------
(* What Linux's driver writes, in order, when it is loaded for the gen-th  *)
(* time.  A step named check reads registers, and the driver gives up if   *)
(* it does not find what it needs.                                         *)
W(reg, val) == [op |-> "write", reg |-> reg, val |-> val]
Check(what) == [op |-> "check", reg |-> what, val |-> 0]
Ring(gen, q) == 10 * gen + q

Program(part, gen, q) ==
  CASE part = "probe" ->
         <<Check("caps"), W("status", 0), W("dfselect", 0), W("dfselect", 1), Check("features"),
           W("gfselect", 0), W("gf", {}), W("gfselect", 1), W("gf", {0, 2})>>
    [] part = "setup" ->
         <<W("qselect", q), Check("queue"), W("qsize", MaxSize), W("qdesc", Ring(gen, q))>>
    [] part = "enable" -> <<W("qselect", q), W("qenable", 1)>>
    [] part = "finish" -> <<W("status", 4)>>

(* The part after this one. *)
After(part) ==
  CASE part = "probe" -> "setup" [] part = "setup" -> "enable" [] OTHER -> "finish"

Accepted(what) ==
  CASE what = "caps"     -> CapsUsable
    [] what = "features" -> {0, 2} \subseteq dev.df
    [] what = "queue"    -> dev.qsize # 0 /\ dev.qenable = 0

(* virtio_pci_init, virtq_init and ioeventfd_init have run. *)
Init ==
  /\ dev = [status |-> 0, dfselect |-> 0, df |-> {}, gfselect |-> 0, gf |-> {},
            qselect |-> 0, qsize |-> 0, qdesc |-> 0, qenable |-> 0]
  /\ vq = [q \in Queues |-> [qsize |-> MaxSize, qdesc |-> 0, enable |-> 0, ring |-> 0]]
  /\ features = {} /\ bar \in Bars
  /\ ioinit \in (IF "init" \in Faults THEN BOOLEAN ELSE {TRUE})
  /\ kvm = {} /\ polled = {} /\ efd = {} /\ thread = [pc |-> "wait", batch |-> {}, q |-> -1]
  /\ vcpu = -1
  /\ drv = [state |-> "probing", part |-> "probe", q |-> 0, i |-> 1, gen |-> 1, strays |-> 0]
  /\ owed = {} /\ alive = TRUE

(* The guest runs: its vCPU is not in a handler. *)
GuestRuns == alive /\ vcpu = -1

(* Where the driver is after its step: all queues are set up, and then all *)
(* are enabled.                                                            *)
Following ==
  IF drv.i < Len(Program(drv.part, drv.gen, drv.q)) THEN [drv EXCEPT !.i = @ + 1]
  ELSE CASE drv.part \in {"setup", "enable"} /\ drv.q < NumQueues - 1 ->
              [drv EXCEPT !.q = @ + 1, !.i = 1]
         [] drv.part = "finish" -> [drv EXCEPT !.state = "up"]
         [] OTHER -> [drv EXCEPT !.part = After(drv.part), !.q = 0, !.i = 1]

DriverStep ==
  /\ GuestRuns /\ drv.state = "probing"
  /\ LET step == Program(drv.part, drv.gen, drv.q)[drv.i]
     IN  \/ /\ step.op = "write" /\ IospaceWrite(step.reg, step.val) /\ drv' = Following
         \/ /\ step.op = "check" /\ UNCHANGED <<regs, event, alive>>
            /\ drv' = IF Accepted(step.reg) THEN Following ELSE [drv EXCEPT !.state = "refused"]
  /\ UNCHANGED <<bar, efd, thread, vcpu, owed>>

(* The driver is unloaded, and loaded again. *)
Reload ==
  /\ GuestRuns /\ drv.state = "up" /\ drv.gen < MaxLoads
  /\ drv' = [drv EXCEPT !.state = "probing", !.part = "probe", !.q = 0, !.i = 1, !.gen = @ + 1]
  /\ UNCHANGED <<regs, bar, event, efd, thread, vcpu, owed, alive>>

(* No kick is on its way. *)
Quiet == owed = {} /\ efd = {} /\ thread.pc = "wait" /\ thread.batch = {}

(* The guest moves the BAR of an idle device, under a driver or not.       *)
MoveBar ==
  /\ GuestRuns /\ Quiet /\ drv.state \in {"up", "refused"} /\ bar' \in Bars \ {bar}
  /\ UNCHANGED <<regs, event, efd, thread, vcpu, drv, owed, alive>>

(* virtq_notify: the handler runs if the queue is enabled. *)
Notified_Always(q) == TRUE

Notified(q) == vq[q].enable # 0

(* Kicks a driver relies on, with one for q. *)
Owed(q) == IF drv.state = "up" THEN owed \cup {q} ELSE owed

(* The notify register in virtio_pci_iospace_write. *)
NotifyWrite_Ignored(q) == UNCHANGED vcpu /\ owed' = Owed(q)

NotifyWrite(q) ==
  \/ Notified(q) /\ vcpu' = q /\ owed' = owed \ {q}
  \/ ~ Notified(q) /\ UNCHANGED vcpu /\ owed' = Owed(q)

(* A write of q, the number of a queue there is, to the notify register,   *)
(* by a driver that is up or by any code of the guest before: the code     *)
(* compares no number with num_queues here either.  KVM signals            *)
(* the eventfd it has for the pair; else the write exits to the program.   *)
Kick(q) ==
  /\ GuestRuns
  /\ \/ drv.state = "up" /\ UNCHANGED drv
     \/ /\ drv.state = "probing" /\ drv.strays < MaxStray
        /\ drv' = [drv EXCEPT !.strays = @ + 1]
  /\ LET e == KickOf(q)
     IN  \/ e \in kvm /\ efd' = efd \cup {e} /\ owed' = Owed(q) /\ UNCHANGED vcpu
         \/ e \notin kvm /\ NotifyWrite(q) /\ UNCHANGED efd
  /\ UNCHANGED <<regs, bar, event, thread, alive>>

(* The handler returns to the vCPU's loop. *)
VcpuReturn ==
  /\ alive /\ vcpu # -1 /\ vcpu' = -1
  /\ UNCHANGED <<regs, bar, event, efd, thread, drv, owed, alive>>

(* ioeventfd_thread: wait, then for each event read its eventfd and call   *)
(* virtio_pci_ioevent_callback, which is in the handler until it is done.  *)
EpollWait ==
  /\ alive /\ thread.pc = "wait" /\ thread.batch = {} /\ efd \cap polled # {}
  /\ thread' = [thread EXCEPT !.batch = efd \cap polled]
  /\ UNCHANGED <<regs, bar, event, efd, vcpu, drv, owed, alive>>

Callback_First ==
  /\ alive /\ thread.pc = "wait"
  /\ \E e \in thread.batch :
       /\ efd' = efd \ {e}
       /\ thread' = [pc |-> IF Notified(0) THEN "handler" ELSE "wait",
                     batch |-> thread.batch \ {e}, q |-> 0]
       /\ owed' = IF Notified(0) THEN owed \ {0} ELSE owed
  /\ UNCHANGED <<regs, bar, event, vcpu, drv, alive>>

Callback ==
  /\ alive /\ thread.pc = "wait"
  /\ \E e \in thread.batch :
       /\ efd' = efd \ {e}
       /\ thread' = [pc |-> IF Notified(e.vqn) THEN "handler" ELSE "wait",
                     batch |-> thread.batch \ {e}, q |-> e.vqn]
       /\ owed' = IF Notified(e.vqn) THEN owed \ {e.vqn} ELSE owed
  /\ UNCHANGED <<regs, bar, event, vcpu, drv, alive>>

CallbackReturn ==
  /\ alive /\ thread.pc = "handler" /\ thread' = [thread EXCEPT !.pc = "wait"]
  /\ UNCHANGED <<regs, bar, event, efd, vcpu, drv, owed, alive>>

Thread == EpollWait \/ Callback \/ CallbackReturn

Next == DriverStep \/ Reload \/ MoveBar \/ (\E q \in Queues : Kick(q)) \/ VcpuReturn \/ Thread

Spec ==
  Init /\ [][Next]_vars /\ WF_vars(DriverStep) /\ WF_vars(VcpuReturn) /\ WF_vars(Thread)

----------------------------------------------------------------------------
(* The variables have the values the code gives them. *)
TypeOK ==
  /\ dev.qselect \in Queues /\ dev.qsize \in 0 .. MaxSize /\ dev.qenable \in {0, 1}
  /\ dev.df \subseteq 0 .. 31 /\ features \subseteq 0 .. 63
  /\ \A q \in Queues : vq[q].enable \in {0, 1} /\ vq[q].qsize \in 1 .. MaxSize
  /\ polled \subseteq kvm /\ efd \subseteq kvm /\ thread.batch \subseteq polled
  /\ thread.pc \in {"wait", "handler"} /\ vcpu \in Queues \cup {-1}
  /\ owed \subseteq Queues /\ drv.state \in {"probing", "up", "refused"}

(* Once the driver is up, every queue the device works on is the one the   *)
(* driver set up for it: though the registers are one window that          *)
(* queue_select moves (virtio_pci_cmd_select_virtq), no queue got          *)
(* another's address, or that of an earlier load.                          *)
RingProgrammed ==
  drv.state = "up" => \A q \in Queues : /\ vq[q].enable = 1 /\ vq[q].qsize = MaxSize
                                        /\ vq[q].ring = Ring(drv.gen, q)

(* In neither thread does the handler of a queue the device has run before *)
(* virtq_enable has set its desc_ring, although such a queue may be        *)
(* notified at any time, also before it is enabled (virtq_notify).         *)
HandlerHasRing ==
  /\ thread.pc = "handler" => vq[thread.q].ring # 0
  /\ vcpu # -1 => vq[vcpu].ring # 0

(* virtio_blk_handle_output takes no lock, and both threads may call it:   *)
(* they are never in the handler of one queue at the same time, whichever  *)
(* eventfds KVM refused (ioeventfd_add_event) and wherever the BAR has     *)
(* moved, while the device was idle, since the queue was enabled.          *)
OneHandler ==
  ~ (thread.pc = "handler" /\ vcpu = thread.q)

(* A kick is followed by a run of the queue's handler: by the ioevent      *)
(* thread, or, if KVM_IOEVENTFD failed, ioeventfd_init did, or the BAR has *)
(* moved since, by the vCPU's.                                             *)
KickServed ==
  \A q \in Queues : (q \in owed) ~> (q \notin owed \/ ~ alive)

(* A driver loaded for the first time finds the capabilities, the features *)
(* and the queues it needs (virtio_pci_set_cap, virtio_pci_init).          *)
ComesUpFirst ==
  (drv.state = "probing" /\ drv.gen = 1) ~> (drv.state = "up" \/ ~ alive)

(* So does one loaded again: it starts by writing 0 to the status, which   *)
(* resets a virtio device.                                                 *)
ComesUp ==
  (drv.state = "probing") ~> (drv.state = "up" \/ ~ alive)
=============================================================================
