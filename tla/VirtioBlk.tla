------------------------------ MODULE VirtioBlk ------------------------------
(***************************************************************************)
(* The virtio block device of microv (virtio-blk.c) on its packed          *)
(* virtqueue (virtqueue.c), the thread that runs it (ioeventfd.c) and the  *)
(* ISR register through which it interrupts the guest (virtio-pci.c).      *)
(*                                                                         *)
(* Two processes share the descriptor ring, the event suppression flag,    *)
(* the ISR register, an eventfd and an irqfd, with no lock:                *)
(*   - the device: ioeventfd_thread, which runs virtio_blk_handle_output   *)
(*     each time the eventfd of the queue is signalled;                    *)
(*   - the vCPU thread, which runs the guest: the packed-ring driver of    *)
(*     its kernel, and microv's handler when the guest reads the ISR.      *)
(* A step of either is one access (or a run of accesses the other process  *)
(* cannot tell apart) to what they share.                                  *)
(*                                                                         *)
(* The driver is not part of the repository.  It is modelled from what     *)
(* the device relies on: the packed ring protocol of linux/virtio_ring.h,  *)
(* with in-order use of the ring, and one chain per request.               *)
(*                                                                         *)
(* A definition X_Y next to definition X is X with a plausible slip in it: *)
(* no specification uses it; it shows that a property would notice.        *)
(***************************************************************************)
EXTENDS Integers, Sequences, FiniteSets

CONSTANTS Size,       \* descriptors in the ring (VIRTQUEUE_SIZE is 128)
          MaxReq,     \* bound: requests the driver makes in a behaviour
          Depth,      \* requests the driver keeps in flight at once
          Requests,   \* the requests it may make: records type, sector, val
          Sectors,    \* sectors below the size of the disk image
          Values,     \* contents of a sector
          Blank,      \* content nobody has written
          HostIO,     \* outcomes of a host read() or write(): "done", "error",
                      \* or "short" when it transfers less than it was asked to
          Ioeventfd   \* TRUE: KVM turns a kick into an eventfd signal;
                      \* FALSE: the kick is an MMIO exit handled by the vCPU thread

VARIABLES
  \* shared memory of the guest
  ring,       \* the descriptors: flags, length, and what addr points at
  cb,         \* guest_event->flags = VRING_PACKED_EVENT_FLAG_ENABLE
  hdr,        \* per request, the header the driver wrote
  buf,        \* per request, the data buffer
  stat,       \* per request, the status byte
  \* the device
  vq,         \* next_avail_idx and used_wrap_count
  dpc,        \* where the device thread is
  desc, used_desc, type, sector, status, r,   \* locals of handle_output
  disk,       \* the disk image
  kick,       \* the eventfd of the queue is signalled
  isr,        \* isr_cfg.isr_status
  irq,        \* the interrupt is pending at the guest
  \* the driver
  gpc,        \* where the guest is
  isrRead,    \* the value the ISR read returns
  drvAvail,   \* next position to make available
  drvUsed,    \* next position to look for a used descriptor
  num_free,   \* free descriptors
  nreq,       \* requests prepared so far; the last one has id nreq
  nreap       \* completions the driver has taken off the ring

ringVars == <<ring, cb, hdr, buf, stat>>
locals   == <<desc, used_desc, type, sector, status, r>>
devVars  == <<vq, dpc, locals, disk>>
sigVars  == <<kick, isr, irq>>
drvVars  == <<gpc, isrRead, drvAvail, drvUsed, num_free, nreq, nreap>>
vars     == <<ringVars, devVars, sigVars, drvVars>>

Ids   == 1 .. MaxReq
Slots == 0 .. Size - 1
Types == {"IN", "OUT", "FLUSH", "GET_ID"}

(* The chain the driver builds for a request: a header, the data where     *)
(* the type has any, the status byte.                                      *)
Parts(t) == IF t = "FLUSH" THEN <<"hdr", "status">> ELSE <<"hdr", "data", "status">>

PartLen(p) == CASE p = "hdr" -> 16 [] p = "data" -> 512 [] p = "status" -> 1

ASSUME ConstantsAssumption ==
  /\ Size \in Nat /\ Size >= 3
  /\ MaxReq \in Nat /\ Depth \in Nat
  /\ Blank \notin Values
  /\ Requests \subseteq [type : Types, sector : Int, val : Values]
  /\ Sectors \subseteq Int
  /\ HostIO \subseteq {"done", "short", "error"} /\ HostIO # {}
  /\ Ioeventfd \in BOOLEAN

(***************************************************************************)
(* Positions in the ring.  A position is a slot and the wrap counter of    *)
(* the lap.                                                                *)
(***************************************************************************)
Position == [idx : Slots, wrap : {0, 1}]

Advance_NoFlip(p, n) ==
  IF p.idx + n >= Size THEN [idx |-> p.idx + n - Size, wrap |-> p.wrap]
                       ELSE [idx |-> p.idx + n, wrap |-> p.wrap]

Advance_OffByOne(p, n) ==
  IF p.idx + n > Size THEN [idx |-> p.idx + n - Size, wrap |-> 1 - p.wrap]
                      ELSE [idx |-> p.idx + n, wrap |-> p.wrap]

(* n descriptors on: the index and wrap counter at the end of              *)
(* virtq_get_avail.                                                        *)
Advance(p, n) ==
  IF p.idx + n >= Size THEN [idx |-> p.idx + n - Size, wrap |-> 1 - p.wrap]
                       ELSE [idx |-> p.idx + n, wrap |-> p.wrap]

(* How many slots slot i is ahead of position p, and the wrap counter with *)
(* which a process at p will get there.                                    *)
Ahead(p, i) == IF i >= p.idx THEN i - p.idx ELSE i - p.idx + Size

LapOf(p, i) == IF i >= p.idx THEN p.wrap ELSE 1 - p.wrap

(* Steps from position u to a position p at most one lap ahead of it. *)
Dist(u, p) == IF p.wrap = u.wrap THEN p.idx - u.idx ELSE p.idx - u.idx + Size

(* virtq_get_avail returns a descriptor, not NULL. *)
IsAvail(p) == ring[p.idx].avail = p.wrap /\ ring[p.idx].used # p.wrap

(* The driver finds the descriptor at p used. *)
IsUsed(p) == ring[p.idx].avail = p.wrap /\ ring[p.idx].used = p.wrap

----------------------------------------------------------------------------
(* The driver, running in the vCPU thread.                                 *)

(* The vCPU thread runs the guest unless it is inside an MMIO exit. *)
GuestRuns == Ioeventfd \/ dpc = "idle"

(* The driver writes a request and its chain, the flags of the head last:  *)
(* here everything but those flags.                                        *)
Prepare(q) ==
  /\ gpc = "run" /\ GuestRuns
  /\ nreq < MaxReq /\ nreq - nreap < Depth /\ num_free >= Len(Parts(q.type))
  /\ LET id    == nreq + 1
         parts == Parts(q.type)
         n     == Len(parts)
     IN  /\ ring' = [i \in Slots |->
              LET k == Ahead(drvAvail, i) + 1
                  w == LapOf(drvAvail, i)
              IN  IF k > n THEN ring[i]
                  ELSE [avail |-> IF k = 1 THEN ring[i].avail ELSE w,
                        used  |-> IF k = 1 THEN ring[i].used ELSE 1 - w,
                        next  |-> k < n, len |-> PartLen(parts[k]),
                        part  |-> parts[k], id |-> id]]
         /\ hdr' = [hdr EXCEPT ![id] = q]
         /\ buf' = [buf EXCEPT ![id] = IF q.type = "IN" THEN Blank ELSE q.val]
         /\ nreq' = id
         /\ num_free' = num_free - n
  /\ gpc' = "publish"
  /\ UNCHANGED <<cb, stat, devVars, sigVars, isrRead, drvAvail, drvUsed, nreap>>

(* The head's flags make the chain available. *)
Publish ==
  /\ gpc = "publish" /\ GuestRuns
  /\ ring' = [ring EXCEPT ![drvAvail.idx].avail = drvAvail.wrap,
                          ![drvAvail.idx].used = 1 - drvAvail.wrap]
  /\ drvAvail' = Advance(drvAvail, Len(Parts(hdr[nreq].type)))
  /\ gpc' = "kick"
  /\ UNCHANGED <<cb, hdr, buf, stat, devVars, sigVars,
                 isrRead, drvUsed, num_free, nreq, nreap>>

(* A write to the notify register.  With ioeventfd KVM adds one to the     *)
(* eventfd; without, the exit runs handle_output in the vCPU thread.       *)
Kick ==
  /\ gpc = "kick" /\ GuestRuns
  /\ IF Ioeventfd THEN kick' = TRUE /\ UNCHANGED dpc
                  ELSE dpc' = "get" /\ UNCHANGED kick
  /\ gpc' = "run"
  /\ UNCHANGED <<ringVars, vq, locals, disk, isr, irq,
                 isrRead, drvAvail, drvUsed, num_free, nreq, nreap>>

(* The guest takes the interrupt and reads the ISR: the exit handler       *)
(* copies isr_status out ...                                               *)
IsrCopy ==
  /\ gpc = "run" /\ GuestRuns /\ irq
  /\ irq' = FALSE
  /\ isrRead' = isr
  /\ gpc' = "isr"
  /\ UNCHANGED <<ringVars, devVars, kick, isr,
                 drvAvail, drvUsed, num_free, nreq, nreap>>

(* ... and then stores 0 in it.  A handler that read 0 concludes that the  *)
(* interrupt is not its own.                                               *)
IsrClear ==
  /\ gpc = "isr"
  /\ isr' = 0
  /\ gpc' = IF isrRead = 0 THEN "run" ELSE "more"
  /\ UNCHANGED <<ringVars, devVars, kick, irq,
                 isrRead, drvAvail, drvUsed, num_free, nreq, nreap>>

(* Nothing used: the handler returns. *)
NoMore ==
  /\ gpc = "more" /\ ~IsUsed(drvUsed)
  /\ gpc' = "run"
  /\ UNCHANGED <<ringVars, devVars, sigVars,
                 isrRead, drvAvail, drvUsed, num_free, nreq, nreap>>

(* Something used: the callback turns events off and reaps. *)
DisableCb ==
  /\ gpc = "more" /\ IsUsed(drvUsed)
  /\ cb' = FALSE
  /\ gpc' = "reap"
  /\ UNCHANGED <<ring, hdr, buf, stat, devVars, sigVars,
                 isrRead, drvAvail, drvUsed, num_free, nreq, nreap>>

Reap ==
  /\ gpc = "reap" /\ IsUsed(drvUsed)
  /\ LET n == Len(Parts(hdr[ring[drvUsed.idx].id].type))
     IN  drvUsed' = Advance(drvUsed, n) /\ num_free' = num_free + n
  /\ nreap' = nreap + 1
  /\ UNCHANGED <<ringVars, devVars, sigVars, gpc, isrRead, drvAvail, nreq>>

(* No more: events go back on, and the driver looks once more. *)
EnableCb ==
  /\ gpc = "reap" /\ ~IsUsed(drvUsed)
  /\ cb' = TRUE
  /\ gpc' = "recheck"
  /\ UNCHANGED <<ring, hdr, buf, stat, devVars, sigVars,
                 isrRead, drvAvail, drvUsed, num_free, nreq, nreap>>

Recheck ==
  /\ gpc = "recheck"
  /\ gpc' = IF IsUsed(drvUsed) THEN "more" ELSE "run"
  /\ UNCHANGED <<ringVars, devVars, sigVars,
                 isrRead, drvAvail, drvUsed, num_free, nreq, nreap>>

----------------------------------------------------------------------------
(* The device.                                                             *)

NextAvail_NoFlip ==
  [idx |-> IF vq.idx + 1 >= Size THEN 0 ELSE vq.idx + 1, wrap |-> vq.wrap]

(* What virtq_get_avail leaves in vq when it returns a descriptor. *)
NextAvail == Advance(vq, 1)

(* ioeventfd_thread: epoll_wait returns, the eventfd is read (which resets *)
(* it, however many kicks it holds) and the callback enters handle_output. *)
Wake ==
  /\ dpc = "idle" /\ kick
  /\ kick' = FALSE
  /\ dpc' = "get"
  /\ UNCHANGED <<ringVars, vq, locals, disk, isr, irq, drvVars>>

(* The head of the loop, when virtq_get_avail finds a descriptor: it is    *)
(* taken to be a header, and desc->len bytes of it are copied into the     *)
(* local req.hdr.  When what it points at is not a header, the type that   *)
(* results is anything.                                                    *)
GetHead ==
  /\ dpc = "get" /\ IsAvail(vq)
  /\ LET d == ring[vq.idx]
     IN  /\ type' \in IF d.part = "hdr" THEN {hdr[d.id].type} ELSE Types
         /\ sector' = IF d.part = "hdr" THEN hdr[d.id].sector ELSE sector
  /\ desc' = vq.idx /\ used_desc' = vq.idx
  /\ vq' = NextAvail
  /\ r' = 0
  /\ IF type' \in {"IN", "OUT"} THEN dpc' = "data" /\ UNCHANGED status
                                ELSE dpc' = "status" /\ status' = "UNSUPP"
  /\ UNCHANGED <<ringVars, disk, sigVars, drvVars>>

(* virtq_check_next fails: handle_output returns, and signals nothing. *)
NoNext ==
  /\ dpc \in {"data", "status"} /\ ~ring[desc].next
  /\ dpc' = "idle"
  /\ UNCHANGED <<ringVars, vq, locals, disk, sigVars, drvVars>>

(* diskimg_read and diskimg_write: the bytes transferred (0 stands for any *)
(* number short of n), or -1, as they return beyond the end of the image.  *)
Fails(s, io) == s \notin Sectors \/ io = "error"

Transferred(s, n, io) == IF Fails(s, io) THEN -1 ELSE IF io = "short" THEN 0 ELSE n

Transfer_NoCheck ==
  /\ dpc = "data"
  /\ dpc' = IF IsAvail(vq) THEN "status" ELSE "crash"
  /\ desc' = vq.idx /\ vq' = NextAvail /\ r' = 0 /\ status' = "OK"
  /\ UNCHANGED <<ringVars, used_desc, type, sector, disk, sigVars, drvVars>>

Transfer_AlwaysOk ==
  /\ dpc = "data" /\ ring[desc].next
  /\ \E io \in HostIO :
       LET d   == ring[vq.idx]
           all == sector \in Sectors /\ io = "done"
       IN  /\ r' = Transferred(sector, d.len, io)
           /\ buf' = IF type = "IN" /\ all THEN [buf EXCEPT ![d.id] = disk[sector]] ELSE buf
           /\ disk' = IF type = "OUT" /\ all THEN [disk EXCEPT ![sector] = buf[d.id]] ELSE disk
  /\ status' = "OK" /\ dpc' = "status" /\ desc' = vq.idx /\ vq' = NextAvail
  /\ UNCHANGED <<ring, cb, hdr, stat, used_desc, type, sector, sigVars, drvVars>>

(* The data descriptor, and the transfer.  A NULL from virtq_get_avail is  *)
(* dereferenced: the process dies ("crash"), whatever the rest holds.      *)
Transfer ==
  /\ dpc = "data" /\ ring[desc].next
  /\ \E io \in HostIO :
       LET d   == ring[vq.idx]
           all == sector \in Sectors /\ io = "done"
       IN  /\ r' = Transferred(sector, d.len, io)
           /\ buf' = IF type = "IN" /\ all THEN [buf EXCEPT ![d.id] = disk[sector]] ELSE buf
           /\ disk' = IF type = "OUT" /\ all THEN [disk EXCEPT ![sector] = buf[d.id]] ELSE disk
           /\ status' = IF Fails(sector, io) THEN "IOERR" ELSE "OK"
  /\ dpc' = IF IsAvail(vq) THEN "status" ELSE "crash"
  /\ desc' = vq.idx
  /\ vq' = NextAvail
  /\ UNCHANGED <<ring, cb, hdr, stat, used_desc, type, sector, sigVars, drvVars>>

PutStatus_OnlyIo ==
  /\ dpc = "status" /\ ring[desc].next
  /\ stat' = IF type \in {"IN", "OUT"} THEN [stat EXCEPT ![ring[vq.idx].id] = status] ELSE stat
  /\ dpc' = IF IsAvail(vq) THEN "used" ELSE "crash"
  /\ desc' = vq.idx /\ vq' = NextAvail
  /\ UNCHANGED <<ring, cb, hdr, buf, used_desc, type, sector, status, r, disk, sigVars, drvVars>>

(* The next descriptor is taken to be the status, and the byte is written  *)
(* to whatever it points at.                                               *)
PutStatus ==
  /\ dpc = "status" /\ ring[desc].next
  /\ LET d == ring[vq.idx]
     IN  /\ stat' = IF d.part = "status" THEN [stat EXCEPT ![d.id] = status] ELSE stat
         /\ buf' = IF d.part = "data" THEN [buf EXCEPT ![d.id] = status] ELSE buf
  /\ dpc' = IF IsAvail(vq) THEN "used" ELSE "crash"
  /\ desc' = vq.idx
  /\ vq' = NextAvail
  /\ UNCHANGED <<ring, cb, hdr, used_desc, type, sector, status, r,
                 disk, sigVars, drvVars>>

MarkUsed_Last ==
  /\ dpc = "used"
  /\ ring' = [ring EXCEPT ![desc].used = 1 - @]
  /\ dpc' = "len"
  /\ UNCHANGED <<cb, hdr, buf, stat, vq, locals, disk, sigVars, drvVars>>

(* The head becomes used ... *)
MarkUsed ==
  /\ dpc = "used"
  /\ ring' = [ring EXCEPT ![used_desc].used = 1 - @]
  /\ dpc' = "len"
  /\ UNCHANGED <<cb, hdr, buf, stat, vq, locals, disk, sigVars, drvVars>>

PutLen_NoLoop ==
  /\ dpc = "len"
  /\ ring' = [ring EXCEPT ![used_desc].len = r]
  /\ dpc' = "event"
  /\ UNCHANGED <<cb, hdr, buf, stat, vq, locals, disk, sigVars, drvVars>>

PutLen_NextSlot ==
  /\ dpc = "len"
  /\ ring' = [ring EXCEPT ![vq.idx].len = r]
  /\ dpc' = "get"
  /\ UNCHANGED <<cb, hdr, buf, stat, vq, locals, disk, sigVars, drvVars>>

(* ... and only then gets its length. *)
PutLen ==
  /\ dpc = "len"
  /\ ring' = [ring EXCEPT ![used_desc].len = r]
  /\ dpc' = "get"
  /\ UNCHANGED <<cb, hdr, buf, stat, vq, locals, disk, sigVars, drvVars>>

(* The head of the loop, when nothing is available. *)
Drained ==
  /\ dpc = "get" /\ ~IsAvail(vq)
  /\ dpc' = "event"
  /\ UNCHANGED <<ringVars, vq, locals, disk, sigVars, drvVars>>

CheckEvent_NoIsr ==
  /\ dpc = "event"
  /\ dpc' = IF cb THEN "irqfd" ELSE "idle"
  /\ UNCHANGED <<ringVars, vq, locals, disk, sigVars, drvVars>>

CheckEvent_Inverted ==
  /\ dpc = "event"
  /\ dpc' = IF cb THEN "idle" ELSE "isr"
  /\ UNCHANGED <<ringVars, vq, locals, disk, sigVars, drvVars>>

(* Does the driver want an interrupt? *)
CheckEvent ==
  /\ dpc = "event"
  /\ dpc' = IF cb THEN "isr" ELSE "idle"
  /\ UNCHANGED <<ringVars, vq, locals, disk, sigVars, drvVars>>

SetIsr ==
  /\ dpc = "isr"
  /\ isr' = 1
  /\ dpc' = "irqfd"
  /\ UNCHANGED <<ringVars, vq, locals, disk, kick, irq, drvVars>>

(* The write to the irqfd raises the interrupt. *)
WriteIrqfd ==
  /\ dpc = "irqfd"
  /\ irq' = TRUE
  /\ dpc' = "idle"
  /\ UNCHANGED <<ringVars, vq, locals, disk, kick, isr, drvVars>>

----------------------------------------------------------------------------
(* virtq_init, a ring the driver has zeroed, and an idle device.           *)
Init ==
  /\ ring = [i \in Slots |-> [avail |-> 0, used |-> 0, next |-> FALSE,
                              len |-> 0, part |-> "none", id |-> 0]]
  /\ cb = TRUE
  /\ hdr = [i \in Ids |-> [type |-> "none", sector |-> 0, val |-> Blank]]
  /\ buf = [i \in Ids |-> Blank]
  /\ stat = [i \in Ids |-> "none"]
  /\ vq = [idx |-> 0, wrap |-> 1]
  /\ dpc = "idle" /\ desc = 0 /\ used_desc = 0
  /\ type = "none" /\ sector = 0 /\ status = "none" /\ r = 0
  /\ disk = [s \in Sectors |-> Blank]
  /\ kick = FALSE /\ isr = 0 /\ irq = FALSE
  /\ gpc = "run" /\ isrRead = 0
  /\ drvAvail = [idx |-> 0, wrap |-> 1] /\ drvUsed = [idx |-> 0, wrap |-> 1]
  /\ num_free = Size /\ nreq = 0 /\ nreap = 0

(* What the guest has begun it goes on with; a new request it need not make. *)
GuestStep ==
  Publish \/ Kick \/ IsrCopy \/ IsrClear \/ NoMore \/ DisableCb \/ Reap \/ EnableCb \/ Recheck

DeviceStep ==
  \/ Wake \/ GetHead \/ NoNext \/ Transfer \/ PutStatus \/ MarkUsed \/ PutLen
  \/ Drained \/ CheckEvent \/ SetIsr \/ WriteIrqfd

Next == (\E q \in Requests : Prepare(q)) \/ GuestStep \/ DeviceStep

Spec == Init /\ [][Next]_vars

(* Both threads are runnable whenever they have work, and the host         *)
(* schedules them: neither is delayed for ever.                            *)
FairSpec == Spec /\ WF_vars(GuestStep) /\ WF_vars(DeviceStep)

----------------------------------------------------------------------------
(* Properties.                                                             *)

Desc == [avail : {0, 1}, used : {0, 1}, next : BOOLEAN, len : Int,
         part : {"none", "hdr", "data", "status"}, id : 0 .. MaxReq]

Statuses == {"none", "OK", "IOERR", "UNSUPP"}

(* The type of every variable: the ring, guest memory, the locals of       *)
(* virtio_blk_handle_output, the registers and the driver's positions.     *)
TypeOK ==
  /\ ring \in [Slots -> Desc] /\ cb \in BOOLEAN
  /\ hdr \in [Ids -> [type : Types \cup {"none"}, sector : Int, val : Values \cup {Blank}]]
  /\ buf \in [Ids -> Values \cup {Blank} \cup Statuses] /\ stat \in [Ids -> Statuses]
  /\ vq \in Position
  /\ dpc \in {"idle", "get", "data", "status", "used", "len",
              "event", "isr", "irqfd", "crash"}
  /\ desc \in Slots /\ used_desc \in Slots
  /\ type \in Types \cup {"none"} /\ sector \in Int /\ status \in Statuses /\ r \in Int
  /\ disk \in [Sectors -> Values \cup {Blank} \cup Statuses]
  /\ kick \in BOOLEAN /\ isr \in {0, 1} /\ irq \in BOOLEAN
  /\ gpc \in {"run", "publish", "kick", "isr", "more", "reap", "recheck"}
  /\ isrRead \in {0, 1}
  /\ drvAvail \in Position /\ drvUsed \in Position
  /\ num_free \in Int /\ nreq \in 0 .. MaxReq /\ nreap \in Nat

(* virtq_get_avail never returns NULL in the middle of a chain, where      *)
(* virtio_blk_handle_output dereferences it unchecked (lines 92, 106):     *)
(* a chain whose head is available is available to its end, also when it   *)
(* runs over the end of the ring.                                          *)
NoNullDescriptor == dpc # "crash"

(* What the driver finds used is its oldest request in flight: the device  *)
(* completes requests in order, each once, and no slot looks used that the *)
(* device has not marked in this lap.                                      *)
UsedInOrder == IsUsed(drvUsed) => ring[drvUsed.idx].id = nreap + 1

(* A request is marked used only after its status byte was written.        *)
StatusBeforeUsed == IsUsed(drvUsed) => stat[ring[drvUsed.idx].id] # "none"

(* A descriptor the device has yet to read still has the length the driver *)
(* gave it: the store of the length at line 110, after the head was handed *)
(* back at line 109, never hits a descriptor the driver has reused.        *)
AvailLenIntact ==
  \A i \in Slots :
    IsAvail([idx |-> i, wrap |-> LapOf(vq, i)]) => ring[i].len = PartLen(ring[i].part)

(* No lost kick: when the device waits and no kick is on its way, it has   *)
(* consumed every chain, although several kicks make one eventfd read and  *)
(* a chain may be published while handle_output is leaving its loop.       *)
NoLostKick ==
  dpc = "idle" /\ ~kick /\ gpc \notin {"publish", "kick"} => vq = drvAvail

(***************************************************************************)
(* The shape of the ring, seen from the oldest descriptor in flight, at    *)
(* drvUsed.  Going once round the ring from there, one finds               *)
(*   - InUse descriptors of chains, one chain after the other, in order of *)
(*     their requests; the first Done of them the device has taken, the    *)
(*     first Published of them are available;                              *)
(*   - and then free descriptors, which carry the flags of the last lap.   *)
(***************************************************************************)
Off(i) == Ahead(drvUsed, i)
Lap(i) == LapOf(drvUsed, i)

InUse     == Size - num_free
Published == Dist(drvUsed, drvAvail)
Done      == Dist(drvUsed, vq)
ChainLen(i) == Len(Parts(hdr[ring[i].id].type))

(* The three positions, the driver's counters and the distances agree. *)
Positions ==
  /\ num_free \in 0 .. Size
  /\ 0 <= Done /\ Done <= Published
  /\ Published = IF gpc = "publish" THEN InUse - Len(Parts(hdr[nreq].type)) ELSE InUse
  /\ gpc = "publish" => nreq > nreap
  /\ nreap <= nreq

(* The descriptors in use are the chains of requests nreap + 1 .. nreq. *)
Chains ==
  /\ InUse = 0 => nreq = nreap
  /\ \A k \in nreap + 1 .. nreq : hdr[k].type \in {"IN", "OUT", "FLUSH"}
  /\ \A i \in Slots : Off(i) < InUse =>
       /\ ring[i].id \in nreap + 1 .. nreq
       /\ ring[i].part # "none"
       /\ ring[i].next <=> ring[i].part # "status"
       /\ Off(i) = 0 => ring[i].part = "hdr" /\ ring[i].id = nreap + 1
       /\ Off(i) = Published => ring[i].part = "hdr"
       /\ Off(i) = InUse - 1 => ring[i].part = "status" /\ ring[i].id = nreq
  /\ \A i, j \in Slots : Off(j) < InUse /\ Off(j) = Off(i) + 1 =>
       /\ ring[i].part = "hdr" =>
            /\ ring[j].id = ring[i].id
            /\ ring[j].part = IF hdr[ring[i].id].type = "FLUSH" THEN "status" ELSE "data"
       /\ ring[i].part = "data" => ring[j].id = ring[i].id /\ ring[j].part = "status"
       /\ ring[i].part = "status" => ring[j].id = ring[i].id + 1 /\ ring[j].part = "hdr"
  /\ \A i, j \in Slots : Off(j) < InUse /\ Off(i) < Off(j) /\ ring[i].part = "status" =>
       ring[i].id < ring[j].id

(* The head of a chain that is written but not yet published. *)
Hidden(i) == gpc = "publish" /\ Off(i) = Published

(* The flags.  Only whole chains the device is done with are marked used.  *)
Flags ==
  \A i \in Slots :
    /\ Off(i) < InUse /\ ~Hidden(i) => ring[i].avail = Lap(i)
    /\ Off(i) >= InUse \/ Hidden(i) => ring[i].avail # Lap(i)
    /\ Done <= Off(i) /\ Off(i) < InUse /\ ~Hidden(i) => ring[i].used # Lap(i)
    /\ Off(i) < Published /\ ring[i].used = Lap(i) =>
         /\ ring[i].part = "hdr" /\ Off(i) + ChainLen(i) <= Done
         /\ stat[ring[i].id] # "none"

(* Where the device is in the chain it works on. *)
Cursor ==
  /\ dpc \notin {"data", "status", "used", "crash"} =>
       \A i \in Slots : Off(i) = Done /\ Done < Published => ring[i].part = "hdr"
  /\ dpc \in {"data", "status", "used"} =>
       LET h == ring[used_desc]
       IN  /\ Off(used_desc) < Published /\ h.part = "hdr" /\ h.used # Lap(used_desc)
           /\ type = hdr[h.id].type
           /\ dpc = "data" =>
                desc = used_desc /\ Done = Off(used_desc) + 1 /\ type \in {"IN", "OUT"}
           /\ dpc = "status" =>
                /\ Off(desc) + 1 = Done /\ Off(used_desc) + ChainLen(used_desc) = Done + 1
                /\ status # "none"
           /\ dpc = "used" =>
                /\ Off(used_desc) + ChainLen(used_desc) = Done /\ stat[h.id] # "none"

(* A chain the device has not seen when it leaves its loop has a kick on   *)
(* its way.                                                                *)
Kicked ==
  dpc \in {"idle", "event", "isr", "irqfd"} /\ Done < Published => kick \/ gpc = "kick"

(* The inductive invariant behind NoNullDescriptor, UsedInOrder,           *)
(* StatusBeforeUsed and NoLostKick: the laps, chains and flags of the ring *)
(* are as virtq_get_avail and virtio_blk_handle_output rely on them.       *)
RingInv == Positions /\ Chains /\ Flags /\ Cursor /\ Kicked /\ dpc # "crash"

(* The ring has room for one chain more than the driver keeps in flight. *)
Slack == Size >= 3 * (Depth + 1)

(* The inductive invariant behind AvailLenIntact: what the device has not  *)
(* taken has its length; between the two stores of lines 109 and 110 the   *)
(* head is a chain's length behind the device; a request in flight and     *)
(* those after it have at most three descriptors each.                     *)
LenInv ==
  /\ \A i \in Slots : Done <= Off(i) /\ Off(i) < InUse => ring[i].len = PartLen(ring[i].part)
  /\ dpc = "len" => \E n \in {2, 3} : vq.idx - used_desc \in {n, n - Size}
  /\ \A i \in Slots : Off(i) < InUse /\ ring[i].part = "hdr" =>
       InUse - Off(i) <= 3 * (nreq - ring[i].id + 1)
  /\ nreq - nreap <= Depth

(* Every request has the chain virtio_blk_handle_output expects for its    *)
(* type: data for reads and writes, none for the others.                   *)
ExpectedChains == \A q \in Requests : q.type \in {"IN", "OUT", "FLUSH"}

(* Every request is in the end reaped by the driver: no interrupt is lost  *)
(* between the device's event check and ISR store and the guest's ISR read *)
(* and its enabling of events.                                             *)
Delivered == \A i \in Ids : nreq >= i ~> nreap >= i

----------------------------------------------------------------------------
(* The device implements BlkDevice.  A request is accepted when its head   *)
(* is published.  It is answered when handle_output has fixed its status,  *)
(* which it writes to the guest a step later.                              *)

Served(i) == stat[i] # "none" \/ (dpc = "status" /\ ring[used_desc].id = i)

acceptedBar ==
  [i \in 1 .. (IF gpc = "publish" THEN nreq - 1 ELSE nreq) |-> hdr[i]]

answersBar ==
  [i \in 1 .. Cardinality({i \in Ids : Served(i)}) |->
     [status |-> IF stat[i] # "none" THEN stat[i] ELSE status, data |-> buf[i]]]

Abs == INSTANCE BlkDevice WITH accepted <- acceptedBar, answers <- answersBar

(* The first m requests are answered, and the device works on the next     *)
(* one; the buffers of those it has not transferred are as they were made. *)
Answered(m) ==
  /\ m \in 0 .. nreq
  /\ \A i \in Ids : stat[i] # "none" <=> i <= m
  /\ dpc \in {"data", "status"} => ring[used_desc].id = m + 1
  /\ dpc \notin {"data", "status"} =>
       /\ Done = InUse => m = nreq
       /\ \A i \in Slots : Off(i) = Done /\ Done < InUse => ring[i].id = m + 1
  /\ \A i \in m + 1 .. nreq : i # m + 1 \/ dpc # "status" =>
       buf[i] = IF hdr[i].type = "IN" THEN Blank ELSE hdr[i].val
  /\ dpc = "data" => sector = hdr[m + 1].sector

ServeInv == (\E m \in 0 .. MaxReq : Answered(m)) /\ \A i \in 1 .. nreq : hdr[i] \in Requests

(* Requests are served exactly once, in the order they were published,     *)
(* each on the disk the earlier ones left, with the status and the data    *)
(* BlkDevice prescribes: each step of virtio_blk_handle_output and of the  *)
(* driver is a step of BlkDevice or none.                                  *)
ServesAsBlkDevice == Abs!AbsSafety

(* And none is left unserved. *)
ImplementsBlkDevice == Abs!AbsSpec
==============================================================================
