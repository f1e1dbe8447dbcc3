--------------------------- MODULE VirtioBlkProofs ---------------------------
(***************************************************************************)
(* Proofs about VirtioBlk, for every size of the ring, every number of     *)
(* requests, every depth and both ways of kicking the device.              *)
(***************************************************************************)
EXTENDS VirtioBlkGuestProofs, VirtioBlkDelivery

----------------------------------------------------------------------------
(* Types.                                                                  *)

LEMMA InitInv == Init => TypeOK /\ RingInv
  <1> SUFFICES ASSUME Init PROVE TypeOK /\ RingInv
    OBVIOUS
  <1>1. TypeOK
    <2>1. /\ 0 \in Slots /\ [idx |-> 0, wrap |-> 1] \in Position
          /\ [avail |-> 0, used |-> 0, next |-> FALSE, len |-> 0, part |-> "none", id |-> 0] \in Desc
      BY ConstantsAssumption DEF Position, Slots, Desc
    <2>2. /\ ring \in [Slots -> Desc] /\ stat \in [Ids -> Statuses]
          /\ buf \in [Ids -> Values \cup {Blank} \cup Statuses]
          /\ hdr \in [Ids -> [type : Types \cup {"none"}, sector : Int, val : Values \cup {Blank}]]
          /\ disk \in [Sectors -> Values \cup {Blank} \cup Statuses]
      BY <2>1 DEF Init, Statuses
    <2>3. num_free \in Int /\ nreq \in 0 .. MaxReq
      BY ConstantsAssumption DEF Init
    <2>4. vq \in Position /\ drvAvail \in Position /\ drvUsed \in Position
      BY <2>1, Zenon DEF Init
    <2>5. desc \in Slots /\ used_desc \in Slots /\ sector \in Int /\ r \in Int /\ nreap \in Nat
      BY <2>1 DEF Init
    <2>6. /\ cb \in BOOLEAN /\ dpc = "idle" /\ type = "none" /\ status = "none" /\ gpc = "run"
          /\ kick \in BOOLEAN /\ isr \in {0, 1} /\ irq \in BOOLEAN /\ isrRead \in {0, 1}
      BY Zenon DEF Init
    <2> QED BY <2>2, <2>3, <2>4, <2>5, <2>6, Zenon DEF TypeOK, Statuses
  <1>2. InUse = 0 /\ Published = 0 /\ Done = 0
    BY ConstantsAssumption DEF Init, InUse, Published, Done, Dist
  <1>3. \A i \in Slots : Off(i) \in Nat /\ Lap(i) = 1
    BY ConstantsAssumption DEF Init, Off, Lap, Ahead, LapOf, Slots
  <1>4. Positions /\ Chains /\ Cursor /\ Kicked /\ dpc # "crash"
    BY <1>2, <1>3, ConstantsAssumption DEF Init, Positions, Chains, Cursor, Kicked, Ids
  <1>5. Flags
    BY <1>2, <1>3 DEF Init, Flags, Hidden
  <1> QED BY <1>1, <1>4, <1>5, Zenon DEF RingInv

LEMMA DeviceStepType ==
  ASSUME TypeOK, RingInv, DeviceStep
  PROVE  TypeOK'
  <1>1. vq \in Position /\ Advance(vq, 1) \in Position /\ vq.idx \in Slots
    BY AdvanceType, NextSlot, ConstantsAssumption DEF TypeOK
  <1>2. CASE Wake \/ Drained \/ CheckEvent \/ SetIsr \/ WriteIrqfd \/ NoNext
    <2>1. UNCHANGED <<ringVars, vq, locals, disk, drvVars>>
      BY <1>2, Zenon DEF Wake, Drained, CheckEvent, SetIsr, WriteIrqfd, NoNext
    <2>2. /\ dpc' \in {"idle", "get", "event", "isr", "irqfd"}
          /\ kick' \in BOOLEAN /\ isr' \in {0, 1} /\ irq' \in BOOLEAN
      BY <1>2, Zenon DEF TypeOK, Wake, Drained, CheckEvent, SetIsr, WriteIrqfd, NoNext, sigVars
    <2> QED BY <2>1, <2>2, Zenon DEF TypeOK, ringVars, locals, drvVars
  <1>3. CASE GetHead
    <2>1. type' \in Types \cup {"none"} /\ sector' \in Int
      <3>1. Done < Published
        BY <1>3, AvailIff, Zenon DEF GetHead
      <3>2. Off(vq.idx) = Done
        BY <3>1, NextSlot, Ranges
      <3>3. Off(vq.idx) < InUse
        BY <3>1, <3>2, Ranges
      <3>4. ring[vq.idx].part = "hdr"
        BY <1>1, <1>3, <3>1, <3>2, Zenon DEF GetHead, RingInv, Cursor
      <3>5. ring[vq.idx].id \in Ids
        BY <1>1, <3>3, <3>4, ChainShape, Zenon
      <3> QED BY <1>3, <3>4, <3>5, Zenon DEF GetHead, TypeOK
    <2> QED BY <1>1, <1>3, <2>1 DEF TypeOK, GetHead, NextAvail, ringVars, sigVars, drvVars, Statuses
  <1>4. CASE Transfer
    <2>1. ring[vq.idx].id \in Ids /\ ring[vq.idx].len \in Int
      BY <1>1, <1>4, TransferStep, Zenon DEF TypeOK, Desc
    <2>2. buf[ring[vq.idx].id] \in Values \cup {Blank} \cup Statuses
      BY <2>1, Zenon DEF TypeOK
    <2>3. buf' \in [Ids -> Values \cup {Blank} \cup Statuses]
      BY <1>4, Zenon DEF Transfer, Transferred, Fails, TypeOK
    <2>4. disk' \in [Sectors -> Values \cup {Blank} \cup Statuses]
      BY <1>4, <2>2, Zenon DEF Transfer, Transferred, Fails, TypeOK
    <2>5. r' \in Int /\ status' \in Statuses /\ dpc' \in {"status", "crash"}
      BY <1>4, <2>1 DEF Transfer, Transferred, Fails, Statuses
    <2> QED BY <1>1, <1>4, <2>3, <2>4, <2>5, Zenon DEF TypeOK, Transfer, NextAvail, sigVars, drvVars
  <1>5. CASE PutStatus
    <2>1. buf' \in [Ids -> Values \cup {Blank} \cup Statuses] /\ stat' \in [Ids -> Statuses]
      BY <1>5, Zenon DEF PutStatus, TypeOK
    <2> QED BY <1>1, <1>5, <2>1, Zenon DEF TypeOK, PutStatus, NextAvail, sigVars, drvVars
  <1>6. CASE MarkUsed
    <2>1. ring' \in [Slots -> Desc]
      <3>1. ring[used_desc] \in Desc
        BY Zenon DEF TypeOK
      <3>2. [ring[used_desc] EXCEPT !.used = 1 - @] \in Desc
        BY <3>1 DEF Desc
      <3> QED BY <1>6, <3>2, Zenon DEF MarkUsed, TypeOK
    <2> QED BY <1>6, <2>1, Zenon DEF TypeOK, MarkUsed, locals, sigVars, drvVars
  <1>7. CASE PutLen
    <2>1. ring' \in [Slots -> Desc]
      <3>1. ring[used_desc] \in Desc /\ r \in Int
        BY Zenon DEF TypeOK
      <3>2. [ring[used_desc] EXCEPT !.len = r] \in Desc
        BY <3>1, Zenon DEF Desc
      <3> QED BY <1>7, <3>2, Zenon DEF PutLen, TypeOK
    <2> QED BY <1>7, <2>1, Zenon DEF TypeOK, PutLen, locals, sigVars, drvVars
  <1> QED BY <1>2, <1>3, <1>4, <1>5, <1>6, <1>7, Zenon DEF DeviceStep

LEMMA GuestStepType ==
  ASSUME TypeOK, RingInv, GuestStep
  PROVE  TypeOK'
  <1>1. CASE Kick \/ IsrCopy \/ IsrClear \/ NoMore \/ DisableCb \/ EnableCb \/ Recheck
    <2>1. UNCHANGED <<ring, hdr, buf, stat, vq, locals, disk,
                      drvAvail, drvUsed, num_free, nreq, nreap>>
      BY <1>1, Zenon
      DEF Kick, IsrCopy, IsrClear, NoMore, DisableCb, EnableCb, Recheck, ringVars, devVars
    <2>2. /\ dpc' \in {dpc, "get"} /\ cb' \in BOOLEAN
          /\ gpc' \in {"run", "isr", "more", "reap", "recheck"}
      BY <1>1, Zenon DEF TypeOK, Kick, IsrCopy, IsrClear, NoMore, DisableCb, EnableCb, Recheck,
                  ringVars, devVars
    <2>3. kick' \in BOOLEAN /\ isr' \in {0, 1} /\ irq' \in BOOLEAN /\ isrRead' \in {0, 1}
      BY <1>1, Zenon DEF TypeOK, Kick, IsrCopy, IsrClear, NoMore, DisableCb, EnableCb, Recheck, sigVars
    <2> QED BY <2>1, <2>2, <2>3, Zenon DEF TypeOK, locals
  <1>2. CASE Publish
    <2>1. drvAvail' \in Position
      <3>1. Len(Parts(hdr[nreq].type)) \in {2, 3}
        BY PartsLen, Zenon
      <3>2. Len(Parts(hdr[nreq].type)) \in 0 .. Size
        BY <3>1, ChainFits, Zenon
      <3> QED BY <1>2, <3>2, AdvanceType, Zenon DEF Publish, TypeOK
    <2>2. ring' \in [Slots -> Desc]
      <3> DEFINE a == drvAvail.idx
      <3>1. a \in Slots /\ ring[a] \in Desc /\ drvAvail.wrap \in {0, 1}
        BY Zenon DEF TypeOK, Position
      <3>2. [ring[a] EXCEPT !.avail = drvAvail.wrap, !.used = 1 - drvAvail.wrap] \in Desc
        <4>1. 1 - drvAvail.wrap \in {0, 1}
          BY <3>1
        <4> QED BY <3>1, <4>1, ZenonT(30), Zenon DEF Desc
      <3>3. ring' = [ring EXCEPT ![a] =
                       [ring[a] EXCEPT !.avail = drvAvail.wrap, !.used = 1 - drvAvail.wrap]]
        BY <1>2, <3>1, Zenon DEF Publish, TypeOK
      <3> QED BY <3>1, <3>2, <3>3, Zenon DEF TypeOK
    <2> QED BY <1>2, <2>1, <2>2, Zenon DEF TypeOK, Publish, devVars, locals, sigVars
  <1>3. CASE Reap
    <2> DEFINE n == Len(Parts(hdr[ring[drvUsed.idx].id].type))
    <2>1. n \in 0 .. Size /\ n \in Int
      <3>1. n \in {2, 3}
        BY PartsLen, Zenon
      <3> HIDE DEF n
      <3> QED BY <3>1, ChainFits
    <2>2. drvUsed' = Advance(drvUsed, n) /\ num_free' = num_free + n
      BY <1>3, Zenon DEF Reap
    <2> HIDE DEF n
    <2>3. drvUsed' \in Position /\ num_free' \in Int
      BY <2>1, <2>2, AdvanceType DEF TypeOK
    <2> QED BY <1>3, <2>3 DEF TypeOK, Reap, ringVars, devVars, locals, sigVars
  <1> QED BY <1>1, <1>2, <1>3, Zenon DEF GuestStep

LEMMA PrepareType ==
  ASSUME TypeOK, RingInv, NEW q \in Requests, Prepare(q)
  PROVE  TypeOK'
  <1> DEFINE parts == Parts(q.type)
             n == Len(parts)
  <1>1. n \in {2, 3} /\ num_free' = num_free - n /\ num_free \in Int
    BY PartsLen, Zenon DEF Prepare, TypeOK
  <1>2. nreq' = nreq + 1 /\ nreq + 1 \in Ids
    BY ConstantsAssumption DEF Prepare, TypeOK, Ids
  <1>3. q \in [type : Types, sector : Int, val : Values]
    BY ConstantsAssumption, Zenon
  <1>4. hdr' \in [Ids -> [type : Types \cup {"none"}, sector : Int, val : Values \cup {Blank}]]
    BY <1>3, Zenon DEF Prepare, TypeOK
  <1>5. buf' \in [Ids -> Values \cup {Blank} \cup Statuses]
    BY <1>3, Zenon DEF Prepare, TypeOK
  <1>6. ring' \in [Slots -> Desc]
    <2> SUFFICES ASSUME NEW i \in Slots PROVE ring'[i] \in Desc
      BY Zenon DEF Prepare
    <2> DEFINE k == Ahead(drvAvail, i) + 1
               w == LapOf(drvAvail, i)
    <2>1. ring'[i] = IF k > n THEN ring[i]
                     ELSE [avail |-> IF k = 1 THEN ring[i].avail ELSE w,
                           used  |-> IF k = 1 THEN ring[i].used ELSE 1 - w,
                           next  |-> k < n, len |-> PartLen(parts[k]),
                           part  |-> parts[k], id |-> nreq + 1]
      BY Zenon DEF Prepare
    <2>2. k \in Nat /\ k >= 1 /\ w \in {0, 1}
      BY AheadRange, ConstantsAssumption DEF TypeOK
    <2>3. k <= n => parts[k] \in {"hdr", "data", "status"} /\ PartLen(parts[k]) \in Int
      <3>1. \A j \in 1 .. 3 : j <= n => parts[j] \in {"hdr", "data", "status"}
        BY PartsLen DEF Parts
      <3>2. \A x \in {"hdr", "data", "status"} : PartLen(x) \in Int
        BY DEF PartLen
      <3> HIDE DEF k, parts
      <3> QED BY <1>1, <2>2, <3>1, <3>2
    <2>4. nreq + 1 \in 0 .. MaxReq /\ ring[i] \in Desc
      BY <1>2, ConstantsAssumption DEF Ids, TypeOK
    <2> HIDE DEF k, w, parts
    <2> QED BY <1>1, <2>1, <2>2, <2>3, <2>4 DEF Desc
  <1>7. nreq' \in 0 .. MaxReq /\ num_free' \in Int
    BY <1>1, <1>2, ConstantsAssumption DEF Ids
  <1> QED BY <1>4, <1>5, <1>6, <1>7, Zenon DEF TypeOK, Prepare, devVars, locals, sigVars

----------------------------------------------------------------------------
(* The theorems.                                                           *)

LEMMA StepInv ==
  ASSUME ExpectedChains, TypeOK, RingInv, [Next]_vars
  PROVE  TypeOK' /\ RingInv'
  <1>1. CASE \E q \in Requests : Prepare(q)
    BY <1>1, PrepareStep, PrepareType, Zenon
  <1>2. CASE GuestStep
    <2>1. RingInv'
      BY <1>2, HandlerStep, PublishStep, ReapStep, Zenon DEF GuestStep
    <2> QED BY <1>2, <2>1, GuestStepType, Zenon
  <1>3. CASE DeviceStep
    BY <1>3, DeviceStepInv, DeviceStepType, Zenon
  <1>4. CASE UNCHANGED vars
    <2>1. UNCHANGED <<ringVars, devVars, locals, sigVars, drvVars>>
      BY <1>4, Zenon DEF vars, devVars
    <2>2. UNCHANGED <<ring, hdr, stat, vq, drvVars, dpc, kick, gpc>>
      BY <2>1, Zenon DEF ringVars, devVars, sigVars, drvVars
    <2>3. UNCHANGED <<desc, used_desc, type, status>>
      BY <2>1, Zenon DEF locals
    <2>4. TypeOK'
      BY <2>1 DEF TypeOK, ringVars, devVars, locals, sigVars, drvVars
    <2>5. used_desc \in Slots /\ desc \in Slots
      BY Zenon DEF TypeOK
    <2>6. \A i \in Slots : ChainLen(i)' = ChainLen(i)
      BY <2>2, Zenon DEF ChainLen
    <2>7. Positions' /\ Chains' /\ Flags'
      BY <2>2, QuietFrame, Zenon
    <2>8. Cursor'
      BY <2>2, <2>3, <2>5, <2>6, QuietFrame, Zenon DEF RingInv, Cursor
    <2>9. Kicked' /\ dpc' # "crash"
      BY <2>2, QuietFrame, Zenon DEF RingInv, Kicked
    <2> QED BY <2>4, <2>7, <2>8, <2>9, Zenon DEF RingInv
  <1> QED BY <1>1, <1>2, <1>3, <1>4, Zenon DEF Next

(* Types and the shape of the ring are invariant, whatever the size of the *)
(* ring and the number of requests, when every request has the chain the   *)
(* device expects.                                                         *)
THEOREM RingInvariant ==
  ASSUME ExpectedChains
  PROVE  Spec => [](TypeOK /\ RingInv)
  <1>1. TypeOK /\ RingInv /\ [Next]_vars => (TypeOK /\ RingInv)'
    BY StepInv, Zenon
  <1> QED BY InitInv, <1>1, PTL DEF Spec

(* The variables keep their types: no locals of handle_output, register,   *)
(* counter or descriptor ever holds anything else.                         *)
THEOREM BlkTypeTheorem ==
  ASSUME ExpectedChains
  PROVE  Spec => []TypeOK
  <1>1. TypeOK /\ RingInv => TypeOK
    OBVIOUS
  <1> QED BY RingInvariant, <1>1, PTL

(* virtio_blk_handle_output never dereferences a NULL descriptor. *)
THEOREM NoNullDescriptorTheorem ==
  ASSUME ExpectedChains
  PROVE  Spec => []NoNullDescriptor
  <1>1. RingInv => NoNullDescriptor
    BY Zenon DEF RingInv, NoNullDescriptor
  <1> QED BY RingInvariant, <1>1, PTL

(* What the driver finds used is its oldest request, with its status. *)
LEMMA Completion ==
  TypeOK /\ RingInv => UsedInOrder /\ StatusBeforeUsed
  <1>1. ASSUME TypeOK, RingInv, IsUsed(drvUsed)
        PROVE  ring[drvUsed.idx].id = nreap + 1 /\ stat[ring[drvUsed.idx].id] # "none"
    <2> DEFINE h == drvUsed.idx
    <2>1. h \in Slots /\ Off(h) = 0 /\ Lap(h) = drvUsed.wrap
      BY <1>1, ConstantsAssumption DEF TypeOK, Position, Slots, Off, Lap, Ahead, LapOf
    <2>2. ring[h].avail = Lap(h) /\ ring[h].used = Lap(h)
      BY <1>1, <2>1, Zenon DEF IsUsed
    <2> HIDE DEF h
    <2>3. ~(Off(h) >= InUse) /\ ~Hidden(h)
      BY <1>1, <2>1, <2>2, Zenon DEF RingInv, Flags
    <2>4. Off(h) < InUse /\ Off(h) < Published
      BY <1>1, <2>1, <2>3, Ranges DEF Hidden
    <2> QED BY <1>1, <2>1, <2>2, <2>3, <2>4, Zenon DEF RingInv, Flags, Chains, h
  <1> QED BY <1>1, Zenon DEF UsedInOrder, StatusBeforeUsed

(* The driver finds requests used in the order it made them. *)
THEOREM CompletionTheorem ==
  ASSUME ExpectedChains
  PROVE  Spec => []UsedInOrder
  BY RingInvariant, Completion, PTL

(* The driver finds no request used whose status byte is not written. *)
THEOREM StatusTheorem ==
  ASSUME ExpectedChains
  PROVE  Spec => []StatusBeforeUsed
  BY RingInvariant, Completion, PTL

(* No kick is lost: a device that waits has taken every published chain.   *)
THEOREM NoLostKickTheorem ==
  ASSUME ExpectedChains
  PROVE  Spec => []NoLostKick
  <1>1. ASSUME TypeOK, RingInv, dpc = "idle", ~kick, gpc \notin {"publish", "kick"}
        PROVE  vq = drvAvail
    <2>1. Done = Published /\ Done \in 0 .. Size
      BY <1>1, Ranges DEF RingInv, Kicked
    <2>2. /\ vq \in Position /\ drvAvail \in Position /\ drvUsed \in Position
          /\ Dist(drvUsed, vq) = Dist(drvUsed, drvAvail) /\ Dist(drvUsed, vq) \in 0 .. Size
      BY <1>1, <2>1, Zenon DEF TypeOK, Done, Published
    <2> QED BY <2>2, SamePosition, Zenon
  <1>2. TypeOK /\ RingInv => NoLostKick
    BY <1>1, Zenon DEF NoLostKick
  <1> QED BY RingInvariant, <1>2, PTL

----------------------------------------------------------------------------
(* The lengths of descriptors.                                             *)

(* A slot n behind position p, seen from u. *)
LEMMA BehindFrom ==
  ASSUME NEW u \in Position, NEW p \in Position, NEW i \in Slots, NEW n \in {2, 3},
         Dist(u, p) \in 0 .. Size
  PROVE  /\ Ahead(u, i) + n = Dist(u, p) => p.idx - i \in {n, n - Size}
         /\ p.idx - i \in {n, n - Size} => Ahead(u, i) \in {Dist(u, p) - n, Dist(u, p) - n + Size}
  BY ConstantsAssumption DEF Position, Slots, Ahead, Dist

(* Steps that make no request and reap none. *)
LEMMA LenFrame ==
  ASSUME TypeOK, RingInv, LenInv, UNCHANGED <<nreq, nreap>>,
         \A i \in Slots : Off(i)' = Off(i), InUse' = InUse, Done' \in Int, Done' >= Done,
         \A i \in Slots : ring'[i].part = ring[i].part /\ ring'[i].id = ring[i].id,
         \A i \in Slots : Done <= Off(i) /\ Off(i) < InUse => ring'[i].len = ring[i].len,
         dpc' = "len" => \E n \in {2, 3} : vq'.idx - used_desc' \in {n, n - Size}
  PROVE  LenInv'
  <1>1. \A i \in Slots : Done' <= Off(i) => Done <= Off(i)
    BY Bounds
  <1> QED BY <1>1, Zenon DEF LenInv

(* No descriptor is in use. *)
LEMMA LenInit == Init => LenInv
  <1> SUFFICES ASSUME Init PROVE LenInv
    OBVIOUS
  <1>1. InUse = 0 /\ nreq - nreap = 0 /\ dpc # "len" /\ Depth \in Nat
    BY ConstantsAssumption DEF Init, InUse
  <1>2. \A i \in Slots : ~(Off(i) < InUse)
    BY <1>1, AheadRange, InitInv DEF TypeOK, Off
  <1> QED BY <1>1, <1>2 DEF LenInv

(* The descriptors in use are at most three for each request in flight. *)
LEMMA InUseBound ==
  ASSUME TypeOK, RingInv, LenInv
  PROVE  InUse <= 3 * Depth
  <1>1. CASE InUse = 0
    BY <1>1, ConstantsAssumption
  <1>2. CASE InUse > 0
    <2>1. PICK i \in Slots : Off(i) = 0
      BY <1>2, Ranges
    <2>2. ring[i].part = "hdr" /\ ring[i].id = nreap + 1
      BY <1>2, <2>1, Zenon DEF RingInv, Chains
    <2>3. InUse - Off(i) <= 3 * (nreq - ring[i].id + 1)
      BY <1>2, <2>1, <2>2, Zenon DEF LenInv
    <2>4. nreq \in Nat /\ nreap \in Nat /\ nreq - nreap <= Depth /\ Depth \in Nat
      BY ConstantsAssumption DEF TypeOK, LenInv
    <2> QED BY <2>1, <2>2, <2>3, <2>4, Bounds
  <1> QED BY <1>1, <1>2, Bounds

(* The late store hits a descriptor the device is done with. *)
LEMMA LenPutLen ==
  ASSUME TypeOK, RingInv, LenInv, Slack, PutLen
  PROVE  LenInv'
  <1>1. PICK n \in {2, 3} : vq.idx - used_desc \in {n, n - Size}
    BY Zenon DEF PutLen, LenInv
  <1>2. Off(used_desc) \in {Done - n, Done - n + Size}
    BY <1>1, BehindFrom, Bounds, Zenon DEF TypeOK, Off, Done
  <1>3. InUse <= Size - 3
    BY InUseBound, Bounds, ConstantsAssumption DEF Slack
  <1>4. ~(Done <= Off(used_desc) /\ Off(used_desc) < InUse) /\ used_desc \in Slots
    BY <1>2, <1>3, Bounds DEF TypeOK
  <1>5. /\ UNCHANGED <<vq, drvVars>> /\ dpc' = "get"
        /\ ring' = [ring EXCEPT ![used_desc].len = r] /\ ring \in [Slots -> Desc]
    BY Zenon DEF PutLen, TypeOK
  <1>6. /\ \A i \in Slots : Off(i)' = Off(i)
        /\ InUse' = InUse /\ Done' = Done
    BY <1>5, Frame, Zenon DEF drvVars, Done, Dist
  <1>7. /\ \A i \in Slots : ring'[i].part = ring[i].part /\ ring'[i].id = ring[i].id
        /\ \A i \in Slots : i # used_desc => ring'[i].len = ring[i].len
    BY <1>5, Zenon DEF Desc
  <1> QED BY <1>4, <1>5, <1>6, <1>7, LenFrame, Bounds DEF drvVars

(* The steps of the device other than the store of the length. *)
LEMMA LenDevice ==
  ASSUME TypeOK, RingInv, LenInv, DeviceStep, ~PutLen
  PROVE  LenInv'
  <1>1. CASE Wake \/ Drained \/ CheckEvent \/ SetIsr \/ WriteIrqfd
    <2>1. UNCHANGED <<ring, hdr, stat, vq, drvVars>> /\ dpc' # "len"
      BY <1>1, Zenon DEF Wake, Drained, CheckEvent, SetIsr, WriteIrqfd, ringVars
    <2> QED BY <2>1, QuietFrame, LenFrame, Bounds DEF drvVars
  <1>2. CASE GetHead \/ Transfer \/ PutStatus
    <2>1. /\ vq' = Advance(vq, 1) /\ UNCHANGED <<ring, drvVars>> /\ dpc' # "len"
      BY <1>2, Zenon DEF GetHead, Transfer, PutStatus, NextAvail, ringVars
    <2>2. Done < Published
      BY <1>2, AvailIff, TransferStep, PutStatusStep, Zenon DEF GetHead
    <2>3. Done' = Done + 1
      BY <2>1, <2>2, Bounds, DistAdvance DEF TypeOK, Done, drvVars
    <2>4. InUse' = InUse /\ \A i \in Slots : Off(i)' = Off(i)
      BY <2>1, Frame, Zenon DEF drvVars
    <2> QED BY <2>1, <2>3, <2>4, LenFrame, Bounds DEF drvVars
  <1>3. CASE MarkUsed
    <2>1. /\ Off(used_desc) < Published /\ ring[used_desc].part = "hdr"
          /\ Off(used_desc) + ChainLen(used_desc) = Done /\ used_desc \in Slots
      BY <1>3, Zenon DEF MarkUsed, RingInv, Cursor, TypeOK
    <2>2. ChainLen(used_desc) \in {2, 3}
      BY <2>1, ChainShape, Bounds
    <2>3. \E n \in {2, 3} : vq.idx - used_desc \in {n, n - Size}
      BY <2>1, <2>2, BehindFrom, Bounds, Zenon DEF TypeOK, Off, Done
    <2>4. /\ UNCHANGED <<vq, drvVars, used_desc>>
          /\ ring' = [ring EXCEPT ![used_desc].used = 1 - @] /\ ring \in [Slots -> Desc]
      BY <1>3, Zenon DEF MarkUsed, TypeOK, locals
    <2>5. /\ \A i \in Slots : Off(i)' = Off(i)
          /\ InUse' = InUse /\ Done' = Done
      BY <2>4, Frame, Zenon DEF drvVars, Done, Dist
    <2>6. \A i \in Slots : /\ ring'[i].part = ring[i].part /\ ring'[i].id = ring[i].id
                           /\ ring'[i].len = ring[i].len
      BY <2>4, Zenon DEF Desc
    <2> QED BY <2>3, <2>4, <2>5, <2>6, LenFrame, Bounds DEF drvVars
  <1> QED BY <1>1, <1>2, <1>3, NoNextStep, Zenon DEF DeviceStep

(* Steps of the guest that leave the chains as they are. *)
LEMMA LenGuest ==
  ASSUME TypeOK, RingInv, LenInv, GuestStep, ~Reap
  PROVE  LenInv'
  <1>1. UNCHANGED <<vq, locals, drvUsed, num_free, nreq, nreap>> /\ (dpc' = dpc \/ dpc' = "get")
    BY Zenon
    DEF GuestStep, Publish, Kick, IsrCopy, IsrClear, NoMore, DisableCb, EnableCb, Recheck, devVars
  <1>2. /\ \A i \in Slots : Off(i)' = Off(i)
        /\ InUse' = InUse /\ Done' = Done
    BY <1>1, Zenon DEF Off, Ahead, InUse, Done, Dist
  <1>3. \A i \in Slots : /\ ring'[i].part = ring[i].part /\ ring'[i].id = ring[i].id
                         /\ ring'[i].len = ring[i].len
    <2>1. CASE Publish
      <3>1. /\ ring' = [ring EXCEPT ![drvAvail.idx].avail = drvAvail.wrap,
                                    ![drvAvail.idx].used = 1 - drvAvail.wrap]
            /\ ring \in [Slots -> Desc]
        BY <2>1, Zenon DEF Publish, TypeOK
      <3> QED BY <3>1, Zenon DEF Desc
    <2>2. CASE ~Publish
      <3>1. ring' = ring
        BY <2>2, Zenon
        DEF GuestStep, Kick, IsrCopy, IsrClear, NoMore, DisableCb, EnableCb, Recheck, ringVars
      <3> QED BY <3>1, Zenon
    <2> QED BY <2>1, <2>2, Zenon
  <1>4. dpc' = "len" => \E n \in {2, 3} : vq'.idx - used_desc' \in {n, n - Size}
    BY <1>1, Zenon DEF LenInv, locals
  <1> QED BY <1>1, <1>2, <1>3, <1>4, LenFrame, Bounds

(* The driver gives the descriptors of a new chain their lengths. *)
LEMMA LenPrepare ==
  ASSUME TypeOK, RingInv, LenInv, ExpectedChains, NEW q \in Requests, Prepare(q)
  PROVE  LenInv'
  <1>1. /\ \A i \in Slots : Off(i)' = Off(i)
        /\ Done' = Done /\ InUse' \in InUse + 2 .. InUse + 3
        /\ \A i \in Slots : Off(i) < InUse =>
              ring'[i] = ring[i] /\ ring[i].id \in nreap + 1 .. nreq
        /\ \A i \in Slots : InUse <= Off(i) /\ Off(i) < InUse' =>
              /\ ring'[i].id = nreq + 1 /\ ring'[i].len = PartLen(ring'[i].part)
              /\ ring'[i].part = "hdr" => Off(i) = InUse
    BY PrepareStep, Zenon
  <1>2. /\ nreq' = nreq + 1 /\ nreq - nreap < Depth
        /\ UNCHANGED <<nreap, vq, dpc, used_desc>>
    BY Zenon DEF Prepare, devVars, locals
  <1>3. nreq \in Nat /\ nreap \in Nat /\ Depth \in Nat
    BY ConstantsAssumption DEF TypeOK
  <1>4. ASSUME NEW i \in Slots
        PROVE  /\ Done' <= Off(i)' /\ Off(i)' < InUse' => ring'[i].len = PartLen(ring'[i].part)
               /\ Off(i)' < InUse' /\ ring'[i].part = "hdr" =>
                    InUse' - Off(i)' <= 3 * (nreq' - ring'[i].id + 1)
    <2>1. CASE Off(i) < InUse
      <3>1. Done <= Off(i) => ring[i].len = PartLen(ring[i].part)
        BY <2>1, Zenon DEF LenInv
      <3>2. ring[i].part = "hdr" => InUse - Off(i) <= 3 * (nreq - ring[i].id + 1)
        BY <2>1, Zenon DEF LenInv
      <3>3. ring'[i] = ring[i] /\ ring[i].id \in nreap + 1 .. nreq
        BY <1>1, <2>1, Zenon
      <3> QED BY <1>1, <1>2, <1>3, <3>1, <3>2, <3>3, Bounds
    <2>2. CASE InUse <= Off(i)
      BY <1>1, <1>2, <1>3, <2>2, Bounds
    <2> QED BY <2>1, <2>2, Bounds
  <1> QED BY <1>2, <1>3, <1>4 DEF LenInv

(* Reaping leaves the descriptors alone. *)
LEMMA LenReap ==
  ASSUME TypeOK, RingInv, LenInv, Reap
  PROVE  LenInv'
  <1>1. PICK n \in 2 .. 3 :
          /\ n <= Done /\ Done' = Done - n /\ InUse' = InUse - n
          /\ \A i \in Slots : Off(i)' < InUse' =>
               Off(i) >= n /\ Off(i) < InUse /\ Off(i)' = Off(i) - n
    BY ReapStep, Zenon
  <1>2. nreap' = nreap + 1 /\ UNCHANGED <<ring, vq, dpc, used_desc, nreq>>
    BY Zenon DEF Reap, ringVars, devVars, locals
  <1>3. nreq \in Nat /\ nreap \in Nat /\ Depth \in Nat
    BY ConstantsAssumption DEF TypeOK
  <1>4. ASSUME NEW i \in Slots, Off(i)' < InUse'
        PROVE  /\ Done' <= Off(i)' => Done <= Off(i)
               /\ Off(i) < InUse /\ InUse' - Off(i)' = InUse - Off(i)
    BY <1>1, <1>4, Bounds
  <1> QED BY <1>2, <1>3, <1>4 DEF LenInv

(* With slack, the late store of line 110 never hits a descriptor the      *)
(* device has yet to read.                                                 *)
THEOREM AvailLenTheorem ==
  ASSUME ExpectedChains, Slack
  PROVE  Spec => []AvailLenIntact
  <1>1. ASSUME TypeOK, RingInv, LenInv, [Next]_vars
        PROVE  LenInv'
    <2>1. CASE \E q \in Requests : Prepare(q)
      BY <1>1, <2>1, LenPrepare, Zenon
    <2>2. CASE GuestStep
      BY <1>1, <2>2, LenGuest, LenReap, Zenon
    <2>3. CASE DeviceStep
      BY <1>1, <2>3, LenDevice, LenPutLen, Zenon
    <2>4. CASE UNCHANGED vars
      <3>1. UNCHANGED <<ring, vq, dpc, used_desc, drvUsed, num_free, nreq, nreap>>
        BY <2>4, Zenon DEF vars, ringVars, devVars, locals, drvVars
      <3> QED BY <1>1, <3>1, Zenon DEF LenInv, Off, Ahead, Done, Dist, InUse
    <2> QED BY <1>1, <2>1, <2>2, <2>3, <2>4, Zenon DEF Next
  <1>2. ASSUME TypeOK, RingInv, LenInv
        PROVE  AvailLenIntact
    <2> SUFFICES ASSUME NEW i \in Slots, IsAvail([idx |-> i, wrap |-> LapOf(vq, i)])
                 PROVE  ring[i].len = PartLen(ring[i].part)
      BY Zenon DEF AvailLenIntact
    <2>1. ring[i].avail = LapOf(vq, i)
      BY Zenon DEF IsAvail
    <2>2. drvUsed \in Position /\ vq \in Position /\ Dist(drvUsed, vq) \in 0 .. Size
      BY <1>2, Bounds, Zenon DEF TypeOK, Done
    <2>3. /\ Off(i) >= Done => LapOf(vq, i) = Lap(i)
          /\ Off(i) < Done => LapOf(vq, i) = 1 - Lap(i)
      BY <2>2, ConstantsAssumption DEF Position, Slots, Off, Lap, Done, Ahead, LapOf, Dist
    <2>4. CASE Off(i) < Done
      <3>1. Off(i) < InUse /\ ~Hidden(i) /\ Lap(i) \in {0, 1}
        BY <1>2, <2>4, Ranges DEF Hidden
      <3>2. ring[i].avail = Lap(i)
        BY <1>2, <3>1, Zenon DEF RingInv, Flags
      <3> QED BY <2>1, <2>3, <2>4, <3>1, <3>2
    <2>5. CASE Off(i) >= Done
      <3>1. ~(Off(i) >= InUse)
        BY <1>2, <2>1, <2>3, <2>5, Zenon DEF RingInv, Flags
      <3>2. Done <= Off(i) /\ Off(i) < InUse
        BY <1>2, <2>5, <3>1, Bounds
      <3> QED BY <1>2, <3>2, Zenon DEF LenInv
    <2> QED BY <1>2, <2>4, <2>5, Bounds
  <1>3. TypeOK /\ RingInv /\ LenInv /\ [Next]_vars => LenInv'
    BY <1>1, Zenon
  <1>4. TypeOK /\ RingInv /\ LenInv => AvailLenIntact
    BY <1>2, Zenon
  <1> QED BY RingInvariant, LenInit, <1>3, <1>4, PTL DEF Spec
----------------------------------------------------------------------------
(* Interrupts.                                                             *)

(* A step that completes no request and takes none off the ring. *)
LEMMA UsedOnly ==
  ASSUME TypeOK, Next, ~MarkUsed, ~Reap, IsUsed(drvUsed)'
  PROVE  IsUsed(drvUsed)
PROOF
  <1>0. ring \in [Slots -> Desc] /\ drvUsed \in Position /\ drvUsed.idx \in Slots
    BY Zenon DEF TypeOK, Position
  <1>1. ASSUME NEW q \in Requests, Prepare(q) PROVE IsUsed(drvUsed)
    <2> DEFINE i == drvUsed.idx
               n == Len(Parts(q.type))
               k == Ahead(drvAvail, i) + 1
               w == LapOf(drvAvail, i)
    <2>1. drvUsed' = drvUsed /\ ring'[i].avail = drvUsed.wrap /\ ring'[i].used = drvUsed.wrap
      BY <1>1, Zenon DEF Prepare, IsUsed
    <2>2. ring'[i] = IF k > n THEN ring[i]
                     ELSE [avail |-> IF k = 1 THEN ring[i].avail ELSE w,
                           used  |-> IF k = 1 THEN ring[i].used ELSE 1 - w,
                           next  |-> k < n, len |-> PartLen(Parts(q.type)[k]),
                           part  |-> Parts(q.type)[k], id |-> nreq + 1]
      BY <1>0, <1>1, Zenon DEF Prepare
    <2>3. w \in {0, 1} /\ w # 1 - w
      BY DEF TypeOK, Position, LapOf
    <2> HIDE DEF i, n, k, w
    <2>4. ring'[i].avail = ring[i].avail /\ ring'[i].used = ring[i].used
      <3>1. CASE k > n
        BY <2>2, <3>1, Zenon
      <3>2. CASE ~(k > n)
        <4>1. /\ ring'[i].avail = IF k = 1 THEN ring[i].avail ELSE w
              /\ ring'[i].used = IF k = 1 THEN ring[i].used ELSE 1 - w
          BY <2>2, <3>2
        <4> QED BY <2>1, <2>3, <4>1, Zenon
      <3> QED BY <3>1, <3>2, Zenon
    <2> QED BY <2>1, <2>4, Zenon DEF IsUsed, i
  <1>2. CASE Publish
    <2> DEFINE a == drvAvail.idx
    <2>1. /\ drvUsed' = drvUsed /\ a \in Slots /\ drvAvail.wrap # 1 - drvAvail.wrap
          /\ ring' = [ring EXCEPT ![a].avail = drvAvail.wrap, ![a].used = 1 - drvAvail.wrap]
      <3>1. drvAvail.idx \in Slots /\ drvAvail.wrap \in {0, 1}
        BY Zenon DEF TypeOK, Position
      <3>2. drvAvail.wrap # 1 - drvAvail.wrap
        BY <3>1
      <3> QED BY <1>2, <3>1, <3>2, Zenon DEF Publish
    <2>2. /\ ring'[a].avail = drvAvail.wrap /\ ring'[a].used = 1 - drvAvail.wrap
          /\ drvUsed.idx # a => ring'[drvUsed.idx] = ring[drvUsed.idx]
      BY <1>0, <2>1 DEF Desc
    <2> HIDE DEF a
    <2> QED BY <2>1, <2>2, Zenon DEF IsUsed
  <1>3. CASE PutLen
    <2>1. /\ drvUsed' = drvUsed /\ used_desc \in Slots
          /\ ring' = [ring EXCEPT ![used_desc].len = r]
      BY <1>3, Zenon DEF PutLen, TypeOK, drvVars
    <2>2. \A i \in Slots : ring'[i].avail = ring[i].avail /\ ring'[i].used = ring[i].used
      BY <1>0, <2>1 DEF Desc
    <2> QED BY <1>0, <2>1, <2>2, Zenon DEF IsUsed
  <1>4. CASE UNCHANGED <<ring, drvUsed>>
    BY <1>4, Zenon DEF IsUsed
  <1>5. ASSUME GuestStep \/ DeviceStep, ~Publish, ~PutLen PROVE UNCHANGED <<ring, drvUsed>>
    <2>1. CASE GuestStep
      BY <1>5, <2>1, Zenon
      DEF GuestStep, Kick, IsrCopy, IsrClear, NoMore, DisableCb, EnableCb, Recheck, ringVars
    <2>2. CASE DeviceStep
      BY <1>5, <2>2, Zenon
      DEF DeviceStep, Wake, GetHead, NoNext, Transfer, PutStatus, Drained, CheckEvent, SetIsr,
          WriteIrqfd, ringVars, drvVars
    <2> QED BY <1>5, <2>1, <2>2, Zenon
  <1> QED BY <1>1, <1>2, <1>3, <1>4, <1>5, Zenon DEF Next

(* The device thread works on, or it leaves a notice the guest will find;  *)
(* if the guest has events turned off, it is in its handler.               *)
LEMMA DeliveryDevice ==
  ASSUME TypeOK, RingInv, DeliveryInv, DeviceStep, RingInv', ~wiped' => ~wiped
  PROVE  DeliveryInv'
PROOF
  <1>1. UNCHANGED <<gpc, isrRead>> /\ cb' = cb
    BY Zenon DEF DeviceStep, Wake, GetHead, NoNext, Transfer, PutStatus, MarkUsed, PutLen, Drained,
       CheckEvent, SetIsr, WriteIrqfd, ringVars, drvVars
  <1>2. CASE Wake \/ GetHead \/ Transfer \/ PutStatus \/ MarkUsed \/ PutLen \/ Drained
    <2>1. dpc' \in {"get", "data", "status", "used", "len", "event", "isr"}
      BY <1>2, Zenon
      DEF Wake, GetHead, Transfer, PutStatus, MarkUsed, PutLen, Drained, RingInv
    <2> QED BY <1>1, <2>1, Zenon DEF DeliveryInv, Noticed
  <1>3. ~NoNext
    BY NoNextStep, Zenon
  <1>4. CASE CheckEvent
    <2>1. ~cb => gpc = "reap"
      BY Zenon DEF DeliveryInv
    <2>2. dpc' = IF cb THEN "isr" ELSE "idle"
      BY <1>4, Zenon DEF CheckEvent
    <2> QED BY <1>1, <2>1, <2>2, Zenon DEF DeliveryInv, Noticed
  <1>5. CASE SetIsr
    BY <1>1, <1>5, Zenon DEF SetIsr, DeliveryInv, Noticed
  <1>6. CASE WriteIrqfd
    <2>1. IsUsed(drvUsed)' => IsUsed(drvUsed)
      BY <1>6, Zenon DEF WriteIrqfd, IsUsed, ringVars, drvVars
    <2>2. dpc = "irqfd" /\ irq' = TRUE /\ isr' = isr
      BY <1>6, Zenon DEF WriteIrqfd
    <2>3. ~wiped /\ IsUsed(drvUsed) =>
            isr = 1 \/ (gpc = "isr" /\ isrRead = 1) \/ gpc \in {"more", "reap", "recheck"}
      BY <2>2, Zenon DEF DeliveryInv, Noticed
    <2> QED BY <1>1, <2>1, <2>2, <2>3, Zenon DEF DeliveryInv, Noticed
  <1> QED BY <1>2, <1>3, <1>4, <1>5, <1>6, Zenon DEF DeviceStep

(* The guest leaves its handler only when nothing is used, or when the ISR *)
(* it read was 0 - and a notice set since is wiped or comes after that.    *)
LEMMA DeliveryGuest ==
  ASSUME TypeOK, DeliveryInv, (\E q \in Requests : Prepare(q)) \/ GuestStep,
         wiped' = (wiped \/ IsrWiped)
  PROVE  DeliveryInv'
PROOF
  <1>0. Next /\ ~MarkUsed /\ (IsUsed(drvUsed)' /\ ~Reap => IsUsed(drvUsed))
    <2>1. ~MarkUsed
      <3>1. MarkUsed => UNCHANGED <<gpc, nreap, drvUsed, num_free, irq>> /\ dpc' # dpc
        BY Zenon DEF MarkUsed, drvVars, sigVars
      <3> QED BY <3>1, Zenon
          DEF GuestStep, Prepare, Publish, Kick, IsrCopy, IsrClear, NoMore, DisableCb, Reap,
              EnableCb, Recheck, devVars
    <2> QED BY <2>1, UsedOnly, Zenon DEF Next
  <1>1. CASE \E q \in Requests : Prepare(q)
    <2>1. /\ UNCHANGED <<cb, dpc, isr, irq, isrRead>> /\ gpc = "run" /\ gpc' = "publish"
          /\ ~Reap
      BY <1>1, Zenon DEF Prepare, devVars, sigVars, Reap
    <2> QED BY <1>0, <2>1, Zenon DEF DeliveryInv, Noticed
  <1>2. CASE Publish \/ Kick
    <2>1. /\ UNCHANGED <<cb, isr, irq, isrRead>> /\ gpc \in {"publish", "kick"}
          /\ gpc' \in {"kick", "run"} /\ ~Reap /\ (dpc' = dpc \/ dpc' = "get")
      BY <1>2, Zenon DEF Publish, Kick, devVars, sigVars, ringVars, Reap
    <2> QED BY <1>0, <2>1, Zenon DEF DeliveryInv, Noticed
  <1>3. CASE IsrCopy
    <2>1. /\ UNCHANGED <<cb, dpc, isr>> /\ gpc = "run" /\ gpc' = "isr" /\ isrRead' = isr /\ ~Reap
      BY <1>3, Zenon DEF IsrCopy, devVars, ringVars, Reap
    <2> QED BY <1>0, <2>1, Zenon DEF DeliveryInv, Noticed
  <1>4. CASE IsrClear
    <2>1. /\ UNCHANGED <<cb, dpc, irq>> /\ gpc = "isr" /\ ~Reap
          /\ gpc' = IF isrRead = 0 THEN "run" ELSE "more"
          /\ ~wiped' => ~wiped /\ isr = isrRead
      BY <1>4, Zenon DEF IsrClear, devVars, ringVars, Reap, IsrWiped
    <2>2. isrRead \in {0, 1} /\ 0 # 1
      BY DEF TypeOK
    <2> QED BY <1>0, <2>1, <2>2, Zenon DEF DeliveryInv, Noticed
  <1>5. CASE NoMore \/ Recheck
    <2>1. UNCHANGED <<cb, dpc, isr, irq, isrRead, ring, drvUsed>> /\ ~Reap
      BY <1>5, Zenon DEF NoMore, Recheck, devVars, sigVars, ringVars, Reap
    <2>2. IsUsed(drvUsed) => gpc' = "more"
      BY <1>5, Zenon DEF NoMore, Recheck
    <2>3. gpc # "reap" /\ gpc' # "reap"
      BY <1>5, Zenon DEF NoMore, Recheck
    <2> QED BY <1>0, <2>1, <2>2, <2>3, Zenon DEF DeliveryInv, Noticed
  <1>6. CASE DisableCb \/ EnableCb \/ Reap
    <2>1. gpc' \in {"reap", "recheck"} /\ (cb' <=> gpc' # "reap")
      <3>1. CASE DisableCb \/ EnableCb
        BY <3>1, Zenon DEF DisableCb, EnableCb
      <3>2. CASE Reap
        BY <3>2, Zenon DEF Reap, DeliveryInv, ringVars
      <3> QED BY <1>6, <3>1, <3>2, Zenon
    <2> QED BY <2>1, Zenon DEF DeliveryInv, Noticed
  <1> QED BY <1>1, <1>2, <1>3, <1>4, <1>5, <1>6, Zenon DEF GuestStep

(* No interrupt is lost but by a store to the ISR that is wiped, with any  *)
(* number of requests in flight and in every order of the accesses of the  *)
(* device thread and the vCPU thread.                                      *)
THEOREM NoLostInterruptTheorem ==
  ASSUME ExpectedChains
  PROVE  DeliverySpec => []NoLostInterrupt
PROOF
  <1> DEFINE I == TypeOK /\ RingInv /\ DeliveryInv
  <1>1. DeliveryInit => I
    <2>1. DeliveryInit => DeliveryInv
      <3>1. ASSUME DeliveryInit PROVE ~IsUsed(drvUsed) /\ cb = TRUE /\ gpc = "run"
        <4>1. drvUsed.idx \in Slots /\ drvUsed.wrap = 1 /\ ring[drvUsed.idx].avail = 0
          BY <3>1, ConstantsAssumption DEF DeliveryInit, Init, Slots
        <4> QED BY <3>1, <4>1 DEF DeliveryInit, Init, IsUsed
      <3> QED BY <3>1, Zenon DEF DeliveryInv
    <2> QED BY <2>1, InitInv, Zenon DEF DeliveryInit
  <1>2. I /\ [DeliveryNext]_<<vars, wiped>> => I'
    <2> SUFFICES ASSUME TypeOK, RingInv, DeliveryInv, [DeliveryNext]_<<vars, wiped>> PROVE I'
      OBVIOUS
    <2>1. TypeOK' /\ RingInv'
      BY StepInv, Zenon DEF DeliveryNext
    <2>2. CASE DeliveryNext
      <3>1. CASE DeviceStep
        <4>1. ~wiped' => ~wiped
          BY <2>2, Zenon DEF DeliveryNext
        <4> QED BY <2>1, <3>1, <4>1, DeliveryDevice, Zenon
      <3>2. CASE (\E q \in Requests : Prepare(q)) \/ GuestStep
        BY <2>1, <2>2, <3>2, DeliveryGuest, Zenon DEF DeliveryNext
      <3> QED BY <2>2, <3>1, <3>2, Zenon DEF DeliveryNext, Next
    <2>3. CASE UNCHANGED <<vars, wiped>>
      <3>1. UNCHANGED <<cb, gpc, dpc, isr, irq, isrRead, ring, drvUsed, wiped>>
        BY <2>3, Zenon DEF vars, ringVars, devVars, sigVars, drvVars
      <3> QED BY <2>1, <3>1, Zenon DEF DeliveryInv, Noticed, IsUsed
    <2> QED BY <2>2, <2>3, Zenon
  <1>3. I => NoLostInterrupt
    BY Zenon DEF DeliveryInv, Noticed, NoLostInterrupt
  <1> QED BY <1>1, <1>2, <1>3, PTL DEF DeliverySpec
==============================================================================
