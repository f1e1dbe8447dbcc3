---------------------------- MODULE VirtioBlkRing ----------------------------
(***************************************************************************)
(* Positions on the ring, and what the inductive invariant RingInv of      *)
(* VirtioBlk says of it: the lemmas the proofs about each step rest on,    *)
(* and the steps that preserve it without changing which chains are in     *)
(* use, of the driver (publication included) and of the device thread.     *)
(***************************************************************************)
EXTENDS VirtioBlk, TLAPS

----------------------------------------------------------------------------
(* Arithmetic of positions.                                                *)

(* Seen from position u, a slot is less than a lap ahead, and two slots    *)
(* are not equally far ahead.                                              *)
LEMMA AheadRange ==
  ASSUME NEW u \in Position
  PROVE  /\ \A i \in Slots : Ahead(u, i) \in 0 .. Size - 1 /\ LapOf(u, i) \in {0, 1}
         /\ \A i, j \in Slots : Ahead(u, i) = Ahead(u, j) => i = j
  BY ConstantsAssumption DEF Position, Slots, Ahead, LapOf

(* There is a slot at every distance below Size. *)
LEMMA AheadOnto ==
  ASSUME NEW u \in Position, NEW k \in 0 .. Size - 1
  PROVE  \E i \in Slots : Ahead(u, i) = k
  <1>1. CASE u.idx + k < Size
    <2>1. u.idx + k \in Slots /\ Ahead(u, u.idx + k) = k
      BY <1>1, ConstantsAssumption DEF Position, Slots, Ahead
    <2> QED BY <2>1, Zenon
  <1>2. CASE u.idx + k >= Size
    <2>1. u.idx + k - Size \in Slots /\ Ahead(u, u.idx + k - Size) = k
      BY <1>2, ConstantsAssumption DEF Position, Slots, Ahead
    <2> QED BY <2>1, Zenon
  <1> QED BY <1>1, <1>2, ConstantsAssumption DEF Position, Slots

(* A position less than a lap ahead is the slot at that distance with that *)
(* slot's wrap counter; a full lap ahead the wrap counter is the other one. *)
LEMMA DistAhead ==
  ASSUME NEW u \in Position, NEW p \in Position, Dist(u, p) \in 0 .. Size
  PROVE  /\ p.idx \in Slots
         /\ Dist(u, p) < Size => Ahead(u, p.idx) = Dist(u, p) /\ LapOf(u, p.idx) = p.wrap
         /\ Dist(u, p) = Size => Ahead(u, p.idx) = 0 /\ LapOf(u, p.idx) = 1 - p.wrap
  BY ConstantsAssumption DEF Position, Slots, Ahead, LapOf, Dist

(* Advancing by n adds n to the distance. *)
LEMMA DistAdvance ==
  ASSUME NEW u \in Position, NEW p \in Position, NEW n \in Nat,
         Dist(u, p) >= 0, Dist(u, p) + n <= Size
  PROVE  Advance(p, n) \in Position /\ Dist(u, Advance(p, n)) = Dist(u, p) + n
  BY ConstantsAssumption DEF Position, Slots, Dist, Advance

LEMMA AdvanceType ==
  ASSUME NEW p \in Position, NEW n \in 0 .. Size
  PROVE  Advance(p, n) \in Position
  BY ConstantsAssumption DEF Position, Slots, Advance

(* What moving the origin forward by n does to distances and laps. *)
LEMMA Rebase ==
  ASSUME NEW u \in Position, NEW n \in 1 .. Size
  PROVE  /\ \A i \in Slots :
              /\ Ahead(u, i) >= n => /\ Ahead(Advance(u, n), i) = Ahead(u, i) - n
                                     /\ LapOf(Advance(u, n), i) = LapOf(u, i)
              /\ Ahead(u, i) < n => /\ Ahead(Advance(u, n), i) = Ahead(u, i) - n + Size
                                    /\ LapOf(Advance(u, n), i) = 1 - LapOf(u, i)
         /\ \A p \in Position : Dist(u, p) \in n .. Size =>
              Dist(Advance(u, n), p) = Dist(u, p) - n
  BY ConstantsAssumption DEF Position, Slots, Ahead, LapOf, Dist, Advance

(* The same seen from a position p, less than a lap ahead of u. *)
LEMMA AheadFrom ==
  ASSUME NEW u \in Position, NEW p \in Position, Dist(u, p) \in 0 .. Size - 1,
         NEW i \in Slots
  PROVE  /\ Ahead(u, i) >= Dist(u, p) =>
              Ahead(p, i) = Ahead(u, i) - Dist(u, p) /\ LapOf(p, i) = LapOf(u, i)
         /\ Ahead(u, i) < Dist(u, p) => Ahead(p, i) = Ahead(u, i) - Dist(u, p) + Size
  BY ConstantsAssumption DEF Position, Slots, Ahead, LapOf, Dist

(* A position is determined by its distance, but for a full lap. *)
LEMMA SamePosition ==
  ASSUME NEW u \in Position, NEW p \in Position, NEW q \in Position,
         Dist(u, p) = Dist(u, q), Dist(u, p) \in 0 .. Size
  PROVE  p = q
  <1>1. p.idx = q.idx /\ p.wrap = q.wrap
    BY ConstantsAssumption DEF Position, Slots, Dist
  <1> QED BY <1>1 DEF Position

(* The ring holds a longest chain. *)
LEMMA ChainFits == \A n \in {2, 3} : n \in 0 .. Size
  BY ConstantsAssumption

(* A chain has two or three descriptors. *)
LEMMA PartsLen ==
  \A t : Len(Parts(t)) = (IF t = "FLUSH" THEN 2 ELSE 3)
  BY Zenon DEF Parts

----------------------------------------------------------------------------
(* What the invariant says of the next descriptor and of a chain.          *)

(* The distances and laps are within their bounds. *)
LEMMA Ranges ==
  ASSUME TypeOK, RingInv
  PROVE  /\ \A i \in Slots : Off(i) \in 0 .. Size - 1 /\ Lap(i) \in {0, 1}
         /\ \A i, j \in Slots : Off(i) = Off(j) => i = j
         /\ \A k \in 0 .. Size - 1 : \E i \in Slots : Off(i) = k
         /\ Size \in Nat /\ InUse \in 0 .. Size /\ Published \in 0 .. Size /\ Done \in 0 .. Size
         /\ Done <= Published /\ Published <= InUse
         /\ gpc = "publish" <=> Published < InUse
  <1>1. drvUsed \in Position /\ drvAvail \in Position /\ vq \in Position
    BY Zenon DEF TypeOK
  <1>2. Done \in Int /\ Published \in Int
    BY <1>1, ConstantsAssumption DEF Position, Slots, Done, Published, Dist
  <1>3. Size \in Nat /\ InUse \in 0 .. Size
    BY ConstantsAssumption DEF RingInv, Positions, InUse
  <1>4. /\ Done <= Published /\ Published <= InUse /\ 0 <= Done
        /\ gpc = "publish" <=> Published < InUse
    BY <1>2, <1>3, PartsLen DEF RingInv, Positions
  <1>5. /\ \A i \in Slots : Off(i) \in 0 .. Size - 1 /\ Lap(i) \in {0, 1}
        /\ \A i, j \in Slots : Off(i) = Off(j) => i = j
    BY <1>1, AheadRange, Zenon DEF Off, Lap
  <1>6. \A k \in 0 .. Size - 1 : \E i \in Slots : Off(i) = k
    BY <1>1, AheadOnto, Zenon DEF Off
  <1> QED BY <1>2, <1>3, <1>4, <1>5, <1>6

(* The distances are within their bounds. *)
LEMMA Bounds ==
  ASSUME TypeOK, RingInv
  PROVE  /\ \A i \in Slots : Off(i) \in 0 .. Size - 1
         /\ Size \in Nat /\ InUse \in 0 .. Size /\ Published \in 0 .. Size /\ Done \in 0 .. Size
         /\ Done <= Published /\ Published <= InUse
         /\ gpc = "publish" <=> Published < InUse
  BY Ranges, Zenon

(* Where the device looks next. *)
LEMMA NextSlot ==
  ASSUME TypeOK, RingInv
  PROVE  /\ vq.idx \in Slots
         /\ Done < Size => Off(vq.idx) = Done /\ Lap(vq.idx) = vq.wrap
         /\ Done = Size => Off(vq.idx) = 0 /\ Lap(vq.idx) = 1 - vq.wrap
  BY Bounds, DistAhead, Zenon DEF TypeOK, Off, Lap, Done

(* virtq_get_avail succeeds exactly while published descriptors are left. *)
LEMMA AvailIff ==
  ASSUME TypeOK, RingInv
  PROVE  IsAvail(vq) <=> Done < Published
  <1>1. vq \in Position /\ ring[vq.idx].avail \in {0, 1} /\ ring[vq.idx].used \in {0, 1}
    BY NextSlot, Zenon DEF TypeOK, Desc
  <1>2. Done < Published => IsAvail(vq)
    BY Bounds, NextSlot DEF RingInv, Flags, Hidden, IsAvail
  <1>3. Done = Published => ring[vq.idx].avail # vq.wrap
    BY <1>1, Bounds, NextSlot DEF RingInv, Flags, Hidden, Position
  <1> QED BY <1>2, <1>3, Bounds DEF IsAvail

(* The chain that starts at slot h. *)
LEMMA ChainShape ==
  ASSUME TypeOK, RingInv, NEW h \in Slots, Off(h) < InUse, ring[h].part = "hdr"
  PROVE  LET t == hdr[ring[h].id].type
         IN  /\ ring[h].id \in Ids /\ t \in {"IN", "OUT", "FLUSH"}
             /\ ChainLen(h) = IF t = "FLUSH" THEN 2 ELSE 3
             /\ Off(h) + ChainLen(h) <= InUse
             /\ Off(h) < Published => Off(h) + ChainLen(h) <= Published
             /\ \A j \in Slots : Off(j) = Off(h) + 1 =>
                  ring[j].id = ring[h].id /\ ring[j].part = IF t = "FLUSH" THEN "status" ELSE "data"
             /\ \A j \in Slots : Off(j) = Off(h) + ChainLen(h) - 1 =>
                  ring[j].id = ring[h].id /\ ring[j].part = "status"
             /\ \A j \in Slots : Off(j) = Off(h) + ChainLen(h) /\ Off(j) < InUse =>
                  ring[j].id = ring[h].id + 1 /\ ring[j].part = "hdr"
  <1> DEFINE t == hdr[ring[h].id].type
  <1>1. ring[h].id \in Ids /\ t \in {"IN", "OUT", "FLUSH"}
    <2>1. ring[h].id \in nreap + 1 .. nreq
      BY Zenon DEF RingInv, Chains
    <2>2. nreap \in Nat /\ nreq \in 0 .. MaxReq /\ MaxReq \in Nat
      BY ConstantsAssumption, Zenon DEF TypeOK
    <2>3. t \in {"IN", "OUT", "FLUSH"}
      BY <2>1, Zenon DEF RingInv, Chains
    <2> QED BY <2>1, <2>2, <2>3 DEF Ids
  <1>2. ChainLen(h) = IF t = "FLUSH" THEN 2 ELSE 3
    BY PartsLen, Zenon DEF ChainLen
  <1>3. Off(h) + 1 < InUse
    BY Bounds DEF RingInv, Chains
  <1>4. PICK b \in Slots : Off(b) = Off(h) + 1
    BY <1>3, Ranges
  <1>5. ring[b].id = ring[h].id /\ ring[b].part = IF t = "FLUSH" THEN "status" ELSE "data"
    BY <1>3, <1>4, Bounds, Zenon DEF RingInv, Chains
  <1>6. Off(h) < Published => Off(b) < Published
    BY <1>3, <1>4, <1>5, Bounds DEF RingInv, Chains
  <1>7. CASE t = "FLUSH"
    BY <1>1, <1>2, <1>3, <1>4, <1>5, <1>6, <1>7, Bounds DEF RingInv, Chains
  <1>8. CASE t # "FLUSH"
    <2>1. Off(b) + 1 < InUse
      BY <1>3, <1>4, <1>5, <1>8, Bounds DEF RingInv, Chains
    <2>2. PICK c \in Slots : Off(c) = Off(b) + 1
      <3>1. Off(b) + 1 \in 0 .. Size - 1
        BY <2>1, Bounds
      <3> QED BY <3>1, Ranges, Zenon
    <2>3. ring[c].id = ring[h].id /\ ring[c].part = "status"
      BY <2>1, <2>2, <1>4, <1>5, <1>8, Bounds, Zenon DEF RingInv, Chains
    <2>4. Off(b) < Published => Off(c) < Published
      BY <2>1, <2>2, <2>3, Bounds DEF RingInv, Chains
    <2>5. \A j \in Slots : Off(j) = Off(c) + 1 /\ Off(j) < InUse =>
             ring[j].id = ring[h].id + 1 /\ ring[j].part = "hdr"
      BY <2>2, <2>3, Bounds DEF RingInv, Chains
    <2> QED BY <1>1, <1>2, <1>3, <1>4, <1>5, <1>6, <1>8, <2>1, <2>2, <2>3, <2>4, <2>5, Ranges
  <1> QED BY <1>7, <1>8, Zenon

----------------------------------------------------------------------------
(* Steps of the device.  None moves the driver's positions or counters.    *)

(* The views of the ring that depend on the driver's positions only. *)
LEMMA Frame ==
  ASSUME UNCHANGED <<drvUsed, drvAvail, num_free>>
  PROVE  /\ \A i \in Slots : Off(i)' = Off(i) /\ Lap(i)' = Lap(i)
         /\ Published' = Published /\ InUse' = InUse
  BY Zenon DEF Off, Lap, Ahead, LapOf, Published, InUse, Dist

(* The chains do not change with the flags and lengths of descriptors, nor *)
(* when all that is in use becomes published.                              *)
LEMMA ChainsFrame ==
  ASSUME Chains, UNCHANGED <<hdr, nreq, nreap>>,
         \A i \in Slots : Off(i)' = Off(i), InUse \in Int, InUse' = InUse,
         \A i \in Slots : /\ ring'[i].next = ring[i].next
                          /\ ring'[i].part = ring[i].part /\ ring'[i].id = ring[i].id,
         Published' = Published \/ Published' = InUse
  PROVE  Chains'
  <1>1. \A i \in Slots : Off(i) < InUse /\ Off(i) = Published' => ring[i].part = "hdr"
    BY DEF Chains
  <1> QED BY <1>1 DEF Chains

(* A step that leaves ring, headers, status bytes and positions alone      *)
(* keeps the shape of the ring.                                            *)
LEMMA QuietFrame ==
  ASSUME TypeOK, RingInv, UNCHANGED <<ring, hdr, stat, vq, drvVars>>
  PROVE  /\ Positions' /\ Chains' /\ Flags' /\ Done' = Done
         /\ \A i \in Slots : Off(i)' = Off(i) /\ Lap(i)' = Lap(i)
         /\ Published' = Published /\ InUse' = InUse
  <1>1. /\ \A i \in Slots : Off(i)' = Off(i) /\ Lap(i)' = Lap(i)
        /\ Published' = Published /\ InUse' = InUse
    BY Frame, Zenon DEF drvVars
  <1>2. Done' = Done
    BY Zenon DEF Done, Dist, drvVars
  <1>3. \A i \in Slots : ChainLen(i)' = ChainLen(i)
    BY Zenon DEF ChainLen
  <1>4. Positions'
    BY <1>1, <1>2, Zenon DEF RingInv, Positions, drvVars
  <1>5. Chains'
    BY <1>1, ChainsFrame, Bounds DEF RingInv, drvVars
  <1>6. Flags'
    BY <1>1, <1>2, <1>3, Zenon DEF RingInv, Flags, Hidden, drvVars
  <1> QED BY <1>1, <1>2, <1>4, <1>5, <1>6, Zenon

(* The steps between two runs of the loop. *)
LEMMA QuietStep ==
  ASSUME TypeOK, RingInv, Wake \/ Drained \/ CheckEvent \/ SetIsr \/ WriteIrqfd
  PROVE  RingInv'
  <1>1. UNCHANGED <<ring, hdr, stat, vq, drvVars>>
    BY Zenon DEF Wake, Drained, CheckEvent, SetIsr, WriteIrqfd, ringVars
  <1>2. /\ dpc \notin {"data", "status", "used", "crash"}
        /\ dpc' \notin {"data", "status", "used", "crash"}
    BY Zenon DEF Wake, Drained, CheckEvent, SetIsr, WriteIrqfd
  <1>3. Cursor'
    BY <1>1, <1>2, QuietFrame, Zenon DEF RingInv, Cursor
  <1>4. Kicked'
    <2>1. CASE Wake
      BY <2>1, Zenon DEF Wake, Kicked
    <2>2. CASE Drained
      BY <2>2, <1>1, AvailIff, QuietFrame, Zenon DEF Drained, Kicked
    <2>3. CASE CheckEvent \/ SetIsr \/ WriteIrqfd
      BY <2>3, <1>1, QuietFrame, Zenon
      DEF CheckEvent, SetIsr, WriteIrqfd, RingInv, Kicked, drvVars, sigVars
    <2> QED BY <2>1, <2>2, <2>3, Zenon
  <1> QED BY <1>1, <1>2, <1>3, <1>4, QuietFrame, Zenon DEF RingInv

----------------------------------------------------------------------------
(* Steps of the guest.                                                     *)

(* The steps that touch neither the ring nor the driver's positions. *)
LEMMA HandlerStep ==
  ASSUME TypeOK, RingInv,
         Kick \/ IsrCopy \/ IsrClear \/ NoMore \/ DisableCb \/ EnableCb \/ Recheck
  PROVE  RingInv'
  <1>1. /\ UNCHANGED <<ring, hdr, stat, vq, locals, drvUsed, drvAvail, num_free, nreq, nreap>>
        /\ gpc # "publish" /\ gpc' # "publish"
    BY Zenon DEF Kick, IsrCopy, IsrClear, NoMore, DisableCb, EnableCb, Recheck, ringVars, devVars
  <1>2. /\ \A i \in Slots : Off(i)' = Off(i) /\ Lap(i)' = Lap(i)
        /\ Published' = Published /\ InUse' = InUse
    BY <1>1, Frame, Zenon
  <1>3. Done' = Done /\ \A i \in Slots : ChainLen(i)' = ChainLen(i)
    BY <1>1, Zenon DEF Done, Dist, ChainLen
  <1>4. Positions'
    BY <1>1, <1>2, <1>3, Zenon DEF RingInv, Positions
  <1>5. Chains'
    BY <1>1, <1>2, ChainsFrame, Bounds DEF RingInv
  <1>6. Flags'
    BY <1>1, <1>2, <1>3, Zenon DEF RingInv, Flags, Hidden
  <1>7. Cursor' /\ dpc' # "crash"
    <2>1. dpc' = dpc \/ (dpc = "idle" /\ dpc' = "get")
      BY Zenon DEF Kick, IsrCopy, IsrClear, NoMore, DisableCb, EnableCb, Recheck, devVars, GuestRuns
    <2>2. UNCHANGED <<ring, hdr, stat, desc, used_desc, type, status>>
      BY <1>1, Zenon DEF locals
    <2>3. used_desc \in Slots /\ desc \in Slots
      BY Zenon DEF TypeOK
    <2>4. CASE dpc' = dpc
      BY <1>2, <1>3, <2>2, <2>3, <2>4, Zenon DEF RingInv, Cursor
    <2>5. CASE dpc = "idle" /\ dpc' = "get"
      BY <1>2, <1>3, <2>2, <2>5, Zenon DEF RingInv, Cursor
    <2> QED BY <2>1, <2>4, <2>5, Zenon
  <1>8. Kicked'
    <2>1. CASE Kick
      BY <2>1, <1>2, <1>3, Zenon DEF Kick, Kicked
    <2>2. CASE ~Kick
      <3>1. UNCHANGED <<kick, dpc>> /\ gpc # "kick"
        BY <2>2, Zenon DEF IsrCopy, IsrClear, NoMore, DisableCb, EnableCb, Recheck, devVars, sigVars
      <3> QED BY <3>1, <1>2, <1>3, Zenon DEF RingInv, Kicked
    <2> QED BY <2>1, <2>2, Zenon
  <1> QED BY <1>4, <1>5, <1>6, <1>7, <1>8, Zenon DEF RingInv

(* The head's flags complete a chain that is otherwise in place. *)
LEMMA PublishStep ==
  ASSUME TypeOK, RingInv, Publish
  PROVE  RingInv'
  <1> DEFINE a == drvAvail.idx
             n == Len(Parts(hdr[nreq].type))
  <1>1. n \in {2, 3} /\ InUse = Published + n /\ Published < InUse /\ Published < Size
    BY PartsLen, Bounds DEF RingInv, Positions, Publish
  <1>2. a \in Slots /\ Off(a) = Published /\ Lap(a) = drvAvail.wrap
    BY <1>1, Bounds, DistAhead, Zenon DEF TypeOK, Off, Lap, Published
  <1>3. drvAvail' \in Position /\ Published' = InUse
    <2>1. /\ drvUsed \in Position /\ drvAvail \in Position
          /\ drvUsed' = drvUsed /\ drvAvail' = Advance(drvAvail, n)
      BY Zenon DEF TypeOK, Publish
    <2>2. n \in Nat /\ Dist(drvUsed, drvAvail) >= 0 /\ Dist(drvUsed, drvAvail) + n <= Size
      BY <1>1, Bounds DEF Published
    <2>3. drvAvail' \in Position /\ Dist(drvUsed, drvAvail') = Dist(drvUsed, drvAvail) + n
      BY <2>1, <2>2, DistAdvance, Zenon
    <2> QED BY <1>1, <2>1, <2>3, Zenon DEF Published
  <1>4. /\ \A i \in Slots : Off(i)' = Off(i) /\ Lap(i)' = Lap(i)
        /\ InUse' = InUse /\ Done' = Done
    BY Zenon DEF Publish, Off, Lap, Ahead, LapOf, InUse, Done, Dist, devVars
  <1>5. /\ \A i \in Slots : /\ ring'[i].next = ring[i].next
                            /\ ring'[i].part = ring[i].part /\ ring'[i].id = ring[i].id
        /\ \A i \in Slots \ {a} : ring'[i].avail = ring[i].avail /\ ring'[i].used = ring[i].used
        /\ ring'[a].avail = Lap(a) /\ ring'[a].used # Lap(a)
    <2>1. /\ ring' = [ring EXCEPT ![a].avail = drvAvail.wrap, ![a].used = 1 - drvAvail.wrap]
          /\ ring \in [Slots -> Desc] /\ drvAvail.wrap \in {0, 1}
      BY Zenon DEF Publish, TypeOK, Position
    <2> QED BY <1>2, <2>1 DEF Desc
  <1>6. /\ UNCHANGED <<hdr, stat, vq, dpc, locals, num_free, nreq, nreap, drvUsed>>
        /\ gpc = "publish" /\ gpc' = "kick"
    BY Zenon DEF Publish, devVars
  <1>7. \A i \in Slots : ChainLen(i)' = ChainLen(i)
    BY <1>5, <1>6, Zenon DEF ChainLen
  <1>8. Positions'
    BY <1>3, <1>4, <1>6, Bounds DEF RingInv, Positions
  <1>9. Chains'
    BY <1>3, <1>4, <1>5, <1>6, ChainsFrame, Bounds DEF RingInv
  <1>10. Flags'
    <2> SUFFICES ASSUME NEW i \in Slots
                 PROVE  /\ Off(i) < InUse => ring'[i].avail = Lap(i)
                        /\ Off(i) >= InUse => ring'[i].avail # Lap(i)
                        /\ Done <= Off(i) /\ Off(i) < InUse => ring'[i].used # Lap(i)
                        /\ Off(i) < InUse /\ ring'[i].used = Lap(i) =>
                             /\ ring[i].part = "hdr" /\ Off(i) + ChainLen(i) <= Done
                             /\ stat[ring[i].id] # "none"
      BY <1>3, <1>4, <1>5, <1>6, <1>7, Bounds, Zenon DEF Flags, Hidden
    <2>1. CASE i = a
      BY <2>1, <1>1, <1>2, <1>5, Bounds
    <2>2. CASE i # a /\ Off(i) < Published
      <3>1. Off(i) < InUse /\ ~(Off(i) >= InUse) /\ Off(i) # Published
        BY <2>2, <1>1, Bounds
      <3> QED BY <2>2, <3>1, <1>5 DEF RingInv, Flags, Hidden
    <2>3. CASE i # a /\ Off(i) > Published
      <3>1. /\ Off(i) < InUse => ring'[i].avail = Lap(i)
            /\ Off(i) >= InUse => ring'[i].avail # Lap(i)
        BY <2>3, <1>1, <1>5, Bounds DEF RingInv, Flags, Hidden
      <3>2. Off(i) < InUse => ring'[i].used # Lap(i)
        BY <2>3, <1>5, <1>6, Bounds DEF RingInv, Flags, Hidden
      <3> QED BY <3>1, <3>2, Zenon
    <2> QED BY <2>1, <2>2, <2>3, <1>2, Ranges
  <1>11. Cursor' /\ dpc' # "crash"
    <2>1. UNCHANGED <<hdr, stat, dpc, desc, used_desc, type, status>>
      BY <1>6, Zenon DEF locals
    <2>2. CASE dpc \notin {"data", "status", "used", "crash"}
      <3>1. \A i \in Slots : Off(i) = Done /\ Done < InUse => ring[i].part = "hdr"
        <4>1. Done < InUse => Done < Published \/ Done = Published
          BY Bounds
        <4> QED BY <2>2, <4>1, Zenon DEF RingInv, Cursor, Chains
      <3> QED BY <2>1, <2>2, <3>1, <1>3, <1>4, <1>5, Zenon DEF Cursor
    <2>3. CASE dpc \in {"data", "status", "used"}
      <3>1. used_desc \in Slots /\ desc \in Slots
        BY Zenon DEF TypeOK
      <3>2. Cursor /\ Off(used_desc) < Published
        BY <2>3, Zenon DEF RingInv, Cursor
      <3>3. used_desc # a /\ Off(used_desc) < InUse
        BY <3>1, <3>2, <1>1, <1>2, Bounds
      <3>4. /\ ring'[used_desc].part = ring[used_desc].part
            /\ ring'[used_desc].id = ring[used_desc].id
            /\ ring'[used_desc].used = ring[used_desc].used
        BY <3>1, <3>3, <1>5, Zenon
      <3> QED BY <2>1, <2>3, <3>1, <3>2, <3>3, <3>4, <1>3, <1>4, <1>7, Zenon DEF Cursor
    <2> QED BY <2>1, <2>2, <2>3, Zenon DEF RingInv
  <1>12. Kicked'
    BY <1>6, Zenon DEF Kicked
  <1> QED BY <1>8, <1>9, <1>10, <1>11, <1>12, Zenon DEF RingInv

----------------------------------------------------------------------------
(* The steps of the device thread.                                         *)

(* Taking one descriptor more, of a published chain. *)
LEMMA TakeFrame ==
  ASSUME TypeOK, RingInv, Done < Published, vq' = Advance(vq, 1),
         UNCHANGED <<ring, hdr, drvVars>>,
         \A k \in Ids : stat[k] # "none" => stat'[k] # "none"
  PROVE  /\ Positions' /\ Chains' /\ Flags' /\ Done' = Done + 1
         /\ \A i \in Slots : Off(i)' = Off(i) /\ Lap(i)' = Lap(i) /\ ChainLen(i)' = ChainLen(i)
         /\ Published' = Published /\ InUse' = InUse
  <1>1. /\ \A i \in Slots : Off(i)' = Off(i) /\ Lap(i)' = Lap(i)
        /\ Published' = Published /\ InUse' = InUse
    BY Frame, Zenon DEF drvVars
  <1>2. Done' = Done + 1
    BY Bounds, DistAdvance DEF Done, drvVars, TypeOK
  <1>3. \A i \in Slots : ChainLen(i)' = ChainLen(i)
    BY Zenon DEF ChainLen
  <1>4. Positions'
    BY <1>1, <1>2, Bounds DEF RingInv, Positions, drvVars
  <1>5. Chains'
    BY <1>1, ChainsFrame, Bounds DEF RingInv, drvVars
  <1>6. Flags'
    <2> SUFFICES ASSUME NEW i \in Slots
                 PROVE  /\ Off(i) < InUse /\ ~(gpc = "publish" /\ Off(i) = Published) => ring[i].avail = Lap(i)
                        /\ Off(i) >= InUse \/ (gpc = "publish" /\ Off(i) = Published) => ring[i].avail # Lap(i)
                        /\ Done + 1 <= Off(i) /\ Off(i) < InUse /\ ~(gpc = "publish" /\ Off(i) = Published) => ring[i].used # Lap(i)
                        /\ Off(i) < Published /\ ring[i].used = Lap(i) =>
                             /\ ring[i].part = "hdr" /\ Off(i) + ChainLen(i) <= Done + 1
                             /\ stat'[ring[i].id] # "none"
      BY <1>1, <1>2, <1>3, Zenon DEF Flags, Hidden, drvVars
    <2>1. Off(i) < Published /\ ring[i].used = Lap(i) =>
                             /\ ring[i].part = "hdr" /\ Off(i) + ChainLen(i) <= Done
                             /\ stat[ring[i].id] # "none"
      BY Zenon DEF RingInv, Flags, Hidden
    <2>2. Off(i) < Published /\ ring[i].part = "hdr" =>
             ring[i].id \in Ids /\ ChainLen(i) \in Nat
      BY ChainShape, Bounds
    <2> QED BY <2>1, <2>2, Bounds DEF RingInv, Flags, Hidden
  <1> QED BY <1>1, <1>2, <1>3, <1>4, <1>5, <1>6, Zenon

(* The head of a chain: virtq_get_avail finds it where a chain begins. *)
LEMMA GetHeadStep ==
  ASSUME TypeOK, RingInv, GetHead
  PROVE  RingInv'
  <1> DEFINE h == vq.idx
  <1>1. Done < Published /\ Done < Size
    BY AvailIff, Bounds DEF GetHead
  <1>2. h \in Slots /\ Off(h) = Done /\ ring[h].part = "hdr" /\ ring[h].used # Lap(h)
    <2>1. h \in Slots /\ Off(h) = Done
      BY <1>1, NextSlot, Zenon
    <2>2. ring[h].part = "hdr"
      BY <1>1, <2>1, Zenon DEF GetHead, RingInv, Cursor
    <2>3. ring[h].used # Lap(h)
      BY <1>1, <2>1, Bounds DEF RingInv, Flags, Hidden
    <2> QED BY <2>1, <2>2, <2>3, Zenon
  <1>3. /\ Positions' /\ Chains' /\ Flags' /\ Done' = Done + 1
        /\ \A i \in Slots : Off(i)' = Off(i) /\ Lap(i)' = Lap(i) /\ ChainLen(i)' = ChainLen(i)
        /\ Published' = Published
    <2>1. /\ vq' = Advance(vq, 1) /\ UNCHANGED <<ring, hdr, drvVars>>
          /\ \A k \in Ids : stat[k] # "none" => stat'[k] # "none"
      BY Zenon DEF GetHead, NextAvail, ringVars
    <2> QED BY <2>1, <1>1, TakeFrame, Zenon
  <1>4. /\ type' = hdr[ring[h].id].type /\ desc' = h /\ used_desc' = h
        /\ type' \in {"IN", "OUT"} => dpc' = "data"
        /\ type' \notin {"IN", "OUT"} => dpc' = "status" /\ status' = "UNSUPP"
        /\ ring' = ring /\ hdr' = hdr
    BY <1>2, Zenon DEF GetHead, ringVars
  <1>5. /\ type' \in {"IN", "OUT", "FLUSH"}
        /\ ChainLen(h) = IF type' = "FLUSH" THEN 2 ELSE 3
    BY <1>1, <1>2, <1>4, ChainShape, Bounds
  <1>6. Cursor'
    BY <1>1, <1>2, <1>3, <1>4, <1>5, Bounds DEF Cursor
  <1>7. Kicked' /\ dpc' # "crash"
    BY <1>4, Zenon DEF Kicked
  <1> QED BY <1>3, <1>6, <1>7, Zenon DEF RingInv

(* The second descriptor of a read or a write is there. *)
LEMMA TransferStep ==
  ASSUME TypeOK, RingInv, Transfer
  PROVE  /\ RingInv' /\ Done < Published /\ dpc' = "status"
         /\ ring[vq.idx].id = ring[used_desc].id /\ ring[vq.idx].id \in Ids
  <1> DEFINE u == used_desc
  <1>1. /\ dpc = "data" /\ u \in Slots /\ Off(u) < Published /\ ring[u].part = "hdr"
        /\ ring[u].used # Lap(u) /\ Done = Off(u) + 1
        /\ type = hdr[ring[u].id].type /\ type \in {"IN", "OUT"}
    BY Zenon DEF Transfer, RingInv, Cursor, TypeOK
  <1>2. ChainLen(u) = 3 /\ Off(u) + 3 <= Published /\ ring[u].id \in Ids
    BY <1>1, ChainShape, Bounds
  <1>3. Done < Published /\ Done < Size
    BY <1>1, <1>2, Bounds
  <1>4. vq.idx \in Slots /\ Off(vq.idx) = Done
    BY <1>3, NextSlot, Zenon
  <1>5. /\ Positions' /\ Chains' /\ Flags' /\ Done' = Done + 1
        /\ \A i \in Slots : Off(i)' = Off(i) /\ Lap(i)' = Lap(i) /\ ChainLen(i)' = ChainLen(i)
        /\ Published' = Published
    <2>1. /\ vq' = Advance(vq, 1) /\ UNCHANGED <<ring, hdr, drvVars>>
          /\ \A k \in Ids : stat[k] # "none" => stat'[k] # "none"
      BY Zenon DEF Transfer, NextAvail
    <2> QED BY <2>1, <1>3, TakeFrame, Zenon
  <1>6. /\ dpc' = "status" /\ desc' = vq.idx /\ status' # "none"
        /\ UNCHANGED <<ring, hdr, used_desc, type>>
    BY <1>3, AvailIff, Zenon DEF Transfer
  <1>7. Cursor'
    BY <1>1, <1>2, <1>3, <1>4, <1>5, <1>6, Bounds DEF Cursor
  <1>8. Kicked' /\ dpc' # "crash"
    BY <1>6, Zenon DEF Kicked
  <1>9. ring[vq.idx].id = ring[u].id
    BY <1>1, <1>3, <1>4, ChainShape, Bounds
  <1> QED BY <1>2, <1>3, <1>5, <1>6, <1>7, <1>8, <1>9, Zenon DEF RingInv

(* A chain does not end before its status descriptor. *)
LEMMA NoNextStep ==
  ASSUME TypeOK, RingInv, NoNext
  PROVE  FALSE
  <1> DEFINE u == used_desc
  <1>1. /\ u \in Slots /\ desc \in Slots /\ Off(u) < Published /\ ring[u].part = "hdr"
    BY Zenon DEF NoNext, RingInv, Cursor, TypeOK
  <1>2. ChainLen(u) \in {2, 3} /\ Off(u) + ChainLen(u) <= Published
    BY <1>1, ChainShape, Bounds
  <1>3. CASE dpc = "data"
    <2>1. desc = u
      BY <1>3, Zenon DEF RingInv, Cursor
    <2> QED BY <1>1, <2>1, Bounds DEF NoNext, RingInv, Chains
  <1>4. CASE dpc = "status"
    <2>1. Off(desc) + 1 = Done /\ Off(u) + ChainLen(u) = Done + 1
      BY <1>4, Zenon DEF RingInv, Cursor
    <2>2. Off(desc) < InUse /\ (desc = u \/ (Off(desc) = Off(u) + 1 /\ ChainLen(u) = 3))
      <3>1. Off(desc) \in Int /\ Off(u) \in Int /\ Done \in Int
        BY <1>1, Bounds
      <3>2. Off(desc) < InUse
        BY <1>2, <2>1, <3>1, Bounds
      <3>3. Off(desc) = Off(u) \/ (Off(desc) = Off(u) + 1 /\ ChainLen(u) = 3)
        BY <1>2, <2>1, <3>1
      <3> QED BY <1>1, <3>2, <3>3, Ranges, Zenon
    <2>3. ring[desc].part # "status"
      BY <1>1, <2>2, ChainShape, Bounds
    <2> QED BY <1>1, <2>2, <2>3, Zenon DEF NoNext, RingInv, Chains
  <1> QED BY <1>3, <1>4, Zenon DEF NoNext

(* The status descriptor is there, and it is this request's. *)
LEMMA PutStatusStep ==
  ASSUME TypeOK, RingInv, PutStatus
  PROVE  /\ RingInv' /\ Done < Published /\ dpc' = "used"
         /\ ring[vq.idx].id = ring[used_desc].id /\ ring[vq.idx].part = "status"
         /\ stat' = [stat EXCEPT ![ring[used_desc].id] = status] /\ ring[used_desc].id \in Ids
  <1> DEFINE u == used_desc
  <1>1. /\ dpc = "status" /\ u \in Slots /\ Off(u) < Published /\ ring[u].part = "hdr"
        /\ ring[u].used # Lap(u) /\ Off(u) + ChainLen(u) = Done + 1
        /\ type = hdr[ring[u].id].type /\ status # "none"
    BY Zenon DEF PutStatus, RingInv, Cursor, TypeOK
  <1>2. ChainLen(u) \in {2, 3} /\ Off(u) + ChainLen(u) <= Published /\ ring[u].id \in Ids
    BY <1>1, ChainShape, Bounds
  <1>3. Done < Published /\ Done < Size
    BY <1>1, <1>2, Bounds
  <1>4. vq.idx \in Slots /\ Off(vq.idx) = Done
    BY <1>3, NextSlot, Zenon
  <1>5. ring[vq.idx].id = ring[u].id /\ ring[vq.idx].part = "status"
    BY <1>1, <1>2, <1>3, <1>4, ChainShape, Bounds
  <1>6. stat' = [stat EXCEPT ![ring[u].id] = status] /\ stat \in [Ids -> Statuses]
    BY <1>5, Zenon DEF PutStatus, TypeOK
  <1>7. /\ Positions' /\ Chains' /\ Flags' /\ Done' = Done + 1
        /\ \A i \in Slots : Off(i)' = Off(i) /\ Lap(i)' = Lap(i) /\ ChainLen(i)' = ChainLen(i)
        /\ Published' = Published
    <2>1. /\ vq' = Advance(vq, 1) /\ UNCHANGED <<ring, hdr, drvVars>>
      BY Zenon DEF PutStatus, NextAvail
    <2>2. status # "none"
      BY <1>1, Zenon
    <2>3. \A k \in Ids : stat[k] # "none" => stat'[k] # "none"
      BY <1>6, <2>2, Zenon
    <2> QED BY <2>1, <2>3, <1>3, TakeFrame, Zenon
  <1>8. dpc' = "used" /\ UNCHANGED <<ring, hdr, used_desc, type>>
    BY <1>3, AvailIff, Zenon DEF PutStatus
  <1>9. stat'[ring[u].id] # "none"
    BY <1>1, <1>2, <1>6, Zenon
  <1>10. Cursor'
    BY <1>1, <1>2, <1>7, <1>8, <1>9, Bounds, Zenon DEF Cursor
  <1>11. Kicked' /\ dpc' # "crash"
    BY <1>8, Zenon DEF Kicked
  <1> QED BY <1>2, <1>3, <1>5, <1>6, <1>7, <1>8, <1>10, <1>11, Zenon DEF RingInv

(* Only a whole chain is marked. *)
LEMMA MarkUsedStep ==
  ASSUME TypeOK, RingInv, MarkUsed
  PROVE  RingInv'
  <1> DEFINE u == used_desc
  <1>1. /\ dpc = "used" /\ u \in Slots /\ Off(u) < Published /\ ring[u].part = "hdr"
        /\ ring[u].used # Lap(u) /\ Off(u) + ChainLen(u) = Done /\ stat[ring[u].id] # "none"
    BY Zenon DEF MarkUsed, RingInv, Cursor, TypeOK
  <1>2. ChainLen(u) \in {2, 3} /\ Off(u) + ChainLen(u) <= Published /\ ring[u].id \in Ids
    BY <1>1, ChainShape, Bounds
  <1>3. /\ \A i \in Slots : Off(i)' = Off(i) /\ Lap(i)' = Lap(i)
        /\ Published' = Published /\ InUse' = InUse
    BY Frame, Zenon DEF MarkUsed, drvVars
  <1>4. /\ \A i \in Slots : /\ ring'[i].avail = ring[i].avail /\ ring'[i].next = ring[i].next
                            /\ ring'[i].part = ring[i].part /\ ring'[i].id = ring[i].id
        /\ \A i \in Slots \ {u} : ring'[i].used = ring[i].used
        /\ ring'[u].used = Lap(u)
    <2>1. ring' = [ring EXCEPT ![u].used = 1 - @] /\ ring \in [Slots -> Desc]
      BY Zenon DEF MarkUsed, TypeOK
    <2>2. Lap(u) \in {0, 1} /\ ring[u].used \in {0, 1}
      BY <1>1, <2>1, Ranges, Zenon DEF Desc
    <2> QED BY <1>1, <2>1, <2>2 DEF Desc
  <1>5. UNCHANGED <<hdr, stat, vq, drvVars, used_desc>> /\ dpc' = "len"
    BY Zenon DEF MarkUsed, locals
  <1>6. Done' = Done /\ \A i \in Slots : ChainLen(i)' = ChainLen(i)
    BY <1>4, <1>5, Zenon DEF Done, Dist, drvVars, ChainLen
  <1>7. Positions'
    BY <1>3, <1>5, <1>6, Zenon DEF RingInv, Positions, drvVars
  <1>8. Chains'
    BY <1>3, <1>4, <1>5, ChainsFrame, Bounds DEF RingInv, drvVars
  <1>9. Flags'
    BY <1>1, <1>2, <1>3, <1>4, <1>5, <1>6, Bounds DEF RingInv, Flags, Hidden, drvVars
  <1>10. Cursor'
    <2>1. \A i \in Slots : Off(i) = Done /\ Done < Published => ring[i].part = "hdr"
      BY <1>1, <1>2, ChainShape, Bounds
    <2> QED BY <2>1, <1>3, <1>4, <1>5, <1>6, Zenon DEF Cursor
  <1>11. Kicked' /\ dpc' # "crash"
    BY <1>5, Zenon DEF Kicked
  <1> QED BY <1>7, <1>8, <1>9, <1>10, <1>11, Zenon DEF RingInv

(* The length is no part of the shape of the ring. *)
LEMMA PutLenStep ==
  ASSUME TypeOK, RingInv, PutLen
  PROVE  RingInv'
  <1>1. /\ \A i \in Slots : Off(i)' = Off(i) /\ Lap(i)' = Lap(i)
        /\ Published' = Published /\ InUse' = InUse
    BY Frame, Zenon DEF PutLen, drvVars
  <1>2. \A i \in Slots : /\ ring'[i].avail = ring[i].avail /\ ring'[i].next = ring[i].next
                         /\ ring'[i].part = ring[i].part /\ ring'[i].id = ring[i].id
                         /\ ring'[i].used = ring[i].used
    BY Zenon DEF PutLen, TypeOK, Desc
  <1>3. UNCHANGED <<hdr, stat, vq, drvVars>> /\ dpc = "len" /\ dpc' = "get"
    BY Zenon DEF PutLen
  <1>4. Done' = Done /\ \A i \in Slots : ChainLen(i)' = ChainLen(i)
    BY <1>2, <1>3, Zenon DEF Done, Dist, drvVars, ChainLen
  <1>5. Positions'
    BY <1>1, <1>3, <1>4, Zenon DEF RingInv, Positions, drvVars
  <1>6. Chains'
    BY <1>1, <1>2, <1>3, ChainsFrame, Bounds DEF RingInv, drvVars
  <1>7. Flags'
    BY <1>1, <1>2, <1>3, <1>4 DEF RingInv, Flags, Hidden, drvVars
  <1>8. Cursor'
    BY <1>1, <1>2, <1>3, <1>4, Zenon DEF RingInv, Cursor
  <1>9. Kicked' /\ dpc' # "crash"
    BY <1>3, Zenon DEF Kicked
  <1> QED BY <1>5, <1>6, <1>7, <1>8, <1>9, Zenon DEF RingInv

LEMMA DeviceStepInv ==
  ASSUME TypeOK, RingInv, DeviceStep
  PROVE  RingInv'
  BY QuietStep, GetHeadStep, NoNextStep, TransferStep, PutStatusStep, MarkUsedStep, PutLenStep, Zenon
     DEF DeviceStep

----------------------------------------------------------------------------
(* Which requests are answered.                                            *)

(* The head the device takes is that of the first request not answered. *)
LEMMA GetHeadAnswered ==
  ASSUME TypeOK, RingInv, RingInv', NEW m \in Nat, Answered(m), GetHead
  PROVE  Answered(m)' /\ ring[vq.idx].id = m + 1 /\ type' = hdr[m + 1].type
  <1> DEFINE h == vq.idx
  <1>1. dpc = "get" /\ Done < Published
    BY AvailIff, Zenon DEF GetHead
  <1>2. h \in Slots /\ Off(h) = Done /\ Done < InUse
    BY <1>1, NextSlot, Bounds
  <1>3. ring[h].id = m + 1
    BY <1>1, <1>2, Zenon DEF Answered
  <1>4. ring[h].part = "hdr"
    BY <1>1, <1>2, Zenon DEF RingInv, Cursor
  <1>5. /\ type' = hdr[m + 1].type /\ sector' = hdr[m + 1].sector /\ used_desc' = h
        /\ dpc' = IF type' \in {"IN", "OUT"} THEN "data" ELSE "status"
        /\ UNCHANGED <<ring, hdr, buf, stat, nreq>>
    BY <1>3, <1>4, Zenon DEF GetHead, ringVars, drvVars
  <1>6. Answered(m)'
    BY <1>1, <1>3, <1>5, Zenon DEF Answered
  <1> QED BY <1>3, <1>5, <1>6, Zenon

(* The transfer touches the buffer of that request only. *)
LEMMA TransferAnswered ==
  ASSUME TypeOK, RingInv, NEW m \in Nat, Answered(m), Transfer
  PROVE  Answered(m)' /\ ring[vq.idx].id = m + 1 /\ dpc' = "status"
  <1>1. dpc = "data" /\ dpc' = "status" /\ ring[vq.idx].id = m + 1
    BY TransferStep, Zenon DEF Transfer, Answered
  <1>2. UNCHANGED <<ring, hdr, stat, used_desc, sector, nreq>>
    BY Zenon DEF Transfer, drvVars
  <1>3. \A i \in m + 2 .. nreq : buf'[i] = buf[i]
    <2>1. buf' = buf \/ \E v : buf' = [buf EXCEPT ![m + 1] = v]
      BY <1>1, Zenon DEF Transfer
    <2>2. nreq \in Nat /\ nreq <= MaxReq /\ MaxReq \in Nat /\ buf \in [1 .. MaxReq -> Values \cup {Blank} \cup Statuses]
      BY ConstantsAssumption DEF TypeOK, Ids
    <2> QED BY <2>1, <2>2
  <1>4. nreq \in Nat
    BY DEF TypeOK
  <1> QED BY <1>1, <1>2, <1>3, <1>4 DEF Answered

(* The status byte answers that request, and the next one is next in line. *)
LEMMA PutStatusAnswered ==
  ASSUME TypeOK, RingInv, NEW m \in Nat, Answered(m), PutStatus
  PROVE  Answered(m + 1)' /\ stat' = [stat EXCEPT ![m + 1] = status] /\ status # "none" /\ m + 1 \in Ids
  <1> DEFINE h == vq.idx
  <1>1. /\ dpc = "status" /\ dpc' = "used" /\ Done < Published /\ ring[h].part = "status"
        /\ ring[h].id = m + 1 /\ stat' = [stat EXCEPT ![m + 1] = status] /\ m + 1 \in Ids
    <2>1. dpc = "status" /\ ring[used_desc].id = m + 1
      BY Zenon DEF PutStatus, Answered
    <2> QED BY <2>1, PutStatusStep, Zenon
  <1>2. h \in Slots /\ Off(h) = Done /\ Done < InUse
    BY <1>1, NextSlot, Bounds
  <1>3. m + 1 <= nreq /\ nreq \in Nat
    BY <1>1, <1>2 DEF RingInv, Chains, TypeOK
  <1>4. UNCHANGED <<ring, hdr, buf, sector, nreq>> /\ vq' = Advance(vq, 1) /\ UNCHANGED drvVars
    BY <1>1, Zenon DEF PutStatus, drvVars, NextAvail
  <1>5. Done' = Done + 1 /\ InUse' = InUse /\ \A i \in Slots : Off(i)' = Off(i)
    BY <1>1, <1>4, Bounds, DistAdvance, Frame DEF TypeOK, Done, drvVars
  <1>6. Done + 1 = InUse => m + 1 = nreq
    BY <1>1, <1>2, Bounds DEF RingInv, Chains
  <1>7. \A i \in Slots : Off(i) = Done + 1 /\ Done + 1 < InUse => ring[i].id = m + 2
    BY <1>1, <1>2 DEF RingInv, Chains
  <1>8. status # "none"
    BY <1>1, Zenon DEF RingInv, Cursor
  <1>9. \A i \in Ids : stat'[i] # "none" <=> i <= m + 1
    <2>1. stat \in [Ids -> Statuses] /\ \A i \in Ids : stat[i] # "none" <=> i <= m
      BY Zenon DEF TypeOK, Answered
    <2>2. \A i \in Ids : i \in Int
      BY DEF Ids
    <2> QED BY <1>1, <1>8, <2>1, <2>2
  <1>10. \A i \in m + 2 .. nreq : buf[i] = IF hdr[i].type = "IN" THEN Blank ELSE hdr[i].val
    BY <1>1, <1>3 DEF Answered
  <1>11. Answered(m + 1)'
    BY <1>1, <1>3, <1>4, <1>5, <1>6, <1>7, <1>9, <1>10 DEF Answered
  <1> QED BY <1>1, <1>8, <1>11, Zenon
==============================================================================
