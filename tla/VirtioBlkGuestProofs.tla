------------------------ MODULE VirtioBlkGuestProofs -------------------------
(***************************************************************************)
(* The steps of the driver that add a chain to those in use and that take  *)
(* one off them preserve RingInv.  Prepare writes a chain behind those in  *)
(* use.  Reap frees the oldest one: the origin from which the invariant    *)
(* measures the ring moves on by a chain.                                  *)
(***************************************************************************)
EXTENDS VirtioBlkRing

(* The driver writes a chain into free descriptors, its head still hidden, *)
(* and leaves the descriptors in use alone.                                *)
LEMMA PrepareStep ==
  ASSUME TypeOK, RingInv, ExpectedChains, NEW q \in Requests, Prepare(q)
  PROVE  /\ RingInv' /\ nreq + 1 \in Ids /\ hdr' = [hdr EXCEPT ![nreq + 1] = q]
         /\ \A i \in Slots : Off(i)' = Off(i)
         /\ Done' = Done /\ InUse' \in InUse + 2 .. InUse + 3
         /\ \A i \in Slots : Off(i) < InUse =>
              ring'[i] = ring[i] /\ ring[i].id \in nreap + 1 .. nreq
         /\ \A i \in Slots : InUse <= Off(i) /\ Off(i) < InUse' =>
              /\ ring'[i].id = nreq + 1 /\ ring'[i].len = PartLen(ring'[i].part)
              /\ ring'[i].part = "hdr" => Off(i) = InUse
  <1> DEFINE parts == Parts(q.type)
             n == Len(parts)
             New(i) == InUse <= Off(i) /\ Off(i) < InUse + n
  <1>1. /\ q.type \in {"IN", "OUT", "FLUSH"}
        /\ n = IF q.type = "FLUSH" THEN 2 ELSE 3
    BY PartsLen, Zenon DEF ExpectedChains
  <1>2. /\ gpc = "run" /\ Published = InUse /\ n <= num_free /\ InUse + n <= Size /\ InUse < Size
        /\ num_free' = num_free - n /\ InUse' = InUse + n /\ num_free \in 0 .. Size
    BY <1>1, Bounds DEF Prepare, RingInv, Positions, InUse
  <1>3. /\ nreq' = nreq + 1 /\ nreq + 1 \in Ids /\ gpc' = "publish"
        /\ hdr' = [hdr EXCEPT ![nreq + 1] = q]
        /\ UNCHANGED <<stat, vq, dpc, locals, kick, drvUsed, drvAvail, nreap>>
    <2>1. nreq \in Nat /\ nreq < MaxReq /\ MaxReq \in Nat
      BY ConstantsAssumption DEF Prepare, TypeOK
    <2> QED BY <2>1 DEF Prepare, Ids, devVars, sigVars
  <1>4. /\ \A i \in Slots : Off(i)' = Off(i) /\ Lap(i)' = Lap(i)
        /\ Published' = Published /\ Done' = Done
    BY <1>3, Zenon DEF Off, Lap, Ahead, LapOf, Published, Done, Dist
  <1>5. ASSUME NEW i \in Slots
        PROVE  /\ ~New(i) => ring'[i] = ring[i]
               /\ New(i) =>
                    LET k == Off(i) - InUse + 1
                    IN  /\ k \in 1 .. n
                        /\ ring'[i].part = parts[k] /\ ring'[i].id = nreq + 1
                        /\ ring'[i].len = PartLen(parts[k])
                        /\ ring'[i].next <=> k < n
                        /\ k = 1 => ring'[i].avail = ring[i].avail
                        /\ k # 1 => ring'[i].avail = Lap(i) /\ ring'[i].used = 1 - Lap(i)
    <2> DEFINE k == Ahead(drvAvail, i) + 1
               w == LapOf(drvAvail, i)
    <2>1. ring'[i] = IF k > n THEN ring[i]
                     ELSE [avail |-> IF k = 1 THEN ring[i].avail ELSE w,
                           used  |-> IF k = 1 THEN ring[i].used ELSE 1 - w,
                           next  |-> k < n, len |-> PartLen(parts[k]),
                           part  |-> parts[k], id |-> nreq + 1]
      BY Zenon DEF Prepare
    <2>2. /\ Off(i) >= InUse => k = Off(i) - InUse + 1 /\ w = Lap(i)
          /\ Off(i) < InUse => k = Off(i) - InUse + Size + 1
      <3>1. drvUsed \in Position /\ drvAvail \in Position /\ Dist(drvUsed, drvAvail) = InUse
        BY <1>2, Zenon DEF TypeOK, Published
      <3>2. InUse \in 0 .. Size - 1
        BY <1>2, Bounds
      <3>3. /\ Off(i) >= InUse => Ahead(drvAvail, i) = Off(i) - InUse /\ w = Lap(i)
            /\ Off(i) < InUse => Ahead(drvAvail, i) = Off(i) - InUse + Size
        BY <3>1, <3>2, AheadFrom, Zenon DEF Off, Lap
      <3> QED BY <3>2, <3>3, Bounds, Zenon
    <2>3. k <= n <=> New(i)
      BY <1>1, <1>2, <2>2, Bounds
    <2>4. k \in Int /\ n \in Int /\ Off(i) \in Int /\ InUse \in Int
      BY <1>1, <2>2, Bounds
    <2>5. CASE ~New(i)
      BY <2>1, <2>3, <2>4, <2>5
    <2>6. CASE New(i)
      <3>1. k = Off(i) - InUse + 1 /\ w = Lap(i) /\ k \in 1 .. n
        BY <2>2, <2>4, <2>6
      <3>2. ring'[i] = [avail |-> IF k = 1 THEN ring[i].avail ELSE w,
                        used  |-> IF k = 1 THEN ring[i].used ELSE 1 - w,
                        next  |-> k < n, len |-> PartLen(parts[k]),
                        part  |-> parts[k], id |-> nreq + 1]
        BY <2>1, <2>4, <3>1
      <3> HIDE DEF parts, k, w
      <3>3. /\ ring'[i].part = parts[k] /\ ring'[i].id = nreq + 1
            /\ ring'[i].len = PartLen(parts[k])
            /\ k = 1 => ring'[i].avail = ring[i].avail
            /\ k # 1 => ring'[i].avail = w /\ ring'[i].used = 1 - w
        BY <3>2
      <3>4. ring'[i].next = (k < n)
        BY <3>2
      <3> QED BY <2>6, <3>1, <3>3, <3>4, Zenon
    <2> QED BY <2>5, <2>6, Zenon
  <1>6. /\ parts[1] = "hdr" /\ parts[n] = "status"
        /\ n = 3 => parts[2] = "data"
    BY <1>1 DEF Parts
  <1>7. \A k \in nreap + 1 .. nreq : hdr'[k] = hdr[k]
    BY <1>3 DEF TypeOK, Ids
  <1>8. hdr'[nreq + 1] = q
    BY <1>3, Zenon DEF TypeOK
  <1> HIDE DEF parts, New
  <1>9. \A i \in Slots : ~New(i) /\ Off(i) < InUse' => Off(i) < InUse
    BY <1>1, <1>2, Bounds DEF New
  <1>10. \A i \in Slots : Off(i) < InUse =>
           /\ ~New(i) /\ ring'[i] = ring[i] /\ ring[i].id \in nreap + 1 .. nreq
           /\ ring[i].id \in Int /\ hdr'[ring[i].id] = hdr[ring[i].id]
           /\ ChainLen(i)' = ChainLen(i)
    <2> SUFFICES ASSUME NEW i \in Slots, Off(i) < InUse
                 PROVE  /\ ~New(i) /\ ring'[i] = ring[i] /\ ring[i].id \in nreap + 1 .. nreq
                        /\ ring[i].id \in Int /\ hdr'[ring[i].id] = hdr[ring[i].id]
                        /\ ChainLen(i)' = ChainLen(i)
      OBVIOUS
    <2>1. ~New(i)
      BY Bounds DEF New
    <2>2. ring'[i] = ring[i]
      BY <2>1, <1>5, Zenon
    <2>3. ring[i].id \in nreap + 1 .. nreq
      BY Zenon DEF RingInv, Chains
    <2>4. nreap \in Int /\ nreq \in Int
      BY DEF TypeOK
    <2> QED BY <2>1, <2>2, <2>3, <2>4, <1>7 DEF ChainLen
  <1>11. Positions'
    <2>1. nreq \in Nat /\ nreap \in Nat /\ nreap <= nreq
      BY DEF TypeOK, RingInv, Positions
    <2>2. num_free - n \in 0 .. Size
      BY <1>1, <1>2, Bounds
    <2>3. Published = InUse' - n
      BY <1>1, <1>2, Bounds
    <2> QED BY <1>2, <1>3, <1>4, <1>8, <2>1, <2>2, <2>3 DEF RingInv, Positions, parts
  <1>12. Chains'
    <2>1. nreq \in Nat /\ nreap \in Nat /\ nreap <= nreq
      BY DEF TypeOK, RingInv, Positions
    <2>2. InUse' # 0
      BY <1>1, <1>2, Bounds
    <2>3. \A k \in nreap' + 1 .. nreq' : hdr'[k].type \in {"IN", "OUT", "FLUSH"}
      BY <1>1, <1>3, <1>7, <1>8, <2>1 DEF RingInv, Chains
    <2>4. ASSUME NEW i \in Slots, Off(i) < InUse'
          PROVE  /\ ring'[i].id \in nreap + 1 .. nreq + 1
                 /\ ring'[i].part # "none"
                 /\ ring'[i].next <=> ring'[i].part # "status"
                 /\ Off(i) = 0 => ring'[i].part = "hdr" /\ ring'[i].id = nreap + 1
                 /\ Off(i) = Published => ring'[i].part = "hdr"
                 /\ Off(i) = InUse' - 1 => ring'[i].part = "status" /\ ring'[i].id = nreq + 1
      <3>1. CASE New(i)
        <4>1. InUse = 0 => nreq = nreap
          BY Zenon DEF RingInv, Chains
        <4> QED BY <1>1, <1>2, <1>5, <1>6, <2>1, <3>1, <4>1, Bounds DEF New
      <3>2. CASE ~New(i)
        <4>1. Off(i) < InUse /\ ring'[i] = ring[i]
          BY <1>9, <1>10, <2>4, <3>2, Zenon
        <4>2. Off(i) # Published /\ Off(i) # InUse' - 1
          BY <1>1, <1>2, <4>1, Bounds
        <4> QED BY <2>1, <4>1, <4>2 DEF RingInv, Chains
      <3> QED BY <3>1, <3>2, Zenon
    <2>5. ASSUME NEW i \in Slots, NEW j \in Slots, Off(j) < InUse', Off(j) = Off(i) + 1
          PROVE  /\ ring'[i].part = "hdr" =>
                      /\ ring'[j].id = ring'[i].id
                      /\ ring'[j].part = IF hdr'[ring'[i].id].type = "FLUSH" THEN "status" ELSE "data"
                 /\ ring'[i].part = "data" => ring'[j].id = ring'[i].id /\ ring'[j].part = "status"
                 /\ ring'[i].part = "status" => ring'[j].id = ring'[i].id + 1 /\ ring'[j].part = "hdr"
      <3>1. CASE Off(j) < InUse
        <4>1. Off(i) < InUse
          BY <3>1, <2>5, Bounds
        <4>2. /\ ring'[i] = ring[i] /\ ring'[j] = ring[j]
              /\ hdr'[ring[i].id] = hdr[ring[i].id]
          BY <3>1, <4>1, <1>10, Zenon
        <4> QED BY <3>1, <2>5, <4>2 DEF RingInv, Chains
      <3>2. CASE Off(j) = InUse
        <4>1. New(j) /\ Off(i) < InUse /\ Off(i) = InUse - 1
          BY <3>2, <2>5, <1>1, <1>2, Bounds DEF New
        <4>2. ring'[j].part = "hdr" /\ ring'[j].id = nreq + 1
          BY <3>2, <4>1, <1>5, <1>6, Bounds
        <4>3. ring'[i].part = "status" /\ ring'[i].id = nreq
          BY <4>1, <1>10 DEF RingInv, Chains
        <4> QED BY <4>2, <4>3, Zenon
      <3>3. CASE Off(j) > InUse
        <4>1. New(i) /\ New(j)
          BY <3>3, <2>5, <1>2, Bounds, <1>1 DEF New
        <4> QED BY <4>1, <3>3, <2>5, <1>1, <1>2, <1>5, <1>6, <1>8, Bounds
      <3> QED BY <3>1, <3>2, <3>3, Bounds
    <2>6. ASSUME NEW i \in Slots, NEW j \in Slots, Off(j) < InUse', Off(i) < Off(j),
                 ring'[i].part = "status"
          PROVE  ring'[i].id < ring'[j].id
      <3>1. CASE Off(j) < InUse
        <4>1. Off(i) < InUse
          BY <3>1, <2>6, Bounds
        <4>2. ring'[i] = ring[i] /\ ring'[j] = ring[j]
          BY <3>1, <4>1, <1>10, Zenon
        <4> QED BY <3>1, <2>6, <4>2, Zenon DEF RingInv, Chains
      <3>2. CASE Off(j) >= InUse
        <4>1. New(j)
          BY <3>2, <2>6, <1>9, Bounds
        <4>2. Off(i) < InUse
          <5> SUFFICES ASSUME Off(i) >= InUse PROVE FALSE
            BY Bounds
          <5>1. New(i) /\ Off(i) - InUse + 1 < n
            BY <4>1, <2>6, <1>1, Bounds DEF New
          <5>2. ring'[i].part = parts[Off(i) - InUse + 1]
            BY <5>1, <1>5, Zenon
          <5>3. Off(i) - InUse + 1 = 1 \/ (Off(i) - InUse + 1 = 2 /\ n = 3)
            BY <5>1, <1>1, Bounds
          <5> QED BY <5>2, <5>3, <1>6, <2>6, Zenon
        <4> QED BY <4>1, <4>2, <1>5, <1>10, <2>1
      <3> QED BY <3>1, <3>2, Bounds
    <2> QED BY <1>3, <1>4, <2>2, <2>3, <2>4, <2>5, <2>6 DEF Chains
  <1>13. Flags'
    <2> SUFFICES ASSUME NEW i \in Slots
                 PROVE  /\ Off(i) < InUse' /\ Off(i) # Published => ring'[i].avail = Lap(i)
                        /\ Off(i) >= InUse' \/ Off(i) = Published => ring'[i].avail # Lap(i)
                        /\ Done <= Off(i) /\ Off(i) < InUse' /\ Off(i) # Published =>
                             ring'[i].used # Lap(i)
                        /\ Off(i) < Published /\ ring'[i].used = Lap(i) =>
                             /\ ring'[i].part = "hdr" /\ Off(i) + ChainLen(i)' <= Done
                             /\ stat[ring'[i].id] # "none"
      BY <1>3, <1>4, Zenon DEF Flags, Hidden
    <2>1. CASE New(i)
      <3>1. /\ Off(i) >= InUse /\ ~(Off(i) >= InUse') /\ ~(Off(i) < Published)
            /\ Off(i) = Published <=> Off(i) - InUse + 1 = 1
            /\ Lap(i) \in {0, 1}
        BY <2>1, <1>1, <1>2, Ranges DEF New
      <3>2. ring[i].avail # Lap(i)
        BY <3>1, Zenon DEF RingInv, Flags
      <3>3. 1 - Lap(i) # Lap(i)
        BY <3>1
      <3>4. /\ Off(i) = Published => ring'[i].avail = ring[i].avail
            /\ Off(i) # Published => ring'[i].avail = Lap(i) /\ ring'[i].used = 1 - Lap(i)
        BY <2>1, <3>1, <1>5, Zenon
      <3> QED BY <3>1, <3>2, <3>3, <3>4, Zenon
    <2>2. CASE ~New(i) /\ Off(i) < InUse
      <3>1. /\ ring'[i] = ring[i] /\ ChainLen(i)' = ChainLen(i)
            /\ Off(i) # Published /\ ~(Off(i) >= InUse') /\ gpc # "publish"
        BY <2>2, <1>1, <1>2, <1>10, Bounds
      <3>2. /\ ring[i].avail = Lap(i)
            /\ Done <= Off(i) => ring[i].used # Lap(i)
            /\ Off(i) < Published /\ ring[i].used = Lap(i) =>
                 /\ ring[i].part = "hdr" /\ Off(i) + ChainLen(i) <= Done
                 /\ stat[ring[i].id] # "none"
        BY <2>2, <3>1, Zenon DEF RingInv, Flags, Hidden
      <3> QED BY <3>1, <3>2, Zenon
    <2>3. CASE ~New(i) /\ Off(i) >= InUse'
      <3>1. /\ Off(i) >= InUse /\ ~(Off(i) < InUse') /\ ~(Off(i) < Published)
            /\ Off(i) # Published
        BY <2>3, <1>1, <1>2, Bounds
      <3>2. ring[i].avail # Lap(i) /\ ring'[i] = ring[i]
        BY <2>3, <3>1, <1>5, Zenon DEF RingInv, Flags
      <3> QED BY <3>1, <3>2, Zenon
    <2> QED BY <2>1, <2>2, <2>3, <1>9, Bounds, <1>2, <1>1
  <1>14. Cursor' /\ dpc' # "crash"
    <2>1. UNCHANGED <<stat, dpc, desc, used_desc, type, status>>
      BY <1>3, Zenon DEF locals
    <2>2. CASE dpc \notin {"data", "status", "used", "crash"}
      <3>1. \A i \in Slots : Off(i) = Done /\ Done < Published => ring'[i].part = "hdr"
        BY <2>2, <1>2, <1>10, Zenon DEF RingInv, Cursor
      <3> QED BY <2>1, <2>2, <3>1, <1>4, Zenon DEF Cursor
    <2>3. CASE dpc \in {"data", "status", "used"}
      <3>1. used_desc \in Slots /\ desc \in Slots
        BY Zenon DEF TypeOK
      <3>2. Cursor /\ Off(used_desc) < InUse
        BY <2>3, <1>2, Zenon DEF RingInv, Cursor
      <3>3. /\ ring'[used_desc] = ring[used_desc] /\ ChainLen(used_desc)' = ChainLen(used_desc)
            /\ hdr'[ring[used_desc].id] = hdr[ring[used_desc].id]
        BY <2>1, <3>1, <3>2, <1>10, Zenon
      <3> QED BY <2>1, <2>3, <3>1, <3>2, <3>3, <1>4, Zenon DEF Cursor
    <2> QED BY <2>1, <2>2, <2>3, Zenon DEF RingInv
  <1>15. Kicked'
    BY <1>2, <1>3, <1>4, Zenon DEF RingInv, Kicked
  <1>16. ASSUME NEW i \in Slots, InUse <= Off(i), Off(i) < InUse'
         PROVE  /\ ring'[i].id = nreq + 1 /\ ring'[i].len = PartLen(ring'[i].part)
                /\ ring'[i].part = "hdr" => Off(i) = InUse
    <2>1. New(i) /\ Off(i) - InUse + 1 \in 1 .. n
      BY <1>2, <1>5, <1>16, Zenon DEF New
    <2>2. /\ ring'[i].id = nreq + 1 /\ ring'[i].part = parts[Off(i) - InUse + 1]
          /\ ring'[i].len = PartLen(parts[Off(i) - InUse + 1])
      BY <1>5, <2>1, Zenon
    <2>3. Off(i) # InUse => Off(i) - InUse + 1 = n \/ (Off(i) - InUse + 1 = 2 /\ n = 3)
      BY <1>1, <2>1, Bounds
    <2> QED BY <1>6, <2>2, <2>3, Zenon
  <1>17. InUse' \in InUse + 2 .. InUse + 3
    BY <1>1, <1>2, Bounds
  <1>18. RingInv'
    BY <1>11, <1>12, <1>13, <1>14, <1>15, Zenon DEF RingInv
  <1> QED BY <1>3, <1>4, <1>10, <1>16, <1>17, <1>18, Zenon

(* The driver frees the oldest chain, once its head is used: every         *)
(* distance shrinks by the length of that chain.                           *)
LEMMA ReapStep ==
  ASSUME TypeOK, RingInv, Reap
  PROVE  /\ RingInv'
         /\ \E n \in 2 .. 3 :
              /\ n <= Done /\ Done' = Done - n /\ InUse' = InUse - n
              /\ \A i \in Slots : Off(i)' < InUse' =>
                   Off(i) >= n /\ Off(i) < InUse /\ Off(i)' = Off(i) - n
  <1> DEFINE h == drvUsed.idx
             n == ChainLen(h)
             t == hdr[ring[h].id].type
  <1>1. h \in Slots /\ Off(h) = 0 /\ Lap(h) = drvUsed.wrap
    BY ConstantsAssumption DEF TypeOK, Position, Slots, Off, Lap, Ahead, LapOf
  <1>2. /\ gpc = "reap" /\ gpc' = "reap" /\ InUse = Published
        /\ ring[h].avail = Lap(h) /\ ring[h].used = Lap(h)
    BY <1>1, Bounds DEF Reap, IsUsed
  <1>3. 0 < InUse /\ ring[h].part = "hdr" /\ ring[h].id = nreap + 1 /\ n <= Done
    <2>1. 0 < InUse
      BY <1>1, <1>2, Bounds DEF RingInv, Flags, Hidden
    <2>2. ring[h].part = "hdr" /\ ring[h].id = nreap + 1
      BY <1>1, <2>1, Zenon DEF RingInv, Chains
    <2>3. n \in {2, 3}
      BY <1>1, <2>1, <2>2, ChainShape, Zenon
    <2>4. Off(h) + n <= Done
      BY <1>1, <1>2, <2>1, Zenon DEF RingInv, Flags
    <2> QED BY <1>1, <2>1, <2>2, <2>3, <2>4, Bounds
  <1>4. /\ n = (IF t = "FLUSH" THEN 2 ELSE 3) /\ n <= InUse /\ n <= Size
        /\ \A j \in Slots : Off(j) = 1 =>
             ring[j].part = (IF t = "FLUSH" THEN "status" ELSE "data")
        /\ \A j \in Slots : Off(j) = n - 1 => ring[j].id = nreap + 1 /\ ring[j].part = "status"
        /\ \A j \in Slots : Off(j) = n /\ Off(j) < InUse =>
             ring[j].id = nreap + 2 /\ ring[j].part = "hdr"
    <2>1. nreap \in Nat
      BY Zenon DEF TypeOK
    <2>2. n = (IF t = "FLUSH" THEN 2 ELSE 3)
      BY <1>1, <1>3, ChainShape, Zenon
    <2> QED BY <1>1, <1>3, <2>1, <2>2, ChainShape, Bounds
  <1>5. /\ drvUsed' = Advance(drvUsed, n) /\ num_free' = num_free + n /\ nreap' = nreap + 1
        /\ UNCHANGED <<ring, hdr, stat, vq, dpc, locals, kick, gpc, drvAvail, nreq>>
    BY Zenon DEF Reap, ChainLen, ringVars, devVars, sigVars
  <1> HIDE DEF n, h, t
  <1>6. /\ InUse' = InUse - n /\ Published' = Published - n /\ Done' = Done - n
        /\ InUse - n \in 0 .. Size /\ n \in 2 .. 3 /\ n \in 1 .. Size
    <2>1. n \in 2 .. 3 /\ n \in 1 .. Size /\ num_free \in 0 .. Size /\ Size \in Nat
      BY <1>4, Bounds DEF RingInv, Positions
    <2>2. InUse' = InUse - n /\ InUse - n \in 0 .. Size
      BY <2>1, <1>4, <1>5, Bounds DEF InUse
    <2>3. Published' = Published - n /\ Done' = Done - n
      <3>1. drvUsed \in Position /\ vq \in Position /\ drvAvail \in Position
        BY Zenon DEF TypeOK
      <3>2. Dist(drvUsed, vq) \in n .. Size /\ Dist(drvUsed, drvAvail) \in n .. Size
        BY <2>1, <1>2, <1>3, <1>4, Bounds DEF Done, Published
      <3> QED BY <2>1, <3>1, <3>2, <1>5, Rebase, Zenon DEF Done, Published
    <2> QED BY <2>1, <2>2, <2>3, Zenon
  <1>7. \A i \in Slots :
          /\ ChainLen(i)' = ChainLen(i)
          /\ Off(i) >= n => Off(i)' = Off(i) - n /\ Lap(i)' = Lap(i)
          /\ Off(i) < n => Off(i)' = Off(i) - n + Size /\ Lap(i)' = 1 - Lap(i)
          /\ Off(i)' < InUse' => Off(i) >= n /\ Off(i) < InUse
    <2>1. drvUsed \in Position
      BY Zenon DEF TypeOK
    <2>2. \A i \in Slots :
            /\ Off(i) >= n => Off(i)' = Off(i) - n /\ Lap(i)' = Lap(i)
            /\ Off(i) < n => Off(i)' = Off(i) - n + Size /\ Lap(i)' = 1 - Lap(i)
      BY <2>1, <1>5, <1>6, Rebase, Zenon DEF Off, Lap
    <2>3. \A i \in Slots : ChainLen(i)' = ChainLen(i)
      BY <1>5, Zenon DEF ChainLen
    <2>4. \A i \in Slots : Off(i)' < InUse' => Off(i) >= n /\ Off(i) < InUse
      BY <2>2, <1>6, Bounds
    <2> QED BY <2>2, <2>3, <2>4, Zenon
  <1>8. nreq \in Nat /\ nreap \in Nat /\ nreap + 1 <= nreq
    <2>1. ring[h].id \in nreap + 1 .. nreq
      BY <1>1, <1>3, Zenon DEF RingInv, Chains
    <2> QED BY <2>1 DEF TypeOK
  <1>9. Positions'
    <2>1. num_free' \in 0 .. Size
      BY <1>5, <1>6, Bounds DEF InUse, RingInv, Positions
    <2>2. 0 <= Done' /\ Done' <= Published' /\ Published' = InUse'
      BY <1>2, <1>3, <1>6, Bounds
    <2> QED BY <2>1, <2>2, <1>2, <1>5, <1>8, Zenon DEF Positions
  <1>10. PICK e \in Slots : Off(e) = n - 1 /\ ring[e].id = nreap + 1 /\ ring[e].part = "status"
    BY <1>4, <1>6, Ranges
  <1>11. Chains'
    <2>1. InUse' = 0 => nreq' = nreap'
      <3>1. InUse' = 0 => Off(e) < InUse /\ Off(e) = InUse - 1
        BY <1>6, <1>10, Bounds
      <3> QED BY <3>1, <1>5, <1>10, Zenon DEF RingInv, Chains
    <2>2. \A k \in nreap' + 1 .. nreq' : hdr'[k].type \in {"IN", "OUT", "FLUSH"}
      <3>1. \A k \in nreap + 1 .. nreq : hdr[k].type \in {"IN", "OUT", "FLUSH"}
        BY Zenon DEF RingInv, Chains
      <3> QED BY <3>1, <1>5, <1>8
    <2>3. ASSUME NEW i \in Slots, Off(i)' < InUse'
          PROVE  /\ ring[i].id \in nreap + 2 .. nreq
                 /\ ring[i].part # "none"
                 /\ ring[i].next <=> ring[i].part # "status"
                 /\ Off(i)' = 0 => ring[i].part = "hdr" /\ ring[i].id = nreap + 2
                 /\ Off(i)' = Published' => ring[i].part = "hdr"
                 /\ Off(i)' = InUse' - 1 => ring[i].part = "status" /\ ring[i].id = nreq
      <3>1. Off(i) >= n /\ Off(i) < InUse /\ Off(i)' = Off(i) - n
        BY <2>3, <1>7, Zenon
      <3>2. ring[i].id \in nreap + 1 .. nreq
        BY <3>1, Zenon DEF RingInv, Chains
      <3>3. nreap + 1 < ring[i].id
        <4>1. Off(e) < Off(i)
          BY <3>1, <1>6, <1>10, Bounds
        <4> QED BY <3>1, <4>1, <1>10, Zenon DEF RingInv, Chains
      <3>4. Off(i)' = 0 => ring[i].part = "hdr" /\ ring[i].id = nreap + 2
        BY <3>1, <1>4, <1>6, Bounds
      <3>5. /\ ring[i].part # "none"
            /\ ring[i].next <=> ring[i].part # "status"
            /\ Off(i) = Published => ring[i].part = "hdr"
            /\ Off(i) = InUse - 1 => ring[i].part = "status" /\ ring[i].id = nreq
        BY <3>1, Zenon DEF RingInv, Chains
      <3> QED BY <3>1, <3>2, <3>3, <3>4, <3>5, <1>6, <1>8, Bounds
    <2>4. ASSUME NEW i \in Slots, NEW j \in Slots, Off(j)' < InUse', Off(j)' = Off(i)' + 1
          PROVE  Off(j) < InUse /\ Off(j) = Off(i) + 1
      BY <2>4, <1>6, <1>7, Bounds
    <2>5. ASSUME NEW i \in Slots, NEW j \in Slots, Off(j)' < InUse', Off(i)' < Off(j)'
          PROVE  Off(j) < InUse /\ Off(i) < Off(j)
      BY <2>5, <1>6, <1>7, Bounds
    <2>6. ASSUME NEW i \in Slots, NEW j \in Slots, Off(j)' < InUse', Off(j)' = Off(i)' + 1
          PROVE  /\ ring[i].part = "hdr" =>
                      /\ ring[j].id = ring[i].id
                      /\ ring[j].part = IF hdr[ring[i].id].type = "FLUSH" THEN "status" ELSE "data"
                 /\ ring[i].part = "data" => ring[j].id = ring[i].id /\ ring[j].part = "status"
                 /\ ring[i].part = "status" => ring[j].id = ring[i].id + 1 /\ ring[j].part = "hdr"
      BY <2>4, <2>6 DEF RingInv, Chains
    <2>7. ASSUME NEW i \in Slots, NEW j \in Slots, Off(j)' < InUse', Off(i)' < Off(j)',
                 ring[i].part = "status"
          PROVE  ring[i].id < ring[j].id
      BY <2>5, <2>7, Zenon DEF RingInv, Chains
    <2>8. nreap' + 1 = nreap + 2
      BY <1>5, <1>8
    <2> QED BY <1>5, <2>1, <2>2, <2>3, <2>6, <2>7, <2>8, Zenon DEF Chains
  <1>12. Flags'
    <2> SUFFICES ASSUME NEW i \in Slots
                 PROVE  /\ Off(i)' < InUse' => ring[i].avail = Lap(i)'
                        /\ Off(i)' >= InUse' => ring[i].avail # Lap(i)'
                        /\ Done' <= Off(i)' /\ Off(i)' < InUse' => ring[i].used # Lap(i)'
                        /\ Off(i)' < Published' /\ ring[i].used = Lap(i)' =>
                             /\ ring[i].part = "hdr" /\ Off(i)' + ChainLen(i)' <= Done'
                             /\ stat[ring[i].id] # "none"
      BY <1>2, <1>5, Zenon DEF Flags, Hidden
    <2>1. CASE Off(i) < n
      <3>1. ring[i].avail = Lap(i) /\ Lap(i) \in {0, 1} /\ Off(i) < InUse
        BY <2>1, <1>2, <1>4, <1>6, Ranges DEF RingInv, Flags, Hidden
      <3>2. Off(i)' >= InUse' /\ Lap(i)' # Lap(i) /\ ~(Off(i)' < InUse') /\ Published' = InUse'
        BY <2>1, <3>1, <1>2, <1>6, <1>7, Bounds
      <3> QED BY <3>1, <3>2, Zenon
    <2>2. CASE Off(i) >= n
      <3>1. /\ Off(i)' = Off(i) - n /\ Lap(i)' = Lap(i) /\ ChainLen(i)' = ChainLen(i)
        BY <2>2, <1>7, Zenon
      <3>2. /\ Off(i) < InUse => ring[i].avail = Lap(i)
            /\ Off(i) >= InUse => ring[i].avail # Lap(i)
            /\ Done <= Off(i) /\ Off(i) < InUse => ring[i].used # Lap(i)
            /\ Off(i) < Published /\ ring[i].used = Lap(i) =>
                 /\ ring[i].part = "hdr" /\ Off(i) + ChainLen(i) <= Done
                 /\ stat[ring[i].id] # "none"
        BY <1>2, Zenon DEF RingInv, Flags, Hidden
      <3>3. Off(i) < Published /\ ring[i].part = "hdr" => ChainLen(i) \in Nat
        BY <1>2, ChainShape
      <3> QED BY <3>1, <3>2, <3>3, <1>2, <1>6, Bounds
    <2> QED BY <2>1, <2>2, <1>6, Bounds
  <1>13. Cursor' /\ dpc' # "crash"
    <2>1. UNCHANGED <<ring, hdr, stat, dpc, desc, used_desc, type, status>>
      BY <1>5, Zenon DEF locals
    <2>2. CASE dpc \notin {"data", "status", "used", "crash"}
      <3>1. \A i \in Slots : Off(i)' = Done' /\ Done' < Published' => ring[i].part = "hdr"
        BY <2>2, <1>2, <1>6, <1>7, Bounds DEF RingInv, Cursor
      <3> QED BY <2>1, <2>2, <3>1, Zenon DEF Cursor
    <2>3. CASE dpc \in {"data", "status", "used"}
      <3>1. used_desc \in Slots /\ desc \in Slots
        BY Zenon DEF TypeOK
      <3>2. /\ Off(used_desc) < Published /\ ring[used_desc].part = "hdr"
            /\ ring[used_desc].used # Lap(used_desc)
        BY <2>3, Zenon DEF RingInv, Cursor
      <3>3. Off(used_desc) >= n
        <4>1. Off(used_desc) # 0
          BY <3>1, <3>2, <1>1, <1>2, Ranges, Zenon
        <4>2. Off(used_desc) # 1 /\ Off(used_desc) # n - 1
          BY <3>1, <3>2, <1>4, Zenon
        <4> QED BY <4>1, <4>2, <3>1, <1>6, Bounds
      <3>4. ChainLen(used_desc) \in {2, 3}
        BY <3>1, <3>2, <1>2, ChainShape, Zenon
      <3>5. /\ Off(used_desc)' = Off(used_desc) - n /\ Lap(used_desc)' = Lap(used_desc)
            /\ ChainLen(used_desc)' = ChainLen(used_desc)
        BY <2>1, <3>1, <3>3, <1>7, Zenon
      <3>6. dpc = "status" => Off(desc) >= n /\ Off(desc)' = Off(desc) - n
        <4>1. dpc = "status" => Off(desc) + 1 = Done /\ Off(used_desc) + ChainLen(used_desc) = Done + 1
          BY Zenon DEF RingInv, Cursor
        <4>2. dpc = "status" => Off(desc) >= n
          BY <4>1, <3>1, <3>3, <3>4, <1>6, Bounds
        <4> QED BY <4>2, <2>1, <3>1, <1>7, Zenon
      <3> HIDE DEF n
      <3>7. /\ type = hdr[ring[used_desc].id].type
            /\ dpc = "data" =>
                 desc = used_desc /\ Done = Off(used_desc) + 1 /\ type \in {"IN", "OUT"}
            /\ dpc = "status" =>
                 /\ Off(desc) + 1 = Done /\ Off(used_desc) + ChainLen(used_desc) = Done + 1
                 /\ status # "none"
            /\ dpc = "used" =>
                 /\ Off(used_desc) + ChainLen(used_desc) = Done
                 /\ stat[ring[used_desc].id] # "none"
        BY <2>3, Zenon DEF RingInv, Cursor
      <3>8. /\ Off(used_desc)' < Published'
            /\ dpc = "data" => Done' = Off(used_desc)' + 1
            /\ dpc = "status" =>
                 Off(desc)' + 1 = Done' /\ Off(used_desc)' + ChainLen(used_desc) = Done' + 1
            /\ dpc = "used" => Off(used_desc)' + ChainLen(used_desc) = Done'
        BY <3>1, <3>2, <3>4, <3>5, <3>6, <3>7, <1>6, Bounds
      <3> QED BY <2>1, <2>3, <3>2, <3>5, <3>7, <3>8, Zenon DEF Cursor
    <2> QED BY <2>1, <2>2, <2>3, Zenon DEF RingInv
  <1>14. Kicked'
    BY <1>2, <1>5, <1>6, Bounds DEF RingInv, Kicked
  <1>15. RingInv'
    BY <1>9, <1>11, <1>12, <1>13, <1>14, Zenon DEF RingInv
  <1>16. \A i \in Slots : Off(i)' < InUse' =>
           Off(i) >= n /\ Off(i) < InUse /\ Off(i)' = Off(i) - n
    BY <1>7, Zenon
  <1> QED BY <1>3, <1>6, <1>15, <1>16, Zenon
==============================================================================
