------------------------ MODULE VirtioBlkRefinement ------------------------
(***************************************************************************)
(* VirtioBlk implements the safety part of BlkDevice, for every size of    *)
(* the ring and every number of requests: under the mapping of VirtioBlk,  *)
(* Publish is a Submit; the transfer of a read or write, and the reading   *)
(* of the header of a request without data, is a Serve; every other step   *)
(* leaves the requests, the answers and the disk as they are.              *)
(***************************************************************************)
EXTENDS VirtioBlkProofs, FiniteSetTheorems

(* What appending to a function on 1 .. n gives. *)
LEMMA AppendFunction ==
  ASSUME NEW n \in Nat, NEW f, f = [i \in 1 .. n |-> f[i]], NEW x
  PROVE  /\ Len(f) = n
         /\ Append(f, x) = [i \in 1 .. n + 1 |-> IF i = n + 1 THEN x ELSE f[i]]
  <1>1. f \in Seq({f[i] : i \in 1 .. n} \cup {x}) /\ Len(f) = n
    OBVIOUS
  <1>2. Append(f, x) = [i \in 1 .. n + 1 |-> IF i = n + 1 THEN x ELSE f[i]]
    BY <1>1
  <1> QED BY <1>1, <1>2, Zenon

(* The answers of the first k requests. *)
FirstAnswers(k) == [i \in 1 .. k |->
     [status |-> IF stat[i] # "none" THEN stat[i] ELSE status, data |-> buf[i]]]

(* The range of the number of answers, and the status bytes written. *)
LEMMA AnsweredFacts ==
  \A m \in Nat : TypeOK /\ Answered(m) =>
    /\ m \in 0 .. nreq /\ m \in 0 .. MaxReq /\ nreq \in 0 .. MaxReq /\ MaxReq \in Nat
    /\ stat \in [1 .. MaxReq -> Statuses]
    /\ \A i \in 1 .. MaxReq : stat[i] # "none" <=> i <= m
  BY ConstantsAssumption DEF Answered, TypeOK, Ids

(* The same of the next state. *)
LEMMA AnsweredNext == \A m \in Nat : TypeOK' /\ Answered(m)' => m \in 0 .. MaxReq
  <1>1. (\A m \in Nat : TypeOK /\ Answered(m) => m \in 0 .. MaxReq)'
    <2>1. \A m \in Nat : TypeOK /\ Answered(m) => m \in 0 .. MaxReq
      BY AnsweredFacts, Zenon
    <2> QED BY <2>1, PTL
  <1> QED BY <1>1, Zenon

(* The requests served are the first m, and the next one once its status is *)
(* fixed. *)
LEMMA ServedSet ==
  \A m \in Nat : TypeOK /\ RingInv /\ Answered(m) =>
    /\ answersBar = FirstAnswers(IF dpc = "status" THEN m + 1 ELSE m)
    /\ dpc \in {"data", "status"} => m + 1 \in 1 .. nreq /\ m + 1 \in Ids
  <1> SUFFICES ASSUME NEW m \in Nat, TypeOK, RingInv, Answered(m)
               PROVE  /\ answersBar = FirstAnswers(IF dpc = "status" THEN m + 1 ELSE m)
                      /\ dpc \in {"data", "status"} => m + 1 \in 1 .. nreq /\ m + 1 \in Ids
    OBVIOUS
  <1> DEFINE K == IF dpc = "status" THEN m + 1 ELSE m
  <1>1. m \in 0 .. nreq /\ nreq \in 0 .. MaxReq /\ MaxReq \in Nat /\ nreap \in Nat
    BY ConstantsAssumption, Zenon DEF Answered, TypeOK
  <1>2. dpc \in {"data", "status"} => ring[used_desc].id = m + 1 /\ m + 1 \in 1 .. nreq
    <2> SUFFICES ASSUME dpc \in {"data", "status"}
                 PROVE  ring[used_desc].id = m + 1 /\ m + 1 \in 1 .. nreq
      OBVIOUS
    <2>1. ring[used_desc].id = m + 1
      BY Zenon DEF Answered
    <2>2. used_desc \in Slots /\ Off(used_desc) < Published
      BY Zenon DEF RingInv, Cursor, TypeOK
    <2>3. Off(used_desc) < InUse
      BY <2>2, Bounds
    <2>4. ring[used_desc].id \in nreap + 1 .. nreq
      BY <2>2, <2>3, Zenon DEF RingInv, Chains
    <2> QED BY <1>1, <2>1, <2>4
  <1>3. \A i \in Ids : stat[i] # "none" <=> i <= m
    BY Zenon DEF Answered
  <1>4. {i \in Ids : Served(i)} = 1 .. K
    <2>1. \A i \in Ids : Served(i) <=> i <= K
      BY <1>1, <1>2, <1>3 DEF Served, Ids
    <2>2. K \in 0 .. MaxReq
      BY <1>1, <1>2
    <2> HIDE DEF K
    <2> QED BY <1>1, <2>1, <2>2 DEF Ids
  <1>5. Cardinality(1 .. K) = K
    <2>1. K \in Nat
      BY <1>1
    <2> HIDE DEF K
    <2> QED BY <2>1, FS_Interval
  <1>6. answersBar = FirstAnswers(K)
    <2> HIDE DEF K
    <2> QED BY <1>4, <1>5, Zenon DEF answersBar, FirstAnswers
  <1> QED BY <1>1, <1>2, <1>6 DEF Ids

(* The same of the next state. *)
LEMMA ServedNext ==
  \A m \in Nat : TypeOK' /\ RingInv' /\ Answered(m)' =>
    answersBar' = FirstAnswers(IF dpc = "status" THEN m + 1 ELSE m)'
  <1>1. (\A m \in Nat : TypeOK /\ RingInv /\ Answered(m) =>
    /\ answersBar = FirstAnswers(IF dpc = "status" THEN m + 1 ELSE m)
    /\ dpc \in {"data", "status"} => m + 1 \in 1 .. nreq /\ m + 1 \in Ids)'
    BY ServedSet, PTL
  <1> QED BY <1>1, Zenon

(* Steps that neither make, serve nor reap a request. *)
LEMMA AnsweredFrame ==
  ASSUME TypeOK, RingInv, TypeOK', RingInv', NEW m \in Nat, Answered(m),
         UNCHANGED <<hdr, buf, stat, sector, status, used_desc, nreq, drvUsed, num_free, vq>>,
         \A i \in Slots : ring'[i].id = ring[i].id,
         dpc' = "data" <=> dpc = "data", dpc' = "status" <=> dpc = "status"
  PROVE  Answered(m)' /\ answersBar' = answersBar
  <1>1. InUse' = InUse /\ Done' = Done /\ \A i \in Slots : Off(i)' = Off(i)
    BY Zenon DEF InUse, Done, Dist, Off, Ahead
  <1>2. used_desc \in Slots
    BY Zenon DEF TypeOK
  <1>3. Answered(m)'
    BY <1>1, <1>2, Zenon DEF Answered
  <1>4. \A k : FirstAnswers(k)' = FirstAnswers(k)
    BY Zenon DEF FirstAnswers
  <1>5. answersBar = FirstAnswers(IF dpc = "status" THEN m + 1 ELSE m)
    BY ServedSet, Zenon
  <1>6. answersBar' = FirstAnswers(IF dpc = "status" THEN m + 1 ELSE m)'
    BY <1>3, ServedNext, Zenon
  <1> QED BY <1>3, <1>4, <1>5, <1>6, Zenon

(* A new request goes behind those the device has not answered. *)
LEMMA PrepareAnswered ==
  ASSUME TypeOK, RingInv, ExpectedChains, NEW m \in Nat, Answered(m), NEW q \in Requests, Prepare(q)
  PROVE  Answered(m)'
  <1>1. /\ nreq + 1 \in Ids /\ hdr' = [hdr EXCEPT ![nreq + 1] = q]
        /\ \A i \in Slots : Off(i)' = Off(i)
        /\ Done' = Done /\ InUse' \in InUse + 2 .. InUse + 3
        /\ \A i \in Slots : Off(i) < InUse =>
             ring'[i] = ring[i] /\ ring[i].id \in nreap + 1 .. nreq
        /\ \A i \in Slots : InUse <= Off(i) /\ Off(i) < InUse' => ring'[i].id = nreq + 1
    BY PrepareStep, Zenon
  <1>2. /\ nreq' = nreq + 1 /\ buf' = [buf EXCEPT ![nreq + 1] = IF q.type = "IN" THEN Blank ELSE q.val]
        /\ UNCHANGED <<stat, dpc, used_desc, sector>>
    BY Zenon DEF Prepare, devVars, locals
  <1>3. nreq \in Nat /\ m <= nreq
    BY DEF TypeOK, Answered
  <1>4. dpc \in {"data", "status"} => ring'[used_desc] = ring[used_desc] /\ m + 1 <= nreq
    <2> SUFFICES ASSUME dpc \in {"data", "status"}
                 PROVE  ring'[used_desc] = ring[used_desc] /\ m + 1 <= nreq
      OBVIOUS
    <2>1. Off(used_desc) < Published /\ used_desc \in Slots
      BY Zenon DEF RingInv, Cursor, TypeOK
    <2>2. m + 1 \in 1 .. nreq
      BY ServedSet, Zenon
    <2> QED BY <1>1, <1>3, <2>1, <2>2, Bounds
  <1>5. dpc \notin {"data", "status"} =>
          /\ Done' = InUse' => m = nreq'
          /\ \A i \in Slots : Off(i)' = Done' /\ Done' < InUse' => ring'[i].id = m + 1
    BY <1>1, <1>2, Bounds DEF Answered
  <1>6. \A i \in m + 1 .. nreq + 1 : i # m + 1 \/ dpc # "status" =>
          buf'[i] = IF hdr'[i].type = "IN" THEN Blank ELSE hdr'[i].val
    <2>1. \A i \in 1 .. nreq + 1 : i \in Ids
      BY <1>1, <1>3, ConstantsAssumption DEF Ids
    <2>2. \A i \in m + 1 .. nreq + 1 : i # nreq + 1 => i \in m + 1 .. nreq /\ buf'[i] = buf[i] /\ hdr'[i] = hdr[i]
      BY <1>1, <1>2, <1>3, <2>1 DEF TypeOK
    <2>3. buf'[nreq + 1] = (IF q.type = "IN" THEN Blank ELSE q.val) /\ hdr'[nreq + 1] = q
      BY <1>1, <1>2, Zenon DEF TypeOK
    <2> QED BY <2>2, <2>3, Zenon DEF Answered
  <1>7. dpc = "data" => sector = hdr'[m + 1].sector
    <2> SUFFICES ASSUME dpc = "data" PROVE sector = hdr'[m + 1].sector
      OBVIOUS
    <2>1. m + 1 <= nreq /\ m + 1 \in Ids /\ sector = hdr[m + 1].sector
      BY <1>4, ServedSet, Zenon DEF Answered
    <2> QED BY <1>1, <1>3, <2>1 DEF TypeOK
  <1> QED BY <1>1, <1>2, <1>3, <1>4, <1>5, <1>6, <1>7 DEF Answered

(* Reaping moves the origin of the ring, not the device. *)
LEMMA ReapAnswered ==
  ASSUME TypeOK, RingInv, NEW m \in Nat, Answered(m), Reap
  PROVE  Answered(m)'
  <1>1. PICK n \in 2 .. 3 :
              /\ n <= Done /\ Done' = Done - n /\ InUse' = InUse - n
              /\ \A i \in Slots : Off(i)' < InUse' =>
                   Off(i) >= n /\ Off(i) < InUse /\ Off(i)' = Off(i) - n
    BY ReapStep, Zenon
  <1>2. UNCHANGED <<ring, hdr, buf, stat, nreq, dpc, used_desc, sector>>
    BY Zenon DEF Reap, ringVars, devVars, locals
  <1>3. Done' = InUse' => Done = InUse
    BY <1>1, Bounds
  <1>4. \A i \in Slots : Off(i)' = Done' /\ Done' < InUse' => Off(i) = Done /\ Done < InUse
    BY <1>1, Bounds
  <1> QED BY <1>2, <1>3, <1>4, Zenon DEF Answered

----------------------------------------------------------------------------
(* Answers do not change when the status byte is written. *)
LEMMA FirstAnswersFrame ==
  ASSUME NEW k \in Nat,
         \A i \in 1 .. k : buf'[i] = buf[i] /\ (stat[i] # "none" => stat'[i] = stat[i])
                           /\ (stat[i] = "none" => (IF stat'[i] # "none" THEN stat'[i] ELSE status') = status)
  PROVE  FirstAnswers(k)' = FirstAnswers(k)
  BY Zenon DEF FirstAnswers

(* A published chain belongs to an accepted request. *)
LEMMA AcceptedHead ==
  ASSUME TypeOK, RingInv, NEW u \in Slots, Off(u) < Published, ring[u].part = "hdr"
  PROVE  ring[u].id \in 1 .. (IF gpc = "publish" THEN nreq - 1 ELSE nreq)
  <1>1. Off(u) < InUse
    BY Bounds
  <1>2. ring[u].id \in nreap + 1 .. nreq /\ nreap \in Nat /\ nreq \in Nat
    BY <1>1 DEF RingInv, Chains, TypeOK
  <1>3. CASE gpc = "publish"
    <2>1. Published < InUse /\ Published \in 0 .. Size - 1
      BY <1>3, Bounds
    <2>2. PICK e \in Slots : Off(e) = Published
      BY <2>1, Ranges, Zenon
    <2>3. ChainLen(u) \in {2, 3} /\ Off(u) + ChainLen(u) <= Published
      BY <1>1, ChainShape, Zenon
    <2>4. PICK s \in Slots : Off(s) = Off(u) + ChainLen(u) - 1
      BY <2>1, <2>3, Ranges
    <2>5. ring[s].id = ring[u].id /\ ring[s].part = "status"
      BY <1>1, <2>4, ChainShape, Zenon
    <2>6. Off(s) < Off(e) /\ Off(e) < InUse
      BY <2>1, <2>2, <2>3, <2>4, Bounds
    <2>7. ring[s].id < ring[e].id /\ ring[e].id \in nreap + 1 .. nreq
      BY <2>5, <2>6, Zenon DEF RingInv, Chains
    <2> QED BY <1>2, <1>3, <2>5, <2>7
  <1> QED BY <1>2, <1>3

(* A step that fixes an answer serves the request. *)
LEMMA ServeStep ==
  ASSUME TypeOK, RingInv, TypeOK', RingInv', NEW m \in Nat, Answered(m), Answered(m)',
         dpc # "status", dpc' = "status",
         m + 1 \in 1 .. (IF gpc = "publish" THEN nreq - 1 ELSE nreq),
         UNCHANGED <<hdr, stat, nreq, gpc>>, \A i \in 1 .. m : buf'[i] = buf[i],
         NEW io, status' = Abs!AnswerStatus(hdr[m + 1], io),
         buf'[m + 1] = (IF hdr[m + 1].type = "IN"
                        THEN IF status' = "OK" THEN disk[hdr[m + 1].sector] ELSE Blank
                        ELSE hdr[m + 1].val),
         disk' = IF hdr[m + 1].type = "OUT" /\ status' = "OK"
                 THEN [disk EXCEPT ![hdr[m + 1].sector] = hdr[m + 1].val] ELSE disk
  PROVE  Abs!Serve(io)
  <1> DEFINE P == IF gpc = "publish" THEN nreq - 1 ELSE nreq
             x == [status |-> status', data |-> buf'[m + 1]]
  <1>1. P \in Nat /\ m + 1 \in 1 .. P
    BY DEF TypeOK
  <1>2. answersBar = FirstAnswers(m) /\ answersBar' = FirstAnswers(m + 1)'
    BY ServedSet, ServedNext, Zenon
  <1>3. acceptedBar' = acceptedBar
    BY Zenon DEF acceptedBar
  <1>4. /\ acceptedBar = [i \in 1 .. P |-> acceptedBar[i]]
        /\ acceptedBar[m + 1] = hdr[m + 1]
    BY <1>1, Zenon DEF acceptedBar
  <1>5. Len(acceptedBar) = P
    <2> HIDE DEF P
    <2> QED BY <1>1, <1>4, AppendFunction, Zenon
  <1>6. FirstAnswers(m) = [i \in 1 .. m |-> FirstAnswers(m)[i]]
    BY Zenon DEF FirstAnswers
  <1>7. /\ Len(FirstAnswers(m)) = m
        /\ Append(FirstAnswers(m), x) = [i \in 1 .. m + 1 |-> IF i = m + 1 THEN x ELSE FirstAnswers(m)[i]]
    <2> HIDE DEF x
    <2> QED BY <1>6, AppendFunction
  <1>8. /\ \A i \in 1 .. m : stat[i] # "none"
        /\ stat[m + 1] = "none"
    <2>1. m + 1 \in 1 .. MaxReq
      BY <1>1, AnsweredFacts
    <2> QED BY <2>1, AnsweredFacts
  <1>9. Append(FirstAnswers(m), x) = FirstAnswers(m + 1)'
    <2> DEFINE B(i) == [status |-> IF stat'[i] # "none" THEN stat'[i] ELSE status', data |-> buf'[i]]
    <2>1. \A i \in 1 .. m + 1 : (IF i = m + 1 THEN x ELSE FirstAnswers(m)[i]) = B(i)
      BY <1>8 DEF FirstAnswers
    <2>2. FirstAnswers(m + 1)' = [i \in 1 .. m + 1 |-> B(i)]
      BY Zenon DEF FirstAnswers
    <2> HIDE DEF x, B
    <2> QED BY <1>7, <2>1, <2>2, Zenon
  <1>10. answersBar' = Append(answersBar, x) /\ Len(answersBar) = m
    BY <1>2, <1>7, <1>9, Zenon
  <1>11. Len(answersBar) < Len(acceptedBar) /\ acceptedBar[Len(answersBar) + 1] = hdr[m + 1]
    <2> HIDE DEF P
    <2> QED BY <1>1, <1>4, <1>5, <1>10
  <1> QED BY <1>3, <1>10, <1>11, Zenon DEF Abs!Serve

(* The transfer serves a read or a write. *)
LEMMA TransferServes ==
  ASSUME TypeOK, RingInv, TypeOK', RingInv', NEW m \in Nat, Answered(m), Transfer, "short" \notin HostIO
  PROVE  Answered(m)' /\ \E io \in HostIO : Abs!Serve(io)
  <1> DEFINE q == hdr[m + 1]
  <1>1. Answered(m)' /\ ring[vq.idx].id = m + 1 /\ dpc' = "status" /\ dpc = "data"
    BY TransferAnswered, Zenon DEF Transfer
  <1>2. /\ used_desc \in Slots /\ Off(used_desc) < Published /\ ring[used_desc].part = "hdr"
        /\ ring[used_desc].id = m + 1 /\ type = q.type /\ type \in {"IN", "OUT"}
    <2>1. used_desc \in Slots /\ ring[used_desc].id = m + 1
      BY <1>1, Zenon DEF Answered, TypeOK
    <2> QED BY <1>1, <2>1, Zenon DEF RingInv, Cursor
  <1>3. m + 1 \in 1 .. (IF gpc = "publish" THEN nreq - 1 ELSE nreq)
    BY <1>2, AcceptedHead, Zenon
  <1>4. /\ sector = q.sector /\ buf[m + 1] = IF q.type = "IN" THEN Blank ELSE q.val
        /\ m + 1 \in Ids
    <2>1. m + 1 \in m + 1 .. nreq /\ m + 1 \in Ids
      BY <1>1, ServedSet
    <2> QED BY <1>1, <2>1, Zenon DEF Answered
  <1>5. PICK io \in HostIO :
          /\ buf' = IF type = "IN" /\ sector \in Sectors /\ io = "done"
                    THEN [buf EXCEPT ![m + 1] = disk[sector]] ELSE buf
          /\ disk' = IF type = "OUT" /\ sector \in Sectors /\ io = "done"
                     THEN [disk EXCEPT ![sector] = buf[m + 1]] ELSE disk
          /\ status' = IF Fails(sector, io) THEN "IOERR" ELSE "OK"
    BY <1>1, Zenon DEF Transfer
  <1>6. io \in {"done", "error"}
    BY ConstantsAssumption, Zenon
  <1>7. /\ status' = Abs!AnswerStatus(q, io)
        /\ status' = "OK" <=> sector \in Sectors /\ io = "done"
    BY <1>2, <1>4, <1>5, <1>6, Zenon DEF Fails, Abs!AnswerStatus
  <1>8. buf'[m + 1] = IF q.type = "IN" THEN IF status' = "OK" THEN disk[q.sector] ELSE Blank
                      ELSE q.val
    <2>1. buf \in [Ids -> Values \cup {Blank} \cup Statuses]
      BY Zenon DEF TypeOK
    <2> HIDE DEF q
    <2> QED BY <1>2, <1>4, <1>5, <1>7, <2>1, Zenon
  <1>9. disk' = IF q.type = "OUT" /\ status' = "OK" THEN [disk EXCEPT ![q.sector] = q.val] ELSE disk
    <2> HIDE DEF q
    <2> QED BY <1>2, <1>4, <1>5, <1>7, Zenon
  <1>10. \A i \in 1 .. m : buf'[i] = buf[i]
    <2>1. buf \in [1 .. MaxReq -> Values \cup {Blank} \cup Statuses] /\ m + 1 \in 1 .. MaxReq
      BY <1>4, Zenon DEF TypeOK, Ids
    <2>2. MaxReq \in Nat
      BY ConstantsAssumption, Zenon
    <2> QED BY <1>5, <2>1, <2>2
  <1>11. UNCHANGED <<hdr, stat, nreq, gpc>>
    BY Zenon DEF Transfer, drvVars
  <1>12. dpc # "status"
    BY <1>1, Zenon
  <1>13. Abs!Serve(io)
    BY <1>1, <1>3, <1>7, <1>8, <1>9, <1>10, <1>11, <1>12, ServeStep, Zenon
  <1> QED BY <1>1, <1>13, Zenon

(* Reading the header serves a request without data, and no other. *)
LEMMA GetHeadServes ==
  ASSUME TypeOK, RingInv, TypeOK', RingInv', NEW m \in Nat, Answered(m), GetHead
  PROVE  /\ Answered(m)'
         /\ UNCHANGED <<acceptedBar, answersBar, disk>> \/ \E io \in HostIO : Abs!Serve(io)
  <1> DEFINE q == hdr[m + 1]
  <1>1. Answered(m)' /\ ring[vq.idx].id = m + 1 /\ type' = q.type
    BY GetHeadAnswered, Zenon
  <1>2. /\ dpc = "get" /\ UNCHANGED <<hdr, buf, stat, nreq, gpc, disk>>
        /\ type' \in {"IN", "OUT"} => dpc' = "data"
        /\ type' \notin {"IN", "OUT"} => dpc' = "status" /\ status' = "UNSUPP"
    BY Zenon DEF GetHead, ringVars, drvVars
  <1>3. CASE type' \in {"IN", "OUT"}
    <2>1. answersBar = FirstAnswers(m) /\ answersBar' = FirstAnswers(m)'
      BY <1>1, <1>2, <1>3, ServedSet, ServedNext, Zenon
    <2>2. \A i \in 1 .. m : stat[i] # "none"
      BY AnsweredFacts
    <2>3. FirstAnswers(m)' = FirstAnswers(m)
      BY <1>2, <2>2, FirstAnswersFrame, Zenon
    <2>4. acceptedBar' = acceptedBar
      BY <1>2, Zenon DEF acceptedBar
    <2> QED BY <1>1, <1>2, <2>1, <2>3, <2>4, Zenon
  <1>4. CASE type' \notin {"IN", "OUT"}
    <2>1. Done < Published
      BY AvailIff, Zenon DEF GetHead
    <2>2. vq.idx \in Slots /\ Off(vq.idx) = Done
      BY <2>1, NextSlot, Bounds
    <2>3. ring[vq.idx].part = "hdr"
      BY <1>2, <2>1, <2>2, Zenon DEF RingInv, Cursor
    <2>4. m + 1 \in 1 .. (IF gpc = "publish" THEN nreq - 1 ELSE nreq)
      BY <1>1, <2>1, <2>2, <2>3, AcceptedHead, Zenon
    <2>5. m + 1 \in m + 1 .. nreq
      BY <2>4 DEF TypeOK
    <2>6. buf[m + 1] = q.val /\ q.type # "IN" /\ q.type # "OUT"
      BY <1>1, <1>2, <1>4, <2>5, Zenon DEF Answered
    <2>7. PICK io \in HostIO : TRUE
      BY ConstantsAssumption, Zenon
    <2>8. status' = Abs!AnswerStatus(q, io)
      BY <1>2, <1>4, <2>6, Zenon DEF Abs!AnswerStatus
    <2>9. Abs!Serve(io)
      <3>1. dpc # "status" /\ \A i \in 1 .. m : buf'[i] = buf[i]
        BY <1>2, Zenon
      <3>2. disk' = disk /\ buf'[m + 1] = q.val
        BY <1>2, <2>6, Zenon
      <3> QED BY <1>1, <1>2, <1>4, <2>4, <2>6, <2>8, <3>1, <3>2, ServeStep, Zenon
    <2> QED BY <1>1, <2>9, Zenon
  <1> QED BY <1>3, <1>4, Zenon

(* The status byte tells the driver an answer that was already fixed. *)
LEMMA PutStatusStutters ==
  ASSUME TypeOK, RingInv, TypeOK', RingInv', NEW m \in Nat, Answered(m), PutStatus
  PROVE  Answered(m + 1)' /\ UNCHANGED <<acceptedBar, answersBar, disk>>
  <1>1. /\ Answered(m + 1)' /\ stat' = [stat EXCEPT ![m + 1] = status]
        /\ status # "none" /\ m + 1 \in Ids
    BY PutStatusAnswered, Zenon
  <1>2. /\ dpc = "status" /\ dpc' = "used"
        /\ UNCHANGED <<hdr, buf, disk, nreq, gpc>>
    BY PutStatusStep, Zenon DEF PutStatus, drvVars
  <1>3. answersBar = FirstAnswers(m + 1) /\ answersBar' = FirstAnswers(m + 1)'
    BY <1>1, <1>2, ServedSet, ServedNext
  <1>4. stat \in [1 .. MaxReq -> Statuses] /\ MaxReq \in Nat /\ m + 1 \in 1 .. MaxReq
    BY <1>1, AnsweredFacts, Zenon DEF Ids
  <1>5. \A i \in 1 .. MaxReq : stat[i] # "none" <=> i <= m
    BY AnsweredFacts, Zenon
  <1>6. FirstAnswers(m + 1)' = FirstAnswers(m + 1)
    BY <1>1, <1>2, <1>4, <1>5, FirstAnswersFrame
  <1>7. acceptedBar' = acceptedBar
    BY <1>2, Zenon DEF acceptedBar
  <1> QED BY <1>1, <1>2, <1>3, <1>6, <1>7, Zenon

(* A request that is not yet published is not accepted. *)
LEMMA PrepareStutters ==
  ASSUME TypeOK, RingInv, TypeOK', RingInv', ExpectedChains, NEW m \in Nat, Answered(m),
         NEW q \in Requests, Prepare(q), \A i \in 1 .. nreq : hdr[i] \in Requests
  PROVE  /\ Answered(m)' /\ UNCHANGED <<acceptedBar, answersBar, disk>>
         /\ \A i \in 1 .. nreq' : hdr'[i] \in Requests
  <1>1. Answered(m)'
    BY PrepareAnswered, Zenon
  <1>2. /\ nreq' = nreq + 1 /\ nreq + 1 \in 1 .. MaxReq /\ hdr' = [hdr EXCEPT ![nreq + 1] = q]
        /\ buf' = [buf EXCEPT ![nreq + 1] = IF q.type = "IN" THEN Blank ELSE q.val]
        /\ UNCHANGED <<stat, dpc, status, disk>> /\ gpc = "run" /\ gpc' = "publish"
    <2>1. nreq + 1 \in 1 .. MaxReq
      BY PrepareStep, Zenon DEF Ids
    <2> QED BY <2>1, Zenon DEF Prepare, devVars, locals
  <1>3. PICK k \in 0 .. nreq : k = IF dpc = "status" THEN m + 1 ELSE m
    <2>1. m \in 0 .. nreq
      BY AnsweredFacts, Zenon
    <2>2. dpc = "status" => m + 1 \in 1 .. nreq
      BY ServedSet, Zenon
    <2> QED BY <2>1, <2>2
  <1>4. nreq \in Nat
    BY AnsweredFacts
  <1>5. \A i \in 1 .. nreq : i \in Ids /\ buf'[i] = buf[i] /\ hdr'[i] = hdr[i]
    <2>1. \A i \in 1 .. nreq : i \in Ids /\ i # nreq + 1
      BY <1>2, <1>4, ConstantsAssumption DEF Ids
    <2> QED BY <1>2, <2>1, Zenon DEF TypeOK
  <1>6. answersBar = FirstAnswers(k) /\ answersBar' = FirstAnswers(k)'
    BY <1>1, <1>2, <1>3, ServedSet, ServedNext, Zenon
  <1>7. FirstAnswers(k)' = FirstAnswers(k)
    <2>1. \A i \in 1 .. k : i \in 1 .. nreq
      BY <1>3, <1>4
    <2> QED BY <1>2, <1>3, <1>5, <1>4, <2>1, FirstAnswersFrame
  <1>8. acceptedBar' = acceptedBar
    <2>1. acceptedBar = [i \in 1 .. nreq |-> hdr[i]]
      BY <1>2, Zenon DEF acceptedBar
    <2>2. acceptedBar' = [i \in 1 .. nreq' - 1 |-> hdr'[i]]
      <3>1. gpc' = "publish"
        BY <1>2, Zenon
      <3> QED BY <3>1, Zenon DEF acceptedBar
    <2>3. nreq' - 1 = nreq
      BY <1>2, <1>4
    <2> QED BY <1>5, <2>1, <2>2, <2>3, Zenon
  <1>9. \A i \in 1 .. nreq' : hdr'[i] \in Requests
    <2>1. hdr'[nreq + 1] = q
      BY <1>2, Zenon DEF TypeOK, Ids
    <2>2. \A i \in 1 .. nreq' : i = nreq + 1 \/ i \in 1 .. nreq
      BY <1>2, <1>4
    <2> QED BY <1>5, <2>1, <2>2, Zenon
  <1> QED BY <1>1, <1>2, <1>6, <1>7, <1>8, <1>9, Zenon

(* Reaping changes neither requests nor answers. *)
LEMMA ReapStutters ==
  ASSUME TypeOK, RingInv, TypeOK', RingInv', NEW m \in Nat, Answered(m), Reap
  PROVE  Answered(m)' /\ UNCHANGED <<acceptedBar, answersBar, disk>>
  <1>1. Answered(m)'
    BY ReapAnswered, Zenon
  <1>2. UNCHANGED <<hdr, buf, stat, status, dpc, disk, nreq, gpc>>
    BY Zenon DEF Reap, ringVars, devVars, locals
  <1>3. PICK k \in Nat : k = IF dpc = "status" THEN m + 1 ELSE m
    OBVIOUS
  <1>4. answersBar = FirstAnswers(k) /\ answersBar' = FirstAnswers(k)'
    BY <1>1, <1>2, <1>3, ServedSet, ServedNext, Zenon
  <1>5. FirstAnswers(k)' = FirstAnswers(k)
    BY <1>2, Zenon DEF FirstAnswers
  <1>6. acceptedBar' = acceptedBar
    BY <1>2, Zenon DEF acceptedBar
  <1> QED BY <1>1, <1>2, <1>4, <1>5, <1>6, Zenon

(* Publishing the head submits the request. *)
LEMMA PublishSubmits ==
  ASSUME TypeOK, RingInv, TypeOK', RingInv', NEW m \in Nat, Answered(m), Publish
  PROVE  Answered(m)' /\ nreq \in 1 .. nreq /\ Abs!Submit(hdr[nreq])
  <1>1. /\ gpc = "publish" /\ gpc' = "kick"
        /\ UNCHANGED <<hdr, buf, stat, sector, status, used_desc, nreq, drvUsed, num_free, vq, dpc, disk>>
    BY Zenon DEF Publish, devVars, locals
  <1>2. \A i \in Slots : ring'[i].id = ring[i].id
    <2>1. /\ ring' = [ring EXCEPT ![drvAvail.idx].avail = drvAvail.wrap,
                                  ![drvAvail.idx].used = 1 - drvAvail.wrap]
          /\ ring \in [Slots -> Desc]
      BY Zenon DEF Publish, TypeOK
    <2> QED BY <2>1, Zenon DEF Desc
  <1>3. Answered(m)' /\ answersBar' = answersBar
    BY <1>1, <1>2, AnsweredFrame, Zenon
  <1>4. nreq \in Nat /\ nreq >= 1
    <2>1. nreq > nreap
      BY <1>1, Zenon DEF RingInv, Positions
    <2>2. nreap \in Nat /\ nreq \in 0 .. MaxReq
      BY Zenon DEF TypeOK
    <2> QED BY <2>1, <2>2
  <1>5. acceptedBar = [i \in 1 .. nreq - 1 |-> hdr[i]] /\ acceptedBar' = [i \in 1 .. nreq |-> hdr[i]]
    BY <1>1, Zenon DEF acceptedBar
  <1>6. acceptedBar = [i \in 1 .. nreq - 1 |-> acceptedBar[i]]
    BY <1>5, Zenon
  <1>7. Append(acceptedBar, hdr[nreq]) =
          [i \in 1 .. nreq - 1 + 1 |-> IF i = nreq - 1 + 1 THEN hdr[nreq] ELSE acceptedBar[i]]
    <2>1. nreq - 1 \in Nat
      BY <1>4
    <2> QED BY <1>6, <2>1, AppendFunction
  <1>8. acceptedBar' = Append(acceptedBar, hdr[nreq])
    <2>1. nreq - 1 + 1 = nreq
      BY <1>4
    <2>2. \A i \in 1 .. nreq : i # nreq => acceptedBar[i] = hdr[i]
      BY <1>4, <1>5
    <2>3. \A i \in 1 .. nreq : (IF i = nreq THEN hdr[nreq] ELSE acceptedBar[i]) = hdr[i]
      BY <2>2, Zenon
    <2> QED BY <1>5, <1>7, <2>1, <2>3, Zenon
  <1> QED BY <1>1, <1>3, <1>4, <1>8 DEF Abs!Submit

(* All other steps: the ring keeps its chains, the device its request. *)
LEMMA OtherStutters ==
  ASSUME TypeOK, RingInv, TypeOK', RingInv', NEW m \in Nat, Answered(m),
         \/ Kick \/ IsrCopy \/ IsrClear \/ NoMore \/ DisableCb \/ EnableCb \/ Recheck
         \/ Wake \/ Drained \/ CheckEvent \/ SetIsr \/ WriteIrqfd \/ MarkUsed \/ PutLen
         \/ UNCHANGED vars
  PROVE  Answered(m)' /\ UNCHANGED <<acceptedBar, answersBar, disk>>
  <1>1. CASE Kick \/ IsrCopy \/ IsrClear \/ NoMore \/ DisableCb \/ EnableCb \/ Recheck
    <2>1. /\ UNCHANGED <<ring, hdr, buf, stat, vq, locals, disk, drvUsed, num_free, nreq>>
          /\ gpc # "publish" /\ gpc' # "publish"
      BY <1>1, Zenon DEF Kick, IsrCopy, IsrClear, NoMore, DisableCb, EnableCb, Recheck, ringVars, devVars
    <2>2. dpc' = dpc \/ (dpc = "idle" /\ dpc' = "get")
      BY <1>1, Zenon DEF Kick, IsrCopy, IsrClear, NoMore, DisableCb, EnableCb, Recheck, devVars, GuestRuns
    <2>3. acceptedBar' = acceptedBar
      BY <2>1, Zenon DEF acceptedBar
    <2> QED BY <2>1, <2>2, <2>3, AnsweredFrame, Zenon DEF locals
  <1>2. CASE Wake \/ Drained \/ CheckEvent \/ SetIsr \/ WriteIrqfd
    <2>1. /\ UNCHANGED <<ring, hdr, buf, stat, vq, locals, disk, drvVars>>
          /\ dpc \notin {"data", "status"} /\ dpc' \notin {"data", "status"}
      BY <1>2, Zenon DEF Wake, Drained, CheckEvent, SetIsr, WriteIrqfd, ringVars
    <2>2. acceptedBar' = acceptedBar
      BY <2>1, Zenon DEF acceptedBar, drvVars
    <2> QED BY <2>1, <2>2, AnsweredFrame, Zenon DEF locals, drvVars
  <1>3. CASE MarkUsed \/ PutLen
    <2>1. /\ UNCHANGED <<hdr, buf, stat, vq, locals, disk, drvVars>>
          /\ dpc \notin {"data", "status"} /\ dpc' \notin {"data", "status"}
          /\ \/ ring' = [ring EXCEPT ![used_desc].used = 1 - @]
             \/ ring' = [ring EXCEPT ![used_desc].len = r]
      BY <1>3, Zenon DEF MarkUsed, PutLen
    <2>2. acceptedBar' = acceptedBar
      BY <2>1, Zenon DEF acceptedBar, drvVars
    <2>3. \A i \in Slots : ring'[i].id = ring[i].id
      <3>1. ring \in [Slots -> Desc]
        BY Zenon DEF TypeOK
      <3> QED BY <2>1, <3>1 DEF Desc
    <2> QED BY <2>1, <2>2, <2>3, AnsweredFrame, Zenon DEF locals, drvVars
  <1>4. CASE UNCHANGED vars
    <2>1. UNCHANGED <<ring, hdr, buf, stat, vq, dpc, locals, disk, drvVars>>
      BY <1>4, Zenon DEF vars, ringVars, devVars
    <2>2. acceptedBar' = acceptedBar
      BY <2>1, Zenon DEF acceptedBar, drvVars
    <2> QED BY <2>1, <2>2, AnsweredFrame, Zenon DEF locals, drvVars
  <1> QED BY <1>1, <1>2, <1>3, <1>4, Zenon

(* The initial states are initial states of BlkDevice. *)
LEMMA ServeInit == Init => ServeInv /\ Abs!AbsInit
  <1> SUFFICES ASSUME Init PROVE ServeInv /\ Abs!AbsInit
    OBVIOUS
  <1>1. TypeOK /\ RingInv
    BY InitInv, Zenon
  <1>2. /\ nreq = 0 /\ dpc = "idle" /\ gpc = "run" /\ MaxReq \in Nat
        /\ \A i \in Ids : stat[i] = "none" /\ i >= 1
        /\ disk = [s \in Sectors |-> Blank]
    BY ConstantsAssumption DEF Init, Ids
  <1>3. Done = 0 /\ InUse = 0
    BY ConstantsAssumption DEF Init, Done, Dist, InUse
  <1>4. Answered(0)
    <2>1. \A i \in Ids : i \in Int
      BY DEF Ids
    <2> QED BY <1>2, <1>3, <2>1 DEF Answered
  <1>5. answersBar = <<>> /\ acceptedBar = <<>>
    <2>1. answersBar = FirstAnswers(0)
      BY <1>1, <1>2, <1>4, ServedSet, Zenon
    <2>2. FirstAnswers(0) = <<>>
      BY DEF FirstAnswers
    <2>3. acceptedBar = <<>>
      BY <1>2 DEF acceptedBar
    <2> QED BY <2>1, <2>2, <2>3, Zenon
  <1> QED BY <1>2, <1>4, <1>5 DEF ServeInv, Abs!AbsInit

(* Every step of the ring is a step of BlkDevice, or none. *)
LEMMA RefinementStep ==
  ASSUME ExpectedChains, "short" \notin HostIO, TypeOK, RingInv, ServeInv, [Next]_vars
  PROVE  ServeInv' /\ [Abs!AbsNext]_(Abs!absVars)
  <1>1. PICK m \in 0 .. MaxReq : Answered(m)
    BY Zenon DEF ServeInv
  <1>2. m \in Nat
    BY <1>1
  <1>3. TypeOK' /\ RingInv'
    BY StepInv, Zenon
  <1>4. \A k \in Nat : Answered(k)' => k \in 0 .. MaxReq
    BY <1>3, AnsweredNext, Zenon
  <1>5. \A i \in 1 .. nreq : hdr[i] \in Requests
    BY Zenon DEF ServeInv
  <1>6. CASE \E q \in Requests : Prepare(q)
    <2>1. PICK q \in Requests : Prepare(q)
      BY <1>6, Zenon
    <2>2. /\ Answered(m)' /\ UNCHANGED <<acceptedBar, answersBar, disk>>
          /\ \A i \in 1 .. nreq' : hdr'[i] \in Requests
      BY <1>1, <1>2, <1>3, <1>5, <2>1, PrepareStutters, Zenon
    <2> QED BY <1>2, <1>4, <2>2, Zenon DEF ServeInv, Abs!absVars
  <1>7. UNCHANGED <<hdr, nreq>> /\ (\E k \in Nat : Answered(k)') => ServeInv'
    BY <1>4, <1>5, Zenon DEF ServeInv
  <1>8. CASE Publish
    <2>1. Answered(m)' /\ nreq \in 1 .. nreq /\ Abs!Submit(hdr[nreq])
      BY <1>1, <1>2, <1>3, <1>8, PublishSubmits, Zenon
    <2>2. UNCHANGED <<hdr, nreq>>
      BY <1>8, Zenon DEF Publish
    <2>3. Abs!AbsNext
      BY <1>5, <2>1, Zenon DEF Abs!AbsNext
    <2> QED BY <1>2, <1>7, <2>1, <2>2, <2>3, Zenon
  <1>9. CASE GetHead \/ Transfer
    <2>1. /\ Answered(m)'
          /\ UNCHANGED <<acceptedBar, answersBar, disk>> \/ \E io \in HostIO : Abs!Serve(io)
      BY <1>1, <1>2, <1>3, <1>9, GetHeadServes, TransferServes, Zenon
    <2>2. UNCHANGED <<hdr, nreq>>
      BY <1>9, Zenon DEF GetHead, Transfer, ringVars, drvVars
    <2>3. [Abs!AbsNext]_(Abs!absVars)
      BY <2>1, Zenon DEF Abs!AbsNext, Abs!absVars
    <2> QED BY <1>2, <1>7, <2>1, <2>2, <2>3, Zenon
  <1>10. CASE PutStatus
    <2>1. Answered(m + 1)' /\ UNCHANGED <<acceptedBar, answersBar, disk>>
      BY <1>1, <1>2, <1>3, <1>10, PutStatusStutters, Zenon
    <2>2. UNCHANGED <<hdr, nreq>>
      BY <1>10, Zenon DEF PutStatus, drvVars
    <2>3. m + 1 \in Nat
      BY <1>2
    <2> QED BY <1>7, <2>1, <2>2, <2>3, Zenon DEF Abs!absVars
  <1>11. CASE Reap \/ Kick \/ IsrCopy \/ IsrClear \/ NoMore \/ DisableCb \/ EnableCb \/ Recheck
    <2>1. Answered(m)' /\ UNCHANGED <<acceptedBar, answersBar, disk>>
      BY <1>1, <1>2, <1>3, <1>11, ReapStutters, OtherStutters, Zenon
    <2>2. UNCHANGED <<hdr, nreq>>
      BY <1>11, Zenon DEF Reap, Kick, IsrCopy, IsrClear, NoMore, DisableCb, EnableCb, Recheck, ringVars
    <2> QED BY <1>2, <1>7, <2>1, <2>2, Zenon DEF Abs!absVars
  <1>12. CASE \/ Wake \/ Drained \/ CheckEvent \/ SetIsr \/ WriteIrqfd \/ MarkUsed \/ PutLen
              \/ UNCHANGED vars
    <2>1. Answered(m)' /\ UNCHANGED <<acceptedBar, answersBar, disk>>
      BY <1>1, <1>2, <1>3, <1>12, OtherStutters, Zenon
    <2>2. UNCHANGED <<hdr, nreq>>
      BY <1>12, Zenon DEF Wake, Drained, CheckEvent, SetIsr, WriteIrqfd, MarkUsed, PutLen, vars,
                   ringVars, drvVars
    <2> QED BY <1>2, <1>7, <2>1, <2>2, Zenon DEF Abs!absVars
  <1> QED BY <1>6, <1>8, <1>9, <1>10, <1>11, <1>12, NoNextStep, Zenon
          DEF Next, GuestStep, DeviceStep

(* For every ring, every number of requests and every disk: seen through   *)
(* the refinement mapping, the driver and virtio_blk_handle_output do      *)
(* what BlkDevice allows and nothing else, provided every request has the  *)
(* chain its type calls for and the host transfers a sector whole or       *)
(* reports an error.                                                       *)
THEOREM RefinementTheorem ==
  ASSUME ExpectedChains, "short" \notin HostIO
  PROVE  Spec => ServesAsBlkDevice
  <1>1. TypeOK /\ RingInv /\ ServeInv /\ [Next]_vars => ServeInv' /\ [Abs!AbsNext]_(Abs!absVars)
    BY RefinementStep, Zenon
  <1> QED BY RingInvariant, ServeInit, <1>1, PTL DEF Spec, ServesAsBlkDevice, Abs!AbsSafety
=============================================================================
