-------------------------- MODULE VirtioPciProofs --------------------------
(***************************************************************************)
(* Theorems about VirtioPci, for any number and size of queues, any        *)
(* addresses of the BAR and any number of loads and of kicks: a handler    *)
(* runs only on a queue that has its ring and in one thread at a time, a   *)
(* driver that is up works with the rings it programmed, and no driver     *)
(* comes up a second time.                                                 *)
(*                                                                         *)
(* None of this is inductive as it stands.  A queue's ring is what its     *)
(* info holds when it is enabled, and the register window shows the queue  *)
(* selected before: so Progress says, for every place in the driver's      *)
(* program, which queue is selected, which have their address and which    *)
(* are enabled.  In a later load all queues are enabled from the start,    *)
(* and the driver gets no further than its first look at queue 0.          *)
(***************************************************************************)
EXTENDS VirtioPci, TLAPS

----------------------------------------------------------------------------
(* What the variables hold. *)
DevTypes ==
  dev \in [status : {0, 4}, dfselect : {0, 1}, df : SUBSET (0 .. 31), gfselect : {0, 1},
           gf : SUBSET (0 .. 31), qselect : Queues, qsize : 0 .. MaxSize, qdesc : Nat,
           qenable : {0, 1}]

QueueTypes == vq \in [Queues -> [qsize : {MaxSize}, qdesc : Nat, enable : {0, 1}, ring : Nat]]

DrvRecord ==
  [state : {"probing", "up", "refused"}, part : {"probe", "setup", "enable", "finish"},
   q : Queues, i : Nat, gen : Nat, strays : Nat]

DrvTypes ==
  /\ drv \in DrvRecord
  /\ drv.gen >= 1 /\ drv.i >= 1
  /\ drv.part = "probe" => drv.i <= 9
  /\ drv.part = "setup" => drv.i <= 4
  /\ drv.part = "enable" => drv.i <= 2
  /\ drv.part = "finish" => drv.i <= 1

EventTypes ==
  /\ \A e \in kvm : e.vqn \in Queues
  /\ polled \subseteq kvm /\ efd \subseteq kvm
  /\ thread \in [pc : {"wait", "handler"}, batch : SUBSET polled, q : Queues \cup {-1}]
  /\ vcpu \in Queues \cup {-1} /\ owed \subseteq Queues

Types == DevTypes /\ QueueTypes /\ DrvTypes /\ EventTypes /\ features \subseteq 0 .. 63

(* An enabled queue has a ring, and a handler is in an enabled queue. *)
Rings == \A q \in Queues : vq[q].enable = 1 => vq[q].ring # 0

Running ==
  /\ thread.pc = "handler" => thread.q \in Queues /\ vq[thread.q].enable = 1
  /\ vcpu # -1 => vq[vcpu].enable = 1

(* Queue q knows its address; it works with it. *)
Given(q) == vq[q].qdesc = Ring(1, q)
Works(q) == vq[q].enable = 1 /\ vq[q].ring = Ring(1, q)

(* The first load, place by place. *)
AtSetup ==
  /\ \A q \in Queues : vq[q].enable = 0
  /\ \A q \in Queues : q < drv.q => Given(q)
  /\ drv.i > 1 => dev.qselect = drv.q

AtEnable ==
  /\ \A q \in Queues : Given(q)
  /\ \A q \in Queues : q < drv.q => Works(q)
  /\ \A q \in Queues : q >= drv.q => vq[q].enable = 0
  /\ drv.i > 1 => dev.qselect = drv.q

FirstLoad ==
  /\ drv.state = "probing" /\ drv.part = "probe" => \A q \in Queues : vq[q].enable = 0
  /\ drv.state = "probing" /\ drv.part = "setup" => AtSetup
  /\ drv.state = "probing" /\ drv.part = "enable" => AtEnable
  /\ drv.state = "probing" /\ drv.part = "finish" => \A q \in Queues : Works(q)
  /\ drv.state = "up" => \A q \in Queues : Works(q)

(* A later load. *)
LaterLoad ==
  /\ drv.state # "up" /\ \A q \in Queues : vq[q].enable = 1
  /\ drv.state = "probing" /\ drv.part # "probe" =>
       /\ drv.part = "setup" /\ drv.q = 0 /\ drv.i <= 2
       /\ drv.i = 2 => dev.qenable = 1

Progress == (drv.gen = 1 => FirstLoad) /\ (drv.gen # 1 => LaterLoad)

TransportInv == Types /\ Rings /\ Running /\ Progress

----------------------------------------------------------------------------
(* The steps of the program, one part at a time. *)
LEMMA ProbeProgram ==
  ASSUME NEW g, NEW q, NEW i \in 1 .. 9, NEW s, s = Program("probe", g, q)[i]
  PROVE  /\ Len(Program("probe", g, q)) = 9
         /\ \/ s.op = "check"
            \/ /\ s.op = "write"
               /\ \/ s.reg = "status" /\ s.val = 0
                  \/ s.reg \in {"dfselect", "gfselect"} /\ s.val \in {0, 1}
                  \/ s.reg = "gf" /\ s.val \in SUBSET (0 .. 31)
<1>1. Program("probe", g, q) =
        <<Check("caps"), W("status", 0), W("dfselect", 0), W("dfselect", 1), Check("features"),
          W("gfselect", 0), W("gf", {}), W("gfselect", 1), W("gf", {0, 2})>>
  BY Zenon DEF Program
<1>2. \/ s = Check("caps") \/ s = Check("features")
      \/ s = W("status", 0) \/ s = W("dfselect", 0) \/ s = W("dfselect", 1)
      \/ s = W("gfselect", 0) \/ s = W("gfselect", 1) \/ s = W("gf", {}) \/ s = W("gf", {0, 2})
  BY <1>1
<1>3. Len(Program("probe", g, q)) = 9
  BY <1>1
<1>4. {} \in SUBSET (0 .. 31) /\ {0, 2} \in SUBSET (0 .. 31)
  BY SMT
<1>5. QED
  BY <1>2, <1>3, <1>4 DEF Check, W

LEMMA SetupProgram ==
  ASSUME NEW g, NEW q
  PROVE  /\ Len(Program("setup", g, q)) = 4
         /\ Program("setup", g, q)[1] = W("qselect", q)
         /\ Program("setup", g, q)[2] = Check("queue")
         /\ Program("setup", g, q)[3] = W("qsize", MaxSize)
         /\ Program("setup", g, q)[4] = W("qdesc", Ring(g, q))
<1>1. Program("setup", g, q) =
        <<W("qselect", q), Check("queue"), W("qsize", MaxSize), W("qdesc", Ring(g, q))>>
  BY Zenon DEF Program
<1>2. QED
  BY <1>1

LEMMA EnableProgram ==
  ASSUME NEW g, NEW q
  PROVE  /\ Len(Program("enable", g, q)) = 2
         /\ Program("enable", g, q)[1] = W("qselect", q)
         /\ Program("enable", g, q)[2] = W("qenable", 1)
<1>1. Program("enable", g, q) = <<W("qselect", q), W("qenable", 1)>>
  BY Zenon DEF Program
<1>2. QED
  BY <1>1

LEMMA FinishProgram ==
  ASSUME NEW g, NEW q
  PROVE  /\ Len(Program("finish", g, q)) = 1
         /\ Program("finish", g, q)[1] = W("status", 4)
<1>1. Program("finish", g, q) = <<W("status", 4)>>
  BY Zenon DEF Program
<1>2. QED
  BY <1>1

(* Where the driver goes from each part. *)
LEMMA Followings ==
  ASSUME Types
  PROVE  /\ drv.part = "probe" =>
              \/ drv.i < 9 /\ Following = [drv EXCEPT !.i = @ + 1]
              \/ drv.i = 9 /\ Following = [drv EXCEPT !.part = "setup", !.q = 0, !.i = 1]
         /\ drv.part = "setup" =>
              \/ drv.i < 4 /\ Following = [drv EXCEPT !.i = @ + 1]
              \/ drv.i = 4 /\ drv.q < NumQueues - 1 /\ Following = [drv EXCEPT !.q = @ + 1, !.i = 1]
              \/ /\ drv.i = 4 /\ drv.q = NumQueues - 1
                 /\ Following = [drv EXCEPT !.part = "enable", !.q = 0, !.i = 1]
         /\ drv.part = "enable" =>
              \/ drv.i = 1 /\ Following = [drv EXCEPT !.i = @ + 1]
              \/ drv.i = 2 /\ drv.q < NumQueues - 1 /\ Following = [drv EXCEPT !.q = @ + 1, !.i = 1]
              \/ /\ drv.i = 2 /\ drv.q = NumQueues - 1
                 /\ Following = [drv EXCEPT !.part = "finish", !.q = 0, !.i = 1]
         /\ drv.part = "finish" => Following = [drv EXCEPT !.state = "up"]
<1>1. drv.i \in Nat /\ drv.i >= 1 /\ drv.q \in 0 .. NumQueues - 1 /\ NumQueues \in Nat
  BY TransportAssumption, Zenon DEF Types, DrvTypes, DrvRecord, Queues
<1>2. ASSUME drv.part = "probe"
      PROVE  \/ drv.i < 9 /\ Following = [drv EXCEPT !.i = @ + 1]
             \/ drv.i = 9 /\ Following = [drv EXCEPT !.part = "setup", !.q = 0, !.i = 1]
  <2>1. Len(Program(drv.part, drv.gen, drv.q)) = 9
    BY <1>2, ProbeProgram
  <2>2. drv.i <= 9
    BY <1>2, Zenon DEF Types, DrvTypes, DrvRecord
  <2>3. drv.i < 9 \/ (drv.i = 9 /\ ~ (drv.i < 9))
    BY <1>1, <2>2
  <2>4. ~ (drv.part \in {"setup", "enable"}) /\ drv.part # "finish" /\ After(drv.part) = "setup"
    BY <1>2, Zenon DEF After
  <2>5. QED
    BY <2>1, <2>3, <2>4, Zenon DEF Following
<1>3. ASSUME drv.part = "setup"
      PROVE  \/ drv.i < 4 /\ Following = [drv EXCEPT !.i = @ + 1]
             \/ drv.i = 4 /\ drv.q < NumQueues - 1 /\ Following = [drv EXCEPT !.q = @ + 1, !.i = 1]
             \/ /\ drv.i = 4 /\ drv.q = NumQueues - 1
                /\ Following = [drv EXCEPT !.part = "enable", !.q = 0, !.i = 1]
  <2>1. Len(Program(drv.part, drv.gen, drv.q)) = 4
    BY <1>3, SetupProgram
  <2>2. drv.i <= 4
    BY <1>3, Zenon DEF Types, DrvTypes, DrvRecord
  <2>3. \/ drv.i < 4 /\ drv.i < 4
        \/ drv.i = 4 /\ ~ (drv.i < 4) /\ drv.q < NumQueues - 1
        \/ drv.i = 4 /\ ~ (drv.i < 4) /\ ~ (drv.q < NumQueues - 1) /\ drv.q = NumQueues - 1
    BY <1>1, <2>2
  <2>4. drv.part \in {"setup", "enable"} /\ drv.part # "finish" /\ After(drv.part) = "enable"
    BY <1>3, Zenon DEF After
  <2>5. QED
    BY <2>1, <2>3, <2>4, Zenon DEF Following
<1>4. ASSUME drv.part = "enable"
      PROVE  \/ drv.i = 1 /\ Following = [drv EXCEPT !.i = @ + 1]
             \/ drv.i = 2 /\ drv.q < NumQueues - 1 /\ Following = [drv EXCEPT !.q = @ + 1, !.i = 1]
             \/ /\ drv.i = 2 /\ drv.q = NumQueues - 1
                /\ Following = [drv EXCEPT !.part = "finish", !.q = 0, !.i = 1]
  <2>1. Len(Program(drv.part, drv.gen, drv.q)) = 2
    BY <1>4, EnableProgram
  <2>2. drv.i <= 2
    BY <1>4, Zenon DEF Types, DrvTypes, DrvRecord
  <2>3. \/ drv.i = 1 /\ drv.i < 2
        \/ drv.i = 2 /\ ~ (drv.i < 2) /\ drv.q < NumQueues - 1
        \/ drv.i = 2 /\ ~ (drv.i < 2) /\ ~ (drv.q < NumQueues - 1) /\ drv.q = NumQueues - 1
    BY <1>1, <2>2
  <2>4. drv.part \in {"setup", "enable"} /\ drv.part # "finish" /\ After(drv.part) = "finish"
    BY <1>4, Zenon DEF After
  <2>5. QED
    BY <2>1, <2>3, <2>4, Zenon DEF Following
<1>5. ASSUME drv.part = "finish" PROVE Following = [drv EXCEPT !.state = "up"]
  <2>1. Len(Program(drv.part, drv.gen, drv.q)) = 1
    BY <1>5, FinishProgram, Zenon
  <2>2. ~ (drv.i < 1) /\ ~ (drv.part \in {"setup", "enable"})
    BY <1>1, <1>5
  <2>3. QED
    BY <1>5, <2>1, <2>2, Zenon DEF Following
<1>6. QED
  BY <1>2, <1>3, <1>4, <1>5, Zenon

(* A step of the first part touches no queue. *)
LEMMA ProbeStep ==
  ASSUME Types, DriverStep, drv.part = "probe"
  PROVE  /\ DevTypes' /\ features' \subseteq 0 .. 63 /\ UNCHANGED <<vq, kvm, polled>>
         /\ drv' = Following \/ drv' = [drv EXCEPT !.state = "refused"]
<1> DEFINE step == Program(drv.part, drv.gen, drv.q)[drv.i]
<1>1. drv.i \in 1 .. 9
  BY DEF Types, DrvTypes, DrvRecord
<1>2. \/ step.op = "check"
      \/ /\ step.op = "write"
         /\ \/ step.reg = "status" /\ step.val = 0
            \/ step.reg \in {"dfselect", "gfselect"} /\ step.val \in {0, 1}
            \/ step.reg = "gf" /\ step.val \in SUBSET (0 .. 31)
  BY <1>1, ProbeProgram, Zenon
<1>3. CASE step.op = "check"
  <2>1. /\ UNCHANGED <<regs, event, alive>>
        /\ drv' = Following \/ drv' = [drv EXCEPT !.state = "refused"]
    BY <1>3, Zenon DEF DriverStep
  <2>2. QED
    BY <2>1, Zenon DEF Types, DevTypes, regs, event
<1>4. CASE step.op = "write"
  <2>1. IospaceWrite(step.reg, step.val) /\ drv' = Following
    BY <1>4, Zenon DEF DriverStep
  <2> HIDE DEF step
  <2>2. CASE step.reg = "status" /\ step.val = 0
    <3>1. dev' = [dev EXCEPT !.status = 0] /\ UNCHANGED <<vq, features, event, alive>>
      BY <2>1, <2>2, Zenon DEF IospaceWrite
    <3>2. QED
      BY <2>1, <3>1, Zenon DEF Types, DevTypes, event
  <2>3. CASE step.reg = "gf" /\ step.val \in SUBSET (0 .. 31)
    <3>1. dev' = [dev EXCEPT !.gf = step.val] /\ UNCHANGED <<vq, features, event, alive>>
      BY <2>1, <2>3, Zenon DEF IospaceWrite
    <3>2. QED
      BY <2>1, <2>3, <3>1, Zenon DEF Types, DevTypes, event
  <2>4. CASE step.reg = "dfselect" /\ step.val \in {0, 1}
    <3>1. SelectDeviceFeature(step.val)
      BY <2>1, <2>4, Zenon DEF IospaceWrite
    <3>2. SelectedFeature(step.val) \in SUBSET (0 .. 31)
      BY <2>4 DEF SelectedFeature, DeviceFeature
    <3>3. QED
      BY <2>1, <2>4, <3>1, <3>2, Zenon DEF SelectDeviceFeature, Types, DevTypes, event
  <2>5. CASE step.reg = "gfselect" /\ step.val \in {0, 1}
    <3>1. WriteGuestFeature(step.val)
      BY <2>1, <2>5, Zenon DEF IospaceWrite
    <3>2. dev.gf \subseteq 0 .. 31 /\ features \subseteq 0 .. 63
      BY Zenon DEF Types, DevTypes
    <3>3. {b + 32 * step.val : b \in dev.gf} \subseteq 0 .. 63
      BY <2>5, <3>2
    <3>4. QED
      BY <2>1, <2>5, <3>1, <3>3, Zenon DEF WriteGuestFeature, Types, DevTypes, event
  <2>6. QED
    BY <1>2, <1>4, <2>2, <2>3, <2>4, <2>5, Zenon
<1>5. QED
  BY <1>2, <1>3, <1>4, Zenon

(* The steps of the second part, for queue drv.q. *)
LEMMA SetupStep ==
  ASSUME Types, DriverStep, drv.part = "setup"
  PROVE  /\ drv.i \in {1, 2, 3, 4} /\ UNCHANGED <<features, kvm, polled>>
         /\ drv.i = 1 => /\ drv' = Following /\ UNCHANGED vq
                         /\ dev' = [dev EXCEPT !.qselect = drv.q, !.qsize = vq[drv.q].qsize,
                                               !.qdesc = vq[drv.q].qdesc,
                                               !.qenable = vq[drv.q].enable]
         /\ drv.i = 2 => /\ UNCHANGED <<dev, vq>>
                         /\ \/ drv' = Following /\ dev.qenable = 0
                            \/ drv' = [drv EXCEPT !.state = "refused"]
         /\ drv.i = 3 => /\ drv' = Following /\ dev' = [dev EXCEPT !.qsize = MaxSize]
                         /\ vq' = [vq EXCEPT ![dev.qselect] = [@ EXCEPT !.qsize = MaxSize]]
         /\ drv.i = 4 => /\ drv' = Following /\ dev' = [dev EXCEPT !.qdesc = Ring(drv.gen, drv.q)]
                         /\ vq' = [vq EXCEPT ![dev.qselect] = [@ EXCEPT !.qdesc = Ring(drv.gen, drv.q)]]
<1> DEFINE step == Program(drv.part, drv.gen, drv.q)[drv.i]
<1>1. drv.i \in {1, 2, 3, 4} /\ drv.q \in Queues /\ dev.qselect \in Queues
  BY DEF Types, DrvTypes, DrvRecord, DevTypes
<1>2. /\ drv.i = 1 => step = W("qselect", drv.q)
      /\ drv.i = 2 => step = Check("queue")
      /\ drv.i = 3 => step = W("qsize", MaxSize)
      /\ drv.i = 4 => step = W("qdesc", Ring(drv.gen, drv.q))
  BY SetupProgram
<1>3. \/ /\ step.op = "write" /\ IospaceWrite(step.reg, step.val) /\ drv' = Following
      \/ /\ step.op = "check" /\ UNCHANGED <<regs, event, alive>>
         /\ drv' = IF Accepted(step.reg) THEN Following ELSE [drv EXCEPT !.state = "refused"]
  BY Zenon DEF DriverStep
<1> HIDE DEF step
<1>4. CASE drv.i = 1
  <2>1. IospaceWrite("qselect", drv.q) /\ drv' = Following
    BY <1>2, <1>3, <1>4 DEF W
  <2>2. SelectVirtq(drv.q)
    BY <2>1, Zenon DEF IospaceWrite
  <2>3. QED
    BY <1>1, <1>4, <2>1, <2>2 DEF SelectVirtq, event
<1>5. CASE drv.i = 2
  <2>1. /\ UNCHANGED <<regs, event, alive>>
        /\ drv' = IF Accepted("queue") THEN Following ELSE [drv EXCEPT !.state = "refused"]
    BY <1>2, <1>3, <1>5 DEF Check
  <2>2. Accepted("queue") => dev.qenable = 0
    BY Zenon DEF Accepted
  <2>3. QED
    BY <1>1, <1>5, <2>1, <2>2 DEF regs, event
<1>6. CASE drv.i = 3
  <2>1. IospaceWrite("qsize", MaxSize) /\ drv' = Following
    BY <1>2, <1>3, <1>6 DEF W
  <2>2. WriteInfo("qsize", MaxSize)
    BY <2>1, Zenon DEF IospaceWrite
  <2>3. /\ dev' = [dev EXCEPT !["qsize"] = MaxSize] /\ UNCHANGED <<features, event>>
        /\ vq' = [vq EXCEPT ![dev.qselect] = [@ EXCEPT !["qsize"] = MaxSize]]
    BY <1>1, <2>2, Zenon DEF WriteInfo
  <2>4. /\ [dev EXCEPT !["qsize"] = MaxSize] = [dev EXCEPT !.qsize = MaxSize]
        /\ [vq[dev.qselect] EXCEPT !["qsize"] = MaxSize] = [vq[dev.qselect] EXCEPT !.qsize = MaxSize]
    OBVIOUS
  <2>5. /\ dev' = [dev EXCEPT !.qsize = MaxSize] /\ UNCHANGED <<features, kvm, polled>>
        /\ vq' = [vq EXCEPT ![dev.qselect] = [@ EXCEPT !.qsize = MaxSize]]
    BY <2>3, <2>4, Zenon DEF event
  <2>6. QED
    BY <1>1, <1>6, <2>1, <2>5
<1>7. CASE drv.i = 4
  <2>1. IospaceWrite("qdesc", Ring(drv.gen, drv.q)) /\ drv' = Following
    BY <1>2, <1>3, <1>7 DEF W
  <2>2. WriteInfo("qdesc", Ring(drv.gen, drv.q))
    BY <2>1, Zenon DEF IospaceWrite
  <2>3. /\ dev' = [dev EXCEPT !["qdesc"] = Ring(drv.gen, drv.q)] /\ UNCHANGED <<features, event>>
        /\ vq' = [vq EXCEPT ![dev.qselect] = [@ EXCEPT !["qdesc"] = Ring(drv.gen, drv.q)]]
    BY <1>1, <2>2, Zenon DEF WriteInfo
  <2>4. /\ [dev EXCEPT !["qdesc"] = Ring(drv.gen, drv.q)]
             = [dev EXCEPT !.qdesc = Ring(drv.gen, drv.q)]
        /\ [vq[dev.qselect] EXCEPT !["qdesc"] = Ring(drv.gen, drv.q)]
             = [vq[dev.qselect] EXCEPT !.qdesc = Ring(drv.gen, drv.q)]
    OBVIOUS
  <2>5. /\ dev' = [dev EXCEPT !.qdesc = Ring(drv.gen, drv.q)] /\ UNCHANGED <<features, kvm, polled>>
        /\ vq' = [vq EXCEPT ![dev.qselect] = [@ EXCEPT !.qdesc = Ring(drv.gen, drv.q)]]
    BY <2>3, <2>4, Zenon DEF event
  <2>6. QED
    BY <1>1, <1>7, <2>1, <2>5
<1>8. QED
  BY <1>1, <1>4, <1>5, <1>6, <1>7, Zenon

(* The steps of the third part, for queue drv.q. *)
LEMMA EnableStep ==
  ASSUME Types, DriverStep, drv.part = "enable"
  PROVE  /\ drv.i \in {1, 2} /\ drv' = Following /\ UNCHANGED features
         /\ drv.i = 1 => /\ UNCHANGED <<vq, kvm, polled>>
                         /\ dev' = [dev EXCEPT !.qselect = drv.q, !.qsize = vq[drv.q].qsize,
                                               !.qdesc = vq[drv.q].qdesc,
                                               !.qenable = vq[drv.q].enable]
         /\ drv.i = 2 => /\ dev' = [dev EXCEPT !.qenable = 1]
                         /\ vq' = IF vq[dev.qselect].enable # 0 THEN vq
                                  ELSE [vq EXCEPT ![dev.qselect].enable = 1,
                                                  ![dev.qselect].ring = vq[dev.qselect].qdesc]
                         /\ \/ UNCHANGED <<kvm, polled>>
                            \/ /\ kvm' = kvm \cup {KickOf(dev.qselect)}
                               /\ polled' = polled \cup {KickOf(dev.qselect)}
<1> DEFINE step == Program(drv.part, drv.gen, drv.q)[drv.i]
<1>1. drv.i \in {1, 2} /\ drv.q \in Queues
  BY DEF Types, DrvTypes, DrvRecord
<1>2. (drv.i = 1 => step = W("qselect", drv.q)) /\ (drv.i = 2 => step = W("qenable", 1))
  BY EnableProgram
<1>3. \/ /\ step.op = "write" /\ IospaceWrite(step.reg, step.val) /\ drv' = Following
      \/ /\ step.op = "check" /\ UNCHANGED <<regs, event, alive>>
         /\ drv' = IF Accepted(step.reg) THEN Following ELSE [drv EXCEPT !.state = "refused"]
  BY Zenon DEF DriverStep
<1> HIDE DEF step
<1>4. CASE drv.i = 1
  <2>1. IospaceWrite("qselect", drv.q) /\ drv' = Following
    BY <1>2, <1>3, <1>4 DEF W
  <2>2. SelectVirtq(drv.q)
    BY <2>1, Zenon DEF IospaceWrite
  <2>3. QED
    BY <1>1, <1>4, <2>1, <2>2 DEF SelectVirtq, event
<1>5. CASE drv.i = 2
  <2>1. IospaceWrite("qenable", 1) /\ drv' = Following
    BY <1>2, <1>3, <1>5 DEF W
  <2>2. EnableVirtq(1)
    BY <2>1, Zenon DEF IospaceWrite
  <2>3. QED
    BY <1>1, <1>5, <2>1, <2>2 DEF EnableVirtq, AddEvent, event
<1>6. QED
  BY <1>1, <1>4, <1>5, Zenon

(* The last step. *)
LEMMA FinishStep ==
  ASSUME Types, DriverStep, drv.part = "finish"
  PROVE  /\ drv' = Following /\ dev' = [dev EXCEPT !.status = 4]
         /\ UNCHANGED <<vq, features, kvm, polled>>
<1>1. drv.i = 1
  BY DEF Types, DrvTypes, DrvRecord
<1>2. Program(drv.part, drv.gen, drv.q)[drv.i] = W("status", 4)
  BY <1>1, FinishProgram, Zenon
<1>3. IospaceWrite("status", 4) /\ drv' = Following
  BY <1>2 DEF DriverStep, W
<1>4. QED
  BY <1>3, Zenon DEF IospaceWrite, event

----------------------------------------------------------------------------
(* The driver keeps to its program. *)
LEMMA DrvTypesKept ==
  ASSUME Types, drv' = Following \/ drv' = [drv EXCEPT !.state = "refused"]
  PROVE  DrvTypes'
<1>1. /\ drv.i \in Nat /\ drv.i >= 1 /\ drv.q \in Queues /\ drv.q + 1 \in Nat /\ 0 \in Queues
      /\ drv.q < NumQueues - 1 => drv.q + 1 \in Queues
  BY TransportAssumption DEF Types, DrvTypes, DrvRecord, Queues
<1>2. CASE drv' = [drv EXCEPT !.state = "refused"]
  BY <1>2, Zenon DEF Types, DrvTypes, DrvRecord
<1>3. CASE drv' = Following
  <2>1. CASE drv.part = "probe"
    <3>1. \/ drv.i < 9 /\ drv' = [drv EXCEPT !.i = @ + 1]
          \/ drv' = [drv EXCEPT !.part = "setup", !.q = 0, !.i = 1]
      BY <1>3, <2>1, Followings, Zenon
    <3>2. CASE drv.i < 9 /\ drv' = [drv EXCEPT !.i = @ + 1]
      BY <1>1, <2>1, <3>2 DEF Types, DrvTypes, DrvRecord
    <3>3. CASE drv' = [drv EXCEPT !.part = "setup", !.q = 0, !.i = 1]
      <4>1. drv' \in DrvRecord
        BY <1>1, <3>3, Zenon DEF Types, DrvTypes, DrvRecord
      <4>2. drv'.part = "setup" /\ drv'.i = 1 /\ drv'.gen = drv.gen
        BY <3>3, Zenon DEF Types, DrvTypes, DrvRecord
      <4>3. QED
        BY <4>1, <4>2 DEF Types, DrvTypes
    <3>4. QED
      BY <3>1, <3>2, <3>3, Zenon
  <2>2. CASE drv.part = "setup"
    <3>1. \/ drv.i < 4 /\ drv' = [drv EXCEPT !.i = @ + 1]
          \/ drv.q < NumQueues - 1 /\ drv' = [drv EXCEPT !.q = @ + 1, !.i = 1]
          \/ drv' = [drv EXCEPT !.part = "enable", !.q = 0, !.i = 1]
      BY <1>3, <2>2, Followings, Zenon
    <3>2. CASE drv.i < 4 /\ drv' = [drv EXCEPT !.i = @ + 1]
      BY <1>1, <2>2, <3>2 DEF Types, DrvTypes, DrvRecord
    <3>3. CASE drv.q < NumQueues - 1 /\ drv' = [drv EXCEPT !.q = @ + 1, !.i = 1]
      <4>1. drv' \in DrvRecord
        BY <1>1, <3>3, Zenon DEF Types, DrvTypes, DrvRecord
      <4>2. drv'.part = drv.part /\ drv'.i = 1 /\ drv'.gen = drv.gen
        BY <3>3, Zenon DEF Types, DrvTypes, DrvRecord
      <4>3. QED
        BY <4>1, <4>2 DEF Types, DrvTypes
    <3>4. CASE drv' = [drv EXCEPT !.part = "enable", !.q = 0, !.i = 1]
      <4>1. drv' \in DrvRecord
        BY <1>1, <3>4, Zenon DEF Types, DrvTypes, DrvRecord
      <4>2. drv'.part = "enable" /\ drv'.i = 1 /\ drv'.gen = drv.gen
        BY <3>4, Zenon DEF Types, DrvTypes, DrvRecord
      <4>3. QED
        BY <4>1, <4>2 DEF Types, DrvTypes
    <3>5. QED
      BY <3>1, <3>2, <3>3, <3>4, Zenon
  <2>3. CASE drv.part = "enable"
    <3>1. \/ drv.i = 1 /\ drv' = [drv EXCEPT !.i = @ + 1]
          \/ drv.q < NumQueues - 1 /\ drv' = [drv EXCEPT !.q = @ + 1, !.i = 1]
          \/ drv' = [drv EXCEPT !.part = "finish", !.q = 0, !.i = 1]
      BY <1>3, <2>3, Followings, Zenon
    <3>2. CASE drv.i = 1 /\ drv' = [drv EXCEPT !.i = @ + 1]
      BY <1>1, <2>3, <3>2 DEF Types, DrvTypes, DrvRecord
    <3>3. CASE drv.q < NumQueues - 1 /\ drv' = [drv EXCEPT !.q = @ + 1, !.i = 1]
      <4>1. drv' \in DrvRecord
        BY <1>1, <3>3, Zenon DEF Types, DrvTypes, DrvRecord
      <4>2. drv'.part = drv.part /\ drv'.i = 1 /\ drv'.gen = drv.gen
        BY <3>3, Zenon DEF Types, DrvTypes, DrvRecord
      <4>3. QED
        BY <4>1, <4>2 DEF Types, DrvTypes
    <3>4. CASE drv' = [drv EXCEPT !.part = "finish", !.q = 0, !.i = 1]
      <4>1. drv' \in DrvRecord
        BY <1>1, <3>4, Zenon DEF Types, DrvTypes, DrvRecord
      <4>2. drv'.part = "finish" /\ drv'.i = 1 /\ drv'.gen = drv.gen
        BY <3>4, Zenon DEF Types, DrvTypes, DrvRecord
      <4>3. QED
        BY <4>1, <4>2 DEF Types, DrvTypes
    <3>5. QED
      BY <3>1, <3>2, <3>3, <3>4, Zenon
  <2>4. CASE drv.part = "finish"
    BY <1>1, <1>3, <2>4, Followings, Zenon DEF Types, DrvTypes, DrvRecord
  <2>5. QED
    BY <2>1, <2>2, <2>3, <2>4, Zenon DEF Types, DrvTypes, DrvRecord
<1>4. QED
  BY <1>2, <1>3, Zenon

(* A driver's step keeps the types, and no queue that is enabled loses     *)
(* that or its ring (virtq_enable).                                        *)
LEMMA DriverTypes ==
  ASSUME Types, DriverStep
  PROVE  /\ Types'
         /\ \A q \in Queues : vq[q].enable = 1 => vq'[q].enable = 1 /\ vq'[q].ring = vq[q].ring
<1>1. /\ drv.q \in Queues /\ dev.qselect \in Queues
      /\ Ring(drv.gen, drv.q) \in Nat /\ MaxSize \in 0 .. MaxSize
      /\ \A q \in Queues : vq[q] \in [qsize : {MaxSize}, qdesc : Nat, enable : {0, 1}, ring : Nat]
  <2>1. drv.q \in Queues /\ drv.gen \in Nat /\ dev.qselect \in Queues
    BY Zenon DEF Types, DrvTypes, DrvRecord, DevTypes
  <2>2. Ring(drv.gen, drv.q) \in Nat /\ MaxSize \in 0 .. MaxSize
    BY <2>1, TransportAssumption DEF Ring, Queues
  <2>3. QED
    BY <2>1, <2>2, Zenon DEF Types, QueueTypes
<1>2. UNCHANGED <<efd, thread, vcpu, owed>>
  BY Zenon DEF DriverStep
<1>3. ASSUME UNCHANGED <<kvm, polled>> PROVE EventTypes'
  BY <1>2, <1>3, Zenon DEF Types, EventTypes
<1>4. CASE drv.part = "probe"
  <2>1. /\ DevTypes' /\ features' \subseteq 0 .. 63 /\ UNCHANGED <<vq, kvm, polled>>
        /\ drv' = Following \/ drv' = [drv EXCEPT !.state = "refused"]
    BY <1>4, ProbeStep, Zenon
  <2>2. DrvTypes' /\ EventTypes'
    BY <1>3, <2>1, DrvTypesKept, Zenon
  <2>3. QED
    BY <2>1, <2>2, Zenon DEF Types, QueueTypes
<1>5. CASE drv.part = "setup"
  <2>1. DrvTypes' /\ EventTypes' /\ features' \subseteq 0 .. 63
    BY <1>3, <1>5, SetupStep, DrvTypesKept, Zenon DEF Types
  <2>2. CASE drv.i = 1
    <3>1. /\ UNCHANGED vq
          /\ dev' = [dev EXCEPT !.qselect = drv.q, !.qsize = vq[drv.q].qsize,
                                !.qdesc = vq[drv.q].qdesc, !.qenable = vq[drv.q].enable]
      BY <1>5, <2>2, SetupStep, Zenon
    <3>2. QED
      BY <1>1, <2>1, <3>1, Zenon DEF Types, DevTypes, QueueTypes
  <2>3. CASE drv.i = 2
    <3>1. UNCHANGED <<dev, vq>>
      BY <1>5, <2>3, SetupStep, Zenon
    <3>2. QED
      BY <2>1, <3>1, Zenon DEF Types, DevTypes, QueueTypes
  <2>4. CASE drv.i = 3
    BY <1>1, <1>5, <2>1, <2>4, SetupStep DEF Types, DevTypes, QueueTypes
  <2>5. CASE drv.i = 4
    BY <1>1, <1>5, <2>1, <2>5, SetupStep DEF Types, DevTypes, QueueTypes
  <2>6. QED
    BY <1>5, <2>2, <2>3, <2>4, <2>5, SetupStep, Zenon
<1>6. CASE drv.part = "enable"
  <2>1. DrvTypes' /\ features' \subseteq 0 .. 63
    BY <1>6, EnableStep, DrvTypesKept, Zenon DEF Types
  <2>2. CASE drv.i = 1
    <3>1. /\ UNCHANGED <<vq, kvm, polled>>
          /\ dev' = [dev EXCEPT !.qselect = drv.q, !.qsize = vq[drv.q].qsize,
                                !.qdesc = vq[drv.q].qdesc, !.qenable = vq[drv.q].enable]
      BY <1>6, <2>2, EnableStep, Zenon
    <3>2. /\ vq[drv.q].qsize \in 0 .. MaxSize /\ vq[drv.q].qdesc \in Nat
          /\ vq[drv.q].enable \in {0, 1}
      BY <1>1
    <3>3. DevTypes'
      BY <1>1, <3>1, <3>2, Zenon DEF Types, DevTypes
    <3>4. QED
      BY <1>3, <2>1, <3>1, <3>3, Zenon DEF Types, QueueTypes
  <2>3. CASE drv.i = 2
    <3>1. EventTypes'
      BY <1>1, <1>2, <1>6, <2>3, EnableStep DEF Types, EventTypes, KickOf
    <3>2. DevTypes'
      BY <1>6, <2>3, EnableStep DEF Types, DevTypes
    <3>3. /\ QueueTypes'
          /\ \A q \in Queues : vq[q].enable = 1 => vq'[q].enable = 1 /\ vq'[q].ring = vq[q].ring
      BY <1>1, <1>6, <2>3, EnableStep DEF Types, QueueTypes
    <3>4. QED
      BY <2>1, <3>1, <3>2, <3>3, Zenon DEF Types
  <2>4. QED
    BY <1>6, <2>2, <2>3, EnableStep, Zenon
<1>7. CASE drv.part = "finish"
  <2>1. DrvTypes' /\ EventTypes' /\ features' \subseteq 0 .. 63
    BY <1>3, <1>7, FinishStep, DrvTypesKept, Zenon DEF Types
  <2>2. QED
    BY <1>7, <2>1, FinishStep, Zenon DEF Types, DevTypes, QueueTypes
<1>8. QED
  BY <1>4, <1>5, <1>6, <1>7, Zenon DEF Types, DrvTypes, DrvRecord

(* The same place by place, field by field. *)
LEMMA Moves ==
  ASSUME Types, drv' = Following
  PROVE  /\ drv'.gen = drv.gen
         /\ drv.part # "finish" => drv'.state = drv.state
         /\ drv.part = "probe" => \/ drv'.part = "probe"
                                  \/ drv'.part = "setup" /\ drv'.q = 0 /\ drv'.i = 1
         /\ drv.part = "setup" =>
              \/ drv.i < 4 /\ drv'.part = "setup" /\ drv'.q = drv.q /\ drv'.i = drv.i + 1
              \/ drv.i = 4 /\ drv'.part = "setup" /\ drv'.q = drv.q + 1 /\ drv'.i = 1
              \/ /\ drv.i = 4 /\ drv.q = NumQueues - 1
                 /\ drv'.part = "enable" /\ drv'.q = 0 /\ drv'.i = 1
         /\ drv.part = "enable" =>
              \/ drv.i = 1 /\ drv'.part = "enable" /\ drv'.q = drv.q /\ drv'.i = 2
              \/ drv.i = 2 /\ drv'.part = "enable" /\ drv'.q = drv.q + 1 /\ drv'.i = 1
              \/ drv.i = 2 /\ drv.q = NumQueues - 1 /\ drv'.part = "finish"
         /\ drv.part = "finish" => drv'.state = "up"
<1> DEFINE Onto(part) == [drv EXCEPT !.part = part, !.q = 0, !.i = 1]
           Again      == [drv EXCEPT !.q = @ + 1, !.i = 1]
           Further    == [drv EXCEPT !.i = @ + 1]
<1>1. drv \in DrvRecord
  BY Zenon DEF Types, DrvTypes
<1>2. \A part : /\ Onto(part).gen = drv.gen /\ Onto(part).state = drv.state
                /\ Onto(part).part = part /\ Onto(part).q = 0 /\ Onto(part).i = 1
  BY <1>1, Zenon DEF DrvRecord
<1>3. /\ Again.gen = drv.gen /\ Again.state = drv.state /\ Again.part = drv.part
      /\ Again.q = drv.q + 1 /\ Again.i = 1
  BY <1>1, Zenon DEF DrvRecord
<1>4. /\ Further.gen = drv.gen /\ Further.state = drv.state /\ Further.part = drv.part
      /\ Further.q = drv.q /\ Further.i = drv.i + 1
  BY <1>1, Zenon DEF DrvRecord
<1>5. [drv EXCEPT !.state = "up"].gen = drv.gen /\ [drv EXCEPT !.state = "up"].state = "up"
  BY <1>1, Zenon DEF DrvRecord
<1>6. drv.part \in {"probe", "setup", "enable", "finish"}
  BY <1>1, Zenon DEF DrvRecord
<1>7. /\ drv.part = "probe" => drv' = Further \/ drv' = Onto("setup")
      /\ drv.part = "setup" => \/ drv.i < 4 /\ drv' = Further
                               \/ drv.i = 4 /\ drv' = Again
                               \/ drv.i = 4 /\ drv.q = NumQueues - 1 /\ drv' = Onto("enable")
      /\ drv.part = "enable" => \/ drv.i = 1 /\ drv' = Further
                                \/ drv.i = 2 /\ drv' = Again
                                \/ drv.i = 2 /\ drv.q = NumQueues - 1 /\ drv' = Onto("finish")
      /\ drv.part = "finish" => drv' = [drv EXCEPT !.state = "up"]
  BY Followings, Zenon
<1> HIDE DEF Onto, Again, Further
<1>8. CASE drv.part = "probe"
  BY <1>2, <1>4, <1>7, <1>8
<1>9. CASE drv.part = "setup"
  BY <1>2, <1>3, <1>4, <1>7, <1>9
<1>10. CASE drv.part = "enable"
  BY <1>2, <1>3, <1>4, <1>7, <1>10
<1>11. CASE drv.part = "finish"
  BY <1>5, <1>7, <1>11, Zenon
<1>12. QED
  BY <1>6, <1>8, <1>9, <1>10, <1>11, Zenon

LEMMA Refuses ==
  ASSUME Types, drv' = [drv EXCEPT !.state = "refused"]
  PROVE  drv'.gen = drv.gen /\ drv'.state = "refused"
BY Zenon DEF Types, DrvTypes, DrvRecord

(* Numbers of queues and their addresses. *)
LEMMA QueueNumbers ==
  ASSUME Types
  PROVE  /\ drv.q \in Queues /\ 0 \in Queues
         /\ \A q \in Queues : q \in Nat /\ q <= NumQueues - 1 /\ Ring(1, q) \in Nat /\ Ring(1, q) # 0
BY TransportAssumption DEF Types, DrvTypes, DrvRecord, Queues, Ring

(* The first load: a queue is enabled with the address it was given, as    *)
(* the window shows that queue when its address and its enable bit are     *)
(* written.                                                                *)
LEMMA FirstLoadStep ==
  ASSUME Types, Progress, DriverStep, drv.gen = 1
  PROVE  drv'.gen = 1 /\ FirstLoad' /\ (Rings => Rings')
<1>1. drv.state = "probing" /\ FirstLoad
  BY Zenon DEF DriverStep, Progress
<1>2. /\ drv.q \in Queues
      /\ \A q \in Queues : q \in Nat /\ q <= NumQueues - 1 /\ Ring(1, q) \in Nat /\ Ring(1, q) # 0
  BY QueueNumbers, Zenon
<1>3. CASE drv' = [drv EXCEPT !.state = "refused"] /\ vq' = vq
  <2>1. drv'.gen = 1 /\ drv'.state = "refused"
    BY <1>3, Refuses, Zenon
  <2>2. QED
    BY <1>3, <2>1, Zenon DEF FirstLoad, Rings
<1>4. CASE drv.part = "probe" /\ drv' = Following
  <2>1. vq' = vq
    BY <1>4, ProbeStep, Zenon
  <2>2. /\ drv'.gen = 1 /\ drv'.state = "probing"
        /\ drv'.part = "probe" \/ (drv'.part = "setup" /\ drv'.q = 0 /\ drv'.i = 1)
    BY <1>1, <1>4, Moves, Zenon
  <2>3. \A q \in Queues : vq'[q].enable = 0
    BY <1>1, <1>4, <2>1, Zenon DEF FirstLoad
  <2>4. drv'.part = "setup" => AtSetup'
    BY <1>2, <2>2, <2>3 DEF AtSetup
  <2>5. QED
    BY <2>1, <2>2, <2>3, <2>4, Zenon DEF FirstLoad, Rings
<1>5. CASE drv.part = "setup" /\ drv' = Following
  <2>1. AtSetup
    BY <1>1, <1>5, Zenon DEF FirstLoad
  <2>2. drv'.gen = 1 /\ drv'.state = "probing"
    BY <1>1, <1>5, Moves, Zenon
  <2>3. CASE drv.i < 4
    <3>1. drv'.part = "setup" /\ drv'.q = drv.q /\ drv'.i = drv.i + 1
      BY <1>5, <2>3, Moves
    <3>2. dev'.qselect = drv.q
      <4>1. drv.i = 1 \/ (drv.i \in {2, 3} /\ dev.qselect = drv.q)
        BY <1>5, <2>1, <2>3, SetupStep DEF AtSetup
      <4>2. CASE drv.i = 1
        BY <1>5, <4>2, SetupStep, Zenon DEF Types, DevTypes
      <4>3. CASE drv.i \in {2, 3} /\ dev.qselect = drv.q
        BY <1>5, <4>3, SetupStep, Zenon DEF Types, DevTypes
      <4>4. QED
        BY <4>1, <4>2, <4>3, Zenon
    <3>3. \A q \in Queues : vq'[q].enable = vq[q].enable /\ vq'[q].qdesc = vq[q].qdesc
      BY <1>5, <2>3, SetupStep DEF Types, QueueTypes
    <3>4. AtSetup' /\ (Rings => Rings')
      BY <2>1, <3>1, <3>2, <3>3 DEF AtSetup, Given, Rings
    <3>5. QED
      BY <2>2, <3>1, <3>4, Zenon DEF FirstLoad
  <2>4. CASE drv.i = 4
    <3>1. /\ drv'.i = 1
          /\ \/ drv'.part = "setup" /\ drv'.q = drv.q + 1
             \/ drv.q = NumQueues - 1 /\ drv'.part = "enable" /\ drv'.q = 0
      BY <1>5, <2>4, Moves
    <3>2. dev.qselect = drv.q
      BY <2>1, <2>4 DEF AtSetup
    <3>3. vq' = [vq EXCEPT ![drv.q] = [@ EXCEPT !.qdesc = Ring(1, drv.q)]]
      BY <1>5, <2>4, <3>2, SetupStep, Zenon
    <3>4. /\ \A q \in Queues : vq'[q].enable = 0
          /\ vq'[drv.q].qdesc = Ring(1, drv.q)
          /\ \A q \in Queues : q # drv.q => vq'[q].qdesc = vq[q].qdesc
      BY <1>2, <2>1, <3>3, Zenon DEF AtSetup, Types, QueueTypes
    <3>5. \A q \in Queues : q <= drv.q => vq'[q].qdesc = Ring(1, q)
      BY <1>2, <2>1, <3>4 DEF AtSetup, Given
    <3>6. (drv'.part = "setup" => AtSetup') /\ (drv'.part = "enable" => AtEnable')
      BY <1>2, <3>1, <3>4, <3>5 DEF AtSetup, AtEnable, Given
    <3>7. QED
      BY <2>2, <3>1, <3>4, <3>6 DEF FirstLoad, Rings
  <2>5. QED
    BY <1>5, <2>3, <2>4, SetupStep
<1>6. CASE drv.part = "enable" /\ drv' = Following
  <2>1. AtEnable
    BY <1>1, <1>6, Zenon DEF FirstLoad
  <2>2. drv'.gen = 1 /\ drv'.state = "probing"
    BY <1>1, <1>6, Moves, Zenon
  <2>3. CASE drv.i = 1
    <3>1. drv'.part = "enable" /\ drv'.q = drv.q
      BY <1>6, <2>3, Moves
    <3>2. dev'.qselect = drv.q /\ vq' = vq
      BY <1>6, <2>3, EnableStep, Zenon DEF Types, DevTypes
    <3>3. AtEnable'
      BY <2>1, <3>1, <3>2, Zenon DEF AtEnable, Given, Works
    <3>4. QED
      BY <2>2, <3>1, <3>2, <3>3, Zenon DEF FirstLoad, Rings
  <2>4. CASE drv.i = 2
    <3>1. \/ drv'.part = "enable" /\ drv'.q = drv.q + 1 /\ drv'.i = 1
          \/ drv.q = NumQueues - 1 /\ drv'.part = "finish"
      BY <1>6, <2>4, Moves
    <3>2. dev.qselect = drv.q /\ vq[drv.q].enable = 0 /\ vq[drv.q].qdesc = Ring(1, drv.q)
      BY <1>2, <2>1, <2>4 DEF AtEnable, Given
    <3>3. vq' = [vq EXCEPT ![drv.q].enable = 1, ![drv.q].ring = Ring(1, drv.q)]
      BY <1>6, <2>4, <3>2, EnableStep, Zenon
    <3>4. /\ \A q \in Queues : vq'[q].qdesc = vq[q].qdesc
          /\ vq'[drv.q].enable = 1 /\ vq'[drv.q].ring = Ring(1, drv.q)
          /\ \A q \in Queues : q # drv.q => vq'[q] = vq[q]
      BY <1>2, <3>3, Zenon DEF Types, QueueTypes
    <3>5. /\ \A q \in Queues : Given(q)'
          /\ \A q \in Queues : q <= drv.q => Works(q)'
          /\ \A q \in Queues : q > drv.q => vq'[q].enable = 0
      BY <1>2, <2>1, <3>4 DEF AtEnable, Given, Works
    <3>6. Rings => Rings'
      BY <1>2, <3>4, Zenon DEF Rings
    <3>7. /\ drv'.part = "enable" => AtEnable'
          /\ drv'.part = "finish" => \A q \in Queues : Works(q)'
      BY <1>2, <3>1, <3>5 DEF AtEnable
    <3>8. QED
      BY <2>2, <3>1, <3>6, <3>7, Zenon DEF FirstLoad
  <2>5. QED
    BY <1>6, <2>3, <2>4, EnableStep, Zenon
<1>7. CASE drv.part = "finish" /\ drv' = Following
  <2>1. vq' = vq /\ drv'.gen = 1 /\ drv'.state = "up"
    BY <1>7, FinishStep, Moves, Zenon
  <2>2. QED
    BY <1>1, <1>7, <2>1, Zenon DEF FirstLoad, Works, Rings
<1>8. QED
  <2>1. drv.part \in {"probe", "setup", "enable", "finish"}
    BY Zenon DEF Types, DrvTypes, DrvRecord
  <2>2. CASE drv.part = "probe"
    BY <1>3, <1>4, <2>2, ProbeStep, Zenon
  <2>3. CASE drv.part = "setup"
    BY <1>3, <1>5, <2>3, SetupStep, Zenon
  <2>4. QED
    BY <1>6, <1>7, <2>1, <2>2, <2>3, EnableStep, FinishStep, Zenon

(* A later load: the first queue shows that it is enabled, and the driver  *)
(* gives up.                                                               *)
LEMMA LaterLoadStep ==
  ASSUME Types, Progress, DriverStep, drv.gen # 1
  PROVE  drv'.gen # 1 /\ LaterLoad' /\ vq' = vq
<1>1. drv.state = "probing" /\ LaterLoad /\ 0 \in Queues
  BY QueueNumbers, Zenon DEF DriverStep, Progress
<1>2. CASE drv' = [drv EXCEPT !.state = "refused"] /\ vq' = vq
  <2>1. drv'.gen = drv.gen /\ drv'.state = "refused"
    BY <1>2, Refuses, Zenon
  <2>2. QED
    BY <1>1, <1>2, <2>1, Zenon DEF LaterLoad
<1>3. CASE drv.part = "probe" /\ drv' = Following
  <2>1. vq' = vq
    BY <1>3, ProbeStep, Zenon
  <2>2. /\ drv'.gen = drv.gen /\ drv'.state = "probing"
        /\ drv'.part = "probe" \/ (drv'.part = "setup" /\ drv'.q = 0 /\ drv'.i = 1)
    BY <1>1, <1>3, Moves, Zenon
  <2>3. QED
    BY <1>1, <2>1, <2>2 DEF LaterLoad
<1>4. CASE drv.part = "setup"
  <2>1. drv.q = 0 /\ drv.i <= 2 /\ (drv.i = 2 => dev.qenable = 1)
    BY <1>1, <1>4, Zenon DEF LaterLoad
  <2>2. CASE drv.i = 1
    <3>1. drv' = Following /\ vq' = vq /\ dev'.qenable = vq[drv.q].enable
      BY <1>4, <2>2, SetupStep, Zenon DEF Types, DevTypes
    <3>2. /\ drv'.gen = drv.gen /\ drv'.state = "probing"
          /\ drv'.part = "setup" /\ drv'.q = 0 /\ drv'.i = 2
      BY <1>1, <1>4, <2>1, <2>2, <3>1, Moves
    <3>3. QED
      BY <1>1, <2>1, <3>1, <3>2 DEF LaterLoad
  <2>3. CASE drv.i = 2
    BY <1>2, <1>4, <2>1, <2>3, SetupStep
  <2>4. QED
    BY <1>4, <2>1, <2>2, <2>3, SetupStep
<1>5. QED
  BY <1>1, <1>2, <1>3, <1>4, ProbeStep, Zenon DEF LaterLoad

----------------------------------------------------------------------------
(* The driver's steps keep the invariant. *)
LEMMA DriverInv ==
  ASSUME TransportInv, DriverStep
  PROVE  TransportInv'
<1>1. Types' /\ \A q \in Queues : vq[q].enable = 1 => vq'[q].enable = 1 /\ vq'[q].ring = vq[q].ring
  BY DriverTypes, Zenon DEF TransportInv
<1>2. Rings' /\ Progress'
  <2>1. CASE drv.gen = 1
    BY <2>1, FirstLoadStep, Zenon DEF TransportInv, Progress
  <2>2. CASE drv.gen # 1
    <3>1. drv'.gen # 1 /\ LaterLoad' /\ vq' = vq
      BY <2>2, LaterLoadStep, Zenon DEF TransportInv
    <3>2. QED
      BY <3>1, Zenon DEF TransportInv, Progress, Rings
  <2>3. QED
    BY <2>1, <2>2, Zenon
<1>3. Running'
  <2>1. UNCHANGED <<thread, vcpu>> /\ vcpu \in Queues \cup {-1} /\ Running
    BY Zenon DEF DriverStep, TransportInv, Types, EventTypes
  <2>2. QED
    BY <1>1, <2>1, Zenon DEF Running
<1>4. QED
  BY <1>1, <1>2, <1>3, Zenon DEF TransportInv

(* What the rest of the system leaves alone.                               *)
LEMMA RegistersKept ==
  ASSUME TransportInv, UNCHANGED <<regs, event>>,
         drv'.state = drv.state /\ drv'.part = drv.part /\ drv'.q = drv.q
           /\ drv'.i = drv.i /\ drv'.gen = drv.gen
  PROVE  /\ DevTypes' /\ QueueTypes' /\ features' \subseteq 0 .. 63 /\ Rings' /\ Progress'
<1>1. UNCHANGED <<dev, vq, features>>
  BY Zenon DEF regs
<1>2. DevTypes' /\ QueueTypes' /\ features' \subseteq 0 .. 63 /\ Rings'
  BY <1>1, Zenon DEF TransportInv, Types, DevTypes, QueueTypes, Rings
<1>3. (FirstLoad => FirstLoad') /\ (LaterLoad => LaterLoad')
  BY <1>1, Zenon DEF FirstLoad, LaterLoad, AtSetup, AtEnable, Given, Works
<1>4. Progress'
  BY <1>3, Zenon DEF TransportInv, Progress
<1>5. QED
  BY <1>2, <1>4, Zenon

LEMMA ReloadInv ==
  ASSUME TransportInv, Reload
  PROVE  TransportInv'
<1>1. /\ drv.state = "up" /\ UNCHANGED <<dev, vq, features, kvm, polled, efd, thread, vcpu, owed>>
      /\ drv' = [drv EXCEPT !.state = "probing", !.part = "probe", !.q = 0, !.i = 1, !.gen = @ + 1]
  BY Zenon DEF Reload, regs, event
<1>2. drv \in DrvRecord /\ drv.gen \in Nat /\ drv.gen >= 1 /\ 0 \in Queues
  BY QueueNumbers, Zenon DEF TransportInv, Types, DrvTypes, DrvRecord
<1>3. drv' \in DrvRecord
  <2>1. drv' = [state |-> "probing", part |-> "probe", q |-> 0, i |-> 1, gen |-> drv.gen + 1,
                strays |-> drv.strays]
    BY <1>1, <1>2, Zenon DEF DrvRecord
  <2>2. drv.strays \in Nat
    BY <1>2, Zenon DEF DrvRecord
  <2>3. QED
    BY <1>2, <2>1, <2>2 DEF DrvRecord
<1>4. drv'.state = "probing" /\ drv'.part = "probe" /\ drv'.i = 1 /\ drv'.gen = drv.gen + 1
  BY <1>1, <1>2, Zenon DEF DrvRecord
<1>5. Types'
  BY <1>1, <1>2, <1>3, <1>4 DEF TransportInv, Types, DevTypes, QueueTypes, DrvTypes, EventTypes
<1>6. \A q \in Queues : vq[q].enable = 1
  BY <1>1, Zenon DEF TransportInv, Progress, FirstLoad, LaterLoad, Works
<1>7. Progress'
  BY <1>1, <1>2, <1>4, <1>6 DEF Progress, LaterLoad
<1>8. Rings' /\ Running'
  BY <1>1, Zenon DEF TransportInv, Rings, Running
<1>9. QED
  BY <1>5, <1>7, <1>8, Zenon DEF TransportInv

(* A kick starts a handler only in an enabled queue (virtq_notify). *)
LEMMA KickInv ==
  ASSUME TransportInv, NEW q \in Queues, Kick(q)
  PROVE  TransportInv'
<1>1. UNCHANGED <<regs, event, thread>> /\ UNCHANGED <<dev, vq, kvm, polled>>
  BY Zenon DEF Kick, regs, event
<1>2. DrvTypes' /\ drv'.state = drv.state /\ drv'.part = drv.part /\ drv'.q = drv.q
           /\ drv'.i = drv.i /\ drv'.gen = drv.gen
  <2>1. UNCHANGED drv \/ drv' = [drv EXCEPT !.strays = @ + 1]
    BY Zenon DEF Kick
  <2>2. QED
    BY <2>1 DEF TransportInv, Types, DrvTypes, DrvRecord
<1>3. DevTypes' /\ QueueTypes' /\ features' \subseteq 0 .. 63 /\ Rings' /\ Progress'
  BY <1>1, <1>2, RegistersKept, Zenon
<1>4. /\ efd' = efd \/ (KickOf(q) \in kvm /\ efd' = efd \cup {KickOf(q)})
      /\ vcpu' = vcpu \/ (vcpu' = q /\ vq[q].enable # 0)
      /\ owed' \subseteq owed \cup {q}
  BY Zenon DEF Kick, NotifyWrite, Notified, Owed
<1>5. EventTypes'
  BY <1>1, <1>4, Zenon DEF TransportInv, Types, EventTypes
<1>6. Running'
  <2>1. vq[q].enable \in {0, 1}
    BY Zenon DEF TransportInv, Types, QueueTypes
  <2>2. QED
    BY <1>1, <1>4, <2>1, Zenon DEF TransportInv, Running
<1>7. QED
  BY <1>2, <1>3, <1>5, <1>6, Zenon DEF TransportInv, Types

(* So does the ioevent thread. *)
LEMMA ThreadInv ==
  ASSUME TransportInv, Thread
  PROVE  TransportInv'
<1>1. UNCHANGED <<regs, event, vcpu, drv>> /\ UNCHANGED <<dev, vq, kvm, polled>>
  BY Zenon DEF Thread, EpollWait, Callback, CallbackReturn, regs, event
<1>2. DrvTypes'
  BY <1>1, Zenon DEF TransportInv, Types, DrvTypes
<1>3. DevTypes' /\ QueueTypes' /\ features' \subseteq 0 .. 63 /\ Rings' /\ Progress'
  BY <1>1, RegistersKept, Zenon
<1>4. EventTypes /\ Running /\ \A q \in Queues : vq[q].enable \in {0, 1}
  BY Zenon DEF TransportInv, Types, QueueTypes
<1>5. EventTypes' /\ Running'
  <2>1. CASE EpollWait
    BY <1>1, <1>4, <2>1, Zenon DEF EpollWait, EventTypes, Running
  <2>2. CASE Callback
    <3>1. PICK e \in thread.batch :
            /\ efd' = efd \ {e}
            /\ thread' = [pc |-> IF Notified(e.vqn) THEN "handler" ELSE "wait",
                          batch |-> thread.batch \ {e}, q |-> e.vqn]
            /\ owed' = IF Notified(e.vqn) THEN owed \ {e.vqn} ELSE owed
      BY <2>2, Zenon DEF Callback
    <3>2. e.vqn \in Queues
      BY <1>4, Zenon DEF EventTypes
    <3>3. EventTypes'
      BY <1>1, <1>4, <3>1, <3>2, Zenon DEF EventTypes
    <3>4. Running'
      BY <1>1, <1>4, <3>1, <3>2, Zenon DEF Running, Notified
    <3>5. QED
      BY <3>3, <3>4, Zenon
  <2>3. CASE CallbackReturn
    BY <1>1, <1>4, <2>3, Zenon DEF CallbackReturn, EventTypes, Running
  <2>4. QED
    BY <2>1, <2>2, <2>3, Zenon DEF Thread
<1>6. QED
  BY <1>2, <1>3, <1>5, Zenon DEF TransportInv, Types

LEMMA InitInv ==
  ASSUME Init
  PROVE  TransportInv
<1>1. MaxSize \in Nat \ {0} /\ 0 \in Queues
  BY TransportAssumption DEF Queues
<1>2. DevTypes /\ QueueTypes /\ features \subseteq 0 .. 63
  BY <1>1 DEF Init, DevTypes, QueueTypes
<1>3. DrvTypes
  BY <1>1 DEF Init, DrvTypes, DrvRecord
<1>4. EventTypes
  BY Zenon DEF Init, EventTypes
<1>5. Rings /\ Running
  BY DEF Init, Rings, Running
<1>6. Progress
  BY Zenon DEF Init, Progress, FirstLoad
<1>7. QED
  BY <1>2, <1>3, <1>4, <1>5, <1>6, Zenon DEF TransportInv, Types

LEMMA NextInv ==
  ASSUME TransportInv, [Next]_vars
  PROVE  TransportInv'
<1>1. ASSUME UNCHANGED <<regs, event, efd, thread, drv, owed>>, vcpu' \in {vcpu, -1}
      PROVE  TransportInv'
  <2>1. UNCHANGED <<vq, kvm, polled>>
    BY <1>1, Zenon DEF regs, event
  <2>2. DrvTypes' /\ EventTypes' /\ Running'
    BY <1>1, <2>1, Zenon DEF TransportInv, Types, DrvTypes, EventTypes, Running
  <2>3. QED
    BY <1>1, <2>2, RegistersKept, Zenon DEF TransportInv, Types
<1>2. CASE DriverStep
  BY <1>2, DriverInv, Zenon
<1>3. CASE Reload
  BY <1>3, ReloadInv, Zenon
<1>4. CASE MoveBar
  BY <1>1, <1>4, Zenon DEF MoveBar
<1>5. CASE \E q \in Queues : Kick(q)
  BY <1>5, KickInv, Zenon
<1>6. CASE VcpuReturn
  BY <1>1, <1>6, Zenon DEF VcpuReturn
<1>7. CASE Thread
  BY <1>7, ThreadInv, Zenon
<1>8. CASE UNCHANGED vars
  BY <1>1, <1>8, Zenon DEF vars
<1>9. QED
  BY <1>2, <1>3, <1>4, <1>5, <1>6, <1>7, <1>8, Zenon DEF Next

(* The transport's registers, queues, eventfds and the driver's place in   *)
(* its program agree in every reachable state (virtio_pci_iospace_write,   *)
(* virtq_enable, ioeventfd_thread).                                        *)
THEOREM TransportInvariant == Spec => []TransportInv
<1>1. Init => TransportInv
  BY InitInv, Zenon
<1>2. TransportInv /\ [Next]_vars => TransportInv'
  BY NextInv, Zenon
<1>3. QED
  BY <1>1, <1>2, PTL DEF Spec

(* The registers of virtio_pci_config and what the two threads pass each   *)
(* other keep their types: the queue selected is always one there is.      *)
THEOREM TransportTypeTheorem == Spec => []TypeOK
<1>1. TransportInv => TypeOK
  <2> SUFFICES ASSUME TransportInv PROVE TypeOK
    OBVIOUS
  <2>1. /\ dev.qselect \in Queues /\ dev.qsize \in 0 .. MaxSize /\ dev.qenable \in {0, 1}
        /\ dev.df \subseteq 0 .. 31 /\ features \subseteq 0 .. 63
    BY Zenon DEF TransportInv, Types, DevTypes
  <2>2. \A q \in Queues : vq[q].enable \in {0, 1} /\ vq[q].qsize \in 1 .. MaxSize
    BY TransportAssumption DEF TransportInv, Types, QueueTypes
  <2>3. drv.state \in {"probing", "up", "refused"}
    BY Zenon DEF TransportInv, Types, DrvTypes, DrvRecord
  <2>4. /\ polled \subseteq kvm /\ efd \subseteq kvm /\ thread.batch \subseteq polled
        /\ thread.pc \in {"wait", "handler"} /\ vcpu \in Queues \cup {-1} /\ owed \subseteq Queues
    BY Zenon DEF TransportInv, Types, EventTypes
  <2>5. QED
    BY <2>1, <2>2, <2>3, <2>4, Zenon DEF TypeOK
<1>2. QED
  BY <1>1, TransportInvariant, PTL

(* No handler of a queue the device has runs, in the ioevent thread or in  *)
(* the vCPU's, before virtq_enable has given the queue a ring, whenever it *)
(* is notified (virtq_notify, virtio_pci_ioevent_callback).                *)
THEOREM HandlerTheorem == Spec => []HandlerHasRing
<1>1. TransportInv => HandlerHasRing
  BY Zenon DEF TransportInv, Types, EventTypes, Rings, Running, HandlerHasRing
<1>2. QED
  BY <1>1, TransportInvariant, PTL

(* The two ways to a handler exclude each other: a kick on its way to the  *)
(* ioevent thread is of a pair KVM has for the BAR's address, one in the   *)
(* vCPU's thread of a pair it does not have.                               *)
Ways ==
  /\ \A e \in efd \cup thread.batch : e \in kvm /\ e = KickOf(e.vqn)
  /\ thread.pc = "handler" => KickOf(thread.q) \in kvm
  /\ vcpu # -1 => KickOf(vcpu) \notin kvm

LEMMA WaysStep ==
  ASSUME TransportInv, Ways, [Next]_vars
  PROVE  Ways'
<1>1. ASSUME UNCHANGED <<bar, efd, thread>>, kvm \subseteq kvm',
             vcpu' = -1 \/ (UNCHANGED vcpu /\ UNCHANGED kvm)
      PROVE  Ways'
  BY <1>1, Zenon DEF Ways, KickOf
<1>2. CASE DriverStep
  <2>1. vcpu' = -1 /\ UNCHANGED <<bar, efd, thread>>
    BY <1>2, Zenon DEF DriverStep, GuestRuns
  <2>2. kvm \subseteq kvm'
    BY <1>2, Zenon DEF DriverStep, IospaceWrite, SelectDeviceFeature, WriteGuestFeature,
       SelectVirtq, WriteInfo, EnableVirtq, AddEvent, event
  <2>3. QED
    BY <1>1, <2>1, <2>2, Zenon
<1>3. CASE Reload
  BY <1>1, <1>3, Zenon DEF Reload, event
<1>4. CASE MoveBar
  BY <1>4, Zenon DEF MoveBar, GuestRuns, Quiet, Ways, event
<1>5. CASE \E q \in Queues : Kick(q)
  <2>1. PICK q \in Queues : Kick(q)
    BY <1>5, Zenon
  <2>2. UNCHANGED <<bar, kvm, thread>> /\ vcpu = -1
    BY <2>1, Zenon DEF Kick, GuestRuns, event
  <2>3. KickOf(q).vqn = q
    BY Zenon DEF KickOf
  <2>4. \/ KickOf(q) \in kvm /\ efd' = efd \cup {KickOf(q)} /\ UNCHANGED vcpu
        \/ KickOf(q) \notin kvm /\ efd' = efd /\ vcpu' \in {vcpu, q}
    BY <2>1, Zenon DEF Kick, NotifyWrite
  <2>5. \A x : KickOf(x)' = KickOf(x)
    BY <2>2, Zenon DEF KickOf
  <2>6. QED
    BY <2>2, <2>3, <2>4, <2>5, Zenon DEF Ways
<1>6. CASE VcpuReturn
  BY <1>1, <1>6, Zenon DEF VcpuReturn, event
<1>7. CASE Thread
  <2>1. UNCHANGED <<bar, kvm, vcpu>> /\ thread.batch \subseteq polled /\ polled \subseteq kvm
    BY <1>7, Zenon DEF Thread, EpollWait, Callback, CallbackReturn, event, TransportInv, Types,
       EventTypes
  <2>2. CASE EpollWait
    BY <2>1, <2>2, Zenon DEF EpollWait, Ways, KickOf, TransportInv, Types, EventTypes
  <2>3. CASE Callback
    <3>1. PICK e \in thread.batch :
            /\ efd' = efd \ {e}
            /\ thread' = [pc |-> IF Notified(e.vqn) THEN "handler" ELSE "wait",
                          batch |-> thread.batch \ {e}, q |-> e.vqn]
      BY <2>3, Zenon DEF Callback
    <3>2. thread'.batch = thread.batch \ {e} /\ thread'.q = e.vqn
      BY <3>1, Zenon
    <3>3. QED
      BY <2>1, <3>1, <3>2, Zenon DEF Ways, KickOf
  <2>4. CASE CallbackReturn
    BY <2>1, <2>4, Zenon DEF CallbackReturn, Ways, KickOf, TransportInv, Types, EventTypes
  <2>5. QED
    BY <1>7, <2>2, <2>3, <2>4, Zenon DEF Thread
<1>8. CASE UNCHANGED vars
  BY <1>1, <1>8, Zenon DEF vars, event
<1>9. QED
  BY <1>2, <1>3, <1>4, <1>5, <1>6, <1>7, <1>8, Zenon DEF Next

(* The ioevent thread and the vCPU's thread are never both in the handler  *)
(* of one queue, which takes no lock (virtio_blk_handle_output): KVM has   *)
(* an eventfd for the queue's kicks or it has not, and this changes only   *)
(* while neither is in it.                                                 *)
THEOREM OneHandlerTheorem == Spec => []OneHandler
<1>1. Init => Ways
  BY DEF Init, Ways
<1>2. TransportInv /\ Ways /\ [Next]_vars => Ways'
  BY WaysStep, Zenon
<1>3. TransportInv /\ Ways => OneHandler
  <2>1. Types /\ thread.pc = "handler" /\ thread.q \in Queues => thread.q # -1
    BY QueueNumbers, SMT
  <2>2. QED
    BY <2>1, Zenon DEF TransportInv, Running, Ways, OneHandler
<1>4. QED
  BY <1>1, <1>2, <1>3, TransportInvariant, PTL DEF Spec

(* A driver comes up only the first time: virtio_pci_iospace_write stores  *)
(* the status a later one resets the device with, and leaves the queues    *)
(* enabled.                                                                *)
NoSecondLoad == drv.state = "up" => drv.gen = 1

(* No driver that is loaded again gets past virtio_pci_cmd_select_virtq:   *)
(* the queue_enable it shows is 1.                                         *)
THEOREM NoSecondLoadTheorem == Spec => []NoSecondLoad
<1>1. TransportInv => NoSecondLoad
  BY Zenon DEF TransportInv, Progress, LaterLoad, NoSecondLoad
<1>2. QED
  BY <1>1, TransportInvariant, PTL

(* Every queue of a driver that is up works with the ring programmed for   *)
(* it, though all queues are set up through one window of registers        *)
(* (virtio_pci_cmd_select_virtq, virtq_enable).                            *)
THEOREM RingProgrammedTheorem == Spec => []RingProgrammed
<1>1. TransportInv => RingProgrammed
  <2> SUFFICES ASSUME TransportInv, drv.state = "up", NEW q \in Queues
               PROVE  vq[q].enable = 1 /\ vq[q].qsize = MaxSize /\ vq[q].ring = Ring(drv.gen, q)
    BY Zenon DEF RingProgrammed
  <2>1. drv.gen = 1 /\ Works(q)
    BY Zenon DEF TransportInv, Progress, FirstLoad, LaterLoad
  <2>2. vq[q].qsize = MaxSize
    BY Zenon DEF TransportInv, Types, QueueTypes
  <2>3. QED
    BY <2>1, <2>2, Zenon DEF Works
<1>2. QED
  BY <1>1, TransportInvariant, PTL
=============================================================================
