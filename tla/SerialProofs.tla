---------------------------- MODULE SerialProofs ----------------------------
(***************************************************************************)
(* Proofs about Serial, for a FIFO of any length, any number of bytes and  *)
(* register accesses, and every interleaving of the two threads: what its  *)
(* variables hold, and what SerialRaces says of it as long as certain      *)
(* races have not happened.                                                *)
(***************************************************************************)
EXTENDS SerialRaces, TLAPS

Labels ==
  FifoPut \cup
  {"out", "dr", "wild", "update", "thri", "iir", "event", "read_iir", "clear_iir",
   "get", "uncount", "count--", "empty?", "dr=0"}

(* Remainders. *)
LEMMA DivMod ==
  ASSUME NEW x \in Int, NEW n \in Nat, n > 0
  PROVE  /\ x % n \in 0 .. n - 1 /\ x \div n \in Int
         /\ x = n * (x \div n) + (x % n)
  <1>1. x = n * (x \div n) + (x % n)
    BY Z3, Zenon
  <1>2. x % n \in 0 .. n - 1 /\ x \div n \in Int
    BY Z3, Zenon
  <1> QED BY <1>1, <1>2, Zenon

(* Quotient and remainder are unique. *)
LEMMA ModUnique ==
  ASSUME NEW x \in Int, NEW n \in Nat, n > 0, NEW q \in Int, NEW r \in 0 .. n - 1, x = n * q + r
  PROVE  x % n = r
  <1> DEFINE p == x \div n
             s == x % n
  <1>1. p \in Int /\ s \in 0 .. n - 1 /\ x = n * p + s
    BY DivMod, Zenon
  <1> HIDE DEF p, s
  <1>2. n * (p - q) = r - s /\ n * (q - p) = s - r
    BY <1>1
  <1>3. p - q < 1
    <2> SUFFICES ASSUME p - q >= 1 PROVE FALSE
      BY <1>1
    <2>1. n * (p - q) >= n
      BY <1>1
    <2> QED BY <1>1, <1>2, <2>1
  <1>4. q - p < 1
    <2> SUFFICES ASSUME q - p >= 1 PROVE FALSE
      BY <1>1
    <2>1. n * (q - p) >= n
      BY <1>1
    <2> QED BY <1>1, <1>2, <2>1
  <1>5. p = q
    BY <1>1, <1>3, <1>4
  <1>6. s = r
    BY <1>1, <1>5
  <1> QED BY <1>6, Zenon DEF s

LEMMA DivModPick ==
  ASSUME NEW x \in Int, NEW n \in Nat, n > 0
  PROVE  \E q \in Int, c \in Int : c \in 0 .. n - 1 /\ x = n * q + c /\ x % n = c
  <1>1. x % n \in 0 .. n - 1 /\ x \div n \in Int
    BY DivMod, Zenon
  <1>2. x % n \in Int
    BY <1>1
  <1>3. x = n * (x \div n) + (x % n)
    BY DivMod, Zenon
  <1> QED BY <1>1, <1>2, <1>3, Zenon

LEMMA ModPlus ==
  ASSUME NEW x \in Int, NEW y \in Int, NEW n \in Nat, n > 0
  PROVE  ((x % n) + y) % n = (x + y) % n
  <1>1. PICK q \in Int, c \in Int : x = n * q + c /\ x % n = c
    BY DivModPick, Zenon
  <1>2. c + y \in Int /\ x + y \in Int
    BY <1>1
  <1>3. PICK p \in Int, d \in Int : d \in 0 .. n - 1 /\ c + y = n * p + d /\ (c + y) % n = d
    BY <1>2, DivModPick, Zenon
  <1>4. x + y = n * (q + p) + d /\ q + p \in Int
    BY <1>1, <1>3
  <1>5. (x + y) % n = d
    BY <1>2, <1>3, <1>4, ModUnique, Zenon
  <1> QED BY <1>1, <1>3, <1>5, Zenon

LEMMA ModSmall ==
  ASSUME NEW n \in Nat, NEW x \in 0 .. n - 1
  PROVE  x % n = x
  <1>1. x = n * 0 + x /\ n > 0 /\ x \in Int /\ 0 \in Int
    OBVIOUS
  <1> QED BY <1>1, ModUnique, Zenon

(* Multiples of the divisor do not count. *)
LEMMA ModShift ==
  ASSUME NEW x \in Int, NEW n \in Nat, n > 0, NEW z \in Int
  PROVE  (x + n * z) % n = x % n
  <1>1. PICK q \in Int, d \in Int : d \in 0 .. n - 1 /\ x = n * q + d /\ x % n = d
    BY DivModPick, Zenon
  <1>2. x + n * z = n * (q + z) + d /\ q + z \in Int /\ x + n * z \in Int
    BY <1>1
  <1>3. (x + n * z) % n = d
    BY <1>1, <1>2, ModUnique, Zenon
  <1> QED BY <1>1, <1>3, Zenon

(* Remainders add up, also when one is by a multiple of the divisor. *)
LEMMA ModSum ==
  ASSUME NEW a \in Int, NEW b \in Int, NEW n \in Nat, n > 0, NEW w \in Nat, w > 0, w % n = 0
  PROVE  ((a % n) + (b % w)) % n = (a + b) % n
  <1>1. PICK k \in Int : w = n * k
    <2>1. w \in Int
      OBVIOUS
    <2>2. PICK k \in Int, c \in Int : w = n * k + c /\ w % n = c
      BY <2>1, DivModPick, Zenon
    <2> QED BY <2>2
  <1>2. PICK q \in Int, c \in Int : b = w * q + c /\ b % w = c
    BY DivModPick, Zenon
  <1>3. k * q \in Int /\ a + c \in Int
    BY <1>1, <1>2
  <1>4. a + b = (a + c) + n * (k * q)
    BY <1>1, <1>2
  <1>5. ((a + c) + n * (k * q)) % n = (a + c) % n
    BY <1>3, ModShift, Zenon
  <1>6. ((a % n) + c) % n = (a + c) % n
    BY <1>2, ModPlus, Zenon
  <1> QED BY <1>2, <1>4, <1>5, <1>6, Zenon

LEMMA ModInt ==
  ASSUME NEW x \in Int, NEW n \in Nat \ {0}
  PROVE  x % n \in Int
  OBVIOUS

----------------------------------------------------------------------------
(* Type correctness.                                                       *)

FifoTypes ==
  /\ data \in [0 .. FifoLength - 1 -> Nat]
  /\ head \in Nat /\ tail \in 0 .. FifoLength - 1 /\ count \in 0 .. CountWrap - 1

RegTypes ==
  /\ dr \in BOOLEAN /\ ier \in Enables /\ iir \in {"NO_INT", "RDI", "THRI"}
  /\ thr_pending \in {0, 1} /\ loop \in BOOLEAN /\ dlab \in BOOLEAN
  /\ latch \in [Latches -> LatchVals]

LocalTypes ==
  /\ irq \in BOOLEAN /\ over \in BOOLEAN
  /\ chr \in [Threads -> Nat] /\ newIir \in [Threads -> {"NO_INT", "RDI", "THRI"}]

PlaceTypes == pc \in [Threads -> Labels] /\ tmp \in [Threads -> Nat]

GuestTypes == guest \in {"run", "handler", "poll", "rbr"} /\ got \in Seq(Int)

CountTypes == keys \in Nat /\ ops \in Nat /\ nput \in Nat /\ nget \in Nat

Types == FifoTypes /\ RegTypes /\ LocalTypes /\ PlaceTypes /\ GuestTypes /\ CountTypes

(* Every group keeps its types in a step that leaves it alone. *)
LEMMA TypesKept ==
  ASSUME Types
  PROVE  /\ UNCHANGED fifo => FifoTypes'
         /\ UNCHANGED regs => RegTypes'
         /\ UNCHANGED <<irq, over, chr, newIir>> => LocalTypes'
         /\ UNCHANGED <<pc, tmp>> => PlaceTypes'
         /\ UNCHANGED <<guest, got>> => GuestTypes'
         /\ UNCHANGED counters => CountTypes'
PROOF
  <1>1. UNCHANGED fifo => FifoTypes'
    BY Zenon DEF Types, FifoTypes, fifo
  <1>2. UNCHANGED regs => RegTypes'
    BY Zenon DEF Types, RegTypes, regs
  <1>3. UNCHANGED <<irq, over, chr, newIir>> => LocalTypes'
    BY Zenon DEF Types, LocalTypes
  <1>4. UNCHANGED <<guest, got>> => GuestTypes'
    BY Zenon DEF Types, GuestTypes
  <1>5. UNCHANGED counters => CountTypes'
    BY Zenon DEF Types, CountTypes, counters
  <1>6. UNCHANGED <<pc, tmp>> => PlaceTypes'
    BY Zenon DEF Types, PlaceTypes
  <1> QED BY <1>1, <1>2, <1>3, <1>4, <1>5, <1>6, Zenon

LEMMA AppendInt ==
  ASSUME NEW s \in Seq(Int), NEW e \in Int
  PROVE  Append(s, e) \in Seq(Int)
  OBVIOUS

(* A step of thread t to a place in a handler, or to none. *)
Goes(t) ==
  /\ pc' = pc \/ \E l \in Labels : Goto(t, l)
  /\ tmp' = tmp \/ \E v \in Nat : tmp' = [tmp EXCEPT ![t] = v]

LEMMA PlaceStep ==
  ASSUME Types, NEW t \in Threads, Goes(t)
  PROVE  PlaceTypes'
  BY Zenon DEF Types, PlaceTypes, Goes, Goto

LEMMA PutTypes ==
  ASSUME Types, NEW t \in Threads, Put(t)
  PROVE  Types'
PROOF
  <1>0. /\ FifoLength \in Nat /\ CountWrap \in Nat /\ CountWrap > 0
        /\ tmp[t] \in Nat /\ chr[t] \in Nat /\ head \in Nat /\ count \in Nat
        /\ tmp[t] + 1 \in Nat /\ 0 \in Nat
    BY SerialAssumption DEF Types, LocalTypes, PlaceTypes, FifoTypes
  <1>1. LocalTypes' /\ GuestTypes' /\ CountTypes'
    <2>1. UNCHANGED <<irq, over, chr, newIir>> /\ UNCHANGED <<guest, got>> /\ UNCHANGED counters
      BY Zenon
      DEF Put, LoadHead, StoreHead, StoreData, CheckWrap, ResetHead, LoadCount, StoreCount, SetDr
    <2> QED BY <2>1, TypesKept, Zenon
  <1>2. RegTypes'
    <2>1. CASE SetDr(t)
      BY <2>1, Zenon DEF SetDr, Types, RegTypes
    <2>2. CASE ~SetDr(t)
      <3>1. UNCHANGED regs
        BY <2>2, Zenon
        DEF Put, LoadHead, StoreHead, StoreData, CheckWrap, ResetHead, LoadCount, StoreCount
      <3> QED BY <3>1, TypesKept, Zenon
    <2> QED BY <2>1, <2>2, Zenon
  <1>3. FifoTypes'
    <2>1. CASE LoadHead(t) \/ CheckWrap(t) \/ LoadCount(t) \/ SetDr(t)
      <3>1. UNCHANGED fifo
        BY <2>1, Zenon DEF LoadHead, CheckWrap, LoadCount, SetDr
      <3> QED BY <3>1, TypesKept, Zenon
    <2>2. CASE StoreHead(t) \/ ResetHead(t)
      BY <1>0, <2>2, Zenon DEF StoreHead, ResetHead, Types, FifoTypes
    <2>3. CASE StoreData(t)
      <3>1. data' \in [0 .. FifoLength - 1 -> Nat]
        BY <1>0, <2>3, Zenon DEF StoreData, Types, FifoTypes
      <3> QED BY <2>3, <3>1, Zenon DEF StoreData, Types, FifoTypes
    <2>4. CASE StoreCount(t)
      <3>1. tmp[t] + 1 \in Int
        BY <1>0
      <3>2. count' \in 0 .. CountWrap - 1
        BY <1>0, <2>4, <3>1, DivMod, Zenon DEF StoreCount
      <3> QED BY <2>4, <3>2, Zenon DEF StoreCount, Types, FifoTypes
    <2> QED BY <2>1, <2>2, <2>3, <2>4, Zenon DEF Put
  <1>4. PlaceTypes'
    <2>1. Goes(t)
      BY <1>0, Zenon DEF Goes, Put, LoadHead, StoreHead, StoreData, CheckWrap, ResetHead, LoadCount,
         StoreCount, SetDr, Goto, Labels, FifoPut
    <2> QED BY <2>1, PlaceStep, Zenon
  <1> QED BY <1>1, <1>2, <1>3, <1>4, Zenon DEF Types

LEMMA UpdateTypes ==
  ASSUME Types, NEW t \in Threads, Update(t)
  PROVE  Types'
PROOF
  <1>1. FifoTypes' /\ GuestTypes' /\ CountTypes'
    <2>1. UNCHANGED fifo /\ UNCHANGED <<guest, got>> /\ UNCHANGED counters
      BY Zenon DEF Update, CheckRdi, CheckThri, StoreIir, WriteEvent
    <2> QED BY <2>1, TypesKept, Zenon
  <1>2. RegTypes'
    <2>1. CASE StoreIir(t)
      BY <2>1, Zenon DEF StoreIir, Types, RegTypes, LocalTypes
    <2>2. CASE ~StoreIir(t)
      <3>1. UNCHANGED regs
        BY <2>2, Zenon DEF Update, CheckRdi, CheckThri, WriteEvent
      <3> QED BY <3>1, TypesKept, Zenon
    <2> QED BY <2>1, <2>2, Zenon
  <1>3. LocalTypes'
    <2>1. CASE CheckRdi(t) \/ CheckThri(t)
      BY <2>1, Zenon DEF CheckRdi, CheckThri, Types, LocalTypes
    <2>2. CASE StoreIir(t) \/ WriteEvent(t)
      BY <2>2, Zenon DEF StoreIir, WriteEvent, Types, LocalTypes
    <2> QED BY <2>1, <2>2, Zenon DEF Update
  <1>4. PlaceTypes'
    <2>1. Goes(t)
      BY Zenon DEF Goes, Update, CheckRdi, CheckThri, StoreIir, WriteEvent, Goto, Labels
    <2> QED BY <2>1, PlaceStep, Zenon
  <1> QED BY <1>1, <1>2, <1>3, <1>4, Zenon DEF Types

LEMMA ReadTypes ==
  ASSUME Types, TakeIrq \/ ReadReg
  PROVE  Types'
PROOF
  <1>0. /\ FifoLength \in Nat /\ FifoLength > 0 /\ CountWrap \in Nat /\ CountWrap > 0
        /\ tmp["vcpu"] \in Nat /\ "vcpu" \in Threads /\ count \in Nat
    BY SerialAssumption DEF Types, PlaceTypes, FifoTypes, Threads
  <1> USE DEF TakeIrq, ReadReg, ReadIir, ClearIir, ReadLsr, ReadRbr, Get, LoadUncount, StoreUncount,
              CheckEmpty, ClearDr
  <1>1. RegTypes'
    <2>1. CASE ReadIir \/ ClearIir \/ ClearDr
      BY <2>1, Zenon DEF Types, RegTypes
    <2>2. CASE ~(ReadIir \/ ClearIir \/ ClearDr)
      <3>1. UNCHANGED regs
        BY <2>2, Zenon
      <3> QED BY <3>1, TypesKept, Zenon
    <2> QED BY <2>1, <2>2, Zenon
  <1>2. LocalTypes'
    <2>1. CASE TakeIrq \/ ReadIir
      BY <1>0, <2>1, Zenon DEF Types, LocalTypes, RegTypes
    <2>2. CASE ~(TakeIrq \/ ReadIir)
      <3>1. UNCHANGED <<irq, over, chr, newIir>>
        BY <2>2, Zenon
      <3> QED BY <3>1, TypesKept, Zenon
    <2> QED BY <2>1, <2>2, Zenon
  <1>3. GuestTypes'
    <2>1. guest' \in {"run", "handler", "poll", "rbr"}
      BY Zenon DEF Types, GuestTypes
    <2>2. got' \in Seq(Int)
      <3>1. Garbage \in Int /\ 0 \in Int /\ data[tail] \in Int
        BY <1>0 DEF Garbage, Types, FifoTypes
      <3>2. got' = got \/ \E e \in Int : got' = Append(got, e)
        BY <3>1, Zenon
      <3> QED BY <3>2, AppendInt, Zenon DEF Types, GuestTypes
    <2> QED BY <2>1, <2>2, Zenon DEF GuestTypes
  <1>4. CountTypes'
    BY DEF Types, CountTypes, counters
  <1>5. FifoTypes'
    <2>1. CASE Get
      <3>1. tail' \in 0 .. FifoLength - 1
        BY <1>0, <2>1 DEF NextTail, Types, FifoTypes
      <3> QED BY <2>1, <3>1, Zenon DEF Types, FifoTypes
    <2>2. CASE StoreUncount
      <3>1. tmp["vcpu"] - 1 \in Int
        BY <1>0
      <3>2. count' \in 0 .. CountWrap - 1
        BY <1>0, <2>2, <3>1, DivMod, Zenon
      <3> QED BY <2>2, <3>2, Zenon DEF Types, FifoTypes
    <2>3. CASE ~Get /\ ~StoreUncount
      <3>1. UNCHANGED fifo
        BY <2>3, Zenon
      <3> QED BY <3>1, TypesKept, Zenon
    <2> QED BY <2>1, <2>2, <2>3, Zenon
  <1>6. PlaceTypes'
    <2>1. Goes("vcpu")
      BY <1>0, Zenon DEF Goes, Goto, Labels
    <2> QED BY <1>0, <2>1, PlaceStep, Zenon
  <1> QED BY <1>1, <1>2, <1>3, <1>4, <1>5, <1>6, Zenon DEF Types

LEMMA EnterTypes ==
  ASSUME Types, Receive \/ WriteReg
  PROVE  Types'
PROOF
  <1>0. "vcpu" \in Threads /\ "stdin" \in Threads
    BY Zenon DEF Threads
  <1>9. ASSUME NEW u \in Threads, StartPut(u)
        PROVE  over' \in BOOLEAN /\ nput' \in Nat /\ chr' \in [Threads -> Nat]
    <2>1. over' \in BOOLEAN
      BY <1>9, Zenon DEF StartPut
    <2>2. nput + 1 \in Nat /\ chr \in [Threads -> Nat]
      BY DEF Types, CountTypes, LocalTypes
    <2> QED BY <1>9, <2>1, <2>2, Zenon DEF StartPut
  <1> USE DEF WriteReg, WriteThr, WriteIer, WriteLatch, WriteLcr, WriteMcr, Receive
  <1>1. FifoTypes' /\ GuestTypes'
    <2>1. UNCHANGED fifo /\ UNCHANGED <<guest, got>>
      OBVIOUS
    <2> QED BY <2>1, TypesKept, Zenon
  <1>2. over' \in BOOLEAN /\ nput' \in Nat /\ chr' \in [Threads -> Nat]
    <2>1. (\E u \in Threads : StartPut(u)) \/ UNCHANGED <<over, nput, chr>>
      BY <1>0, Zenon
    <2> QED BY <1>9, <2>1, Zenon DEF Types, CountTypes, LocalTypes
  <1>3. LocalTypes'
    <2>1. UNCHANGED <<irq, newIir>>
      OBVIOUS
    <2> QED BY <1>2, <2>1, Zenon DEF Types, LocalTypes
  <1>4. CountTypes'
    BY <1>2 DEF Types, CountTypes
  <1>5. RegTypes'
    <2>1. CASE Receive
      BY <2>1, TypesKept, Zenon
    <2>2. CASE WriteThr
      BY <2>2, Zenon DEF Types, RegTypes
    <2>3. ASSUME NEW v \in Enables, NEW rest \in BOOLEAN, WriteIer(v, rest) PROVE RegTypes'
      BY <2>3, Zenon DEF Types, RegTypes
    <2>4. ASSUME NEW l \in Latches, NEW v \in LatchVals, WriteLatch(l, v) PROVE RegTypes'
      BY <2>4, Zenon DEF Types, RegTypes
    <2>5. ASSUME NEW v \in BOOLEAN, WriteLcr(v) \/ WriteMcr(v) PROVE RegTypes'
      BY <2>5, Zenon DEF Types, RegTypes
    <2> HIDE DEF WriteThr, WriteIer, WriteLatch, WriteLcr, WriteMcr, Receive
    <2> QED BY <2>1, <2>2, <2>3, <2>4, <2>5, Zenon
  <1>6. PlaceTypes'
    <2>1. Goes("vcpu") \/ Goes("stdin")
      BY Zenon DEF Goes, Goto, StartPut, Labels, FifoPut
    <2> QED BY <1>0, <2>1, PlaceStep, Zenon
  <1> QED BY <1>1, <1>3, <1>4, <1>5, <1>6, Zenon DEF Types

LEMMA TypesStep ==
  ASSUME Types, [Next]_vars
  PROVE  Types'
PROOF
  <1>1. CASE UNCHANGED vars
    BY <1>1, TypesKept, Zenon DEF Types, vars
  <1> QED BY <1>1, PutTypes, UpdateTypes, ReadTypes, EnterTypes, Zenon
          DEF Next, StdinStep, VcpuStep, Threads

LEMMA TypesInit == Init => Types
PROOF
  <1> SUFFICES ASSUME Init PROVE Types
    OBVIOUS
  <1>1. data \in [0 .. FifoLength - 1 -> Nat] /\ latch \in [Latches -> LatchVals]
    BY Zenon DEF Init, LatchVals
  <1>2. chr \in [Threads -> Nat] /\ newIir \in [Threads -> {"NO_INT", "RDI", "THRI"}]
    BY Zenon DEF Init
  <1>3. got \in Seq(Int) /\ ier \in Enables
    BY DEF Init, Enables
  <1>4. /\ head \in Nat /\ tail \in 0 .. FifoLength - 1 /\ count \in 0 .. CountWrap - 1
        /\ thr_pending \in {0, 1} /\ keys \in Nat /\ ops \in Nat /\ nput \in Nat /\ nget \in Nat
    BY SerialAssumption DEF Init
  <1>5. /\ dr \in BOOLEAN /\ loop \in BOOLEAN /\ dlab \in BOOLEAN /\ irq \in BOOLEAN
        /\ over \in BOOLEAN
    BY Zenon DEF Init
  <1>6. iir \in {"NO_INT", "RDI", "THRI"} /\ guest \in {"run", "handler", "poll", "rbr"}
    BY Zenon DEF Init
  <1>7. PlaceTypes
    <2>1. 0 \in Nat
      OBVIOUS
    <2> QED BY <2>1, Zenon DEF Init, PlaceTypes, Labels
  <1> QED BY <1>1, <1>2, <1>3, <1>4, <1>5, <1>6, <1>7, Zenon
          DEF Types, FifoTypes, RegTypes, LocalTypes, GuestTypes, CountTypes

(* Every field of struct Serial keeps its type, whatever the two threads   *)
(* do to each other: count its width and tail the array's bounds.          *)
THEOREM SerialTypeTheorem == Spec => []TypeOK
PROOF
  <1>1. Types => TypeOK
    BY Zenon DEF Types, FifoTypes, RegTypes, LocalTypes, GuestTypes, CountTypes, TypeOK
  <1> QED BY TypesInit, TypesStep, <1>1, PTL DEF Spec

----------------------------------------------------------------------------
(* The interrupt.                                                          *)

(* Where the interrupt for data that is ready can be, unless there was a   *)
(* race for the IIR: the guest is going to look at the LSR; or the IIR     *)
(* says so, and the interrupt is raised, about to be, or just taken; or    *)
(* the guest has read it from the IIR; or a thread is on its way to store  *)
(* it there.  The IIR is part of it, because a handler that reads NO_INT   *)
(* leaves.                                                                 *)
RaiseInv ==
  /\ pc["vcpu"] \in {"read_iir", "clear_iir"} => guest = "handler"
  /\ ier.rdi /\ dr =>
       \/ guest \in {"poll", "rbr"}
       \/ iir = "RDI" /\ (irq \/ pc["vcpu"] = "read_iir" \/ \E t \in Threads : pc[t] = "event")
       \/ pc["vcpu"] = "clear_iir" /\ newIir["vcpu"] = "RDI"
       \/ \E t \in Threads : pc[t] = "update" \/ (pc[t] = "iir" /\ newIir[t] = "RDI")

LEMMA RaiseInit == Init => RaiseInv
  BY Zenon DEF Init, RaiseInv, Threads

(* A step of a thread that is not at a place RaiseInv speaks of. *)
LEMMA RaiseKeep ==
  ASSUME Types, RaiseInv, NEW t \in Threads, NEW l,
         pc[t] \notin {"read_iir", "clear_iir", "update", "iir", "event"},
         Goto(t, l), l \notin {"read_iir", "clear_iir"},
         UNCHANGED <<dr, ier, iir, irq, guest>>,
         \A u \in Threads : u = t \/ newIir'[u] = newIir[u]
  PROVE  RaiseInv'
PROOF
  <1>1. \A u \in Threads : pc'[u] = IF u = t THEN l ELSE pc[u]
    BY Zenon DEF Goto, Types, PlaceTypes
  <1>2. "vcpu" \in Threads
    BY Zenon DEF Threads
  <1> QED BY <1>1, <1>2, Zenon DEF RaiseInv

LEMMA RaiseStay ==
  ASSUME RaiseInv, UNCHANGED <<pc, dr, ier, iir, irq, guest, newIir>>
  PROVE  RaiseInv'
  BY Zenon DEF RaiseInv

(* In fifo_put nothing the interrupt depends on changes. *)
LEMMA RaisePut ==
  ASSUME Types, RaiseInv, NEW t \in Threads, Put(t)
  PROVE  RaiseInv'
PROOF
  <1>1. CASE SetDr(t)
    <2>1. pc[t] = "dr" /\ pc'[t] = "update" /\ \A u \in Threads : u = t \/ pc'[u] = pc[u]
      BY <1>1, Zenon DEF SetDr, Goto, Types, PlaceTypes
    <2>2. "vcpu" \in Threads /\ guest' = guest
      BY <1>1, Zenon DEF Threads, SetDr
    <2> QED BY <2>1, <2>2, Zenon DEF RaiseInv
  <1>2. CASE ~SetDr(t)
    <2>1. /\ pc[t] \in FifoPut /\ \E l \in FifoPut \cup {"dr", "wild"} : Goto(t, l)
          /\ UNCHANGED <<dr, ier, iir, irq, guest, newIir>>
      BY <1>2, Zenon DEF Put, LoadHead, StoreHead, StoreData, CheckWrap, ResetHead, LoadCount,
         StoreCount, FifoPut, regs
    <2> QED BY <2>1, RaiseKeep, Zenon DEF FifoPut
  <1> QED BY <1>1, <1>2, Zenon

(* update_serial_iir raises it, if what it stores is up to date. *)
LEMMA RaiseUpdate ==
  ASSUME Types, RaiseInv, ~IirRace, NEW t \in Threads, Update(t)
  PROVE  RaiseInv'
PROOF
  <1>0. "vcpu" \in Threads /\ newIir \in [Threads -> {"NO_INT", "RDI", "THRI"}]
    BY Zenon DEF Threads, Types, LocalTypes
  <1>1. CASE CheckRdi(t)
    <2>1. CASE ier.rdi /\ dr
      <3>1. /\ pc[t] = "update" /\ pc'[t] = "iir" /\ newIir'[t] = "RDI" /\ guest' = guest
            /\ \A u \in Threads : u = t \/ pc'[u] = pc[u]
        BY <1>0, <1>1, <2>1, Zenon DEF CheckRdi, Goto, Types, PlaceTypes
      <3> QED BY <1>0, <3>1, Zenon DEF RaiseInv
    <2>2. CASE ~(ier.rdi /\ dr)
      <3>1. /\ pc[t] = "update" /\ pc'[t] = "thri" /\ UNCHANGED <<ier, dr, guest>>
            /\ \A u \in Threads : u = t \/ pc'[u] = pc[u]
        BY <1>1, <2>2, Zenon DEF CheckRdi, Goto, Types, PlaceTypes, regs
      <3> QED BY <1>0, <2>2, <3>1, Zenon DEF RaiseInv
    <2> QED BY <2>1, <2>2, Zenon
  <1>2. CASE CheckThri(t)
    <2>1. /\ pc[t] = "thri" /\ Goto(t, "iir") /\ UNCHANGED <<dr, ier, iir, irq, guest>>
          /\ \A u \in Threads : u = t \/ newIir'[u] = newIir[u]
      BY <1>0, <1>2, Zenon DEF CheckThri, regs
    <2> QED BY <2>1, RaiseKeep, Zenon
  <1>3. CASE StoreIir(t)
    <2>1. /\ pc[t] = "iir" /\ UNCHANGED <<dr, ier, irq, guest, newIir>>
          /\ pc'[t] = IF newIir[t] # "NO_INT" THEN "event" ELSE "out"
          /\ \A u \in Threads : u = t \/ pc'[u] = pc[u]
      BY <1>3, Zenon DEF StoreIir, Goto, Types, PlaceTypes
    <2>2. iir' = Pending /\ newIir[t] = Pending
      BY <1>3, Zenon DEF StoreIir, IirRace
    <2>3. ier.rdi /\ dr => iir' = "RDI" /\ pc'[t] = "event"
      BY <2>1, <2>2, Zenon DEF Pending
    <2> QED BY <1>0, <2>1, <2>3, Zenon DEF RaiseInv
  <1>4. CASE WriteEvent(t)
    <2>1. /\ pc[t] = "event" /\ pc'[t] = "out" /\ UNCHANGED <<dr, ier, iir, guest, newIir>>
          /\ irq' = TRUE /\ \A u \in Threads : u = t \/ pc'[u] = pc[u]
      BY <1>4, Zenon DEF WriteEvent, Goto, Types, PlaceTypes, regs
    <2> QED BY <1>0, <2>1, Zenon DEF RaiseInv
  <1> QED BY <1>1, <1>2, <1>3, <1>4, Zenon DEF Update

(* The interrupt handler takes it and looks at the LSR. *)
LEMMA RaiseRead ==
  ASSUME Types, RaiseInv, ~IirRace, TakeIrq \/ ReadReg
  PROVE  RaiseInv'
PROOF
  <1>0. /\ "vcpu" \in Threads /\ newIir \in [Threads -> {"NO_INT", "RDI", "THRI"}]
        /\ pc \in [Threads -> Labels]
    BY Zenon DEF Threads, Types, LocalTypes, PlaceTypes
  <1>1. CASE TakeIrq
    <2>1. /\ pc["vcpu"] = "out" /\ pc'["vcpu"] = "read_iir" /\ guest = "run" /\ guest' = "handler"
          /\ UNCHANGED <<dr, ier, iir, newIir>>
          /\ \A u \in Threads : u = "vcpu" \/ pc'[u] = pc[u]
      BY <1>0, <1>1, Zenon DEF TakeIrq, MayEnter, Goto, regs
    <2> QED BY <1>0, <2>1, Zenon DEF RaiseInv
  <1>2. CASE ReadIir
    <2>1. /\ pc["vcpu"] = "read_iir" /\ pc'["vcpu"] = "clear_iir" /\ newIir'["vcpu"] = iir
          /\ UNCHANGED <<dr, ier, iir, irq, guest>>
          /\ \A u \in Threads : u = "vcpu" \/ (pc'[u] = pc[u] /\ newIir'[u] = newIir[u])
      BY <1>0, <1>2, Zenon DEF ReadIir, Goto
    <2> QED BY <1>0, <2>1, Zenon DEF RaiseInv
  <1>3. CASE ClearIir
    <2>1. /\ pc["vcpu"] = "clear_iir" /\ pc'["vcpu"] = "out" /\ newIir["vcpu"] = iir
          /\ guest' = IF iir = "NO_INT" THEN "run" ELSE "poll"
          /\ UNCHANGED <<dr, ier, irq, newIir>>
          /\ \A u \in Threads : u = "vcpu" \/ pc'[u] = pc[u]
      BY <1>0, <1>3, Zenon DEF ClearIir, Goto, IirRace
    <2>2. guest = "handler"
      BY <2>1, Zenon DEF RaiseInv
    <2> QED BY <1>0, <2>1, <2>2, Zenon DEF RaiseInv
  <1>4. CASE ReadLsr
    <2>1. /\ pc["vcpu"] = "out" /\ guest' = (IF dr THEN "rbr" ELSE "run")
          /\ UNCHANGED <<pc, dr, ier, iir, irq, newIir>>
      BY <1>4, Zenon DEF ReadLsr, MayEnter, regs
    <2> QED BY <1>0, <2>1, Zenon DEF RaiseInv
  <1>5. CASE ReadRbr
    <2>1. guest' = "poll" /\ pc'["vcpu"] \in {"get", "empty?"}
      BY <1>0, <1>5, Zenon DEF ReadRbr, Goto
    <2> QED BY <2>1, Zenon DEF RaiseInv
  <1>6. CASE Get \/ LoadUncount \/ StoreUncount \/ CheckEmpty
    <2>1. PICK l \in {"uncount", "count--", "empty?", "dr=0", "update"} :
            pc["vcpu"] \in {"get", "uncount", "count--", "empty?"} /\ Goto("vcpu", l)
      BY <1>6, Zenon DEF Get, LoadUncount, StoreUncount, CheckEmpty
    <2>2. UNCHANGED <<dr, ier, iir, irq, guest, newIir>>
      BY <1>6, Zenon DEF Get, LoadUncount, StoreUncount, CheckEmpty, regs
    <2> QED BY <1>0, <2>1, <2>2, RaiseKeep, Zenon
  <1>7. CASE ClearDr
    <2>1. pc'["vcpu"] = "update" /\ dr' = FALSE
      BY <1>0, <1>7, Zenon DEF ClearDr, Goto
    <2> QED BY <2>1, Zenon DEF RaiseInv
  <1> QED BY <1>1, <1>2, <1>3, <1>4, <1>5, <1>6, <1>7, Zenon DEF ReadReg

(* A byte typed and the guest's writes: one that enables the interrupt     *)
(* goes on to update_serial_iir.                                           *)
LEMMA RaiseEnter ==
  ASSUME Types, RaiseInv, Receive \/ WriteReg
  PROVE  RaiseInv'
PROOF
  <1>0. "vcpu" \in Threads /\ "stdin" \in Threads /\ pc \in [Threads -> Labels]
    BY Zenon DEF Threads, Types, PlaceTypes
  <1>1. CASE Receive
    <2>1. UNCHANGED <<dr, ier, iir, irq, guest, newIir>> /\ pc["stdin"] = "out"
      BY <1>1, Zenon DEF Receive, MayEnter, regs
    <2>2. pc' = pc \/ Goto("stdin", "put")
      BY <1>1, Zenon DEF Receive, StartPut
    <2> QED BY <1>0, <2>1, <2>2, RaiseKeep, RaiseStay, Zenon
  <1>2. CASE WriteThr
    <2>1. UNCHANGED <<dr, ier, iir, irq, guest, newIir>> /\ pc["vcpu"] = "out"
      BY <1>2, Zenon DEF WriteThr, MayWrite, MayEnter
    <2>2. Goto("vcpu", "put") \/ Goto("vcpu", "update")
      BY <1>2, Zenon DEF WriteThr, StartPut
    <2> QED BY <1>0, <2>1, <2>2, RaiseKeep, Zenon
  <1>3. ASSUME NEW v \in Enables, NEW rest \in BOOLEAN, WriteIer(v, rest) PROVE RaiseInv'
    <2>1. UNCHANGED <<dr, iir, irq, guest, newIir>> /\ pc["vcpu"] = "out" /\ ier' = v
      BY <1>3, Zenon DEF WriteIer, MayWrite, MayEnter
    <2>2. CASE v # ier \/ rest
      <3>1. pc'["vcpu"] = "update"
        BY <1>0, <1>3, <2>2, Zenon DEF WriteIer, Goto
      <3> QED BY <1>0, <3>1, Zenon DEF RaiseInv
    <2>3. CASE ~(v # ier \/ rest)
      <3>1. pc' = pc /\ ier' = ier
        BY <1>3, <2>1, <2>3, Zenon DEF WriteIer
      <3> QED BY <2>1, <3>1, RaiseStay, Zenon
    <2> QED BY <2>2, <2>3, Zenon
  <1>4. ASSUME NEW l \in Latches, NEW v \in LatchVals, WriteLatch(l, v) PROVE RaiseInv'
    BY <1>4, RaiseStay, Zenon DEF WriteLatch
  <1>5. ASSUME NEW v \in BOOLEAN, WriteLcr(v) \/ WriteMcr(v) PROVE RaiseInv'
    BY <1>5, RaiseStay, Zenon DEF WriteLcr, WriteMcr
  <1> QED BY <1>1, <1>2, <1>3, <1>4, <1>5, Zenon DEF WriteReg

LEMMA RaiseNext ==
  ASSUME Types, RaiseInv, Next, ~IirRace
  PROVE  RaiseInv'
  BY RaisePut, RaiseUpdate, RaiseRead, RaiseEnter, Zenon
  DEF Next, StdinStep, VcpuStep, Threads

(* The races up to now, after a step. *)
LEMMA RacesGrow ==
  ASSUME RacesNext
  PROVE  /\ "put" \notin races' => "put" \notin races /\ ~PutRace
         /\ "count" \notin races' => "count" \notin races /\ ~CountRace
         /\ "dr" \notin races' => "dr" \notin races /\ ~DrRace
         /\ "iir" \notin races' => "iir" \notin races /\ ~IirRace
  BY Zenon DEF RacesNext, Races

(* update_serial_iir and the reads of the IIR lose no interrupt, in any    *)
(* interleaving, unless one stores in the IIR what was computed before a   *)
(* register changed, or clears an IIR that is not the one the guest got.   *)
THEOREM RaisedTheorem == RacesSpec => []RaisedWhenReady
PROOF
  <1> DEFINE I == Types /\ ("iir" \notin races => RaiseInv)
  <1>1. RacesInit => I
    BY TypesInit, RaiseInit, Zenon DEF RacesInit
  <1>2. I /\ [RacesNext]_<<vars, races>> => I'
    <2> SUFFICES ASSUME I, [RacesNext]_<<vars, races>> PROVE I'
      OBVIOUS
    <2>1. CASE RacesNext
      BY <2>1, TypesStep, RaiseNext, RacesGrow, Zenon DEF RacesNext
    <2>2. CASE UNCHANGED <<vars, races>>
      <3>1. UNCHANGED <<pc, dr, ier, iir, irq, guest, newIir>> /\ races' = races
        BY <2>2, Zenon DEF vars, regs
      <3> QED BY <2>2, <3>1, TypesStep, RaiseStay, Zenon
    <2> QED BY <2>1, <2>2, Zenon
  <1>3. I => RaisedWhenReady
    BY Zenon DEF RaiseInv, RaisedWhenReady, Quiet, Threads
  <1> QED BY <1>1, <1>2, <1>3, PTL DEF RacesSpec

----------------------------------------------------------------------------
(* Slots and the width of count.                                           *)

(* The slot of the byte after the first i, and i as count shows it. *)
Slot(i)    == i % FifoLength
Wrapped(i) == i % CountWrap

LEMMA SlotRange ==
  ASSUME NEW i \in Int
  PROVE  Slot(i) \in 0 .. FifoLength - 1
PROOF
  <1>1. FifoLength \in Nat /\ FifoLength > 0
    BY SerialAssumption
  <1> QED BY <1>1, DivMod, Zenon DEF Slot

LEMMA SlotNext ==
  ASSUME NEW i \in Int
  PROVE  Slot(i + 1) = IF Slot(i) + 1 = FifoLength THEN 0 ELSE Slot(i) + 1
PROOF
  <1>0. FifoLength \in Nat /\ FifoLength > 0 /\ 1 \in Int
    BY SerialAssumption
  <1>1. Slot(Slot(i) + 1) = Slot(i + 1)
    BY <1>0, ModPlus, Zenon DEF Slot
  <1>2. Slot(i) \in 0 .. FifoLength - 1
    BY SlotRange, Zenon
  <1>3. CASE Slot(i) + 1 = FifoLength
    <2>1. FifoLength = FifoLength * 1 + 0 /\ 0 \in 0 .. FifoLength - 1 /\ FifoLength \in Int
      BY <1>0
    <2>2. FifoLength % FifoLength = 0
      BY <1>0, <2>1, ModUnique, Zenon
    <2> QED BY <1>1, <1>3, <2>2, Zenon DEF Slot
  <1>4. CASE Slot(i) + 1 # FifoLength
    <2>1. Slot(i) + 1 \in 0 .. FifoLength - 1
      BY <1>0, <1>2, <1>4
    <2>2. Slot(Slot(i) + 1) = Slot(i) + 1
      BY <1>0, <2>1, ModSmall, Zenon DEF Slot
    <2> QED BY <1>1, <1>4, <2>2, Zenon
  <1> QED BY <1>3, <1>4, Zenon

(* Of FifoLength bytes in a row no two share a slot. *)
LEMMA SlotApart ==
  ASSUME NEW i \in Int, NEW j \in Int, i < j, j - i < FifoLength
  PROVE  Slot(i) # Slot(j)
PROOF
  <1> SUFFICES ASSUME Slot(i) = Slot(j) PROVE FALSE
    OBVIOUS
  <1>0. FifoLength \in Nat /\ FifoLength > 0
    BY SerialAssumption
  <1>1. PICK q \in Int, c \in Int : i = FifoLength * q + c /\ i % FifoLength = c
    BY <1>0, DivModPick, Zenon
  <1>2. PICK p \in Int, d \in Int : j = FifoLength * p + d /\ j % FifoLength = d
    BY <1>0, DivModPick, Zenon
  <1>3. c = d
    BY <1>1, <1>2, Zenon DEF Slot
  <1>4. j - i = FifoLength * (p - q)
    BY <1>0, <1>1, <1>2, <1>3
  <1>5. p - q <= 0 \/ p - q >= 1
    BY <1>1, <1>2
  <1>6. CASE p - q <= 0
    <2>1. FifoLength * (p - q) <= 0
      BY <1>0, <1>1, <1>2, <1>6
    <2> QED BY <1>4, <2>1
  <1>7. CASE p - q >= 1
    <2>1. FifoLength * (p - q) >= FifoLength
      BY <1>0, <1>1, <1>2, <1>7
    <2> QED BY <1>0, <1>4, <2>1
  <1> QED BY <1>5, <1>6, <1>7, Zenon

LEMMA WrapNext ==
  ASSUME NEW i \in Int
  PROVE  /\ (Wrapped(i) + 1) % CountWrap = Wrapped(i + 1)
         /\ (Wrapped(i) - 1) % CountWrap = Wrapped(i - 1)
PROOF
  <1>0. CountWrap \in Nat /\ CountWrap > 0 /\ 1 \in Int /\ -1 \in Int
    BY SerialAssumption
  <1>1. (Wrapped(i) + 1) % CountWrap = Wrapped(i + 1)
    BY <1>0, ModPlus, Zenon DEF Wrapped
  <1>2. (Wrapped(i) + (-1)) % CountWrap = Wrapped(i + (-1))
    BY <1>0, ModPlus, Zenon DEF Wrapped
  <1>3. i % CountWrap \in 0 .. CountWrap - 1
    BY <1>0, DivMod, Zenon
  <1>4. Wrapped(i) + (-1) = Wrapped(i) - 1 /\ i + (-1) = i - 1
    BY <1>3, Zenon DEF Wrapped
  <1> QED BY <1>1, <1>2, <1>4, Zenon

LEMMA WrapSmall ==
  ASSUME NEW i \in 0 .. CountWrap - 1
  PROVE  Wrapped(i) = i
PROOF
  <1>1. CountWrap \in Nat
    BY SerialAssumption, Zenon
  <1> QED BY <1>1, ModSmall, Zenon DEF Wrapped

LEMMA WrapFull == Wrapped(CountWrap) = 0
PROOF
  <1>1. /\ CountWrap \in Nat /\ CountWrap > 0 /\ CountWrap = CountWrap * 1 + 0
        /\ 0 \in 0 .. CountWrap - 1 /\ CountWrap \in Int /\ 1 \in Int
    BY SerialAssumption
  <1> QED BY <1>1, ModUnique, Zenon DEF Wrapped

(* From the slot after k bytes it is n - k slots to the one after n, also  *)
(* as count shows that number: FifoLength divides CountWrap.               *)
LEMMA Meet ==
  ASSUME NEW n \in Int, NEW k \in Int
  PROVE  (Slot(k) + Wrapped(n - k)) % FifoLength = Slot(n)
PROOF
  <1>1. /\ FifoLength \in Nat /\ FifoLength > 0 /\ CountWrap \in Nat /\ CountWrap > 0
        /\ CountWrap % FifoLength = 0 /\ n - k \in Int
    BY SerialAssumption
  <1>2. ((k % FifoLength) + ((n - k) % CountWrap)) % FifoLength = (k + (n - k)) % FifoLength
    BY <1>1, ModSum, Zenon
  <1>3. k + (n - k) = n
    OBVIOUS
  <1> QED BY <1>2, <1>3, Zenon DEF Slot, Wrapped

----------------------------------------------------------------------------
(* The FIFO.                                                               *)

(* The thread in fifo_put, and where it is there. *)
Putter == IF pc["vcpu"] \in FifoPut THEN "vcpu" ELSE "stdin"
place  == pc[Putter]

BeforeStore == {"put", "head++", "data"}
Heading     == BeforeStore \cup {"wrap", "head=0"}

(* Each slot holds the last byte that was put there. *)
Stored ==
  \A j \in 1 .. nput :
    (j # nput \/ place \notin BeforeStore) /\ nput - j < FifoLength => data[Slot(j - 1)] = j

(* As long as one thread at most is in fifo_put: byte nput goes into its   *)
(* slot in the course of it, after head has moved on.                      *)
HeadInv ==
  /\ \E t \in Threads : pc[t] \notin FifoPut
  /\ \A t \in Threads : pc[t] # "wild"
  /\ head = IF place \in {"put", "head++"} THEN Slot(nput - 1)
            ELSE IF place \in {"data", "wrap", "head=0"} THEN Slot(nput - 1) + 1
            ELSE Slot(nput)
  /\ place = "head++" => tmp[Putter] = head
  /\ place = "data" => tmp[Putter] + 1 = head
  /\ place = "head=0" => head = FifoLength
  /\ place \in FifoPut => nput > 0
  /\ place \in BeforeStore => chr[Putter] = nput
  /\ Stored

(* The byte being put is not counted yet, and the byte being got still is. *)
AfterGet == {"uncount", "count--"}
InPut    == IF place \in FifoPut THEN 1 ELSE 0
InGet    == IF pc["vcpu"] \in AfterGet THEN 1 ELSE 0
Counted  == (Fill - InPut) + InGet

(* As long as no store to count has overwritten another. *)
CountInv ==
  /\ Fill - InPut >= 0
  /\ tail = Slot(nget)
  /\ count = Wrapped(Counted)

Owed == \E t \in Threads : pc[t] = "dr"

(* DR, and the guest's hope for a byte, as long as DR was neither set nor  *)
(* cleared too late.                                                       *)
DrInv ==
  /\ count # 0 \/ pc["vcpu"] \in AfterGet => dr \/ Owed
  /\ dr => Counted >= 1 \/ pc["vcpu"] \in {"empty?", "dr=0"}
  /\ guest = "rbr" \/ pc["vcpu"] = "get" => Counted >= 1
  /\ guest = "rbr" => pc["vcpu"] = "out"

(* Short of an overflow. *)
OrderInv ==
  /\ Fill + InGet <= FifoLength /\ Len(got) = nget
  /\ \A i \in 1 .. Len(got) : got[i] = i

(* The inductive invariant: each part holds until the races that would     *)
(* break it.                                                               *)
FifoInv ==
  /\ "put" \notin races => HeadInv
  /\ "put" \notin races /\ "count" \notin races => CountInv
  /\ "put" \notin races /\ "count" \notin races /\ "dr" \notin races =>
       DrInv /\ (~over => OrderInv)

(* What each step has to keep, given HeadInv. *)
FifoKept ==
  /\ HeadInv'
  /\ CountInv /\ ~CountRace => CountInv'
  /\ CountInv /\ DrInv /\ ~CountRace /\ ~DrRace =>
       DrInv' /\ (OrderInv /\ ~over' => OrderInv')

(* The thread in fifo_put is the only one. *)
LEMMA PutterIs ==
  ASSUME HeadInv, NEW t \in Threads, pc[t] \in FifoPut
  PROVE  Putter = t /\ place = pc[t]
  BY Zenon DEF HeadInv, Putter, place, Threads

LEMMA PutterNext ==
  ASSUME ~PutRace, NEW t \in Threads, pc'[t] \in FifoPut
  PROVE  Putter' = t /\ place' = pc'[t]
  BY Zenon DEF PutRace, Putter, place, Threads

LEMMA PlaceIn ==
  /\ place \in FifoPut <=> \E t \in Threads : pc[t] \in FifoPut
  /\ Putter \in Threads
  BY Zenon DEF Putter, place, Threads

LEMMA PlaceInNext ==
  /\ place' \in FifoPut <=> \E t \in Threads : pc'[t] \in FifoPut
  /\ Putter' \in Threads
  BY Zenon DEF Putter, place, Threads

(* Thread t alone moves. *)
Moves(t) == \A u \in Threads : u = t \/ pc'[u] = pc[u]

LEMMA Moved ==
  ASSUME Types, NEW t \in Threads, NEW l, Goto(t, l)
  PROVE  pc'[t] = l /\ Moves(t)
  BY Zenon DEF Goto, Types, PlaceTypes, Moves

(* A step of a thread outside fifo_put. *)
LEMMA Aside ==
  ASSUME HeadInv, NEW t \in Threads, Moves(t), pc[t] \notin FifoPut, pc'[t] \notin FifoPut
  PROVE  /\ ~PutRace
         /\ \/ place \in FifoPut /\ Putter # t /\ Putter' = Putter /\ place' = place
            \/ place \notin FifoPut /\ place' \notin FifoPut
PROOF
  <1>1. ~PutRace
    BY Zenon DEF PutRace
  <1>2. CASE place \in FifoPut
    <2>1. PICK u \in Threads : pc[u] \in FifoPut
      BY <1>2, PlaceIn, Zenon
    <2>2. u # t /\ pc'[u] = pc[u]
      BY <2>1, Zenon DEF Moves
    <2>3. Putter = u /\ place = pc[u]
      BY <2>1, PutterIs, Zenon
    <2>4. Putter' = u /\ place' = pc'[u]
      BY <1>1, <2>1, <2>2, PutterNext, Zenon
    <2> QED BY <1>1, <1>2, <2>2, <2>3, <2>4, Zenon
  <1>3. CASE place \notin FifoPut
    <2>1. \A u \in Threads : pc'[u] \notin FifoPut
      BY <1>3, PlaceIn, Zenon DEF Moves
    <2> QED BY <1>1, <1>3, <2>1, PlaceInNext, Zenon
  <1> QED BY <1>2, <1>3, Zenon

LEMMA StoredKeep ==
  ASSUME Stored, UNCHANGED <<data, nput>>, place' \in BeforeStore <=> place \in BeforeStore
  PROVE  Stored'
  BY Zenon DEF Stored

LEMMA HeadKeep ==
  ASSUME HeadInv, NEW t \in Threads, Moves(t), pc[t] \notin FifoPut,
         pc'[t] \notin FifoPut, pc'[t] # "wild", UNCHANGED <<data, head, nput>>,
         \A u \in Threads : u = t \/ (tmp'[u] = tmp[u] /\ chr'[u] = chr[u])
  PROVE  HeadInv'
PROOF
  <1>1. \/ place \in FifoPut /\ Putter # t /\ Putter' = Putter /\ place' = place
        \/ place \notin FifoPut /\ place' \notin FifoPut
    BY Aside, Zenon
  <1>2. \A u \in Threads : pc'[u] # "wild"
    BY Zenon DEF HeadInv, Moves
  <1>3. \E u \in Threads : pc'[u] \notin FifoPut
    OBVIOUS
  <1>4. place' \in BeforeStore <=> place \in BeforeStore
    BY <1>1, Zenon DEF BeforeStore, FifoPut
  <1>5. Stored'
    BY <1>4, StoredKeep, Zenon DEF HeadInv
  <1>6. CASE place \in FifoPut /\ Putter # t /\ Putter' = Putter /\ place' = place
    <2>1. tmp'[Putter'] = tmp[Putter] /\ chr'[Putter'] = chr[Putter]
      BY <1>6, PlaceIn, Zenon
    <2>2. /\ head' = IF place' \in {"put", "head++"} THEN Slot(nput' - 1)
                     ELSE IF place' \in {"data", "wrap", "head=0"} THEN Slot(nput' - 1) + 1
                     ELSE Slot(nput')
          /\ place' = "head++" => tmp'[Putter'] = head'
          /\ place' = "data" => tmp'[Putter'] + 1 = head'
      BY <1>6, <2>1, Zenon DEF HeadInv
    <2>3. /\ place' = "head=0" => head' = FifoLength
          /\ place' \in FifoPut => nput' > 0
          /\ place' \in BeforeStore => chr'[Putter'] = nput'
      BY <1>6, <2>1, Zenon DEF HeadInv
    <2> QED BY <1>2, <1>3, <1>5, <2>2, <2>3, Zenon DEF HeadInv
  <1>7. CASE place \notin FifoPut /\ place' \notin FifoPut
    BY <1>2, <1>3, <1>5, <1>7, Zenon DEF HeadInv, FifoPut, BeforeStore
  <1> QED BY <1>1, <1>6, <1>7, Zenon

(* The numbers. *)
LEMMA Numbers ==
  ASSUME Types
  PROVE  /\ FifoLength \in Nat /\ FifoLength > 0 /\ CountWrap \in Nat /\ FifoLength < CountWrap
         /\ nput \in Nat /\ nget \in Nat /\ Fill = nput - nget /\ Fill \in Int
         /\ InPut \in {0, 1} /\ InGet \in {0, 1} /\ Counted = (Fill - InPut) + InGet
         /\ Counted \in Int /\ count \in Nat /\ head \in Nat
PROOF
  <1>1. nput \in Nat /\ nget \in Nat
    BY Zenon DEF Types, CountTypes
  <1>2. Fill = nput - nget /\ Fill \in Int
    BY <1>1 DEF Fill
  <1>3. FifoLength \in Nat /\ FifoLength > 0 /\ CountWrap \in Nat /\ FifoLength < CountWrap
    BY SerialAssumption
  <1>4. count \in Nat /\ head \in Nat
    BY <1>3 DEF Types, FifoTypes
  <1>5. InPut \in {0, 1} /\ InGet \in {0, 1} /\ Counted = (Fill - InPut) + InGet
    BY Zenon DEF InPut, InGet, Counted
  <1>6. Counted \in Int
    BY <1>2, <1>5
  <1> QED BY <1>1, <1>2, <1>3, <1>4, <1>5, <1>6, Zenon

LEMMA NumbersNext ==
  /\ Fill' = nput' - nget' /\ Counted' = (Fill' - InPut') + InGet'
  /\ InPut' = IF place' \in FifoPut THEN 1 ELSE 0
  BY Zenon DEF Fill, Counted, InPut

(* Short of a wrap count is the number of bytes itself. *)
LEMMA CountOf ==
  ASSUME Types, CountInv
  PROVE  /\ Counted >= 0
         /\ Counted < CountWrap => count = Counted
         /\ count # 0 => Counted >= 1
PROOF
  <1>1. count = Wrapped(Counted) /\ Counted >= 0 /\ Counted \in Int
    BY Numbers DEF CountInv
  <1>2. Counted < CountWrap => count = Counted
    BY <1>1, WrapSmall, Numbers
  <1> QED BY <1>1, <1>2, Numbers

(* The parts that a step does not touch. *)
LEMMA CountKeep ==
  ASSUME CountInv, UNCHANGED <<tail, count, nput, nget>>, InPut' = InPut, InGet' = InGet
  PROVE  CountInv' /\ Fill' = Fill /\ Counted' = Counted
PROOF
  <1>1. Fill' = Fill
    BY Zenon DEF Fill
  <1>2. Counted' = Counted
    BY <1>1, Zenon DEF Counted
  <1> QED BY <1>1, <1>2, Zenon DEF CountInv

LEMMA GetKeep ==
  ASSUME NEW t \in Threads, Moves(t), pc[t] \in AfterGet <=> pc'[t] \in AfterGet
  PROVE  InGet' = InGet
  BY Zenon DEF Moves, InGet, Threads

LEMMA OwedKeep ==
  ASSUME NEW t \in Threads, Moves(t), pc[t] # "dr"
  PROVE  Owed => Owed'
  BY Zenon DEF Moves, Owed

LEMMA OrderKeep ==
  ASSUME OrderInv, UNCHANGED <<got, nget>>, Fill' = Fill, InGet' = InGet
  PROVE  OrderInv'
  BY Zenon DEF OrderInv

LEMMA DrKeep ==
  ASSUME DrInv, NEW t \in Threads, Moves(t),
         pc[t] \notin AfterGet \cup {"dr", "get", "empty?", "dr=0"},
         pc'[t] \notin AfterGet \cup {"get", "empty?", "dr=0"},
         count' = count, dr' = dr, Counted' = Counted,
         guest' = "rbr" => guest = "rbr" /\ (t = "vcpu" /\ pc[t] = "out" => pc'[t] = "out")
  PROVE  DrInv'
PROOF
  <1>0. "vcpu" \in Threads
    BY Zenon DEF Threads
  <1>1. Owed => Owed'
    BY OwedKeep, Zenon
  <1>2. pc'["vcpu"] \in AfterGet => pc["vcpu"] \in AfterGet
    BY <1>0, Zenon DEF Moves
  <1>3. pc["vcpu"] \in {"empty?", "dr=0"} => pc'["vcpu"] \in {"empty?", "dr=0"}
    BY <1>0, Zenon DEF Moves
  <1>4. pc'["vcpu"] = "get" => pc["vcpu"] = "get"
    BY <1>0, Zenon DEF Moves
  <1>5. guest' = "rbr" => pc'["vcpu"] = "out"
    BY <1>0, Zenon DEF Moves, DrInv
  <1> QED BY <1>1, <1>2, <1>3, <1>4, <1>5, Zenon DEF DrInv

----------------------------------------------------------------------------
(* The steps.                                                              *)

(* One that leaves the FIFO, DR and the bytes read alone, from outside     *)
(* fifo_put and fifo_get to outside.                                       *)
Busy == FifoPut \cup AfterGet \cup {"dr", "get", "empty?", "dr=0"}

Calm(t) ==
  /\ Moves(t) /\ pc[t] \notin Busy /\ pc'[t] \notin Busy /\ pc'[t] # "wild"
  /\ UNCHANGED <<data, head, tail, count, dr, over, got, nput, nget>>
  /\ \A u \in Threads : u = t \/ (tmp'[u] = tmp[u] /\ chr'[u] = chr[u])
  /\ guest' = "rbr" => guest = "rbr" /\ (t = "vcpu" /\ pc[t] = "out" => pc'[t] = "out")

LEMMA CalmStep ==
  ASSUME HeadInv, NEW t \in Threads, Calm(t)
  PROVE  FifoKept
PROOF
  <1>1. /\ Moves(t) /\ pc[t] \notin FifoPut /\ pc'[t] \notin FifoPut /\ pc'[t] # "wild"
        /\ pc[t] \notin AfterGet /\ pc'[t] \notin AfterGet
        /\ UNCHANGED <<data, head, tail, count, dr, over, got, nput, nget>>
        /\ \A u \in Threads : u = t \/ (tmp'[u] = tmp[u] /\ chr'[u] = chr[u])
    BY Zenon DEF Calm, Busy
  <1>2. HeadInv'
    BY <1>1, HeadKeep, Zenon
  <1>3. InPut' = InPut
    <2>1. place \in FifoPut <=> place' \in FifoPut
      BY <1>1, Aside, Zenon
    <2> QED BY <2>1, Zenon DEF InPut
  <1>4. InGet' = InGet
    BY <1>1, GetKeep, Zenon
  <1>5. ASSUME CountInv PROVE CountInv' /\ Fill' = Fill /\ Counted' = Counted
    BY <1>1, <1>3, <1>4, <1>5, CountKeep, Zenon
  <1>6. ASSUME CountInv, DrInv PROVE DrInv'
    <2>1. /\ pc[t] \notin AfterGet \cup {"dr", "get", "empty?", "dr=0"}
          /\ pc'[t] \notin AfterGet \cup {"get", "empty?", "dr=0"}
      BY Zenon DEF Calm, Busy
    <2>2. guest' = "rbr" => guest = "rbr" /\ (t = "vcpu" /\ pc[t] = "out" => pc'[t] = "out")
      BY Zenon DEF Calm
    <2> QED BY <1>1, <1>5, <1>6, <2>1, <2>2, DrKeep, Zenon
  <1>7. ASSUME CountInv, OrderInv PROVE OrderInv'
    BY <1>1, <1>4, <1>5, <1>7, OrderKeep, Zenon
  <1> QED BY <1>2, <1>5, <1>6, <1>7, Zenon DEF FifoKept

(* A byte enters fifo_put. *)
LEMMA StartFifo ==
  ASSUME Types, HeadInv, ~PutRace, NEW t \in Threads, pc[t] = "out", StartPut(t),
         UNCHANGED <<data, head, tail, count, dr, got, guest, nget>>,
         t = "vcpu" => guest # "rbr"
  PROVE  FifoKept
PROOF
  <1>1. pc'[t] = "put" /\ Moves(t)
    BY Moved, Zenon DEF StartPut
  <1>2. Putter' = t /\ place' = "put"
    BY <1>1, PutterNext, Zenon DEF FifoPut
  <1>3. place \notin FifoPut
    <2>1. \A u \in Threads : u # t => pc'[u] \notin FifoPut
      BY <1>1, <1>2, PutterNext, Zenon
    <2>2. \A u \in Threads : pc[u] \notin FifoPut
      BY <1>1, <2>1, Zenon DEF Moves, FifoPut
    <2> QED BY <2>2, PlaceIn, Zenon
  <1>4. nput' = nput + 1 /\ chr'[t] = nput + 1
    <2>1. chr \in [Threads -> Nat]
      BY Zenon DEF Types, LocalTypes
    <2> QED BY <2>1, Zenon DEF StartPut
  <1>5. /\ FifoLength \in Nat /\ FifoLength > 0 /\ CountWrap \in Nat /\ FifoLength < CountWrap
        /\ nput \in Nat /\ nget \in Nat /\ Fill = nput - nget /\ Fill \in Int
        /\ InGet \in {0, 1} /\ Counted = (Fill - InPut) + InGet
    BY Numbers, Zenon
  <1>6. InGet' = InGet
    BY <1>1, GetKeep, Zenon DEF AfterGet
  <1>7. InPut = 0 /\ InPut' = 1
    BY <1>2, <1>3, Zenon DEF InPut, FifoPut
  <1>8. Fill' = Fill + 1
    BY <1>4, <1>5 DEF Fill
  <1>9. Counted' = Counted
    <2>1. Counted' = (Fill' - InPut') + InGet'
      BY NumbersNext, Zenon
    <2> QED BY <1>5, <1>6, <1>7, <1>8, <2>1
  <1>10. HeadInv'
    <2>1. (nput + 1) - 1 = nput /\ nput + 1 > 0
      BY <1>5
    <2>2. ASSUME NEW j \in 1 .. nput + 1, j # nput + 1
          PROVE  (nput + 1) - j < FifoLength => data[Slot(j - 1)] = j
      <3>1. j \in 1 .. nput /\ ((nput + 1) - j < FifoLength => nput - j < FifoLength)
        BY <1>5, <2>2
      <3> QED BY <1>3, <3>1, Zenon DEF HeadInv, Stored, BeforeStore, FifoPut
    <2>3. Stored'
      BY <1>2, <1>4, <2>2, Zenon DEF Stored, BeforeStore
    <2>4. head' = Slot(nput' - 1)
      BY <1>3, <1>4, <2>1, Zenon DEF HeadInv, FifoPut
    <2>5. (\E u \in Threads : pc'[u] \notin FifoPut) /\ \A u \in Threads : pc'[u] # "wild"
      BY <1>1, Zenon DEF PutRace, HeadInv, Moves
    <2> QED BY <1>2, <1>4, <2>1, <2>3, <2>4, <2>5, Zenon DEF HeadInv
  <1>11. ASSUME CountInv PROVE CountInv'
    <2>1. Fill' - InPut' >= 0
      BY <1>5, <1>7, <1>8, <1>11 DEF CountInv
    <2> QED BY <1>9, <1>11, <2>1, Zenon DEF CountInv
  <1>12. ASSUME DrInv PROVE DrInv'
    <2>1. /\ pc[t] \notin AfterGet \cup {"dr", "get", "empty?", "dr=0"}
          /\ pc'[t] \notin AfterGet \cup {"get", "empty?", "dr=0"}
      BY <1>1, Zenon DEF AfterGet
    <2> QED BY <1>1, <1>9, <1>12, <2>1, DrKeep, Zenon
  <1>13. ASSUME CountInv, OrderInv, ~over' PROVE OrderInv'
    <2>1. ~(count >= FifoLength)
      BY <1>13, Zenon DEF StartPut
    <2>2. Counted < CountWrap
      BY <1>5, <1>7, <1>13 DEF OrderInv
    <2>3. count = Counted
      BY <1>13, <2>2, CountOf, Zenon
    <2>4. Fill' + InGet' <= FifoLength
      BY <1>5, <1>6, <1>7, <1>8, <2>1, <2>3
    <2> QED BY <1>13, <2>4, Zenon DEF OrderInv
  <1> QED BY <1>10, <1>11, <1>12, <1>13, Zenon DEF FifoKept

(* Up to the store of count, fifo_put changes nothing the others look at. *)
LEMMA PutKeep ==
  ASSUME HeadInv, ~PutRace, NEW t \in Threads, Moves(t), pc[t] \in FifoPut, pc'[t] \in FifoPut,
         UNCHANGED <<tail, count, dr, over, got, nput, nget, guest>>, HeadInv'
  PROVE  FifoKept
PROOF
  <1>1. InPut' = InPut
    BY PutterIs, PutterNext, Zenon DEF InPut
  <1>2. /\ pc[t] \notin AfterGet \cup {"dr", "get", "empty?", "dr=0"} /\ pc[t] # "out"
        /\ pc'[t] \notin AfterGet \cup {"get", "empty?", "dr=0"}
    BY Zenon DEF FifoPut, AfterGet
  <1>3. InGet' = InGet
    BY <1>2, GetKeep, Zenon
  <1>4. ASSUME CountInv PROVE CountInv' /\ Fill' = Fill /\ Counted' = Counted
    BY <1>1, <1>3, <1>4, CountKeep, Zenon
  <1>5. ASSUME CountInv, DrInv PROVE DrInv'
    BY <1>2, <1>4, <1>5, DrKeep, Zenon
  <1>6. ASSUME CountInv, OrderInv PROVE OrderInv'
    BY <1>3, <1>4, <1>6, OrderKeep, Zenon
  <1> QED BY <1>4, <1>5, <1>6, Zenon DEF FifoKept

(* A step of the thread in fifo_put, as HeadInv sees it. *)
LEMMA PutStep ==
  ASSUME Types, HeadInv, ~PutRace, NEW t \in Threads, NEW l \in FifoPut,
         pc[t] \in FifoPut, Goto(t, l)
  PROVE  /\ Putter = t /\ place = pc[t] /\ Putter' = t /\ place' = l
         /\ Moves(t) /\ pc'[t] \in FifoPut
         /\ \E u \in Threads : pc'[u] \notin FifoPut
         /\ \A u \in Threads : pc'[u] # "wild"
PROOF
  <1>1. pc'[t] = l /\ Moves(t)
    BY Moved, Zenon
  <1>2. Putter' = t /\ place' = l
    BY <1>1, PutterNext, Zenon
  <1>3. l # "wild"
    BY Zenon DEF FifoPut
  <1>4. (\E u \in Threads : pc'[u] \notin FifoPut) /\ \A u \in Threads : pc'[u] # "wild"
    BY <1>1, <1>3, Zenon DEF PutRace, HeadInv, Moves
  <1> QED BY <1>1, <1>2, <1>4, PutterIs, Zenon

LEMMA LoadHeadFifo ==
  ASSUME Types, HeadInv, ~PutRace, NEW t \in Threads, LoadHead(t)
  PROVE  FifoKept
PROOF
  <1>0. pc[t] = "put" /\ Goto(t, "head++") /\ pc[t] \in FifoPut /\ "head++" \in FifoPut
    BY Zenon DEF LoadHead, FifoPut
  <1>1. /\ Putter = t /\ place = pc[t] /\ Putter' = t /\ place' = "head++"
        /\ Moves(t) /\ pc'[t] \in FifoPut
        /\ \E u \in Threads : pc'[u] \notin FifoPut
        /\ \A u \in Threads : pc'[u] # "wild"
    BY <1>0, PutStep, Zenon
  <1>2. /\ UNCHANGED <<data, head, tail, count, dr, over, got, nput, nget, chr, guest>>
        /\ tmp'[t] = head
    BY Zenon DEF LoadHead, fifo, regs, counters, Types, PlaceTypes
  <1>3. Stored'
    BY <1>0, <1>1, <1>2, StoredKeep, Zenon DEF HeadInv, BeforeStore
  <1>4. HeadInv'
    BY <1>0, <1>1, <1>2, <1>3, Zenon DEF HeadInv, BeforeStore
  <1> QED BY <1>0, <1>1, <1>2, <1>4, PutKeep, Zenon

LEMMA StoreHeadFifo ==
  ASSUME Types, HeadInv, ~PutRace, NEW t \in Threads, StoreHead(t)
  PROVE  FifoKept
PROOF
  <1>0. pc[t] = "head++" /\ Goto(t, "data") /\ pc[t] \in FifoPut /\ "data" \in FifoPut
    BY Zenon DEF StoreHead, FifoPut
  <1>1. /\ Putter = t /\ place = pc[t] /\ Putter' = t /\ place' = "data"
        /\ Moves(t) /\ pc'[t] \in FifoPut
        /\ \E u \in Threads : pc'[u] \notin FifoPut
        /\ \A u \in Threads : pc'[u] # "wild"
    BY <1>0, PutStep, Zenon
  <1>2. /\ UNCHANGED <<data, tail, count, dr, over, got, nput, nget, chr, guest, tmp>>
        /\ head' = tmp[t] + 1
    BY Zenon DEF StoreHead, regs, counters
  <1>3. Stored'
    BY <1>0, <1>1, <1>2, StoredKeep, Zenon DEF HeadInv, BeforeStore
  <1>4. HeadInv'
    BY <1>0, <1>1, <1>2, <1>3, Zenon DEF HeadInv, BeforeStore
  <1> QED BY <1>0, <1>1, <1>2, <1>4, PutKeep, Zenon

LEMMA StoreDataFifo ==
  ASSUME Types, HeadInv, ~PutRace, NEW t \in Threads, StoreData(t)
  PROVE  FifoKept
PROOF
  <1>0. pc[t] = "data" /\ {"data", "wrap"} \subseteq FifoPut
    BY Zenon DEF StoreData, FifoPut
  <1>1. Putter = t /\ place = "data"
    BY <1>0, PutterIs, Zenon
  <1>2. UNCHANGED <<head, tail, count, dr, over, got, nput, nget, chr, guest>>
    BY Zenon DEF StoreData, regs, counters
  <1>3. nput \in Nat /\ nput > 0 /\ chr[t] = nput /\ tmp[t] + 1 = Slot(nput - 1) + 1
    BY <1>0, <1>1, Numbers, Zenon DEF HeadInv, BeforeStore
  <1>4. /\ FifoLength \in Nat /\ data \in [0 .. FifoLength - 1 -> Nat]
        /\ tmp[t] = Slot(nput - 1) /\ Slot(nput - 1) \in 0 .. FifoLength - 1
    <2>1. tmp[t] \in Int /\ nput - 1 \in Int /\ data \in [0 .. FifoLength - 1 -> Nat]
      BY <1>3 DEF Types, FifoTypes, PlaceTypes
    <2>2. Slot(nput - 1) \in 0 .. FifoLength - 1
      BY <2>1, SlotRange, Zenon
    <2> QED BY <1>3, <2>1, <2>2, SerialAssumption
  <1>5. data' = [data EXCEPT ![Slot(nput - 1)] = nput] /\ Goto(t, "wrap")
    BY <1>3, <1>4 DEF StoreData
  <1>6. /\ Putter' = t /\ place' = "wrap"
        /\ Moves(t) /\ pc'[t] \in FifoPut
        /\ \E u \in Threads : pc'[u] \notin FifoPut
        /\ \A u \in Threads : pc'[u] # "wild"
    BY <1>0, <1>5, PutStep, Zenon
  <1>7. ASSUME NEW j \in 1 .. nput
        PROVE  nput - j < FifoLength => data'[Slot(j - 1)] = j
    <2>1. CASE j = nput
      BY <1>3, <1>4, <1>5, <2>1, Zenon
    <2>2. CASE j # nput
      <3>1. nput - j < FifoLength => data[Slot(j - 1)] = j
        BY <2>2, Zenon DEF HeadInv, Stored
      <3>2. /\ Slot(j - 1) \in 0 .. FifoLength - 1
            /\ nput - j < FifoLength => Slot(j - 1) # Slot(nput - 1)
        BY <1>3, <2>2, SlotRange, SlotApart
      <3> QED BY <1>3, <1>4, <1>5, <3>1, <3>2, Zenon
    <2> QED BY <2>1, <2>2, Zenon
  <1>8. Stored'
    BY <1>2, <1>7, Zenon DEF Stored
  <1>9. HeadInv'
    BY <1>0, <1>1, <1>2, <1>6, <1>8, Zenon DEF HeadInv, BeforeStore
  <1> QED BY <1>0, <1>2, <1>6, <1>9, PutKeep, Zenon

(* head is brought back into range. *)
LEMMA WrapFifo ==
  ASSUME Types, HeadInv, ~PutRace, NEW t \in Threads, CheckWrap(t) \/ ResetHead(t)
  PROVE  FifoKept
PROOF
  <1>1. UNCHANGED <<data, tail, count, dr, over, got, nput, nget, guest>>
    BY Zenon DEF CheckWrap, ResetHead, fifo, regs, counters
  <1>2. PICK l \in {"head=0", "count"} :
          /\ pc[t] \in {"wrap", "head=0"} /\ Goto(t, l)
          /\ \/ /\ pc[t] = "wrap" /\ head' = head
                /\ l = IF head = FifoLength THEN "head=0" ELSE "count"
             \/ pc[t] = "head=0" /\ l = "count" /\ head' = 0
    BY Zenon DEF CheckWrap, ResetHead, fifo
  <1>3. {"wrap", "head=0", "count"} \subseteq FifoPut
    BY Zenon DEF FifoPut
  <1>4. /\ Putter = t /\ place = pc[t] /\ Putter' = t /\ place' = l
        /\ Moves(t) /\ pc'[t] \in FifoPut
        /\ \E u \in Threads : pc'[u] \notin FifoPut
        /\ \A u \in Threads : pc'[u] # "wild"
    BY <1>2, <1>3, PutStep, Zenon
  <1>5. nput \in Nat /\ nput > 0
    BY <1>2, <1>3, <1>4, Numbers, Zenon DEF HeadInv
  <1>6. Slot(nput) = IF Slot(nput - 1) + 1 = FifoLength THEN 0 ELSE Slot(nput - 1) + 1
    <2>1. nput - 1 \in Int /\ (nput - 1) + 1 = nput
      BY <1>5
    <2> QED BY <2>1, SlotNext, Zenon
  <1>7. Stored'
    BY <1>1, <1>2, <1>4, StoredKeep, Zenon DEF HeadInv, BeforeStore
  <1>8. head = Slot(nput - 1) + 1 /\ (pc[t] = "head=0" => head = FifoLength)
    BY <1>2, <1>4, Zenon DEF HeadInv
  <1>9. HeadInv'
    BY <1>1, <1>2, <1>4, <1>5, <1>6, <1>7, <1>8, Zenon DEF HeadInv, BeforeStore
  <1> QED BY <1>1, <1>2, <1>3, <1>4, <1>9, PutKeep, Zenon

LEMMA LoadCountFifo ==
  ASSUME Types, HeadInv, ~PutRace, NEW t \in Threads, LoadCount(t)
  PROVE  FifoKept
PROOF
  <1>0. pc[t] = "count" /\ Goto(t, "count++") /\ pc[t] \in FifoPut /\ "count++" \in FifoPut
    BY Zenon DEF LoadCount, FifoPut
  <1>1. /\ Putter = t /\ place = pc[t] /\ Putter' = t /\ place' = "count++"
        /\ Moves(t) /\ pc'[t] \in FifoPut
        /\ \E u \in Threads : pc'[u] \notin FifoPut
        /\ \A u \in Threads : pc'[u] # "wild"
    BY <1>0, PutStep, Zenon
  <1>2. UNCHANGED <<data, head, tail, count, dr, over, got, nput, nget, guest>>
    BY Zenon DEF LoadCount, fifo, regs, counters
  <1>3. Stored'
    BY <1>0, <1>1, <1>2, StoredKeep, Zenon DEF HeadInv, BeforeStore
  <1>4. HeadInv'
    BY <1>0, <1>1, <1>2, <1>3, Zenon DEF HeadInv, BeforeStore
  <1> QED BY <1>0, <1>1, <1>2, <1>4, PutKeep, Zenon

(* count++: nobody else has stored to count since it was loaded. *)
LEMMA CountFifo ==
  ASSUME Types, HeadInv, NEW t \in Threads, StoreCount(t)
  PROVE  FifoKept
PROOF
  <1>0. pc[t] = "count++" /\ pc[t] \in FifoPut /\ "dr" \notin FifoPut
    BY Zenon DEF StoreCount, FifoPut
  <1>1. pc'[t] = "dr" /\ Moves(t)
    BY Moved, Zenon DEF StoreCount
  <1>2. UNCHANGED <<data, head, tail, dr, over, got, nput, nget, guest>>
    BY Zenon DEF StoreCount, regs, counters
  <1>3. place = "count++" /\ \A u \in Threads : u # t => pc[u] \notin FifoPut
    BY <1>0, PutterIs, Zenon
  <1>4. \A u \in Threads : pc'[u] \notin FifoPut
    BY <1>0, <1>1, <1>3, Zenon DEF Moves
  <1>5. place' \notin FifoPut
    BY <1>4, PlaceInNext, Zenon
  <1>6. HeadInv'
    <2>1. Stored'
      BY <1>2, <1>3, <1>5, StoredKeep, Zenon DEF HeadInv, BeforeStore, FifoPut
    <2>2. (\E u \in Threads : pc'[u] \notin FifoPut) /\ \A u \in Threads : pc'[u] # "wild"
      BY <1>1, <1>4, Zenon DEF HeadInv, Moves
    <2>3. head' = Slot(nput')
      BY <1>2, <1>3, Zenon DEF HeadInv
    <2> QED BY <1>5, <2>1, <2>2, <2>3, Zenon DEF HeadInv, BeforeStore, FifoPut
  <1>7. Fill' = Fill /\ InPut = 1 /\ InPut' = 0
    BY <1>0, <1>2, <1>3, <1>5, Zenon DEF Fill, InPut
  <1>8. InGet' = InGet
    BY <1>0, <1>1, GetKeep, Zenon DEF AfterGet
  <1>9. Counted \in Int /\ Counted' = Counted + 1 /\ Fill \in Int
    <2>1. Counted' = (Fill' - InPut') + InGet'
      BY NumbersNext, Zenon
    <2> QED BY <1>7, <1>8, <2>1, Numbers
  <1>10. ASSUME CountInv, ~CountRace PROVE CountInv'
    <2>1. tmp[t] = count /\ count = Wrapped(Counted)
      BY <1>10, Zenon DEF CountRace, CountInv
    <2>2. count' = (Wrapped(Counted) + 1) % CountWrap
      BY <2>1, Zenon DEF StoreCount
    <2>3. count' = Wrapped(Counted')
      BY <1>9, <2>2, WrapNext, Zenon
    <2>4. Fill' - InPut' >= 0
      BY <1>7, <1>9, <1>10 DEF CountInv
    <2> QED BY <1>2, <1>10, <2>3, <2>4, Zenon DEF CountInv
  <1>11. ASSUME DrInv PROVE DrInv'
    <2>0. "vcpu" \in Threads
      BY Zenon DEF Threads
    <2>1. Owed'
      BY <1>1, Zenon DEF Owed
    <2>2. Counted >= 1 => Counted' >= 1
      BY <1>9
    <2>3. pc'["vcpu"] \in {"empty?", "dr=0", "get", "out"} => pc'["vcpu"] = pc["vcpu"]
      BY <1>1, <2>0, Zenon DEF Moves
    <2>4. pc["vcpu"] \in {"empty?", "dr=0", "get", "out"} => pc'["vcpu"] = pc["vcpu"]
      BY <1>0, <1>1, <2>0, Zenon DEF Moves
    <2> QED BY <1>2, <1>11, <2>1, <2>2, <2>3, <2>4, Zenon DEF DrInv
  <1>12. ASSUME OrderInv PROVE OrderInv'
    BY <1>2, <1>7, <1>8, <1>12, OrderKeep, Zenon
  <1> QED BY <1>6, <1>10, <1>11, <1>12, Zenon DEF FifoKept

(* A step outside fifo_put that leaves the FIFO and its count alone. *)
LEMMA CountAside ==
  ASSUME HeadInv, NEW t \in Threads, Moves(t), pc[t] \notin FifoPut, pc'[t] \notin FifoPut,
         pc'[t] # "wild", pc[t] \in AfterGet <=> pc'[t] \in AfterGet,
         UNCHANGED <<data, head, tail, count, nput, nget>>,
         \A u \in Threads : u = t \/ (tmp'[u] = tmp[u] /\ chr'[u] = chr[u])
  PROVE  /\ HeadInv' /\ InGet' = InGet /\ Fill' = Fill /\ Counted' = Counted
         /\ CountInv => CountInv'
PROOF
  <1>1. HeadInv'
    BY HeadKeep, Zenon
  <1>2. InPut' = InPut
    <2>1. place \in FifoPut <=> place' \in FifoPut
      BY Aside, Zenon
    <2> QED BY <2>1, Zenon DEF InPut
  <1>3. InGet' = InGet
    BY GetKeep, Zenon
  <1>4. Fill' = Fill
    BY Zenon DEF Fill
  <1>5. Counted' = Counted
    BY <1>2, <1>3, <1>4, Zenon DEF Counted
  <1>6. ASSUME CountInv PROVE CountInv'
    BY <1>2, <1>3, <1>6, CountKeep, Zenon
  <1> QED BY <1>1, <1>3, <1>4, <1>5, <1>6, Zenon

(* DR is set: a byte is there, or count has wrapped. *)
LEMMA DrFifo ==
  ASSUME Types, HeadInv, NEW t \in Threads, SetDr(t)
  PROVE  FifoKept
PROOF
  <1>0. pc[t] = "dr" /\ pc[t] \notin FifoPut /\ pc[t] \notin AfterGet
    BY Zenon DEF SetDr, FifoPut, AfterGet
  <1>1. pc'[t] = "update" /\ Moves(t)
    BY Moved, Zenon DEF SetDr
  <1>2. UNCHANGED <<data, head, tail, count, over, got, nput, nget, guest, tmp, chr>> /\ dr' = TRUE
    BY Zenon DEF SetDr, fifo, counters
  <1>3. /\ HeadInv' /\ InGet' = InGet /\ Fill' = Fill /\ Counted' = Counted
        /\ CountInv => CountInv'
    <2>1. pc'[t] \notin FifoPut /\ pc'[t] # "wild" /\ pc'[t] \notin AfterGet
      BY <1>1, Zenon DEF FifoPut, AfterGet
    <2> QED BY <1>0, <1>1, <1>2, <2>1, CountAside, Zenon
  <1>4. ASSUME CountInv, DrInv, ~DrRace PROVE DrInv'
    <2>1. count # 0 \/ ~(Fill < CountWrap)
      BY <1>4, Zenon DEF DrRace
    <2>2. Counted >= 1
      <3>1. CASE count # 0
        BY <1>4, <3>1, CountOf, Zenon
      <3>2. CASE ~(Fill < CountWrap)
        BY <3>2, Numbers
      <3> QED BY <2>1, <3>1, <3>2, Zenon
    <2>3. guest' = "rbr" => guest = "rbr" /\ pc'["vcpu"] = "out"
      BY <1>0, <1>1, <1>2, <1>4, Zenon DEF DrInv, Moves, Threads
    <2> QED BY <1>2, <1>3, <2>2, <2>3, Zenon DEF DrInv
  <1>5. ASSUME OrderInv PROVE OrderInv'
    BY <1>2, <1>3, <1>5, OrderKeep, Zenon
  <1> QED BY <1>3, <1>4, <1>5, Zenon DEF FifoKept

(* A read of LSR: the guest is told of a byte that is there. *)
LEMMA LsrFifo ==
  ASSUME HeadInv, ReadLsr
  PROVE  FifoKept
PROOF
  <1>0. pc["vcpu"] = "out" /\ pc'["vcpu"] = "out" /\ "vcpu" \in Threads /\ Moves("vcpu")
    BY Zenon DEF ReadLsr, MayEnter, Threads, Moves
  <1>1. UNCHANGED <<data, head, tail, count, dr, over, got, nput, nget, tmp, chr, pc>>
    BY Zenon DEF ReadLsr, fifo, regs, counters
  <1>2. /\ HeadInv' /\ InGet' = InGet /\ Fill' = Fill /\ Counted' = Counted
        /\ CountInv => CountInv'
    <2>1. "out" \notin FifoPut /\ "out" # "wild"
      BY Zenon DEF FifoPut
    <2> QED BY <1>0, <1>1, <2>1, CountAside, Zenon
  <1>3. ASSUME DrInv PROVE DrInv'
    <2>1. guest' = "rbr" => dr
      BY Zenon DEF ReadLsr
    <2>2. Owed => Owed'
      BY <1>1, Zenon DEF Owed
    <2> QED BY <1>0, <1>1, <1>2, <1>3, <2>1, <2>2, Zenon DEF DrInv, AfterGet
  <1>4. ASSUME OrderInv PROVE OrderInv'
    BY <1>1, <1>2, <1>4, OrderKeep, Zenon
  <1> QED BY <1>2, <1>3, <1>4, Zenon DEF FifoKept

(* Short of an overflow count is right when the guest reads a byte. *)
LEMMA Readable ==
  ASSUME Types, CountInv, OrderInv, Counted >= 1
  PROVE  count # 0
PROOF
  <1>1. Counted < CountWrap
    BY Numbers DEF OrderInv
  <1> QED BY <1>1, CountOf

LEMMA RbrFifo ==
  ASSUME Types, HeadInv, ReadRbr
  PROVE  FifoKept
PROOF
  <1>0. pc["vcpu"] = "out" /\ "vcpu" \in Threads
    BY Zenon DEF ReadRbr, MayEnter, Threads
  <1>1. /\ UNCHANGED <<data, head, tail, count, dr, over, nput, nget, tmp, chr>>
        /\ guest = "rbr" /\ guest' = "poll"
    BY Zenon DEF ReadRbr, fifo, regs, counters
  <1>2. pc'["vcpu"] = (IF count # 0 THEN "get" ELSE "empty?") /\ Moves("vcpu")
    BY <1>0, Moved, Zenon DEF ReadRbr
  <1>3. /\ HeadInv' /\ InGet' = InGet /\ Fill' = Fill /\ Counted' = Counted
        /\ CountInv => CountInv'
    <2>1. /\ pc["vcpu"] \notin FifoPut /\ pc["vcpu"] \notin AfterGet
          /\ pc'["vcpu"] \notin FifoPut /\ pc'["vcpu"] # "wild" /\ pc'["vcpu"] \notin AfterGet
      BY <1>0, <1>2, Zenon DEF FifoPut, AfterGet
    <2> QED BY <1>0, <1>1, <1>2, <2>1, CountAside, Zenon
  <1>4. ASSUME DrInv PROVE DrInv'
    <2>1. Owed => Owed'
      BY <1>0, <1>2, OwedKeep, Zenon
    <2> QED BY <1>0, <1>1, <1>2, <1>3, <1>4, <2>1, Zenon DEF DrInv, AfterGet
  <1>5. ASSUME CountInv, DrInv, OrderInv PROVE OrderInv'
    <2>1. Counted >= 1
      BY <1>1, <1>5, Zenon DEF DrInv
    <2>2. got' = got
      BY <1>5, <2>1, Readable, Zenon DEF ReadRbr
    <2> QED BY <1>1, <1>3, <1>5, <2>2, OrderKeep, Zenon
  <1> QED BY <1>3, <1>4, <1>5, Zenon DEF FifoKept

(* fifo_get takes the oldest byte. *)
LEMMA GetFifo ==
  ASSUME Types, HeadInv, Get
  PROVE  FifoKept
PROOF
  <1>0. pc["vcpu"] = "get" /\ "vcpu" \in Threads
    BY Zenon DEF Get, Threads
  <1>1. UNCHANGED <<data, head, count, dr, over, nput, guest, tmp, chr>>
    BY Zenon DEF Get, regs
  <1>2. pc["vcpu"] \notin FifoPut /\ pc["vcpu"] \notin AfterGet /\ pc["vcpu"] # "dr"
    BY <1>0, Zenon DEF FifoPut, AfterGet
  <1>3. CASE count = 0
    <2>1. pc'["vcpu"] = "empty?" /\ Moves("vcpu") /\ UNCHANGED <<tail, nget>>
      BY <1>0, <1>3, Moved, Zenon DEF Get
    <2>2. /\ HeadInv' /\ InGet' = InGet /\ Fill' = Fill /\ Counted' = Counted
          /\ CountInv => CountInv'
      <3>1. pc'["vcpu"] \notin FifoPut /\ pc'["vcpu"] # "wild" /\ pc'["vcpu"] \notin AfterGet
        BY <2>1, Zenon DEF FifoPut, AfterGet
      <3> QED BY <1>0, <1>1, <1>2, <2>1, <3>1, CountAside, Zenon
    <2>3. ASSUME DrInv PROVE DrInv'
      BY <1>0, <1>1, <1>3, <2>1, <2>2, <2>3, Zenon DEF DrInv, AfterGet
    <2>4. ASSUME CountInv, DrInv, OrderInv PROVE FALSE
      BY <1>0, <1>3, <2>4, Readable, Zenon DEF DrInv
    <2> QED BY <2>2, <2>3, <2>4, Zenon DEF FifoKept
  <1>4. CASE count # 0
    <2>1. /\ pc'["vcpu"] = "uncount" /\ Moves("vcpu") /\ nget' = nget + 1
          /\ tail' = NextTail /\ got' = Append(got, data[tail])
      BY <1>0, <1>4, Moved, Zenon DEF Get
    <2>2. pc'["vcpu"] \notin FifoPut /\ pc'["vcpu"] # "wild" /\ pc'["vcpu"] \in AfterGet
      BY <2>1, Zenon DEF FifoPut, AfterGet
    <2>3. HeadInv'
      BY <1>0, <1>1, <1>2, <2>1, <2>2, HeadKeep, Zenon
    <2>4. InPut' = InPut
      <3>1. place \in FifoPut <=> place' \in FifoPut
        BY <1>0, <1>2, <2>1, <2>2, Aside, Zenon
      <3> QED BY <3>1, Zenon DEF InPut
    <2>5. InGet = 0 /\ InGet' = 1
      BY <1>2, <2>2, Zenon DEF InGet
    <2>6. /\ nget \in Nat /\ nput \in Nat /\ Fill = nput - nget /\ InPut \in {0, 1}
          /\ Counted = (Fill - InPut) + InGet
      BY Numbers, Zenon
    <2>7. Fill' = Fill - 1
      BY <1>1, <2>1, <2>6 DEF Fill
    <2>8. Counted' = Counted
      <3>1. Counted' = (Fill' - InPut') + InGet'
        BY NumbersNext, Zenon
      <3> QED BY <2>4, <2>5, <2>6, <2>7, <3>1
    <2>9. ASSUME CountInv PROVE CountInv'
      <3>1. Counted >= 1
        BY <1>4, <2>9, CountOf, Zenon
      <3>2. Fill' - InPut' >= 0
        BY <2>4, <2>5, <2>6, <2>7, <3>1
      <3>3. tail' = Slot(nget')
        <4>1. nget \in Int
          BY <2>6
        <4>2. Slot(nget + 1) = IF Slot(nget) + 1 = FifoLength THEN 0 ELSE Slot(nget) + 1
          BY <4>1, SlotNext, Zenon
        <4> QED BY <2>1, <2>9, <4>2, Zenon DEF CountInv, NextTail
      <3> QED BY <1>1, <2>8, <2>9, <3>2, <3>3, Zenon DEF CountInv
    <2>10. ASSUME DrInv PROVE DrInv'
      <3>1. Owed => Owed'
        BY <1>0, <1>2, <2>1, OwedKeep, Zenon
      <3> QED BY <1>0, <1>1, <1>4, <2>1, <2>8, <2>10, <3>1, Zenon DEF DrInv
    <2>11. ASSUME CountInv, OrderInv PROVE OrderInv'
      <3>1. /\ Fill + InGet <= FifoLength /\ Len(got) = nget
            /\ \A i \in 1 .. Len(got) : got[i] = i
        BY <2>11, Zenon DEF OrderInv
      <3>2. Counted >= 1 /\ FifoLength \in Nat
        BY <1>4, <2>11, CountOf, Numbers, Zenon
      <3>3. /\ nget + 1 \in 1 .. nput /\ nput - (nget + 1) < FifoLength
            /\ InPut = 1 => nget + 1 # nput
        BY <2>5, <2>6, <3>1, <3>2
      <3>4. place \in BeforeStore => InPut = 1
        BY Zenon DEF InPut, FifoPut, BeforeStore
      <3>5. data[Slot((nget + 1) - 1)] = nget + 1
        BY <3>3, <3>4, Zenon DEF HeadInv, Stored
      <3>6. data[tail] = nget + 1
        <4>1. tail = Slot((nget + 1) - 1)
          BY <2>6, <2>11 DEF CountInv
        <4> QED BY <3>5, <4>1, Zenon
      <3>7. got \in Seq(Int)
        BY Zenon DEF Types, GuestTypes
      <3>8. Len(got') = Len(got) + 1 /\ \A i \in 1 .. Len(got') : got'[i] = i
        BY <2>1, <2>6, <3>1, <3>6, <3>7
      <3>9. Fill' + InGet' <= FifoLength
        BY <2>5, <2>6, <2>7, <3>1
      <3> QED BY <2>1, <3>1, <3>8, <3>9, Zenon DEF OrderInv
    <2> QED BY <2>3, <2>9, <2>10, <2>11, Zenon DEF FifoKept
  <1> QED BY <1>3, <1>4, Zenon

LEMMA UncountFifo ==
  ASSUME Types, HeadInv, LoadUncount \/ StoreUncount
  PROVE  FifoKept
PROOF
  <1>0. "vcpu" \in Threads /\ pc["vcpu"] \in AfterGet /\ pc["vcpu"] \notin FifoPut
    BY Zenon DEF LoadUncount, StoreUncount, Threads, AfterGet, FifoPut
  <1>1. UNCHANGED <<data, head, tail, dr, over, got, nput, nget, guest, chr>>
    BY Zenon DEF LoadUncount, StoreUncount, fifo, regs, counters
  <1>2. \A u \in Threads : u = "vcpu" \/ (tmp'[u] = tmp[u] /\ chr'[u] = chr[u])
    BY Zenon DEF LoadUncount, StoreUncount, Types, PlaceTypes
  <1>3. ASSUME DrInv PROVE guest # "rbr" /\ (dr \/ Owed) /\ (dr => Counted >= 1)
    BY <1>0, <1>3, Zenon DEF DrInv, AfterGet
  <1>4. CASE LoadUncount
    <2>1. pc'["vcpu"] = "count--" /\ Moves("vcpu") /\ count' = count
      BY <1>0, <1>4, Moved, Zenon DEF LoadUncount, fifo
    <2>2. pc'["vcpu"] \notin FifoPut /\ pc'["vcpu"] # "wild" /\ pc'["vcpu"] \in AfterGet
      BY <2>1, Zenon DEF FifoPut, AfterGet
    <2>3. /\ HeadInv' /\ InGet' = InGet /\ Fill' = Fill /\ Counted' = Counted
          /\ CountInv => CountInv'
      BY <1>0, <1>1, <1>2, <2>1, <2>2, CountAside, Zenon
    <2>4. ASSUME DrInv PROVE DrInv'
      <3>1. Owed => Owed'
        BY <1>0, <2>1, OwedKeep, Zenon DEF AfterGet
      <3> QED BY <1>1, <1>3, <2>1, <2>3, <2>4, <3>1, Zenon DEF DrInv
    <2>5. ASSUME OrderInv PROVE OrderInv'
      BY <1>1, <2>3, <2>5, OrderKeep, Zenon
    <2> QED BY <2>3, <2>4, <2>5, Zenon DEF FifoKept
  <1>5. CASE StoreUncount
    <2>1. pc'["vcpu"] = "empty?" /\ Moves("vcpu")
      BY <1>0, <1>5, Moved, Zenon DEF StoreUncount
    <2>2. pc'["vcpu"] \notin FifoPut /\ pc'["vcpu"] # "wild" /\ pc'["vcpu"] \notin AfterGet
      BY <2>1, Zenon DEF FifoPut, AfterGet
    <2>3. HeadInv'
      BY <1>0, <1>1, <1>2, <2>1, <2>2, HeadKeep, Zenon
    <2>4. InPut' = InPut
      <3>1. place \in FifoPut <=> place' \in FifoPut
        BY <1>0, <2>1, <2>2, Aside, Zenon
      <3> QED BY <3>1, Zenon DEF InPut
    <2>5. InGet = 1 /\ InGet' = 0 /\ Fill' = Fill
      BY <1>0, <1>1, <2>2, Zenon DEF InGet, Fill
    <2>6. Counted \in Int /\ Counted' = Counted - 1
      <3>1. Counted' = (Fill' - InPut') + InGet'
        BY NumbersNext, Zenon
      <3> QED BY <2>4, <2>5, <3>1, Numbers
    <2>7. ASSUME CountInv, ~CountRace PROVE CountInv'
      <3>1. tmp["vcpu"] = count /\ count = Wrapped(Counted)
        BY <1>5, <2>7, Zenon DEF CountRace, CountInv
      <3>2. count' = (Wrapped(Counted) - 1) % CountWrap
        BY <1>5, <3>1, Zenon DEF StoreUncount
      <3>3. count' = Wrapped(Counted')
        BY <2>6, <3>2, WrapNext, Zenon
      <3> QED BY <1>1, <2>4, <2>5, <2>7, <3>3, Zenon DEF CountInv
    <2>8. ASSUME DrInv PROVE DrInv'
      <3>1. Owed => Owed'
        BY <1>0, <2>1, OwedKeep, Zenon DEF AfterGet
      <3> QED BY <1>1, <1>3, <2>1, <2>8, <3>1, Zenon DEF DrInv
    <2>9. ASSUME OrderInv PROVE OrderInv'
      <3>1. Fill' + InGet' <= FifoLength
        BY <2>5, <2>9, Numbers DEF OrderInv
      <3> QED BY <1>1, <2>9, <3>1, Zenon DEF OrderInv
    <2> QED BY <2>3, <2>7, <2>8, <2>9, Zenon DEF FifoKept
  <1> QED BY <1>4, <1>5, Zenon

(* DR is cleared while the FIFO is empty. *)
LEMMA EmptyFifo ==
  ASSUME Types, HeadInv, CheckEmpty \/ ClearDr
  PROVE  FifoKept
PROOF
  <1>0. "vcpu" \in Threads /\ pc["vcpu"] \in {"empty?", "dr=0"}
    BY Zenon DEF CheckEmpty, ClearDr, Threads
  <1>1. UNCHANGED <<data, head, tail, count, over, got, nput, nget, guest, tmp, chr>>
    BY Zenon DEF CheckEmpty, ClearDr, fifo, counters
  <1>2. /\ pc'["vcpu"] \in {"dr=0", "update"} /\ Moves("vcpu")
        /\ \/ dr' = dr /\ pc'["vcpu"] = IF count = 0 THEN "dr=0" ELSE "update"
           \/ ClearDr /\ dr' = FALSE
    BY <1>0, Moved, Zenon DEF CheckEmpty, ClearDr, regs
  <1>3. /\ HeadInv' /\ InGet' = InGet /\ Fill' = Fill /\ Counted' = Counted
        /\ CountInv => CountInv'
    <2>1. /\ pc["vcpu"] \notin FifoPut /\ pc["vcpu"] \notin AfterGet
          /\ pc'["vcpu"] \notin FifoPut /\ pc'["vcpu"] # "wild" /\ pc'["vcpu"] \notin AfterGet
      BY <1>0, <1>2, Zenon DEF FifoPut, AfterGet
    <2> QED BY <1>0, <1>1, <1>2, <2>1, CountAside, Zenon
  <1>4. ASSUME CountInv, DrInv, ~DrRace PROVE DrInv'
    <2>1. guest' # "rbr"
      BY <1>0, <1>1, <1>4, Zenon DEF DrInv
    <2>2. pc'["vcpu"] \notin AfterGet /\ pc'["vcpu"] # "get"
      BY <1>2, Zenon DEF AfterGet
    <2>3. count # 0 => dr' \/ Owed'
      <3>1. Owed => Owed'
        BY <1>0, <1>2, OwedKeep, Zenon
      <3> QED BY <1>2, <1>4, <3>1, Zenon DEF DrRace, DrInv
    <2>4. dr' => Counted' >= 1 \/ pc'["vcpu"] \in {"empty?", "dr=0"}
      BY <1>2, <1>3, <1>4, CountOf, Zenon
    <2> QED BY <1>1, <2>1, <2>2, <2>3, <2>4, Zenon DEF DrInv
  <1>5. ASSUME OrderInv PROVE OrderInv'
    BY <1>1, <1>3, <1>5, OrderKeep, Zenon
  <1> QED BY <1>3, <1>4, <1>5, Zenon DEF FifoKept

LEMMA PutFifo ==
  ASSUME Types, HeadInv, ~PutRace, NEW t \in Threads, Put(t)
  PROVE  FifoKept
  BY LoadHeadFifo, StoreHeadFifo, StoreDataFifo, WrapFifo, LoadCountFifo, CountFifo,
     DrFifo, Zenon DEF Put

(* The other handlers leave the FIFO alone. *)
LEMMA UpdateFifo ==
  ASSUME Types, HeadInv, NEW t \in Threads, Update(t)
  PROVE  FifoKept
PROOF
  <1>1. PICK l \in {"thri", "iir", "event", "out"} :
          pc[t] \in {"update", "thri", "iir", "event"} /\ Goto(t, l)
    BY Zenon DEF Update, CheckRdi, CheckThri, StoreIir, WriteEvent
  <1>2. pc'[t] = l /\ Moves(t)
    BY <1>1, Moved, Zenon
  <1>3. UNCHANGED <<data, head, tail, count, dr, over, got, nput, nget, guest, tmp, chr>>
    BY Zenon DEF Update, CheckRdi, CheckThri, StoreIir, WriteEvent, fifo, regs, counters
  <1>4. /\ pc[t] \notin Busy /\ pc'[t] \notin Busy /\ pc'[t] # "wild" /\ pc[t] # "out"
    BY <1>1, <1>2, Zenon DEF Busy, FifoPut, AfterGet
  <1>5. Calm(t)
    BY <1>2, <1>3, <1>4, Zenon DEF Calm
  <1> QED BY <1>5, CalmStep, Zenon

LEMMA ReadFifo ==
  ASSUME Types, HeadInv, TakeIrq \/ ReadReg
  PROVE  FifoKept
PROOF
  <1>1. CASE TakeIrq \/ ReadIir \/ ClearIir
    <2>0. "vcpu" \in Threads
      BY Zenon DEF Threads
    <2>1. PICK l \in {"read_iir", "clear_iir", "out"} :
            pc["vcpu"] \in {"out", "read_iir", "clear_iir"} /\ Goto("vcpu", l)
      BY <1>1, Zenon DEF TakeIrq, ReadIir, ClearIir, MayEnter
    <2>2. pc'["vcpu"] = l /\ Moves("vcpu")
      BY <2>0, <2>1, Moved, Zenon
    <2>3. UNCHANGED <<data, head, tail, count, dr, over, got, nput, nget, tmp, chr>>
      BY <1>1, Zenon DEF TakeIrq, ReadIir, ClearIir, fifo, regs, counters
    <2>4. guest' = "rbr" => guest = "rbr" /\ pc["vcpu"] # "out"
      BY <1>1, Zenon DEF TakeIrq, ReadIir, ClearIir
    <2>5. pc["vcpu"] \notin Busy /\ pc'["vcpu"] \notin Busy /\ pc'["vcpu"] # "wild"
      BY <2>1, <2>2, Zenon DEF Busy, FifoPut, AfterGet
    <2>6. Calm("vcpu")
      BY <2>2, <2>3, <2>4, <2>5, Zenon DEF Calm
    <2> QED BY <2>0, <2>6, CalmStep, Zenon
  <1> QED BY <1>1, LsrFifo, RbrFifo, GetFifo, UncountFifo, EmptyFifo, Zenon DEF ReadReg

LEMMA EnterFifo ==
  ASSUME Types, HeadInv, ~PutRace, Receive \/ WriteReg
  PROVE  FifoKept
PROOF
  <1>0. "vcpu" \in Threads /\ "stdin" \in Threads
    BY Zenon DEF Threads
  <1>1. "out" \notin Busy /\ "update" \notin Busy
    BY Zenon DEF Busy, FifoPut, AfterGet
  <1>2. CASE Receive
    <2>1. pc["stdin"] = "out" /\ UNCHANGED <<data, head, tail, count, dr, got, guest, nget, tmp>>
      BY <1>2, Zenon DEF Receive, MayEnter, fifo, regs
    <2>2. CASE loop
      <3>1. Calm("stdin")
        BY <1>1, <1>2, <2>1, <2>2, Zenon DEF Receive, Calm, Moves
      <3> QED BY <1>0, <3>1, CalmStep, Zenon
    <2>3. CASE ~loop
      BY <1>0, <1>2, <2>1, <2>3, StartFifo, Zenon DEF Receive
    <2> QED BY <2>2, <2>3, Zenon
  <1>3. CASE WriteThr
    <2>1. /\ pc["vcpu"] = "out" /\ guest = "run"
          /\ UNCHANGED <<data, head, tail, count, dr, got, guest, nget, tmp>>
      BY <1>3, Zenon DEF WriteThr, MayWrite, MayEnter, fifo
    <2>2. CASE loop
      BY <1>0, <1>3, <2>1, <2>2, StartFifo, Zenon DEF WriteThr
    <2>3. CASE ~loop
      <3>1. pc'["vcpu"] = "update" /\ Moves("vcpu") /\ UNCHANGED <<over, nput, chr>>
        BY <1>0, <1>3, <2>3, Moved, Zenon DEF WriteThr
      <3>2. Calm("vcpu")
        BY <1>1, <2>1, <3>1, Zenon DEF Calm
      <3> QED BY <1>0, <3>2, CalmStep, Zenon
    <2> QED BY <2>2, <2>3, Zenon
  <1>4. ASSUME NEW v \in Enables, NEW rest \in BOOLEAN, WriteIer(v, rest) PROVE FifoKept
    <2>1. /\ pc["vcpu"] = "out" /\ guest = "run"
          /\ UNCHANGED <<data, head, tail, count, dr, over, got, nput, nget, guest, tmp, chr>>
      BY <1>4, Zenon DEF WriteIer, MayWrite, MayEnter, fifo
    <2>2. pc'["vcpu"] \in {"update", "out"} /\ Moves("vcpu")
      <3>1. CASE Goto("vcpu", "update")
        BY <1>0, <3>1, Moved, Zenon
      <3>2. CASE pc' = pc
        BY <2>1, <3>2, Zenon DEF Moves
      <3> QED BY <1>4, <3>1, <3>2, Zenon DEF WriteIer
    <2>3. Calm("vcpu")
      BY <1>1, <2>1, <2>2, Zenon DEF Calm
    <2> QED BY <1>0, <2>3, CalmStep, Zenon
  <1>5. ASSUME pc["vcpu"] = "out", guest = "run",
               UNCHANGED <<pc, fifo, dr, over, got, nput, nget, guest, tmp, chr>>
        PROVE  FifoKept
    <2>1. Calm("vcpu")
      BY <1>1, <1>5, Zenon DEF Calm, Moves, fifo
    <2> QED BY <1>0, <2>1, CalmStep, Zenon
  <1>6. ASSUME NEW l \in Latches, NEW v \in LatchVals, WriteLatch(l, v) PROVE FifoKept
    BY <1>5, <1>6, Zenon DEF WriteLatch, MayWrite, MayEnter
  <1>7. ASSUME NEW v \in BOOLEAN, WriteLcr(v) \/ WriteMcr(v) PROVE FifoKept
    BY <1>5, <1>7, Zenon DEF WriteLcr, WriteMcr, MayWrite, MayEnter
  <1> QED BY <1>2, <1>3, <1>4, <1>6, <1>7, Zenon DEF WriteReg

LEMMA FifoNext ==
  ASSUME Types, HeadInv, ~PutRace, Next
  PROVE  FifoKept
  BY PutFifo, UpdateFifo, ReadFifo, EnterFifo, Zenon DEF Next, StdinStep, VcpuStep, Threads

LEMMA FifoInit == RacesInit => FifoInv
PROOF
  <1> SUFFICES ASSUME RacesInit PROVE FifoInv
    OBVIOUS
  <1>0. /\ nput = 0 /\ nget = 0 /\ head = 0 /\ tail = 0 /\ count = 0
        /\ got = <<>> /\ dr = FALSE /\ guest = "run" /\ \A t \in Threads : pc[t] = "out"
    BY Zenon DEF RacesInit, Init
  <1>1. \A t \in Threads : pc[t] \notin FifoPut /\ pc[t] # "wild"
    BY <1>0, Zenon DEF FifoPut
  <1>2. place \notin FifoPut /\ "vcpu" \in Threads /\ pc["vcpu"] = "out"
    BY <1>0, <1>1, PlaceIn, Zenon DEF Threads
  <1>3. Slot(0) = 0 /\ Wrapped(0) = 0
    <2>1. FifoLength \in Nat /\ 0 \in 0 .. FifoLength - 1 /\ 0 \in 0 .. CountWrap - 1
      BY SerialAssumption
    <2> QED BY <2>1, WrapSmall, ModSmall, Zenon DEF Slot
  <1>4. InPut = 0 /\ InGet = 0
    BY <1>2, Zenon DEF InPut, InGet, AfterGet
  <1>5. Fill = 0 /\ Counted = 0
    BY <1>0, <1>4 DEF Fill, Counted
  <1>6. HeadInv
    <2>1. Stored
      BY <1>0 DEF Stored
    <2> QED BY <1>0, <1>1, <1>2, <1>3, <2>1, Zenon DEF HeadInv, FifoPut, BeforeStore
  <1>7. CountInv
    BY <1>0, <1>3, <1>4, <1>5 DEF CountInv
  <1>8. DrInv
    BY <1>0, <1>2, Zenon DEF DrInv, AfterGet
  <1>9. OrderInv
    BY <1>0, <1>4, <1>5, SerialAssumption DEF OrderInv
  <1> QED BY <1>6, <1>7, <1>8, <1>9, Zenon DEF FifoInv

(* An overflow that was reported stays so. *)
LEMMA OverStays ==
  ASSUME Next, over
  PROVE  over'
  BY Zenon
  DEF Next, StdinStep, VcpuStep, Put, Update, ReadReg, WriteReg, Receive, StartPut, LoadHead,
      StoreHead, StoreData, CheckWrap, ResetHead, LoadCount, StoreCount, SetDr, CheckRdi,
      CheckThri, StoreIir, WriteEvent, TakeIrq, ReadIir, ClearIir, ReadLsr, ReadRbr, Get,
      LoadUncount, StoreUncount, CheckEmpty, ClearDr, WriteThr, WriteIer, WriteLatch, WriteLcr,
      WriteMcr

LEMMA FifoStep ==
  ASSUME Types, FifoInv, [RacesNext]_<<vars, races>>
  PROVE  FifoInv'
PROOF
  <1>1. CASE RacesNext
    <2>1. /\ "put" \notin races' => "put" \notin races /\ ~PutRace
          /\ "count" \notin races' => "count" \notin races /\ ~CountRace
          /\ "dr" \notin races' => "dr" \notin races /\ ~DrRace
      BY <1>1, RacesGrow, Zenon
    <2>2. ASSUME "put" \notin races' PROVE FifoKept
      BY <1>1, <2>1, <2>2, FifoNext, Zenon DEF RacesNext, FifoInv
    <2>3. ~over' => ~over
      BY <1>1, OverStays, Zenon DEF RacesNext
    <2> QED BY <2>1, <2>2, <2>3, Zenon DEF FifoInv, FifoKept
  <1>2. CASE UNCHANGED <<vars, races>>
    <2>1. /\ UNCHANGED <<pc, tmp, chr, data, head, tail, count, dr, over, got, nput, nget, guest>>
          /\ races' = races
      BY <1>2, Zenon DEF vars, fifo, regs, counters
    <2>2. Putter' = Putter /\ place' = place
      BY <2>1, Zenon DEF Putter, place
    <2>3. Fill' = Fill /\ InPut' = InPut /\ InGet' = InGet /\ (Owed <=> Owed')
      BY <2>1, <2>2, Zenon DEF Fill, InPut, InGet, Owed
    <2>4. Counted' = Counted
      BY <2>3, Zenon DEF Counted
    <2>5. HeadInv => HeadInv'
      BY <2>1, <2>2, Zenon DEF HeadInv, Stored
    <2>6. CountInv => CountInv'
      BY <2>1, <2>3, <2>4, Zenon DEF CountInv
    <2>7. (DrInv => DrInv') /\ (OrderInv => OrderInv')
      BY <2>1, <2>3, <2>4, Zenon DEF DrInv, OrderInv
    <2> QED BY <2>1, <2>5, <2>6, <2>7, Zenon DEF FifoInv
  <1> QED BY <1>1, <1>2, Zenon

LEMMA FifoAlways == RacesSpec => [](Types /\ FifoInv)
PROOF
  <1>1. RacesInit => Types /\ FifoInv
    BY TypesInit, FifoInit, Zenon DEF RacesInit
  <1>2. Types /\ FifoInv /\ [RacesNext]_<<vars, races>> => Types' /\ FifoInv'
    <2>1. [RacesNext]_<<vars, races>> => [Next]_vars
      BY Zenon DEF RacesNext
    <2> QED BY <2>1, TypesStep, FifoStep, Zenon
  <1> QED BY <1>1, <1>2, PTL DEF RacesSpec

(* As long as the two threads are not in fifo_put together, head stays     *)
(* within the array, whatever else they overtake each other in.            *)
THEOREM InFifoTheorem == RacesSpec => []InFifo
PROOF
  <1>1. FifoInv => InFifo
    BY Zenon DEF FifoInv, HeadInv, InFifo
  <1> QED BY FifoAlways, <1>1, PTL

(* fifo_put, fifo_get and the handlers around them keep count, head and    *)
(* tail in agreement, through overflow and through wraps of count, for     *)
(* every FIFO whose length divides the range of count, in every            *)
(* interleaving in which no store to count overwrites another; and DR too  *)
(* if it is not set or cleared too late.                                   *)
THEOREM FifoTheorem == RacesSpec => []FifoConsistent
PROOF
  <1>1. Types /\ FifoInv => FifoConsistent
    <2> SUFFICES ASSUME Types, FifoInv, Quiet, races \cap {"put", "count"} = {}
                 PROVE  /\ count = Fill % CountWrap
                        /\ (tail + count) % FifoLength = head
                        /\ Fill < CountWrap /\ "dr" \notin races => (dr <=> count # 0)
      BY Zenon DEF FifoConsistent
    <2>0. HeadInv /\ CountInv /\ ("dr" \notin races => DrInv)
      BY Zenon DEF FifoInv
    <2>1. place \notin FifoPut /\ "vcpu" \in Threads /\ pc["vcpu"] = "out" /\ ~Owed
      BY PlaceIn, Zenon DEF Quiet, Threads, FifoPut, Owed
    <2>2. InPut = 0 /\ InGet = 0
      BY <2>1, Zenon DEF InPut, InGet, AfterGet
    <2>3. Counted = nput - nget /\ Counted = Fill
      BY <2>2, Numbers
    <2>4. count = Wrapped(nput - nget) /\ tail = Slot(nget) /\ head = Slot(nput)
      BY <2>0, <2>1, <2>3, Zenon DEF HeadInv, CountInv, FifoPut
    <2>5. (Slot(nget) + Wrapped(nput - nget)) % FifoLength = Slot(nput)
      <3>1. nput \in Int /\ nget \in Int
        BY Numbers
      <3> QED BY <3>1, Meet, Zenon
    <2>6. count = Fill % CountWrap
      BY <2>4, Zenon DEF Wrapped, Fill
    <2>7. ASSUME Fill < CountWrap, "dr" \notin races PROVE dr <=> count # 0
      <3>1. count # 0 => dr
        BY <2>0, <2>1, <2>7, Zenon DEF DrInv
      <3>2. dr => Counted >= 1
        BY <2>0, <2>1, <2>7, Zenon DEF DrInv
      <3>3. count = Counted
        BY <2>0, <2>3, <2>7, CountOf, Zenon
      <3>4. Counted >= 1 => Counted # 0
        BY <2>3, Numbers
      <3> QED BY <3>1, <3>2, <3>3, <3>4, Zenon DEF Types, RegTypes
    <2> QED BY <2>4, <2>5, <2>6, <2>7, Zenon
  <1> QED BY FifoAlways, <1>1, PTL

(* Until an overflow is reported or one of these races happens, the guest  *)
(* reads from RBR the bytes that were put, in order: neither the wrap of   *)
(* head and tail, nor bytes that come in while it reads, lose, repeat or   *)
(* invent one.                                                             *)
THEOREM InOrderTheorem == RacesSpec => []InOrder
PROOF
  <1>1. FifoInv => InOrder
    BY Zenon DEF FifoInv, OrderInv, InOrder
  <1> QED BY FifoAlways, <1>1, PTL
=============================================================================
