----------------------------- MODULE SerialRaces -----------------------------
(***************************************************************************)
(* What the port of Serial guarantees although its two threads take no     *)
(* lock.  The history variable races records at which places one of them   *)
(* has been overtaken by the other; each property holds as long as the     *)
(* races it names have not happened, and in spite of the others.           *)
(***************************************************************************)
EXTENDS Serial

VARIABLE races

FifoPut == {"put", "head++", "data", "wrap", "head=0", "count", "count++"}

(* What update_serial_iir would store now. *)
Pending ==
  IF ier.rdi /\ dr THEN "RDI" ELSE IF ier.thri /\ thr_pending > 0 THEN "THRI" ELSE "NO_INT"

(* Both threads are in fifo_put (the vCPU's in loopback mode).             *)
PutRace == \A t \in Threads : pc'[t] \in FifoPut

(* count++ or count-- stores a value computed from a count that has        *)
(* changed since.                                                          *)
CountRace ==
  \/ \E t \in Threads : StoreCount(t) /\ tmp[t] # count
  \/ StoreUncount /\ tmp["vcpu"] # count

(* DR is cleared although a byte has been counted since the check, or set  *)
(* although the byte has been read already.                                *)
DrRace ==
  \/ ClearDr /\ count # 0
  \/ \E t \in Threads : SetDr(t) /\ count = 0 /\ Fill < CountWrap

(* The IIR is stored although what it was computed from has changed, or    *)
(* cleared although it is no longer what the guest is given.               *)
IirRace ==
  \/ \E t \in Threads : StoreIir(t) /\ newIir[t] # Pending
  \/ ClearIir /\ newIir["vcpu"] # iir

Races ==
  {x \in {"put", "count", "dr", "iir"} :
     \/ x = "put" /\ PutRace
     \/ x = "count" /\ CountRace
     \/ x = "dr" /\ DrRace
     \/ x = "iir" /\ IirRace}

RacesInit == Init /\ races = {}

RacesNext == Next /\ races' = races \cup Races

RacesSpec == RacesInit /\ [][RacesNext]_<<vars, races>>

FairRacesSpec == RacesSpec /\ WF_vars(StdinStep) /\ WF_vars(VcpuStep)

----------------------------------------------------------------------------
(* Properties.                                                             *)

(* Outside the handlers the accounts of the FIFO agree: count is the       *)
(* number of bytes in it modulo the width of count, it is the way from     *)
(* tail to head, and, short of a wrap of count, data is ready exactly when *)
(* there is some.  The two places where this is lost are count++ against   *)
(* count-- and, for the data-ready bit alone, its store.                   *)
FifoConsistent ==
  Quiet /\ races \cap {"put", "count"} = {} =>
    /\ count = Fill % CountWrap
    /\ (tail + count) % FifoLength = head
    /\ Fill < CountWrap /\ "dr" \notin races => (dr <=> count # 0)

(* As long as no overflow was reported, the guest reads the bytes in the   *)
(* order they came in, none lost, none twice and none invented, also while *)
(* bytes come in; a race for the IIR does not harm this.                   *)
InOrder ==
  ~over /\ races \subseteq {"iir"} => \A i \in 1 .. Len(got) : got[i] = i

(* fifo_put never indexes past the array, unless both threads are in it. *)
InFifo == "put" \notin races => \A t \in Threads : pc[t] # "wild"

(* No lost interrupt: when data is ready, its interrupt enabled and nobody *)
(* at work, the interrupt is pending or the guest's handler is on its way  *)
(* to the LSR, although a read of the IIR clears what was pending and the  *)
(* guest may turn the interrupt off and on again.  Only a race for the IIR *)
(* itself loses one: none for the FIFO or for the data-ready bit does.     *)
RaisedWhenReady ==
  "iir" \notin races => (Quiet /\ dr /\ ier.rdi => irq \/ guest # "run")

(* If no overflow is reported, no race happens and the guest enables the   *)
(* interrupt in the end, it reads every byte that came in.                 *)
ReceivedUnlessRaced == [](races = {}) => Received
==============================================================================
