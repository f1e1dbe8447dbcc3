------------------------------- MODULE Serial -------------------------------
(***************************************************************************)
(* The 16550A serial port of microv (serial.c).                            *)
(*                                                                         *)
(* Two threads work on the global struct Serial, with no lock:             *)
(*   - "stdin": serial_thread_fn, which passes each byte typed to          *)
(*     receive_serial_input;                                               *)
(*   - "vcpu": the thread that runs the guest and, on a port I/O exit,     *)
(*     read_serial_reg or write_serial_reg.                                *)
(* A step is one load or store of a field the other thread may use at the  *)
(* same time (x++ is a load and a store); accesses to fields that only     *)
(* one thread writes are joined to a neighbouring step.  Nothing keeps one *)
(* thread out of its handlers while the other is in one of its own.        *)
(*                                                                         *)
(* The bytes that enter the FIFO are numbered, so that order and loss show.*)
(* The guest's driver is external: its interrupt handler reads the IIR,    *)
(* and then RBR as long as the LSR says that data is ready.                *)
(*                                                                         *)
(* A definition X_Y next to definition X is X with a plausible slip in it: *)
(* no specification uses it; it shows that a property would notice.        *)
(***************************************************************************)
EXTENDS Integers, Sequences

CONSTANTS FifoLength,  \* UART_FIFO_LENGTH, 16 in the code
          CountWrap,   \* count is a uint8_t: 256 in the code
          MaxKeys,     \* bound: bytes typed
          MaxOps,      \* bound: register accesses outside the interrupt handler
          GuestOps     \* which registers those write: "thr", "ier", "mcr", "lcr", "latch"

ASSUME SerialAssumption ==
  /\ FifoLength \in Nat \ {0} /\ CountWrap \in Nat \ {0}
  /\ FifoLength < CountWrap /\ CountWrap % FifoLength = 0
  /\ MaxKeys \in Nat /\ MaxOps \in Nat
  /\ GuestOps \subseteq {"thr", "ier", "mcr", "lcr", "latch"}

VARIABLES
  data, head, tail, count,  \* recv_fifo
  dr,           \* lsr & UART_LSR_DR; the other bits of lsr never change
  ier,          \* its bits rdi and thri
  iir,          \* "NO_INT", "RDI" or "THRI"
  thr_pending,
  loop,         \* mcr & UART_MCR_LOOP
  dlab,         \* lcr & UART_LCR_DLAB
  latch,        \* div (low and high byte) and scr
  irq,          \* interrupt_evt was written, and the guest has not taken it
  over,         \* "Overflow UART_FIFO_LENGTH" was printed
  pc, chr, tmp, newIir,  \* per thread: where it is, and its locals
  guest,        \* where the driver is
  got,          \* the bytes it read from RBR
  keys, ops,    \* bytes typed, accesses made
  nput, nget    \* bytes given to fifo_put, and taken from the FIFO by fifo_get

fifo     == <<data, head, tail, count>>
regs     == <<dr, ier, iir, thr_pending, loop, dlab, latch>>
counters == <<keys, ops, nput, nget>>
vars     == <<fifo, regs, irq, over, pc, chr, tmp, newIir, guest, got, counters>>

Threads == {"vcpu", "stdin"}
Garbage == -1    \* what read_serial_reg returns when it sets no ret

(* Thread t is outside the handlers and may enter one. *)
MayEnter(t) == pc[t] = "out"

Goto(t, l) == pc' = [pc EXCEPT ![t] = l]

----------------------------------------------------------------------------
(* fifo_put(chr), by either thread, and the store of DR after it.          *)

(* Entering it: the overflow check only prints. *)
StartPut(t) ==
  /\ over' = (over \/ count >= FifoLength)
  /\ nput' = nput + 1
  /\ chr' = [chr EXCEPT ![t] = nput + 1]
  /\ Goto(t, "put")

LoadHead(t) ==
  /\ pc[t] = "put"
  /\ tmp' = [tmp EXCEPT ![t] = head]
  /\ Goto(t, "head++")
  /\ UNCHANGED <<fifo, regs, irq, over, chr, newIir, guest, got, counters>>

StoreHead(t) ==
  /\ pc[t] = "head++"
  /\ head' = tmp[t] + 1
  /\ Goto(t, "data")
  /\ UNCHANGED <<data, tail, count, regs, irq, over, chr, tmp, newIir, guest, got, counters>>

(* An index past the array hits the fields behind it: the thread is "wild" *)
(* and what it does next is not modelled.                                  *)
StoreData(t) ==
  /\ pc[t] = "data"
  /\ IF tmp[t] < FifoLength
     THEN data' = [data EXCEPT ![tmp[t]] = chr[t]] /\ Goto(t, "wrap")
     ELSE UNCHANGED data /\ Goto(t, "wild")
  /\ UNCHANGED <<head, tail, count, regs, irq, over, chr, tmp, newIir, guest, got, counters>>

CheckWrap_Late(t) ==
  /\ pc[t] = "wrap"
  /\ Goto(t, IF head > FifoLength THEN "head=0" ELSE "count")
  /\ UNCHANGED <<fifo, regs, irq, over, chr, tmp, newIir, guest, got, counters>>

CheckWrap(t) ==
  /\ pc[t] = "wrap"
  /\ Goto(t, IF head = FifoLength THEN "head=0" ELSE "count")
  /\ UNCHANGED <<fifo, regs, irq, over, chr, tmp, newIir, guest, got, counters>>

ResetHead(t) ==
  /\ pc[t] = "head=0"
  /\ head' = 0
  /\ Goto(t, "count")
  /\ UNCHANGED <<data, tail, count, regs, irq, over, chr, tmp, newIir, guest, got, counters>>

LoadCount(t) ==
  /\ pc[t] = "count"
  /\ tmp' = [tmp EXCEPT ![t] = count]
  /\ Goto(t, "count++")
  /\ UNCHANGED <<fifo, regs, irq, over, chr, newIir, guest, got, counters>>

StoreCount_Wide(t) ==
  /\ pc[t] = "count++"
  /\ count' = tmp[t] + 1
  /\ Goto(t, "dr")
  /\ UNCHANGED <<data, head, tail, regs, irq, over, chr, tmp, newIir, guest, got, counters>>

StoreCount(t) ==
  /\ pc[t] = "count++"
  /\ count' = (tmp[t] + 1) % CountWrap
  /\ Goto(t, "dr")
  /\ UNCHANGED <<data, head, tail, regs, irq, over, chr, tmp, newIir, guest, got, counters>>

SetDr_NoUpdate(t) ==
  /\ pc[t] = "dr"
  /\ dr' = TRUE
  /\ Goto(t, "out")
  /\ UNCHANGED <<fifo, ier, iir, thr_pending, loop, dlab, latch, irq, over,
                 chr, tmp, newIir, guest, got, counters>>

SetDr(t) ==
  /\ pc[t] = "dr"
  /\ dr' = TRUE
  /\ Goto(t, "update")
  /\ UNCHANGED <<fifo, ier, iir, thr_pending, loop, dlab, latch, irq, over,
                 chr, tmp, newIir, guest, got, counters>>

Put(t) ==
  \/ LoadHead(t) \/ StoreHead(t) \/ StoreData(t) \/ CheckWrap(t) \/ ResetHead(t)
  \/ LoadCount(t) \/ StoreCount(t) \/ SetDr(t)

----------------------------------------------------------------------------
(* update_serial_iir, by either thread.                                    *)

CheckRdi(t) ==
  /\ pc[t] = "update"
  /\ IF ier.rdi /\ dr THEN newIir' = [newIir EXCEPT ![t] = "RDI"] /\ Goto(t, "iir")
                      ELSE UNCHANGED newIir /\ Goto(t, "thri")
  /\ UNCHANGED <<fifo, regs, irq, over, chr, tmp, guest, got, counters>>

CheckThri(t) ==
  /\ pc[t] = "thri"
  /\ newIir' = [newIir EXCEPT ![t] = IF ier.thri /\ thr_pending > 0 THEN "THRI" ELSE "NO_INT"]
  /\ Goto(t, "iir")
  /\ UNCHANGED <<fifo, regs, irq, over, chr, tmp, guest, got, counters>>

StoreIir(t) ==
  /\ pc[t] = "iir"
  /\ iir' = newIir[t]
  /\ Goto(t, IF newIir[t] # "NO_INT" THEN "event" ELSE "out")
  /\ UNCHANGED <<fifo, dr, ier, thr_pending, loop, dlab, latch, irq, over,
                 chr, tmp, newIir, guest, got, counters>>

WriteEvent(t) ==
  /\ pc[t] = "event"
  /\ irq' = TRUE
  /\ Goto(t, "out")
  /\ UNCHANGED <<fifo, regs, over, chr, tmp, newIir, guest, got, counters>>

Update(t) == CheckRdi(t) \/ CheckThri(t) \/ StoreIir(t) \/ WriteEvent(t)

----------------------------------------------------------------------------
(* serial_thread_fn and receive_serial_input.  In loopback mode a byte     *)
(* typed is dropped.  The end of the input or a failed read counts as one  *)
(* more byte, for the code looks only at read_buf[0]; its store to         *)
(* read_buf[n], behind the one byte of the array when n is 1, is not       *)
(* modelled.                                                               *)
Receive ==
  /\ MayEnter("stdin") /\ keys < MaxKeys
  /\ keys' = keys + 1
  /\ IF loop THEN UNCHANGED <<over, nput, chr, pc>> ELSE StartPut("stdin")
  /\ UNCHANGED <<fifo, regs, irq, tmp, newIir, guest, got, ops, nget>>

----------------------------------------------------------------------------
(* read_serial_reg, in the interrupt handler of the guest's driver.        *)

(* The guest takes the interrupt, and its handler reads the IIR.  It does  *)
(* so with the divisor latch closed.                                       *)
TakeIrq ==
  /\ guest = "run" /\ irq /\ ~dlab /\ MayEnter("vcpu")
  /\ irq' = FALSE
  /\ guest' = "handler"
  /\ Goto("vcpu", "read_iir")
  /\ UNCHANGED <<fifo, regs, over, chr, tmp, newIir, got, counters>>

(* Register 2: the value is loaded, and what was pending is forgotten ...  *)
ReadIir ==
  /\ pc["vcpu"] = "read_iir"
  /\ newIir' = [newIir EXCEPT !["vcpu"] = iir]
  /\ thr_pending' = 0
  /\ Goto("vcpu", "clear_iir")
  /\ UNCHANGED <<fifo, dr, ier, iir, loop, dlab, latch, irq, over,
                 chr, tmp, guest, got, counters>>

(* ... and the register is reset.  A handler that read NO_INT returns.     *)
ClearIir ==
  /\ pc["vcpu"] = "clear_iir"
  /\ iir' = "NO_INT"
  /\ guest' = IF newIir["vcpu"] = "NO_INT" THEN "run" ELSE "poll"
  /\ Goto("vcpu", "out")
  /\ UNCHANGED <<fifo, dr, ier, thr_pending, loop, dlab, latch, irq, over,
                 chr, tmp, newIir, got, counters>>

(* Register 5.  The handler goes on to RBR if data is ready. *)
ReadLsr ==
  /\ guest = "poll" /\ MayEnter("vcpu")
  /\ guest' = IF dr THEN "rbr" ELSE "run"
  /\ UNCHANGED <<fifo, regs, irq, over, pc, chr, tmp, newIir, got, counters>>

(* Register 0, with the latch closed.  With nothing in the FIFO no value   *)
(* is set.                                                                 *)
ReadRbr ==
  /\ guest = "rbr" /\ MayEnter("vcpu")
  /\ guest' = "poll"
  /\ IF count # 0 THEN UNCHANGED got /\ Goto("vcpu", "get")
                  ELSE got' = Append(got, Garbage) /\ Goto("vcpu", "empty?")
  /\ UNCHANGED <<fifo, regs, irq, over, chr, tmp, newIir, counters>>

NextTail_Early == IF tail + 2 >= FifoLength THEN 0 ELSE tail + 1

NextTail == IF tail + 1 = FifoLength THEN 0 ELSE tail + 1

(* fifo_get, which looks at count again. *)
Get ==
  /\ pc["vcpu"] = "get"
  /\ IF count = 0
     THEN got' = Append(got, 0) /\ UNCHANGED <<tail, nget>> /\ Goto("vcpu", "empty?")
     ELSE /\ got' = Append(got, data[tail])
          /\ tail' = NextTail
          /\ nget' = nget + 1
          /\ Goto("vcpu", "uncount")
  /\ UNCHANGED <<data, head, count, regs, irq, over, chr, tmp, newIir, guest, keys, ops, nput>>

LoadUncount ==
  /\ pc["vcpu"] = "uncount"
  /\ tmp' = [tmp EXCEPT !["vcpu"] = count]
  /\ Goto("vcpu", "count--")
  /\ UNCHANGED <<fifo, regs, irq, over, chr, newIir, guest, got, counters>>

StoreUncount ==
  /\ pc["vcpu"] = "count--"
  /\ count' = (tmp["vcpu"] - 1) % CountWrap
  /\ Goto("vcpu", "empty?")
  /\ UNCHANGED <<data, head, tail, regs, irq, over, chr, tmp, newIir, guest, got, counters>>

CheckEmpty_Skip ==
  /\ pc["vcpu"] = "empty?"
  /\ Goto("vcpu", "update")
  /\ UNCHANGED <<fifo, regs, irq, over, chr, tmp, newIir, guest, got, counters>>

(* Is the FIFO empty now? *)
CheckEmpty ==
  /\ pc["vcpu"] = "empty?"
  /\ Goto("vcpu", IF count = 0 THEN "dr=0" ELSE "update")
  /\ UNCHANGED <<fifo, regs, irq, over, chr, tmp, newIir, guest, got, counters>>

ClearDr ==
  /\ pc["vcpu"] = "dr=0"
  /\ dr' = FALSE
  /\ Goto("vcpu", "update")
  /\ UNCHANGED <<fifo, ier, iir, thr_pending, loop, dlab, latch, irq, over,
                 chr, tmp, newIir, guest, got, counters>>

ReadReg ==
  \/ ReadIir \/ ClearIir \/ ReadLsr \/ ReadRbr
  \/ Get \/ LoadUncount \/ StoreUncount \/ CheckEmpty \/ ClearDr

----------------------------------------------------------------------------
(* write_serial_reg, by the guest outside its interrupt handler.           *)

MayWrite(op) == op \in GuestOps /\ guest = "run" /\ ops < MaxOps /\ MayEnter("vcpu")

(* Register 0: a byte is sent, in loopback mode to the port itself. *)
WriteThr ==
  /\ MayWrite("thr") /\ ~dlab
  /\ ops' = ops + 1
  /\ thr_pending' = 1
  /\ IF loop THEN StartPut("vcpu") ELSE Goto("vcpu", "update") /\ UNCHANGED <<over, nput, chr>>
  /\ UNCHANGED <<fifo, dr, ier, iir, loop, dlab, latch, irq, tmp, newIir, guest, got, keys, nget>>

WriteIer_NoUpdate(v, rest) ==
  /\ MayWrite("ier") /\ ~dlab
  /\ ops' = ops + 1
  /\ ier' = v
  /\ UNCHANGED <<fifo, dr, iir, thr_pending, loop, dlab, latch, irq, over,
                 pc, chr, tmp, newIir, guest, got, keys, nput, nget>>

(* Register 1: the IIR is brought up to date when one of the four enable   *)
(* bits changes; rest: one of the two that enable nothing here does.       *)
WriteIer(v, rest) ==
  /\ MayWrite("ier") /\ ~dlab
  /\ ops' = ops + 1
  /\ ier' = v
  /\ IF v # ier \/ rest THEN Goto("vcpu", "update") ELSE UNCHANGED pc
  /\ UNCHANGED <<fifo, dr, iir, thr_pending, loop, dlab, latch, irq, over,
                 chr, tmp, newIir, guest, got, keys, nput, nget>>

(* Registers 0 and 1 with the divisor latch open, and register 7. *)
WriteLatch(l, v) ==
  /\ MayWrite("latch") /\ (l \in {"dll", "dlm"} => dlab)
  /\ ops' = ops + 1
  /\ latch' = [latch EXCEPT ![l] = v]
  /\ UNCHANGED <<fifo, dr, ier, iir, thr_pending, loop, dlab, irq, over,
                 pc, chr, tmp, newIir, guest, got, keys, nput, nget>>

(* Registers 3 and 4. *)
WriteLcr(v) ==
  /\ MayWrite("lcr")
  /\ ops' = ops + 1
  /\ dlab' = v
  /\ UNCHANGED <<fifo, dr, ier, iir, thr_pending, loop, latch, irq, over,
                 pc, chr, tmp, newIir, guest, got, keys, nput, nget>>

WriteMcr(v) ==
  /\ MayWrite("mcr")
  /\ ops' = ops + 1
  /\ loop' = v
  /\ UNCHANGED <<fifo, dr, ier, iir, thr_pending, dlab, latch, irq, over,
                 pc, chr, tmp, newIir, guest, got, keys, nput, nget>>

Enables   == [rdi : BOOLEAN, thri : BOOLEAN]
Latches   == {"dll", "dlm", "scr"}
LatchVals == {0, 1}

WriteReg ==
  \/ WriteThr
  \/ \E v \in Enables, rest \in BOOLEAN : WriteIer(v, rest)
  \/ \E l \in Latches, v \in LatchVals : WriteLatch(l, v)
  \/ \E v \in BOOLEAN : WriteLcr(v)
  \/ \E v \in BOOLEAN : WriteMcr(v)

----------------------------------------------------------------------------
(* The initialiser of struct Serial; create_serial_dev starts the thread. *)
Init ==
  /\ data = [i \in 0 .. FifoLength - 1 |-> 0] /\ head = 0 /\ tail = 0 /\ count = 0
  /\ dr = FALSE /\ ier = [rdi |-> FALSE, thri |-> FALSE] /\ iir = "NO_INT"
  /\ thr_pending = 0 /\ loop = FALSE /\ dlab = FALSE
  /\ latch = [l \in Latches |-> 0]
  /\ irq = FALSE /\ over = FALSE
  /\ pc = [t \in Threads |-> "out"]
  /\ chr = [t \in Threads |-> 0] /\ tmp = [t \in Threads |-> 0]
  /\ newIir = [t \in Threads |-> "NO_INT"]
  /\ guest = "run" /\ got = <<>>
  /\ keys = 0 /\ ops = 0 /\ nput = 0 /\ nget = 0

StdinStep == Put("stdin") \/ Update("stdin")
VcpuStep  == Put("vcpu") \/ Update("vcpu") \/ TakeIrq \/ ReadReg

Next == Receive \/ StdinStep \/ VcpuStep \/ WriteReg

Spec == Init /\ [][Next]_vars

(* A handler a thread is in goes on, and the guest takes its interrupts    *)
(* and lets its handler run; nobody need type, and the guest need not      *)
(* write a register.                                                       *)
FairSpec == Spec /\ WF_vars(StdinStep) /\ WF_vars(VcpuStep)

----------------------------------------------------------------------------
(* Properties.                                                             *)

(* The type of every variable, but for the bound on head (InFifo).         *)
TypeOK ==
  /\ data \in [0 .. FifoLength - 1 -> Nat]
  /\ head \in Nat /\ tail \in 0 .. FifoLength - 1
  /\ count \in 0 .. CountWrap - 1
  /\ dr \in BOOLEAN /\ ier \in Enables /\ iir \in {"NO_INT", "RDI", "THRI"}
  /\ thr_pending \in {0, 1} /\ loop \in BOOLEAN /\ dlab \in BOOLEAN
  /\ latch \in [Latches -> LatchVals] /\ irq \in BOOLEAN /\ over \in BOOLEAN
  /\ guest \in {"run", "handler", "poll", "rbr"}
  /\ got \in Seq(Int) /\ keys \in Nat /\ ops \in Nat /\ nput \in Nat /\ nget \in Nat

Quiet == \A t \in Threads : pc[t] = "out"

(* Bytes put and not yet taken out. *)
Fill == nput - nget

(* If no overflow is reported and the guest enables the interrupt in the   *)
(* end, it reads every byte that came in: none stays behind in the FIFO    *)
(* until another key is pressed.                                           *)
Received ==
  [](~over) /\ <>[](ier.rdi /\ ~dlab) =>
    \A i \in 1 .. MaxKeys : nput >= i ~> Len(got) >= i
=============================================================================
