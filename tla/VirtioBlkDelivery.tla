-------------------------- MODULE VirtioBlkDelivery --------------------------
(***************************************************************************)
(* The interrupts of VirtioBlk.  virtio_pci_iospace_read copies the ISR    *)
(* register to the guest and then stores 0 in it, while the device thread  *)
(* may store 1 in between: that 1 is lost.  The history variable wiped     *)
(* records that it has happened.  It is the only way to lose an interrupt: *)
(* everything else the two threads may overtake each other in is harmless, *)
(* with any number of requests in flight.                                  *)
(***************************************************************************)
EXTENDS VirtioBlk

VARIABLE wiped

(* The store of 0 hits a value the guest is not given. *)
IsrWiped == IsrClear /\ isr # isrRead

DeliveryInit == Init /\ wiped = FALSE

DeliveryNext == Next /\ wiped' = (wiped \/ IsrWiped)

DeliverySpec == DeliveryInit /\ [][DeliveryNext]_<<vars, wiped>>

FairDeliverySpec == DeliverySpec /\ WF_vars(GuestStep) /\ WF_vars(DeviceStep)

----------------------------------------------------------------------------
(* Properties.                                                             *)

(* No lost interrupt: when a request is completed, the device thread waits *)
(* and the driver is outside its interrupt handler, the interrupt is       *)
(* pending and the ISR will say so.  virtio_blk_handle_output leaves out   *)
(* the ISR store and the irqfd write when it finds events turned off,      *)
(* but the driver looks at the ring once more after turning them on; and   *)
(* one read of the ISR may stand for two interrupts.                       *)
NoLostInterrupt ==
  ~wiped => (IsUsed(drvUsed) /\ gpc = "run" /\ dpc = "idle" => irq /\ isr = 1)

(* Every request is in the end reaped by the driver, unless a store to the *)
(* ISR is wiped: there is no other way in which the device's event check,  *)
(* ISR store and irqfd write and the guest's ISR read, reaping and         *)
(* enabling of events leave a completed request behind.                    *)
DeliveredUnlessWiped == \A i \in Ids : nreq >= i ~> (nreap >= i \/ wiped)

(* The inductive invariant behind NoLostInterrupt: where the notice of the *)
(* oldest completed request can be.                                        *)
Noticed ==
  \/ dpc \in {"get", "data", "status", "used", "len", "event", "isr"}
  \/ isr = 1 /\ (irq \/ dpc = "irqfd")
  \/ gpc = "isr" /\ isrRead = 1
  \/ gpc \in {"more", "reap", "recheck"}

DeliveryInv ==
  /\ cb <=> gpc # "reap"
  /\ ~wiped /\ IsUsed(drvUsed) => Noticed
==============================================================================
