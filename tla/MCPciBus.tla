------------------------------ MODULE MCPciBus ------------------------------
(* Constants for model checking PciBus. *)
EXTENDS PciBus

(* The first BAR of each device is used, as on the virtio devices of       *)
(* microv; the others have size 0.                                         *)
MCOneBar == [r \in Devs \X (0 .. NumBars - 1) |-> IF r[2] = 0 THEN 2 ELSE 0]

(* Two BARs of different sizes and an unused one. *)
MCBars == [r \in Devs \X (0 .. NumBars - 1) |-> <<2, 4, 0>>[r[2] + 1]]
=============================================================================
