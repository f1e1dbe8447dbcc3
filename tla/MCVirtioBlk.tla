---------------------------- MODULE MCVirtioBlk ----------------------------
(* Constants for model checking VirtioBlk. *)
EXTENDS VirtioBlkDelivery

BadSector == 9

Req(t, s, v) == [type |-> t, sector |-> s, val |-> v]

(* Reads and writes of one sector, a write beyond the image and an         *)
(* unsupported request without data.                                       *)
MCRequests == {Req("IN", 1, "a"), Req("OUT", 1, "a"), Req("OUT", BadSector, "b"),
               Req("FLUSH", 0, "a")}

(* Reads and writes only. *)
MCReadWrite == {Req("IN", 1, "a"), Req("OUT", 1, "a")}

(* One request for each length of chain. *)
MCShapes == {Req("IN", 1, "a"), Req("FLUSH", 0, "a")}

(* With the unsupported request that carries data. *)
MCGetId == {Req("IN", 1, "a"), Req("GET_ID", 0, "a")}
=============================================================================
