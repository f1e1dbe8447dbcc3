------------------------------ MODULE BlkDevice ------------------------------
(***************************************************************************)
(* What a virtio block device promises its driver, with no ring, no        *)
(* threads and no notifications: requests are accepted in an order, and    *)
(* served one at a time, each exactly once, in that order.  Serving a      *)
(* request transfers its sector and fixes its answer in one step.          *)
(*                                                                         *)
(* VirtioBlk.tla is shown to implement this specification.                 *)
(***************************************************************************)
EXTENDS Naturals, Sequences

CONSTANTS Requests,   \* the requests a driver may make: records type, sector, val
          Sectors,    \* the sectors of the disk image
          HostIO,     \* the outcomes of a host read or write: "done", "short", "error"
          Blank       \* content of a sector or a buffer nobody has written

VARIABLES accepted,   \* the requests made so far, in order
          answers,    \* the answers of the first Len(answers) of them
          disk        \* the content of every sector

absVars == <<accepted, answers, disk>>

(* The status a request gets, when the host I/O it needs ends with io.     *)
AnswerStatus(q, io) ==
  IF q.type \notin {"IN", "OUT"} THEN "UNSUPP"
  ELSE IF q.sector \in Sectors /\ io = "done" THEN "OK" ELSE "IOERR"

Submit(q) ==
  /\ accepted' = Append(accepted, q)
  /\ UNCHANGED <<answers, disk>>

Serve(io) ==
  /\ Len(answers) < Len(accepted)
  /\ LET q  == accepted[Len(answers) + 1]
         st == AnswerStatus(q, io)
     IN  /\ answers' = Append(answers,
              [status |-> st,
               data   |-> IF q.type = "IN" THEN IF st = "OK" THEN disk[q.sector] ELSE Blank
                          ELSE q.val])
         /\ disk' = IF q.type = "OUT" /\ st = "OK"
                    THEN [disk EXCEPT ![q.sector] = q.val] ELSE disk
  /\ UNCHANGED accepted

AbsInit ==
  /\ accepted = <<>>
  /\ answers = <<>>
  /\ disk = [s \in Sectors |-> Blank]

AbsNext == (\E q \in Requests : Submit(q)) \/ (\E io \in HostIO : Serve(io))

AbsSafety == AbsInit /\ [][AbsNext]_absVars

(* A device does not stop serving while requests are waiting.              *)
AbsSpec == AbsSafety /\ WF_absVars(\E io \in HostIO : Serve(io))
==============================================================================
