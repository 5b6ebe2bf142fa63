------------------------------ MODULE BlkQueue ------------------------------
(***************************************************************************)
(* What a virtio block device promises its driver, stated without rings,  *)
(* locks or cores.  The driver submits requests (a head descriptor and a   *)
(* sector).  The device completes them one at a time, in submission order, *)
(* and each completion carries its result: success when the addressed      *)
(* block lies inside the disk image, an I/O error otherwise.  The driver   *)
(* consumes all completed requests at once.  A completion becomes visible  *)
(* to the driver together with its result, never before it.               *)
(*                                                                         *)
(* Virtq refines this module: see Virtq!ImplementsBlkQueue.                *)
(***************************************************************************)
EXTENDS Naturals, Sequences

CONSTANTS
  Heads,      \* the descriptors that can head a request
  Sectors,    \* the sectors a request can address
  MaxReqs,    \* bound on the requests submitted
  FSIMG_SIZE, \* disk image size in blocks
  BLOCK_SIZE  \* bytes per block

VARIABLES
  reqs,  \* the requests in submission order: [head, sector]
  done,  \* how many of them the device has completed
  seen,  \* how many of them the driver has consumed
  out    \* the completed, unconsumed requests: [head, st], oldest first

qvars == <<reqs, done, seen, out>>

\* The result of a request: the addressed block is inside the image.
Result(s) == IF s \div (BLOCK_SIZE \div 512) < FSIMG_SIZE THEN "ok" ELSE "ee"

QInit ==
  /\ reqs = <<>> /\ done = 0 /\ seen = 0 /\ out = <<>>

Submit(h, s) ==
  /\ Len(reqs) < MaxReqs
  /\ reqs' = Append(reqs, [head |-> h, sector |-> s])
  /\ UNCHANGED <<done, seen, out>>

Complete ==
  /\ done < Len(reqs)
  /\ out' = Append(out, [head |-> reqs[done + 1].head,
                         st |-> Result(reqs[done + 1].sector)])
  /\ done' = done + 1
  /\ UNCHANGED <<reqs, seen>>

Consume ==
  /\ seen < done
  /\ seen' = done
  /\ out' = <<>>
  /\ UNCHANGED <<reqs, done>>

QNext ==
  \/ \E h \in Heads, s \in Sectors : Submit(h, s)
  \/ Complete
  \/ Consume

\* Every submitted request is eventually completed and consumed.
QSpec == QInit /\ [][QNext]_qvars /\ WF_qvars(Complete) /\ WF_qvars(Consume)

====
