-------------------------------- MODULE VIrq --------------------------------
(***************************************************************************)
(* What virtual-interrupt delivery promises a guest, stated without list  *)
(* registers, traps or cores.  Each interrupt has a source line (src) and *)
(* a service state (svc):                                                  *)
(*   "none"       no activation of it is outstanding;                      *)
(*   "queued"     it was taken and is pending at the guest's CPU;          *)
(*   "inservice"  the guest acknowledged it and has not completed it;      *)
(*   "lost"       it was taken but could not be queued; it stays taken.    *)
(* Taking an interrupt consumes the asserted source.  An interrupt is      *)
(* taken again only after the guest completed the previous activation, and *)
(* a source asserted during the service is kept for the next one.         *)
(*                                                                         *)
(* VGicLR refines this module: see VGicLR!ImplementsVIrq.                  *)
(***************************************************************************)
CONSTANTS
  IRQs,       \* the interrupts devices can raise
  LevelIRQs   \* the level-sensitive ones: their source may deassert

VARIABLES
  src,  \* the source of each interrupt is asserted
  svc   \* the service state of each interrupt

ivars == <<src, svc>>

IInit ==
  /\ src = [q \in IRQs |-> FALSE]
  /\ svc = [q \in IRQs |-> "none"]

Assert(q) ==
  /\ ~src[q]
  /\ src' = [src EXCEPT ![q] = TRUE]
  /\ UNCHANGED svc

Deassert(q) ==
  /\ q \in LevelIRQs
  /\ src[q]
  /\ src' = [src EXCEPT ![q] = FALSE]
  /\ UNCHANGED svc

\* The interrupt is taken: queued for the guest, or dropped for good.
Take(q) ==
  /\ src[q]
  /\ svc[q] = "none"
  /\ src' = [src EXCEPT ![q] = FALSE]
  /\ svc' \in {[svc EXCEPT ![q] = "queued"], [svc EXCEPT ![q] = "lost"]}

Ack(q) ==
  /\ svc[q] = "queued"
  /\ svc' = [svc EXCEPT ![q] = "inservice"]
  /\ UNCHANGED src

Complete(q) ==
  /\ svc[q] = "inservice"
  /\ svc' = [svc EXCEPT ![q] = "none"]
  /\ UNCHANGED src

INext ==
  \E q \in IRQs :
    Assert(q) \/ Deassert(q) \/ Take(q) \/ Ack(q) \/ Complete(q)

ISpec == IInit /\ [][INext]_ivars

====
