------------------------------ MODULE MCVGicLR ------------------------------
(* Model-checking instance of VGicLR: two cores, up to four SPIs.  INTID 33 is  *)
(* the level-sensitive UART interrupt, 48 the virtio-blk interrupt.       *)
EXTENDS VGicLR

MCSpurious == 1023

\* 33, 48 and 50 go to CPU 0 (the boot-time routing of init_gicd_v3),
\* 49 is routed to CPU 1.
MCTarget == [q \in IRQs |-> IF q = 49 THEN 1 ELSE 0]

=============================================================================
