------------------------------ MODULE MCVmBuild ------------------------------
(* Images for VmBuild: every split of up to three guest pages into file-   *)
(* backed, zero-filled image and plain RAM pages.                          *)
EXTENDS VmBuild

MCLayouts == {l \in [file : 0..3, mem : 0..3, ram : 1..3] :
                l.file <= l.mem /\ l.mem <= l.ram}
====
