------------------------------ MODULE VGicDist ------------------------------
(***************************************************************************)
(* The emulated GIC distributor and redistributor register windows of one  *)
(* VM (vgicd_mmio_read/write and vgicr_mmio_read/write in src/src/vgic.c)  *)
(* and the physical GIC calls they make (gic_irq_enable, gic_irq_disable,  *)
(* gic_set_target_by_pe_field, gic_set_target_by_affinity in gic_v3.c).    *)
(*                                                                         *)
(* vCPU c runs on physical CPU c, so cpuid() in a handler is the vCPU that *)
(* trapped.  A guest access is one step: the GICD enable and target        *)
(* windows run under g_vgic_lock; the GICR windows take no lock, but each  *)
(* of their loops sets or clears one bit per interrupt and the hardware    *)
(* enable is write-1-to-set, so any interleaving of two such loops ends in *)
(* a state some order of the whole handlers also reaches.                 *)
(*                                                                         *)
(* An enable register value is the set of interrupt ids whose bit is 1;    *)
(* register 0 of GICD_ISENABLER/ICENABLER and GICR_ISENABLER0/ICENABLER0   *)
(* cover the private ids (SGIs, PPIs), the others cover SPIs.              *)
(***************************************************************************)
EXTENDS Integers, FiniteSets, FiniteSetsExt

CONSTANTS
  CPUs,        \* vCPU ids = physical CPU ids (vm->nvcpu of them)
  Privs,       \* modelled PPI ids (16..31), banked per CPU
  Spis,        \* modelled SPI ids (>= 32)
  Targets,     \* ITARGETSR byte / IROUTER affinity values a guest writes
  CrossGicr    \* TRUE: a guest may program another vCPU's GICR frame

\* SGIs are left out: new_vgic_cpu marks them enabled while the reset value
\* of their hardware enables is IMPLEMENTATION DEFINED.
ASSUME Privs \subseteq 16..31 /\ Spis \subseteq 32..1019
ASSUME CrossGicr \in BOOLEAN

VARIABLES
  spi_en,      \* vm->vgic->spis[q - 32].enabled
  priv_en,     \* vcpu->vgic->sgis/ppis[i].enabled of each vCPU
  spi_target,  \* vm->vgic->spis[q - 32].target
  grp1ns,      \* vm->vgic->enable_grp1ns
  hw_spi_en,   \* physical GICD_ISENABLER<n> bits of the modelled SPIs
  hw_priv_en,  \* physical GICR_ISENABLER0 bits of each redistributor
  hw_itargets, \* physical GICD_ITARGETSR byte of each SPI
  hw_irouter,  \* physical GICD_IROUTER of each SPI
  xreg,        \* the guest register each vCPU last loaded from the vGIC
  halted       \* the CPUs whose handler called panic() (it does not return)

vars == <<spi_en, priv_en, spi_target, grp1ns, hw_spi_en, hw_priv_en,
          hw_itargets, hw_irouter, xreg, halted>>

Ids == Privs \cup Spis

\* The value a read leaves in the guest register: the G1NS bit of
\* GICD_CTLR, or the ids whose bit is 1 in an enable window.
XVal == [kind : {"none", "ctlr", "enable"}, g1ns : BOOLEAN, ids : SUBSET Ids]
NoRead == [kind |-> "none", g1ns |-> FALSE, ids |-> {}]

TypeOK ==
  /\ spi_en \in [Spis -> BOOLEAN]
  /\ priv_en \in [CPUs -> [Privs -> BOOLEAN]]
  /\ spi_target \in [Spis -> Targets \cup {0}]
  /\ grp1ns \in BOOLEAN
  /\ hw_spi_en \subseteq Spis
  /\ hw_priv_en \in [CPUs -> SUBSET Privs]
  /\ hw_itargets \in [Spis -> Targets \cup {0}]
  /\ hw_irouter \in [Spis -> Targets \cup {0}]
  /\ xreg \in [CPUs -> XVal]
  /\ halted \subseteq CPUs

(***************************************************************************)
(* The physical GIC driver (gic_v3.c).                                     *)
(***************************************************************************)

\* A write of val to a write-1-to-set enable register (GICD_ISENABLER<n>,
\* GICR_ISENABLER0): bits written as 1 are enabled, 0 bits have no effect.
Isenabler(bits, val) == bits \cup val

\* Mutant: the enable writes back the value it read, without q's bit.
GicIrqEnableNoBit(bits, q) == Isenabler(bits, bits)

\* gic_irq_enable(q): read ISENABLER, OR in q's bit, write ISENABLER.
GicIrqEnable(bits, q) == Isenabler(bits, bits \cup {q})

\* gic_irq_disable(q): read ISENABLER, clear q's bit, write the result back
\* to the same write-1-to-set register.
GicIrqDisable(bits, q) == Isenabler(bits, bits \ {q})

\* The loops of the enable windows: vgic_irq_enable / vgic_irq_disable of
\* every id in val, each a read-modify-write of the same register.
EnableAll(bits, val) == FoldSet(LAMBDA q, acc : GicIrqEnable(acc, q), bits, val)
DisableAll(bits, val) == FoldSet(LAMBDA q, acc : GicIrqDisable(acc, q), bits, val)

(***************************************************************************)
(* Handlers.  Each is the whole case of vgicd_mmio_* / vgicr_mmio_* for    *)
(* one register, taken by vCPU c.                                          *)
(***************************************************************************)

\* GICD_CTLR write: only the software group-1 enable changes.
GicdCtlrWrite(c, g) ==
  /\ grp1ns' = g
  /\ UNCHANGED <<spi_en, priv_en, spi_target, hw_spi_en, hw_priv_en,
                 hw_itargets, hw_irouter, xreg, halted>>

\* GICD_CTLR read: G1NS from the software state, then ARE_NS and G1NS are
\* ORed in unconditionally.
GicdCtlrRead(c) ==
  /\ xreg' = [xreg EXCEPT ![c] = [kind |-> "ctlr", g1ns |-> grp1ns \/ TRUE, ids |-> {}]]
  /\ UNCHANGED <<spi_en, priv_en, spi_target, grp1ns, hw_spi_en, hw_priv_en,
                 hw_itargets, hw_irouter, halted>>

\* The software enable of every id of an enable window as seen by vCPU v.
EnabledIds(v) == {q \in Spis : spi_en[q]} \cup {i \in Privs : priv_en[v][i]}

\* GICD_ISENABLER<n> / GICD_ICENABLER<n> read: one bit per enabled id of
\* the window (the caller's own SGIs/PPIs for n = 0).
GicdEnableRead(c, window) ==
  /\ xreg' = [xreg EXCEPT ![c] = [kind |-> "enable", g1ns |-> FALSE,
                                               ids |-> EnabledIds(c) \cap window]]
  /\ UNCHANGED <<spi_en, priv_en, spi_target, grp1ns, hw_spi_en, hw_priv_en,
                 hw_itargets, hw_irouter, halted>>

\* Set, or clear, the software enable of the ids in val as seen by vCPU v.
SetEnabled(v, val, b) ==
  /\ spi_en' = [q \in Spis |-> IF q \in val THEN b ELSE spi_en[q]]
  /\ priv_en' = [priv_en EXCEPT ![v] =
                   [i \in Privs |-> IF i \in val THEN b ELSE @[i]]]

\* Mutant: the distributor/redistributor split taken at the first PPI.
GicBaseTypeAtPpi(q) == IF q < 16 THEN "gicr" ELSE "gicd"

\* gic_base_type: ids below GIC_SPI0_INTNO are banked in the redistributor.
GicBaseType(q) == IF q < 32 THEN "gicr" ELSE "gicd"

\* The ids of val whose enable register is GICD, and GICR.
GicdIds(val) == {q \in val : GicBaseType(q) = "gicd"}
GicrIds(val) == {q \in val : GicBaseType(q) = "gicr"}

\* vgic_irq_enable of every id in val on CPU c: an SPI in the distributor,
\* an SGI or PPI in cpuid()'s own redistributor.
HwEnable(c, val) ==
  /\ hw_spi_en' = EnableAll(hw_spi_en, GicdIds(val))
  /\ hw_priv_en' = [hw_priv_en EXCEPT ![c] = EnableAll(@, GicrIds(val))]

\* vgic_irq_disable of every id in val on CPU c.
HwDisable(c, val) ==
  /\ hw_spi_en' = DisableAll(hw_spi_en, GicdIds(val))
  /\ hw_priv_en' = [hw_priv_en EXCEPT ![c] = DisableAll(@, GicrIds(val))]

\* GICD_ISENABLER<n> write: each id whose bit is 1 is enabled in the vGIC
\* record (the caller's own for n = 0) and in hardware.
GicdIsenablerWrite(c, val) ==
  /\ SetEnabled(c, val, TRUE)
  /\ HwEnable(c, val)
  /\ UNCHANGED <<spi_target, grp1ns, hw_itargets, hw_irouter, xreg, halted>>

\* GICD_ICENABLER<n> write: each id whose bit is 1 is disabled in the vGIC
\* record and gic_irq_disable is called for it.
GicdIcenablerWrite(c, val) ==
  /\ SetEnabled(c, val, FALSE)
  /\ HwDisable(c, val)
  /\ UNCHANGED <<spi_target, grp1ns, hw_itargets, hw_irouter, xreg, halted>>

\* gic_set_target_by_pe_field(q, t): if q is enabled, disable it, rewrite
\* q's byte of GICD_ITARGETSR, and enable it again.
SetTargetByPeField(q, t) ==
  LET was == q \in hw_spi_en IN
  /\ hw_itargets' = [hw_itargets EXCEPT ![q] = t]
  /\ hw_spi_en' = IF was THEN GicIrqEnable(GicIrqDisable(hw_spi_en, q), q)
                  ELSE hw_spi_en

\* GICD_ITARGETSR<n> write of byte t for id q (each modelled SPI stands
\* for its own register): an SPI's record and hardware byte are set; for
\* a PPI the handler panics.
GicdItargetsrWrite(c, q, t) ==
  /\ IF q \in Spis
     THEN /\ spi_target' = [spi_target EXCEPT ![q] = t]
          /\ SetTargetByPeField(q, t)
          /\ UNCHANGED halted
     ELSE /\ halted' = halted \cup {c}
          /\ UNCHANGED <<spi_target, hw_spi_en, hw_itargets>>
  /\ UNCHANGED <<spi_en, priv_en, grp1ns, hw_priv_en, hw_irouter, xreg>>

\* gic_set_target_by_affinity(q, aff): as above, on GICD_IROUTER<q>.
\* GICD_IROUTER<n> writes (vgic.c 346-350) call it directly, without
\* g_vgic_lock and without updating the record.
GicdIrouterWrite(c, q, t) ==
  LET was == q \in hw_spi_en IN
  /\ hw_irouter' = [hw_irouter EXCEPT ![q] = t]
  /\ hw_spi_en' = IF was THEN GicIrqEnable(GicIrqDisable(hw_spi_en, q), q)
                  ELSE hw_spi_en
  /\ UNCHANGED <<spi_en, priv_en, spi_target, grp1ns, hw_priv_en,
                 hw_itargets, xreg, halted>>

\* GICR frame gicr_idx seen from vCPU c: out of range is an error return,
\* otherwise the handler continues with vcpu = vm->vcpus[gicr_idx].
GicrFrames(c) == IF CrossGicr THEN CPUs ELSE {c}

\* GICR_ISENABLER0 / GICR_ICENABLER0 read of frame r.
GicrEnableRead(c, r) ==
  /\ xreg' = [xreg EXCEPT ![c] = [kind |-> "enable", g1ns |-> FALSE,
                                               ids |-> EnabledIds(r) \cap Privs]]
  /\ UNCHANGED <<spi_en, priv_en, spi_target, grp1ns, hw_spi_en, hw_priv_en,
                 hw_itargets, hw_irouter, halted>>

\* GICR_ISENABLER0 write to frame r: vCPU r's records are set, and
\* vgic_irq_enable runs on the calling CPU c.
GicrIsenablerWrite(c, r, val) ==
  /\ SetEnabled(r, val, TRUE)
  /\ HwEnable(c, val)
  /\ UNCHANGED <<spi_target, grp1ns, hw_itargets, hw_irouter, xreg, halted>>

\* GICR_ICENABLER0 write to frame r.
GicrIcenablerWrite(c, r, val) ==
  /\ SetEnabled(r, val, FALSE)
  /\ HwDisable(c, val)
  /\ UNCHANGED <<spi_target, grp1ns, hw_itargets, hw_irouter, xreg, halted>>

(***************************************************************************)
(* Specification.  new_vgic_cpu marks every PPI disabled and init_gicc_v3  *)
(* disables PPIs 16-31 in the redistributor; init_gicd_v3 disables every   *)
(* SPI and routes it to affinity 0, and the SPI records new_vgic gets from *)
(* alloc_page are zero (pages of a fresh boot).  Before create_vm,        *)
(* vmm_init_primary has enabled the UART's SPI in hardware, while the      *)
(* guest's record of it says disabled.                                     *)
(***************************************************************************)

UART_IRQ == 33

\* enable_uart_irq_el2: gic_set_target_by_affinity(UART_IRQ, 0), which
\* leaves IROUTER at its reset affinity 0, then gic_irq_enable(UART_IRQ).
BootEnabledSpis == {UART_IRQ} \cap Spis

Init ==
  /\ spi_en = [q \in Spis |-> FALSE]
  /\ priv_en = [c \in CPUs |-> [i \in Privs |-> FALSE]]
  /\ spi_target = [q \in Spis |-> 0]
  /\ grp1ns = FALSE
  /\ hw_spi_en = BootEnabledSpis
  /\ hw_priv_en = [c \in CPUs |-> {}]
  /\ hw_itargets = [q \in Spis |-> 0]
  /\ hw_irouter = [q \in Spis |-> 0]
  /\ xreg = [c \in CPUs |-> NoRead]
  /\ halted = {}

\* The windows a read can name, and the values a write can carry: a
\* non-empty set of PPIs (register 0) or of SPIs.
Windows == {Privs, Spis}
WriteVals == {v \in (SUBSET Privs) \cup (SUBSET Spis) : v # {}}

Next ==
  \E c \in CPUs \ halted :
     \/ \E g \in BOOLEAN : GicdCtlrWrite(c, g)
     \/ GicdCtlrRead(c)
     \/ \E w \in Windows : GicdEnableRead(c, w)
     \/ \E v \in WriteVals : GicdIsenablerWrite(c, v) \/ GicdIcenablerWrite(c, v)
     \/ \E q \in Ids, t \in Targets : GicdItargetsrWrite(c, q, t)
     \/ \E q \in Spis, t \in Targets : GicdIrouterWrite(c, q, t)
     \/ \E r \in GicrFrames(c) :
          \/ GicrEnableRead(c, r)
          \/ \E v \in SUBSET Privs \ {{}} :
               GicrIsenablerWrite(c, r, v) \/ GicrIcenablerWrite(c, r, v)

Spec == Init /\ [][Next]_vars

(***************************************************************************)
(* Properties.                                                             *)
(***************************************************************************)

\* An interrupt the guest has enabled through the distributor or a
\* redistributor is enabled in the physical GIC: an SPI in GICD, an SGI or
\* PPI of vCPU v in the redistributor of the CPU v runs on.
EnabledIsForwarded ==
  /\ \A q \in Spis : spi_en[q] => q \in hw_spi_en
  /\ \A v \in CPUs, i \in Privs : priv_en[v][i] => i \in hw_priv_en[v]

\* The spec (4.6): "VM enable state always mirrors physical enable state —
\* no interrupt is left enabled in hardware that the guest has disabled".
DisabledIsMasked ==
  /\ \A q \in Spis : ~spi_en[q] => q \notin hw_spi_en
  /\ \A v \in CPUs, i \in Privs : ~priv_en[v][i] => i \notin hw_priv_en[v]
====
