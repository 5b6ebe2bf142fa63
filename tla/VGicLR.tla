------------------------------- MODULE VGicLR -------------------------------
(***************************************************************************)
(* Virtual-interrupt delivery through the GICv3 hardware list registers.  *)
(*                                                                         *)
(* Every physical CPU runs exactly one vCPU (hard affinity pin in          *)
(* switch_to_vcpu), so "CPU" below is both the physical core and its       *)
(* vCPU.  A physical interrupt routed to a CPU that is running its guest   *)
(* traps to EL2 and is handled by lower_el_irq_handler (src/src/trap.c):   *)
(*   vgic_used_lr_update  reclaim list registers that became inactive,     *)
(*   gic_read_iar         acknowledge (pending -> active),                 *)
(*   gic_guest_eoi        priority drop only, no deactivation (EOImode=1), *)
(*   vgic_inject_virq     allocate a free LR and write a pending,          *)
(*                        hardware-backed LR with pINTID = vINTID = irq.   *)
(* The guest later acknowledges the virtual interrupt (LR pending ->       *)
(* active) and EOIs it (LR active -> inactive); because the LR has the HW  *)
(* bit, that EOI also deactivates the physical interrupt.                  *)
(*                                                                         *)
(* A guest WFI traps (HCR_EL2.TWI) to wfx_emulate_handler, which polls     *)
(* gic_has_pending_lr until an LR of its core is pending or its deadline   *)
(* passes, then returns to the guest.                                      *)
(*                                                                         *)
(* The handler runs with interrupts masked on its own core and the guest   *)
(* of that core is not running meanwhile, so its body is one step.  Trap  *)
(* entry is a separate step: the physical GIC state may change between     *)
(* the signal that caused the trap and the read of ICC_IAR1_EL1.           *)
(***************************************************************************)
EXTENDS Integers, FiniteSets

CONSTANTS
  CPUs,       \* physical CPUs = vCPU ids (vcpus[i] runs on pcpu i)
  IRQs,       \* physical interrupt ids (SPIs) that devices can raise
  LevelIRQs,  \* the level-sensitive ones: their source may deassert
  Target,     \* routing of each SPI (GICD_IROUTER): IRQs -> CPUs
  NLR,        \* g_gic_lr_max, number of implemented list registers
  Spurious,   \* INTID returned by ICC_IAR1_EL1 when nothing is pending
  WfiPolls    \* poll iterations before WFI_POLL_TIMEOUT_NS has passed

ASSUME LevelIRQs \subseteq IRQs
ASSUME Target \in [IRQs -> CPUs]
ASSUME NLR \in 1..16
ASSUME Spurious \notin IRQs
ASSUME WfiPolls \in 1..8

VARIABLES
  pstate,   \* physical GIC state of each interrupt
  lr,       \* ICH_LR<n>_EL2 of each CPU: [state, intid]
  used_lr,  \* vgic_cpu->used_lr of each vCPU, as a set of LR indices
  hyp,      \* "guest": vCPU running; "irq": trapped on an IRQ, handler not
            \* run; "wfi": in wfx_emulate_handler's poll loop
  poll      \* the poll iterations the WFI handler of each core has done

vars == <<pstate, lr, used_lr, hyp, poll>>

LRIdx == 0..(NLR - 1)
Intids == IRQs \cup {Spurious}

\* LR and physical states (ICH_LR_STATE / distributor state).
Inactive == "inactive"
Pending  == "pending"
Active   == "active"
PendAct  == "pendact"
States == {Inactive, Pending, Active, PendAct}

NoLR == [state |-> Inactive, intid |-> Spurious]

TypeOK ==
  /\ pstate \in [IRQs -> States]
  /\ lr \in [CPUs -> [LRIdx -> [state : States, intid : Intids]]]
  /\ used_lr \in [CPUs -> SUBSET LRIdx]
  /\ hyp \in [CPUs -> {"guest", "irq", "wfi"}]
  /\ poll \in [CPUs -> 0..WfiPolls]

\* An LR whose hardware state is not inactive (lr_is_inactive is false).
Live(c) == {i \in LRIdx : lr[c][i].state # Inactive}

\* Interrupts the distributor forwards to CPU c: pending, routed to c.
Signalled(c) == {q \in IRQs : Target[q] = c /\ pstate[q] = Pending}

(***************************************************************************)
(* Helpers translated from the code.                                       *)
(***************************************************************************)

\* gic_read_lr(n): ICH_LR<n>_EL2 of the core that runs it.
ReadLr(c, n) == lr[c][n]

\* gic_write_lr(n, val): ICH_LR<n>_EL2 of the core that runs it.
WriteLr(c, n, val) == [lr EXCEPT ![c][n] = val]

\* Mutant: reclaim every used bit without reading the LR state.
UsedLrUpdateNoCheck(c) == {}

\* vgic_used_lr_update: keep a used bit only while its LR is not inactive.
UsedLrUpdate(c) == {i \in used_lr[c] : ReadLr(c, i).state # Inactive}

\* Mutant: the scan stops one register early (i < g_gic_lr_max - 1).
LrAllocShort(used) ==
  IF (LRIdx \ {NLR - 1}) \ used = {} THEN -1
  ELSE CHOOSE i \in (LRIdx \ {NLR - 1}) \ used :
         \A j \in (LRIdx \ {NLR - 1}) \ used : i <= j

\* Mutant: the scan runs one register too far (i <= g_gic_lr_max).
LrAllocPastEnd(used) ==
  IF (0..NLR) \ used = {} THEN -1
  ELSE CHOOSE i \in (0..NLR) \ used : \A j \in (0..NLR) \ used : i <= j

\* vgic_lr_alloc: the lowest index whose used bit is clear, or -1.
LrAlloc(used) ==
  IF LRIdx \ used = {} THEN -1
  ELSE CHOOSE i \in LRIdx \ used : \A j \in LRIdx \ used : i <= j

\* Mutant: gic_host_eoi (priority drop and deactivate) instead.
AckAndDeactivate(s) == Inactive

\* Physical state after gic_read_iar then gic_guest_eoi: the interrupt is
\* acknowledged and its priority dropped, but it stays active until the
\* guest's EOI of the hardware-backed LR deactivates it.
AckAndPriorityDrop(s) == Active

\* Deactivation of a physical interrupt (guest EOI of an HW LR).
Deactivate(s) == IF s = PendAct THEN Pending ELSE Inactive

(***************************************************************************)
(* Devices.                                                                *)
(***************************************************************************)

\* A device asserts an interrupt (edge, or level going high).
Raise(q) ==
  /\ pstate[q] \in {Inactive, Active}
  /\ pstate' = [pstate EXCEPT ![q] = IF @ = Inactive THEN Pending ELSE PendAct]
  /\ UNCHANGED <<lr, used_lr, hyp, poll>>

\* A level-sensitive source deasserts (e.g. the UART condition is cleared
\* by a guest accessing the pass-through UART page).
Withdraw(q) ==
  /\ q \in LevelIRQs
  /\ pstate[q] \in {Pending, PendAct}
  /\ pstate' = [pstate EXCEPT ![q] = IF @ = Pending THEN Inactive ELSE Active]
  /\ UNCHANGED <<lr, used_lr, hyp, poll>>

(***************************************************************************)
(* Hypervisor: IRQ exception from EL1 and lower_el_irq_handler.           *)
(***************************************************************************)

IrqTrap(c) ==
  /\ hyp[c] = "guest"
  /\ Signalled(c) # {}
  /\ hyp' = [hyp EXCEPT ![c] = "irq"]
  /\ UNCHANGED <<pstate, lr, used_lr, poll>>

\* gic_make_lr(pirq, virq, group): a pending, hardware-backed LR whose
\* virtual and physical INTID are both pirq.
MakeLr(pirq) == [state |-> Pending, intid |-> pirq]

\* vgic_inject_virq(vcpu, pirq, pirq, 1) with the used set after reclaim.
InjectVirq(c, used, pirq) ==
  LET n == LrAlloc(used) IN
  IF n = -1
  THEN /\ used_lr' = [used_lr EXCEPT ![c] = used]
       /\ lr' = lr
  ELSE /\ used_lr' = [used_lr EXCEPT ![c] = used \cup {n}]
       /\ lr' = WriteLr(c, n, MakeLr(pirq))

LowerElIrqHandler(c) ==
  /\ hyp[c] = "irq"
  /\ LET used == UsedLrUpdate(c) IN
     \/ \* gic_read_iar returns a pending interrupt routed here
        \E q \in Signalled(c) :
          /\ pstate' = [pstate EXCEPT ![q] = AckAndPriorityDrop(@)]
          /\ InjectVirq(c, used, q)
     \/ \* nothing pending any more: ICC_IAR1_EL1 reads the spurious INTID
        /\ Signalled(c) = {}
        /\ pstate' = pstate
        /\ InjectVirq(c, used, Spurious)
  /\ hyp' = [hyp EXCEPT ![c] = "guest"]
  /\ UNCHANGED poll

(***************************************************************************)
(* WFI emulation (trap.c wfx_emulate_handler).  end_time is the system     *)
(* time at entry plus WFI_POLL_TIMEOUT_NS; each iteration first asks       *)
(* gic_has_pending_lr, then reads the time again through count_to_time_ns. *)
(* Interrupts stay masked at EL2, so no LR of the core changes meanwhile   *)
(* and a newly pending physical interrupt is not taken until the return.  *)
(***************************************************************************)

\* gic_has_pending_lr: some LR of the core reads as pending (lr_is_pending).
GicHasPendingLr(c) == \E i \in LRIdx : ReadLr(c, i).state = Pending

\* Mutant: the time read never advances (count_to_time_ns with g_freq 0,
\* whose muldiv64 returns 0 for every count).
PollClockStuck(n) == n

\* cur_time after one more iteration: get_syscount() has moved on.
PollClock(n) == n + 1

\* The guest executes WFI; HCR_EL2.TWI traps it to EL2.
WfiTrap(c) ==
  /\ hyp[c] = "guest"
  /\ hyp' = [hyp EXCEPT ![c] = "wfi"]
  /\ UNCHANGED <<pstate, lr, used_lr, poll>>

\* One iteration of the do-while: break on a pending LR, else read the
\* time and loop while cur_time < end_time; on leaving, advance_pc and
\* return to the guest.
WfxEmulateHandler(c) ==
  /\ hyp[c] = "wfi"
  /\ IF GicHasPendingLr(c) \/ PollClock(poll[c]) >= WfiPolls
     THEN /\ hyp' = [hyp EXCEPT ![c] = "guest"]
          /\ poll' = [poll EXCEPT ![c] = 0]
     ELSE /\ poll' = [poll EXCEPT ![c] = PollClock(@)]
          /\ UNCHANGED hyp
  /\ UNCHANGED <<pstate, lr, used_lr>>

(***************************************************************************)
(* Guest software on the virtual CPU interface (ICV_* registers).  All     *)
(* LRs are written with priority 0, so a second virtual interrupt cannot   *)
(* be acknowledged while one is active.                                    *)
(***************************************************************************)

GuestAck(c, i) ==
  /\ hyp[c] = "guest"
  /\ lr[c][i].state = Pending
  /\ \A j \in LRIdx : lr[c][j].state \notin {Active, PendAct}
  /\ lr' = [lr EXCEPT ![c][i].state = Active]
  /\ UNCHANGED <<pstate, used_lr, hyp, poll>>

GuestEoi(c, i) ==
  /\ hyp[c] = "guest"
  /\ lr[c][i].state = Active
  /\ lr' = [lr EXCEPT ![c][i].state = Inactive]
  /\ pstate' = IF lr[c][i].intid \in IRQs
                 THEN [pstate EXCEPT ![lr[c][i].intid] = Deactivate(@)]
                 ELSE pstate
  /\ UNCHANGED <<used_lr, hyp, poll>>

(***************************************************************************)
(* Specification.  Initially every vCPU has just been entered:            *)
(* gic_restore_state wrote the zeroed snapshot into every LR and           *)
(* new_vgic_cpu cleared used_lr.                                           *)
(***************************************************************************)

Init ==
  /\ pstate = [q \in IRQs |-> Inactive]
  /\ lr = [c \in CPUs |-> [i \in LRIdx |-> NoLR]]
  /\ used_lr = [c \in CPUs |-> {}]
  /\ hyp = [c \in CPUs |-> "guest"]
  /\ poll = [c \in CPUs |-> 0]

Next ==
  \/ \E q \in IRQs : Raise(q) \/ Withdraw(q)
  \/ \E c \in CPUs : IrqTrap(c) \/ LowerElIrqHandler(c)
  \/ \E c \in CPUs : WfiTrap(c) \/ WfxEmulateHandler(c)
  \/ \E c \in CPUs, i \in LRIdx : GuestAck(c, i) \/ GuestEoi(c, i)

\* The GIC signals a pending interrupt until it is taken, and the PE takes
\* it at the first instruction boundary in the guest: the trap is only
\* enabled while the guest runs, which a guest in a WFI loop keeps
\* leaving, so it is strongly fair.  The IRQ and WFI handlers run to
\* completion, and the guest OS completes what it acknowledged.  All
\* LRs have the same priority and the choice among them is IMPLEMENTATION
\* DEFINED, so acknowledging a given LR is only intermittently enabled:
\* we assume the virtual CPU interface does not starve one (strong
\* fairness).  For the same reason the distributor's choice among pending
\* interrupts of equal priority is assumed not to starve one that stays
\* pending while others are raised again and again.  Devices are not fair.
Fairness ==
  /\ \A c \in CPUs : SF_vars(IrqTrap(c)) /\ WF_vars(LowerElIrqHandler(c))
  /\ \A q \in IRQs : SF_vars(LowerElIrqHandler(Target[q]) /\ pstate'[q] # pstate[q])
  /\ \A c \in CPUs : WF_vars(WfxEmulateHandler(c))
  /\ \A c \in CPUs, i \in LRIdx : SF_vars(GuestAck(c, i)) /\ SF_vars(GuestEoi(c, i))

Spec == Init /\ [][Next]_vars
FairSpec == Spec /\ Fairness

(***************************************************************************)
(* Properties.                                                             *)
(***************************************************************************)

\* vgic_lr_alloc only trusts the software bitmap kept by vgic_lr_alloc and
\* vgic_used_lr_update.  A list register holding a pending or active
\* interrupt the guest has not completed is never rewritten with another
\* interrupt; it only leaves that state through the guest's EOI.
LiveLrNeverOverwritten ==
  [][\A c \in CPUs, i \in LRIdx :
       lr[c][i].state # Inactive => lr'[c][i].intid = lr[c][i].intid]_lr

\* No two live list registers of a CPU carry the same physical interrupt
\* (architecturally UNPREDICTABLE).  This relies on lower_el_irq_handler
\* only dropping priority, so the interrupt cannot be taken again before
\* the guest's EOI of its LR deactivates it.
NoDuplicateHwIntid ==
  \A c \in CPUs : \A i, j \in Live(c) :
    (i # j /\ lr[c][i].intid \in IRQs) => lr[c][i].intid # lr[c][j].intid

\* The handler never presents the spurious INTID 1023 to the guest as a
\* hardware interrupt.
NoSpuriousInjection ==
  \A c \in CPUs, i \in LRIdx :
    lr[c][i].state # Inactive => lr[c][i].intid # Spurious

\* Every physical interrupt the hypervisor acknowledged is eventually
\* deactivated, so its source can interrupt again (the spec calls a failed
\* injection a drop "for this guest cycle" only).
AckedEventuallyDeactivated ==
  \A q \in IRQs : pstate[q] \in {Active, PendAct} ~> pstate[q] \in {Inactive, Pending}

\* Every pending edge interrupt is eventually acknowledged by the handler
\* of the CPU it is routed to, even when that CPU's guest sits in WFI: the
\* WFI handler polls with interrupts masked and only sees the LRs, so it
\* is its deadline, read through count_to_time_ns, that returns the core
\* to the guest where the interrupt can be taken.
PendingEventuallyTaken ==
  \A q \in IRQs \ LevelIRQs : pstate[q] = Pending ~> pstate[q] # Pending

(***************************************************************************)
(* Refinement of the abstract delivery promise (module VIrq).  The source *)
(* of an interrupt is asserted while the distributor holds it pending; its *)
(* service state is read from the live list register carrying it, and an  *)
(* interrupt active at the distributor without such a register was        *)
(* acknowledged but never injected.                                        *)
(***************************************************************************)

LiveLRsOf(q) ==
  {<<c, i>> \in CPUs \X LRIdx : lr[c][i].intid = q /\ lr[c][i].state # Inactive}

SrcOf(q) == pstate[q] \in {Pending, PendAct}

SvcOf(q) ==
  IF LiveLRsOf(q) # {}
  THEN LET ci == CHOOSE ci \in LiveLRsOf(q) : TRUE IN
       IF lr[ci[1]][ci[2]].state = Pending THEN "queued" ELSE "inservice"
  ELSE IF pstate[q] \in {Active, PendAct} THEN "lost" ELSE "none"

Abs == INSTANCE VIrq WITH src <- [q \in IRQs |-> SrcOf(q)],
                          svc <- [q \in IRQs |-> SvcOf(q)]

\* The list-register machinery implements the abstract promise: an
\* interrupt is taken only when no activation of it is outstanding, the
\* guest acknowledges and completes only what was queued for it, and an
\* edge raised while the guest serviced the interrupt survives the
\* guest's EOI (the HW-bit deactivation leaves it pending).
ImplementsVIrq == Abs!ISpec

=============================================================================
