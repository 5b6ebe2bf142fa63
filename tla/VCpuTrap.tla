------------------------------ MODULE VCpuTrap ------------------------------
(***************************************************************************)
(* The vCPU life cycle (src/src/vcpu.c), synchronous-trap dispatch         *)
(* (src/src/trap.c lower_el_sync_handler and its handlers) and PSCI        *)
(* CPU_ON (src/src/psci.c), on every core.                                 *)
(*                                                                         *)
(* vCPU i is pinned to physical core i.  A core is off, booting (in        *)
(* vmm_main / vmm_init_secondary on its way to enter_vcpu), running its    *)
(* guest, in EL2 handling a synchronous trap of its guest, or halted by a  *)
(* panic.  Trap entry saves the guest's preferred return address in        *)
(* vcpu->reg.elr_el2 (elr); the handler may change it; the exception      *)
(* return resumes the guest at elr.  The handler runs on its own core      *)
(* while the other cores run, so another core's CPU_ON can write elr and   *)
(* state of this vCPU at any point.                                        *)
(*                                                                         *)
(* The PSCI part of psci_cpu_on is two steps, in PsciOrder: vcpu_ready of *)
(* the target and psci_call, after which the firmware powers the target   *)
(* core on and it boots towards enter_vcpu concurrently.                   *)
(***************************************************************************)
EXTENDS Integers, FiniteSets

CONSTANTS
  VCpus,        \* vCPU ids = physical cores
  Boot,         \* the core that runs create_vm
  EntryPoint,   \* vmcfg->entrypoint
  Code,         \* guest addresses of trapping instructions
  Entries,      \* entry addresses a guest passes to CPU_ON
  Targets,      \* target_cpu values a guest passes to CPU_ON
  WellBehaved   \* TRUE: the guest behaves like xv6 (see GuestTraps)

ASSUME Boot \in VCpus /\ VCpus \subseteq Targets

VARIABLES
  state,  \* vcpus[i].state
  core,   \* what physical core i is doing
  elr,    \* vcpus[i].reg.elr_el2, the saved guest return address
  gpc,    \* the guest program counter of a running vCPU
  trap,   \* the trap being handled on core i (syndrome, arguments, step)
  asked   \* history: vCPUs a CPU_ON has been issued for

vars == <<state, core, elr, gpc, trap, asked>>

Addrs == {0} \cup Code \cup {a + 4 : a \in Code} \cup Entries \cup {EntryPoint}

\* SMCCC function ids (psci.h) and one that is not PSCI, each as its upper
\* and lower 16 bits (the 32-bit values exceed TLC's integers).
PSCI_VERSION      == <<33792, 0>>    \* 0x84000000
PSCI_FEATURES     == <<33792, 10>>   \* 0x8400000A
PSCI_CPU_ON_SMC64 == <<50176, 3>>    \* 0xc4000003
PSCI_CPU_ON_SMC32 == <<33792, 3>>    \* 0x84000003
STD_OTHER_SMC64   == <<50176, 32>>   \* 0xc4000020: standard service, not PSCI
Fids == {PSCI_VERSION, PSCI_FEATURES, PSCI_CPU_ON_SMC64, PSCI_CPU_ON_SMC32, STD_OTHER_SMC64}

\* Exception classes: WFx, HVC64, SMC64, data abort from a lower EL, and
\* one of the classes get_sync_trap_handler has no handler for.
ECs == {"wfx", "hvc", "smc", "dabt", "other"}

\* PSCI return codes (psci.h) that psci_call can give psci_cpu_on.
PSCI_E_SUCCESS     == 0
PSCI_E_ALREADY_ON  == -4

NoTrap == [ec |-> "none", at |-> 0, fid |-> <<0, 0>>, t |-> 0, e |-> 0, hit |-> FALSE,
           step |-> 0, ret |-> PSCI_E_SUCCESS]

TypeOK ==
  /\ state \in [VCpus -> {"CREATED", "READY", "RUNNING"}]
  /\ core \in [VCpus -> {"off", "boot", "guest", "el2", "halt"}]
  /\ elr \in [VCpus -> Addrs]
  /\ gpc \in [VCpus -> Addrs]
  /\ trap \in [VCpus -> [ec : ECs \cup {"none"}, at : Addrs, fid : Fids \cup {<<0, 0>>},
                         t : Targets \cup {0}, e : Entries \cup {0},
                         hit : BOOLEAN, step : 0..2,
                         ret : {PSCI_E_SUCCESS, PSCI_E_ALREADY_ON}]]
  /\ asked \subseteq Targets

(***************************************************************************)
(* Decoding, translated from the code.                                     *)
(***************************************************************************)

\* (fid & ~SMCC_FID_FN_NUM_MSK) == SMCC64_FID_STD_SRVC in syscall_handler.
IsStdSrvc64(fid) == fid[1] = 50176           \* 0xc400

\* is_psci_fid: a standard-service id (SMC32 or SMC64) with function
\* number below 0x20.
IsPsciFid(fid) ==
  /\ fid[1] \div 256 \in {132, 196}            \* 0x84, 0xc4
  /\ fid[2] \div 32 = 0

\* The handler get_sync_trap_handler picks, or "none".
HandlerFor(ec) ==
  CASE ec = "wfx"  -> "wfx_emulate_handler"
    [] ec = "hvc"  -> "hvc_handler"
    [] ec = "dabt" -> "data_abort_handler"
    [] OTHER       -> "none"

\* ELR_EL2 on trap entry: an HVC returns to the next instruction, every
\* other class to the trapping instruction itself.
PreferredReturn(ec, a) == IF ec = "hvc" THEN a + 4 ELSE a

\* Mutant: advance_pc advances by two instructions.
AdvancePcTwice(pc) == pc + 8

\* advance_pc: vcpu->reg.elr_el2 += 4.
AdvancePc(pc) == pc + 4

\* Mutant: hvc_handler advances the PC as smc_handler does.
HvcAdvanceTwice(pc) == AdvancePc(pc)

\* What hvc_handler does to the saved PC: nothing.
HvcAdvance(pc) == pc

\* Mutant: psci_cpu_on updates the calling vCPU instead of the target.
CpuOnTargetSelf(c, r) == c

\* struct vcpu *target = vcpu->vm->vcpus[target_cpu].
CpuOnTarget(c, r) == r.t

\* Mutant: psci_cpu_on omits its vcpu_ready(target) call.
ReadyStateDropped(s) == s

\* vcpu_ready: vcpu->state = READY.
ReadyState(s) == "READY"

\* Mutant: vcpu_ready after psci_call.
PsciOrderSwapped == <<"call", "ready">>

\* The steps of psci_cpu_on after the target is looked up.
PsciOrder == <<"ready", "call">>

(***************************************************************************)
(* Core and guest steps.                                                   *)
(***************************************************************************)

\* enter_vcpu on core c: panic unless vcpus[c] is READY, else
\* switch_to_vcpu (the cpuid check passes: vCPU c runs on core c) marks it
\* RUNNING and erets to its saved PC.
EnterVcpu(c) ==
  /\ core[c] = "boot"
  /\ IF state[c] # "READY"
     THEN /\ core' = [core EXCEPT ![c] = "halt"]
          /\ UNCHANGED <<state, gpc>>
     ELSE /\ state' = [state EXCEPT ![c] = "RUNNING"]
          /\ core' = [core EXCEPT ![c] = "guest"]
          /\ gpc' = [gpc EXCEPT ![c] = elr[c]]
  /\ UNCHANGED <<elr, trap, asked>>

\* The guest runs without trapping and reaches some trapping instruction.
GuestRun(c, a) ==
  /\ core[c] = "guest"
  /\ gpc[c] # a
  /\ gpc' = [gpc EXCEPT ![c] = a]
  /\ UNCHANGED <<state, core, elr, trap, asked>>

\* The traps a guest can take.  A well-behaved guest (xv6) powers on each
\* secondary vCPU once, from the boot vCPU, with CPU_ON_SMC64, takes WFI
\* and data aborts only on registered MMIO windows, and issues no SMC.
GuestTraps(c) ==
  LET any == [ec : ECs, at : {gpc[c]}, fid : Fids, t : Targets, e : Entries,
              hit : BOOLEAN, step : {0}, ret : {PSCI_E_SUCCESS}]
  IN IF WellBehaved
     THEN {r \in any : \/ r.ec = "wfx"
                       \/ r.ec = "dabt" /\ r.hit
                       \/ /\ r.ec = "hvc" /\ c = Boot
                          /\ r.fid = PSCI_CPU_ON_SMC64
                          /\ r.t \in VCpus \ ({Boot} \cup asked)}
     ELSE any

\* The guest executes a trapping instruction: the exception entry saves
\* the guest context into vcpus[c].reg, with ELR_EL2 as its return address.
TrapEntry(c) ==
  /\ core[c] = "guest"
  /\ gpc[c] \in Code
  /\ \E r \in GuestTraps(c) :
       /\ trap' = [trap EXCEPT ![c] = r]
       /\ elr' = [elr EXCEPT ![c] = PreferredReturn(r.ec, gpc[c])]
       /\ asked' = IF r.ec = "hvc" /\ r.fid = PSCI_CPU_ON_SMC64 THEN asked \cup {r.t} ELSE asked
  /\ core' = [core EXCEPT ![c] = "el2"]
  /\ UNCHANGED <<state, gpc>>

Halt(c) ==
  /\ core' = [core EXCEPT ![c] = "halt"]
  /\ UNCHANGED <<state, elr, gpc, trap>>

\* The exception return: resume the guest at the saved PC.
Eret(c, pcs) ==
  /\ elr' = pcs
  /\ gpc' = [gpc EXCEPT ![c] = pcs[c]]
  /\ core' = [core EXCEPT ![c] = "guest"]
  /\ trap' = [trap EXCEPT ![c] = NoTrap]

\* data_abort_handler: an invalid FAR (ISS.FnV) or a failed mmio_emulate
\* returns -1, on which lower_el_sync_handler panics; otherwise the saved
\* PC moves past the emulated access.  hit says whether both succeed.
DataAbortHandler(c) ==
  IF trap[c].hit
  THEN Eret(c, [elr EXCEPT ![c] = AdvancePc(@)]) /\ UNCHANGED state
  ELSE Halt(c)

\* lower_el_sync_handler for every trap but a PSCI CPU_ON: WFx and data
\* abort advance the PC (wfx_emulate_handler polls for a pending LR and
\* returns anyway; data_abort_handler advances only after mmio_emulate
\* succeeded); hvc_handler leaves it; any failure or missing handler panics.
SyncHandler(c) ==
  LET r == trap[c] IN
  /\ core[c] = "el2"
  /\ r.step = 0
  /\ ~(r.ec = "hvc" /\ IsStdSrvc64(r.fid) /\ IsPsciFid(r.fid) /\ r.fid = PSCI_CPU_ON_SMC64)
  /\ CASE HandlerFor(r.ec) = "none" -> Halt(c)
       [] r.ec = "wfx" -> Eret(c, [elr EXCEPT ![c] = AdvancePc(@)]) /\ UNCHANGED state
       [] r.ec = "dabt" -> DataAbortHandler(c)
       [] OTHER -> \* hvc: only SMC64 standard-service PSCI ids get through,
                   \* and psci_handler panics on anything but CPU_ON_SMC64
                   Halt(c)
  /\ UNCHANGED asked

\* hvc_handler -> syscall_handler -> psci_handler -> psci_cpu_on, one step
\* of PsciOrder at a time, then x0 = result and the return to the guest.
\* vm->vcpus[target_cpu] is read without a bounds check.
PsciCpuOn(c) ==
  LET r == trap[c]
      t == CpuOnTarget(c, r)
  IN
  /\ core[c] = "el2"
  /\ r.ec = "hvc" /\ IsStdSrvc64(r.fid) /\ IsPsciFid(r.fid) /\ r.fid = PSCI_CPU_ON_SMC64
  /\ IF t \notin VCpus
     THEN Halt(c)
     ELSE IF r.step < 2
     THEN /\ CASE PsciOrder[r.step + 1] = "ready" ->
                    /\ elr' = [elr EXCEPT ![t] = r.e]
                    /\ state' = [state EXCEPT ![t] = ReadyState(@)]
                    /\ trap' = [trap EXCEPT ![c].step = r.step + 1]
                    /\ UNCHANGED core
                 [] PsciOrder[r.step + 1] = "call" ->
                    \* psci_call(PSCI_CPU_ON, target_cpu, _start, 0): the
                    \* firmware powers the core on if it is off, and answers
                    \* ALREADY_ON otherwise
                    /\ core' = [core EXCEPT ![r.t] = IF @ = "off" THEN "boot" ELSE @]
                    /\ trap' = [trap EXCEPT ![c].step = r.step + 1,
                                   ![c].ret = IF core[r.t] = "off" THEN PSCI_E_SUCCESS
                                              ELSE PSCI_E_ALREADY_ON]
                    /\ UNCHANGED <<elr, state>>
          /\ UNCHANGED gpc
     \* syscall_handler stores ret in x0 and returns it; lower_el_sync_handler
     \* panics unless it is 0
     ELSE IF r.ret # PSCI_E_SUCCESS
     THEN Halt(c)
     ELSE /\ Eret(c, [elr EXCEPT ![c] = HvcAdvance(@)])
          /\ UNCHANGED state
  /\ UNCHANGED asked

(***************************************************************************)
(* Specification.  Initially create_vm has returned on the boot core:      *)
(* every vCPU is CREATED with PC 0 except the boot vCPU, READY at the      *)
(* entry point; the other cores are off.                                   *)
(***************************************************************************)

Init ==
  /\ state = [v \in VCpus |-> IF v = Boot THEN "READY" ELSE "CREATED"]
  /\ core = [v \in VCpus |-> IF v = Boot THEN "boot" ELSE "off"]
  /\ elr = [v \in VCpus |-> IF v = Boot THEN EntryPoint ELSE 0]
  /\ gpc = [v \in VCpus |-> 0]
  /\ trap = [v \in VCpus |-> NoTrap]
  /\ asked = {}

Next ==
  \E c \in VCpus :
    \/ EnterVcpu(c)
    \/ \E a \in Code : GuestRun(c, a)
    \/ TrapEntry(c)
    \/ SyncHandler(c)
    \/ PsciCpuOn(c)

\* EL2 runs each handler to completion with interrupts masked, and a core
\* the firmware powered on runs its boot path to enter_vcpu: these steps
\* are weakly fair.  The guest's own steps need no fairness.
Fairness ==
  \A c \in VCpus :
    /\ WF_vars(EnterVcpu(c))
    /\ WF_vars(SyncHandler(c))
    /\ WF_vars(PsciCpuOn(c))

Spec == Init /\ [][Next]_vars /\ Fairness

(***************************************************************************)
(* Properties.                                                             *)
(***************************************************************************)

\* The order of the vCPU life cycle (spec section 3).
Rank(s) == CASE s = "CREATED" -> 1 [] s = "READY" -> 2 [] s = "RUNNING" -> 3

\* A vCPU's state only moves forward, CREATED -> READY -> RUNNING: PSCI
\* CPU_ON writes another vCPU only before it is READY (the spec's hand-off
\* barrier), so it never makes a running vCPU READY again.
LifecycleForward ==
  [][\A v \in VCpus : Rank(state'[v]) >= Rank(state[v])]_state

\* Every return from a synchronous trap resumes the guest exactly one
\* instruction past the instruction that trapped (the HVC return address
\* is already advanced by the hardware, a WFI or a data abort is advanced
\* by its handler), whatever the other cores do meanwhile.
ResumesPastTrap ==
  [][\A c \in VCpus :
       (core[c] = "el2" /\ core'[c] = "guest") => gpc'[c] = trap[c].at + 4]_vars

\* A guest that behaves like xv6 never halts a core: every secondary it
\* powers on is READY by the time its core reaches enter_vcpu, and each of
\* its traps has a handler that succeeds.
NeverHalts == \A c \in VCpus : core[c] # "halt"

\* Every secondary vCPU the guest names in a PSCI CPU_ON eventually runs:
\* psci_cpu_on marks it READY and has the firmware power its core, and
\* that core's enter_vcpu switches to it.
SecondariesRun ==
  \A v \in VCpus \ {Boot} : (v \in asked) ~> (state[v] = "RUNNING")

====
