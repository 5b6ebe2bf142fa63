# TLA+ models of hyper_poc

hyper_poc is a small AArch64 type-1 hypervisor (src/src, about 3,300 lines of
C). It runs one xv6 guest on up to four virtual CPUs, each pinned to the
physical CPU with the same index. This directory holds TLA+ models of its
components and the TLC configurations that check them.

## The system

| Part | Source | State | Operations |
|---|---|---|---|
| Physical page allocator | page_alloc.c | bitmap, `last_alloc` cursor, total pages, lock | `page_allocator_init`, `alloc_pages`/`alloc_page`, `free_pages`/`free_page` |
| Stage-2 page tables | mmu.c | one 4-level table per VM | `pagewalk`, `pagemap`, `pageunmap`, `ipa2pa` |
| VM container | vm.c | `g_vms[]`, the VM's table, vCPUs, vGIC, MMIO list | `allocvm`, `create_vm`, `s2_pt_trap` |
| vCPU | vcpu.c | pool `g_vcpus[]`, state UNUSED/CREATED/READY/RUNNING, saved registers | `vcpu_alloc`, `new_vcpu`, `vcpu_ready`, `switch_to_vcpu`, `enter_vcpu` |
| PSCI | psci.c | none of its own; it writes the target vCPU | `psci_cpu_on`, `psci_features_handler`, `psci_handler` |
| Trap dispatch | trap.c | the trapping vCPU's saved PC | data abort, HVC, SMC, WFx, IRQ |
| MMIO framework | mmio.c | record pool, per-VM list | `mmio_reg_handler`, `mmio_emulate` |
| vGIC, list registers | vgic.c, gic_v3.c, trap.c | hardware LRs, `used_lr` per vCPU | `vgic_used_lr_update`, `vgic_lr_alloc`, `vgic_inject_virq`, `lower_el_irq_handler` |
| vGIC, distributor/redistributor | vgic.c, gic_v3.c | per-IRQ enable, priority and target, and the physical GIC | `vgicd_mmio_read/write`, `vgicr_mmio_read/write` |
| virtio-blk | virtio_dev.c, ramdisk.c | the virtqueue rings and the shared `g_vq` | `virtio_blk_req_handler`, `virtio_blk_process_desc`, `vqueue_set_used_elem`, `virtio_signal_vq`, `ramdisk_rw` |
| Ticket spinlock | spinlock.h | `ticket`, `next` | `spin_lock`, `spin_unlock` |
| Boot, timer, UART, sysreg, calltrace | init.c, sp_init.c, timer.c, uart.c, ... | device registers | run once, or pure I/O |

How the parts interact:

- **Allocation.** The allocator backs VM construction, which builds the stage-2 table and the guest RAM, and it backs the vGIC's SPI array.
- **MMIO emulation.** `s2_pt_trap` unmaps a guest-physical range and registers MMIO handlers for it. A guest access to that range then faults into `data_abort_handler`, which calls `mmio_emulate`, which calls the vGIC or virtio handler.
- **Physical interrupts.** They trap into `lower_el_irq_handler`, which injects them into the running vCPU's list registers. The guest acknowledges and completes them on the virtual CPU interface. Completion deactivates the physical interrupt, because every LR is written hardware-backed.
- **Secondary vCPUs.** PSCI CPU_ON, issued by the guest through HVC, marks a secondary vCPU READY and powers on its physical core. That core then enters the vCPU.

What is hard here, and what a test would hardly reach:

- **Interrupt delivery.** The physical GIC, the handler and the guest run concurrently on each core. An interrupt can change state between the trap and the IAR read. The handler acknowledges before it knows an LR is free.
- **The allocator's first-fit search from the cursor**, after runs of allocations and frees. (With the single-page requests every caller makes, `free_pages` only lowers the cursor, so the wrap-around loop finds nothing; see Bounds.)
- **Unsynchronised cross-core writes:**
  - PSCI CPU_ON writes another vCPU's state.
  - A GICR write for redistributor *n* programs the hardware of the caller's own core.
  - IROUTER writes take no lock.
- **Failure paths** that callers check for the wrong sentinel: `alloc_page` returns -1, while callers test for NULL.

## Modules

| Module | Models | State ↔ code |
|---|---|---|
| `VGicLR` | LR allocation and injection: `vgic_used_lr_update`, `vgic_lr_alloc`, `vgic_inject_virq`, `gic_make_lr`, `gic_read_lr`/`gic_write_lr`, `lower_el_irq_handler`, `wfx_emulate_handler`, `gic_has_pending_lr` | `pstate` is the physical GIC's state of each SPI. `lr` is ICH_LR<n>_EL2 of each CPU. `used_lr` is `vgic_cpu->used_lr`. `hyp` says whether the core runs its guest or has trapped on an IRQ or on WFI. `poll` counts the iterations of the WFI poll loop. |
| `VIrq` | abstract promise of virtual-interrupt delivery, refined by `VGicLR` | `src` is whether each interrupt's source is asserted. `svc` is its service state: none, queued, in service, or lost. |
| `MCVGicLR` | model values for `VGicLR`: spurious INTID 1023, SPI routing | |
| `PageAlloc` | `page_alloc.c` | `bitmap` is the set of set bits, `last_alloc` is the cursor. `granted` (history) holds the ranges handed out and not freed. `req`/`ret` (history) hold this step's request size and result. |
| `VGicDist` | `vgicd_mmio_read/write`, `vgicr_mmio_read/write`, and the `gic_v3.c` calls they make | `spi_en`, `priv_en`, `spi_target`, `grp1ns` are the vGIC's records. `hw_*` are the physical GICD/GICR enable and routing registers. `halted` is the set of cores that called `panic()`. |
| `Stage2` | the read-only parts of `mmu.c`: `pagewalk(pgt, va, 0)` (RECURSIVE `Descend`) and `ipa2pa` | A table is a function from the modelled indices to entries (zero, table descriptor, page descriptor). An IPA is the tuple of its four table indices. |
| `VmBuild` | `create_vm` and `s2_pt_trap` of `vm.c` with the allocating `pagewalk`, `pagemap` and `pageunmap`, composed with `PageAlloc` and `Stage2`, plus `mmio_reg_handler` and the SPI array of `new_vgic` | `pc` is the position in `create_vm`. `walk`/`tgt`/`back` are the state of the `pagewalk` in progress. `tbl` is the contents of every frame used as a table. `mmio` is the MMIO record list. `spis` is `vgic->spis`. |
| `MCVmBuild` | the set of guest image layouts (file, zero-fill and RAM page counts) | |
| `Virtq` | the set-up registers (`virtio_mmio_read`, `virtio_mmio_write`, `vq_ring_init`, `virtio_guest_to_host`), `virtio_blk_req_handler`, `virtio_blk_process_desc` (`next_desc`, the chain copy), `vqueue_set_used_elem`, `virtio_signal_vq`, `ramdisk_rw`, the ticket lock of spinlock.h, and an xv6-like guest driver | `desc`, `avail`, `avail_idx`, `used`, `used_idx` are the rings in guest memory. `last_avail` is `g_vq.avail_idx`. `ticket`/`next` are `g_vq.virtq_lock`, and `my` is each core's drawn ticket. `hpc` is where each core is in the handler. `status`/`sector` are the request headers. `vnum`, `pagesz`, `qsel` are `g_vq.vring_num`, `guest_pagesz`, `g_queue_sel`, and `vring` is the ring's guest address and the three host pointers `vq_ring_init` computes. `drv`, `free`, `guest_used`, `kick` are the guest driver's state. `pub` (history) is the order heads were made available. |
| `BlkQueue` | the promise of a virtio block device, with no rings, locks or cores | `reqs` are the submitted requests, `done` and `seen` count the completed and consumed ones, and `out` holds the completed, unconsumed ones with their results. `Virtq` maps `pub`, `used_idx`, `guest_used` and the used-ring window `UsedWindow` onto them. |
| `VCpuTrap` | `enter_vcpu`, `vcpu_ready`, the synchronous trap dispatch of `trap.c` (`lower_el_sync_handler`, `get_sync_trap_handler`, WFx, HVC, data abort, `syscall_handler`, `standard_service_call`) and `psci.c` | `state` is each vCPU's `state`. `core` is each physical core (off, powering on, in EL2, running the guest, halted). `elr` is the saved `elr_el2` in the vCPU's register context. `gpc` is the guest's PC. `trap` is the exception EL2 is handling. `asked` is the set of vCPUs a CPU_ON has named. |

### VGicLR

Each physical CPU runs exactly one vCPU (`switch_to_vcpu` pins `vcpus[i]` to
pcpu *i*), so a CPU index names both.

- **Trap and handler.** An IRQ exception (`IrqTrap`) is one step. The handler body (`LowerElIrqHandler`) is another: it runs with interrupts masked and its guest stopped.
  - **Why two steps.** A device can raise, or deassert a level interrupt (`Withdraw`), in between.
  - **Handler order.** The handler does what the code does, in the code's order:
    1. Reclaim inactive LRs.
    2. Read IAR: either an interrupt routed here that is pending, or the spurious INTID when none is.
    3. Priority drop. Under EOImode=1 this leaves the interrupt active.
    4. Allocate an LR and write a pending, hardware-backed LR. If the allocation fails, nothing is written.
- **Guest actions.** `GuestAck` and `GuestEoi` are the guest on its virtual CPU interface.
  - Every LR is written with priority 0, so nothing is acknowledged while another LR is active.
  - The EOI of a hardware-backed LR deactivates the physical interrupt.
- **WFI.** `WfiTrap` is the guest's WFI trapping to EL2 (HCR_EL2.TWI). `WfxEmulateHandler` is one iteration of the do-while of `wfx_emulate_handler`: it leaves when `gic_has_pending_lr` sees a pending LR or when the time read through `count_to_time_ns` passes `end_time`, and then returns to the guest one instruction on.
  - Interrupts stay masked at EL2, so during the poll no LR of the core changes and no physical interrupt is taken.
  - The `WfiPolls` iterations before the deadline stand for the 10 µs of `WFI_POLL_TIMEOUT_NS`. `PollClock` is one read of the advancing system counter.
- **Refinement.** `ImplementsVIrq` checks `VGicLR` against `VIrq`, the promise stated without LRs or cores.
  - The mapping: an interrupt's source is asserted while the distributor holds it pending (or pending and active).
  - Its service state comes from the live LR carrying it: pending means queued, active means in service.
  - An interrupt that is active at the distributor but has no live LR was acknowledged and never injected. That is the abstract "lost" state, and nothing leaves it (see `lr_drop`).
  - The check fails if the handler deactivates on acknowledge (`AckAndDeactivate`): the interrupt is then taken a second time while its first activation is still queued.

### PageAlloc

`alloc_pages` and `free_pages` each run under `g_allocator.lock`, so each is one step.

- **The scan.** `__find_free_range` is the RECURSIVE operator `Scan`, which is both of its loops. The second call starts with the `cnt` and `start` the first one left, exactly as in the code.
- **The reference.** `CircularFirstFit` is the allocator section 4.1 of the spec describes: the first run of *n* free frames inside the managed range, searching from the cursor and wrapping once.
- **Freeing.** Callers free exactly the ranges they were granted.

### VGicDist

- **One step per access.** A guest access to a distributor or redistributor window is one step.
  - The GICD windows run under `g_vgic_lock`.
  - The GICR windows take no lock. But each loop sets or clears one bit per interrupt and the hardware enable is write-1-to-set, so every interleaving ends in a state that some order of whole handlers also reaches.
- **What a handler does.** Each handler updates the vGIC record and calls the physical GIC function the code calls:
  - `gic_irq_enable` for a set;
  - `gic_irq_disable` for a clear, which writes `GICD_ISENABLER`, the set register;
  - the two target functions for ITARGETSR and IROUTER.
- **Which redistributor a GICR write reaches.** It programs the redistributor of the core that runs the handler (`cpuid()`), not the frame the guest addressed.
  - `CrossGicr` chooses whether a guest may address another vCPU's frame. xv6 addresses only its own.
- **Initial state.** `Init` is the state after boot. `init_gicd_v3` disables every SPI, but then `vmm_init_primary` calls `enable_uart_irq_el2`, which enables the UART's SPI 33 in hardware (`BootEnabledSpis`). The guest's record of SPI 33 still says disabled, so enable state does not mirror the hardware from the first instruction the guest runs. The `dist_disable` run therefore models SPIs 34 and 48, so that its trace shows the ICENABLER bug and not this boot mismatch.

### Stage2 and VmBuild

- **Scope.** Only the table indices and pages the modelled addresses use are kept:
  - RAM page *k* at IPA 0x40000000 + *k*·4K;
  - the UART page;
  - the three trapping windows (virtio, GICD, GICR), one page each.
- **Composition with the allocator.** `VmBuild` instantiates `PageAlloc` for single-page requests. Every `alloc_page` of `create_vm` and `pagewalk` is a step of that allocator.
- **The page walk.** `pagewalk` with `need_alloc` is one step per level (`WalkLevel`). At each level it either descends or allocates and links a new table.
  - A failed allocation returns -1ULL, which `pagewalk` does not test.
  - The code would then write through -1. The model records this as the `"wild"` end, and does not model what the write hits.
  - On the RAM loop, where `create_vm` does test for it, a failure is the `"panic"` end.
- **Guest memory layout.** `create_vm` copies `file` pages of the image, zero-fills up to `mem`, and maps up to `ram`. All layouts with at most three pages are enumerated.
- **Trapped windows.** `s2_pt_trap` unmaps each window and registers its MMIO handler, in the order of `create_vm`. `MmioRegHandler` prepends an `mmio_info` record, as `mmio_reg_handler` does.
- **Dispatch.** `MmioEmulate` (RECURSIVE) is `mmio_emulate`'s walk of that list, newest record first, matching `ipa_base <= ipa < ipa_base + size`. It returns the read or write handler and the offset, or no handler.
- **Assumed addresses.** memlayout.h is not in the repository. The QEMU virt addresses are assumed: entry 0x40000000, UART 0x09000000, GICD 0x08000000, GICR 0x080A0000, virtio 0x0a000000.

### Virtq

Every vCPU core can write QUEUE_NOTIFY, and each write runs
`virtio_blk_req_handler` on the writing core (`NotifyTrap`). All of them
share the single global `g_vq`.

- **Set-up.** The driver first runs its probe (`DriverInit`, one access per step on the boot vCPU, in xv6's order, listed in `Probe`).
  - A read returns what `MmioRead` gives, and the driver panics unless the value is the one it requires.
  - A write runs `MmioWrite`. GUEST_PAGE_SIZE panics unless it is 4096. QUEUE_PFN runs `VqRingInit`: it resets the lock, translates the base through `VirtioGuestToHost`, and puts avail after `vring_num` descriptors and used one frame on.
  - An address is a pair (page, byte offset), so that page numbers fit TLC's integers. `VirtioGuestToHost` maps the ring's two pages to the frames `Frame0` and `Frame1`, which the cfg makes consecutive.
  - Requests are published only after the probe has finished.
- **The lock.** `spin_lock` is two steps: `SpinLockTicket` (the ldaxr/stxr increment of `ticket`) and `SpinLockWait` (spin until `next` equals the ticket). `SpinUnlock` increments `next`. The lock is FIFO.
- **The request loop.** One `ReqLoop` step is one test of `virtq_available()` and, when a request is there, the whole of `virtio_blk_process_desc` for its head:
  - `NextDesc` is `next_desc`: the next field, or `max` when the NEXT flag is clear or the field is out of range.
  - `ChainLen` (RECURSIVE) is the do-while that copies the chain into the local array `desc[vring_num]`. A chain that revisits a descriptor never reaches `max`, so the copy runs past the array. The model stops that core in `"overrun"`.
  - Only a chain of exactly three descriptors gets a status byte, from `ramdisk_rw` (`RamdiskRw`: -1 when sector/2 is at or past `FSIMG_SIZE`).
- **Split at the barriers.** `vqueue_set_used_elem` writes the element (`SetUsedElem`), issues a barrier, and then increments `used->idx`. `UsedBump` is that increment together with the `++g_vq.avail_idx` that follows it. `virtio_signal_vq` (`SignalVq`) runs after `spin_unlock`, so it is a step of its own.
- **The guest.** The guest is the xv6 driver:
  - `Publish` takes the three lowest free descriptors, chains them, sets status 0xff, writes the avail ring, then bumps `avail->idx` and owes a notify.
  - `Intr` is the interrupt handler. It consumes the used ring up to `used->idx` and frees the chains.
  - `Finished` is a stutter once all `MaxReqs` requests are complete, so the system's real end is not reported as a deadlock.
- **Refinement.** `ImplementsBlkQueue` is `BlkQueue`'s specification under `Queue == INSTANCE BlkQueue WITH ...`:
  - `reqs` is `pub`, the history of published requests;
  - `done` is `used->idx`, and `seen` is the guest's cursor;
  - `out` is `UsedWindow`: the used elements between the two, each with the status byte of the chain it names.

  A `UsedBump` step is `Complete`, an `Intr` step is `Consume` (or a stutter when nothing new is used), a `Publish` step is `Submit`, and every other step is a stutter. The abstract fairness (weak on `Complete` and `Consume`) follows from the handler and interrupt fairness below.
- **Index width.** Ring indices are u16 in the code. They stay far below 2^16 here, so the model keeps them unreduced and reduces them `% NUM` where the code does.

### VCpuTrap

Three cores, each pinned to its vCPU. The physical core of vCPU *i* is core *i*.

- **Steps per core.**
  - `EnterVcpu` is `enter_vcpu`: it panics unless the vCPU is READY, then marks it RUNNING and erets to its saved PC.
  - `GuestRun` executes guest instructions.
  - `GuestTraps` raises a synchronous exception.
  - `TrapEntry` saves the preferred return address into `elr`.
  - The handler step is `SyncHandler` (with `DataAbortHandler` for a data abort) or, for an HVC to PSCI CPU_ON, `PsciCpuOn`.
- **PSCI CPU_ON races the target core.** `PsciCpuOn` runs `vcpu_ready(target)` (which writes the target's `elr` and state) and `psci_call` as separate steps, in the code's order (`PsciOrder`).
  - Once the firmware powers the target core on, that core races to `enter_vcpu`.
  - A CPU_ON for a core that is already on gets ALREADY_ON (-4) from the firmware, after `vcpu_ready` has run anyway. `syscall_handler` returns that value and `lower_el_sync_handler` panics on any non-zero result, so the calling core halts (the `ret` field of the trap record carries the answer to that step).
- **PC advance.**
  - WFx and a handled data abort advance the saved PC by 4 (`advance_pc`).
  - HVC does not: the hardware already saved the next instruction.
  - An unhandled exception class (SMC, since no handler is installed for it), a failed MMIO access and a non-standard SMCCC id all panic. Each is a `"halted"` core.
- **SMCCC ids.** Function ids are pairs of 16-bit halves, because TLC integers are 32-bit. smcc.h is not in the repository, so the standard SMCCC values are assumed: standard service 0xC4000000, function-number mask 0xFFFF.
- **The guest.** `WellBehaved` chooses the guest.
  - TRUE is an xv6-like guest. It makes WFI, MMIO accesses to mapped handlers, and one CPU_ON_SMC64 from the boot vCPU per secondary vCPU.
  - FALSE is any guest: any exception class, any SMCCC id, any target.

## Runs

| Run | cfg | Expect | Checks | Shows |
|---|---|---|---|---|
| lr_safety | MCVGicLR_safety.cfg | pass | TypeOK, NoDuplicateHwIntid, ImplementsVIrq, LiveLrNeverOverwritten | The handler never rewrites a live LR and never puts one pINTID in two LRs, and the LR machinery implements `VIrq`. This holds even with more routed SPIs (3 to CPU 0) than LRs (2) and a level source that deasserts. |
| lr_live | MCVGicLR_live.cfg | pass | AckedEventuallyDeactivated, PendingEventuallyTaken | With enough LRs, every acknowledged interrupt is eventually deactivated, and a guest that keeps executing WFI does not keep a pending interrupt from being taken. |
| lr_drop | MCVGicLR_drop.cfg | violation | AckedEventuallyDeactivated | With 1 LR and 2 SPIs routed to CPU 0, a failed injection leaves its interrupt active forever. |
| lr_spurious | MCVGicLR_spurious.cfg | violation | NoSpuriousInjection | A level interrupt withdrawn before the IAR read makes the handler inject INTID 1023. |
| alloc_single | PageAlloc_single.cfg | pass | TypeOK, BitmapReflectsOwnership, AllocIsCircularFirstFit | With 5 frames and `alloc_page()` as every caller uses it, the bitmap is exactly the granted frames, and every allocation equals the reference. |
| dist_own | MCVGicDist_own.cfg | pass | TypeOK, EnabledIsForwarded | When each vCPU programs its own redistributor, every interrupt the guest enabled is enabled in the physical GIC. |
| dist_disable | MCVGicDist_disable.cfg | violation | DisabledIsMasked | A guest's GICD_ICENABLER write leaves the interrupt enabled in hardware, because `gic_irq_disable` writes the set register. |
| vm_build | MCVmBuild_ok.cfg | pass | TypeOK, FrameOwnership, BuiltLayout | For every layout of up to three guest pages, every frame `create_vm` takes has one owner. The finished address space maps RAM and the UART and leaves the MMIO windows trapping. `mmio_emulate` dispatches each window page to its own handler at offset 0, for reads and writes, and dispatches RAM pages and the page past each window to no handler. |
| vm_oom | MCVmBuild_oom.cfg | violation | AllocFailureNeverUsed | With 7 frames, `alloc_page`'s -1ULL failure value passes the callers' NULL checks and becomes a pointer (`vgic->spis`, or a page-table pointer `pagewalk` writes through). |
| vcpu_xv6 | VCpuTrap_xv6.cfg | pass | TypeOK, NeverHalts, ResumesPastTrap, LifecycleForward, SecondariesRun | For an xv6-like guest on three cores, no core panics, every trap resumes one instruction past the trapping one, and no vCPU's state moves backwards, however the CPU_ON steps and the target cores interleave. Every secondary vCPU named by CPU_ON eventually runs. |
| vq_xv6 | Virtq_xv6.cfg | pass | TypeOK, VisibleUsedCorrect, DriverConfigured, ImplementsBlkQueue | The xv6 probe succeeds, and the device then serves exactly the rings the driver laid out, with its queue size. With two cores notifying concurrently and both rings wrapping, every used element the guest can see names the request published in that position and carries a written status. The device implements `BlkQueue`: requests complete one at a time, in order, with the status `ramdisk_rw`'s result decides, and every published request is eventually consumed by the guest. |
| vcpu_cpu_on | VCpuTrap_any.cfg | violation | LifecycleForward | A CPU_ON naming a running vCPU (the caller itself, or one already started) sets it back to READY and overwrites its saved PC before the firmware answers ALREADY_ON; the caller then panics on that answer, while the target keeps running with its state READY. |

Other questions were checked and are not kept as runs:

- **`alloc_pages(n > 1)`.** It misses a free run that spans the cursor, because the wrap-around loop restarts its count. No caller asks for more than one page.
- **GICD_CTLR read-back.** It does not return the value written. `vgicd_mmio_read` ORs GICD_CTLR_G1NS_EN in unconditionally, so a guest that cleared the group-1 enable reads it back as set. A read-back invariant on `VGicDist` fails at the first read after the enable is cleared.
- **`ipa2pa` of an unmapped IPA.** When the last-level table exists, it returns PTE_PA(0) + offset, which is the offset, instead of 0. `TranslateMissIsZero` fails under MCVmBuild_ok.cfg after 348 states.
- **The used ring's frame.** `vq_ring_init` translates only the ring's base IPA and takes the used ring one frame further. `RamPagesContiguous` says that IPA-consecutive guest pages sit on consecutive frames, and it fails under MCVmBuild_ok.cfg after 426 states. The first `pagemap` allocates three table frames between RAM pages 0 and 1, and each new last-level table does the same at a 2MB boundary.
- **The probe, otherwise.** With QUEUE_NUM written after QUEUE_PFN, `DriverConfigured` fails: avail is placed after 0 descriptors. With `Frame1` not equal to `Frame0` + 1, as `RamPagesContiguous` shows can happen, it fails after 16 states: the device's used pointer is not the translation of the driver's used ring.
- **A guest-built chain cycle.** A guest that writes arbitrary `next` fields can make `virtio_blk_process_desc` copy past its stack array. The `"overrun"` end of `Virtq` is reachable then, and it is unreachable for the xv6 driver.
- **GICR cross-frame writes.** With `CrossGicr = TRUE`, `EnabledIsForwarded` is violated: a vCPU enabling a PPI in another vCPU's frame enables it in its own core's redistributor.

### Bounds, and why they are enough

- **`VGicLR`.** Two CPUs and two LRs. Three SPIs are routed to CPU 0 and one to CPU 1. `WfiPolls` = 2, so a WFI poll can end on its deadline or on an LR that is already pending. The liveness run `lr_live` uses CPU 0 alone with SPIs 33 and 48: the second core is independent of the first, and with it the strong-fairness check takes more than ten minutes.
  - Three interrupts routed to CPU 0 can exhaust two LRs.
  - The level source can be withdrawn.
  - Both CPUs interleave.
  - The real hardware has 4 LRs, but the behaviour depends only on "more live interrupts than LRs", and that already occurs here.
- **`PageAlloc`.** With 5 frames the cursor reaches every position, including `total_pages`. The bitmap reaches every subset.
  - A by-product of `alloc_single`: with single-page requests every free frame lies at or above `last_alloc`. So the wrap-around loop never finds anything, and a mutant that deletes it survives.
- **`VGicDist`.** Two CPUs, one PPI and two SPIs, one target value. `dist_own` uses SPIs 33 (the UART, enabled at boot) and 48. `dist_disable` uses 34 and 48. That is enough for the private-versus-shared split and for two cores writing the same SPI.
- **`VmBuild`.** Up to three guest pages, with frames for every table level.
  - 10 frames let every layout finish.
  - 7 frames are too few for the larger layouts, so allocation fails partway through `create_vm`.
- **`VCpuTrap`.** Three vCPUs: a boot vCPU and two secondaries.
  - Two secondaries are needed for one CPU_ON to race another's target core and for a vCPU to be named twice.
  - The guest PC ranges over {0, 4, 64, 128}: the trapping instruction at 0, the one after it, the boot entry and one CPU_ON entry.
  - A resume at the trap (0), one past it (4) and two past it (8, outside the set) are therefore all distinguishable. The last of these is what `TypeOK` rejects.

- **`Virtq`.** Two cores, so two handlers contend for the lock and one can enqueue while the other drains.
  - `NUM` = 6 descriptors, which is two three-descriptor requests in flight.
  - `MaxReqs` = 7, so both rings wrap.
  - Sector 1998 is the last sector inside the 1000-block image (1998/2 = 999), so the in-range path of `ramdisk_rw` is taken. The boundary itself is the comparison in `RamdiskRw`.

### Fairness and deadlock

- **`VGicLR`.**
  - **Strong fairness** on trap entry. A guest that loops on WFI is at EL2 part of the time, so the IRQ exception is only intermittently enabled. The PE takes a signalled IRQ at the first guest instruction boundary, which is what strong fairness says.
  - **Weak fairness** on the IRQ handler and on each WFI poll iteration: EL2 code runs to completion.
  - **Strong fairness** on the handler taking each particular interrupt. The IAR returns the highest-priority pending interrupt, and with equal priorities the distributor does not starve one of them while another keeps being raised.
  - **Strong fairness** on the guest's EOI: xv6 completes every interrupt it acknowledges, even when it keeps executing WFI in between.
- **Strong fairness** on the guest's acknowledge of each LR. All LRs have priority 0, and the architecture leaves the choice among equal priorities IMPLEMENTATION DEFINED. Without strong fairness, TLC finds a run in which one LR is starved forever while others are acknowledged, and that run is not a fault of this code.
- **`Virtq`.**
  - Weak fairness on each handler step. The handler runs to completion, and the ticket lock is FIFO, so a waiting core gets its turn.
  - Weak fairness on the notify trap. xv6 writes QUEUE_NOTIFY right after it publishes.
  - Weak fairness on the guest's interrupt handler. A pending virtio interrupt is taken.
- **`VCpuTrap`.** Weak fairness on `EnterVcpu`, `SyncHandler` and `PsciCpuOn` of each core. EL2 runs a handler to completion with interrupts masked, and a core the firmware powered on runs its boot path to `enter_vcpu`. The guest's steps get no fairness, because `SecondariesRun` is conditioned on the CPU_ON having been issued.
- **No fairness** for devices. The remaining modules check only safety and action properties, so they assume no fairness.
- **Deadlock.** Deadlock is not checked for `VGicDist`, `VmBuild` and `VCpuTrap_any`, because each of these really stops:
  - a core that called `panic()`;
  - `create_vm` when it has finished or failed.
- `vq_xv6` checks deadlock. The `Finished` stutter marks the end once every request is complete.
- `vcpu_xv6` does check deadlock, and none is found: a running guest can always execute or trap again.

## Plan

1. `VGicLR` (with WFI emulation), `PageAlloc`, `VGicDist`, `Stage2`/`VmBuild`, `VCpuTrap`: done.
2. `mmio_emulate` dispatch, `Virtq`, and the `BlkQueue` specification it refines: done.
3. The `mmio_emulate` register decode. `reg_idx` 31 passes a NULL register to a read handler.
4. `VIrq`, the abstract virtual-interrupt specification that `VGicLR` refines: done.
5. The IRQ path of `VGicLR` composed with the vCPU life cycle of `VCpuTrap`. Today each model fixes the other's part.

## Not modelled

- **Boot** (init.c, sp_init.c): run once per core before any guest. Its result is the initial state of the models.
- **virtio-blk data**: block and buffer bytes, and the translation of buffer addresses, are not modelled. Only the status byte is.
- **Timer, UART, sysreg, calltrace, guest image, ramdisk contents:** register I/O and dumps. The only use of the timer on a guest's path is `count_to_time_ns` in the WFI poll, modelled as the advancing clock `PollClock`. `muldiv64` returns 0 for every count when `g_freq` is 0 (CNTFRQ_EL0 left unprogrammed by firmware), and then the poll ends only on a pending LR. The `PollClockStuck` mutant shows that `PendingEventuallyTaken` catches this.
