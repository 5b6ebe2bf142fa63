------------------------------- MODULE Virtq -------------------------------
(***************************************************************************)
(* The virtio-blk back end of src/src/virtio_dev.c: the one virtqueue      *)
(* g_vq shared by every vCPU, its ticket lock (src/include/spinlock.h),    *)
(* the request loop of virtio_blk_req_handler and ramdisk_rw.             *)
(*                                                                         *)
(* The driver first probes the device through its set-up registers       *)
(* (QUEUE_NUM, then QUEUE_PFN, which runs vq_ring_init).  A guest write to *)
(* QUEUE_NOTIFY traps into EL2 on the writing vCPU's core (core c runs     *)
(* vCPU c) and runs the handler there; the guest's other vCPUs keep        *)
(* running and touch the rings concurrently.  The guest is the xv6 driver  *)
(* (virtio_disk.c): it publishes a three-descriptor chain under its own    *)
(* lock, writes QUEUE_NOTIFY, and its interrupt handler consumes the used  *)
(* ring.  Memory is sequentially consistent: the code's barriers are       *)
(* where the steps split.                                                  *)
(*                                                                         *)
(* Ring indices are kept unreduced (u16 in the code; they stay far below   *)
(* 2^16 here) and reduced % NUM where the code reduces them.               *)
(***************************************************************************)
EXTENDS Integers, Sequences, FiniteSets, FiniteSetsExt

CONSTANTS
  CPUs,       \* vCPU ids = physical core ids
  NUM,        \* g_vq.vring_num (the guest's QUEUE_NUM)
  MaxReqs,    \* bound on the requests the guest publishes
  Sectors,    \* virtio_blk_req.sector values the guest puts in a request
  FSIMG_SIZE, \* ramdisk size in blocks (ramdisk.h)
  BLOCK_SIZE, \* bytes per ramdisk block (ramdisk.h)
  Boot,       \* the vCPU that runs the driver's probe
  RingPfn,    \* the guest page number of the driver's two ring pages
  Frame0,     \* the host frame ipa2pa gives for page RingPfn
  Frame1      \* the host frame ipa2pa gives for page RingPfn + 1

ASSUME NUM >= 3 /\ MaxReqs \in Nat

Descs == 0..(NUM - 1)

VARIABLES
  desc,        \* g_vq.desc[i]: the NEXT flag and the next field
  avail,       \* g_vq.avail->ring, written by the guest
  avail_idx,   \* g_vq.avail->idx, written by the guest
  used,        \* g_vq.used->ring: [id, len] elements
  used_idx,    \* g_vq.used->idx
  last_avail,  \* g_vq.avail_idx, the hypervisor's cursor
  status,      \* the status byte of the request headed by each descriptor
  sector,      \* the sector of the request headed by each descriptor
  ticket,      \* g_vq.virtq_lock.ticket
  next,        \* g_vq.virtq_lock.next
  my,          \* the ticket each core drew in spin_lock
  hpc,         \* where each core is in the notify handler ("guest": not in it)
  cur,         \* the head and desc_len the core's handler iteration holds
  irq,         \* VIRTIO0_IRQ pending in the physical GIC
  kick,        \* cores whose guest owes a QUEUE_NOTIFY write
  free,        \* the guest's free descriptors (xv6 disk.free)
  guest_used,  \* the guest's used-ring cursor (xv6 disk.used_idx)
  pagesz,      \* guest_pagesz
  qsel,        \* g_queue_sel
  vnum,        \* g_vq.vring_num
  vring,       \* g_vq.vring_ipa and the desc, avail, used pointers
  drv,         \* the next access of the driver's probe, DrvUp or DrvPanic
  pub          \* history: the requests ([head, sector]) in the order they
               \* were made available

setup == <<pagesz, qsel, vnum, vring, drv>>

vars == <<setup, desc, avail, avail_idx, used, used_idx, last_avail, status, sector,
          ticket, next, my, hpc, cur, irq, kick, free, guest_used, pub>>

Pcs == {"guest", "lock", "wait", "loop", "elem", "bump", "unlock", "signal",
        "overrun", "panic"}

-----------------------------------------------------------------------------
(* Device set-up: the virtio-mmio registers.  An address is a pair        *)
(* <<page, byte offset>>, so that page numbers fit TLC's integers.         *)

PAGE_SIZE == 4096

\* sizeof(struct virtq_desc): u64 addr, u32 len, u16 flags, u16 next.
DescSize == 16

Addr == Nat \X Nat
NoRing == [ipa |-> <<0, 0>>, desc |-> <<0, 0>>, avail |-> <<0, 0>>, used |-> <<0, 0>>]

\* What a read handler leaves in *val: Keep when it writes nothing (the
\* guest's register keeps its old value), Fault when it panics.
Keep == -1
Fault == -2

\* virtio_guest_to_host: ipa2pa through the VM's stage-2 table, for the
\* ring's two pages; any other page is some frame this model does not name.
VirtioGuestToHost(a) ==
  <<CASE a[1] = RingPfn -> Frame0 [] a[1] = RingPfn + 1 -> Frame1 [] OTHER -> 0,
    a[2]>>

\* virtio_mmio_read: the value the read returns for each register.
MmioRead(reg) ==
  CASE reg = "MAGIC_VALUE" -> 1953655158       \* 0x74726976
    [] reg = "VERSION" -> 1
    [] reg = "DEVICE_ID" -> 2
    [] reg = "VENDOR_ID" -> 1431127377         \* 0x554d4551
    [] reg = "DEVICE_FEATURES" -> 0
    [] reg = "QUEUE_NUM_MAX" -> 64
    [] reg \in {"QUEUE_PFN", "QUEUE_READY", "INTERRUPT_STATUS", "STATUS"} -> Keep
    [] OTHER -> Fault

\* Mutant: QUEUE_PFN's value taken as an address, without the << 12.
QueuePfnIpaUnshifted(val) == <<val \div PAGE_SIZE, val % PAGE_SIZE>>

\* The QUEUE_PFN case: the ring's guest address is val << 12.
QueuePfnIpa(val) == <<val, 0>>

\* vq_ring_init(ipa): reset the lock, translate the base, and place the
\* avail ring after vring_num descriptors and the used ring a page on.
VqRingInit(ipa) ==
  LET pa == VirtioGuestToHost(ipa) IN
  /\ ticket' = 0 /\ next' = 0
  /\ vring' = [ipa |-> ipa, desc |-> pa,
               avail |-> <<pa[1], pa[2] + vnum * DescSize>>,
               used |-> <<pa[1] + 1, pa[2]>>]

\* The core's handler calls panic().
Panic(c) ==
  /\ hpc' = [hpc EXCEPT ![c] = "panic"]
  /\ UNCHANGED <<pagesz, qsel, vnum, vring, ticket, next>>

\* virtio_mmio_write for every register but QUEUE_NOTIFY (NotifyTrap).
MmioWrite(c, reg, val) ==
  CASE reg = "GUEST_PAGE_SIZE" ->
         IF val # PAGE_SIZE THEN Panic(c)
         ELSE pagesz' = val /\ UNCHANGED <<qsel, vnum, vring, ticket, next, hpc>>
    [] reg = "QUEUE_SEL" ->
         qsel' = val /\ UNCHANGED <<pagesz, vnum, vring, ticket, next, hpc>>
    [] reg = "QUEUE_NUM" ->
         vnum' = val /\ UNCHANGED <<pagesz, qsel, vring, ticket, next, hpc>>
    [] reg = "QUEUE_PFN" ->
         VqRingInit(QueuePfnIpa(val)) /\ UNCHANGED <<pagesz, qsel, vnum, hpc>>
    [] reg \in {"DRIVER_FEATURES", "QUEUE_ALIGN", "QUEUE_READY",
                "INTERRUPT_ACK", "STATUS"} ->
         UNCHANGED <<pagesz, qsel, vnum, vring, ticket, next, hpc>>
    [] OTHER -> Panic(c)

-----------------------------------------------------------------------------
(* Device side.                                                            *)

\* next_desc(desc, i, max): the next descriptor of a chain, or max when
\* the NEXT flag is clear or the next field is out of range.
NextDesc(d, i) ==
  IF d[i].flag /\ d[i].next < NUM THEN d[i].next ELSE NUM

\* The do-while of virtio_blk_process_desc: desc_len after copying the
\* chain from idx into the local array desc[vring_num].  A chain that
\* revisits a descriptor never reaches max; the walk stops once the copy
\* has gone past the array (desc_len = NUM + 1).
RECURSIVE ChainLen(_, _, _)
ChainLen(d, i, len) ==
  IF len = NUM THEN NUM + 1
  ELSE IF NextDesc(d, i) = NUM THEN len + 1
  ELSE ChainLen(d, NextDesc(d, i), len + 1)

\* ramdisk_rw(blk_num, ...) for the request's sector: 0, or -1 when the
\* block is past the image.
RamdiskRw(sec) ==
  IF sec \div (BLOCK_SIZE \div 512) >= FSIMG_SIZE THEN -1 ELSE 0

\* Mutant: the status byte written for the opposite outcome.
StatusOfSwapped(ret) == IF ret # 0 THEN "ok" ELSE "ee"

\* The status byte virtio_blk_process_desc writes for ramdisk_rw's result.
StatusOf(ret) == IF ret = 0 THEN "ok" ELSE "ee"

\* A QUEUE_NOTIFY write of the guest on core c traps and calls
\* virtio_blk_req_handler, whose first step is spin_lock's ticket draw.
NotifyTrap(c) ==
  /\ hpc[c] = "guest" /\ c \in kick
  /\ kick' = kick \ {c}
  /\ hpc' = [hpc EXCEPT ![c] = "lock"]
  /\ UNCHANGED <<desc, avail, avail_idx, used, used_idx, last_avail, status,
                 sector, ticket, next, my, cur, irq, free, guest_used, pub, setup>>

\* spin_lock, first loop: ldaxr/stxr takes a ticket.
SpinLockTicket(c) ==
  /\ hpc[c] = "lock"
  /\ my' = [my EXCEPT ![c] = ticket]
  /\ ticket' = ticket + 1
  /\ hpc' = [hpc EXCEPT ![c] = "wait"]
  /\ UNCHANGED <<desc, avail, avail_idx, used, used_idx, last_avail, status,
                 sector, next, cur, irq, kick, free, guest_used, pub, setup>>

\* Mutant: the wait loop never compares its ticket with next.
SpinLockWaitNoTurn(c) ==
  /\ hpc[c] = "wait"
  /\ hpc' = [hpc EXCEPT ![c] = "loop"]
  /\ UNCHANGED <<desc, avail, avail_idx, used, used_idx, last_avail, status,
                 sector, ticket, next, my, cur, irq, kick, free, guest_used, pub, setup>>

\* spin_lock, second loop: wait until next reaches the ticket.
SpinLockWait(c) ==
  /\ hpc[c] = "wait"
  /\ next = my[c]
  /\ hpc' = [hpc EXCEPT ![c] = "loop"]
  /\ UNCHANGED <<desc, avail, avail_idx, used, used_idx, last_avail, status,
                 sector, ticket, next, my, cur, irq, kick, free, guest_used, pub, setup>>

\* One test of the while loop: virtq_available(); if true, fetch the head
\* at avail->ring[avail_idx % vring_num] and process its chain: a chain of
\* three gets its status byte, any other length is returned as is.  A
\* chain that overruns the local array stops the core ("overrun").
ReqLoop(c) ==
  /\ hpc[c] = "loop"
  /\ IF last_avail # avail_idx
     THEN LET h == avail[last_avail % NUM]
              len == ChainLen(desc, h, 0)
          IN /\ cur' = [cur EXCEPT ![c] = [head |-> h, len |-> len]]
             /\ status' = IF len = 3
                          THEN [status EXCEPT ![h] = StatusOf(RamdiskRw(sector[h]))]
                          ELSE status
             /\ hpc' = [hpc EXCEPT ![c] = IF len > NUM THEN "overrun" ELSE "elem"]
     ELSE /\ hpc' = [hpc EXCEPT ![c] = "unlock"]
          /\ UNCHANGED <<cur, status, setup>>
  /\ UNCHANGED <<desc, avail, avail_idx, used, used_idx, last_avail, sector,
                 ticket, next, my, irq, kick, free, guest_used, pub, setup>>

\* vqueue_set_used_elem, before its first barrier: the element is written
\* at used->ring[used->idx % vring_num].
SetUsedElem(c) ==
  /\ hpc[c] = "elem"
  /\ used' = [used EXCEPT ![used_idx % NUM] =
                [id |-> cur[c].head, len |-> cur[c].len]]
  /\ hpc' = [hpc EXCEPT ![c] = "bump"]
  /\ UNCHANGED <<desc, avail, avail_idx, used_idx, last_avail, status, sector,
                 ticket, next, my, cur, irq, kick, free, guest_used, pub, setup>>

\* Mutant: the iteration never advances g_vq.avail_idx.
UsedBumpNoCursor(c) ==
  /\ hpc[c] = "bump"
  /\ used_idx' = used_idx + 1
  /\ hpc' = [hpc EXCEPT ![c] = "loop"]
  /\ UNCHANGED <<desc, avail, avail_idx, used, last_avail, status, sector,
                 ticket, next, my, cur, irq, kick, free, guest_used, pub, setup>>

\* Mutant: the handler serves one request per notify and leaves the loop.
UsedBumpOnce(c) ==
  /\ hpc[c] = "bump"
  /\ used_idx' = used_idx + 1
  /\ last_avail' = last_avail + 1
  /\ hpc' = [hpc EXCEPT ![c] = "unlock"]
  /\ UNCHANGED <<desc, avail, avail_idx, used, status, sector, ticket, next,
                 my, cur, irq, kick, free, guest_used, pub, setup>>

\* The rest of the iteration: used->idx += 1 between the barriers, then
\* ++g_vq.avail_idx.
UsedBump(c) ==
  /\ hpc[c] = "bump"
  /\ used_idx' = used_idx + 1
  /\ last_avail' = last_avail + 1
  /\ hpc' = [hpc EXCEPT ![c] = "loop"]
  /\ UNCHANGED <<desc, avail, avail_idx, used, status, sector, ticket, next,
                 my, cur, irq, kick, free, guest_used, pub, setup>>

\* spin_unlock: next += 1.
SpinUnlock(c) ==
  /\ hpc[c] = "unlock"
  /\ next' = next + 1
  /\ hpc' = [hpc EXCEPT ![c] = "signal"]
  /\ UNCHANGED <<desc, avail, avail_idx, used, used_idx, last_avail, status,
                 sector, ticket, my, cur, irq, kick, free, guest_used, pub, setup>>

\* virtio_signal_vq: gic_set_pending_irq(VIRTIO0_IRQ); then the trap
\* returns to the guest.
SignalVq(c) ==
  /\ hpc[c] = "signal"
  /\ irq' = TRUE
  /\ hpc' = [hpc EXCEPT ![c] = "guest"]
  /\ UNCHANGED <<desc, avail, avail_idx, used, used_idx, last_avail, status,
                 sector, ticket, next, my, cur, kick, free, guest_used, pub, setup>>

-----------------------------------------------------------------------------
(* Guest side: the xv6 driver (virtio_disk.c), not code of this            *)
(* repository.  Each step is one critical section of its vdisk_lock.       *)

\* virtio_disk_init, as accesses: a read must return a value in lo..hi,
\* else the driver panics; a write stores val.  Features read as 0 are
\* written back as 0; the status accumulates ACKNOWLEDGE, DRIVER,
\* FEATURES_OK, DRIVER_OK.
R(reg, lo, hi) == [op |-> "r", reg |-> reg, lo |-> lo, hi |-> hi, val |-> 0]
W(reg, val) == [op |-> "w", reg |-> reg, lo |-> 0, hi |-> 0, val |-> val]
Probe ==
  << R("MAGIC_VALUE", 1953655158, 1953655158), R("VERSION", 1, 1),
     R("DEVICE_ID", 2, 2), R("VENDOR_ID", 1431127377, 1431127377),
     W("STATUS", 1), W("STATUS", 3), R("DEVICE_FEATURES", 0, 2147483647),
     W("DRIVER_FEATURES", 0), W("STATUS", 11), W("STATUS", 15),
     W("GUEST_PAGE_SIZE", 4096), W("QUEUE_SEL", 0),
     R("QUEUE_NUM_MAX", NUM, 65535), W("QUEUE_NUM", NUM),
     W("QUEUE_PFN", RingPfn) >>

\* The driver's probe has finished, or it has called panic().
DrvUp == Len(Probe) + 1
DrvPanic == 0

\* One access of the probe on the boot vCPU: it traps, mmio_emulate calls
\* the read or write handler, and the guest resumes.
DriverInit ==
  LET a == Probe[drv]
      nxt == drv + 1
      v == MmioRead(a.reg)
  IN
  /\ drv \in 1..Len(Probe) /\ hpc[Boot] = "guest"
  /\ IF a.op = "r"
     THEN IF v = Fault THEN Panic(Boot) /\ UNCHANGED drv
          ELSE /\ drv' = IF v # Keep /\ a.lo <= v /\ v <= a.hi THEN nxt ELSE DrvPanic
               /\ UNCHANGED <<pagesz, qsel, vnum, vring, ticket, next, hpc>>
     ELSE MmioWrite(Boot, a.reg, a.val) /\ drv' = nxt
  /\ UNCHANGED <<desc, avail, avail_idx, used, used_idx, last_avail, status,
                 sector, my, cur, irq, kick, free, guest_used, pub>>

\* The descriptors free_chain releases: it follows NEXT flags from the head.
RECURSIVE Chain(_, _)
Chain(d, i) ==
  IF d[i].flag /\ d[i].next < NUM THEN {i} \cup Chain(d, d[i].next) ELSE {i}

\* virtio_disk_rw: alloc3_desc takes the three lowest free descriptors,
\* chains them, sets the status byte to 0xff, puts the head in the avail
\* ring, bumps avail->idx and leaves the QUEUE_NOTIFY write owed.
Publish(c, sec) ==
  /\ drv = DrvUp /\ hpc[c] = "guest"
  /\ avail_idx < MaxReqs
  /\ Cardinality(free) >= 3
  /\ LET d0 == Min(free)
         d1 == Min(free \ {d0})
         d2 == Min(free \ {d0, d1})
     IN /\ desc' = [desc EXCEPT ![d0] = [flag |-> TRUE, next |-> d1],
                                ![d1] = [flag |-> TRUE, next |-> d2],
                                ![d2] = [flag |-> FALSE, next |-> 0]]
        /\ free' = free \ {d0, d1, d2}
        /\ status' = [status EXCEPT ![d0] = "ff"]
        /\ sector' = [sector EXCEPT ![d0] = sec]
        /\ avail' = [avail EXCEPT ![avail_idx % NUM] = d0]
        /\ pub' = Append(pub, [head |-> d0, sector |-> sec])
  /\ avail_idx' = avail_idx + 1
  /\ kick' = kick \cup {c}
  /\ UNCHANGED <<used, used_idx, last_avail, ticket, next, my, hpc, cur, irq,
                 guest_used, setup>>

\* virtio_disk_intr on a core running the guest: it takes the interrupt,
\* reads every used element up to used->idx and frees each chain.
Intr(c) ==
  /\ hpc[c] = "guest" /\ irq
  /\ LET done == UNION {Chain(desc, used[k % NUM].id) : k \in guest_used..(used_idx - 1)}
     IN /\ free' = free \cup done
        /\ desc' = [i \in Descs |-> IF i \in done THEN [flag |-> FALSE, next |-> 0]
                                                  ELSE desc[i]]
  /\ irq' = FALSE
  /\ guest_used' = used_idx
  /\ UNCHANGED <<avail, avail_idx, used, used_idx, last_avail, status, sector,
                 ticket, next, my, hpc, cur, kick, pub, setup>>

\* The guest has made its last request and every one has completed.
Finished ==
  /\ guest_used = MaxReqs /\ ~irq /\ kick = {}
  /\ \A c \in CPUs : hpc[c] = "guest"
  /\ UNCHANGED vars

-----------------------------------------------------------------------------

\* The state at boot: g_vq, guest_pagesz and g_queue_sel are zero
\* statics, the driver's ring pages are zeroed, and the driver is about
\* to start its probe.
Init ==
  /\ desc = [i \in Descs |-> [flag |-> FALSE, next |-> 0]]
  /\ avail = [i \in Descs |-> 0]
  /\ used = [i \in Descs |-> [id |-> 0, len |-> 0]]
  /\ avail_idx = 0 /\ used_idx = 0 /\ last_avail = 0 /\ guest_used = 0
  /\ status = [i \in Descs |-> "ff"]
  /\ sector = [i \in Descs |-> CHOOSE s \in Sectors : TRUE]
  /\ ticket = 0 /\ next = 0 /\ my = [c \in CPUs |-> 0]
  /\ hpc = [c \in CPUs |-> "guest"]
  /\ cur = [c \in CPUs |-> [head |-> 0, len |-> 0]]
  /\ irq = FALSE /\ kick = {} /\ free = Descs /\ pub = <<>>
  /\ pagesz = 0 /\ qsel = 0 /\ vnum = 0 /\ vring = NoRing /\ drv = 1

Next ==
  \/ \E c \in CPUs :
       \/ NotifyTrap(c) \/ SpinLockTicket(c) \/ SpinLockWait(c)
       \/ ReqLoop(c) \/ SetUsedElem(c) \/ UsedBump(c)
       \/ SpinUnlock(c) \/ SignalVq(c) \/ Intr(c)
       \/ \E s \in Sectors : Publish(c, s)
  \/ DriverInit
  \/ Finished

\* A trapped core runs its handler to the end: each step stays enabled
\* until taken (the ticket lock hands the lock to the lowest ticket).  The
\* driver writes QUEUE_NOTIFY right after publishing, and a pending
\* interrupt is taken by some core running the guest.
Fairness ==
  /\ \A c \in CPUs :
       /\ WF_vars(NotifyTrap(c)) /\ WF_vars(SpinLockTicket(c))
       /\ WF_vars(SpinLockWait(c)) /\ WF_vars(ReqLoop(c))
       /\ WF_vars(SetUsedElem(c)) /\ WF_vars(UsedBump(c))
       /\ WF_vars(SpinUnlock(c)) /\ WF_vars(SignalVq(c))
  /\ WF_vars(\E c \in CPUs : Intr(c))

Spec == Init /\ [][Next]_vars /\ Fairness

-----------------------------------------------------------------------------
(* Properties.                                                             *)

TypeOK ==
  /\ desc \in [Descs -> [flag : BOOLEAN, next : 0..NUM]]
  /\ avail \in [Descs -> Descs]
  /\ avail_idx \in 0..MaxReqs /\ used_idx \in 0..MaxReqs
  /\ last_avail \in 0..MaxReqs /\ guest_used \in 0..MaxReqs
  /\ used \in [Descs -> [id : Descs, len : 0..(NUM + 1)]]
  /\ status \in [Descs -> {"ff", "ok", "ee"}]
  /\ sector \in [Descs -> Sectors]
  /\ ticket \in Nat /\ next \in Nat /\ my \in [CPUs -> Nat]
  /\ hpc \in [CPUs -> Pcs]
  /\ cur \in [CPUs -> [head : Descs, len : 0..(NUM + 1)]]
  /\ irq \in BOOLEAN /\ kick \subseteq CPUs /\ free \subseteq Descs
  /\ pub \in Seq([head : Descs, sector : Sectors])
  /\ pagesz \in Nat /\ qsel \in Nat /\ vnum \in Nat
  /\ vring \in {NoRing} \cup [ipa : Addr, desc : Addr, avail : Addr, used : Addr]
  /\ drv \in 0..DrvUp

\* Every used element the guest can read (from its cursor up to
\* used->idx) is the completion of the request published at that position,
\* with its status byte already written.  Two cores' notify handlers, the
\* used-ring writes split by barriers, and the guest's interrupt handler
\* on a third all touch these indices; a completion seen early, twice, or
\* for the wrong chain breaks it.
VisibleUsedCorrect ==
  /\ guest_used <= used_idx /\ used_idx <= Len(pub)
  /\ \A k \in guest_used..(used_idx - 1) :
       /\ used[k % NUM].id = pub[k + 1].head
       /\ status[pub[k + 1].head] # "ff"

\* The used elements the guest has not consumed yet, oldest first, each
\* with the status byte of the chain it names.
UsedWindow ==
  [i \in 1..(used_idx - guest_used) |->
     LET e == used[(guest_used + i - 1) % NUM]
     IN [head |-> e.id, st |-> status[e.id]]]

Queue == INSTANCE BlkQueue
  WITH Heads <- Descs, reqs <- pub, done <- used_idx, seen <- guest_used,
       out <- UsedWindow

\* The device behaves as BlkQueue: requests complete one at a time, in
\* the order the guest published them, each exposed (used->idx bumped)
\* only after its element and its status byte ramdisk_rw's result
\* decides are written, and every request is eventually completed and
\* consumed, although one QUEUE_NOTIFY may stand for several requests and
\* a notify may find the lock held by another core.
ImplementsBlkQueue == Queue!QSpec

\* The driver's probe succeeds on this device, and from then on the queue
\* the notify handler serves is the one the driver set up: vring_num is
\* the driver's queue size, the guest page size is accepted, and desc,
\* avail and used are the host addresses of the rings the driver laid out
\* in its two pages (avail after NUM descriptors, used on the next page).
\* It needs the whole register sequence of virtio_mmio_read and
\* virtio_mmio_write and vq_ring_init's address arithmetic to agree.
DriverConfigured ==
  /\ drv # DrvPanic /\ \A c \in CPUs : hpc[c] # "panic"
  /\ drv = DrvUp =>
       /\ vnum = NUM /\ pagesz = PAGE_SIZE
       /\ vring = [ipa |-> <<RingPfn, 0>>,
                   desc |-> VirtioGuestToHost(<<RingPfn, 0>>),
                   avail |-> VirtioGuestToHost(<<RingPfn, NUM * DescSize>>),
                   used |-> VirtioGuestToHost(<<RingPfn + 1, 0>>)]

====
