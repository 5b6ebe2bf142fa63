------------------------------- MODULE VmBuild -------------------------------
(***************************************************************************)
(* Construction of the guest's stage-2 address space by create_vm          *)
(* (src/src/vm.c), with pagewalk / pagemap / pageunmap of mmu.c, the MMIO  *)
(* traps of s2_pt_trap and the vGIC SPI page of new_vgic, over the page    *)
(* allocator of page_alloc.c (module PageAlloc).                           *)
(*                                                                         *)
(* create_vm runs once on the boot core before any vCPU runs, so it is a   *)
(* sequential program: pc names the statement it is at.  Each step does at *)
(* most one alloc_page; a pagemap is split into one step per table level   *)
(* (WalkLevel) and one for the leaf (MapLeaf), and returns to "back".      *)
(*                                                                         *)
(* Addresses follow the QEMU virt layout the guest is linked for          *)
(* (entrypoint 0x40000000, UART 0x09000000, GICD 0x08000000, GICR          *)
(* 0x080A0000, virtio 0x0a000000); an IPA is its tuple of table indices.   *)
(* Each MMIO window is abstracted to its first page.                       *)
(***************************************************************************)
EXTENDS Integers, Sequences, FiniteSets

CONSTANTS
  TotalPages,  \* frames managed by the page allocator
  Layouts      \* possible images: [file, mem, ram] sizes in pages

VARIABLES
  bitmap, last_alloc, granted, req, ret,  \* the page allocator
  tbl,     \* contents of every frame used as a table: frame -> index -> PTE
  s2pt,    \* vm->stage2_pt (a frame, Wild, or NullPtr)
  pc,      \* the statement create_vm is at
  p,       \* the loop variable p of create_vm, in pages
  walk,    \* pagewalk in progress: [at: current table, level]
  tgt,     \* the pagemap in progress: [ipa, pa]
  back,    \* where create_vm continues after the pagemap
  spis,    \* vgic->spis (a frame, Wild, or NullPtr)
  mmio,    \* vm->mmio_list, newest first
  layout   \* the image and vmconfig being built

alloc_vars == <<bitmap, last_alloc, granted, req, ret>>
vars == <<bitmap, last_alloc, granted, req, ret, tbl, s2pt, pc, p, walk,
          tgt, back, spis, mmio, layout>>

PA == INSTANCE PageAlloc WITH ReqSizes <- {1}

\* PTE_PA((u64)-1): the address a failed alloc_page leaves in a pointer.
Wild == PA!NotFound

Idx == {0, 1, 2, 3, 64, 72, 80, 160}

INSTANCE Stage2 WITH Frames <- PA!Frames

RamBase  == 262144   \* ram_start >> PAGE_SHIFT (some page of host RAM)
UartPage == 36864    \* UARTBASE >> PAGE_SHIFT

RamIpa(k) == <<0, 1, 0, k>>    \* vmcfg->entrypoint + k * PAGE_SIZE
UartIpa   == <<0, 0, 72, 0>>   \* UARTBASE
TrapIpa   == [virtio |-> <<0, 0, 80, 0>>, gicd |-> <<0, 0, 64, 0>>,
              gicr |-> <<0, 0, 64, 160>>]
Regions == {"virtio", "gicd", "gicr"}

\* The page number of an IPA (ipa >> PAGE_SHIFT).  Each MMIO window is
\* registered as one page here.
IpaPage(ipa) == ((ipa[1] * 512 + ipa[2]) * 512 + ipa[3]) * 512 + ipa[4]
WindowPages == {IpaPage(TrapIpa[r]) : r \in Regions}
MmioInfo == [ipa_base : WindowPages, size : {1}, handler : Regions]

Halted == {"done", "panic", "wild"}
Pcs == {"root", "img", "mem", "ram", "map", "uart", "spis"} \cup Regions \cup Halted

NoTarget == [ipa |-> <<0, 0, 0, 0>>, pa |-> 0]

\* Mutant: the allocator's frame number is used without base_pfn.
PhysPageNoBase(f) == f

\* pfn_to_phy(g_allocator.base_pfn + start_page), as a page number.
PhysPage(f) == RamBase + f

PhysPages == {RamBase + f : f \in PA!Frames} \cup {UartPage}

\* "NULL == ptr": no frame of RAM is at address 0, and -1ULL is not 0.
IsNull(r) == r = NullPtr

TypeOK ==
  /\ PA!TypeOK
  /\ tbl \in [PA!Frames -> [Idx -> [kind : {"none"}, pa : {0}]
                                   \cup [kind : {"table"}, pa : PA!Frames \cup {Wild}]
                                   \cup [kind : {"page"}, pa : PhysPages]]]
  /\ s2pt \in PA!Frames \cup {Wild, NullPtr}
  /\ spis \in PA!Frames \cup {Wild, NullPtr}
  /\ pc \in Pcs
  /\ walk \in [at : PA!Frames \cup {Wild, NullPtr}, level : 0..3]
  /\ tgt.pa \in PhysPages \cup {0}
  /\ mmio \in Seq(MmioInfo)

(***************************************************************************)
(* create_vm's loops.  Sizes are in pages: the loops run p over            *)
(* [0, file), [file, mem) and [mem, ram), because p advances by whole      *)
(* pages and each loop continues from where the previous one stopped.      *)
(***************************************************************************)

\* Mutant: the RAM loop stops one page early.
BoundShort(loop) ==
  CASE loop = "img" -> layout.file
    [] loop = "mem" -> layout.mem
    [] loop = "ram" -> layout.ram - 1

Bound(loop) ==
  CASE loop = "img" -> layout.file
    [] loop = "mem" -> layout.mem
    [] loop = "ram" -> layout.ram

After == [img |-> "mem", mem |-> "ram", ram |-> "uart"]

\* A failed alloc_page in a loop: the image loops memcpy/memset through
\* the -1 pointer; the RAM loop passes pa = -1 to pagemap, whose alignment
\* check panics.
OnAllocFail(loop) == IF loop = "ram" THEN "panic" ELSE "wild"

\* pagemap(vm->stage2_pt, ipa, pa, PAGE_SIZE, attr), up to its pagewalk.
StartMap(ipa, pa, next) ==
  /\ tgt' = [ipa |-> ipa, pa |-> pa]
  /\ walk' = [at |-> s2pt, level |-> 0]
  /\ back' = next
  /\ pc' = "map"

(***************************************************************************)
(* Steps.                                                                  *)
(***************************************************************************)

\* vm->stage2_pt = alloc_page(), checked against NULL only.
AllocRoot ==
  /\ pc = "root"
  /\ PA!AllocPages(1)
  /\ s2pt' = ret'
  /\ pc' = IF IsNull(ret') THEN "panic" ELSE "img"
  /\ UNCHANGED <<tbl, p, walk, tgt, back, spis, mmio, layout>>

\* One iteration of a create_vm loop: allocate a page, fill it, map it.
GuestPage(loop) ==
  /\ pc = loop
  /\ p < Bound(loop)
  /\ PA!AllocPages(1)
  /\ IF IsNull(ret') THEN /\ pc' = "panic"
                          /\ UNCHANGED <<p, walk, tgt, back>>
     ELSE IF ret' = PA!NotFound THEN /\ pc' = OnAllocFail(loop)
                                     /\ UNCHANGED <<p, walk, tgt, back>>
     ELSE /\ StartMap(RamIpa(p), PhysPage(ret'), loop)
          /\ p' = p + 1
  /\ UNCHANGED <<tbl, s2pt, spis, mmio, layout>>

LoopExit(loop) ==
  /\ pc = loop
  /\ p >= Bound(loop)
  /\ pc' = After[loop]
  /\ UNCHANGED <<alloc_vars, tbl, s2pt, p, walk, tgt, back, spis, mmio, layout>>

\* Mutant: the valid table descriptor is not recognised, so every walk
\* allocates a fresh table.
DescendsNever(e) == FALSE

\* (*pte & PTE_VALID) && (*pte & PTE_TABLE)
Descends(e) == e.kind = "table"

\* One level of pagewalk(pgt, va, 1): follow the table descriptor, or
\* allocate a table and link it.  A table pointer of -1 is dereferenced.
WalkLevel ==
  /\ pc = "map"
  /\ walk.level < 3
  /\ IF walk.at = Wild
     THEN /\ pc' = "wild"
          /\ UNCHANGED <<alloc_vars, tbl, walk>>
     ELSE LET i == tgt.ipa[walk.level + 1]
              e == tbl[walk.at][i]
          IN \/ /\ Descends(e)
                /\ walk' = [at |-> e.pa, level |-> walk.level + 1]
                /\ UNCHANGED <<alloc_vars, tbl, pc>>
             \/ /\ ~Descends(e)
                /\ PA!AllocPages(1)
                /\ IF IsNull(ret')
                   THEN /\ pc' = "panic"
                        /\ UNCHANGED <<tbl, walk>>
                   ELSE /\ tbl' = [tbl EXCEPT ![walk.at][i] = TableDesc(ret')]
                        /\ walk' = [at |-> ret', level |-> walk.level + 1]
                        /\ UNCHANGED pc
  /\ UNCHANGED <<s2pt, p, tgt, back, spis, mmio, layout>>

\* The rest of pagemap: refuse an entry with the access flag, else write
\* the page descriptor.
MapLeaf ==
  /\ pc = "map"
  /\ walk.level = 3
  /\ IF walk.at = Wild THEN /\ pc' = "wild"
                            /\ UNCHANGED tbl
     ELSE IF tbl[walk.at][tgt.ipa[4]].kind # "none"
     THEN /\ pc' = "panic"
          /\ UNCHANGED tbl
     ELSE /\ tbl' = [tbl EXCEPT ![walk.at][tgt.ipa[4]] = PageDesc(tgt.pa)]
          /\ pc' = back
  /\ UNCHANGED <<alloc_vars, s2pt, p, walk, tgt, back, spis, mmio, layout>>

\* pagemap(vm->stage2_pt, UARTBASE, UARTBASE, PAGE_SIZE, DEVICE|RW).
MapUart ==
  /\ pc = "uart"
  /\ StartMap(UartIpa, UartPage, "virtio")
  /\ UNCHANGED <<alloc_vars, tbl, s2pt, p, spis, mmio, layout>>

\* new_vgic: vgic->spis = alloc_page(), not checked at all.
AllocSpis ==
  /\ pc = "spis"
  /\ PA!AllocPages(1)
  /\ spis' = ret'
  /\ pc' = "gicd"
  /\ UNCHANGED <<tbl, s2pt, p, walk, tgt, back, mmio, layout>>

\* pageunmap of a mapped page at slot s: free the page (free_pages refuses
\* an address outside the managed range) and clear the entry.
Unmap(s) ==
  LET f == Leaf(tbl, s).pa - RamBase IN
  /\ tbl' = [tbl EXCEPT ![s[1]][s[2]] = Zero]
  /\ IF f \in PA!Frames /\ <<f, 1>> \in granted
     THEN PA!FreePages(f, 1)
     ELSE UNCHANGED alloc_vars

\* mmio_reg_handler(vm, ipa, size, read, write): take a record from the pool
\* of 64 (three are ever used, so it never runs out) and link it at the
\* head of vm->mmio_list.
MmioRegHandler(r) ==
  mmio' = <<[ipa_base |-> IpaPage(TrapIpa[r]), size |-> 1, handler |-> r]>> \o mmio

\* What mmio_emulate(vcpu, reg_idx, access) calls: the read or write handler
\* of the first record on vm->mmio_list whose [ipa_base, ipa_base + size)
\* holds the page, with the offset into it, or nothing for an empty list
\* or no match.  Every window registers both handlers.
NoHandler == [handler |-> "none", op |-> "none", offset |-> 0]

\* Mutant: the window's end is inclusive (ipa <= ipa_base + size).
RECURSIVE MmioEmulateInclusive(_, _, _)
MmioEmulateInclusive(list, page, wnr) ==
  IF list = <<>> THEN NoHandler
  ELSE IF Head(list).ipa_base <= page /\ page <= Head(list).ipa_base + Head(list).size
  THEN [handler |-> Head(list).handler, op |-> IF wnr THEN "write" ELSE "read",
        offset |-> page - Head(list).ipa_base]
  ELSE MmioEmulateInclusive(Tail(list), page, wnr)

RECURSIVE MmioEmulate(_, _, _)
MmioEmulate(list, page, wnr) ==
  IF list = <<>> THEN NoHandler
  ELSE IF Head(list).ipa_base <= page /\ page < Head(list).ipa_base + Head(list).size
  THEN [handler |-> Head(list).handler, op |-> IF wnr THEN "write" ELSE "read",
        offset |-> page - Head(list).ipa_base]
  ELSE MmioEmulate(Tail(list), page, wnr)

AfterTrap == [virtio |-> "spis", gicd |-> "gicr", gicr |-> "done"]

\* s2_pt_trap(vm, ipa, size, read, write): if pagewalk finds a leaf slot
\* for the window, pageunmap it (panic on a zero entry), then register
\* the MMIO handler.  vcpu_ready follows the last trap.
Trap(r) ==
  /\ pc = r
  /\ LET s == Lookup(tbl, s2pt, TrapIpa[r]) IN
     CASE s = WildSlot ->
            /\ pc' = "wild"
            /\ UNCHANGED <<alloc_vars, tbl, mmio>>
       [] s # Null /\ Leaf(tbl, s) = Zero ->
            /\ pc' = "panic"
            /\ UNCHANGED <<alloc_vars, tbl, mmio>>
       [] OTHER ->
            /\ IF s = Null THEN UNCHANGED <<alloc_vars, tbl>> ELSE Unmap(s)
            /\ MmioRegHandler(r)
            /\ pc' = AfterTrap[r]
  /\ UNCHANGED <<s2pt, p, walk, tgt, back, spis, layout>>

Init ==
  /\ PA!Init
  /\ tbl = [f \in PA!Frames |-> EmptyTable]
  /\ s2pt = NullPtr
  /\ pc = "root"
  /\ p = 0
  /\ walk = [at |-> NullPtr, level |-> 0]
  /\ tgt = NoTarget
  /\ back = "root"
  /\ spis = NullPtr
  /\ mmio = <<>>
  /\ layout \in Layouts

Next ==
  \/ AllocRoot
  \/ \E loop \in {"img", "mem", "ram"} : GuestPage(loop) \/ LoopExit(loop)
  \/ WalkLevel
  \/ MapLeaf
  \/ MapUart
  \/ AllocSpis
  \/ \E r \in Regions : Trap(r)

Spec == Init /\ [][Next]_vars

(***************************************************************************)
(* What the tables own.  Level(k) is the set of table frames at depth k    *)
(* reachable from vm->stage2_pt; GuestLeaves the page descriptors of the   *)
(* last level that map RAM frames.                                         *)
(***************************************************************************)

RECURSIVE Level(_)
Level(k) ==
  IF k = 0 THEN {s2pt} \cap PA!Frames
  ELSE UNION {{tbl[t][i].pa : i \in {j \in Idx : tbl[t][j].kind = "table"}} :
               t \in Level(k - 1)} \cap PA!Frames

Slots == {<<t, i>> : t \in Level(3), i \in Idx}
GuestSlots == {s \in Slots : Leaf(tbl, s).kind = "page" /\ Leaf(tbl, s).pa # UartPage}
GuestFrames == {Leaf(tbl, s).pa - RamBase : s \in GuestSlots}

\* The page create_vm holds between alloc_page and the end of its pagemap.
InFlight == IF pc = "map" /\ tgt.pa # UartPage THEN {tgt.pa - RamBase} ELSE {}

GrantedFrames == UNION {PA!Pages(r) : r \in granted}

\* Every frame create_vm takes from the allocator has exactly one owner:
\* one stage-2 table (at one depth), one guest page mapped by exactly one
\* IPA, the vGIC SPI array, or the page being mapped; and nothing the
\* tables reach is a frame the allocator considers free.  A frame owned
\* twice would let the guest write a translation table or the vGIC state.
FrameOwnership ==
  LET owned == <<Level(0), Level(1), Level(2), Level(3), GuestFrames,
                 {spis} \cap PA!Frames, InFlight>>
  IN /\ GrantedFrames = UNION {owned[k] : k \in 1..7}
     /\ \A j, k \in 1..7 : j # k => owned[j] \cap owned[k] = {}
     /\ Cardinality(GuestSlots) = Cardinality(GuestFrames)

\* When create_vm returns, the guest's address space is the one it was
\* built for: every page of [entrypoint, entrypoint + ram_size) translates
\* to a RAM frame, the UART page translates to itself, the three MMIO
\* windows translate to nothing (so accesses trap), and mmio_emulate sends
\* an access to each window, read or write, to that window's handler at
\* its offset, and an access to a RAM page or to the page just past a
\* window to no handler.
BuiltLayout ==
  pc = "done" =>
    /\ \A k \in 0..(layout.ram - 1) :
         Translate(tbl, s2pt, RamIpa(k), 0)[1] \in {PhysPage(f) : f \in PA!Frames}
    /\ Translate(tbl, s2pt, UartIpa, 0) = <<UartPage, 0>>
    /\ \A r \in Regions : Translate(tbl, s2pt, TrapIpa[r], 0) = <<0, 0>>
    /\ \A r \in Regions, wnr \in BOOLEAN :
         MmioEmulate(mmio, IpaPage(TrapIpa[r]), wnr)
           = [handler |-> r, op |-> IF wnr THEN "write" ELSE "read", offset |-> 0]
    /\ \A pg \in {IpaPage(RamIpa(k)) : k \in 0..(layout.ram - 1)}
                \cup {IpaPage(TrapIpa[r]) + 1 : r \in Regions} :
         MmioEmulate(mmio, pg, TRUE) = NoHandler

\* Running out of frames is reported: no pointer create_vm, pagewalk or
\* new_vgic obtained from a failed alloc_page (-1ULL, which the NULL checks
\* do not catch) is ever dereferenced.
AllocFailureNeverUsed == pc # "wild" /\ spis # Wild

\* The IPAs a guest can hand to the hypervisor (virtio descriptors): every
\* modelled IPA and the neighbours of the mapped ones in their last-level
\* tables.
Probes == {RamIpa(k) : k \in 0..3} \cup {UartIpa, <<0, 0, 72, 1>>}
          \cup {TrapIpa[r] : r \in Regions}

\* ipa2pa returns 0 for every IPA the stage-2 table does not map, and the
\* mapped page plus the offset otherwise (the spec's "translate returns no
\* mapping after unmap or for an unmapped IPA").
TranslateMissIsZero ==
  pc = "done" =>
    \A ipa \in Probes : Ipa2Pa(tbl, s2pt, ipa, 1) = IF Translate(tbl, s2pt, ipa, 1) = <<0, 0>>
                                                 THEN <<0, 0>>
                                                 ELSE Translate(tbl, s2pt, ipa, 1)

\* vq_ring_init translates only the base IPA of the guest's virtqueue and
\* takes the used ring at that frame + PAGE_SIZE.  That is right only if
\* IPA-consecutive guest pages are backed by consecutive frames.
RamPagesContiguous ==
  pc = "done" =>
    \A k \in 0..2 :
      (/\ Translate(tbl, s2pt, RamIpa(k), 0) # <<0, 0>>
       /\ Translate(tbl, s2pt, RamIpa(k + 1), 0) # <<0, 0>>)
      => Ipa2Pa(tbl, s2pt, RamIpa(k + 1), 0)[1] = Ipa2Pa(tbl, s2pt, RamIpa(k), 0)[1] + 1

====
