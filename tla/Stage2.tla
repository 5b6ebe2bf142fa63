------------------------------- MODULE Stage2 -------------------------------
(***************************************************************************)
(* Stage-2 translation tables of src/src/mmu.c.                            *)
(*                                                                         *)
(* The tables live in allocator frames.  tbl[f][i] is entry i of the table *)
(* held in frame f.  An IPA is the tuple of its four table indices         *)
(* <<PIDX(0), PIDX(1), PIDX(2), PIDX(3)>>; only the indices the modelled   *)
(* addresses use are kept.  An entry is zero, a table descriptor (VALID |  *)
(* TABLE, pointing to a frame) or a page descriptor written by pagemap    *)
(* (with the access flag set).  A physical address is <<page, offset>>:    *)
(* page 0 is physical address 0, a RAM frame or a device page otherwise.   *)
(*                                                                         *)
(* This module holds the parts of mmu.c that only read the tables:         *)
(* pagewalk(pgt, va, 0) and ipa2pa.  The steps that allocate and write     *)
(* (pagewalk with need_alloc, pagemap, pageunmap) are actions of VmBuild,  *)
(* because each allocation is a step of the page allocator.                *)
(***************************************************************************)
EXTENDS Integers, Sequences

CONSTANTS
  Idx,      \* the table indices in use (PIDX values of the modelled IPAs)
  Frames,   \* allocator frames that can hold a table
  Wild      \* the frame PTE_PA((u64)-1) names: not a frame of RAM

Zero == [kind |-> "none", pa |-> 0]
TableDesc(f) == [kind |-> "table", pa |-> f]
PageDesc(pg) == [kind |-> "page", pa |-> pg]

\* An empty table: what a frame of a fresh boot holds.
EmptyTable == [i \in Idx |-> Zero]

\* The NULL table pointer (vm->stage2_pt before create_vm allocates it).
NullPtr == -2

\* The result of pagewalk(pgt, va, 0): the leaf slot <<frame, index>>, or
\* Null when some level has no table descriptor; WildSlot when a table
\* pointer leads to Wild and the walk would dereference it.
Null == <<NullPtr, 0>>
WildSlot == <<Wild, 0>>

RECURSIVE Descend(_, _, _, _)
Descend(tbl, t, ipa, level) ==
  IF t = Wild THEN WildSlot
  ELSE IF level = 3 THEN <<t, ipa[4]>>
  ELSE LET e == tbl[t][ipa[level + 1]] IN
       IF e.kind = "table" THEN Descend(tbl, e.pa, ipa, level + 1) ELSE Null

\* pagewalk(pgt, va, 0).
Lookup(tbl, pgt, ipa) == Descend(tbl, pgt, ipa, 0)

\* The entry a successful lookup lands on.
Leaf(tbl, slot) == tbl[slot[1]][slot[2]]

\* PTE_PA of an entry: the page a page or table descriptor names, and
\* physical page 0 for a zero entry.
PtePa(e) == e.pa

\* ipa2pa(pgt, ipa) for a byte offset off within the page: 0 for a NULL
\* table or a lookup miss, PTE_PA(*pte) + off otherwise.  The leaf's valid
\* bit is not tested.
Ipa2Pa(tbl, pgt, ipa, off) ==
  IF pgt = NullPtr THEN <<0, 0>>
  ELSE LET s == Lookup(tbl, pgt, ipa) IN
       IF s = Null THEN <<0, 0>>
       ELSE <<PtePa(Leaf(tbl, s)), off>>

\* The reference: what translation of an IPA means.  A mapped IPA gives
\* its page and the offset, anything else the "no mapping" result 0.
Translate(tbl, pgt, ipa, off) ==
  LET s == Lookup(tbl, pgt, ipa) IN
  IF s \notin {Null, WildSlot} /\ Leaf(tbl, s).kind = "page"
  THEN <<Leaf(tbl, s).pa, off>>
  ELSE <<0, 0>>

====
