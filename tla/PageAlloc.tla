------------------------------ MODULE PageAlloc ------------------------------
(***************************************************************************)
(* The bitmap physical page allocator of src/src/page_alloc.c.             *)
(*                                                                         *)
(* alloc_pages and free_pages run entirely under g_allocator.lock, so      *)
(* each is one atomic step.  Page frames are numbered relative to          *)
(* base_pfn (the model never needs the physical address).  The bitmap is   *)
(* the set of frame numbers whose bit is set; it is a set of naturals, not *)
(* of 0..TotalPages-1, because alloc_pages sets the bits of whatever range *)
(* __find_free_range returns.                                              *)
(*                                                                         *)
(* "granted" is a history variable: the ranges handed out and not yet     *)
(* given back, each as <<start, nr_pages>>.  Callers free exactly what     *)
(* they were granted (mmu.c pageunmap frees the pages it mapped).          *)
(***************************************************************************)
EXTENDS Integers, FiniteSets

CONSTANTS
  TotalPages,  \* g_allocator.total_pages (RAM_PAGE_NUM)
  ReqSizes     \* the nr_pages values callers pass to alloc_pages

ASSUME TotalPages \in Nat \ {0}
ASSUME ReqSizes \subseteq 1..TotalPages

VARIABLES
  bitmap,      \* frames whose bit is set in g_allocator.bitmap
  last_alloc,  \* g_allocator.last_alloc, the search cursor
  granted,     \* history: ranges returned by alloc_pages, not freed yet
  req,         \* history: nr_pages of this step's alloc_pages, 0 for a free
  ret          \* history: the frame alloc_pages last returned, or NotFound

vars == <<bitmap, last_alloc, granted, req, ret>>

\* -1ULL, the failure value of __find_free_range and alloc_pages.
NotFound == -1

Frames == 0..(TotalPages - 1)

\* The frames of a range <<start, n>>.
Pages(r) == r[1]..(r[1] + r[2] - 1)

TypeOK ==
  /\ bitmap \subseteq Frames
  /\ last_alloc \in 0..TotalPages
  /\ granted \subseteq (Frames \X ReqSizes)
  /\ req \in ReqSizes \cup {0}
  /\ ret \in Frames \cup {NotFound}

(***************************************************************************)
(* __find_free_range.  Both of its loops are the same scan over [lo, hi):  *)
(* a free bit starts a run (cnt = 0) or extends it, a set bit resets cnt.  *)
(* The second loop starts with the cnt and start the first one left.      *)
(***************************************************************************)

\* Mutant: the loop bound is i <= hi.
RECURSIVE ScanPastEnd(_, _, _, _, _)
ScanPastEnd(i, hi, cnt, start, n) ==
  IF i > hi THEN [found |-> FALSE, cnt |-> cnt, start |-> start]
  ELSE IF i \notin bitmap
       THEN LET s == IF cnt = 0 THEN i ELSE start IN
            IF cnt + 1 >= n THEN [found |-> TRUE, cnt |-> cnt + 1, start |-> s]
            ELSE ScanPastEnd(i + 1, hi, cnt + 1, s, n)
       ELSE ScanPastEnd(i + 1, hi, 0, start, n)

RECURSIVE Scan(_, _, _, _, _)
Scan(i, hi, cnt, start, n) ==
  IF i >= hi THEN [found |-> FALSE, cnt |-> cnt, start |-> start]
  ELSE IF i \notin bitmap
       THEN LET s == IF cnt = 0 THEN i ELSE start IN
            IF cnt + 1 >= n THEN [found |-> TRUE, cnt |-> cnt + 1, start |-> s]
            ELSE Scan(i + 1, hi, cnt + 1, s, n)
       ELSE Scan(i + 1, hi, 0, start, n)

\* Mutant: the search starts after the cursor (i = last_alloc + 1).
FindFreeRangeSkipCursor(n) ==
  LET up   == Scan(last_alloc + 1, TotalPages, 0, 0, n)
      wrap == Scan(0, last_alloc, up.cnt, up.start, n)
  IN  IF up.found THEN up.start
      ELSE IF wrap.found THEN wrap.start
      ELSE NotFound

FindFreeRange(n) ==
  LET up   == Scan(last_alloc, TotalPages, 0, 0, n)
      wrap == Scan(0, last_alloc, up.cnt, up.start, n)
  IN  IF up.found THEN up.start
      ELSE IF wrap.found THEN wrap.start
      ELSE NotFound

(***************************************************************************)
(* Operations.                                                             *)
(***************************************************************************)

\* page_allocator_init(g_bitmap, RAM_PAGE_NUM, ram_start).  Its memset
\* clears (total_pages + 63) / 64 bytes, fewer than the bitmap holds; the
\* rest of g_bitmap is zero because it is a zero-initialised global.
Init ==
  /\ bitmap = {}
  /\ last_alloc = 0
  /\ granted = {}
  /\ req = 0
  /\ ret = NotFound

\* alloc_pages(n): alloc_page() is alloc_pages(1).
AllocPages(n) ==
  /\ req' = n
  /\ IF n = 0 \/ n > TotalPages
     THEN /\ ret' = NotFound
          /\ UNCHANGED <<bitmap, last_alloc, granted>>
     ELSE LET start == FindFreeRange(n) IN
          IF start = NotFound
          THEN /\ ret' = NotFound
               /\ UNCHANGED <<bitmap, last_alloc, granted>>
          ELSE /\ bitmap' = bitmap \cup Pages(<<start, n>>)
               /\ last_alloc' = start + n
               /\ granted' = granted \cup {<<start, n>>}
               /\ ret' = start

\* Mutant: the clearing loop stops one frame short (i < start + n - 1).
ClearShort(start, n) == bitmap \ (start..(start + n - 2))

\* The bits free_pages clears.
Clear(start, n) == bitmap \ (start..(start + n - 1))

\* free_pages(pfn_to_phy(base_pfn + start), n) of a granted range.
FreePages(start, n) ==
  /\ <<start, n>> \in granted
  /\ IF start + n > TotalPages
     THEN UNCHANGED <<bitmap, last_alloc, granted, ret>>
     ELSE /\ bitmap' = Clear(start, n)
          /\ last_alloc' = IF start < last_alloc THEN start ELSE last_alloc
          /\ granted' = granted \ {<<start, n>>}
          /\ UNCHANGED ret
  /\ req' = 0

Next ==
  \/ \E n \in ReqSizes : AllocPages(n)
  \/ \E r \in granted : FreePages(r[1], r[2])

Spec == Init /\ [][Next]_vars

(***************************************************************************)
(* Reference: the allocator the spec describes (section 4.1): n contiguous *)
(* free frames inside the managed range, the first such run found by a     *)
(* search that starts at last_alloc and wraps once.                        *)
(***************************************************************************)

\* The circular distance of a candidate start from the cursor.
FromCursor(s) == IF s >= last_alloc THEN s - last_alloc
                 ELSE s + TotalPages - last_alloc

FreeRuns(n) == {s \in Frames : s + n <= TotalPages /\ Pages(<<s, n>>) \cap bitmap = {}}

CircularFirstFit(n) ==
  IF FreeRuns(n) = {} THEN NotFound
  ELSE CHOOSE s \in FreeRuns(n) : \A t \in FreeRuns(n) : FromCursor(s) <= FromCursor(t)

(***************************************************************************)
(* Properties.                                                             *)
(***************************************************************************)

\* Every bit of the bitmap reflects ownership by exactly one caller: the
\* set bits are exactly the frames of the ranges alloc_pages granted and
\* free_pages has not taken back, and no two granted ranges share a frame.
BitmapReflectsOwnership ==
  /\ bitmap = UNION {Pages(r) : r \in granted}
  /\ \A r1, r2 \in granted : r1 # r2 => Pages(r1) \cap Pages(r2) = {}

\* Every alloc_pages step returns what the reference allocator returns for
\* the bitmap and cursor it started from: a run of free frames inside the
\* managed range when one exists, and -1ULL only when none does.
AllocIsCircularFirstFit ==
  [][req' # 0 => ret' = CircularFirstFit(req')]_vars

=============================================================================
