--------------------------------- MODULE Mm ---------------------------------
(***************************************************************************)
(* Guest memory (src/src/mm/mmap.c, src/src/mm/mm.c).                      *)
(*                                                                         *)
(* A region of guest pages is backed by host memory.  noah keeps three     *)
(* views of it in step: its own list and tree of regions, the page tables  *)
(* of the VM (EPT) and the mappings of the Darwin process.  All calls here *)
(* run under mm->alloc_lock.                                               *)
(***************************************************************************)
EXTENDS Integers

CONSTANTS
  N,         \* guest pages are 1 .. N
  MaxLen,    \* the longest mapping
  Prots,     \* protections, "rw" among them
  Objs,      \* mappings of the Darwin process, a bound on how many there are
  MmapTop,   \* where mappings without an address start
  StartBrk   \* start_brk of the loaded program

ASSUME MmAssumption ==
  /\ N \in Nat \ {0} /\ MaxLen \in 1 .. N
  /\ MmapTop \in 1 .. N /\ StartBrk \in 1 .. N
  /\ "rw" \in Prots

Pages == 1 .. N

VARIABLES
  mm,     \* regions, EPT and mappings of the Darwin process
  top,    \* current_mmap_top
  brk,    \* current_brk
  panic   \* why noah has panicked, or "no"

vars == <<mm, top, brk, panic>>

Unmapped == <<>>

PagesOf(r) == r.lo .. r.hi - 1

(* haddr of a page: which host mapping, and the page in it.                *)
Haddr(r, p) == <<r.obj, r.off + (p - r.lo)>>

(* region_compare() = 0 for the key [lo, hi).                              *)
Overlaps(r, lo, hi) == lo < r.hi /\ hi > r.lo

find_region(S, p) == {r \in S : p \in PagesOf(r)}

(* What find_region_range may return: it descends to the left from some    *)
(* overlapping region and stops at a region below the range, so it misses  *)
(* the lowest one only when there is such a region (RbTree).               *)
find_region_range(S, lo, hi) ==
  {r \in S : /\ Overlaps(r, lo, hi)
             /\ \/ \A q \in S : Overlaps(q, lo, hi) => r.lo <= q.lo
                \/ \E q \in S : q.hi <= lo}

(* Mutant of HighPart: the host address is not moved along.                *)
HighPart_same(r, at) == [r EXCEPT !.lo = at]

(* Mutant of LowPart: the region keeps its size.                           *)
LowPart_same(r, at) == r

(* split_region makes two regions of one.                                  *)
HighPart(r, at) ==
  [lo |-> at, hi |-> r.hi, prot |-> r.prot, obj |-> r.obj, off |-> r.off + (at - r.lo)]

LowPart(r, at) == [lo |-> r.lo, hi |-> at, prot |-> r.prot, obj |-> r.obj, off |-> r.off]

(* What is left of a region outside [lo, hi).                              *)
Rest(r, lo, hi) ==
  (IF r.lo < lo THEN {LowPart(r, lo)} ELSE {}) \cup (IF r.hi > hi THEN {HighPart(r, hi)} ELSE {})
-----------------------------------------------------------------------------
(* Forget pages in the EPT and in the host; S are the regions left.        *)
Forget(m, P, hostP, S) ==
  [regions |-> S,
   ept |-> [p \in Pages |-> IF p \in P THEN Unmapped ELSE m.ept[p]],
   eptProt |-> {x \in m.eptProt : x[1] \notin P},
   host |-> m.host \ hostP]

(* The regions that do_munmap meets: it walks the list upwards from the    *)
(* region that find_region_range has found.                                *)
Met(S, lo, hi, first) == {r \in S : Overlaps(r, lo, hi) /\ r.lo >= first.lo}

do_munmap(m, lo, hi, first) ==
  LET Gone == Met(m.regions, lo, hi, first)
  IN  Forget(m, UNION {PagesOf(r) \cap (lo .. hi - 1) : r \in Gone},
             UNION {{Haddr(r, p) : p \in PagesOf(r) \cap (lo .. hi - 1)} : r \in Gone},
             (m.regions \ Gone) \cup UNION {Rest(r, lo, hi) : r \in Gone})

(* record_region and vmm_mmap.                                             *)
MapRegion(m, r) ==
  [regions |-> m.regions \cup {r},
   ept |-> [p \in Pages |-> IF p \in PagesOf(r) THEN Haddr(r, p) ELSE m.ept[p]],
   eptProt |-> {x \in m.eptProt : x[1] \notin PagesOf(r)} \cup (PagesOf(r) \X {r.prot}),
   host |-> m.host \cup {Haddr(r, p) : p \in PagesOf(r)}]

(* record_region panics over a region that is still there.                 *)
Recordable(m, r) == \A q \in m.regions : ~Overlaps(q, r.lo, r.hi)

Record(m, r) ==
  IF Recordable(m, r) THEN mm' = MapRegion(m, r) /\ UNCHANGED panic
  ELSE panic' = "overlap" /\ UNCHANGED mm

(* Host memory that is not in use.                                         *)
Fresh == {o \in Objs : \A h \in mm.host : h[1] # o}

Region(lo, hi, prot, o) == [lo |-> lo, hi |-> hi, prot |-> prot, obj |-> o, off |-> 0]

(* do_mmap once the host has given the memory: unmap, record, map.         *)
do_mmap(lo, hi, prot) ==
  \E o \in Fresh :
    LET found == find_region_range(mm.regions, lo, hi) IN
    \/ found = {} /\ Record(mm, Region(lo, hi, prot, o))
    \/ \E first \in found : Record(do_munmap(mm, lo, hi, first), Region(lo, hi, prot, o))
-----------------------------------------------------------------------------
NoPages == [p \in Pages |-> Unmapped]

Init ==
  /\ mm = [regions |-> {}, ept |-> NoPages, eptProt |-> {}, host |-> {}]
  /\ top = MmapTop /\ brk = StartBrk /\ panic = "no"

MmapFixed(lo, n, prot) ==
  /\ panic = "no" /\ lo + n - 1 <= N
  /\ do_mmap(lo, lo + n, prot)
  /\ UNCHANGED <<top, brk>>

(* Without MAP_FIXED, and shmat: the next addresses are taken, free or     *)
(* not, also when the host then refuses the memory.                        *)
MmapAnywhere(n, prot) ==
  /\ panic = "no" /\ top + n - 1 <= N
  /\ top' = top + n
  /\ do_mmap(top, top + n, prot) \/ UNCHANGED <<mm, panic>>
  /\ UNCHANGED brk

(* A size of 0 only splits the region it points into.                      *)
Munmap(lo, n) ==
  /\ panic = "no" /\ lo + n - 1 <= N
  /\ \E first \in find_region_range(mm.regions, lo, lo + n) : mm' = do_munmap(mm, lo, lo + n, first)
  /\ UNCHANGED <<top, brk, panic>>

(* sys_brk does not look at the result of do_mmap.                         *)
Brk(b) ==
  /\ panic = "no" /\ b >= StartBrk /\ brk' = b
  /\ \/ /\ b < brk /\ UNCHANGED panic
        /\ LET found == find_region_range(mm.regions, b, brk) IN
           \/ found = {} /\ UNCHANGED mm
           \/ \E first \in found : mm' = do_munmap(mm, b, brk, first)
     \/ b > brk /\ do_mmap(brk, b, "rw")
     \/ b >= brk /\ UNCHANGED <<mm, panic>>
  /\ UNCHANGED top

(* mremap by at most the old size: everything above the new size goes,     *)
(* also what the region had above the old size.                            *)
Shrink(r, new) ==
  LET P == r.lo + new .. r.hi - 1
  IN  Forget(mm, P, {Haddr(r, p) : p \in P}, (mm.regions \ {r}) \cup {LowPart(r, r.lo + new)})

(* The old pages go, what the region has above them stays.                 *)
Leave(r, old) ==
  LET P == r.lo .. (r.lo + old) - 1
  IN  Forget(mm, P, {Haddr(r, p) : p \in P}, (mm.regions \ {r}) \cup Rest(r, r.lo, r.lo + old))

Mremap(lo, old, new) ==
  /\ panic = "no"
  /\ \E r \in find_region(mm.regions, lo) :
       /\ r.lo = lo /\ old <= r.hi - r.lo
       /\ \/ new <= old /\ mm' = Shrink(r, new) /\ UNCHANGED <<top, panic>>
          \/ /\ new > old /\ top + new - 1 <= N
             /\ top' = top + new
             /\ \E o \in Fresh : Record(Leave(r, old), Region(top, top + new, r.prot, o))
          \/ new > old /\ panic' = "mremap" /\ UNCHANGED <<mm, top>>
  /\ UNCHANGED brk

(* The regions that follow one another without a hole from lo on.          *)
Chain(S, lo) == {r \in S : r.lo >= lo /\ \A p \in lo .. r.lo - 1 : find_region(S, p) # {}}

(* The pages whose protection mprotect changes: a region that begins below *)
(* lo is split there and changed up to its end, wherever end is.           *)
Protected(S, r, lo, end) ==
  (IF lo > r.lo THEN lo .. r.hi - 1 ELSE {})
    \cup UNION {PagesOf(q) \cap (lo .. end - 1) : q \in Chain(S, lo)}

WithProt(r, prot) == [lo |-> r.lo, hi |-> r.hi, prot |-> prot, obj |-> r.obj, off |-> r.off]

(* Mutant of Protect: the rest of a region split at end changes too.       *)
Protect_rest(S, lo, end, prot) ==
  LET C == {q \in Chain(S, lo) : q.lo < end}
  IN  (S \ C) \cup {WithProt(q, prot) : q \in C}

(* The walk of mprotect: whole regions up to end, then a split at end.     *)
Protect(S, lo, end, prot) ==
  LET C == {q \in Chain(S, lo) : q.lo < end}
  IN  (S \ C) \cup {WithProt(q, prot) : q \in {c \in C : c.hi <= end}}
             \cup UNION {{WithProt(LowPart(q, end), prot), HighPart(q, end)} : q \in {c \in C : c.hi > end}}

(* The regions after the split of the one that begins below lo.            *)
SplitFirst(S, r, lo, prot) ==
  IF lo > r.lo THEN (S \ {r}) \cup {LowPart(r, lo), WithProt(HighPart(r, lo), prot)} ELSE S

Mprotect(lo, n, prot) ==
  /\ panic = "no" /\ lo + n - 1 <= N
  /\ \E r \in find_region(mm.regions, lo) :
       LET S == SplitFirst(mm.regions, r, lo, prot)
           P == Protected(S, r, lo, lo + n)
       IN  mm' = [regions |-> Protect(S, lo, lo + n, prot),
                  ept |-> mm.ept,
                  eptProt |-> {x \in mm.eptProt : x[1] \notin P} \cup (P \X {prot}),
                  host |-> mm.host]
  /\ UNCHANGED <<top, brk, panic>>

(* destroy_mm and init_mmap, when a program is replaced by execve.         *)
Exec ==
  /\ panic = "no"
  /\ mm' = [regions |-> {}, ept |-> NoPages, eptProt |-> {}, host |-> {}]
  /\ top' = MmapTop /\ brk' = StartBrk
  /\ UNCHANGED panic

Sizes == 1 .. MaxLen

Next ==
  \/ \E lo \in Pages, n \in Sizes, prot \in Prots : MmapFixed(lo, n, prot)
  \/ \E n \in Sizes, prot \in Prots : MmapAnywhere(n, prot)
  \/ \E lo \in Pages, n \in {0} \cup Sizes : Munmap(lo, n)
  \/ \E b \in StartBrk .. N + 1 : Brk(b)
  \/ \E lo \in Pages, old \in {0} \cup Sizes, new \in Sizes : Mremap(lo, old, new)
  \/ \E lo \in Pages, n \in Sizes, prot \in Prots : Mprotect(lo, n, prot)
  \/ Exec

Spec == Init /\ [][Next]_vars
-----------------------------------------------------------------------------
Regions ==
  {r \in [lo : Pages, hi : 2 .. N + 1, prot : Prots, obj : Objs, off : Nat] : r.lo < r.hi}

Hosts == Objs \X Nat

(* Every variable has its type.                                            *)
TypeOK ==
  /\ mm \in [regions : SUBSET Regions, ept : [Pages -> Hosts \cup {Unmapped}],
             eptProt : SUBSET (Pages \X Prots), host : SUBSET Hosts]
  /\ top \in MmapTop .. N + 1 /\ brk \in StartBrk .. N + 1
  /\ panic \in {"no", "overlap", "mremap"}

Disjoint(S) == \A q, r \in S : r.lo < r.hi /\ (q = r \/ ~Overlaps(q, r.lo, r.hi))

(* No two regions share a page and none is left without pages, whatever is *)
(* split, moved or replaced, so that region_compare() orders the tree      *)
(* (src/src/mm/mm.c:158-169).                                              *)
RegionsDisjoint == Disjoint(mm.regions)

(* What a page is, according to the regions.                               *)
View(S) == UNION {{<<p, Haddr(r, p), r.prot>> : p \in PagesOf(r)} : r \in S}

(* The page tables of the VM hold the pages of the regions and no others,  *)
(* each at its host address and with the protection of its region: guest   *)
(* code and guest_to_host() see the same memory.                           *)
EptAgrees ==
  /\ \A p \in Pages : mm.ept[p] # Unmapped => \E r \in mm.regions : p \in PagesOf(r)
  /\ \A r \in mm.regions : \A p \in PagesOf(r) :
       mm.ept[p] = Haddr(r, p) /\ \A x \in Prots : <<p, x>> \in mm.eptProt <=> x = r.prot

(* The host memory behind a region stays mapped as long as the region has  *)
(* it, is behind one page only, and is given back with it.                 *)
HostAgrees ==
  /\ mm.host = UNION {{Haddr(r, p) : p \in PagesOf(r)} : r \in mm.regions}
  /\ \A v, w \in View(mm.regions) : v[2] = w[2] => v = w

(* noah's three views of memory agree page by page after every sequence of *)
(* calls: its regions, the page tables of the VM and the mappings of the   *)
(* Darwin process (src/src/mm/mmap.c:37-278, src/src/mm/mm.c:194-241).     *)
ViewsAgree == EptAgrees /\ HostAgrees

(* munmap takes away the pages of the range and leaves every other page    *)
(* its memory and protection, when the walk starts at the lowest region    *)
(* of the range.                                                           *)
MunmapExact ==
  \A lo \in Pages : \A hi \in lo .. N + 1 : \A first \in find_region_range(mm.regions, lo, hi) :
    (\A r \in mm.regions : Overlaps(r, lo, hi) => first.lo <= r.lo)
      => View(do_munmap(mm, lo, hi, first).regions) = {v \in View(mm.regions) : v[1] \notin lo .. hi - 1}

(* mprotect from the start of a region on changes the pages of the range   *)
(* up to the first hole, and nothing about any other page.                 *)
ProtectExact ==
  \A r \in mm.regions : \A end \in r.lo + 1 .. N + 1 : \A prot \in Prots :
    View(Protect(mm.regions, r.lo, end, prot)) =
      {IF v[1] >= r.lo /\ v[1] < end /\ \A p \in r.lo .. v[1] : find_region(mm.regions, p) # {}
       THEN <<v[1], v[2], prot>> ELSE v : v \in View(mm.regions)}

(* munmap and mprotect change exactly the pages of their range, over any   *)
(* regions that earlier calls have left (src/src/mm/mmap.c:37-71, 219-278).*)
RangesExact == MunmapExact /\ ProtectExact
=============================================================================
