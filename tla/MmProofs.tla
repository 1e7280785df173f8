------------------------------ MODULE MmProofs ------------------------------
(***************************************************************************)
(* Proofs about Mm: the regions stay disjoint and the page tables of the   *)
(* VM and the host mappings follow them, for any number of pages.          *)
(***************************************************************************)
EXTENDS Mm, TLAPS

(* Page p has the host address h and the protection x.                     *)
Backs(S, p, h, x) == \E r \in S : p \in PagesOf(r) /\ h = Haddr(r, p) /\ x = r.prot

(* EptAgrees and HostAgrees, page by page.                                 *)
EptFits(S, m) ==
  /\ \A p \in Pages : m.ept[p] # Unmapped => \E h, x : Backs(S, p, h, x)
  /\ \A p, h, x : Backs(S, p, h, x) =>
       m.ept[p] = h /\ \A y \in Prots : <<p, y>> \in m.eptProt <=> y = x

HostFits(S, m) ==
  /\ \A h : h \in m.host <=> \E p, x : Backs(S, p, h, x)
  /\ \A p, q, h, x, y : Backs(S, p, h, x) /\ Backs(S, q, h, y) => p = q /\ x = y

Memory == [regions : SUBSET Regions, ept : [Pages -> Hosts \cup {Unmapped}],
           eptProt : SUBSET (Pages \X Prots), host : SUBSET Hosts]

Fits(m) == m \in Memory /\ Disjoint(m.regions) /\ EptFits(m.regions, m) /\ HostFits(m.regions, m)

LEMMA BacksType ==
  ASSUME NEW S, S \subseteq Regions, NEW p, NEW h, NEW x, Backs(S, p, h, x)
  PROVE  p \in Pages /\ h \in Hosts /\ x \in Prots
  BY MmAssumption DEF Backs, Regions, PagesOf, Haddr, Hosts, Pages

LEMMA RegionFields ==
  ASSUME NEW r \in Regions
  PROVE  /\ r.lo \in Pages /\ r.hi \in 2 .. N + 1 /\ r.lo < r.hi
         /\ r.lo \in Int /\ r.hi \in Int /\ r.off \in Nat
         /\ r.prot \in Prots /\ r.obj \in Objs
         /\ r = [lo |-> r.lo, hi |-> r.hi, prot |-> r.prot, obj |-> r.obj, off |-> r.off]
  BY MmAssumption DEF Regions, Pages

LEMMA RegionRecord ==
  ASSUME NEW lo \in Pages, NEW hi \in 2 .. N + 1, lo < hi, NEW x \in Prots, NEW o \in Objs,
         NEW off \in Nat
  PROVE  [lo |-> lo, hi |-> hi, prot |-> x, obj |-> o, off |-> off] \in Regions
  BY DEF Regions

(* Cutting a region.                                                       *)
LEMMA Low ==
  ASSUME NEW r \in Regions, NEW at \in r.lo + 1 .. r.hi
  PROVE  /\ LowPart(r, at) \in Regions
         /\ LowPart(r, at).lo = r.lo /\ LowPart(r, at).hi = at /\ LowPart(r, at).prot = r.prot
         /\ LowPart(r, at).obj = r.obj
         /\ \A p : Haddr(LowPart(r, at), p) = Haddr(r, p)
<1>1. at \in 2 .. N + 1 /\ r.lo < at
  BY RegionFields, MmAssumption DEF Pages
<1>2. LowPart(r, at) \in Regions
  BY <1>1, RegionFields, RegionRecord DEF LowPart
<1> QED
  BY <1>2 DEF LowPart, Haddr

LEMMA High ==
  ASSUME NEW r \in Regions, NEW at \in r.lo .. r.hi - 1
  PROVE  /\ HighPart(r, at) \in Regions
         /\ HighPart(r, at).lo = at /\ HighPart(r, at).hi = r.hi /\ HighPart(r, at).prot = r.prot
         /\ HighPart(r, at).obj = r.obj
         /\ \A p \in Int : Haddr(HighPart(r, at), p) = Haddr(r, p)
<1>1. at \in Pages /\ at < r.hi /\ r.off + (at - r.lo) \in Nat /\ at \in Int
  BY RegionFields, MmAssumption DEF Pages
<1>2. HighPart(r, at) \in Regions
  BY <1>1, RegionFields, RegionRecord DEF HighPart
<1>3. ASSUME NEW p \in Int PROVE Haddr(HighPart(r, at), p) = Haddr(r, p)
  <2>1. (r.off + (at - r.lo)) + (p - at) = r.off + (p - r.lo)
    BY <1>1, RegionFields
  <2> QED
    BY <2>1 DEF HighPart, Haddr
<1> QED
  BY <1>2, <1>3 DEF HighPart

LEMMA Prot ==
  ASSUME NEW r \in Regions, NEW x \in Prots
  PROVE  /\ WithProt(r, x) \in Regions
         /\ WithProt(r, x).lo = r.lo /\ WithProt(r, x).hi = r.hi /\ WithProt(r, x).prot = x
         /\ WithProt(r, x).obj = r.obj
         /\ \A p : Haddr(WithProt(r, x), p) = Haddr(r, p)
<1>1. WithProt(r, x) \in Regions
  BY RegionFields, RegionRecord DEF WithProt
<1> QED
  BY <1>1 DEF WithProt, Haddr

(* Regions cut out of disjoint ones are disjoint when those cut out of the *)
(* same one are.                                                           *)
Inside(t, r) == r.lo <= t.lo /\ t.hi <= r.hi

LEMMA DisjointParts ==
  ASSUME NEW S, S \subseteq Regions, Disjoint(S), NEW T, T \subseteq Regions,
         \A t \in T : \E r \in S : Inside(t, r),
         \A r \in S : \A t, u \in T :
           Inside(t, r) /\ Inside(u, r) => t = u \/ ~Overlaps(t, u.lo, u.hi)
  PROVE  Disjoint(T)
<1> SUFFICES ASSUME NEW t \in T, NEW u \in T
             PROVE  u.lo < u.hi /\ (t = u \/ ~Overlaps(t, u.lo, u.hi))
  BY DEF Disjoint
<1>1. PICK r \in S : Inside(t, r)
  OBVIOUS
<1>2. PICK q \in S : Inside(u, q)
  OBVIOUS
<1>3. r = q \/ ~Overlaps(r, q.lo, q.hi)
  BY DEF Disjoint
<1>4. CASE ~Overlaps(r, q.lo, q.hi)
  <2>1. /\ r.lo \in Int /\ r.hi \in Int /\ q.lo \in Int /\ q.hi \in Int
        /\ t.lo \in Int /\ t.hi \in Int /\ u.lo \in Int /\ u.hi \in Int
        /\ u.lo < u.hi /\ t.lo < t.hi
    BY RegionFields
  <2> QED
    BY <1>1, <1>2, <1>4, <2>1 DEF Overlaps, Inside
<1> QED
  BY <1>1, <1>2, <1>3, <1>4, RegionFields

(* What do_munmap leaves of the regions.                                   *)
Unmaps(S, lo, hi, first) ==
  (S \ Met(S, lo, hi, first)) \cup UNION {Rest(r, lo, hi) : r \in Met(S, lo, hi, first)}

Lost(S, lo, hi, first) == UNION {PagesOf(r) \cap (lo .. hi - 1) : r \in Met(S, lo, hi, first)}

LEMMA MunmapParts ==
  ASSUME NEW S, S \subseteq Regions, Disjoint(S), NEW lo \in Int, NEW hi \in Int, lo <= hi,
         NEW first
  PROVE  /\ Unmaps(S, lo, hi, first) \subseteq Regions /\ Disjoint(Unmaps(S, lo, hi, first))
         /\ \A p, h, x : Backs(Unmaps(S, lo, hi, first), p, h, x)
                            <=> Backs(S, p, h, x) /\ p \notin Lost(S, lo, hi, first)
<1> DEFINE G == Met(S, lo, hi, first)
           T == Unmaps(S, lo, hi, first)
<1>1. G \subseteq S /\ \A r \in G : lo < r.hi /\ hi > r.lo
  BY DEF Met, Overlaps
<1>2. ASSUME NEW r \in G, r.lo < lo
      PROVE  /\ LowPart(r, lo) \in T /\ LowPart(r, lo) \in Regions
             /\ LowPart(r, lo).lo = r.lo /\ LowPart(r, lo).hi = lo /\ LowPart(r, lo).prot = r.prot
             /\ \A p : Haddr(LowPart(r, lo), p) = Haddr(r, p)
  <2>1. r \in Regions /\ lo \in r.lo + 1 .. r.hi
    BY <1>1, <1>2, RegionFields
  <2>2. LowPart(r, lo) \in T
    BY <1>2 DEF Unmaps, Rest
  <2> QED
    BY <2>1, <2>2, Low
<1>3. ASSUME NEW r \in G, r.hi > hi
      PROVE  /\ HighPart(r, hi) \in T /\ HighPart(r, hi) \in Regions
             /\ HighPart(r, hi).lo = hi /\ HighPart(r, hi).hi = r.hi /\ HighPart(r, hi).prot = r.prot
             /\ \A p \in Int : Haddr(HighPart(r, hi), p) = Haddr(r, p)
  <2>1. r \in Regions /\ hi \in r.lo .. r.hi - 1
    BY <1>1, <1>3, RegionFields
  <2>2. HighPart(r, hi) \in T
    BY <1>3 DEF Unmaps, Rest
  <2> QED
    BY <2>1, <2>2, High
<1>4. ASSUME NEW t \in T
      PROVE  \/ t \in S \ G
             \/ \E r \in G : r.lo < lo /\ t = LowPart(r, lo)
             \/ \E r \in G : r.hi > hi /\ t = HighPart(r, hi)
  BY <1>4 DEF Unmaps, Rest
<1>5. T \subseteq Regions
  BY <1>2, <1>3, <1>4
<1>6. \A t \in T : \E r \in S : Inside(t, r)
  <2> SUFFICES ASSUME NEW t \in T PROVE \E r \in S : Inside(t, r)
    OBVIOUS
  <2>1. CASE t \in S \ G
    BY <2>1, RegionFields DEF Inside
  <2>2. ASSUME NEW r \in G, r.lo < lo, t = LowPart(r, lo) PROVE \E q \in S : Inside(t, q)
    BY <1>1, <1>2, <2>2, RegionFields DEF Inside
  <2>3. ASSUME NEW r \in G, r.hi > hi, t = HighPart(r, hi) PROVE \E q \in S : Inside(t, q)
    BY <1>1, <1>3, <2>3, RegionFields DEF Inside
  <2> QED
    BY <1>4, <2>1, <2>2, <2>3
<1>7. ASSUME NEW r \in S, NEW t \in T, Inside(t, r)
      PROVE  \/ t = r /\ r \notin G
             \/ r \in G /\ t = LowPart(r, lo) /\ r.lo < lo
             \/ r \in G /\ t = HighPart(r, hi) /\ r.hi > hi
  <2>0. t.lo \in Int /\ t.hi \in Int /\ t.lo < t.hi
    BY <1>5, RegionFields
  <2>1. ASSUME NEW q \in S, Inside(t, q) PROVE q = r
    <3>1. q = r \/ ~Overlaps(q, r.lo, r.hi)
      BY DEF Disjoint
    <3>2. r.lo \in Int /\ r.hi \in Int /\ q.lo \in Int /\ q.hi \in Int
      BY RegionFields
    <3> QED
      BY <1>7, <2>0, <2>1, <3>1, <3>2 DEF Inside, Overlaps
  <2>2. CASE t \in S \ G
    BY <2>1, <2>2, RegionFields DEF Inside
  <2>3. ASSUME NEW q \in G, q.lo < lo, t = LowPart(q, lo) PROVE q = r
    BY <1>1, <1>2, <2>1, <2>3, RegionFields DEF Inside
  <2>4. ASSUME NEW q \in G, q.hi > hi, t = HighPart(q, hi) PROVE q = r
    BY <1>1, <1>3, <2>1, <2>4, RegionFields DEF Inside
  <2> QED
    BY <1>4, <2>2, <2>3, <2>4
<1>8. ASSUME NEW r \in S, NEW t \in T, NEW u \in T, Inside(t, r), Inside(u, r)
      PROVE  t = u \/ ~Overlaps(t, u.lo, u.hi)
  BY <1>2, <1>3, <1>7, <1>8 DEF Overlaps
<1>9. Disjoint(T)
  BY <1>5, <1>6, <1>8, DisjointParts
<1>10. ASSUME NEW p, NEW h, NEW x, Backs(T, p, h, x)
       PROVE  Backs(S, p, h, x) /\ p \notin Lost(S, lo, hi, first)
  <2>1. PICK t \in T : p \in PagesOf(t) /\ h = Haddr(t, p) /\ x = t.prot
    BY <1>10 DEF Backs
  <2>2. PICK r \in S : Inside(t, r)
    BY <1>6
  <2>3. p \in Int /\ p \in PagesOf(r) /\ t.lo <= p /\ p < t.hi
    BY <1>5, <2>1, <2>2, RegionFields DEF PagesOf, Inside
  <2>4. Haddr(t, p) = Haddr(r, p) /\ t.prot = r.prot
    BY <1>2, <1>3, <1>7, <2>2, <2>3
  <2>5. ASSUME NEW q \in G, p \in PagesOf(q) PROVE q = r
    <3>1. q \in S /\ (q = r \/ ~Overlaps(q, r.lo, r.hi))
      BY <1>1 DEF Disjoint
    <3>2. r.lo \in Int /\ r.hi \in Int /\ q.lo \in Int /\ q.hi \in Int
      BY <3>1, RegionFields
    <3> QED
      BY <2>3, <2>5, <3>1, <3>2 DEF PagesOf, Overlaps
  <2>6. r \in G => p \notin lo .. hi - 1
    BY <1>2, <1>3, <1>7, <2>2, <2>3
  <2>7. p \notin Lost(S, lo, hi, first)
    BY <2>5, <2>6 DEF Lost
  <2> QED
    BY <2>1, <2>3, <2>4, <2>7 DEF Backs
<1>11. ASSUME NEW p, NEW h, NEW x, Backs(S, p, h, x), p \notin Lost(S, lo, hi, first)
       PROVE  Backs(T, p, h, x)
  <2>1. PICK r \in S : p \in PagesOf(r) /\ h = Haddr(r, p) /\ x = r.prot
    BY <1>11 DEF Backs
  <2>2. p \in Int /\ r.lo <= p /\ p < r.hi /\ r.lo \in Int /\ r.hi \in Int
    BY <2>1, RegionFields DEF PagesOf
  <2>3. CASE r \notin G
    BY <2>1, <2>3 DEF Backs, Unmaps
  <2>4. CASE r \in G
    <3>1. p < lo \/ p >= hi
      BY <1>11, <2>1, <2>2, <2>4 DEF Lost
    <3>2. CASE p < lo
      <4>1. r.lo < lo
        BY <2>2, <3>2
      <4>2. p \in PagesOf(LowPart(r, lo))
        BY <1>2, <2>2, <2>4, <3>2, <4>1 DEF PagesOf
      <4> QED
        BY <1>2, <2>1, <2>4, <4>1, <4>2 DEF Backs
    <3>3. CASE p >= hi
      <4>1. r.hi > hi
        BY <2>2, <3>3
      <4>2. p \in PagesOf(HighPart(r, hi))
        BY <1>3, <2>2, <2>4, <3>3, <4>1 DEF PagesOf
      <4> QED
        BY <1>3, <2>1, <2>2, <2>4, <4>1, <4>2 DEF Backs
    <3> QED
      BY <3>1, <3>2, <3>3
  <2> QED
    BY <2>3, <2>4
<1> QED
  BY <1>5, <1>9, <1>10, <1>11

(* Taking the pages P away from the regions, the EPT and the host.         *)
Takes(S, T, P) == \A p, h, x : Backs(T, p, h, x) <=> Backs(S, p, h, x) /\ p \notin P

LEMMA ForgetFits ==
  ASSUME NEW m, Fits(m), NEW T, T \subseteq Regions, Disjoint(T), NEW P, Takes(m.regions, T, P),
         NEW hostP, \A h : h \in hostP <=> \E p, x : Backs(m.regions, p, h, x) /\ p \in P
  PROVE  Fits(Forget(m, P, hostP, T))
<1> DEFINE f == Forget(m, P, hostP, T)
<1>1. f \in Memory /\ f.regions = T
  BY DEF Forget, Fits, Memory
<1>2. EptFits(T, f)
  <2>1. ASSUME NEW p \in Pages, f.ept[p] # Unmapped
        PROVE  \E h, x : Backs(T, p, h, x)
    <3>1. p \notin P /\ m.ept[p] # Unmapped
      BY <2>1 DEF Forget
    <3> QED
      BY <3>1 DEF Fits, EptFits, Takes
  <2>2. ASSUME NEW p, NEW h, NEW x, Backs(T, p, h, x)
        PROVE  f.ept[p] = h /\ \A y \in Prots : <<p, y>> \in f.eptProt <=> y = x
    <3>1. Backs(m.regions, p, h, x) /\ p \notin P /\ p \in Pages
      BY <2>2, BacksType DEF Takes
    <3>2. m.ept[p] = h /\ \A y \in Prots : <<p, y>> \in m.eptProt <=> y = x
      BY <3>1 DEF Fits, EptFits
    <3>3. f.ept[p] = h
      BY <3>1, <3>2 DEF Forget
    <3>4. ASSUME NEW y PROVE <<p, y>> \in f.eptProt <=> <<p, y>> \in m.eptProt
      BY <3>1 DEF Forget
    <3> QED
      BY <3>2, <3>3, <3>4
  <2> QED
    BY <2>1, <2>2 DEF EptFits
<1>3. HostFits(T, f)
  <2>1. f.host = m.host \ hostP
    BY DEF Forget
  <2>2. HostFits(m.regions, m)
    BY DEF Fits
  <2>3. ASSUME NEW h PROVE h \in f.host <=> \E p, x : Backs(T, p, h, x)
    <3>1. ASSUME h \in f.host PROVE \E p, x : Backs(T, p, h, x)
      BY <2>1, <2>2, <3>1 DEF HostFits, Takes
    <3>2. ASSUME NEW p, NEW x, Backs(T, p, h, x) PROVE h \in f.host
      <4>1. Backs(m.regions, p, h, x) /\ p \notin P
        BY <3>2 DEF Takes
      <4>2. h \in m.host
        BY <2>2, <4>1 DEF HostFits
      <4>3. h \notin hostP
        BY <2>2, <4>1 DEF HostFits
      <4> QED
        BY <2>1, <4>2, <4>3
    <3> QED
      BY <3>1, <3>2
  <2>4. \A p, q, h, x, y : Backs(T, p, h, x) /\ Backs(T, q, h, y) => p = q /\ x = y
    BY <2>2 DEF HostFits, Takes
  <2> QED
    BY <2>3, <2>4 DEF HostFits
<1> HIDE DEF f
<1>4. Fits(f)
  BY <1>1, <1>2, <1>3 DEF Fits
<1> QED
  BY <1>4 DEF f

(* do_munmap keeps the three views in step.                                *)
LEMMA MunmapFits ==
  ASSUME NEW m, Fits(m), NEW lo \in Int, NEW hi \in Int, lo <= hi, NEW first
  PROVE  Fits(do_munmap(m, lo, hi, first))
<1> DEFINE S == m.regions
           P == Lost(S, lo, hi, first)
           hostP == UNION {{Haddr(r, p) : p \in PagesOf(r) \cap (lo .. hi - 1)} : r \in Met(S, lo, hi, first)}
<1>1. S \subseteq Regions /\ Disjoint(S)
  BY DEF Fits, Memory
<1>2. /\ Unmaps(S, lo, hi, first) \subseteq Regions /\ Disjoint(Unmaps(S, lo, hi, first))
      /\ Takes(S, Unmaps(S, lo, hi, first), P)
  BY <1>1, MunmapParts DEF Takes
<1>3. ASSUME NEW h PROVE h \in hostP <=> \E p, x : Backs(S, p, h, x) /\ p \in P
  <2>1. ASSUME h \in hostP PROVE \E p, x : Backs(S, p, h, x) /\ p \in P
    <3>1. PICK r \in Met(S, lo, hi, first) : \E p \in PagesOf(r) \cap (lo .. hi - 1) : h = Haddr(r, p)
      BY <2>1
    <3>2. PICK p \in PagesOf(r) \cap (lo .. hi - 1) : h = Haddr(r, p)
      BY <3>1
    <3>3. p \in P
      BY DEF Lost
    <3>4. Backs(S, p, h, r.prot)
      BY <3>2 DEF Backs, Met
    <3> QED
      BY <3>3, <3>4
  <2>2. ASSUME NEW p, NEW x, Backs(S, p, h, x), p \in P PROVE h \in hostP
    <3>1. PICK r \in S : p \in PagesOf(r) /\ h = Haddr(r, p)
      BY <2>2 DEF Backs
    <3>2. PICK q \in Met(S, lo, hi, first) : p \in PagesOf(q) \cap (lo .. hi - 1)
      BY <2>2 DEF Lost
    <3>3. q = r \/ ~Overlaps(q, r.lo, r.hi)
      BY <1>1 DEF Disjoint, Met
    <3>4. r.lo \in Int /\ r.hi \in Int /\ q.lo \in Int /\ q.hi \in Int
      BY <1>1, RegionFields DEF Met
    <3>5. q = r
      BY <3>1, <3>2, <3>3, <3>4 DEF PagesOf, Overlaps
    <3> QED
      BY <3>1, <3>2, <3>5
  <2> QED
    BY <2>1, <2>2
<1>4. do_munmap(m, lo, hi, first) = Forget(m, P, hostP, Unmaps(S, lo, hi, first))
  BY DEF do_munmap, Lost, Unmaps
<1> HIDE DEF P, hostP
<1> QED
  BY <1>2, <1>3, <1>4, ForgetFits

(* A range inside one region: only that region is cut.                     *)
LEMMA OneMet ==
  ASSUME NEW S, S \subseteq Regions, Disjoint(S), NEW r \in S, NEW lo \in Int, NEW hi \in Int,
         r.lo <= lo, lo < hi, hi <= r.hi
  PROVE  Met(S, lo, hi, r) = {r}
<1>1. r \in Met(S, lo, hi, r)
  BY RegionFields DEF Met, Overlaps
<1>2. ASSUME NEW q \in S, Overlaps(q, lo, hi) PROVE q = r
  <2>1. q = r \/ ~Overlaps(q, r.lo, r.hi)
    BY DEF Disjoint
  <2>2. q.lo \in Int /\ q.hi \in Int /\ r.lo \in Int /\ r.hi \in Int
    BY RegionFields
  <2> QED
    BY <1>2, <2>1, <2>2 DEF Overlaps
<1> QED
  BY <1>1, <1>2 DEF Met

LEMMA NothingFits ==
  ASSUME NEW m, Fits(m), NEW P, P = {} PROVE Fits(Forget(m, P, {}, m.regions))
<1>1. m.regions \subseteq Regions /\ Disjoint(m.regions) /\ Takes(m.regions, m.regions, P)
  BY DEF Fits, Memory, Takes
<1>2. \A h : h \in {} <=> \E p, x : Backs(m.regions, p, h, x) /\ p \in P
  OBVIOUS
<1> QED
  BY <1>1, <1>2, ForgetFits

(* mremap's two ways to give pages back are cuts inside one region.        *)
LEMMA OneMunmap ==
  ASSUME NEW m, Fits(m), NEW r \in m.regions, NEW lo \in Int, NEW hi \in Int,
         r.lo <= lo, lo < hi, hi <= r.hi
  PROVE  Fits(Forget(m, lo .. hi - 1, {Haddr(r, p) : p \in lo .. hi - 1},
                     (m.regions \ {r}) \cup Rest(r, lo, hi)))
<1> DEFINE P == lo .. hi - 1
           M == Met(m.regions, lo, hi, r)
<1>0. m.regions \subseteq Regions /\ Disjoint(m.regions) /\ r \in Regions
  BY DEF Fits, Memory
<1>1. M = {r}
  BY <1>0, OneMet
<1>2. PagesOf(r) \cap P = P
  BY <1>0, RegionFields DEF PagesOf
<1>3. UNION {PagesOf(q) \cap P : q \in M} = P
  BY <1>1, <1>2
<1>4. UNION {{Haddr(q, p) : p \in PagesOf(q) \cap P} : q \in M} = {Haddr(r, p) : p \in P}
  BY <1>1, <1>2
<1>5. (m.regions \ M) \cup UNION {Rest(q, lo, hi) : q \in M} = (m.regions \ {r}) \cup Rest(r, lo, hi)
  BY <1>1
<1>6. do_munmap(m, lo, hi, r) = Forget(m, P, {Haddr(r, p) : p \in P}, (m.regions \ {r}) \cup Rest(r, lo, hi))
  BY <1>3, <1>4, <1>5 DEF do_munmap
<1>7. Fits(do_munmap(m, lo, hi, r))
  BY MunmapFits
<1> QED
  BY <1>6, <1>7

LEMMA ShrinkFits ==
  ASSUME Fits(mm), NEW r \in mm.regions, NEW new \in Nat \ {0}, new <= r.hi - r.lo
  PROVE  Fits(Shrink(r, new))
<1> DEFINE S == mm.regions
           at == r.lo + new
           P == at .. r.hi - 1
<1>1. S \subseteq Regions /\ Disjoint(S) /\ r \in Regions
  BY DEF Fits, Memory
<1>2. r.lo \in Int /\ r.hi \in Int /\ at \in Int /\ r.lo < at /\ at <= r.hi
  BY <1>1, RegionFields
<1>3. CASE at < r.hi
  <2>1. Rest(r, at, r.hi) = {LowPart(r, at)}
    BY <1>2 DEF Rest
  <2>2. Fits(Forget(mm, P, {Haddr(r, p) : p \in P}, (S \ {r}) \cup {LowPart(r, at)}))
    BY <1>2, <1>3, <2>1, OneMunmap
  <2> QED
    BY <2>2 DEF Shrink
<1>4. CASE at = r.hi
  <2>1. P = {} /\ LowPart(r, at) = r
    BY <1>1, <1>2, <1>4, RegionFields DEF LowPart
  <2>2. (S \ {r}) \cup {LowPart(r, at)} = S /\ {Haddr(r, p) : p \in P} = {}
    BY <2>1
  <2>3. Shrink(r, new) = Forget(mm, P, {}, S)
    BY <2>2 DEF Shrink
  <2> QED
    BY <2>1, <2>3, NothingFits
<1> QED
  BY <1>2, <1>3, <1>4

LEMMA LeaveFits ==
  ASSUME Fits(mm), NEW r \in mm.regions, NEW old \in Nat, old <= r.hi - r.lo
  PROVE  Fits(Leave(r, old)) /\ Leave(r, old).host \subseteq mm.host
<1> DEFINE S == mm.regions
           at == r.lo + old
           P == r.lo .. at - 1
           K == Rest(r, r.lo, at)
           L == Forget(mm, P, {Haddr(r, p) : p \in P}, (S \ {r}) \cup K)
<1>1. S \subseteq Regions /\ Disjoint(S) /\ r \in Regions
  BY DEF Fits, Memory
<1>2. r.lo \in Int /\ r.hi \in Int /\ at \in Int /\ r.lo <= at /\ at <= r.hi /\ r.lo < r.hi
  BY <1>1, RegionFields
<1>3. ASSUME r.lo < at PROVE Fits(L)
  <2>1. r.lo <= r.lo
    BY <1>2
  <2> HIDE DEF at
  <2> QED
    BY <1>2, <1>3, <2>1, OneMunmap
<1>4. ASSUME at = r.lo PROVE Fits(L)
  <2>1. P = {} /\ HighPart(r, at) = r /\ at < r.hi
    BY <1>1, <1>2, <1>4, RegionFields DEF HighPart
  <2>2. K = {r}
    BY <1>2, <2>1 DEF Rest
  <2>3. (S \ {r}) \cup K = S /\ {Haddr(r, p) : p \in P} = {}
    BY <2>1, <2>2
  <2> QED
    BY <2>1, <2>3, NothingFits
<1>5. Fits(L)
  BY <1>2, <1>3, <1>4
<1>6. L.host \subseteq mm.host
  BY DEF Forget
<1> QED
  BY <1>5, <1>6 DEF Leave

(* record_region and vmm_mmap with memory of the host that is not in use.  *)
LEMMA MapFits ==
  ASSUME NEW m, Fits(m), NEW r \in Regions, Recordable(m, r), \A h \in m.host : h[1] # r.obj
  PROVE  Fits(MapRegion(m, r))
<1> DEFINE S == m.regions
           T == S \cup {r}
           f == MapRegion(m, r)
<1>0. S \subseteq Regions /\ Disjoint(S)
  BY DEF Fits, Memory
<1>1. r.lo \in Int /\ r.hi \in Int /\ r.lo < r.hi /\ r.off \in Nat /\ r.prot \in Prots /\ r.obj \in Objs
  BY RegionFields
<1>2. \A p \in PagesOf(r) : p \in Pages /\ p \in Int /\ Haddr(r, p) \in Hosts
  <2>1. \A p \in PagesOf(r) : p \in Pages /\ r.off + (p - r.lo) \in Nat
    BY RegionFields, MmAssumption DEF PagesOf, Pages
  <2> QED
    BY <1>1, <2>1 DEF Haddr, Hosts, Pages
<1>3. ASSUME NEW p, NEW h, NEW x
      PROVE  Backs(T, p, h, x) <=> \/ Backs(S, p, h, x)
                                   \/ p \in PagesOf(r) /\ h = Haddr(r, p) /\ x = r.prot
  BY DEF Backs
<1>4. ASSUME NEW p, NEW h, NEW x, Backs(S, p, h, x) PROVE p \notin PagesOf(r) /\ h[1] # r.obj
  <2>1. PICK q \in S : p \in PagesOf(q) /\ h = Haddr(q, p)
    BY <1>4 DEF Backs
  <2>2. q.lo \in Int /\ q.hi \in Int
    BY <1>0, RegionFields
  <2>3. ~Overlaps(q, r.lo, r.hi)
    BY DEF Recordable
  <2>4. p \notin PagesOf(r)
    BY <1>1, <2>1, <2>2, <2>3 DEF Overlaps, PagesOf
  <2> QED
    BY <1>4, <2>4 DEF Fits, HostFits
<1>5. f \in Memory /\ f.regions = T
  <2>1. f.ept \in [Pages -> Hosts \cup {Unmapped}]
    BY <1>2 DEF MapRegion, Fits, Memory
  <2>2. f.eptProt \subseteq Pages \X Prots
    BY <1>1, <1>2 DEF MapRegion, Fits, Memory
  <2>3. f.host \subseteq Hosts
    BY <1>2 DEF MapRegion, Fits, Memory
  <2>4. f.regions = T /\ f.regions \in SUBSET Regions
    BY <1>0 DEF MapRegion
  <2> QED
    BY <2>1, <2>2, <2>3, <2>4 DEF MapRegion, Memory
<1>6. Disjoint(T)
  <2>1. ASSUME NEW q \in S PROVE ~Overlaps(q, r.lo, r.hi) /\ ~Overlaps(r, q.lo, q.hi)
    BY <1>0, <1>1, RegionFields DEF Recordable, Overlaps
  <2> QED
    BY <1>0, <1>1, <2>1 DEF Disjoint
<1>7. EptFits(T, f)
  <2>1. ASSUME NEW p \in Pages, f.ept[p] # Unmapped PROVE \E h, x : Backs(T, p, h, x)
    <3>1. p \in PagesOf(r) \/ m.ept[p] # Unmapped
      BY <2>1 DEF MapRegion
    <3> QED
      BY <1>3, <3>1 DEF Fits, EptFits
  <2>2. ASSUME NEW p, NEW h, NEW x, Backs(T, p, h, x)
        PROVE  f.ept[p] = h /\ \A y \in Prots : <<p, y>> \in f.eptProt <=> y = x
    <3>1. CASE Backs(S, p, h, x)
      <4>1. p \in Pages /\ p \notin PagesOf(r)
        BY <1>0, <1>4, <3>1, BacksType
      <4>2. m.ept[p] = h /\ \A y \in Prots : <<p, y>> \in m.eptProt <=> y = x
        BY <3>1 DEF Fits, EptFits
      <4>3. f.ept[p] = h
        BY <4>1, <4>2 DEF MapRegion
      <4>4. ASSUME NEW y PROVE <<p, y>> \in f.eptProt <=> <<p, y>> \in m.eptProt
        BY <4>1 DEF MapRegion
      <4> QED
        BY <4>2, <4>3, <4>4
    <3>2. CASE p \in PagesOf(r) /\ h = Haddr(r, p) /\ x = r.prot
      <4>1. f.ept[p] = h
        BY <1>2, <3>2 DEF MapRegion
      <4>2. ASSUME NEW y PROVE <<p, y>> \in f.eptProt <=> y = x
        BY <3>2 DEF MapRegion
      <4> QED
        BY <4>1, <4>2
    <3> QED
      BY <1>3, <2>2, <3>1, <3>2
  <2> QED
    BY <2>1, <2>2 DEF EptFits
<1>8. HostFits(T, f)
  <2>0. HostFits(S, m)
    BY DEF Fits
  <2>1. ASSUME NEW h PROVE h \in f.host <=> \E p, x : Backs(T, p, h, x)
    <3>1. h \in f.host <=> h \in m.host \/ \E p \in PagesOf(r) : h = Haddr(r, p)
      BY DEF MapRegion
    <3> QED
      BY <1>3, <2>0, <3>1 DEF HostFits
  <2>2. ASSUME NEW p, NEW q, NEW h, NEW x, NEW y, Backs(T, p, h, x), Backs(T, q, h, y)
        PROVE  p = q /\ x = y
    <3>1. ASSUME NEW a \in PagesOf(r) PROVE Haddr(r, a)[1] = r.obj
      BY DEF Haddr
    <3>2. ASSUME NEW a \in PagesOf(r), NEW b \in PagesOf(r), Haddr(r, a) = Haddr(r, b) PROVE a = b
      <4>1. a \in Int /\ b \in Int /\ r.off + (a - r.lo) = r.off + (b - r.lo)
        BY <1>2, <3>2 DEF Haddr
      <4> QED
        BY <1>1, <4>1
    <3>3. CASE Backs(S, p, h, x) /\ Backs(S, q, h, y)
      BY <2>0, <3>3 DEF HostFits
    <3>4. CASE Backs(S, p, h, x) /\ ~Backs(S, q, h, y)
      BY <1>3, <1>4, <2>2, <3>1, <3>4
    <3>5. CASE ~Backs(S, p, h, x) /\ Backs(S, q, h, y)
      BY <1>3, <1>4, <2>2, <3>1, <3>5
    <3>6. CASE ~Backs(S, p, h, x) /\ ~Backs(S, q, h, y)
      BY <1>3, <2>2, <3>2, <3>6
    <3> QED
      BY <3>3, <3>4, <3>5, <3>6
  <2> QED
    BY <2>1, <2>2 DEF HostFits
<1> HIDE DEF f
<1>9. Fits(f)
  BY <1>5, <1>6, <1>7, <1>8 DEF Fits
<1> QED
  BY <1>9 DEF f

(* mprotect: the pages P get the protection x and keep their memory.       *)
Changes(S, T, P, prot) ==
  \A p, h, x : Backs(T, p, h, x) <=>
    \/ p \in P /\ x = prot /\ \E y : Backs(S, p, h, y)
    \/ p \notin P /\ Backs(S, p, h, x)

(* The region that holds a page, among disjoint ones.                      *)
LEMMA SameRegion ==
  ASSUME NEW S, S \subseteq Regions, Disjoint(S), NEW q \in S, NEW r \in S, NEW p,
         p \in PagesOf(q), p \in PagesOf(r)
  PROVE  q = r
<1>1. q = r \/ ~Overlaps(q, r.lo, r.hi)
  BY DEF Disjoint
<1>2. r.lo \in Int /\ r.hi \in Int /\ q.lo \in Int /\ q.hi \in Int
  BY RegionFields
<1> QED
  BY <1>1, <1>2 DEF PagesOf, Overlaps

LEMMA SameInside ==
  ASSUME NEW S, S \subseteq Regions, Disjoint(S), NEW q \in S, NEW r \in S, NEW t \in Regions,
         Inside(t, q), Inside(t, r)
  PROVE  q = r
<1>1. t.lo \in PagesOf(q) /\ t.lo \in PagesOf(r)
  BY RegionFields DEF Inside, PagesOf
<1> QED
  BY <1>1, SameRegion

(* A region in two parts, one of them with a new protection.               *)
LEMMA TwoParts ==
  ASSUME NEW r \in Regions, NEW at \in r.lo + 1 .. r.hi - 1, NEW x \in Prots
  PROVE  LET a == LowPart(r, at)
             b == HighPart(r, at)
             ax == WithProt(a, x)
             bx == WithProt(b, x)
         IN  /\ a \in Regions /\ a.lo = r.lo /\ a.hi = at /\ a.prot = r.prot
             /\ b \in Regions /\ b.lo = at /\ b.hi = r.hi /\ b.prot = r.prot
             /\ ax \in Regions /\ ax.lo = r.lo /\ ax.hi = at /\ ax.prot = x
             /\ bx \in Regions /\ bx.lo = at /\ bx.hi = r.hi /\ bx.prot = x
             /\ \A p \in Int : /\ Haddr(a, p) = Haddr(r, p) /\ Haddr(b, p) = Haddr(r, p)
                               /\ Haddr(ax, p) = Haddr(r, p) /\ Haddr(bx, p) = Haddr(r, p)
<1>1. at \in r.lo + 1 .. r.hi /\ at \in r.lo .. r.hi - 1
  BY RegionFields
<1> DEFINE a == LowPart(r, at)
           b == HighPart(r, at)
<1>2. /\ a \in Regions /\ a.lo = r.lo /\ a.hi = at /\ a.prot = r.prot
      /\ \A p \in Int : Haddr(a, p) = Haddr(r, p)
  BY <1>1, Low
<1>3. /\ b \in Regions /\ b.lo = at /\ b.hi = r.hi /\ b.prot = r.prot
      /\ \A p \in Int : Haddr(b, p) = Haddr(r, p)
  BY <1>1, High
<1> HIDE DEF a, b
<1>4. /\ WithProt(a, x) \in Regions /\ WithProt(a, x).lo = r.lo /\ WithProt(a, x).hi = at
      /\ WithProt(a, x).prot = x /\ \A p \in Int : Haddr(WithProt(a, x), p) = Haddr(r, p)
  BY <1>2, Prot
<1>5. /\ WithProt(b, x) \in Regions /\ WithProt(b, x).lo = at /\ WithProt(b, x).hi = r.hi
      /\ WithProt(b, x).prot = x /\ \A p \in Int : Haddr(WithProt(b, x), p) = Haddr(r, p)
  BY <1>3, Prot
<1> QED
  BY <1>2, <1>3, <1>4, <1>5 DEF a, b

LEMMA SplitParts ==
  ASSUME NEW S, S \subseteq Regions, Disjoint(S), NEW r \in S, NEW lo \in PagesOf(r),
         NEW prot \in Prots
  PROVE  LET T == SplitFirst(S, r, lo, prot)
             P == IF lo > r.lo THEN lo .. r.hi - 1 ELSE {}
         IN  T \subseteq Regions /\ Disjoint(T) /\ Changes(S, T, P, prot)
<1>1. CASE ~(lo > r.lo)
  BY <1>1 DEF SplitFirst, Changes
<1>2. CASE lo > r.lo
  <2> DEFINE a == LowPart(r, lo)
             b == WithProt(HighPart(r, lo), prot)
             T == (S \ {r}) \cup {a, b}
             P == lo .. r.hi - 1
  <2>0. r \in Regions /\ lo \in Int /\ r.lo \in Int /\ r.hi \in Int /\ lo \in r.lo + 1 .. r.hi - 1
    BY <1>2, RegionFields DEF PagesOf
  <2>1. /\ a \in Regions /\ a.lo = r.lo /\ a.hi = lo /\ a.prot = r.prot
        /\ b \in Regions /\ b.lo = lo /\ b.hi = r.hi /\ b.prot = prot
        /\ \A p \in Int : Haddr(a, p) = Haddr(r, p) /\ Haddr(b, p) = Haddr(r, p)
    BY <2>0, TwoParts
  <2> HIDE DEF a, b
  <2>2. T \subseteq Regions
    BY <2>1
  <2>3. Inside(a, r) /\ Inside(b, r)
    BY <2>0, <2>1 DEF Inside
  <2>4. \A t \in T : \E q \in S : Inside(t, q)
    BY <2>3, RegionFields DEF Inside
  <2>5. ASSUME NEW q \in S, NEW t \in T, NEW u \in T, Inside(t, q), Inside(u, q)
        PROVE  t = u \/ ~Overlaps(t, u.lo, u.hi)
    <3>1. ASSUME NEW v \in T, Inside(v, q)
          PROVE  (v = q /\ q # r) \/ (q = r /\ v \in {a, b})
      <4>1. CASE v \in S \ {r}
        BY <2>2, <3>1, <4>1, SameInside, RegionFields DEF Inside
      <4>2. CASE v \in {a, b}
        BY <2>2, <2>3, <3>1, <4>2, SameInside
      <4> QED
        BY <4>1, <4>2
    <3> QED
      BY <2>0, <2>1, <2>5, <3>1 DEF Overlaps
  <2>6. Disjoint(T)
    BY <2>2, <2>4, <2>5, DisjointParts
  <2>7. ASSUME NEW p, NEW h, NEW x, Backs(T, p, h, x)
        PROVE  \/ p \in P /\ x = prot /\ \E y : Backs(S, p, h, y)
               \/ p \notin P /\ Backs(S, p, h, x)
    <3>1. PICK t \in T : p \in PagesOf(t) /\ h = Haddr(t, p) /\ x = t.prot
      BY <2>7 DEF Backs
    <3>2. CASE t \in S \ {r}
      <4>1. p \notin PagesOf(r)
        BY <3>1, <3>2, SameRegion
      <4>2. p \notin P
        BY <2>0, <4>1 DEF PagesOf
      <4> QED
        BY <3>1, <3>2, <4>2 DEF Backs
    <3>3. CASE t \in {a, b}
      <4>1. p \in Int /\ p \in PagesOf(r) /\ (t = b <=> p \in P) /\ h = Haddr(r, p)
        BY <2>0, <2>1, <3>1, <3>3 DEF PagesOf
      <4> QED
        BY <2>1, <3>1, <3>3, <4>1 DEF Backs
    <3> QED
      BY <3>2, <3>3
  <2>8. ASSUME NEW p, NEW h, NEW y, Backs(S, p, h, y)
        PROVE  (p \in P => Backs(T, p, h, prot)) /\ (p \notin P => Backs(T, p, h, y))
    <3>1. PICK q \in S : p \in PagesOf(q) /\ h = Haddr(q, p) /\ y = q.prot
      BY <2>8 DEF Backs
    <3>2. CASE q # r
      <4>1. p \notin PagesOf(r)
        BY <3>1, <3>2, SameRegion
      <4>2. p \notin P
        BY <2>0, <4>1 DEF PagesOf
      <4> QED
        BY <3>1, <3>2, <4>2 DEF Backs
    <3>3. CASE q = r
      <4>1. p \in Int /\ (p \in P => p \in PagesOf(b)) /\ (p \notin P => p \in PagesOf(a))
        BY <2>0, <2>1, <3>1, <3>3 DEF PagesOf
      <4> QED
        BY <2>1, <3>1, <3>3, <4>1 DEF Backs
    <3> QED
      BY <3>2, <3>3
  <2>9. Changes(S, T, P, prot)
    BY <2>7, <2>8 DEF Changes
  <2>10. T = SplitFirst(S, r, lo, prot)
    BY <1>2 DEF SplitFirst, a, b
  <2> HIDE DEF T
  <2> QED
    BY <1>2, <2>2, <2>6, <2>9, <2>10
<1> QED
  BY <1>1, <1>2

(* The pages that the walk of mprotect changes.                            *)
Walked(S, lo, end) == UNION {PagesOf(q) \cap (lo .. end - 1) : q \in Chain(S, lo)}

LEMMA WalkParts ==
  ASSUME NEW S, S \subseteq Regions, Disjoint(S), NEW lo \in Int, NEW end \in Int,
         NEW prot \in Prots
  PROVE  /\ Protect(S, lo, end, prot) \subseteq Regions /\ Disjoint(Protect(S, lo, end, prot))
         /\ Changes(S, Protect(S, lo, end, prot), Walked(S, lo, end), prot)
<1> DEFINE C == {q \in Chain(S, lo) : q.lo < end}
           T == Protect(S, lo, end, prot)
           P == Walked(S, lo, end)
           W(q) == WithProt(q, prot)
           A(q) == WithProt(LowPart(q, end), prot)
           B(q) == HighPart(q, end)
<1>1. C \subseteq S /\ \A q \in C : q.lo >= lo /\ q.lo < end
  BY DEF Chain
<1>2. ASSUME NEW q \in C, q.hi <= end
      PROVE  /\ W(q) \in T /\ W(q) \in Regions /\ W(q).lo = q.lo /\ W(q).hi = q.hi /\ W(q).prot = prot
             /\ \A p \in Int : Haddr(W(q), p) = Haddr(q, p)
  <2>1. W(q) \in T
    BY <1>2 DEF Protect
  <2>2. q \in Regions
    BY <1>1
  <2> QED
    BY <2>1, <2>2, Prot
<1>3. ASSUME NEW q \in C, q.hi > end
      PROVE  /\ A(q) \in T /\ A(q) \in Regions /\ A(q).lo = q.lo /\ A(q).hi = end /\ A(q).prot = prot
             /\ B(q) \in T /\ B(q) \in Regions /\ B(q).lo = end /\ B(q).hi = q.hi /\ B(q).prot = q.prot
             /\ \A p \in Int : Haddr(A(q), p) = Haddr(q, p) /\ Haddr(B(q), p) = Haddr(q, p)
  <2>1. A(q) \in T /\ B(q) \in T
    BY <1>3 DEF Protect
  <2>2. q \in Regions /\ end \in q.lo + 1 .. q.hi - 1
    BY <1>1, <1>3, RegionFields
  <2> QED
    BY <2>1, <2>2, TwoParts
<1>4. ASSUME NEW t \in T
      PROVE  \/ t \in S \ C
             \/ \E q \in C : q.hi <= end /\ t = W(q)
             \/ \E q \in C : q.hi > end /\ t \in {A(q), B(q)}
  BY <1>4 DEF Protect
<1> HIDE DEF W, A, B, T
<1>5. T \subseteq Regions
  BY <1>2, <1>3, <1>4
<1>6. ASSUME NEW t \in T PROVE \E r \in S : Inside(t, r)
  <2>1. CASE t \in S \ C
    BY <2>1, RegionFields DEF Inside
  <2>2. ASSUME NEW q \in C, q.hi <= end, t = W(q) PROVE \E r \in S : Inside(t, r)
    BY <1>1, <1>2, <2>2, RegionFields DEF Inside
  <2>3. ASSUME NEW q \in C, q.hi > end, t \in {A(q), B(q)} PROVE \E r \in S : Inside(t, r)
    BY <1>1, <1>3, <2>3, RegionFields DEF Inside
  <2> QED
    BY <1>4, <2>1, <2>2, <2>3
<1>7. ASSUME NEW r \in S, NEW t \in T, Inside(t, r)
      PROVE  \/ t = r /\ r \notin C
             \/ r \in C /\ r.hi <= end /\ t = W(r)
             \/ r \in C /\ r.hi > end /\ t \in {A(r), B(r)}
  <2>1. t \in Regions
    BY <1>5
  <2>2. CASE t \in S \ C
    BY <1>7, <2>1, <2>2, SameInside, RegionFields DEF Inside
  <2>3. ASSUME NEW q \in C, q.hi <= end, t = W(q) PROVE q = r
    <3>1. q \in S /\ Inside(t, q)
      BY <1>1, <1>2, <2>3, RegionFields DEF Inside
    <3> QED
      BY <1>7, <2>1, <3>1, SameInside
  <2>4. ASSUME NEW q \in C, q.hi > end, t \in {A(q), B(q)} PROVE q = r
    <3>1. q \in S /\ Inside(t, q)
      BY <1>1, <1>3, <2>4, RegionFields DEF Inside
    <3> QED
      BY <1>7, <2>1, <3>1, SameInside
  <2> QED
    BY <1>4, <2>2, <2>3, <2>4
<1>8. ASSUME NEW r \in S, NEW t \in T, NEW u \in T, Inside(t, r), Inside(u, r)
      PROVE  t = u \/ ~Overlaps(t, u.lo, u.hi)
  BY <1>3, <1>7, <1>8, RegionFields DEF Overlaps
<1>9. Disjoint(T)
  BY <1>5, <1>6, <1>8, DisjointParts
<1>10. ASSUME NEW r \in S, NEW p \in PagesOf(r)
       PROVE  /\ p \in Int /\ r.lo <= p /\ p < r.hi
              /\ p \in P <=> r \in C /\ p < end
  <2>1. p \in Int /\ r.lo <= p /\ p < r.hi /\ r.lo \in Int
    BY RegionFields DEF PagesOf
  <2>2. ASSUME p \in P PROVE r \in C /\ p < end
    <3>1. PICK q \in Chain(S, lo) : p \in PagesOf(q) /\ p \in lo .. end - 1
      BY <2>2 DEF Walked
    <3>2. q = r
      BY <3>1, SameRegion DEF Chain
    <3> QED
      BY <2>1, <3>1, <3>2
  <2>3. ASSUME r \in C, p < end PROVE p \in P
    <3>1. p \in lo .. end - 1
      BY <1>1, <2>1, <2>3
    <3> QED
      BY <2>3, <3>1 DEF Walked
  <2> QED
    BY <2>1, <2>2, <2>3
<1>11. ASSUME NEW p, NEW h, NEW x, Backs(T, p, h, x)
       PROVE  \/ p \in P /\ x = prot /\ \E y : Backs(S, p, h, y)
              \/ p \notin P /\ Backs(S, p, h, x)
  <2>1. PICK t \in T : p \in PagesOf(t) /\ h = Haddr(t, p) /\ x = t.prot
    BY <1>11 DEF Backs
  <2>2. PICK r \in S : Inside(t, r)
    BY <1>6
  <2>3. p \in Int /\ t.lo <= p /\ p < t.hi /\ p \in PagesOf(r)
    BY <1>5, <2>1, <2>2, RegionFields DEF PagesOf, Inside
  <2>4. h = Haddr(r, p) /\ Backs(S, p, h, r.prot)
    BY <1>2, <1>3, <1>7, <2>1, <2>2, <2>3 DEF Backs
  <2>5. IF p \in P THEN x = prot ELSE x = r.prot
    BY <1>2, <1>3, <1>7, <1>10, <2>1, <2>2, <2>3, RegionFields
  <2> QED
    BY <2>4, <2>5
<1>12. ASSUME NEW p, NEW h, NEW y, Backs(S, p, h, y)
       PROVE  (p \in P => Backs(T, p, h, prot)) /\ (p \notin P => Backs(T, p, h, y))
  <2>1. PICK r \in S : p \in PagesOf(r) /\ h = Haddr(r, p) /\ y = r.prot
    BY <1>12 DEF Backs
  <2>2. p \in Int /\ r.lo <= p /\ p < r.hi /\ (p \in P <=> r \in C /\ p < end)
    BY <1>10, <2>1
  <2>3. CASE r \notin C
    <3>1. r \in T
      BY <2>3 DEF T, Protect
    <3> QED
      BY <2>1, <2>2, <2>3, <3>1 DEF Backs
  <2>4. CASE r \in C /\ r.hi <= end
    <3>1. p \in P /\ p \in PagesOf(W(r))
      BY <1>1, <1>2, <2>2, <2>4, RegionFields DEF PagesOf
    <3> QED
      BY <1>2, <2>1, <2>2, <2>4, <3>1 DEF Backs
  <2>5. CASE r \in C /\ r.hi > end
    <3>1. (p \in P => p \in PagesOf(A(r))) /\ (p \notin P => p \in PagesOf(B(r)))
      BY <1>1, <1>3, <2>2, <2>5, RegionFields DEF PagesOf
    <3> QED
      BY <1>3, <2>1, <2>2, <2>5, <3>1 DEF Backs
  <2>6. r.hi \in Int
    BY RegionFields
  <2> QED
    BY <2>3, <2>4, <2>5, <2>6
<1>13. Changes(S, T, P, prot)
  BY <1>11, <1>12 DEF Changes
<1> QED
  BY <1>5, <1>9, <1>13 DEF T

LEMMA ProtectFits ==
  ASSUME NEW m, Fits(m), NEW T, T \subseteq Regions, Disjoint(T), NEW P, P \subseteq Pages,
         NEW prot \in Prots, Changes(m.regions, T, P, prot)
  PROVE  Fits([regions |-> T, ept |-> m.ept,
               eptProt |-> {x \in m.eptProt : x[1] \notin P} \cup (P \X {prot}), host |-> m.host])
<1> DEFINE S == m.regions
           prots == {x \in m.eptProt : x[1] \notin P} \cup (P \X {prot})
           f == [regions |-> T, ept |-> m.ept, eptProt |-> prots, host |-> m.host]
<1>1. f \in Memory /\ f.regions = T
  <2>1. prots \subseteq Pages \X Prots
    BY DEF Fits, Memory
  <2> QED
    BY <2>1 DEF Fits, Memory
<1>2. ASSUME NEW p, NEW y PROVE <<p, y>> \in prots <=> IF p \in P THEN y = prot ELSE <<p, y>> \in m.eptProt
  OBVIOUS
<1> HIDE DEF prots
<1>3. EptFits(T, f)
  <2>1. ASSUME NEW p \in Pages, f.ept[p] # Unmapped PROVE \E h, x : Backs(T, p, h, x)
    <3>1. PICK h, x : Backs(S, p, h, x)
      BY <2>1 DEF Fits, EptFits
    <3> QED
      BY <3>1 DEF Changes
  <2>2. ASSUME NEW p, NEW h, NEW x, Backs(T, p, h, x)
        PROVE  f.ept[p] = h /\ \A y \in Prots : <<p, y>> \in f.eptProt <=> y = x
    <3>1. CASE p \in P
      <4>1. x = prot /\ m.ept[p] = h
        BY <2>2, <3>1 DEF Changes, Fits, EptFits
      <4> QED
        BY <1>2, <3>1, <4>1
    <3>2. CASE p \notin P
      <4>1. m.ept[p] = h /\ \A y \in Prots : <<p, y>> \in m.eptProt <=> y = x
        BY <2>2, <3>2 DEF Changes, Fits, EptFits
      <4> QED
        BY <1>2, <3>2, <4>1
    <3> QED
      BY <3>1, <3>2
  <2> QED
    BY <2>1, <2>2 DEF EptFits
<1>4. HostFits(T, f)
  <2>1. HostFits(S, m)
    BY DEF Fits
  <2>2. \A p, h : (\E x : Backs(T, p, h, x)) <=> (\E x : Backs(S, p, h, x))
    BY DEF Changes
  <2>3. \A h : h \in f.host <=> \E p, x : Backs(T, p, h, x)
    BY <2>1, <2>2 DEF HostFits
  <2>4. \A p, q, h, x, y : Backs(T, p, h, x) /\ Backs(T, q, h, y) => p = q /\ x = y
    BY <2>1 DEF HostFits, Changes
  <2> QED
    BY <2>3, <2>4 DEF HostFits
<1> HIDE DEF f
<1>5. Fits(f)
  BY <1>1, <1>3, <1>4 DEF Fits
<1> QED
  BY <1>5 DEF f, prots

LEMMA MprotectFits ==
  ASSUME Fits(mm), NEW lo \in Pages, NEW n \in Sizes, NEW prot \in Prots, Mprotect(lo, n, prot)
  PROVE  Fits(mm')
<1>1. PICK r \in find_region(mm.regions, lo) :
        LET S == SplitFirst(mm.regions, r, lo, prot)
            P == Protected(S, r, lo, lo + n)
        IN  mm' = [regions |-> Protect(S, lo, lo + n, prot),
                   ept |-> mm.ept,
                   eptProt |-> {x \in mm.eptProt : x[1] \notin P} \cup (P \X {prot}),
                   host |-> mm.host]
  BY DEF Mprotect
<1> DEFINE S == SplitFirst(mm.regions, r, lo, prot)
           first == IF lo > r.lo THEN lo .. r.hi - 1 ELSE {}
           P == Protected(S, r, lo, lo + n)
           T == Protect(S, lo, lo + n, prot)
<1>2. mm.regions \subseteq Regions /\ Disjoint(mm.regions)
  BY DEF Fits, Memory
<1>3. r \in mm.regions /\ lo \in PagesOf(r) /\ r \in Regions
  BY <1>2 DEF find_region
<1>4. S \subseteq Regions /\ Disjoint(S) /\ Changes(mm.regions, S, first, prot)
  BY <1>2, <1>3, SplitParts
<1>5. lo \in Int /\ lo + n \in Int
  BY MmAssumption DEF Pages, Sizes
<1> HIDE DEF S
<1>6. T \subseteq Regions /\ Disjoint(T) /\ Changes(S, T, Walked(S, lo, lo + n), prot)
  BY <1>4, <1>5, WalkParts
<1> HIDE DEF T
<1>7. P = first \cup Walked(S, lo, lo + n)
  BY DEF Protected, Walked
<1>8. Changes(mm.regions, T, P, prot)
  <2> HIDE DEF P, first
  <2> QED
    BY <1>4, <1>6, <1>7 DEF Changes
<1>9. P \subseteq Pages
  <2>1. first \subseteq Pages
    BY <1>3, <1>5, RegionFields, MmAssumption DEF Pages
  <2>2. \A q \in S : PagesOf(q) \subseteq Pages
    BY <1>4, RegionFields, MmAssumption DEF Pages, PagesOf
  <2>3. Walked(S, lo, lo + n) \subseteq Pages
    BY <2>2 DEF Walked, Chain
  <2> QED
    BY <1>7, <2>1, <2>3
<1>10. mm' = [regions |-> T, ept |-> mm.ept,
              eptProt |-> {x \in mm.eptProt : x[1] \notin P} \cup (P \X {prot}), host |-> mm.host]
  BY <1>1 DEF S, T
<1> HIDE DEF P
<1> QED
  BY <1>6, <1>8, <1>9, <1>10, ProtectFits

LEMMA RecordFits ==
  ASSUME Fits(mm), NEW m, Fits(m), m.host \subseteq mm.host, NEW lo \in Pages,
         NEW hi \in 2 .. N + 1, lo < hi, NEW prot \in Prots, NEW o \in Fresh,
         panic = "no", Record(m, Region(lo, hi, prot, o))
  PROVE  Fits(mm') /\ panic' \in {"no", "overlap"}
<1> DEFINE r == Region(lo, hi, prot, o)
<1>1. r \in Regions /\ r.obj = o
  BY RegionRecord DEF Region, Fresh
<1> HIDE DEF r
<1>2. \A h \in m.host : h[1] # r.obj
  BY <1>1 DEF Fresh
<1>3. CASE Recordable(m, r)
  BY <1>1, <1>2, <1>3, MapFits DEF Record, r
<1>4. CASE ~Recordable(m, r)
  BY <1>4 DEF Record, r
<1> QED
  BY <1>3, <1>4

LEMMA MmapFits ==
  ASSUME Fits(mm), NEW lo \in Pages, NEW hi \in 2 .. N + 1, lo < hi, NEW prot \in Prots,
         panic = "no", do_mmap(lo, hi, prot)
  PROVE  Fits(mm') /\ panic' \in {"no", "overlap"}
<1> DEFINE found == find_region_range(mm.regions, lo, hi)
<1>0. lo \in Int /\ hi \in Int
  BY MmAssumption DEF Pages
<1>1. PICK o \in Fresh :
        \/ found = {} /\ Record(mm, Region(lo, hi, prot, o))
        \/ \E first \in found : Record(do_munmap(mm, lo, hi, first), Region(lo, hi, prot, o))
  BY DEF do_mmap
<1>2. CASE Record(mm, Region(lo, hi, prot, o))
  BY <1>2, RecordFits
<1>3. ASSUME NEW first \in found, Record(do_munmap(mm, lo, hi, first), Region(lo, hi, prot, o))
      PROVE  Fits(mm') /\ panic' \in {"no", "overlap"}
  <2>1. Fits(do_munmap(mm, lo, hi, first))
    BY <1>0, MunmapFits
  <2>2. do_munmap(mm, lo, hi, first).host \subseteq mm.host
    BY DEF do_munmap, Forget
  <2> QED
    BY <1>3, <2>1, <2>2, RecordFits
<1> QED
  BY <1>1, <1>2, <1>3

LEMMA EmptyFits == Fits([regions |-> {}, ept |-> NoPages, eptProt |-> {}, host |-> {}])
<1> DEFINE m == [regions |-> {}, ept |-> NoPages, eptProt |-> {}, host |-> {}]
<1>1. m \in Memory /\ Disjoint(m.regions)
  BY DEF Memory, NoPages, Disjoint
<1>2. EptFits(m.regions, m) /\ HostFits(m.regions, m)
  BY DEF EptFits, HostFits, Backs, NoPages
<1> QED
  BY <1>1, <1>2 DEF Fits

(* The inductive invariant: regions without a common page, page tables and *)
(* host memory that follow them page by page, and counters in their range. *)
MmInv == TypeOK /\ Fits(mm)

LEMMA MmInit == Init => MmInv
<1> SUFFICES ASSUME Init PROVE MmInv
  OBVIOUS
<1>1. Fits(mm)
  BY EmptyFits DEF Init
<1>2. TypeOK
  BY <1>1, MmAssumption DEF Init, TypeOK, Fits, Memory
<1> QED
  BY <1>1, <1>2 DEF MmInv

LEMMA MmStep == MmInv /\ [Next]_vars => MmInv'
<1> SUFFICES ASSUME MmInv, [Next]_vars PROVE MmInv'
  OBVIOUS
<1> DEFINE Ranges == /\ top' \in MmapTop .. N + 1 /\ brk' \in StartBrk .. N + 1
                     /\ panic' \in {"no", "overlap", "mremap"}
<1>0. ASSUME Fits(mm'), Ranges PROVE MmInv'
  BY <1>0 DEF MmInv, TypeOK, Fits, Memory
<1>1. /\ Fits(mm) /\ mm.regions \subseteq Regions
      /\ top \in MmapTop .. N + 1 /\ brk \in StartBrk .. N + 1
      /\ panic \in {"no", "overlap", "mremap"}
  BY DEF MmInv, TypeOK
<1>a. N \in Int /\ MmapTop \in Int /\ StartBrk \in Int /\ MmapTop >= 1 /\ StartBrk >= 1
  BY MmAssumption
<1>b. top \in Int /\ brk \in Int /\ top >= 1 /\ brk >= 1
  BY <1>1, <1>a
<1>c. \A n \in Sizes : n \in Int /\ n >= 1
  BY MmAssumption DEF Sizes
<1>2. ASSUME NEW lo \in Pages, NEW n \in Sizes, NEW prot \in Prots, MmapFixed(lo, n, prot)
      PROVE  Fits(mm') /\ Ranges
  <2>1. lo + n \in 2 .. N + 1 /\ lo < lo + n
    BY <1>a, <1>b, <1>c, <1>2 DEF MmapFixed, Pages
  <2> QED
    BY <1>1, <1>2, <2>1, MmapFits DEF MmapFixed
<1>3. ASSUME NEW n \in Sizes, NEW prot \in Prots, MmapAnywhere(n, prot)
      PROVE  Fits(mm') /\ Ranges
  <2>1. top \in Pages /\ top + n \in 2 .. N + 1 /\ top < top + n /\ top' \in MmapTop .. N + 1
    BY <1>1, <1>a, <1>b, <1>c, <1>3 DEF MmapAnywhere, Pages
  <2> QED
    BY <1>1, <1>3, <2>1, MmapFits DEF MmapAnywhere
<1>4. ASSUME NEW lo \in Pages, NEW n \in {0} \cup Sizes, Munmap(lo, n)
      PROVE  Fits(mm') /\ Ranges
  <2>1. lo \in Int /\ lo + n \in Int /\ lo <= lo + n
    BY <1>a, <1>c DEF Pages
  <2> QED
    BY <1>1, <1>4, <2>1, MunmapFits DEF Munmap
<1>5. ASSUME NEW b \in StartBrk .. N + 1, Brk(b)
      PROVE  Fits(mm') /\ Ranges
  <2>1. CASE b < brk
    <3>1. ASSUME NEW first PROVE Fits(do_munmap(mm, b, brk, first))
      BY <1>1, <1>a, <1>b, <1>c, <2>1, MunmapFits
    <3> QED
      BY <1>1, <1>a, <1>b, <1>c, <1>5, <2>1, <3>1 DEF Brk
  <2>2. CASE b > brk
    <3>1. brk \in Pages /\ b \in 2 .. N + 1 /\ brk < b /\ "rw" \in Prots
      BY <1>1, <1>a, <1>b, <1>c, <2>2, MmAssumption DEF Pages
    <3> QED
      BY <1>1, <1>a, <1>b, <1>c, <1>5, <2>2, <3>1, MmapFits DEF Brk
  <2>3. CASE b = brk
    BY <1>1, <1>a, <1>b, <1>c, <1>5, <2>3 DEF Brk
  <2> QED
    BY <1>a, <1>b, <1>c, <2>1, <2>2, <2>3
<1>6. ASSUME NEW lo \in Pages, NEW old \in {0} \cup Sizes, NEW new \in Sizes, Mremap(lo, old, new)
      PROVE  Fits(mm') /\ Ranges
  <2>1. PICK r \in mm.regions :
          /\ r.lo = lo /\ old <= r.hi - r.lo
          /\ \/ new <= old /\ mm' = Shrink(r, new) /\ UNCHANGED <<top, panic>>
             \/ /\ new > old /\ top + new - 1 <= N
                /\ top' = top + new
                /\ \E o \in Fresh : Record(Leave(r, old), Region(top, top + new, r.prot, o))
             \/ new > old /\ panic' = "mremap" /\ UNCHANGED <<mm, top>>
    BY <1>6 DEF Mremap, find_region
  <2>2. r.lo \in Int /\ r.hi \in Int /\ r.prot \in Prots /\ old \in Nat /\ new \in Nat \ {0}
    BY <1>1, <1>a, <1>b, <1>c, RegionFields
  <2>3. brk' = brk /\ panic = "no"
    BY <1>6 DEF Mremap
  <2>4. CASE new <= old /\ mm' = Shrink(r, new) /\ UNCHANGED <<top, panic>>
    <3>1. new <= r.hi - r.lo
      BY <2>1, <2>2, <2>4
    <3> QED
      BY <1>1, <2>2, <2>3, <2>4, <3>1, ShrinkFits
  <2>5. ASSUME top + new - 1 <= N, top' = top + new, NEW o \in Fresh,
               Record(Leave(r, old), Region(top, top + new, r.prot, o))
        PROVE  Fits(mm') /\ Ranges
    <3>1. top \in Pages /\ top + new \in 2 .. N + 1 /\ top < top + new /\ top' \in MmapTop .. N + 1
      BY <1>1, <1>a, <1>b, <1>c, <2>2, <2>5 DEF Pages
    <3>2. Fits(Leave(r, old)) /\ Leave(r, old).host \subseteq mm.host
      BY <1>1, <2>1, <2>2, LeaveFits
    <3>3. Fits(mm') /\ panic' \in {"no", "overlap"}
      BY <1>1, <2>2, <2>3, <2>5, <3>1, <3>2, RecordFits
    <3> QED
      BY <1>1, <2>3, <3>1, <3>3
  <2>6. CASE panic' = "mremap" /\ UNCHANGED <<mm, top>>
    BY <1>1, <2>3, <2>6
  <2> QED
    BY <2>1, <2>4, <2>5, <2>6
<1>7. ASSUME NEW lo \in Pages, NEW n \in Sizes, NEW prot \in Prots, Mprotect(lo, n, prot)
      PROVE  Fits(mm') /\ Ranges
  <2>1. Fits(mm')
    BY <1>1, <1>7, MprotectFits
  <2> QED
    BY <1>1, <1>7, <2>1 DEF Mprotect
<1>8. CASE Exec
  <2>1. Fits(mm')
    BY <1>8, EmptyFits DEF Exec
  <2>2. Ranges
    BY <1>1, <1>8, MmAssumption DEF Exec
  <2> QED
    BY <1>0, <2>1, <2>2
<1>9. CASE UNCHANGED vars
  BY <1>0, <1>1, <1>9 DEF vars
<1> HIDE DEF Ranges
<1> QED
  BY <1>0, <1>2, <1>3, <1>4, <1>5, <1>6, <1>7, <1>8, <1>9 DEF Next

(* Regions in terms of the view that the properties use.                   *)
LEMMA ViewBacks ==
  ASSUME NEW S, NEW v
  PROVE  v \in View(S) <=> \E p, h, x : Backs(S, p, h, x) /\ v = <<p, h, x>>
  BY DEF View, Backs

LEMMA FitsViews == Fits(mm) => ViewsAgree
<1> SUFFICES ASSUME Fits(mm) PROVE ViewsAgree
  OBVIOUS
<1>1. EptAgrees
  <2>1. ASSUME NEW p \in Pages, mm.ept[p] # Unmapped PROVE \E r \in mm.regions : p \in PagesOf(r)
    BY <2>1 DEF Fits, EptFits, Backs
  <2>2. ASSUME NEW r \in mm.regions, NEW p \in PagesOf(r)
        PROVE  mm.ept[p] = Haddr(r, p) /\ \A x \in Prots : <<p, x>> \in mm.eptProt <=> x = r.prot
    <3>1. Backs(mm.regions, p, Haddr(r, p), r.prot)
      BY DEF Backs
    <3> QED
      BY <3>1 DEF Fits, EptFits
  <2> QED
    BY <2>1, <2>2 DEF EptAgrees
<1>2. HostAgrees
  <2>0. HostFits(mm.regions, mm)
    BY DEF Fits
  <2>1. ASSUME NEW h PROVE h \in mm.host <=> \E r \in mm.regions : \E p \in PagesOf(r) : h = Haddr(r, p)
    BY <2>0 DEF HostFits, Backs
  <2>2. mm.host = UNION {{Haddr(r, p) : p \in PagesOf(r)} : r \in mm.regions}
    BY <2>1
  <2>3. \A v, w \in View(mm.regions) : v[2] = w[2] => v = w
    BY <2>0, ViewBacks DEF HostFits
  <2> QED
    BY <2>2, <2>3 DEF HostAgrees
<1> QED
  BY <1>1, <1>2 DEF ViewsAgree

LEMMA MunmapRange ==
  ASSUME Fits(mm), NEW lo \in Pages, NEW hi \in lo .. N + 1, NEW first \in mm.regions,
         \A r \in mm.regions : Overlaps(r, lo, hi) => first.lo <= r.lo
  PROVE  View(do_munmap(mm, lo, hi, first).regions) = {v \in View(mm.regions) : v[1] \notin lo .. hi - 1}
<1> DEFINE S == mm.regions
           T == Unmaps(S, lo, hi, first)
<1>0. lo \in Int /\ hi \in Int /\ lo <= hi /\ S \subseteq Regions /\ Disjoint(S)
  BY MmAssumption DEF Pages, Fits, Memory
<1>1. do_munmap(mm, lo, hi, first).regions = T
  BY DEF do_munmap, Forget, Unmaps
<1>2. \A p, h, x : Backs(T, p, h, x) <=> Backs(S, p, h, x) /\ p \notin Lost(S, lo, hi, first)
  BY <1>0, MunmapParts
<1>3. ASSUME NEW p, NEW h, NEW x, Backs(S, p, h, x)
      PROVE  p \in Lost(S, lo, hi, first) <=> p \in lo .. hi - 1
  <2>1. PICK r \in S : p \in PagesOf(r)
    BY <1>3 DEF Backs
  <2>2. ASSUME p \in lo .. hi - 1 PROVE r \in Met(S, lo, hi, first)
    <3>1. Overlaps(r, lo, hi)
      BY <1>0, <2>1, <2>2, RegionFields DEF Overlaps, PagesOf
    <3>2. r.lo >= first.lo
      BY <1>0, <3>1, RegionFields
    <3> QED
      BY <3>1, <3>2 DEF Met
  <2> QED
    BY <2>1, <2>2 DEF Lost
<1>4. ASSUME NEW v PROVE v \in View(T) <=> v \in View(S) /\ v[1] \notin lo .. hi - 1
  BY <1>2, <1>3, ViewBacks
<1> HIDE DEF T
<1> QED
  BY <1>1, <1>4

LEMMA WalkedRange ==
  ASSUME NEW S, S \subseteq Regions, Disjoint(S), NEW r \in S, NEW end \in Int,
         NEW q \in S, NEW p \in PagesOf(q)
  PROVE  p \in Walked(S, r.lo, end)
           <=> p >= r.lo /\ p < end /\ \A a \in r.lo .. p : find_region(S, a) # {}
<1>0. /\ r.lo \in Int /\ r.hi \in Int /\ r.lo < r.hi /\ q.lo \in Int /\ q.hi \in Int
      /\ p \in Int /\ q.lo <= p /\ p < q.hi
  BY RegionFields DEF PagesOf
<1>1. ASSUME p \in Walked(S, r.lo, end)
      PROVE  p >= r.lo /\ p < end /\ \A a \in r.lo .. p : find_region(S, a) # {}
  <2>1. PICK c \in Chain(S, r.lo) : p \in PagesOf(c) /\ p \in r.lo .. end - 1
    BY <1>1 DEF Walked
  <2>2. c = q
    BY <2>1, SameRegion DEF Chain
  <2>3. ASSUME NEW a \in r.lo .. p PROVE find_region(S, a) # {}
    <3>1. CASE a < q.lo
      BY <1>0, <2>1, <2>2, <3>1 DEF Chain
    <3>2. CASE a >= q.lo
      BY <1>0, <3>2 DEF find_region, PagesOf
    <3> QED
      BY <1>0, <3>1, <3>2
  <2> QED
    BY <1>0, <2>1, <2>3
<1>2. ASSUME p >= r.lo, p < end, \A a \in r.lo .. p : find_region(S, a) # {}
      PROVE  p \in Walked(S, r.lo, end)
  <2>1. q = r \/ ~Overlaps(q, r.lo, r.hi)
    BY DEF Disjoint
  <2>2. q.lo >= r.lo
    BY <1>0, <1>2, <2>1 DEF Overlaps
  <2>3. q \in Chain(S, r.lo)
    BY <1>0, <1>2, <2>2 DEF Chain
  <2>4. p \in r.lo .. end - 1
    BY <1>0, <1>2
  <2> QED
    BY <2>3, <2>4 DEF Walked
<1> QED
  BY <1>1, <1>2

LEMMA ProtectRange ==
  ASSUME Fits(mm), NEW r \in mm.regions, NEW end \in Int, NEW prot \in Prots
  PROVE  View(Protect(mm.regions, r.lo, end, prot)) =
           {IF v[1] >= r.lo /\ v[1] < end /\ \A p \in r.lo .. v[1] : find_region(mm.regions, p) # {}
            THEN <<v[1], v[2], prot>> ELSE v : v \in View(mm.regions)}
<1> DEFINE S == mm.regions
           T == Protect(S, r.lo, end, prot)
           P == Walked(S, r.lo, end)
           In(p) == p >= r.lo /\ p < end /\ \A a \in r.lo .. p : find_region(S, a) # {}
           Img(v) == IF In(v[1]) THEN <<v[1], v[2], prot>> ELSE v
<1>0. S \subseteq Regions /\ Disjoint(S) /\ r.lo \in Int
  BY RegionFields DEF Fits, Memory
<1>1. Changes(S, T, P, prot)
  BY <1>0, WalkParts
<1>2. ASSUME NEW p, NEW h, NEW x, Backs(S, p, h, x) PROVE p \in P <=> In(p)
  <2>1. PICK q \in S : p \in PagesOf(q)
    BY <1>2 DEF Backs
  <2> QED
    BY <1>0, <2>1, WalkedRange
<1> HIDE DEF T, P, In
<1>3. ASSUME NEW w, w \in View(T) PROVE \E v \in View(S) : w = Img(v)
  <2>1. PICK p, h, x : Backs(T, p, h, x) /\ w = <<p, h, x>>
    BY <1>3, ViewBacks
  <2>2. CASE p \in P
    <3>1. PICK y : Backs(S, p, h, y) /\ x = prot
      BY <1>1, <2>1, <2>2 DEF Changes
    <3>2. <<p, h, y>> \in View(S) /\ In(p)
      BY <1>2, <2>2, <3>1, ViewBacks
    <3> QED
      BY <2>1, <3>1, <3>2
  <2>3. CASE p \notin P
    <3>1. Backs(S, p, h, x)
      BY <1>1, <2>1, <2>3 DEF Changes
    <3>2. w \in View(S) /\ ~In(p)
      BY <1>2, <2>1, <2>3, <3>1, ViewBacks
    <3> QED
      BY <2>1, <3>2
  <2> QED
    BY <2>2, <2>3
<1>4. ASSUME NEW v \in View(S) PROVE Img(v) \in View(T)
  <2>1. PICK p, h, y : Backs(S, p, h, y) /\ v = <<p, h, y>>
    BY <1>4, ViewBacks
  <2>2. CASE In(p)
    <3>1. Backs(T, p, h, prot)
      BY <1>1, <1>2, <2>1, <2>2 DEF Changes
    <3> QED
      BY <2>1, <2>2, <3>1, ViewBacks
  <2>3. CASE ~In(p)
    <3>1. Backs(T, p, h, y)
      BY <1>1, <1>2, <2>1, <2>3 DEF Changes
    <3> QED
      BY <2>1, <2>3, <3>1, ViewBacks
  <2> QED
    BY <2>2, <2>3
<1>5. View(T) = {Img(v) : v \in View(S)}
  <2> HIDE DEF Img
  <2> QED
    BY <1>3, <1>4
<1> QED
  BY <1>5 DEF T, In

LEMMA FitsRanges == Fits(mm) => RangesExact
<1> SUFFICES ASSUME Fits(mm) PROVE MunmapExact /\ ProtectExact
  BY DEF RangesExact
<1>1. MunmapExact
  BY MunmapRange DEF MunmapExact, find_region_range
<1>2. ProtectExact
  <2> SUFFICES ASSUME NEW r \in mm.regions, NEW end \in r.lo + 1 .. N + 1, NEW prot \in Prots
               PROVE  View(Protect(mm.regions, r.lo, end, prot)) =
                        {IF v[1] >= r.lo /\ v[1] < end /\ \A p \in r.lo .. v[1] : find_region(mm.regions, p) # {}
                         THEN <<v[1], v[2], prot>> ELSE v : v \in View(mm.regions)}
    BY Zenon DEF ProtectExact
  <2>1. end \in Int
    OBVIOUS
  <2> QED
    BY <2>1, ProtectRange, Zenon
<1> QED
  BY <1>1, <1>2

(* Every variable has its type, for any number of pages.                   *)
THEOREM MmTypeCorrect == Spec => []TypeOK
<1>1. MmInv => TypeOK
  BY DEF MmInv
<1> QED
  BY <1>1, MmInit, MmStep, PTL DEF Spec

(* No two regions share a page and none is without pages, however often    *)
(* mmap, munmap, mremap, mprotect, brk and execve cut them, and wherever   *)
(* find_region_range starts the walk (src/src/mm/mmap.c:37-278).           *)
THEOREM RegionsAlwaysDisjoint == Spec => []RegionsDisjoint
<1>1. MmInv => RegionsDisjoint
  BY DEF MmInv, Fits, RegionsDisjoint
<1> QED
  BY <1>1, MmInit, MmStep, PTL DEF Spec

(* The regions, the page tables of the VM and the host mappings of noah    *)
(* agree page by page after every call (src/src/mm/mmap.c:37-278).         *)
THEOREM ViewsAlwaysAgree == Spec => []ViewsAgree
<1>1. MmInv => ViewsAgree
  BY FitsViews DEF MmInv
<1> QED
  BY <1>1, MmInit, MmStep, PTL DEF Spec

(* munmap and mprotect change the pages of their range and no others, over *)
(* any regions that earlier calls have left (src/src/mm/mmap.c:37-71,      *)
(* 219-278).                                                               *)
THEOREM RangesAlwaysExact == Spec => []RangesExact
<1>1. MmInv => RangesExact
  BY FitsRanges DEF MmInv
<1> QED
  BY <1>1, MmInit, MmStep, PTL DEF Spec
=============================================================================
