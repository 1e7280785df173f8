------------------------------ MODULE UserCopy ------------------------------
(***************************************************************************)
(* How noah reaches guest memory (src/src/base.c) and answers the faults   *)
(* of the guest (src/src/main.c:318-351), in every state of Mm.            *)
(*                                                                         *)
(* A page has PageSize bytes, and byte a is on page a \div PageSize.  A    *)
(* byte of host memory is a page of a host mapping and an offset in it.    *)
(***************************************************************************)
EXTENDS Mm, Sequences, FiniteSets

CONSTANTS
  PageSize,  \* stands for 4096
  MaxCopy    \* the longest copy

ASSUME CopyAssumption == PageSize \in Nat \ {0} /\ MaxCopy \in Nat \ {0, 1}

NULL == <<>>
PageOf(a) == a \div PageSize

(* Regions of noah's own (vkern_mm) are not at guest addresses used here.  *)
guest_to_host(a) ==
  LET found == find_region(mm.regions, PageOf(a)) IN
  IF found = {} THEN NULL
  ELSE LET r == CHOOSE r \in found : TRUE
       IN  <<r.obj, PageSize * r.off + (a - PageSize * r.lo)>>

(* memcpy from or to host memory.                                          *)
HostBytes(h, size) == [i \in 1 .. size |-> <<h[1], h[2] + i - 1>>]

Smaller(i, j) == IF i < j THEN i ELSE j

(* Mutant of Piece: up to the end of the copy.                             *)
Piece_all(a, n) == n

(* rounddown(a + 4096, 4096) - a bytes are left on the page.               *)
Piece(a, n) == Smaller(PageSize * PageOf(a + PageSize) - a, n)

(* The loop of copy_from_user and copy_to_user: the host bytes it copies,  *)
(* and how many bytes are left when it stops.                              *)
RECURSIVE copy_user(_, _)
copy_user(a, n) ==
  IF n = 0 THEN [left |-> 0, bytes |-> <<>>]
  ELSE LET h == guest_to_host(a)
           size == Piece(a, n)
           rest == copy_user(a + size, n - size)
       IN  IF h = NULL THEN [left |-> n, bytes |-> <<>>]
           ELSE [rest EXCEPT !.bytes = HostBytes(h, size) \o @]

(* The place of the first NUL of host bytes, or one past their end.        *)
strnlen(bytes, nul) ==
  LET at == {i \in DOMAIN bytes : bytes[i] \in nul}
  IN  IF at = {} THEN Len(bytes) ELSE (CHOOSE i \in at : \A j \in at : i <= j) - 1

RECURSIVE strnlen_user(_, _, _, _)
strnlen_user(a, n, len, nul) ==
  IF n <= 0 THEN len + 1
  ELSE LET h == guest_to_host(a)
           size == Piece(a, n)
           i == strnlen(HostBytes(h, size), nul)
       IN  CASE h = NULL -> 0
             [] h # NULL /\ i < size -> len + i + 1
             [] OTHER -> strnlen_user(a + size, n - size, len + size, nul)

EFAULT == -14

(* What strncpy_from_user returns and the host bytes it has copied.        *)
strncpy_from_user(a, n, nul) ==
  LET len == strnlen_user(a, n, 0, nul)
      copy == copy_user(a, Smaller(n, len))
  IN  IF len = 0 \/ copy.left > 0 THEN [ret |-> EFAULT, bytes |-> <<>>]
      ELSE [ret |-> IF n < len THEN n ELSE len - 1, bytes |-> copy.bytes]

(* Mutant of addr_ok: any access to a region is fine.                      *)
addr_ok_any(p, access) == find_region(mm.regions, p) # {}

(* Is the access allowed by the protection of the region?                  *)
Allows(prot, access) == access = "read" \/ prot = "rw"

addr_ok(p, access) == \E r \in find_region(mm.regions, p) : Allows(r.prot, access)

(* On an EPT violation the guest gets SIGSEGV or tries again.              *)
EptViolation(p, access) == IF addr_ok(p, access) THEN "again" ELSE "SIGSEGV"

(* What the processor allows (external).                                   *)
EptAllows(p, access) ==
  mm.ept[p] # Unmapped /\ \E x \in mm.eptProt : x[1] = p /\ Allows(x[2], access)
-----------------------------------------------------------------------------
Addresses == PageSize .. PageSize * (N + 1) - 1
Mapped(a) == a \in Addresses /\ mm.ept[PageOf(a)] # Unmapped

(* The byte the guest sees at an address.                                  *)
EptByte(a) ==
  LET h == mm.ept[PageOf(a)] IN <<h[1], PageSize * h[2] + (a % PageSize)>>

(* As many bytes as are mapped in a row from a on, n at most.              *)
Reach(a, n) ==
  CHOOSE k \in 0 .. n : /\ \A i \in 0 .. k - 1 : Mapped(a + i)
                        /\ k = n \/ ~Mapped(a + k)

(* A copy over any number of pages and regions, after any sequence of      *)
(* splits and moves, touches the bytes the guest sees at its addresses up  *)
(* to the first page that is not mapped, and counts the others as left     *)
(* (src/src/base.c:29-45, 89-104).                                         *)
BlockExact ==
  \A a \in Addresses : \A n \in 0 .. MaxCopy :
    LET k == Reach(a, n) IN
    copy_user(a, n) = [left |-> n - k, bytes |-> [i \in 1 .. k |-> EptByte(a + i - 1)]]

(* A string is taken whole or not at all: its length and bytes are those   *)
(* up to the first NUL wherever pages and regions end, a string cut at n   *)
(* says so by the length n, and one that runs into a page that is not      *)
(* mapped is EFAULT (src/src/base.c:47-87).                                *)
StringExact ==
  \A a \in {b \in Addresses : Mapped(b)} : \A nul \in 0 .. MaxCopy :
    LET n == MaxCopy
        k == Reach(a, n)
        nuls == IF Mapped(a + nul) THEN {EptByte(a + nul)} ELSE {}
        s == strncpy_from_user(a, n, nuls)
        m == IF nul < k THEN nul + 1 ELSE n
    IN  IF nul < k \/ k = n
        THEN s = [ret |-> IF nul < k THEN nul ELSE n, bytes |-> [i \in 1 .. m |-> EptByte(a + i - 1)]]
        ELSE s.ret = EFAULT

(* noah reads and writes the bytes the guest sees, of blocks and strings.  *)
CopyExact == BlockExact /\ StringExact

(* An access that the page tables of the VM refuse ends in SIGSEGV: the    *)
(* guest does not run into the same fault again and again (src/src/main.c: *)
(* 344).  Said of accesses that are reported as a read or as a write; one  *)
(* that is reported as both is looked up as a read.                        *)
FaultEnds ==
  \A p \in Pages, access \in {"read", "write"} :
    ~EptAllows(p, access) => EptViolation(p, access) = "SIGSEGV"
=============================================================================
