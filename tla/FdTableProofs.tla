--------------------------- MODULE FdTableProofs ---------------------------
(***************************************************************************)
(* Proofs about FdTable: for any number of threads, any sizes of the two   *)
(* tables and any descriptors, noah's table of open descriptors is         *)
(* Darwin's, noah keeps its own descriptors, and what the program sees is  *)
(* LinuxFds.                                                               *)
(*                                                                         *)
(* The inductive invariant FdInv says that the tables agree as long as     *)
(* nothing is spoilt, that at most one call is then under way, and what a  *)
(* call that has given fdtable_lock up in its middle still relies on when  *)
(* it goes on (CallInv).  Every action lemma shows that FdInv is kept, and *)
(* that the step is a call of LinuxFds or changes nothing the program sees *)
(* (Preserved).                                                            *)
(***************************************************************************)
EXTENDS FdTable, TLAPS, WellFoundedInduction

(* Every set of natural numbers that is not empty has a least element,     *)
LEMMA LeastExists ==
  ASSUME NEW S \in SUBSET Nat, S # {}
  PROVE  \E m \in S : \A k \in S : m <= k
<1>1. \E x \in S : \A y \in S : ~(<<y, x>> \in OpToRel(<, Nat))
  BY NatLessThanWellFounded, WFMin
<1>2. \A x, y \in Nat : y < x => <<y, x>> \in OpToRel(<, Nat)
  BY Zenon DEF OpToRel
<1>3. \E x \in S : \A y \in S : ~(y < x)
  BY <1>1, <1>2, Zenon
<1> QED
  BY <1>3

(* The arrays that alloc_fdtable makes have room for the descriptor.       *)
LEMMA RoundedAbove ==
  ASSUME NEW fd \in Nat
  PROVE  Rounded(fd) \in Nat /\ fd < Rounded(fd)
<1>1. Unit \in Nat \ {0}
  BY FdAssumption
<1> QED
  BY <1>1 DEF Rounded

(* and a bounded one has a greatest.                                       *)
LEMMA GreatestExists ==
  ASSUME NEW S \in SUBSET Nat, S # {}, NEW b \in Nat, \A k \in S : k <= b
  PROVE  \E m \in S : \A k \in S : m >= k
<1> DEFINE U == {u \in Nat : \A k \in S : k <= u}
<1>1. PICK m \in U : \A u \in U : m <= u
  BY LeastExists
<1>2. m \in S
  <2> SUFFICES ASSUME m \notin S PROVE FALSE
    OBVIOUS
  <2>1. \A k \in S : k < m
    BY <1>1
  <2>2. m - 1 \in U
    <3>1. m \in Nat /\ S \subseteq Nat /\ \E k \in S : k < m
      BY <1>1, <2>1
    <3>2. m - 1 \in Nat /\ \A k \in S : k <= m - 1
      BY <2>1, <3>1
    <3> QED
      BY <3>2
  <2> QED
    BY <1>1, <2>2
<1> QED
  BY <1>1, <1>2
-----------------------------------------------------------------------------
(* The numbers that belong to noah.                                        *)
SystemFd == VkernStart .. NumFds - 1

(* The type of the two tables.                                             *)
Tab == [host : [Fd -> {"user", "vkern", "none"}], hostCloexec : SUBSET Fd, size : Nat,
        open_fds : SUBSET UserFd, cloexec_fds : SUBSET UserFd]

(* A set of flags after a descriptor was registered with ce or without.    *)
Flag(S, fd, ce) == IF ce THEN S \cup {fd} ELSE S \ {fd}

(* Every bit lies inside the arrays.                                       *)
Sized(s) == \A fd \in s.open_fds \cup s.cloexec_fds : fd < s.size
(* noah's table lists what Darwin has open, and only an open descriptor    *)
(* has its flag set.                                                       *)
Agrees(s) == s.open_fds = {fd \in UserFd : s.host[fd] # "none"} /\ s.cloexec_fds \subseteq s.open_fds
(* The system descriptors v are noah's, if no program asks dup3 for one of *)
(* them.                                                                   *)
Holds(s, v) == NewFds \subseteq UserFd => \A fd \in v : s.host[fd] = "vkern"

(* Program and system descriptors share Darwin's numbers out.              *)
LEMMA FdSets ==
  /\ UserFd \subseteq Fd /\ SystemFd \subseteq Fd /\ UserFd \cap SystemFd = {}
  /\ UserFd \subseteq Nat /\ Fd \subseteq Nat
  /\ NoFd \in Nat /\ ~Registers(NoFd)
  /\ \A fd \in Fd : Registers(fd) <=> fd \in UserFd
  /\ \A fd \in Fd : ~Registers(fd) <=> fd \in SystemFd
BY FdAssumption DEF Fd, UserFd, SystemFd, NumFds, NoFd, Registers

(* Darwin's open, for one number.                                          *)
LEMMA HostOpenIs ==
  ASSUME NEW s \in Tab, NEW f \in Fd, NEW who \in {"user", "vkern"}, NEW ce \in BOOLEAN
  PROVE  LET r == HostOpen(s, f, who, ce) IN
         /\ r \in Tab /\ r.size = s.size /\ r.open_fds = s.open_fds /\ r.cloexec_fds = s.cloexec_fds
         /\ r.host[f] = who /\ \A g \in Fd \ {f} : r.host[g] = s.host[g]
BY DEF HostOpen, Tab

(* Darwin's close; a number that is out of range changes nothing.          *)
LEMMA HostCloseIs ==
  ASSUME NEW s \in Tab, NEW f \in Nat
  PROVE  LET r == HostClose(s, f) IN
         /\ r \in Tab /\ r.size = s.size /\ r.open_fds = s.open_fds /\ r.cloexec_fds = s.cloexec_fds
         /\ (f \in Fd => r.host[f] = "none") /\ \A g \in Fd \ {f} : r.host[g] = s.host[g]
BY DEF HostClose, Tab

(* alloc_fdtable never shrinks the arrays, and makes room                  *)
(* (src/src/fs/fs.c:96-131).                                               *)
LEMMA AllocIs ==
  ASSUME NEW n \in Nat, NEW fd \in Nat
  PROVE  alloc_fdtable(n, fd) \in Nat /\ alloc_fdtable(n, fd) >= n /\ alloc_fdtable(n, fd) > fd
<1>1. Rounded(fd) \in Nat /\ fd < Rounded(fd)
  BY RoundedAbove
<1> DEFINE T == {n, Rounded(fd)}
<1>2. \E m \in T : \A k \in T : m >= k
  BY <1>1
<1>3. Max(T) \in T /\ \A k \in T : Max(T) >= k
  BY <1>2, Zenon DEF Max
<1> QED
  BY <1>1, <1>3 DEF alloc_fdtable

(* register_fd sets one bit and one flag, and leaves Darwin alone.         *)
LEMMA RegisterIs ==
  ASSUME NEW s \in Tab, NEW fd \in UserFd, NEW ce \in BOOLEAN
  PROVE  LET r == register_fd(s, fd, ce) IN
         /\ r \in Tab /\ r.host = s.host /\ r.size >= s.size /\ fd < r.size
         /\ r.open_fds = s.open_fds \cup {fd}
         /\ r.cloexec_fds = Flag(s.cloexec_fds, fd, ce)
<1>1. Registers(fd) /\ fd \in Nat
  BY FdSets
<1>2. s.size \in Nat
  BY DEF Tab
<1> DEFINE a == alloc_fdtable(s.size, fd)
<1>3. a \in Nat /\ a >= s.size /\ a > fd
  BY <1>1, <1>2, AllocIs
<1> DEFINE O == s.open_fds \cup {fd}
           C == IF ce THEN s.cloexec_fds \cup {fd} ELSE s.cloexec_fds \ {fd}
<1>4. register_fd(s, fd, ce) = [s EXCEPT !.size = a, !.open_fds = O, !.cloexec_fds = C]
  BY <1>1 DEF register_fd
<1>5. O \in SUBSET UserFd /\ C \in SUBSET UserFd
  BY DEF Tab
<1> HIDE DEF a, O, C
<1>6. LET r == register_fd(s, fd, ce) IN
      r \in Tab /\ r.host = s.host /\ r.size = a /\ r.open_fds = O /\ r.cloexec_fds = C
  BY <1>3, <1>4, <1>5 DEF Tab
<1> QED
  BY <1>3, <1>6 DEF O, C, Flag

(* do_close clears one bit, one flag and Darwin's descriptor, or does      *)
(* nothing.                                                                *)
LEMMA DoCloseIs ==
  ASSUME NEW s \in Tab, Sized(s), NEW fd \in UserFd
  PROVE  LET r == do_close(s, fd) IN
         /\ get_file(s, fd) <=> fd \in s.open_fds
         /\ r \in Tab /\ r.size = s.size
         /\ fd \notin s.open_fds => r = s
         /\ fd \in s.open_fds => /\ r.host[fd] = "none" /\ \A g \in Fd \ {fd} : r.host[g] = s.host[g]
                                 /\ r.open_fds = s.open_fds \ {fd}
                                 /\ r.cloexec_fds = s.cloexec_fds \ {fd}
<1>1. get_file(s, fd) <=> fd \in s.open_fds
  BY DEF get_file, Sized
<1>2. CASE fd \notin s.open_fds
  BY <1>1, <1>2 DEF do_close
<1>3. CASE fd \in s.open_fds
  <2> DEFINE h == HostClose(s, fd)
  <2>1. do_close(s, fd) = [h EXCEPT !.open_fds = @ \ {fd}, !.cloexec_fds = @ \ {fd}]
    BY <1>1, <1>3 DEF do_close
  <2>2. /\ h \in Tab /\ h.size = s.size /\ h.open_fds = s.open_fds /\ h.cloexec_fds = s.cloexec_fds
        /\ h.host[fd] = "none" /\ \A g \in Fd \ {fd} : h.host[g] = s.host[g]
    BY HostCloseIs, FdSets
  <2> DEFINE O == s.open_fds \ {fd}
             C == s.cloexec_fds \ {fd}
  <2>3. O \in SUBSET UserFd /\ C \in SUBSET UserFd
    BY DEF Tab
  <2>4. do_close(s, fd) = [h EXCEPT !.open_fds = O, !.cloexec_fds = C]
    BY <2>1, <2>2
  <2> HIDE DEF h, O, C
  <2>5. LET r == do_close(s, fd) IN
        r \in Tab /\ r.host = h.host /\ r.size = h.size /\ r.open_fds = O /\ r.cloexec_fds = C
    BY <2>2, <2>3, <2>4 DEF Tab
  <2> QED
    BY <1>1, <1>3, <2>2, <2>5 DEF O, C
<1> QED
  BY <1>2, <1>3

(* close_cloexec closes exactly the flagged descriptors, where the tables  *)
(* agree,                                                                  *)
LEMMA CloseCloexecIs ==
  ASSUME NEW s \in Tab, Sized(s), Agrees(s)
  PROVE  LET r == close_cloexec(s) IN
         /\ r.open_fds = s.open_fds \ s.cloexec_fds /\ r.cloexec_fds = {}
         /\ \A f \in Fd : r.host[f] = IF f \in s.cloexec_fds THEN "none" ELSE s.host[f]
<1> DEFINE c == {f \in s.cloexec_fds : get_file(s, f)}
<1>1. c = s.cloexec_fds
  BY DEF get_file, Sized, Agrees
<1>2. close_cloexec(s) = [s EXCEPT !.host = [f \in Fd |-> IF f \in c THEN "none" ELSE s.host[f]],
                                   !.hostCloexec = @ \ c, !.open_fds = @ \ c, !.cloexec_fds = @ \ c]
  BY DEF close_cloexec, CloseAll
<1> HIDE DEF c
<1> QED
  BY <1>1, <1>2 DEF Tab

(* and never touches a system descriptor.                                  *)
LEMMA CloseCloexecType ==
  ASSUME NEW s \in Tab
  PROVE  LET r == close_cloexec(s) IN
         /\ r \in Tab /\ r.size = s.size
         /\ r.open_fds \subseteq s.open_fds /\ r.cloexec_fds \subseteq s.cloexec_fds
         /\ \A f \in SystemFd : r.host[f] = s.host[f]
<1> DEFINE c == {f \in s.cloexec_fds : get_file(s, f)}
           h == [f \in Fd |-> IF f \in c THEN "none" ELSE s.host[f]]
<1>1. c \subseteq UserFd
  BY DEF Tab
<1> DEFINE H == s.hostCloexec \ c
           O == s.open_fds \ c
           C == s.cloexec_fds \ c
<1>2. close_cloexec(s) = [s EXCEPT !.host = h, !.hostCloexec = H, !.open_fds = O, !.cloexec_fds = C]
  BY DEF close_cloexec, CloseAll
<1> HIDE DEF c
<1>3. h \in [Fd -> {"user", "vkern", "none"}] /\ \A f \in SystemFd : h[f] = s.host[f]
  BY <1>1, FdSets DEF Tab
<1>4. H \in SUBSET Fd /\ O \in SUBSET UserFd /\ C \in SUBSET UserFd
  BY DEF Tab
<1>5. O \subseteq s.open_fds /\ C \subseteq s.cloexec_fds
  OBVIOUS
<1> HIDE DEF h, H, O, C
<1>6. LET r == close_cloexec(s) IN
      r \in Tab /\ r.host = h /\ r.size = s.size /\ r.open_fds = O /\ r.cloexec_fds = C
  BY <1>2, <1>3, <1>4 DEF Tab
<1> QED
  BY <1>3, <1>5, <1>6

(* Darwin's number for a new descriptor is free, and no lower one is.      *)
LEMMA LowestIs ==
  ASSUME NEW s \in Tab, NEW least \in Nat
  PROVE  LET fd == HostLowest(s, least) IN
         /\ fd \in Fd \cup {NoFd}
         /\ fd # NoFd => /\ fd \in Fd /\ fd >= least /\ s.host[fd] = "none"
                        /\ \A g \in Fd : g >= least /\ g < fd => s.host[g] # "none"
<1> DEFINE S == HostFree(s, least)
<1>1. CASE S = {}
  BY <1>1 DEF HostLowest
<1>2. CASE S # {}
  <2>1. NumFds \in Nat /\ S \subseteq Fd /\ S \subseteq Nat
    BY FdAssumption DEF HostFree, NumFds, Fd
  <2>2. \E x \in S : \A y \in S : x <= y
    BY <1>2, <2>1, LeastExists
  <2>3. Min(S) \in S /\ \A y \in S : Min(S) <= y
    BY <2>2, Zenon DEF Min
  <2>4. HostLowest(s, least) = Min(S)
    BY <1>2 DEF HostLowest
  <2>5. PICK m \in S : m = Min(S)
    BY <2>3
  <2>6. m \in Fd /\ m >= least /\ s.host[m] = "none"
    BY <2>1 DEF HostFree, Fd
  <2>7. ASSUME NEW g \in Fd, g >= least, g < m PROVE s.host[g] # "none"
    <3>1. g \notin S
      BY <2>1, <2>3, <2>5, <2>7 DEF Fd
    <3> QED
      BY <2>1, <2>7, <3>1 DEF HostFree, Fd
  <2> QED
    BY <2>4, <2>5, <2>6, <2>7
<1> QED
  BY <1>1, <1>2

(* r is table s with fd opened and recorded.                               *)
Installed(r, s, fd, ce, v) ==
  /\ r \in Tab /\ r.size >= s.size /\ fd < r.size /\ Sized(r)
  /\ r.open_fds = s.open_fds \cup {fd}
  /\ r.cloexec_fds = Flag(s.cloexec_fds, fd, ce)
  /\ Agrees(s) => Agrees(r)
  /\ Holds(s, v) => Holds(r, v)
  /\ \A g \in Fd \ {fd} : r.host[g] = s.host[g]

(* A descriptor that Darwin opens and register_fd records.                 *)
LEMMA InstallIs ==
  ASSUME NEW s \in Tab, Sized(s), NEW fd \in UserFd, NEW h \in BOOLEAN, NEW ce \in BOOLEAN,
         NEW v \in SUBSET SystemFd
  PROVE  Installed(register_fd(HostOpen(s, fd, "user", h), fd, ce), s, fd, ce, v)
<1>1. fd \in Fd /\ "user" \in {"user", "vkern"}
  BY FdSets
<1> DEFINE o == HostOpen(s, fd, "user", h)
           r == register_fd(o, fd, ce)
<1>2. /\ o \in Tab /\ o.size = s.size /\ o.open_fds = s.open_fds /\ o.cloexec_fds = s.cloexec_fds
      /\ o.host[fd] = "user" /\ \A g \in Fd \ {fd} : o.host[g] = s.host[g]
  BY <1>1, HostOpenIs
<1> HIDE DEF o
<1>3. /\ r \in Tab /\ r.host = o.host /\ r.size >= o.size /\ fd < r.size
      /\ r.open_fds = o.open_fds \cup {fd}
      /\ r.cloexec_fds = Flag(o.cloexec_fds, fd, ce)
  BY <1>2, RegisterIs
<1> HIDE DEF r
<1>4. /\ r \in Tab /\ r.host = o.host /\ r.size >= s.size /\ fd < r.size
      /\ r.open_fds = s.open_fds \cup {fd}
      /\ r.cloexec_fds = Flag(s.cloexec_fds, fd, ce)
  BY <1>2, <1>3
<1>5. Sized(r)
  <2> SUFFICES ASSUME NEW g \in r.open_fds \cup r.cloexec_fds PROVE g < r.size
    BY DEF Sized
  <2>1. g = fd \/ g \in s.open_fds \cup s.cloexec_fds
    BY <1>4 DEF Flag
  <2>2. CASE g = fd
    BY <1>4, <2>2
  <2>3. CASE g \in s.open_fds \cup s.cloexec_fds
    <3>1. g < s.size /\ g \in Nat /\ s.size \in Nat /\ r.size \in Nat
      BY <2>3, <1>4, FdSets DEF Sized, Tab
    <3> QED
      BY <3>1, <1>4
  <2> QED
    BY <2>1, <2>2, <2>3
<1>6. ASSUME Agrees(s) PROVE Agrees(r)
  <2>1. r.open_fds = {g \in UserFd : r.host[g] # "none"}
    BY <1>2, <1>4, <1>6, FdSets DEF Agrees
  <2>2. r.cloexec_fds \subseteq r.open_fds
    BY <1>4, <1>6 DEF Agrees, Flag
  <2> QED
    BY <2>1, <2>2 DEF Agrees
<1>7. Holds(s, v) => Holds(r, v)
  BY <1>2, <1>4, FdSets DEF Holds
<1>8. Installed(r, s, fd, ce, v)
  BY <1>2, <1>4, <1>5, <1>6, <1>7 DEF Installed
<1> QED
  BY <1>8 DEF r, o
-----------------------------------------------------------------------------
(* Places in a call that goes on with a descriptor of the program,         *)
OnFd == {"pair", "dupfd", "setfd", "dup_dupfd", "ioctl_setfd", "dup_register", "ioctl_setbit"}
(* with a system descriptor,                                               *)
OnSlot == {"exec", "utimens", "exec_close"}
(* and all places.                                                         *)
Places == OnFd \cup OnSlot \cup {"user", "accept", "unlock"}

(* The type of every variable.  The descriptor of a call that gave the     *)
(* lock up still lies inside the arrays: they never shrink.                *)
TypeOK ==
  /\ tab \in Tab /\ vkern \in SUBSET SystemFd /\ spoilt \in BOOLEAN
  /\ pc \in [Threads -> Places] /\ call \in [Threads -> Fd \cup {NoFd}]
  /\ \A t \in Threads : pc[t] \in OnFd => call[t] \in UserFd /\ call[t] < tab.size
  /\ \A t \in Threads : pc[t] \in OnSlot => call[t] \in SystemFd

(* Calls that do not overlap.                                              *)
OneCall == ~spoilt => \A t, u \in Threads : pc[t] # "user" /\ pc[u] # "user" => t = u

(* What dup and ioctl(FIOCLEX) find when they go on after the nested       *)
(* sys_fcntl has given the lock up.                                        *)
CallInv ==
  ~spoilt => \A t \in Threads :
    /\ pc[t] = "dup_register" => call[t] \in tab.open_fds \ tab.cloexec_fds
    /\ pc[t] = "ioctl_setbit" => call[t] \in tab.cloexec_fds

(* The inductive invariant.                                                *)
FdInv ==
  /\ TypeOK /\ Sized(tab) /\ OneCall /\ CallInv
  /\ ~spoilt => Agrees(tab) /\ Holds(tab, vkern)

(* A step of one thread keeps the invariant if the tables it leaves agree. *)
LEMMA CallStep ==
  ASSUME FdInv, NEW t \in Threads, NEW step \in Places, NEW fd \in Fd \cup {NoFd},
         pc' = [pc EXCEPT ![t] = step], call' = [call EXCEPT ![t] = fd],
         tab' \in Tab, tab'.size >= tab.size, Sized(tab'), vkern' \in SUBSET SystemFd,
         step \in OnFd => fd \in UserFd /\ fd < tab'.size,
         step \in OnSlot => fd \in SystemFd,
         spoilt' \in BOOLEAN, spoilt => spoilt',
         ~spoilt' => /\ Agrees(tab') /\ Holds(tab', vkern')
                     /\ \A u \in Threads \ {t} : pc[u] = "user"
                     /\ step = "dup_register" => fd \in tab'.open_fds \ tab'.cloexec_fds
                     /\ step = "ioctl_setbit" => fd \in tab'.cloexec_fds
  PROVE  FdInv'
<1>1. /\ pc'[t] = step /\ call'[t] = fd
      /\ \A u \in Threads \ {t} : pc'[u] = pc[u] /\ call'[u] = call[u]
      /\ pc' \in [Threads -> Places] /\ call' \in [Threads -> Fd \cup {NoFd}]
  BY DEF FdInv, TypeOK
<1>2. TypeOK'
  <2>1. \A u \in Threads : pc'[u] \in OnFd => call'[u] \in UserFd /\ call'[u] < tab'.size
    <3> SUFFICES ASSUME NEW u \in Threads \ {t}, pc'[u] \in OnFd
                 PROVE  call'[u] \in UserFd /\ call'[u] < tab'.size
      BY <1>1
    <3>1. call'[u] = call[u] /\ call[u] \in UserFd /\ call[u] < tab.size
      BY <1>1 DEF FdInv, TypeOK
    <3>2. call[u] \in Nat /\ tab.size \in Nat /\ tab'.size \in Nat
      BY <3>1, FdSets DEF FdInv, TypeOK, Tab
    <3> QED
      BY <3>1, <3>2
  <2>2. \A u \in Threads : pc'[u] \in OnSlot => call'[u] \in SystemFd
    BY <1>1 DEF FdInv, TypeOK
  <2> QED
    BY <1>1, <2>1, <2>2 DEF TypeOK
<1>3. OneCall'
  BY <1>1 DEF OneCall
<1>4. CallInv'
  <2> SUFFICES ASSUME ~spoilt', NEW u \in Threads
               PROVE  /\ pc'[u] = "dup_register" => call'[u] \in tab'.open_fds \ tab'.cloexec_fds
                      /\ pc'[u] = "ioctl_setbit" => call'[u] \in tab'.cloexec_fds
    BY DEF CallInv
  <2> QED
    BY <1>1
<1> QED
  BY <1>2, <1>3, <1>4 DEF FdInv

(* The same for a call that is over in one critical section.               *)
LEMMA BecomesStep ==
  ASSUME FdInv, NEW t \in Threads, Enter(t), NEW s \in Tab, s.size >= tab.size, Sized(s),
         NEW bad \in BOOLEAN, NEW op, Becomes(t, s, bad, op),
         ~spoilt /\ ~bad => Agrees(s) /\ Holds(s, vkern)
  PROVE  FdInv'
<1>1. /\ tab' = s /\ vkern' = vkern /\ pc' = pc /\ call' = call
      /\ spoilt' = (spoilt \/ bad \/ \E u \in Threads \ {t} : pc[u] # "user")
  BY DEF Becomes, Spoils
<1>2. /\ pc' = [pc EXCEPT ![t] = "user"] /\ call' = [call EXCEPT ![t] = call[t]]
      /\ call[t] \in Fd \cup {NoFd} /\ vkern' \in SUBSET SystemFd
  BY <1>1 DEF FdInv, TypeOK, Enter
<1>3. "user" \in Places /\ "user" \notin OnFd /\ "user" \notin OnSlot
  BY DEF Places, OnFd, OnSlot
<1>4. spoilt' \in BOOLEAN /\ (spoilt => spoilt') /\ (~spoilt' => ~spoilt /\ ~bad)
  BY <1>1 DEF FdInv, TypeOK
<1>5. ~spoilt' => \A u \in Threads \ {t} : pc[u] = "user"
  BY <1>1
<1> QED
  BY <1>1, <1>2, <1>3, <1>4, <1>5, CallStep
-----------------------------------------------------------------------------
(* What the program sees of a step: a call of LinuxFds, or nothing.        *)
Seen ==
  ~spoilt' => \/ Linux!Calls
              \/ /\ tab'.open_fds = tab.open_fds /\ tab'.cloexec_fds = tab.cloexec_fds
                 /\ last' = last

(* What is shown of every action.                                          *)
Preserved == FdInv' /\ Seen

(* Darwin's lowest free number is Linux's, because the tables agree.       *)
LEMMA NewOne ==
  ASSUME tab \in Tab, Agrees(tab), NEW least \in Nat, NEW fd \in UserFd, fd = HostLowest(tab, least),
         NEW ce \in BOOLEAN, tab'.open_fds = tab.open_fds \cup {fd},
         tab'.cloexec_fds = Flag(tab.cloexec_fds, fd, ce)
  PROVE  Linux!New({fd}, least, ce)
<1>1. /\ fd \in Fd /\ fd >= least /\ tab.host[fd] = "none"
      /\ \A g \in Fd : g >= least /\ g < fd => tab.host[g] # "none"
  <2>1. fd # NoFd
    BY FdAssumption DEF NoFd, NumFds, UserFd
  <2> QED
    BY <2>1, LowestIs
<1>2. fd \notin tab.open_fds
  BY <1>1 DEF Agrees
<1>3. ASSUME NEW g \in least .. fd PROVE g \in tab.open_fds \cup {fd}
  <2>1. g \in UserFd /\ g \in Fd /\ g >= least /\ (g = fd \/ g < fd)
    BY FdAssumption DEF UserFd, Fd, NumFds
  <2> QED
    BY <1>1, <2>1 DEF Agrees
<1>4. tab'.cloexec_fds = Linux!Flagged({fd}, ce)
  BY DEF Flag, Linux!Flagged
<1> QED
  BY <1>1, <1>2, <1>3, <1>4 DEF Linux!New

(* A call that opens one descriptor and registers it.                      *)
LEMMA InstallStep ==
  ASSUME FdInv, NEW t \in Threads, Enter(t), NEW fd \in UserFd, NEW h \in BOOLEAN, NEW ce \in BOOLEAN,
         NEW op, Becomes(t, register_fd(HostOpen(tab, fd, "user", h), fd, ce), FALSE, op)
  PROVE  /\ FdInv' /\ tab'.open_fds = tab.open_fds \cup {fd}
         /\ tab'.cloexec_fds = Flag(tab.cloexec_fds, fd, ce)
<1> DEFINE r == register_fd(HostOpen(tab, fd, "user", h), fd, ce)
<1>1. tab \in Tab /\ Sized(tab) /\ vkern \in SUBSET SystemFd
  BY DEF FdInv, TypeOK
<1>2. /\ r \in Tab /\ r.size >= tab.size /\ Sized(r)
      /\ r.open_fds = tab.open_fds \cup {fd} /\ r.cloexec_fds = Flag(tab.cloexec_fds, fd, ce)
      /\ Agrees(tab) => Agrees(r)
      /\ Holds(tab, vkern) => Holds(r, vkern)
  <2>1. Installed(r, tab, fd, ce, vkern)
    BY <1>1, InstallIs
  <2> HIDE DEF r
  <2> QED
    BY <2>1 DEF Installed
<1>3. tab' = r /\ Becomes(t, r, FALSE, op)
  BY DEF Becomes
<1> HIDE DEF r
<1>4. ~spoilt => Agrees(r) /\ Holds(r, vkern)
  BY <1>2 DEF FdInv
<1>5. FdInv'
  BY <1>2, <1>3, <1>4, BecomesStep
<1> QED
  BY <1>2, <1>3, <1>5

(* An error path that leaves the tables apart: nothing is promised from    *)
(* then on.                                                                *)
LEMMA SpoiltStep ==
  ASSUME FdInv, NEW t \in Threads, Enter(t), NEW s \in Tab, s.size >= tab.size, Sized(s),
         NEW op, Becomes(t, s, TRUE, op)
  PROVE  Preserved
<1>1. FdInv'
  BY BecomesStep
<1>2. spoilt'
  BY DEF Becomes, Spoils
<1> QED
  BY <1>1, <1>2 DEF Preserved, Seen

(* open, openat and creat.                                                 *)
LEMMA UserOpenatStep ==
  ASSUME FdInv, NEW t \in Threads, NEW ce \in BOOLEAN, NEW path \in BOOLEAN, UserOpenat(t, ce, path)
  PROVE  Preserved
<1> DEFINE fd == HostLowest(tab, 0)
           o == HostOpen(tab, fd, "user", ce /\ path)
<1>1. /\ Enter(t) /\ fd # NoFd
      /\ Becomes(t, register_fd(o, fd, ce), ~Registers(fd), Done(Registers(fd), "open", ce))
  BY DEF UserOpenat
<1>2. tab \in Tab /\ Sized(tab)
  BY DEF FdInv, TypeOK
<1>3. fd \in Fd
  BY <1>1, <1>2, LowestIs
<1> HIDE DEF fd
<1>4. CASE Registers(fd)
  <2>1. fd \in UserFd /\ (ce /\ path) \in BOOLEAN
    BY <1>3, <1>4, FdSets
  <2>2. Becomes(t, register_fd(o, fd, ce), FALSE, Done(TRUE, "open", ce))
    BY <1>1, <1>4
  <2>3. /\ FdInv' /\ tab'.open_fds = tab.open_fds \cup {fd}
        /\ tab'.cloexec_fds = Flag(tab.cloexec_fds, fd, ce)
    BY <1>1, <2>1, <2>2, InstallStep
  <2>4. ASSUME ~spoilt' PROVE Linux!Calls
    <3>1. ~spoilt /\ last' = <<"open", ce>>
      BY <2>2, <2>4 DEF Becomes, Spoils, Done
    <3>2. Linux!New({fd}, 0, ce)
      BY <1>2, <2>1, <2>3, <3>1, NewOne DEF FdInv, fd
    <3>3. fd \in Linux!Fd
      BY <2>1 DEF UserFd, Linux!Fd
    <3> QED
      BY <3>1, <3>2, <3>3 DEF Linux!Calls, Linux!Open
  <2> QED
    BY <2>3, <2>4 DEF Preserved, Seen
<1>5. CASE ~Registers(fd)
  <2>1. o \in Tab /\ o.size = tab.size /\ o.open_fds = tab.open_fds /\ o.cloexec_fds = tab.cloexec_fds
    <3>1. (ce /\ path) \in BOOLEAN /\ "user" \in {"user", "vkern"}
      OBVIOUS
    <3> QED
      BY <1>2, <1>3, <3>1, HostOpenIs
  <2> HIDE DEF o
  <2>2. Sized(o) /\ o.size >= tab.size
    BY <1>2, <2>1 DEF Sized, Tab
  <2>3. Becomes(t, o, TRUE, Done(Registers(fd), "open", ce))
    BY <1>1, <1>5 DEF register_fd
  <2> QED
    BY <1>1, <2>1, <2>2, <2>3, SpoiltStep
<1> QED
  BY <1>4, <1>5

(* A call that fails without a trace,                                      *)
LEMMA StillStep ==
  ASSUME FdInv, NEW t \in Threads, Enter(t), Becomes(t, tab, FALSE, Done(FALSE, "none", FALSE))
  PROVE  Preserved
<1>1. tab \in Tab /\ Sized(tab) /\ tab.size >= tab.size
  BY DEF FdInv, TypeOK, Tab
<1>2. FdInv'
  BY <1>1, BecomesStep DEF FdInv
<1>3. ~spoilt' => tab' = tab /\ last' = last
  BY DEF Becomes, Spoils, Done
<1> QED
  BY <1>2, <1>3 DEF Preserved, Seen

(* as socket does when the number is not the program's.                    *)
LEMMA SysSocketStep ==
  ASSUME FdInv, NEW t \in Threads, NEW ce \in BOOLEAN, SysSocket(t, ce)
  PROVE  Preserved
<1> DEFINE fd == HostLowest(tab, 0)
<1>1. /\ Enter(t) /\ fd # NoFd
      /\ Becomes(t, Socket(tab, fd, ce), FALSE, Done(Registers(fd), "open", ce))
  BY DEF SysSocket
<1>2. tab \in Tab
  BY DEF FdInv, TypeOK
<1>3. fd \in Fd
  BY <1>1, <1>2, LowestIs
<1> HIDE DEF fd
<1>4. CASE Registers(fd)
  <2>1. fd \in UserFd
    BY <1>3, <1>4, FdSets
  <2>2. Becomes(t, register_fd(HostOpen(tab, fd, "user", ce), fd, ce), FALSE, Done(TRUE, "open", ce))
    BY <1>1, <1>4 DEF Socket
  <2>3. /\ FdInv' /\ tab'.open_fds = tab.open_fds \cup {fd}
        /\ tab'.cloexec_fds = Flag(tab.cloexec_fds, fd, ce)
    BY <1>1, <2>1, <2>2, InstallStep
  <2>4. ASSUME ~spoilt' PROVE Linux!Calls
    <3>1. ~spoilt /\ last' = <<"open", ce>>
      BY <2>2, <2>4 DEF Becomes, Spoils, Done
    <3>2. Linux!New({fd}, 0, ce)
      BY <1>2, <2>1, <2>3, <3>1, NewOne DEF FdInv, fd
    <3>3. fd \in Linux!Fd
      BY <2>1 DEF UserFd, Linux!Fd
    <3> QED
      BY <3>1, <3>2, <3>3 DEF Linux!Calls, Linux!Open
  <2> QED
    BY <2>3, <2>4 DEF Preserved, Seen
<1>5. CASE ~Registers(fd)
  <2>1. Becomes(t, tab, FALSE, Done(FALSE, "none", FALSE))
    BY <1>1, <1>5 DEF Socket, Done
  <2> QED
    BY <1>1, <2>1, StillStep
<1> QED
  BY <1>4, <1>5

(* A call that gives the lock up, or waits with it, before it changes      *)
(* anything.                                                               *)
LEMMA StartStep ==
  ASSUME FdInv, NEW t \in Threads, Enter(t), NEW step \in Places \ (OnSlot \cup {"dup_register", "ioctl_setbit"}),
         NEW fd \in Fd \cup {NoFd}, step \in OnFd => fd \in UserFd /\ fd < tab.size,
         Goto(t, step, fd), UNCHANGED <<tab, vkern, last>>, Spoils(t, FALSE)
  PROVE  Preserved
<1>1. /\ spoilt' = (spoilt \/ \E u \in Threads \ {t} : pc[u] # "user") /\ spoilt' \in BOOLEAN
      /\ spoilt => spoilt'
      /\ ~spoilt' => ~spoilt /\ \A u \in Threads \ {t} : pc[u] = "user"
  BY DEF Spoils, FdInv, TypeOK
<1>2. tab' \in Tab /\ tab'.size >= tab.size /\ Sized(tab') /\ vkern' \in SUBSET SystemFd
  BY DEF FdInv, TypeOK, Tab
<1>3. ~spoilt' => Agrees(tab') /\ Holds(tab', vkern')
  BY <1>1 DEF FdInv
<1>4. pc' = [pc EXCEPT ![t] = step] /\ call' = [call EXCEPT ![t] = fd]
  BY DEF Goto
<1>5. /\ step \in Places /\ step \notin OnSlot /\ step # "dup_register" /\ step # "ioctl_setbit"
      /\ step \in OnFd => fd \in UserFd /\ fd < tab'.size
  OBVIOUS
<1>6. FdInv'
  BY <1>1, <1>2, <1>3, <1>4, <1>5, CallStep
<1> QED
  BY <1>6 DEF Preserved, Seen

(* A call that changes nothing at all.                                     *)
LEMMA UntouchedStep ==
  ASSUME FdInv, NEW t \in Threads, Enter(t), UNCHANGED <<tab, vkern, last, pc, call>>, Spoils(t, FALSE)
  PROVE  Preserved
<1>1. "user" \in Places \ (OnSlot \cup {"dup_register", "ioctl_setbit"}) /\ "user" \notin OnFd
  BY DEF Places, OnFd, OnSlot
<1>2. call[t] \in Fd \cup {NoFd} /\ Goto(t, "user", call[t])
  BY DEF Goto, Enter, FdInv, TypeOK
<1> QED
  BY <1>1, <1>2, StartStep

(* A step of a call that is under way.                                     *)
LEMMA InsideStep ==
  ASSUME FdInv, NEW t \in Threads, pc[t] # "user", NEW step \in Places, NEW fd \in Fd \cup {NoFd},
         Goto(t, step, fd), spoilt' = spoilt,
         tab' \in Tab, tab'.size >= tab.size, Sized(tab'), vkern' \in SUBSET SystemFd,
         step \in OnFd => fd \in UserFd /\ fd < tab'.size,
         step \in OnSlot => fd \in SystemFd,
         ~spoilt => /\ Agrees(tab') /\ Holds(tab', vkern')
                    /\ step = "dup_register" => fd \in tab'.open_fds \ tab'.cloexec_fds
                    /\ step = "ioctl_setbit" => fd \in tab'.cloexec_fds
  PROVE  FdInv'
<1>1. ~spoilt => \A u \in Threads \ {t} : pc[u] = "user"
  BY DEF FdInv, OneCall
<1>2. spoilt' \in BOOLEAN
  BY DEF FdInv, TypeOK
<1>3. pc' = [pc EXCEPT ![t] = step] /\ call' = [call EXCEPT ![t] = fd]
  BY DEF Goto
<1> QED
  BY <1>1, <1>2, <1>3, CallStep

(* The last step of one that changes nothing more.                         *)
LEMMA LeaveStep ==
  ASSUME FdInv, NEW t \in Threads, pc[t] # "user", NEW step \in {"user", "unlock"},
         Goto(t, step, NoFd), tab' = tab, vkern' = vkern, spoilt' = spoilt, ~spoilt => last' = last
  PROVE  Preserved
<1>1. /\ step \in Places /\ step \notin OnFd /\ step \notin OnSlot
      /\ step # "dup_register" /\ step # "ioctl_setbit"
  BY DEF Places, OnFd, OnSlot
<1>2. tab' \in Tab /\ tab'.size >= tab.size /\ Sized(tab') /\ vkern' \in SUBSET SystemFd
  BY DEF FdInv, TypeOK, Tab
<1>3. ~spoilt => Agrees(tab') /\ Holds(tab', vkern')
  BY DEF FdInv
<1>4. FdInv'
  BY <1>1, <1>2, <1>3, InsideStep
<1> QED
  BY <1>4 DEF Preserved, Seen

(* accept starts to wait.                                                  *)
LEMMA AcceptStep ==
  ASSUME FdInv, NEW t \in Threads, Accept(t)
  PROVE  Preserved
<1>1. "accept" \in Places \ (OnSlot \cup {"dup_register", "ioctl_setbit"}) /\ "accept" \notin OnFd
  BY DEF Places, OnFd, OnSlot
<1> QED
  BY <1>1, StartStep DEF Accept

(* fcntl, and dup and ioctl that call it.                                  *)
LEMMA FcntlStep ==
  ASSUME FdInv, NEW t \in Threads, NEW fd \in UserFd,
         \/ \E step \in {"dupfd", "setfd"} : Fcntl(t, fd, step)
         \/ \E step \in {"dup_dupfd", "ioctl_setfd"} : Nested(t, fd, step)
  PROVE  Preserved
<1>1. PICK step \in {"dupfd", "setfd", "dup_dupfd", "ioctl_setfd"} :
        /\ Enter(t) /\ UNCHANGED <<tab, vkern, last>> /\ Spoils(t, FALSE)
        /\ (get_file(tab, fd) /\ Goto(t, step, fd)) \/ Goto(t, "unlock", NoFd)
  BY DEF Fcntl, Nested
<1>2. /\ step \in Places \ (OnSlot \cup {"dup_register", "ioctl_setbit"})
      /\ "unlock" \in Places \ (OnSlot \cup {"dup_register", "ioctl_setbit"}) /\ "unlock" \notin OnFd
  BY DEF Places, OnFd, OnSlot
<1>3. CASE get_file(tab, fd) /\ Goto(t, step, fd)
  <2>1. fd \in Fd \cup {NoFd} /\ fd < tab.size
    BY <1>3, FdSets DEF get_file
  <2> QED
    BY <1>1, <1>2, <1>3, <2>1, StartStep
<1>4. CASE Goto(t, "unlock", NoFd)
  BY <1>1, <1>2, <1>4, StartStep
<1> QED
  BY <1>1, <1>3, <1>4

(* The unlock that is one too many, and do_exec that refuses.              *)
LEMMA StrayUnlockStep ==
  ASSUME FdInv, NEW t \in Threads, StrayUnlock(t) \/ ExecRefused(t)
  PROVE  Preserved
<1>1. /\ pc[t] # "user" /\ Goto(t, "user", NoFd) /\ tab' = tab /\ vkern' = vkern
      /\ spoilt' = spoilt /\ last' = last
  BY DEF StrayUnlock, ExecRefused, At, Return
<1> QED
  BY <1>1, LeaveStep

(* A call under way that opens a descriptor and registers it.              *)
LEMMA InsideInstall ==
  ASSUME FdInv, NEW t \in Threads, pc[t] # "user", NEW fd \in UserFd, NEW ce \in BOOLEAN,
         tab' = register_fd(HostOpen(tab, fd, "user", ce), fd, ce),
         vkern' = vkern, spoilt' = spoilt,
         \/ Goto(t, "user", NoFd)
         \/ Goto(t, "dup_register", fd) /\ ce = FALSE
  PROVE  /\ FdInv' /\ tab'.open_fds = tab.open_fds \cup {fd}
         /\ tab'.cloexec_fds = Flag(tab.cloexec_fds, fd, ce)
<1>1. tab \in Tab /\ Sized(tab) /\ vkern \in SUBSET SystemFd
  BY DEF FdInv, TypeOK
<1>2. /\ tab' \in Tab /\ tab'.size >= tab.size /\ Sized(tab') /\ fd < tab'.size
      /\ tab'.open_fds = tab.open_fds \cup {fd} /\ tab'.cloexec_fds = Flag(tab.cloexec_fds, fd, ce)
      /\ Agrees(tab) => Agrees(tab')
      /\ Holds(tab, vkern) => Holds(tab', vkern)
  <2>1. Installed(tab', tab, fd, ce, vkern)
    BY <1>1, InstallIs
  <2> QED
    BY <2>1 DEF Installed
<1>3. vkern' \in SUBSET SystemFd /\ (~spoilt => Agrees(tab') /\ Holds(tab', vkern'))
  BY <1>1, <1>2 DEF FdInv
<1>4. /\ "user" \in Places /\ "user" \notin OnFd /\ "user" \notin OnSlot
      /\ "dup_register" \in Places /\ "dup_register" \notin OnSlot
      /\ fd \in Fd \cup {NoFd}
  BY FdSets DEF Places, OnFd, OnSlot
<1>5. CASE Goto(t, "user", NoFd)
  <2>1. FdInv'
    BY <1>2, <1>3, <1>4, <1>5, InsideStep
  <2> QED
    BY <1>2, <2>1
<1>6. CASE Goto(t, "dup_register", fd) /\ ce = FALSE
  <2>1. fd \in tab'.open_fds \ tab'.cloexec_fds
    BY <1>2, <1>6 DEF Flag
  <2>2. FdInv'
    BY <1>2, <1>3, <1>4, <1>6, <2>1, InsideStep
  <2> QED
    BY <1>2, <2>2
<1> QED
  BY <1>5, <1>6

(* accept has its connection.                                              *)
LEMMA AcceptedStep ==
  ASSUME FdInv, NEW t \in Threads, Accepted(t)
  PROVE  Preserved
<1> DEFINE fd == HostLowest(tab, 0)
<1>1. /\ pc[t] # "user" /\ Goto(t, "user", NoFd) /\ vkern' = vkern /\ spoilt' = spoilt
      /\ tab' = IF fd = NoFd THEN tab ELSE Socket(tab, fd, FALSE)
      /\ last' = Done(Registers(fd), "open", FALSE)
  BY DEF Accepted, At, Return
<1>2. tab \in Tab
  BY DEF FdInv, TypeOK
<1>3. fd \in Fd \cup {NoFd}
  BY <1>2, LowestIs
<1> HIDE DEF fd
<1>4. CASE fd # NoFd /\ Registers(fd)
  <2>1. fd \in UserFd
    BY <1>3, <1>4, FdSets
  <2>2. tab' = register_fd(HostOpen(tab, fd, "user", FALSE), fd, FALSE)
    BY <1>1, <1>4 DEF Socket
  <2>3. /\ FdInv' /\ tab'.open_fds = tab.open_fds \cup {fd}
        /\ tab'.cloexec_fds = Flag(tab.cloexec_fds, fd, FALSE)
    BY <1>1, <2>1, <2>2, InsideInstall
  <2>4. ASSUME ~spoilt' PROVE Linux!Calls
    <3>1. ~spoilt /\ last' = <<"open", FALSE>>
      BY <1>1, <1>4, <2>4 DEF Done
    <3>2. Linux!New({fd}, 0, FALSE)
      BY <1>2, <2>1, <2>3, <3>1, NewOne DEF FdInv, fd
    <3>3. fd \in Linux!Fd
      BY <2>1 DEF UserFd, Linux!Fd
    <3> QED
      BY <3>1, <3>2, <3>3 DEF Linux!Calls, Linux!Open
  <2> QED
    BY <2>3, <2>4 DEF Preserved, Seen
<1>5. CASE fd = NoFd \/ ~Registers(fd)
  <2>1. ~Registers(fd)
    BY <1>5, FdSets
  <2>2. tab' = tab /\ (~spoilt => last' = last)
    BY <1>1, <1>5, <2>1 DEF Socket, Done
  <2> QED
    BY <1>1, <2>2, LeaveStep
<1> QED
  BY <1>4, <1>5

(* do_close keeps the tables in agreement, and the system descriptors.     *)
LEMMA CloseIs ==
  ASSUME NEW s \in Tab, Sized(s), NEW fd \in UserFd, NEW v \in SUBSET SystemFd
  PROVE  LET r == do_close(s, fd) IN
         /\ r \in Tab /\ r.size >= s.size /\ Sized(r)
         /\ get_file(s, fd) <=> fd \in s.open_fds
         /\ fd \notin s.open_fds => r = s
         /\ fd \in s.open_fds => r.open_fds = s.open_fds \ {fd} /\ r.cloexec_fds = s.cloexec_fds \ {fd}
         /\ Agrees(s) => Agrees(r)
         /\ Holds(s, v) => Holds(r, v)
<1> DEFINE r == do_close(s, fd)
<1>1. /\ get_file(s, fd) <=> fd \in s.open_fds
      /\ r \in Tab /\ r.size = s.size
      /\ fd \notin s.open_fds => r = s
      /\ fd \in s.open_fds => /\ r.host[fd] = "none" /\ \A g \in Fd \ {fd} : r.host[g] = s.host[g]
                              /\ r.open_fds = s.open_fds \ {fd}
                              /\ r.cloexec_fds = s.cloexec_fds \ {fd}
  BY DoCloseIs
<1> HIDE DEF r
<1>2. r.size >= s.size
  BY <1>1 DEF Tab
<1>3. CASE fd \notin s.open_fds
  BY <1>1, <1>2, <1>3 DEF r
<1>4. CASE fd \in s.open_fds
  <2>1. Sized(r)
    BY <1>1, <1>4 DEF Sized
  <2>2. Agrees(s) => Agrees(r)
    BY <1>1, <1>4, FdSets DEF Agrees
  <2>3. Holds(s, v) => Holds(r, v)
    BY <1>1, <1>4, FdSets DEF Holds
  <2> QED
    BY <1>1, <1>2, <1>4, <2>1, <2>2, <2>3 DEF r
<1> QED
  BY <1>3, <1>4

(* close.                                                                  *)
LEMMA UserCloseStep ==
  ASSUME FdInv, NEW t \in Threads, NEW fd \in UserFd, UserClose(t, fd)
  PROVE  Preserved
<1> DEFINE r == do_close(tab, fd)
<1>1. tab \in Tab /\ Sized(tab) /\ vkern \in SUBSET SystemFd
  BY DEF FdInv, TypeOK
<1>2. Enter(t) /\ Becomes(t, r, FALSE, Done(get_file(tab, fd), "close", FALSE))
  BY DEF UserClose
<1>3. /\ r \in Tab /\ r.size >= tab.size /\ Sized(r)
      /\ get_file(tab, fd) <=> fd \in tab.open_fds
      /\ fd \notin tab.open_fds => r = tab
      /\ fd \in tab.open_fds => /\ r.open_fds = tab.open_fds \ {fd}
                                /\ r.cloexec_fds = tab.cloexec_fds \ {fd}
      /\ Agrees(tab) => Agrees(r)
      /\ Holds(tab, vkern) => Holds(r, vkern)
  BY <1>1, CloseIs
<1> HIDE DEF r
<1>4. ~spoilt => Agrees(r) /\ Holds(r, vkern)
  BY <1>3 DEF FdInv
<1>5. FdInv'
  BY <1>2, <1>3, <1>4, BecomesStep
<1>6. /\ tab' = r /\ last' = Done(get_file(tab, fd), "close", FALSE)
      /\ ~spoilt' => ~spoilt
  BY <1>2 DEF Becomes, Spoils
<1>7. CASE fd \in tab.open_fds
  BY <1>3, <1>5, <1>6, <1>7 DEF Preserved, Seen, Done, Linux!Calls, Linux!Close
<1>8. CASE fd \notin tab.open_fds
  BY <1>3, <1>5, <1>6, <1>8 DEF Preserved, Seen, Done
<1> QED
  BY <1>7, <1>8

(* socketpair takes its second descriptor back.                            *)
LEMMA PairCloseStep ==
  ASSUME FdInv, NEW t \in Threads, PairClose(t)
  PROVE  Preserved
<1>1. /\ pc[t] = "pair" /\ tab' = do_close(tab, call[t]) /\ Goto(t, "unlock", NoFd)
      /\ last' = Done(get_file(tab, call[t]), "close", FALSE)
      /\ vkern' = vkern /\ spoilt' = spoilt
  BY DEF PairClose, At
<1>2. PICK fd \in UserFd : fd = call[t]
  BY <1>1 DEF FdInv, TypeOK, OnFd
<1>3. tab \in Tab /\ Sized(tab) /\ vkern \in SUBSET SystemFd
  BY DEF FdInv, TypeOK
<1>4. /\ tab' \in Tab /\ tab'.size >= tab.size /\ Sized(tab')
      /\ get_file(tab, fd) <=> fd \in tab.open_fds
      /\ fd \notin tab.open_fds => tab' = tab
      /\ fd \in tab.open_fds => /\ tab'.open_fds = tab.open_fds \ {fd}
                                /\ tab'.cloexec_fds = tab.cloexec_fds \ {fd}
      /\ Agrees(tab) => Agrees(tab')
      /\ Holds(tab, vkern) => Holds(tab', vkern)
  BY <1>1, <1>2, <1>3, CloseIs
<1>5. /\ "unlock" \in Places /\ "unlock" \notin OnFd /\ "unlock" \notin OnSlot
      /\ vkern' \in SUBSET SystemFd /\ pc[t] # "user"
  BY <1>1, <1>3 DEF Places, OnFd, OnSlot
<1>6. ~spoilt => Agrees(tab') /\ Holds(tab', vkern')
  BY <1>1, <1>4 DEF FdInv
<1>7. FdInv'
  BY <1>1, <1>4, <1>5, <1>6, InsideStep
<1>8. CASE fd \in tab.open_fds
  BY <1>1, <1>2, <1>4, <1>7, <1>8 DEF Preserved, Seen, Done, Linux!Calls, Linux!Close
<1>9. CASE fd \notin tab.open_fds
  BY <1>1, <1>2, <1>4, <1>7, <1>9 DEF Preserved, Seen, Done
<1> QED
  BY <1>8, <1>9

(* dup2 as Linux does it.                                                  *)
LEMMA SeenDup2 ==
  ASSUME NEW fd \in UserFd, NEW ce \in BOOLEAN, tab'.open_fds = tab.open_fds \cup {fd},
         tab'.cloexec_fds = Flag(tab.cloexec_fds, fd, ce), last' = <<"dup2", ce>>
  PROVE  Linux!Calls
<1>1. fd \in Linux!Fd
  BY DEF UserFd, Linux!Fd
<1>2. tab'.cloexec_fds = Linux!Flagged({fd}, ce)
  BY DEF Flag, Linux!Flagged
<1>3. Linux!Dup2(ce)
  BY <1>1, <1>2 DEF Linux!Dup2
<1> QED
  BY <1>3 DEF Linux!Calls

(* dup2.                                                                   *)
LEMMA Dup2Step ==
  ASSUME FdInv, NEW t \in Threads, NEW fd1 \in UserFd, NEW fd2 \in UserFd, Dup2(t, fd1, fd2)
  PROVE  Preserved
<1>1. /\ Enter(t) /\ tab.host[fd1] # "none"
      /\ Becomes(t, register_fd(IF fd1 = fd2 THEN tab ELSE HostOpen(tab, fd2, "user", FALSE), fd2, FALSE),
                  FALSE, Done(TRUE, "dup2", FALSE))
  BY DEF Dup2
<1>2. /\ FdInv' /\ tab'.open_fds = tab.open_fds \cup {fd2}
      /\ tab'.cloexec_fds = Flag(tab.cloexec_fds, fd2, FALSE)
  <2>1. CASE fd1 = fd2
    <3> DEFINE r == register_fd(tab, fd2, FALSE)
    <3>1. Becomes(t, r, FALSE, Done(TRUE, "dup2", FALSE))
      BY <1>1, <2>1
    <3>2. tab \in Tab
      BY DEF FdInv, TypeOK
    <3>3. /\ r \in Tab /\ r.host = tab.host /\ r.size >= tab.size /\ fd2 < r.size
          /\ r.open_fds = tab.open_fds \cup {fd2}
          /\ r.cloexec_fds = Flag(tab.cloexec_fds, fd2, FALSE)
      BY <3>2, RegisterIs
    <3> HIDE DEF r
    <3>4. Sized(r)
      <4> SUFFICES ASSUME NEW g \in r.open_fds \cup r.cloexec_fds, g # fd2 PROVE g < r.size
        BY <3>3 DEF Sized
      <4>1. g < tab.size /\ g \in Nat /\ tab.size \in Nat /\ r.size \in Nat
        BY <3>2, <3>3, FdSets DEF FdInv, Sized, Flag, Tab
      <4> QED
        BY <3>3, <4>1
    <3>5. ~spoilt => Agrees(r) /\ Holds(r, vkern)
      BY <1>1, <2>1, <3>3 DEF FdInv, Agrees, Holds, Flag
    <3>6. FdInv'
      BY <1>1, <3>1, <3>3, <3>4, <3>5, BecomesStep
    <3> QED
      BY <3>1, <3>3, <3>6 DEF Becomes
  <2>2. CASE fd1 # fd2
    BY <1>1, <2>2, InstallStep
  <2> QED
    BY <2>1, <2>2
<1>3. ~spoilt' => last' = <<"dup2", FALSE>>
  BY <1>1 DEF Becomes, Spoils, Done
<1>4. ~spoilt' => Linux!Calls
  BY <1>2, <1>3, SeenDup2
<1> QED
  BY <1>2, <1>4 DEF Preserved, Seen

(* Closing a number that is not the program's keeps the tables in          *)
(* agreement.                                                              *)
LEMMA HostCloseKeeps ==
  ASSUME NEW s \in Tab, Sized(s), NEW f \in Nat \ UserFd, NEW v \in SUBSET SystemFd
  PROVE  LET r == HostClose(s, f) IN
         /\ r \in Tab /\ r.size >= s.size /\ Sized(r)
         /\ r.open_fds = s.open_fds /\ r.cloexec_fds = s.cloexec_fds
         /\ Agrees(s) => Agrees(r)
         /\ Holds(s, v) /\ (NewFds \subseteq UserFd => f \notin v) => Holds(r, v)
<1> DEFINE r == HostClose(s, f)
<1>1. /\ r \in Tab /\ r.size = s.size /\ r.open_fds = s.open_fds /\ r.cloexec_fds = s.cloexec_fds
      /\ \A g \in Fd \ {f} : r.host[g] = s.host[g]
  BY HostCloseIs
<1> HIDE DEF r
<1>2. r.size >= s.size /\ Sized(r)
  BY <1>1 DEF Tab, Sized
<1>3. Agrees(s) => Agrees(r)
  BY <1>1, FdSets DEF Agrees
<1>4. Holds(s, v) /\ (NewFds \subseteq UserFd => f \notin v) => Holds(r, v)
  BY <1>1, FdSets DEF Holds
<1> QED
  BY <1>1, <1>2, <1>3, <1>4 DEF r

(* dup3, for any number: the refused ones are closed again in Darwin, even *)
(* if noah held them.                                                      *)
LEMMA Dup3Step ==
  ASSUME FdInv, NEW t \in Threads, NEW oldfd \in UserFd, NEW newfd \in NewFds, NEW ce \in BOOLEAN,
         Dup3(t, oldfd, newfd, ce)
  PROVE  Preserved
<1>1. newfd \in Nat /\ (Registers(newfd) <=> newfd \in UserFd)
  BY FdAssumption DEF Registers, UserFd
<1>2. /\ Enter(t)
      /\ Becomes(t, IF Registers(newfd) THEN register_fd(HostOpen(tab, newfd, "user", ce), newfd, ce)
                    ELSE HostClose(tab, newfd), FALSE, Done(Registers(newfd), "dup2", ce))
  BY DEF Dup3
<1>3. CASE Registers(newfd)
  <2>1. Becomes(t, register_fd(HostOpen(tab, newfd, "user", ce), newfd, ce), FALSE, Done(TRUE, "dup2", ce))
    BY <1>2, <1>3
  <2>2. /\ FdInv' /\ tab'.open_fds = tab.open_fds \cup {newfd}
        /\ tab'.cloexec_fds = Flag(tab.cloexec_fds, newfd, ce)
    BY <1>1, <1>2, <1>3, <2>1, InstallStep
  <2>3. ~spoilt' => last' = <<"dup2", ce>>
    BY <2>1 DEF Becomes, Spoils, Done
  <2>4. ~spoilt' => Linux!Calls
    <3> SUFFICES ASSUME ~spoilt' PROVE Linux!Calls
      OBVIOUS
    <3>1. newfd \in UserFd /\ last' = <<"dup2", ce>>
      BY <1>1, <1>3, <2>3
    <3> QED
      BY <2>2, <3>1, SeenDup2
  <2> QED
    BY <2>2, <2>4 DEF Preserved, Seen
<1>4. CASE ~Registers(newfd)
  <2> DEFINE r == HostClose(tab, newfd)
  <2>1. Becomes(t, r, FALSE, Done(FALSE, "dup2", ce))
    BY <1>2, <1>4 DEF Becomes, Done
  <2>2. tab \in Tab /\ Sized(tab) /\ vkern \in SUBSET SystemFd /\ newfd \in Nat \ UserFd
    BY <1>1, <1>4 DEF FdInv, TypeOK
  <2>3. ~(NewFds \subseteq UserFd)
    BY <2>2
  <2>4. /\ r \in Tab /\ r.size >= tab.size /\ Sized(r)
        /\ r.open_fds = tab.open_fds /\ r.cloexec_fds = tab.cloexec_fds
        /\ Agrees(tab) => Agrees(r)
    BY <2>2, HostCloseKeeps
  <2> HIDE DEF r
  <2>5. ~spoilt => Agrees(r) /\ Holds(r, vkern)
    BY <2>3, <2>4 DEF FdInv, Holds
  <2>6. FdInv'
    BY <1>2, <2>1, <2>4, <2>5, BecomesStep
  <2>7. tab' = r /\ (~spoilt' => last' = last)
    BY <2>1 DEF Becomes, Spoils, Done
  <2> QED
    BY <2>4, <2>6, <2>7 DEF Preserved, Seen
<1> QED
  BY <1>3, <1>4

(* F_DUPFD and F_DUPFD_CLOEXEC.                                            *)
LEMMA DupfdStep ==
  ASSUME FdInv, NEW t \in Threads, NEW least \in UserFd, NEW ce \in BOOLEAN, Dupfd(t, least, ce)
  PROVE  Preserved
<1> DEFINE fd == HostLowest(tab, least)
           ok == fd # NoFd /\ Registers(fd) /\ tab.host[call[t]] # "none"
<1>1. /\ pc[t] = "dupfd" \/ (pc[t] = "dup_dupfd" /\ ~ce)
      /\ vkern' = vkern /\ spoilt' = spoilt
      /\ tab' = IF ok THEN register_fd(HostOpen(tab, fd, "user", ce), fd, ce) ELSE tab
      /\ IF pc[t] = "dupfd" THEN Goto(t, "user", NoFd)
         ELSE IF ok THEN Goto(t, "dup_register", fd) ELSE Goto(t, "unlock", NoFd)
      /\ last' = Done(ok, "dupfd", ce)
  BY DEF Dupfd, At, Return
<1>2. tab \in Tab /\ least \in Nat
  BY FdSets DEF FdInv, TypeOK
<1>3. fd \in Fd \cup {NoFd}
  BY <1>2, LowestIs
<1>4. CASE ok
  <2>1. fd \in UserFd
    BY <1>3, <1>4, FdSets
  <2>2. tab' = register_fd(HostOpen(tab, fd, "user", ce), fd, ce)
    BY <1>1, <1>4
  <2>3. /\ pc[t] # "user" /\ vkern' = vkern /\ spoilt' = spoilt
        /\ Goto(t, "user", NoFd) \/ (Goto(t, "dup_register", fd) /\ ce = FALSE)
    BY <1>1, <1>4
  <2> HIDE DEF fd
  <2>4. /\ FdInv' /\ tab'.open_fds = tab.open_fds \cup {fd}
        /\ tab'.cloexec_fds = Flag(tab.cloexec_fds, fd, ce)
    BY <2>1, <2>2, <2>3, InsideInstall
  <2>5. ASSUME ~spoilt' PROVE Linux!Calls
    <3>1. ~spoilt /\ last' = <<"dupfd", ce>>
      BY <1>1, <1>4, <2>5 DEF Done
    <3>2. Linux!New({fd}, least, ce)
      BY <1>2, <2>1, <2>4, <3>1, NewOne DEF FdInv, fd
    <3>3. fd \in Linux!Fd /\ least \in Linux!Fd
      BY <2>1 DEF UserFd, Linux!Fd
    <3>4. Linux!Dupfd(ce)
      BY <3>1, <3>2, <3>3 DEF Linux!Dupfd
    <3> QED
      BY <3>4 DEF Linux!Calls
  <2> QED
    BY <2>4, <2>5 DEF Preserved, Seen
<1>5. CASE ~ok
  <2>1. tab' = tab /\ (~spoilt => last' = last) /\ pc[t] # "user"
    BY <1>1, <1>5 DEF Done
  <2>2. Goto(t, "user", NoFd) \/ Goto(t, "unlock", NoFd)
    BY <1>1, <1>5
  <2> HIDE DEF ok
  <2> QED
    BY <1>1, <2>1, <2>2, LeaveStep
<1> QED
  BY <1>4, <1>5

(* The two flags of a descriptor.                                          *)
SetFlag(s, hc, fd, ce) == [s EXCEPT !.hostCloexec = hc, !.cloexec_fds = Flag(s.cloexec_fds, fd, ce)]

(* r is table s with the flags of fd set.                                  *)
Flagged(r, s, fd, ce, v) ==
  /\ r \in Tab /\ r.size >= s.size /\ r.size = s.size /\ Sized(r)
  /\ r.open_fds = s.open_fds /\ r.cloexec_fds = Flag(s.cloexec_fds, fd, ce)
  /\ Agrees(s) /\ (fd \in s.open_fds \/ ~ce) => Agrees(r)
  /\ Holds(s, v) => Holds(r, v)

(* Setting them keeps the tables in agreement.                             *)
LEMMA FlagIs ==
  ASSUME NEW s \in Tab, Sized(s), NEW fd \in UserFd, fd < s.size, NEW ce \in BOOLEAN,
         NEW hc \in SUBSET Fd, NEW v \in SUBSET SystemFd
  PROVE  Flagged(SetFlag(s, hc, fd, ce), s, fd, ce, v)
<1> DEFINE C == Flag(s.cloexec_fds, fd, ce)
           r == SetFlag(s, hc, fd, ce)
<1>1. C \in SUBSET UserFd /\ \A g \in C : g \in s.cloexec_fds \/ (ce /\ g = fd)
  BY DEF Flag, Tab
<1>2. r = [s EXCEPT !.hostCloexec = hc, !.cloexec_fds = C]
  BY DEF SetFlag
<1> HIDE DEF C, r
<1>3. /\ r \in Tab /\ r.size = s.size /\ r.host = s.host /\ r.open_fds = s.open_fds
      /\ r.cloexec_fds = C
  BY <1>1, <1>2 DEF Tab
<1>4. Sized(r) /\ r.size >= s.size
  BY <1>1, <1>3 DEF Sized, Tab
<1>5. Agrees(s) /\ (fd \in s.open_fds \/ ~ce) => Agrees(r)
  BY <1>1, <1>3 DEF Agrees
<1>6. Holds(s, v) => Holds(r, v)
  BY <1>3 DEF Holds
<1>7. Flagged(r, s, fd, ce, v)
  BY <1>3, <1>4, <1>5, <1>6 DEF Flagged, C
<1> QED
  BY <1>7 DEF r

(* F_SETFD.                                                                *)
LEMMA SetfdStep ==
  ASSUME FdInv, NEW t \in Threads, NEW ce \in BOOLEAN, Setfd(t, ce)
  PROVE  Preserved
<1> DEFINE ok == tab.host[call[t]] # "none"
<1>1. /\ pc[t] = "setfd" \/ (pc[t] = "ioctl_setfd" /\ ce)
      /\ vkern' = vkern /\ spoilt' = spoilt
      /\ tab' = IF ~ok THEN tab
                ELSE [tab EXCEPT !.hostCloexec = IF ce THEN @ \cup {call[t]} ELSE @ \ {call[t]},
                                 !.cloexec_fds = IF ce THEN @ \cup {call[t]} ELSE @ \ {call[t]}]
      /\ IF pc[t] = "setfd" THEN Goto(t, "user", NoFd)
         ELSE IF ok THEN Goto(t, "ioctl_setbit", call[t]) ELSE Goto(t, "unlock", NoFd)
      /\ last' = Done(ok, "setfd", ce)
  BY DEF Setfd, At, Return
<1>2. PICK fd \in UserFd : fd = call[t] /\ fd < tab.size
  BY <1>1 DEF FdInv, TypeOK, OnFd
<1>3. tab \in Tab /\ Sized(tab) /\ vkern \in SUBSET SystemFd /\ fd \in Fd
  BY FdSets DEF FdInv, TypeOK
<1>4. CASE ok
  <2> DEFINE hc == Flag(tab.hostCloexec, fd, ce)
  <2>1. hc \in SUBSET Fd
    BY <1>3 DEF Flag, Tab
  <2>2. tab' = SetFlag(tab, hc, fd, ce)
    BY <1>1, <1>2, <1>4 DEF Flag, SetFlag
  <2> HIDE DEF hc
  <2>3. /\ tab' \in Tab /\ tab'.size >= tab.size /\ tab'.size = tab.size /\ Sized(tab')
        /\ tab'.open_fds = tab.open_fds /\ tab'.cloexec_fds = Flag(tab.cloexec_fds, fd, ce)
        /\ Agrees(tab) /\ (fd \in tab.open_fds \/ ~ce) => Agrees(tab')
        /\ Holds(tab, vkern) => Holds(tab', vkern)
    <3>1. Flagged(tab', tab, fd, ce, vkern)
      BY <1>2, <1>3, <2>1, <2>2, FlagIs
    <3> QED
      BY <3>1 DEF Flagged
  <2>4. ~spoilt => fd \in tab.open_fds
    BY <1>2, <1>4 DEF FdInv, Agrees
  <2>5. ~spoilt => Agrees(tab') /\ Holds(tab', vkern')
    BY <1>1, <2>3, <2>4 DEF FdInv
  <2>6. FdInv'
    <3>1. CASE Goto(t, "user", NoFd)
      <4>1. "user" \in Places /\ "user" \notin OnFd /\ "user" \notin OnSlot /\ pc[t] # "user"
        BY <1>1 DEF Places, OnFd, OnSlot
      <4> QED
        BY <1>1, <1>3, <2>3, <2>5, <3>1, <4>1, InsideStep
    <3>2. CASE Goto(t, "ioctl_setbit", fd) /\ ce
      <4>1. /\ "ioctl_setbit" \in Places /\ "ioctl_setbit" \notin OnSlot /\ pc[t] # "user"
            /\ fd \in tab'.cloexec_fds /\ fd < tab'.size
        BY <1>1, <1>2, <2>3, <3>2 DEF Places, OnFd, OnSlot, Flag
      <4> QED
        BY <1>1, <1>3, <2>3, <2>5, <3>2, <4>1, InsideStep
    <3> QED
      BY <1>1, <1>2, <1>4, <3>1, <3>2
  <2>7. ASSUME ~spoilt' PROVE Linux!Calls
    <3>1. last' = <<"setfd", ce>> /\ fd \in tab.open_fds
      BY <1>1, <1>4, <2>4, <2>7 DEF Done
    <3>2. Linux!Setfd(ce)
      BY <2>3, <3>1 DEF Linux!Setfd, Linux!Flagged, Flag
    <3> QED
      BY <3>2 DEF Linux!Calls
  <2> QED
    BY <2>6, <2>7 DEF Preserved, Seen
<1>5. CASE ~ok
  <2>1. tab' = tab /\ (~spoilt => last' = last) /\ pc[t] # "user"
    BY <1>1, <1>5 DEF Done
  <2>2. Goto(t, "user", NoFd) \/ Goto(t, "unlock", NoFd)
    BY <1>1, <1>5
  <2> HIDE DEF ok
  <2> QED
    BY <1>1, <2>1, <2>2, LeaveStep
<1> QED
  BY <1>4, <1>5

(* ioctl sets the flag that the nested sys_fcntl has set.                  *)
LEMMA IoctlSetbitStep ==
  ASSUME FdInv, NEW t \in Threads, IoctlSetbit(t)
  PROVE  Preserved
<1>1. /\ pc[t] = "ioctl_setbit" /\ tab' = [tab EXCEPT !.cloexec_fds = @ \cup {call[t]}]
      /\ Goto(t, "unlock", NoFd) /\ vkern' = vkern /\ last' = last /\ spoilt' = spoilt
  BY DEF IoctlSetbit, At
<1>2. PICK fd \in UserFd : fd = call[t] /\ fd < tab.size
  BY <1>1 DEF FdInv, TypeOK, OnFd
<1>3. tab \in Tab /\ Sized(tab) /\ vkern \in SUBSET SystemFd /\ tab.hostCloexec \in SUBSET Fd
  BY DEF FdInv, TypeOK, Tab
<1>4. tab' = SetFlag(tab, tab.hostCloexec, fd, TRUE)
  BY <1>1, <1>2, <1>3 DEF Flag, Tab, SetFlag
<1>5. /\ tab' \in Tab /\ tab'.size >= tab.size /\ Sized(tab')
      /\ tab'.open_fds = tab.open_fds /\ tab'.cloexec_fds = Flag(tab.cloexec_fds, fd, TRUE)
      /\ Agrees(tab) /\ fd \in tab.open_fds => Agrees(tab')
      /\ Holds(tab, vkern) => Holds(tab', vkern)
  <2>1. Flagged(tab', tab, fd, TRUE, vkern)
    BY <1>2, <1>3, <1>4, FlagIs
  <2> QED
    BY <2>1 DEF Flagged
<1>6. ~spoilt => fd \in tab.cloexec_fds /\ fd \in tab.open_fds
  BY <1>1, <1>2 DEF FdInv, CallInv, Agrees
<1>7. ~spoilt => Agrees(tab') /\ Holds(tab', vkern')
  BY <1>1, <1>5, <1>6 DEF FdInv
<1>8. "unlock" \in Places /\ "unlock" \notin OnFd /\ "unlock" \notin OnSlot /\ pc[t] # "user"
  BY <1>1 DEF Places, OnFd, OnSlot
<1>9. FdInv'
  BY <1>1, <1>3, <1>5, <1>7, <1>8, InsideStep
<1>10. ~spoilt => tab'.cloexec_fds = tab.cloexec_fds
  BY <1>5, <1>6 DEF Flag
<1> QED
  BY <1>1, <1>5, <1>9, <1>10 DEF Preserved, Seen

(* dup registers the descriptor that the nested sys_fcntl has registered.  *)
LEMMA DupRegisterStep ==
  ASSUME FdInv, NEW t \in Threads, DupRegister(t)
  PROVE  Preserved
<1>1. /\ pc[t] = "dup_register" /\ tab' = register_fd(tab, call[t], FALSE)
      /\ Goto(t, "unlock", NoFd) /\ vkern' = vkern /\ last' = last /\ spoilt' = spoilt
  BY DEF DupRegister, At
<1>2. PICK fd \in UserFd : fd = call[t]
  BY <1>1 DEF FdInv, TypeOK, OnFd
<1>3. tab \in Tab /\ Sized(tab) /\ vkern \in SUBSET SystemFd
  BY DEF FdInv, TypeOK
<1>4. /\ tab' \in Tab /\ tab'.host = tab.host /\ tab'.size >= tab.size /\ fd < tab'.size
      /\ tab'.open_fds = tab.open_fds \cup {fd}
      /\ tab'.cloexec_fds = Flag(tab.cloexec_fds, fd, FALSE)
  BY <1>1, <1>2, <1>3, RegisterIs
<1>5. Sized(tab')
  <2> SUFFICES ASSUME NEW g \in tab'.open_fds \cup tab'.cloexec_fds, g # fd PROVE g < tab'.size
    BY <1>4 DEF Sized
  <2>1. g < tab.size /\ g \in Nat /\ tab.size \in Nat /\ tab'.size \in Nat
    BY <1>3, <1>4, FdSets DEF Sized, Flag, Tab
  <2> QED
    BY <1>4, <2>1
<1>6. ~spoilt => tab'.open_fds = tab.open_fds /\ tab'.cloexec_fds = tab.cloexec_fds
  BY <1>1, <1>2, <1>4 DEF FdInv, CallInv, Flag
<1>7. ~spoilt => Agrees(tab') /\ Holds(tab', vkern')
  BY <1>1, <1>4, <1>6 DEF FdInv, Agrees, Holds
<1>8. "unlock" \in Places /\ "unlock" \notin OnFd /\ "unlock" \notin OnSlot /\ pc[t] # "user"
  BY <1>1 DEF Places, OnFd, OnSlot
<1>9. FdInv'
  BY <1>1, <1>3, <1>4, <1>5, <1>7, <1>8, InsideStep
<1> QED
  BY <1>1, <1>6, <1>9 DEF Preserved, Seen
-----------------------------------------------------------------------------
(* Those of some new descriptors that are the program's.                   *)
Mine(fds) == fds \cap UserFd

(* Flag for several descriptors.                                           *)
FlagAll(S, fds, ce) == IF ce THEN S \cup fds ELSE S \ fds

(* register_fd, for a number that it may refuse.                           *)
LEMMA RegisterAny ==
  ASSUME NEW s \in Tab, Sized(s), NEW fd \in Fd, NEW ce \in BOOLEAN
  PROVE  LET r == register_fd(s, fd, ce) IN
         /\ r \in Tab /\ r.host = s.host /\ r.size >= s.size /\ Sized(r)
         /\ r.open_fds = s.open_fds \cup Mine({fd})
         /\ r.cloexec_fds = FlagAll(s.cloexec_fds, Mine({fd}), ce)
<1> DEFINE r == register_fd(s, fd, ce)
<1>1. CASE fd \in UserFd
  <2>1. /\ r \in Tab /\ r.host = s.host /\ r.size >= s.size /\ fd < r.size
        /\ r.open_fds = s.open_fds \cup {fd} /\ r.cloexec_fds = Flag(s.cloexec_fds, fd, ce)
    BY <1>1, RegisterIs
  <2> HIDE DEF r
  <2>2. Mine({fd}) = {fd}
    BY <1>1 DEF Mine
  <2>3. Sized(r)
    <3> SUFFICES ASSUME NEW g \in r.open_fds \cup r.cloexec_fds, g # fd PROVE g < r.size
      BY <2>1 DEF Sized
    <3>1. g < s.size /\ g \in Nat /\ s.size \in Nat /\ r.size \in Nat
      BY <2>1, FdSets DEF Sized, Flag, Tab
    <3> QED
      BY <2>1, <3>1
  <2> QED
    BY <2>1, <2>2, <2>3 DEF r, Flag, FlagAll
<1>2. CASE fd \notin UserFd
  <2>1. r = s /\ Mine({fd}) = {} /\ s.size >= s.size
    BY <1>2, FdSets DEF register_fd, Mine, Tab
  <2> QED
    BY <2>1 DEF FlagAll
<1> QED
  BY <1>1, <1>2

(* The two lowest free numbers.                                            *)
LEMMA PairFds ==
  ASSUME tab \in Tab, Snd # NoFd
  PROVE  /\ Fst \in Fd /\ Snd \in Fd /\ Fst < Snd
         /\ tab.host[Fst] = "none" /\ tab.host[Snd] = "none"
         /\ \A g \in Fd : g < Snd /\ g # Fst => tab.host[g] # "none"
         /\ Registers(Snd) => Fst \in UserFd /\ Snd \in UserFd
         /\ ~Registers(Fst) => ~Registers(Snd)
<1>1. Fst # NoFd /\ Fst = HostLowest(tab, 0) /\ Snd = HostLowest(tab, Fst + 1)
  BY DEF Fst, Snd
<1>2. /\ Fst \in Fd /\ tab.host[Fst] = "none"
      /\ \A g \in Fd : g >= 0 /\ g < Fst => tab.host[g] # "none"
  BY <1>1, LowestIs
<1>3. Fst + 1 \in Nat /\ Fst \in Nat
  BY <1>2, FdSets
<1>4. /\ Snd \in Fd /\ Snd >= Fst + 1 /\ tab.host[Snd] = "none"
      /\ \A g \in Fd : g >= Fst + 1 /\ g < Snd => tab.host[g] # "none"
  BY <1>1, <1>3, LowestIs
<1>5. PICK f \in Fd, g \in Fd : f = Fst /\ g = Snd
  BY <1>2, <1>4
<1>6. f \in Nat /\ g \in Nat /\ f < g
  BY <1>3, <1>4, <1>5, FdSets
<1>7. ASSUME NEW k \in Fd, k < g, k # f PROVE tab.host[k] # "none"
  <2>1. k \in Nat /\ (k < f \/ k >= f + 1)
    BY <1>6, <1>7, FdSets
  <2> QED
    BY <1>2, <1>4, <1>5, <1>7, <2>1
<1>8. Registers(g) => Registers(f)
  BY <1>6, FdAssumption DEF Registers
<1>9. Registers(g) => f \in UserFd /\ g \in UserFd
  BY <1>8, FdSets
<1> QED
  BY <1>2, <1>4, <1>5, <1>6, <1>7, <1>8, <1>9

(* A pipe, when either number may be refused.                              *)
LEMMA PairIs ==
  ASSUME tab \in Tab, Sized(tab), Snd # NoFd, NEW ce \in BOOLEAN
  PROVE  LET r == Pair(ce) IN
         /\ r \in Tab /\ r.size >= tab.size /\ Sized(r)
         /\ r.open_fds = tab.open_fds \cup Mine({Fst, Snd})
         /\ r.cloexec_fds = FlagAll(tab.cloexec_fds, Mine({Fst, Snd}), ce)
         /\ r.host[Fst] = "user" /\ r.host[Snd] = "user"
         /\ \A g \in Fd \ {Fst, Snd} : r.host[g] = tab.host[g]
<1>1. PICK f \in Fd, g \in Fd : f = Fst /\ g = Snd /\ f # g
  BY PairFds, FdSets
<1> DEFINE a == HostOpen(tab, f, "user", ce)
           b == HostOpen(a, g, "user", ce)
           c == register_fd(b, f, ce)
           r == register_fd(c, g, ce)
<1>2. Pair(ce) = r
  BY <1>1 DEF Pair, PairOpen
<1>3. "user" \in {"user", "vkern"}
  OBVIOUS
<1>4. /\ a \in Tab /\ a.size = tab.size /\ a.open_fds = tab.open_fds /\ a.cloexec_fds = tab.cloexec_fds
      /\ a.host[f] = "user" /\ \A k \in Fd \ {f} : a.host[k] = tab.host[k]
  BY <1>3, HostOpenIs
<1> HIDE DEF a
<1>5. /\ b \in Tab /\ b.size = a.size /\ b.open_fds = a.open_fds /\ b.cloexec_fds = a.cloexec_fds
      /\ b.host[g] = "user" /\ \A k \in Fd \ {g} : b.host[k] = a.host[k]
  BY <1>3, <1>4, HostOpenIs
<1> HIDE DEF b
<1>6. Sized(b)
  BY <1>4, <1>5 DEF Sized
<1>7. /\ c \in Tab /\ c.host = b.host /\ c.size >= b.size /\ Sized(c)
      /\ c.open_fds = b.open_fds \cup Mine({f}) /\ c.cloexec_fds = FlagAll(b.cloexec_fds, Mine({f}), ce)
  BY <1>5, <1>6, RegisterAny
<1> HIDE DEF c
<1>8. /\ r \in Tab /\ r.host = c.host /\ r.size >= c.size /\ Sized(r)
      /\ r.open_fds = c.open_fds \cup Mine({g}) /\ r.cloexec_fds = FlagAll(c.cloexec_fds, Mine({g}), ce)
  BY <1>7, RegisterAny
<1> HIDE DEF r
<1>9. r.size >= tab.size
  BY <1>4, <1>5, <1>7, <1>8 DEF Tab
<1>10. /\ r.open_fds = tab.open_fds \cup Mine({f, g})
       /\ r.cloexec_fds = FlagAll(tab.cloexec_fds, Mine({f, g}), ce)
  BY <1>4, <1>5, <1>7, <1>8 DEF Mine, FlagAll
<1>11. /\ r.host[f] = "user" /\ r.host[g] = "user"
       /\ \A k \in Fd \ {f, g} : r.host[k] = tab.host[k]
  BY <1>1, <1>4, <1>5, <1>7, <1>8
<1> QED
  BY <1>1, <1>2, <1>8, <1>9, <1>10, <1>11

(* It keeps the tables in agreement, and the system descriptors.           *)
LEMMA PairKeeps ==
  ASSUME tab \in Tab, Sized(tab), Snd # NoFd, NEW ce \in BOOLEAN, NEW v \in SUBSET SystemFd
  PROVE  /\ Agrees(tab) => Agrees(Pair(ce))
         /\ Holds(tab, v) => Holds(Pair(ce), v)
<1>1. PICK f \in Fd, g \in Fd : f = Fst /\ g = Snd
  BY PairFds
<1> DEFINE r == Pair(ce)
<1>2. /\ r.open_fds = tab.open_fds \cup Mine({f, g})
      /\ r.cloexec_fds = FlagAll(tab.cloexec_fds, Mine({f, g}), ce)
      /\ r.host[f] = "user" /\ r.host[g] = "user"
      /\ \A k \in Fd \ {f, g} : r.host[k] = tab.host[k]
  BY <1>1, PairIs
<1>3. tab.host[f] = "none" /\ tab.host[g] = "none"
  BY <1>1, PairFds
<1> HIDE DEF r
<1>4. ASSUME Agrees(tab) PROVE Agrees(r)
  <2>1. r.open_fds = {k \in UserFd : r.host[k] # "none"}
    BY <1>2, <1>4, FdSets DEF Agrees, Mine
  <2>2. r.cloexec_fds \subseteq r.open_fds
    BY <1>2, <1>4 DEF Agrees, FlagAll
  <2> QED
    BY <2>1, <2>2 DEF Agrees
<1>5. Holds(tab, v) => Holds(r, v)
  BY <1>2, <1>3, FdSets DEF Holds
<1> QED
  BY <1>4, <1>5 DEF r

(* A pipe with both numbers registered.                                    *)
LEMMA WholePair ==
  ASSUME tab \in Tab, Sized(tab), Snd # NoFd, Registers(Snd), NEW ce \in BOOLEAN
  PROVE  LET r == Pair(ce) IN
         /\ r.open_fds = tab.open_fds \cup {Fst, Snd}
         /\ r.cloexec_fds = FlagAll(tab.cloexec_fds, {Fst, Snd}, ce)
<1>1. Fst \in UserFd /\ Snd \in UserFd
  BY PairFds
<1>2. Mine({Fst, Snd}) = {Fst, Snd}
  BY <1>1 DEF Mine
<1> QED
  BY <1>2, PairIs

(* A pipe as Linux makes it.                                               *)
LEMMA SeenPipe ==
  ASSUME tab \in Tab, Agrees(tab), Snd # NoFd, Registers(Snd), NEW ce \in BOOLEAN,
         tab'.open_fds = tab.open_fds \cup {Fst, Snd},
         tab'.cloexec_fds = FlagAll(tab.cloexec_fds, {Fst, Snd}, ce),
         last' = <<"pipe", ce>>
  PROVE  Linux!Calls
<1>1. PICK f \in UserFd, g \in UserFd : f = Fst /\ g = Snd
  BY PairFds
<1>2. /\ f < g /\ tab.host[f] = "none" /\ tab.host[g] = "none" /\ f \in Nat /\ g \in Nat
      /\ \A k \in Fd : k < g /\ k # f => tab.host[k] # "none"
  BY <1>1, PairFds, FdSets
<1>3. \A k \in {f, g} : k >= 0 /\ k \notin tab.open_fds
  BY <1>2 DEF Agrees
<1>4. ASSUME NEW k \in {f, g}, NEW h \in 0 .. k PROVE h \in tab.open_fds \cup {f, g}
  <2>1. h \in UserFd /\ h \in Nat /\ h <= g
    BY <1>2, FdAssumption DEF UserFd
  <2>2. h = f \/ h = g \/ tab.host[h] # "none"
    BY <1>2, <2>1, FdSets
  <2> QED
    BY <2>1, <2>2 DEF Agrees
<1>5. tab'.cloexec_fds = Linux!Flagged({f, g}, ce)
  BY <1>1 DEF FlagAll, Linux!Flagged
<1>6. Linux!New({f, g}, 0, ce)
  BY <1>1, <1>3, <1>4, <1>5 DEF Linux!New
<1>7. f \in Linux!Fd /\ g \in Linux!Fd /\ f # g
  BY <1>2 DEF UserFd, Linux!Fd
<1>8. Linux!Pipe(ce)
  BY <1>6, <1>7 DEF Linux!Pipe
<1> QED
  BY <1>8 DEF Linux!Calls

(* A call that makes one.                                                  *)
LEMMA PairStep ==
  ASSUME FdInv, NEW t \in Threads, Enter(t), Snd # NoFd, Registers(Snd), NEW ce \in BOOLEAN,
         Becomes(t, Pair(ce), FALSE, Done(TRUE, "pipe", ce))
  PROVE  Preserved
<1>1. tab \in Tab /\ Sized(tab) /\ vkern \in SUBSET SystemFd
  BY DEF FdInv, TypeOK
<1> DEFINE r == Pair(ce)
<1>2. r \in Tab /\ r.size >= tab.size /\ Sized(r)
  BY <1>1, PairIs
<1>3. /\ r.open_fds = tab.open_fds \cup {Fst, Snd}
      /\ r.cloexec_fds = FlagAll(tab.cloexec_fds, {Fst, Snd}, ce)
      /\ Agrees(tab) => Agrees(r)
      /\ Holds(tab, vkern) => Holds(r, vkern)
  BY <1>1, WholePair, PairKeeps
<1>4. Becomes(t, r, FALSE, Done(TRUE, "pipe", ce))
  OBVIOUS
<1> HIDE DEF r
<1>5. ~spoilt => Agrees(r) /\ Holds(r, vkern)
  BY <1>3 DEF FdInv
<1>6. FdInv'
  BY <1>2, <1>4, <1>5, BecomesStep
<1>7. tab' = r /\ (~spoilt' => ~spoilt /\ last' = <<"pipe", ce>>)
  BY <1>4 DEF Becomes, Spoils, Done
<1>8. ~spoilt' => Linux!Calls
  BY <1>1, <1>3, <1>7, SeenPipe DEF FdInv
<1> QED
  BY <1>6, <1>8 DEF Preserved, Seen

(* Closing keeps the bits inside the arrays.                               *)
LEMMA CloseSized ==
  ASSUME NEW s \in Tab, Sized(s), s.size >= tab.size, NEW f \in Nat
  PROVE  LET r == HostClose(s, f) IN r \in Tab /\ r.size >= tab.size /\ Sized(r)
<1> DEFINE r == HostClose(s, f)
<1>1. r \in Tab /\ r.size = s.size /\ r.open_fds = s.open_fds /\ r.cloexec_fds = s.cloexec_fds
  BY HostCloseIs
<1> HIDE DEF r
<1>2. r \in Tab /\ r.size >= tab.size /\ Sized(r)
  BY <1>1 DEF Sized
<1> QED
  BY <1>2 DEF r

(* So does a pipe that is not registered.                                  *)
LEMMA PairOpenSized ==
  ASSUME tab \in Tab, Sized(tab), Snd # NoFd, NEW ce \in BOOLEAN
  PROVE  LET r == PairOpen(ce) IN r \in Tab /\ r.size >= tab.size /\ Sized(r)
<1>1. PICK f \in Fd, g \in Fd : f = Fst /\ g = Snd
  BY PairFds
<1> DEFINE a == HostOpen(tab, f, "user", ce)
           b == HostOpen(a, g, "user", ce)
<1>2. PairOpen(ce) = b
  BY <1>1 DEF PairOpen
<1>3. a \in Tab /\ a.size = tab.size /\ a.open_fds = tab.open_fds /\ a.cloexec_fds = tab.cloexec_fds
  BY HostOpenIs
<1> HIDE DEF a
<1>4. b \in Tab /\ b.size = a.size /\ b.open_fds = a.open_fds /\ b.cloexec_fds = a.cloexec_fds
  BY <1>3, HostOpenIs
<1> HIDE DEF b
<1>5. b.size >= tab.size /\ Sized(b)
  BY <1>3, <1>4 DEF Sized, Tab
<1> QED
  BY <1>2, <1>4, <1>5

(* pipe and its error paths.                                               *)
LEMMA PipeStep ==
  ASSUME FdInv, NEW t \in Threads, NEW efault \in BOOLEAN, Pipe(t, efault)
  PROVE  Preserved
<1>1. Enter(t) /\ Snd # NoFd
  BY DEF Pipe
<1>2. tab \in Tab /\ Sized(tab)
  BY DEF FdInv, TypeOK
<1>3. CASE Becomes(t, PairOpen(FALSE), TRUE, last)
  <2> DEFINE r == PairOpen(FALSE)
  <2>1. r \in Tab /\ r.size >= tab.size /\ Sized(r)
    BY <1>1, <1>2, PairOpenSized
  <2>2. Becomes(t, r, TRUE, last)
    BY <1>3
  <2> HIDE DEF r
  <2> QED
    BY <1>1, <2>1, <2>2, SpoiltStep
<1>4. CASE Becomes(t, IF Registers(Fst) /\ ~Registers(Snd) THEN HostClose(Pair(FALSE), 0) ELSE Pair(FALSE),
                   ~Registers(Snd), Done(Registers(Snd), "pipe", FALSE))
  <2>1. CASE Registers(Snd)
    <3>1. Becomes(t, Pair(FALSE), FALSE, Done(TRUE, "pipe", FALSE))
      BY <1>4, <2>1
    <3> QED
      BY <1>1, <2>1, <3>1, PairStep
  <2>2. CASE ~Registers(Snd)
    <3> DEFINE p == Pair(FALSE)
               q == HostClose(p, 0)
               op == Done(Registers(Snd), "pipe", FALSE)
    <3>1. p \in Tab /\ p.size >= tab.size /\ Sized(p)
      BY <1>1, <1>2, PairIs
    <3>2. Becomes(t, p, TRUE, op) \/ Becomes(t, q, TRUE, op)
      BY <1>4, <2>2 DEF Becomes, Spoils
    <3> HIDE DEF p, op
    <3>3. q \in Tab /\ q.size >= tab.size /\ Sized(q)
      BY <3>1, CloseSized
    <3> HIDE DEF q
    <3> QED
      BY <1>1, <3>1, <3>2, <3>3, SpoiltStep
  <2> QED
    BY <2>1, <2>2
<1> QED
  BY <1>3, <1>4 DEF Pipe

(* pipe2 and its error path.                                               *)
LEMMA Pipe2Step ==
  ASSUME FdInv, NEW t \in Threads, NEW ce \in BOOLEAN, Pipe2(t, ce)
  PROVE  Preserved
<1>1. /\ Enter(t) /\ Snd # NoFd
      /\ Becomes(t, IF Registers(Snd) THEN Pair(ce) ELSE HostClose(HostClose(Pair(ce), Fst), Snd),
                  ~Registers(Snd), Done(Registers(Snd), "pipe", ce))
  BY DEF Pipe2
<1>2. tab \in Tab /\ Sized(tab)
  BY DEF FdInv, TypeOK
<1>3. CASE Registers(Snd)
  <2>1. Becomes(t, Pair(ce), FALSE, Done(TRUE, "pipe", ce))
    BY <1>1, <1>3
  <2> QED
    BY <1>1, <1>3, <2>1, PairStep
<1>4. CASE ~Registers(Snd)
  <2>1. PICK f \in Nat, g \in Nat : f = Fst /\ g = Snd
    BY <1>1, <1>2, PairFds, FdSets
  <2> DEFINE p == Pair(ce)
             q == HostClose(p, f)
             r == HostClose(q, g)
             op == Done(Registers(Snd), "pipe", ce)
  <2>2. p \in Tab /\ p.size >= tab.size /\ Sized(p)
    BY <1>1, <1>2, PairIs
  <2>3. Becomes(t, r, TRUE, op)
    BY <1>1, <1>4, <2>1 DEF Becomes, Spoils
  <2> HIDE DEF p, op
  <2>4. q \in Tab /\ q.size >= tab.size /\ Sized(q)
    BY <2>2, CloseSized
  <2> HIDE DEF q
  <2>5. r \in Tab /\ r.size >= tab.size /\ Sized(r)
    BY <2>4, CloseSized
  <2> HIDE DEF r
  <2> QED
    BY <1>1, <2>3, <2>5, SpoiltStep
<1> QED
  BY <1>3, <1>4

(* A pair of sockets whose first descriptor was closed again.              *)
LEMMA HalfPairIs ==
  ASSUME tab \in Tab, Sized(tab), Snd # NoFd, Registers(Fst), NEW v \in SUBSET SystemFd
  PROVE  LET r == do_close(Pair(FALSE), Fst) IN
         /\ r \in Tab /\ r.size >= tab.size /\ Sized(r)
         /\ Agrees(tab) => /\ Agrees(r) /\ r.cloexec_fds = tab.cloexec_fds
                           /\ r.open_fds = tab.open_fds \cup Mine({Snd})
         /\ Holds(tab, v) => Holds(r, v)
         /\ Registers(Snd) => Snd < r.size
<1>1. PICK f \in UserFd, g \in Fd : f = Fst /\ g = Snd
  BY PairFds, FdSets
<1>2. tab.host[f] = "none" /\ tab.host[g] = "none" /\ f # g
  BY <1>1, PairFds, FdSets
<1> DEFINE p == Pair(FALSE)
           r == do_close(p, f)
<1>3. /\ p \in Tab /\ p.size >= tab.size /\ Sized(p)
      /\ p.open_fds = tab.open_fds \cup Mine({f, g})
      /\ p.cloexec_fds = FlagAll(tab.cloexec_fds, Mine({f, g}), FALSE)
  BY <1>1, PairIs
<1>4. (Agrees(tab) => Agrees(p)) /\ (Holds(tab, v) => Holds(p, v))
  BY PairKeeps
<1> HIDE DEF p
<1>5. f \in p.open_fds
  BY <1>3 DEF Mine
<1>6. /\ r \in Tab /\ r.size >= p.size /\ Sized(r)
      /\ r.open_fds = p.open_fds \ {f} /\ r.cloexec_fds = p.cloexec_fds \ {f}
      /\ Agrees(p) => Agrees(r)
      /\ Holds(p, v) => Holds(r, v)
  BY <1>3, <1>5, CloseIs
<1> HIDE DEF r
<1>7. r.size >= tab.size
  BY <1>3, <1>6 DEF Tab
<1>8. ASSUME Agrees(tab) PROVE r.cloexec_fds = tab.cloexec_fds /\ r.open_fds = tab.open_fds \cup Mine({g})
  <2>1. f \notin tab.open_fds /\ g \notin tab.open_fds /\ tab.cloexec_fds \subseteq tab.open_fds
    BY <1>2, <1>8 DEF Agrees
  <2>2. r.open_fds = tab.open_fds \cup Mine({g})
    BY <1>2, <1>3, <1>6, <2>1 DEF Mine
  <2>3. r.cloexec_fds = tab.cloexec_fds
    BY <1>3, <1>6, <2>1 DEF Mine, FlagAll
  <2> QED
    BY <2>2, <2>3
<1>9. Registers(g) => g < r.size
  BY <1>2, <1>3, <1>6, FdSets DEF Mine, Sized
<1> QED
  BY <1>1, <1>4, <1>6, <1>7, <1>8, <1>9 DEF r, p

(* What the program sees of it.                                            *)
LEMMA SeenHalf ==
  ASSUME tab \in Tab, Agrees(tab), Snd # NoFd, Registers(Snd),
         tab'.open_fds = tab.open_fds \cup {Snd}, tab'.cloexec_fds = tab.cloexec_fds,
         last' = <<"half", FALSE>>
  PROVE  Linux!Calls
<1>1. PICK f \in UserFd, g \in UserFd : f = Fst /\ g = Snd
  BY PairFds
<1>2. /\ f < g /\ tab.host[f] = "none" /\ tab.host[g] = "none" /\ f \in Nat /\ g \in Nat
      /\ \A k \in Fd : k < g /\ k # f => tab.host[k] # "none"
  BY <1>1, PairFds, FdSets
<1>3. f \in Linux!Fd \ tab.open_fds /\ g \in Linux!Fd \ tab.open_fds
  BY <1>2 DEF Agrees, UserFd, Linux!Fd
<1>4. ASSUME NEW h \in 0 .. g PROVE h \in tab.open_fds \cup {f, g}
  <2>1. h \in UserFd /\ h \in Nat /\ h <= g
    BY <1>2, FdAssumption DEF UserFd
  <2>2. h = f \/ h = g \/ tab.host[h] # "none"
    BY <1>2, <2>1, FdSets
  <2> QED
    BY <2>1, <2>2 DEF Agrees
<1>5. Linux!HalfPair
  BY <1>1, <1>2, <1>3, <1>4 DEF Linux!HalfPair
<1> QED
  BY <1>5 DEF Linux!Calls

(* socketpair and its error paths.                                         *)
LEMMA SocketpairStep ==
  ASSUME FdInv, NEW t \in Threads, NEW efault \in BOOLEAN, Socketpair(t, efault)
  PROVE  Preserved
<1>1. Enter(t) /\ Snd # NoFd
  BY DEF Socketpair
<1>2. tab \in Tab /\ Sized(tab) /\ vkern \in SUBSET SystemFd
  BY DEF FdInv, TypeOK
<1>3. CASE Registers(Snd) /\ Becomes(t, Pair(FALSE), FALSE, Done(TRUE, "pipe", FALSE))
  BY <1>1, <1>3, PairStep
<1>4. CASE Becomes(t, tab, FALSE, last)
  <2>1. UNCHANGED <<tab, vkern, last, pc, call>> /\ Spoils(t, FALSE)
    BY <1>4 DEF Becomes
  <2> QED
    BY <1>1, <2>1, UntouchedStep
<1>5. CASE /\ Registers(Fst)
           /\ tab' = LET s == do_close(Pair(FALSE), Fst) IN IF Registers(Snd) THEN s ELSE HostClose(s, Snd)
           /\ IF Registers(Snd) THEN Goto(t, "pair", Snd) ELSE Goto(t, "unlock", NoFd)
           /\ last' = Done(Registers(Snd), "half", FALSE)
           /\ UNCHANGED <<vkern, lock, panic>> /\ Spoils(t, FALSE)
  <2> DEFINE s == do_close(Pair(FALSE), Fst)
  <2>1. /\ s \in Tab /\ s.size >= tab.size /\ Sized(s)
        /\ Agrees(tab) => /\ Agrees(s) /\ s.cloexec_fds = tab.cloexec_fds
                          /\ s.open_fds = tab.open_fds \cup Mine({Snd})
        /\ Holds(tab, vkern) => Holds(s, vkern)
        /\ Registers(Snd) => Snd < s.size
    BY <1>1, <1>2, <1>5, HalfPairIs
  <2>2. /\ IF Registers(Snd) THEN tab' = s /\ Goto(t, "pair", Snd)
                             ELSE tab' = HostClose(s, Snd) /\ Goto(t, "unlock", NoFd)
        /\ last' = Done(Registers(Snd), "half", FALSE) /\ vkern' = vkern
    BY <1>5
  <2> HIDE DEF s
  <2>3. /\ spoilt' \in BOOLEAN /\ (spoilt => spoilt')
        /\ ~spoilt' => ~spoilt /\ \A u \in Threads \ {t} : pc[u] = "user"
    BY <1>5 DEF Spoils, FdInv, TypeOK
  <2>4. /\ "pair" \in Places /\ "pair" \notin OnSlot /\ "unlock" \in Places
        /\ "unlock" \notin OnFd /\ "unlock" \notin OnSlot
    BY DEF Places, OnFd, OnSlot
  <2>5. CASE Registers(Snd)
    <3>1. PICK g \in UserFd : g = Snd
      BY <1>1, <1>2, <2>5, PairFds
    <3>2. tab' = s /\ pc' = [pc EXCEPT ![t] = "pair"] /\ call' = [call EXCEPT ![t] = g]
      BY <2>2, <2>5, <3>1 DEF Goto
    <3>3. ~spoilt' => Agrees(tab') /\ Holds(tab', vkern')
      BY <2>1, <2>2, <2>3, <3>2 DEF FdInv
    <3>4. Mine({Snd}) = {Snd}
      BY <3>1 DEF Mine
    <3>5. g \in Fd /\ g < tab'.size
      BY <2>1, <2>5, <3>1, <3>2, FdSets
    <3>6. FdInv'
      BY <1>2, <2>1, <2>2, <2>3, <2>4, <3>2, <3>3, <3>5, CallStep
    <3>7. ~spoilt' => Linux!Calls
      BY <1>1, <1>2, <2>1, <2>2, <2>3, <2>5, <3>2, <3>4, SeenHalf DEF FdInv, Done
    <3> QED
      BY <3>6, <3>7 DEF Preserved, Seen
  <2>6. CASE ~Registers(Snd)
    <3>1. PICK g \in SystemFd : g = Snd
      BY <1>1, <1>2, <2>6, PairFds, FdSets
    <3>2. tab' = HostClose(s, g) /\ pc' = [pc EXCEPT ![t] = "unlock"] /\ call' = [call EXCEPT ![t] = NoFd]
      BY <2>2, <2>6, <3>1 DEF Goto
    <3>3. g \in Nat \ UserFd
      BY FdSets
    <3>4. ~spoilt /\ NewFds \subseteq UserFd => g \notin vkern
      BY <1>1, <1>2, <3>1, PairFds DEF FdInv, Holds
    <3>5. /\ tab' \in Tab /\ tab'.size >= s.size /\ Sized(tab')
          /\ tab'.open_fds = s.open_fds /\ tab'.cloexec_fds = s.cloexec_fds
          /\ Agrees(s) => Agrees(tab')
          /\ Holds(s, vkern) /\ (NewFds \subseteq UserFd => g \notin vkern) => Holds(tab', vkern)
      BY <1>2, <2>1, <3>2, <3>3, HostCloseKeeps
    <3>6. tab'.size >= tab.size
      BY <1>2, <2>1, <3>5 DEF Tab
    <3>7. ~spoilt' => Agrees(tab') /\ Holds(tab', vkern')
      BY <2>1, <2>2, <2>3, <3>4, <3>5 DEF FdInv
    <3>8. FdInv'
      BY <1>2, <2>2, <2>3, <2>4, <3>2, <3>5, <3>6, <3>7, CallStep
    <3>9. Mine({Snd}) = {}
      BY <3>1, <3>3 DEF Mine
    <3>10. ~spoilt' => /\ tab'.open_fds = tab.open_fds /\ tab'.cloexec_fds = tab.cloexec_fds
                       /\ last' = last
      BY <2>1, <2>2, <2>3, <2>6, <3>5, <3>9 DEF FdInv, Done
    <3> QED
      BY <3>8, <3>10 DEF Preserved, Seen
  <2> QED
    BY <2>5, <2>6
<1> QED
  BY <1>3, <1>4, <1>5 DEF Socketpair
-----------------------------------------------------------------------------
(* find_emptyfd stays inside the system area.                              *)
LEMMA EmptySlot ==
  ASSUME vkern \in SUBSET SystemFd, EmptySlots # {}
  PROVE  Min(EmptySlots) \in SystemFd
<1>1. EmptySlots \subseteq SystemFd /\ EmptySlots \subseteq Nat
  BY FdAssumption DEF EmptySlots, SystemFd, NumFds
<1>2. \E x \in EmptySlots : \A y \in EmptySlots : x <= y
  BY <1>1, LeastExists
<1>3. Min(EmptySlots) \in EmptySlots
  BY <1>2, Zenon DEF Min
<1> QED
  BY <1>1, <1>3

(* vkern_dup_fd: a descriptor that Darwin opened among the program's       *)
(* leaves no trace there.                                                  *)
LEMMA MovedIs ==
  ASSUME NEW s \in Tab, Sized(s), NEW fd \in Fd, NEW slot \in SystemFd, s.host[fd] = "none",
         NEW v \in SUBSET SystemFd
  PROVE  LET r == HostClose(vkern_dup_fd(HostOpen(s, fd, "user", FALSE), fd, slot), fd) IN
         /\ r \in Tab /\ r.size >= s.size /\ Sized(r)
         /\ r.open_fds = s.open_fds /\ r.cloexec_fds = s.cloexec_fds
         /\ fd \in UserFd /\ Agrees(s) => Agrees(r)
         /\ fd \in UserFd /\ Holds(s, v) => Holds(r, v \cup {slot})
<1> DEFINE a == HostOpen(s, fd, "user", FALSE)
           b == vkern_dup_fd(a, fd, slot)
           r == HostClose(b, fd)
<1>1. /\ a \in Tab /\ a.size = s.size /\ a.open_fds = s.open_fds /\ a.cloexec_fds = s.cloexec_fds
      /\ \A g \in Fd \ {fd} : a.host[g] = s.host[g]
  BY DEF HostOpen, Tab
<1> HIDE DEF a
<1>2. /\ b \in Tab /\ b.size = a.size /\ b.open_fds = a.open_fds /\ b.cloexec_fds = a.cloexec_fds
      /\ \A g \in Fd \ {slot} : b.host[g] = a.host[g]
      /\ fd # slot => b.host[slot] = "vkern"
  BY <1>1, FdSets DEF vkern_dup_fd, HostOpen, Tab
<1> HIDE DEF b
<1>3. /\ r \in Tab /\ r.size = b.size /\ r.open_fds = b.open_fds /\ r.cloexec_fds = b.cloexec_fds
      /\ r.host[fd] = "none" /\ \A g \in Fd \ {fd} : r.host[g] = b.host[g]
  <2>1. r = [b EXCEPT !.host[fd] = "none", !.hostCloexec = @ \ {fd}]
    BY DEF HostClose
  <2>b. b \in Tab
    BY <1>2
  <2> HIDE DEF r
  <2>2. r \in Tab
    BY <2>1, <2>b DEF Tab
  <2>3. r.size = b.size /\ r.open_fds = b.open_fds /\ r.cloexec_fds = b.cloexec_fds
    BY <2>1, <2>b DEF Tab
  <2>4. r.host = [b.host EXCEPT ![fd] = "none"] /\ b.host \in [Fd -> {"none", "user", "vkern"}]
    BY <2>1, <2>b DEF Tab
  <2>5. r.host[fd] = "none" /\ \A g \in Fd \ {fd} : r.host[g] = b.host[g]
    BY <2>4
  <2> QED
    BY <2>2, <2>3, <2>5
<1> HIDE DEF r
<1>4. /\ r.size >= s.size /\ Sized(r)
      /\ r.open_fds = s.open_fds /\ r.cloexec_fds = s.cloexec_fds
  BY <1>1, <1>2, <1>3 DEF Tab, Sized
<1>5. ASSUME fd \in UserFd
      PROVE  /\ \A g \in Fd \ {slot} : r.host[g] = s.host[g]
             /\ r.host[slot] = "vkern"
  BY <1>1, <1>2, <1>3, <1>5, FdSets
<1>6. fd \in UserFd /\ Agrees(s) => Agrees(r)
  BY <1>4, <1>5, FdSets DEF Agrees
<1>7. fd \in UserFd /\ Holds(s, v) => Holds(r, v \cup {slot})
  BY <1>5, FdSets DEF Holds
<1> QED
  BY <1>3, <1>4, <1>6, <1>7 DEF a, b, r

(* vkern_openat.                                                           *)
LEMMA VkernOpenatStep ==
  ASSUME FdInv, NEW t \in Threads, NEW step \in {"exec", "utimens"}, VkernOpenat(t, step)
  PROVE  Preserved
<1> DEFINE fd == HostLowest(tab, 0)
           slot == Min(EmptySlots)
<1>1. Enter(t) /\ fd # NoFd
  BY DEF VkernOpenat
<1>2. tab \in Tab /\ Sized(tab) /\ vkern \in SUBSET SystemFd
  BY DEF FdInv, TypeOK
<1>3. fd \in Fd /\ tab.host[fd] = "none"
  BY <1>1, <1>2, LowestIs
<1>4. CASE EmptySlots = {}
  <2>1. UNCHANGED <<tab, vkern, last, pc, call>> /\ Spoils(t, FALSE)
    BY <1>4 DEF VkernOpenat
  <2> QED
    BY <1>1, <2>1, UntouchedStep
<1>5. CASE EmptySlots # {}
  <2>1. /\ tab' = HostClose(vkern_dup_fd(HostOpen(tab, fd, "user", FALSE), fd, slot), fd)
        /\ vkern' = vkern \cup {slot} /\ Goto(t, step, slot)
        /\ Spoils(t, ~Registers(fd)) /\ last' = last
    BY <1>5 DEF VkernOpenat
  <2>2. slot \in SystemFd
    BY <1>2, <1>5, EmptySlot
  <2> HIDE DEF fd, slot
  <2>3. /\ tab' \in Tab /\ tab'.size >= tab.size /\ Sized(tab')
        /\ tab'.open_fds = tab.open_fds /\ tab'.cloexec_fds = tab.cloexec_fds
        /\ fd \in UserFd /\ Agrees(tab) => Agrees(tab')
        /\ fd \in UserFd /\ Holds(tab, vkern) => Holds(tab', vkern')
    BY <1>2, <1>3, <2>1, <2>2, MovedIs
  <2>4. /\ spoilt' \in BOOLEAN /\ (spoilt => spoilt')
        /\ ~spoilt' => ~spoilt /\ Registers(fd) /\ \A u \in Threads \ {t} : pc[u] = "user"
    BY <2>1 DEF Spoils, FdInv, TypeOK
  <2>5. ~spoilt' => Agrees(tab') /\ Holds(tab', vkern')
    BY <1>3, <2>3, <2>4, FdSets DEF FdInv
  <2>6. /\ step \in Places /\ step \notin OnFd /\ slot \in Fd /\ vkern' \in SUBSET SystemFd
        /\ step # "dup_register" /\ step # "ioctl_setbit"
        /\ pc' = [pc EXCEPT ![t] = step] /\ call' = [call EXCEPT ![t] = slot]
    BY <1>2, <2>1, <2>2, FdSets DEF Places, OnFd, OnSlot, Goto
  <2>7. FdInv'
    BY <2>2, <2>3, <2>4, <2>5, <2>6, CallStep
  <2> QED
    BY <2>1, <2>3, <2>7 DEF Preserved, Seen
<1> QED
  BY <1>4, <1>5

(* execve closes the flagged descriptors.                                  *)
LEMMA ExecProceedsStep ==
  ASSUME FdInv, NEW t \in Threads, NEW regular \in BOOLEAN, ExecProceeds(t, regular)
  PROVE  Preserved
<1>1. /\ pc[t] = "exec" /\ Goto(t, "exec_close", call[t]) /\ vkern' = vkern /\ spoilt' = spoilt
      /\ tab' = IF regular THEN close_cloexec(tab) ELSE tab
      /\ last' = Done(regular, "exec", FALSE)
  BY DEF ExecProceeds, At
<1>2. PICK c \in SystemFd : c = call[t]
  BY <1>1 DEF FdInv, TypeOK, OnSlot
<1>3. tab \in Tab /\ Sized(tab) /\ vkern \in SUBSET SystemFd
  BY DEF FdInv, TypeOK
<1>4. /\ "exec_close" \in Places /\ "exec_close" \notin OnFd /\ c \in Fd
      /\ vkern' \in SUBSET SystemFd /\ pc[t] # "user" /\ Goto(t, "exec_close", c)
  BY <1>1, <1>2, <1>3, FdSets DEF Places, OnFd, OnSlot
<1>5. CASE regular
  <2>1. tab' = close_cloexec(tab)
    BY <1>1, <1>5
  <2>2. /\ tab' \in Tab /\ tab'.size = tab.size
        /\ tab'.open_fds \subseteq tab.open_fds /\ tab'.cloexec_fds \subseteq tab.cloexec_fds
        /\ \A f \in SystemFd : tab'.host[f] = tab.host[f]
    BY <1>3, <2>1, CloseCloexecType
  <2>3. tab'.size >= tab.size /\ Sized(tab')
    BY <1>3, <2>2 DEF Tab, Sized
  <2>4. ASSUME ~spoilt
        PROVE  /\ Agrees(tab') /\ Holds(tab', vkern')
               /\ tab'.open_fds = tab.open_fds \ tab.cloexec_fds /\ tab'.cloexec_fds = {}
    <3>1. Agrees(tab) /\ Holds(tab, vkern)
      BY <2>4 DEF FdInv
    <3>2. /\ tab'.open_fds = tab.open_fds \ tab.cloexec_fds /\ tab'.cloexec_fds = {}
          /\ \A f \in Fd : tab'.host[f] = IF f \in tab.cloexec_fds THEN "none" ELSE tab.host[f]
      BY <1>3, <2>1, <3>1, CloseCloexecIs
    <3>3. Agrees(tab')
      BY <3>1, <3>2, FdSets DEF Agrees
    <3>4. Holds(tab', vkern')
      BY <1>1, <1>3, <2>2, <3>1 DEF Holds
    <3> QED
      BY <3>2, <3>3, <3>4
  <2>5. FdInv'
    BY <1>1, <1>4, <2>2, <2>3, <2>4, InsideStep
  <2>6. ~spoilt' => ~spoilt /\ last' = <<"exec", FALSE>>
    BY <1>1, <1>5 DEF Done
  <2>7. ~spoilt' => Linux!Exec
    BY <2>4, <2>6 DEF Linux!Exec
  <2> QED
    BY <2>5, <2>7, Zenon DEF Preserved, Seen, Linux!Calls
<1>6. CASE ~regular
  <2>1. tab' = tab /\ (~spoilt => last' = last)
    BY <1>1, <1>6, Zenon DEF Done
  <2>2. tab' = tab /\ tab'.size >= tab.size /\ (~spoilt => last' = last)
    BY <1>3, <2>1 DEF Tab
  <2>3. ~spoilt => Agrees(tab') /\ Holds(tab', vkern')
    BY <1>1, <2>2 DEF FdInv
  <2>4. tab' \in Tab /\ Sized(tab')
    BY <1>3, <2>2
  <2>5. FdInv'
    BY <1>1, <1>4, <2>2, <2>3, <2>4, InsideStep
  <2> QED
    BY <1>1, <2>2, <2>5 DEF Preserved, Seen
<1> QED
  BY <1>5, <1>6

(* vkern_close.                                                            *)
LEMMA VkernCloseStep ==
  ASSUME FdInv, NEW t \in Threads, VkernClose(t)
  PROVE  Preserved
<1>1. /\ pc[t] \in {"exec_close", "utimens"} /\ tab' = HostClose(tab, call[t])
      /\ vkern' = vkern \ {call[t]} /\ Goto(t, "user", NoFd) /\ last' = last /\ spoilt' = spoilt
  BY DEF VkernClose, At, Return
<1>2. PICK c \in SystemFd : c = call[t]
  BY <1>1 DEF FdInv, TypeOK, OnSlot
<1>3. tab \in Tab /\ Sized(tab) /\ vkern \in SUBSET SystemFd
  BY DEF FdInv, TypeOK
<1>4. c \in Nat \ UserFd /\ vkern \ {c} \in SUBSET SystemFd /\ c \notin vkern \ {c}
  BY <1>3, FdSets
<1>5. Holds(tab, vkern) => Holds(tab, vkern \ {c})
  BY DEF Holds
<1>6. /\ tab' \in Tab /\ tab'.size >= tab.size /\ Sized(tab')
      /\ tab'.open_fds = tab.open_fds /\ tab'.cloexec_fds = tab.cloexec_fds
      /\ Agrees(tab) => Agrees(tab')
      /\ Holds(tab, vkern \ {c}) => Holds(tab', vkern \ {c})
  BY <1>1, <1>2, <1>3, <1>4, HostCloseKeeps
<1>7. /\ "user" \in Places /\ "user" \notin OnFd /\ "user" \notin OnSlot
      /\ vkern' \in SUBSET SystemFd /\ pc[t] # "user"
  BY <1>1, <1>2, <1>4 DEF Places, OnFd, OnSlot
<1>8. ~spoilt => Agrees(tab') /\ Holds(tab', vkern')
  BY <1>1, <1>2, <1>5, <1>6 DEF FdInv
<1>9. FdInv'
  BY <1>1, <1>6, <1>7, <1>8, InsideStep
<1> QED
  BY <1>1, <1>6, <1>9 DEF Preserved, Seen
-----------------------------------------------------------------------------
(* alloc_fdtable rounds up by less than one unit more,                     *)
LEMMA RoundedBelow ==
  ASSUME NEW fd \in Nat
  PROVE  Rounded(fd) <= fd + Unit
<1>1. Unit \in Nat \ {0}
  BY FdAssumption
<1> QED
  BY <1>1 DEF Rounded

(* so that the first arrays have a size.                                   *)
LEMMA FirstSize ==
  ASSUME NEW S \in SUBSET UserFd
  PROVE  LET n == Max({Unit} \cup {Rounded(f) : f \in S}) IN n \in Nat /\ \A f \in S : f < n
<1> DEFINE T == {Unit} \cup {Rounded(f) : f \in S}
<1>1. Unit \in Nat /\ VkernStart \in Nat
  BY FdAssumption
<1>2. \A f \in S : f \in Nat /\ f < VkernStart
  BY <1>1 DEF UserFd
<1>3. \A f \in S : Rounded(f) \in Nat /\ f < Rounded(f) /\ Rounded(f) <= f + Unit
  BY <1>2, RoundedAbove, RoundedBelow
<1>4. \A f \in S : Rounded(f) <= VkernStart + Unit
  BY <1>1, <1>2, <1>3
<1>5. T \in SUBSET Nat /\ T # {} /\ VkernStart + Unit \in Nat /\ \A k \in T : k <= VkernStart + Unit
  BY <1>1, <1>3, <1>4
<1> HIDE DEF T
<1>6. \E m \in T : \A k \in T : m >= k
  BY <1>5, GreatestExists
<1>7. Max(T) \in T /\ \A k \in T : Max(T) >= k
  BY <1>6, Zenon DEF Max
<1>8. \A f \in S : Rounded(f) \in T
  BY DEF T
<1>9. PICK m \in Nat : m = Max(T)
  BY <1>5, <1>7
<1>10. ASSUME NEW f \in S PROVE f < m
  <2>1. Rounded(f) <= m
    BY <1>3, <1>7, <1>8, <1>9
  <2> QED
    BY <1>2, <1>3, <2>1
<1> QED
  BY <1>9, <1>10 DEF T

(* init_fileinfo establishes the invariant.                                *)
LEMMA FdInit ==
  Init => FdInv /\ Linux!Init
<1> SUFFICES ASSUME Init PROVE FdInv /\ Linux!Init
  OBVIOUS
<1>1. PICK S \in SUBSET UserFd : \E C \in SUBSET S :
        tab = [host |-> [f \in Fd |-> IF f \in S THEN "user"
                                      ELSE IF f = VkernStart THEN "vkern" ELSE "none"],
               hostCloexec |-> C,
               size |-> Max({Unit} \cup {Rounded(f) : f \in S}),
               open_fds |-> S, cloexec_fds |-> C]
  BY DEF Init
<1>2. /\ vkern = {VkernStart} /\ pc = [u \in Threads |-> "user"] /\ call = [u \in Threads |-> NoFd]
      /\ last = <<"none", FALSE>> /\ spoilt = FALSE
  BY DEF Init
<1>3. VkernStart \in SystemFd /\ VkernStart \in Fd /\ VkernStart \notin UserFd
  BY FdAssumption DEF SystemFd, NumFds, Fd, UserFd
<1> DEFINE n == Max({Unit} \cup {Rounded(f) : f \in S})
           h == [f \in Fd |-> IF f \in S THEN "user" ELSE IF f = VkernStart THEN "vkern" ELSE "none"]
<1>4. n \in Nat /\ \A f \in S : f < n
  BY FirstSize
<1>5. /\ h \in [Fd -> {"user", "vkern", "none"}] /\ h[VkernStart] = "vkern"
      /\ \A f \in UserFd : h[f] # "none" <=> f \in S
  BY <1>3, FdSets
<1>6. PICK C \in SUBSET S : tab = [host |-> h, hostCloexec |-> C, size |-> n, open_fds |-> S, cloexec_fds |-> C]
  BY <1>1
<1> HIDE DEF n, h
<1>7. tab \in Tab
  BY <1>4, <1>5, <1>6, FdSets DEF Tab
<1>8. Sized(tab)
  BY <1>4, <1>6 DEF Sized
<1>9. Agrees(tab) /\ Holds(tab, vkern)
  BY <1>2, <1>5, <1>6 DEF Agrees, Holds
<1>10. TypeOK
  BY <1>2, <1>3, <1>7 DEF TypeOK, Places, OnFd, OnSlot
<1>11. OneCall /\ CallInv
  BY <1>2 DEF OneCall, CallInv
<1>12. Linux!Init
  BY <1>2, <1>6 DEF Linux!Init, Linux!Fd, UserFd
<1> QED
  BY <1>8, <1>9, <1>10, <1>11, <1>12 DEF FdInv

(* Every step of a call that is under way preserves it,                    *)
LEMMA KernelStep ==
  ASSUME FdInv, NEW t \in Threads, Kernel(t)
  PROVE  Preserved
<1>1. CASE Accepted(t)
  BY <1>1, AcceptedStep
<1>2. CASE PairClose(t)
  BY <1>2, PairCloseStep
<1>3. CASE StrayUnlock(t) \/ ExecRefused(t)
  BY <1>3, StrayUnlockStep
<1>4. CASE \E least \in UserFd, ce \in BOOLEAN : Dupfd(t, least, ce)
  BY <1>4, DupfdStep
<1>5. CASE \E ce \in BOOLEAN : Setfd(t, ce)
  BY <1>5, SetfdStep
<1>6. CASE DupRegister(t)
  BY <1>6, DupRegisterStep
<1>7. CASE IoctlSetbit(t)
  BY <1>7, IoctlSetbitStep
<1>8. CASE \E regular \in BOOLEAN : ExecProceeds(t, regular)
  BY <1>8, ExecProceedsStep
<1>9. CASE VkernClose(t)
  BY <1>9, VkernCloseStep
<1> QED
  BY <1>1, <1>2, <1>3, <1>4, <1>5, <1>6, <1>7, <1>8, <1>9 DEF Kernel

(* and every call that starts.                                             *)
LEMMA ProgramStep ==
  ASSUME FdInv, NEW t \in Threads, Program(t)
  PROVE  Preserved
<1>1. CASE \E ce, path \in BOOLEAN : UserOpenat(t, ce, path)
  BY <1>1, UserOpenatStep
<1>2. CASE \E ce \in BOOLEAN : SysSocket(t, ce) \/ Pipe2(t, ce)
  BY <1>2, SysSocketStep, Pipe2Step
<1>3. CASE \E efault \in BOOLEAN : Pipe(t, efault) \/ Socketpair(t, efault)
  BY <1>3, PipeStep, SocketpairStep
<1>4. CASE Accept(t)
  BY <1>4, AcceptStep
<1>5. CASE \E fd \in UserFd : UserClose(t, fd)
  BY <1>5, UserCloseStep
<1>6. CASE \E fd1, fd2 \in UserFd : Dup2(t, fd1, fd2)
  BY <1>6, Dup2Step
<1>7. CASE \E oldfd \in UserFd, newfd \in NewFds, ce \in BOOLEAN : Dup3(t, oldfd, newfd, ce)
  BY <1>7, Dup3Step
<1>8. CASE \/ \E fd \in UserFd, step \in {"dupfd", "setfd"} : Fcntl(t, fd, step)
           \/ \E fd \in UserFd, step \in {"dup_dupfd", "ioctl_setfd"} : Nested(t, fd, step)
  BY <1>8, FcntlStep
<1>9. CASE \E step \in {"exec", "utimens"} : VkernOpenat(t, step)
  BY <1>9, VkernOpenatStep
<1> QED
  BY <1>1, <1>2, <1>3, <1>4, <1>5, <1>6, <1>7, <1>8, <1>9 DEF Program

(* What is spoilt stays so.                                                *)
LEMMA SpoiltKept ==
  ASSUME FdInv, NEW t \in Threads, Kernel(t) \/ Program(t)
  PROVE  spoilt => spoilt'
<1>1. CASE Kernel(t)
  BY <1>1 DEF Kernel, Accepted, PairClose, StrayUnlock, Dupfd, Setfd, DupRegister, IoctlSetbit,
              ExecRefused, ExecProceeds, VkernClose
<1>2. CASE Program(t)
  <2>1. Spoils(t, TRUE) \/ Spoils(t, FALSE) \/ \E bad \in BOOLEAN : Spoils(t, bad)
    BY <1>2 DEF Program, UserOpenat, SysSocket, Pipe, Pipe2, Socketpair, Accept, UserClose, Dup2, Dup3,
                Fcntl, Nested, VkernOpenat, Becomes
  <2> QED
    BY <2>1 DEF Spoils
<1> QED
  BY <1>1, <1>2

(* Every step preserves the invariant, and is one of LinuxFds.             *)
LEMMA FdStep ==
  FdInv /\ [Next]_vars => FdInv' /\ [Linux!Next]_(Linux!vars)
<1> SUFFICES ASSUME FdInv, [Next]_vars PROVE FdInv' /\ [Linux!Next]_(Linux!vars)
  OBVIOUS
<1>1. CASE Next
  <2>1. PICK t \in Threads : Kernel(t) \/ Program(t)
    BY <1>1 DEF Next
  <2>2. FdInv' /\ Seen
    BY <2>1, KernelStep, ProgramStep DEF Preserved
  <2>3. CASE spoilt'
    BY <2>2, <2>3 DEF Linux!Next
  <2>4. CASE ~spoilt'
    <3>1. spoilt' = spoilt
      BY <2>1, <2>2, <2>4, SpoiltKept DEF FdInv, TypeOK
    <3>2. CASE Linux!Calls
      BY <2>2, <3>1, <3>2 DEF Linux!Next
    <3>3. CASE tab'.open_fds = tab.open_fds /\ tab'.cloexec_fds = tab.cloexec_fds /\ last' = last
      BY <2>2, <3>1, <3>3 DEF Linux!vars
    <3> QED
      BY <2>2, <2>4, <3>2, <3>3 DEF Seen
  <2> QED
    BY <2>3, <2>4
<1>2. CASE UNCHANGED vars
  <2>1. UNCHANGED <<tab, vkern, lock, pc, call, last, panic, spoilt>>
    BY <1>2 DEF vars
  <2>2. FdInv'
    BY <2>1 DEF FdInv, TypeOK, OneCall, CallInv, Sized, Agrees, Holds
  <2> QED
    BY <2>1, <2>2 DEF Linux!vars
<1> QED
  BY <1>1, <1>2

(* The inductive invariant holds throughout.                               *)
LEMMA FdInvHolds ==
  Spec => []FdInv
<1> QED
  BY FdInit, FdStep, PTL DEF Spec

(* Every variable keeps its type; in particular a call that goes on after  *)
(* fcntl has given fdtable_lock up uses a descriptor inside the arrays     *)
(* (sys_fcntl in src/src/fs/fs.c).                                         *)
THEOREM FdTableTypeCorrect ==
  Spec => []TypeOK
<1>1. FdInv => TypeOK
  BY DEF FdInv
<1> QED
  BY <1>1, FdInvHolds, PTL

(* noah's table lists exactly the descriptors that Darwin has open for the *)
(* program, and every bit lies inside the arrays that alloc_fdtable made,  *)
(* after any calls of any number of threads that do not overlap            *)
(* (register_fd, do_close, dup3, pipe2, socketpair and close_cloexec).     *)
THEOREM TablesAgree ==
  Spec => []TableAgrees
<1>1. FdInv => TableAgrees
  BY DEF FdInv, TableAgrees, Sized, Agrees
<1> QED
  BY <1>1, FdInvHolds, PTL

(* Where no program passes dup3 a number of the system area, noah keeps    *)
(* every system descriptor it has, whatever the program opens, closes,     *)
(* duplicates or executes (vkern_dup_fd, vkern_close).  The hypothesis is  *)
(* needed: sys_dup3 does not ask in_userfd.                                *)
THEOREM SystemFdsAreKept ==
  ASSUME NewFds \subseteq UserFd
  PROVE  Spec => []SystemFdsKept
<1>1. FdInv => SystemFdsKept
  BY DEF FdInv, SystemFdsKept, Holds
<1> QED
  BY <1>1, FdInvHolds, PTL

(* The table of descriptors implements LinuxFds: every step that the       *)
(* program can see is a call as Linux does it, the lowest free numbers,    *)
(* the flags and the closing by execve included, until calls overlap or an *)
(* error path leaks.                                                       *)
THEOREM ImplementsLinuxTable ==
  Spec => LinuxTable
<1> QED
  BY FdInit, FdStep, FdInvHolds, PTL DEF Spec, LinuxTable, Linux!Spec
=============================================================================
