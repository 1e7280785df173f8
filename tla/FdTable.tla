------------------------------ MODULE FdTable ------------------------------
(***************************************************************************)
(* File descriptors (src/src/fs/fs.c, src/src/net/net.c).                  *)
(*                                                                         *)
(* A Linux descriptor is the Darwin descriptor of the same number.  noah   *)
(* records in a table which numbers the program has open and which of them *)
(* execve closes; numbers from VkernStart on are noah's own and have a     *)
(* table of their own.  fdtable_lock protects both.                        *)
(***************************************************************************)
EXTENDS Naturals, FiniteSets, FiniteSetsExt

CONSTANTS
  Threads, NoThread,
  VkernStart,   \* vkern_fdtable.start
  VkernSize,    \* vkern_fdtable_maxsize
  FfsBits,      \* width of the argument of ffs, half of a word of open_fds
  Unit,         \* fdtable_alloc_unit
  NewFds        \* descriptors that dup3 is asked for

ASSUME FdAssumption ==
  /\ VkernStart \in Nat \ {0} /\ VkernSize \in Nat \ {0} /\ Unit \in Nat \ {0}
  /\ FfsBits \in 1 .. VkernSize /\ NewFds \subseteq Nat
  /\ NoThread \notin Threads

NumFds == VkernStart + VkernSize   \* RLIMIT_NOFILE
Fd == 0 .. NumFds - 1
UserFd == 0 .. VkernStart - 1
NoFd == NumFds

VARIABLES
  tab,       \* Darwin's table (who opened it, FD_CLOEXEC) and noah's fdtable
  vkern,     \* open_fds of vkern_fdtable
  lock,      \* fdtable_lock: the writer
  pc, call,  \* where a thread is inside a call, and with which descriptor
  last,      \* the last call that succeeded, and its FD_CLOEXEC
  panic,
  spoilt     \* calls overlapped, or an error path left the tables apart

vars == <<tab, vkern, lock, pc, call, last, panic, spoilt>>

(* open, close and the like, as Darwin does them: the lowest free number.  *)
HostFree(s, least) == {f \in least .. NumFds - 1 : s.host[f] = "none"}

HostLowest(s, least) == IF HostFree(s, least) = {} THEN NoFd ELSE Min(HostFree(s, least))

HostOpen(s, f, who, ce) ==
  [s EXCEPT !.host[f] = who, !.hostCloexec = IF ce THEN @ \cup {f} ELSE @ \ {f}]

HostClose(s, f) == [s EXCEPT !.host[f] = "none", !.hostCloexec = @ \ {f}]
-----------------------------------------------------------------------------
in_userfd(f) == f \in UserFd

(* The table grows by whole units and never shrinks.                       *)
Rounded(fd) == ((fd + Unit) \div Unit) * Unit

alloc_fdtable(size, fd) == Max({size, Rounded(fd)})

Registers(fd) == fd < VkernStart

register_fd(s, fd, ce) ==
  IF ~Registers(fd) THEN s
  ELSE [s EXCEPT !.size = alloc_fdtable(@, fd),
                 !.open_fds = @ \cup {fd},
                 !.cloexec_fds = IF ce THEN @ \cup {fd} ELSE @ \ {fd}]

get_file(s, fd) == fd < s.size /\ fd \in s.open_fds

(* Mutant of do_close: the descriptor stays in the table.                  *)
do_close_kept(s, fd) == IF get_file(s, fd) THEN HostClose(s, fd) ELSE s

(* Darwin's result is returned, and the bits are cleared whatever it is.   *)
do_close(s, fd) ==
  IF get_file(s, fd)
  THEN [HostClose(s, fd) EXCEPT !.open_fds = @ \ {fd}, !.cloexec_fds = @ \ {fd}]
  ELSE s

(* do_close for every descriptor of S in turn.                             *)
CloseAll(s, S) ==
  LET closing == {f \in S : get_file(s, f)} IN
  [s EXCEPT !.host = [f \in Fd |-> IF f \in closing THEN "none" ELSE @[f]],
            !.hostCloexec = @ \ closing,
            !.open_fds = @ \ closing,
            !.cloexec_fds = @ \ closing]

(* Mutant of close_cloexec: only the first word of the bits is looked at.  *)
close_cloexec_first(s) == CloseAll(s, s.cloexec_fds \cap 0 .. Unit - 1)

close_cloexec(s) == CloseAll(s, s.cloexec_fds)

(* find_emptyfd: ffs takes an int, so only the low half of a word is seen. *)
EmptySlots == {f \in VkernStart .. VkernStart + FfsBits - 1 : f \notin vkern}
-----------------------------------------------------------------------------
(* init_fileinfo: the descriptors noah was started with are registered,    *)
(* rootfd moves to the first system descriptor.                            *)
Init ==
  /\ \E S \in SUBSET UserFd : \E C \in SUBSET S :
       tab = [host |-> [f \in Fd |-> IF f \in S THEN "user"
                                     ELSE IF f = VkernStart THEN "vkern" ELSE "none"],
              hostCloexec |-> C,
              size |-> Max({Unit} \cup {Rounded(f) : f \in S}),
              open_fds |-> S, cloexec_fds |-> C]
  /\ vkern = {VkernStart}
  /\ lock = NoThread
  /\ pc = [t \in Threads |-> "user"]
  /\ call = [t \in Threads |-> NoFd]
  /\ last = <<"none", FALSE>>
  /\ panic = FALSE
  /\ spoilt = FALSE

Enter(t) == pc[t] = "user" /\ lock = NoThread /\ ~panic

At(t, s) == pc[t] = s /\ ~panic

Goto(t, s, fd) == pc' = [pc EXCEPT ![t] = s] /\ call' = [call EXCEPT ![t] = fd]

Return(t) == Goto(t, "user", NoFd)

(* A call that starts while another thread is inside one, or that takes an *)
(* error path which leaks or closes too much.                              *)
Spoils(t, bad) == spoilt' = (spoilt \/ bad \/ \E u \in Threads \ {t} : pc[u] # "user")

(* A call that is over in one critical section.                            *)
Becomes(t, s, bad, op) ==
  /\ tab' = s /\ Spoils(t, bad) /\ last' = op
  /\ UNCHANGED <<vkern, lock, pc, call, panic>>

(* The new value of last, which is kept as long as nothing is spoilt.      *)
Done(ok, op, ce) == IF spoilt THEN <<"none", FALSE>> ELSE IF ok THEN <<op, ce>> ELSE last

(* user_openat.  Darwin learns of O_CLOEXEC only with O_PATH.  A number    *)
(* that cannot be registered stays open: close is given the error code.    *)
UserOpenat(t, ce, path) ==
  LET fd == HostLowest(tab, 0) IN
  /\ Enter(t) /\ fd # NoFd
  /\ Becomes(t, register_fd(HostOpen(tab, fd, "user", ce /\ path), fd, ce), ~Registers(fd),
             Done(Registers(fd), "open", ce))

(* socket, and accept once a connection has arrived.                       *)
Socket(s, fd, ce) ==
  IF Registers(fd) THEN register_fd(HostOpen(s, fd, "user", ce), fd, ce) ELSE s

SysSocket(t, ce) ==
  LET fd == HostLowest(tab, 0) IN 
  Enter(t) /\ fd # NoFd /\ Becomes(t, Socket(tab, fd, ce), FALSE, Done(Registers(fd), "open", ce))

(* accept holds the lock while it waits.                                   *)
Accept(t) ==
  /\ Enter(t)
  /\ lock' = t /\ Goto(t, "accept", NoFd)
  /\ UNCHANGED <<tab, vkern, last, panic>> /\ Spoils(t, FALSE)

(* Mutant of Accepted: an error returns with the lock held.                *)
Accepted_locked(t) ==
  LET fd == HostLowest(tab, 0) IN
  /\ At(t, "accept")
  /\ tab' = IF fd = NoFd THEN tab ELSE Socket(tab, fd, FALSE)
  /\ lock' = IF Registers(fd) THEN NoThread ELSE lock
  /\ Return(t)
  /\ last' = Done(Registers(fd), "open", FALSE)
  /\ UNCHANGED <<vkern, panic, spoilt>>

Accepted(t) ==
  LET fd == HostLowest(tab, 0) IN
  /\ At(t, "accept")
  /\ tab' = IF fd = NoFd THEN tab ELSE Socket(tab, fd, FALSE)
  /\ lock' = NoThread /\ Return(t)
  /\ last' = Done(Registers(fd), "open", FALSE)
  /\ UNCHANGED <<vkern, panic, spoilt>>

UserClose(t, fd) ==
  Enter(t) /\ Becomes(t, do_close(tab, fd), FALSE, Done(get_file(tab, fd), "close", FALSE))

(* dup2(fd, fd) changes nothing in Darwin but clears noah's cloexec bit.   *)
Dup2(t, fd1, fd2) ==
  /\ Enter(t) /\ in_userfd(fd1) /\ in_userfd(fd2) /\ tab.host[fd1] # "none"
  /\ Becomes(t, register_fd(IF fd1 = fd2 THEN tab ELSE HostOpen(tab, fd2, "user", FALSE), fd2, FALSE),
             FALSE, Done(TRUE, "dup2", FALSE))

(* dup3 does not ask in_userfd.                                            *)
Dup3(t, oldfd, newfd, ce) ==
  /\ Enter(t) /\ oldfd # newfd /\ tab.host[oldfd] # "none"
  /\ Becomes(t, IF Registers(newfd) THEN register_fd(HostOpen(tab, newfd, "user", ce), newfd, ce)
             ELSE HostClose(tab, newfd), FALSE, Done(Registers(newfd), "dup2", ce))
-----------------------------------------------------------------------------
(* The two descriptors of a pipe or a pair of sockets.                     *)
Fst == HostLowest(tab, 0)
Snd == IF Fst = NoFd THEN NoFd ELSE HostLowest(tab, Fst + 1)

PairOpen(ce) == HostOpen(HostOpen(tab, Fst, "user", ce), Snd, "user", ce)

Pair(ce) == register_fd(register_fd(PairOpen(ce), Fst, ce), Snd, ce)

(* pipe: nothing is closed when the copy to the program fails; when a      *)
(* number cannot be registered, close is given the two results instead of  *)
(* the descriptors, and a result of 0 closes descriptor 0.                 *)
Pipe(t, efault) ==
  /\ Enter(t) /\ Snd # NoFd
  /\ \/ efault /\ Becomes(t, PairOpen(FALSE), TRUE, last)
     \/ /\ ~efault
        /\ Becomes(t, IF Registers(Fst) /\ ~Registers(Snd) THEN HostClose(Pair(FALSE), 0)
                      ELSE Pair(FALSE),
                   ~Registers(Snd), Done(Registers(Snd), "pipe", FALSE))

(* pipe2: a first descriptor that was registered stays in the table when   *)
(* the second cannot be.                                                   *)
Pipe2(t, ce) ==
  /\ Enter(t) /\ Snd # NoFd
  /\ Becomes(t, IF Registers(Snd) THEN Pair(ce) ELSE HostClose(HostClose(Pair(ce), Fst), Snd),
             ~Registers(Snd), Done(Registers(Snd), "pipe", ce))

(* socketpair: on an error user_close is called with the lock held.        *)
(* Darwin answers its wrlock with EDEADLK, which is ignored, and its       *)
(* unlock gives the lock up; the unlock at the end of socketpair is one    *)
(* too many.                                                               *)
Socketpair(t, efault) ==
  /\ Enter(t) /\ Snd # NoFd
  /\ \/ ~efault /\ Registers(Snd) /\ Becomes(t, Pair(FALSE), FALSE, Done(TRUE, "pipe", FALSE))
     \/ ~Registers(Fst) /\ Becomes(t, tab, FALSE, last)
     \/ /\ Registers(Fst) /\ (efault \/ ~Registers(Snd))
        /\ tab' = LET s == do_close(Pair(FALSE), Fst) IN IF Registers(Snd) THEN s ELSE HostClose(s, Snd)
        /\ IF Registers(Snd) THEN Goto(t, "pair", Snd) ELSE Goto(t, "unlock", NoFd)
        /\ last' = Done(Registers(Snd), "half", FALSE)
        /\ UNCHANGED <<vkern, lock, panic>> /\ Spoils(t, FALSE)

PairClose(t) ==
  /\ At(t, "pair") /\ lock = NoThread
  /\ tab' = do_close(tab, call[t])
  /\ Goto(t, "unlock", NoFd)
  /\ last' = Done(get_file(tab, call[t]), "close", FALSE)
  /\ UNCHANGED <<vkern, lock, panic, spoilt>>

(* An unlock by a thread that does not hold the lock: nothing happens, or  *)
(* another thread loses it.                                                *)
StrayUnlock(t) ==
  /\ At(t, "unlock")
  /\ lock' \in {lock, NoThread}
  /\ Return(t)
  /\ UNCHANGED <<tab, vkern, last, panic, spoilt>>
-----------------------------------------------------------------------------
(* fcntl: get_file gives the lock up before the command takes it again.    *)
Fcntl(t, fd, step) ==
  /\ Enter(t) /\ step \in {"dupfd", "setfd"}
  /\ get_file(tab, fd)
  /\ Goto(t, step, fd)
  /\ UNCHANGED <<tab, vkern, lock, last, panic>> /\ Spoils(t, FALSE)

(* dup and ioctl(FIOCLEX) call sys_fcntl with the lock held.  get_file's   *)
(* rdlock is answered with EDEADLK, and its unlock gives the lock up.      *)
Nested(t, fd, step) ==
  /\ Enter(t) /\ step \in {"dup_dupfd", "ioctl_setfd"}
  /\ IF get_file(tab, fd) THEN Goto(t, step, fd) ELSE Goto(t, "unlock", NoFd)
  /\ UNCHANGED <<tab, vkern, lock, last, panic>> /\ Spoils(t, FALSE)

(* F_DUPFD and F_DUPFD_CLOEXEC of darwinfs_fcntl.                          *)
Dupfd(t, least, ce) ==
  LET fd == HostLowest(tab, least)
      ok == fd # NoFd /\ Registers(fd) /\ tab.host[call[t]] # "none"
  IN
  /\ At(t, "dupfd") \/ (At(t, "dup_dupfd") /\ least = 0 /\ ~ce)
  /\ lock = NoThread
  /\ tab' = IF ok THEN register_fd(HostOpen(tab, fd, "user", ce), fd, ce) ELSE tab
  /\ IF pc[t] = "dupfd" THEN Return(t)
     ELSE IF ok THEN Goto(t, "dup_register", fd) ELSE Goto(t, "unlock", NoFd)
  /\ last' = Done(ok, "dupfd", ce)
  /\ UNCHANGED <<vkern, lock, panic, spoilt>>

(* F_SETFD of darwinfs_fcntl.                                              *)
Setfd(t, ce) ==
  LET fd == call[t]
      ok == tab.host[fd] # "none"
  IN
  /\ At(t, "setfd") \/ (At(t, "ioctl_setfd") /\ ce)
  /\ lock = NoThread
  /\ tab' = IF ~ok THEN tab
            ELSE [tab EXCEPT !.hostCloexec = IF ce THEN @ \cup {fd} ELSE @ \ {fd},
                             !.cloexec_fds = IF ce THEN @ \cup {fd} ELSE @ \ {fd}]
  /\ IF pc[t] = "setfd" THEN Return(t)
     ELSE IF ok THEN Goto(t, "ioctl_setbit", fd) ELSE Goto(t, "unlock", NoFd)
  /\ last' = Done(ok, "setfd", ce)
  /\ UNCHANGED <<vkern, lock, panic, spoilt>>

(* dup registers the new descriptor a second time, without the lock.       *)
DupRegister(t) ==
  /\ At(t, "dup_register")
  /\ tab' = register_fd(tab, call[t], FALSE)
  /\ Goto(t, "unlock", NoFd)
  /\ UNCHANGED <<vkern, lock, last, panic, spoilt>>

(* So does ioctl(FIOCLEX) with the cloexec bit.                            *)
IoctlSetbit(t) ==
  /\ At(t, "ioctl_setbit")
  /\ tab' = [tab EXCEPT !.cloexec_fds = @ \cup {call[t]}]
  /\ Goto(t, "unlock", NoFd)
  /\ UNCHANGED <<vkern, lock, last, panic, spoilt>>
-----------------------------------------------------------------------------
(* Mutant of vkern_dup_fd: the descriptor is not moved.                    *)
vkern_dup_fd_unmoved(s, fd, slot) == HostOpen(s, slot, "user", FALSE)

(* dup2 onto a free system descriptor.                                     *)
vkern_dup_fd(s, fd, slot) == IF fd = slot THEN s ELSE HostOpen(s, slot, "vkern", FALSE)

(* vkern_openat, for execve and for utimensat: Darwin opens the file at    *)
(* the lowest free number, from where it moves to a system descriptor.     *)
VkernOpenat(t, step) ==
  LET fd == HostLowest(tab, 0) IN
  /\ Enter(t) /\ step \in {"exec", "utimens"} /\ fd # NoFd
  /\ \/ /\ EmptySlots = {} /\ panic' = TRUE /\ Spoils(t, FALSE)
        /\ UNCHANGED <<tab, vkern, lock, pc, call, last>>
     \/ /\ EmptySlots # {}
        /\ LET slot == Min(EmptySlots) IN
             /\ tab' = HostClose(vkern_dup_fd(HostOpen(tab, fd, "user", FALSE), fd, slot), fd)
             /\ vkern' = vkern \cup {slot}
             /\ Goto(t, step, slot)
        /\ Spoils(t, ~Registers(fd))
        /\ UNCHANGED <<lock, last, panic>>

(* do_exec refuses a process with several tasks, and forgets to close.     *)
ExecRefused(t) == At(t, "exec") /\ Return(t) /\ UNCHANGED <<tab, vkern, lock, last, panic, spoilt>>

(* prepare_newproc ends with close_cloexec; a file that is not regular is  *)
(* closed right away.                                                      *)
ExecProceeds(t, regular) ==
  /\ At(t, "exec") /\ lock = NoThread
  /\ tab' = IF regular THEN close_cloexec(tab) ELSE tab
  /\ Goto(t, "exec_close", call[t])
  /\ last' = Done(regular, "exec", FALSE)
  /\ UNCHANGED <<vkern, lock, panic, spoilt>>

VkernClose(t) ==
  /\ At(t, "exec_close") \/ At(t, "utimens")
  /\ lock = NoThread
  /\ tab' = HostClose(tab, call[t])
  /\ vkern' = vkern \ {call[t]}
  /\ Return(t)
  /\ UNCHANGED <<lock, last, panic, spoilt>>
-----------------------------------------------------------------------------
Kernel(t) ==
  \/ Accepted(t) \/ PairClose(t) \/ StrayUnlock(t)
  \/ \E least \in UserFd, ce \in BOOLEAN : Dupfd(t, least, ce)
  \/ \E ce \in BOOLEAN : Setfd(t, ce)
  \/ DupRegister(t) \/ IoctlSetbit(t)
  \/ ExecRefused(t) \/ (\E regular \in BOOLEAN : ExecProceeds(t, regular)) \/ VkernClose(t)

Program(t) ==
  \/ \E ce, path \in BOOLEAN : UserOpenat(t, ce, path)
  \/ \E ce \in BOOLEAN : SysSocket(t, ce) \/ Pipe2(t, ce)
  \/ \E efault \in BOOLEAN : Pipe(t, efault) \/ Socketpair(t, efault)
  \/ Accept(t)
  \/ \E fd \in UserFd : UserClose(t, fd)
  \/ \E fd1, fd2 \in UserFd : Dup2(t, fd1, fd2)
  \/ \E oldfd \in UserFd, newfd \in NewFds, ce \in BOOLEAN : Dup3(t, oldfd, newfd, ce)
  \/ \E fd \in UserFd, step \in {"dupfd", "setfd"} : Fcntl(t, fd, step)
  \/ \E fd \in UserFd, step \in {"dup_dupfd", "ioctl_setfd"} : Nested(t, fd, step)
  \/ \E step \in {"exec", "utimens"} : VkernOpenat(t, step)

Next == \E t \in Threads : Kernel(t) \/ Program(t)

Spec == Init /\ [][Next]_vars

(* The host runs every thread, its lock serves waiting threads in turn,    *)
(* and connections arrive.                                                 *)
FairSpec == Spec /\ \A t \in Threads : SF_vars(Kernel(t))
-----------------------------------------------------------------------------
(* After any sequence of calls of several threads, as long as the calls do *)
(* not overlap, the table lists exactly the descriptors Darwin has open    *)
(* below the system area, unless an error path that leaks or overcloses    *)
(* was taken; and every descriptor of the table lies inside the arrays     *)
(* that register_fd has allocated (src/src/fs/fs.c:96-131, 571-592).       *)
TableAgrees ==
  /\ ~spoilt => tab.open_fds = {fd \in UserFd : tab.host[fd] # "none"}
  /\ \A fd \in tab.open_fds \cup tab.cloexec_fds : fd < tab.size

(* The system descriptors noah believes it holds are open and its own, so  *)
(* path lookup always finds the root directory behind rootfd.              *)
SystemFdsKept == ~spoilt => \A fd \in vkern : tab.host[fd] = "vkern"

(* What the program sees of the table is Linux's behaviour.                *)
Linux == INSTANCE LinuxFds WITH NoFile <- VkernStart, open <- tab.open_fds,
                                flags <- tab.cloexec_fds, last <- last, broken <- spoilt
LinuxTable == Linux!Spec

(* No call keeps fdtable_lock for good, and every call comes to its end.   *)
CallsEnd == \A t \in Threads : pc[t] # "user" ~> pc[t] = "user" \/ panic
=============================================================================
