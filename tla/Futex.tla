-------------------------------- MODULE Futex --------------------------------
(***************************************************************************)
(* Private futexes (src/src/ipc/futex.c).                                  *)
(*                                                                         *)
(* Every futex word has a list of pfutex_entry blocks, one per waiter,     *)
(* each with a condition variable of its own.  All the lists of a process  *)
(* are protected by proc.futex_mutex; the guest's own stores to the words  *)
(* are not.  A list is modelled as the set of blocks linked on it together *)
(* with the order `ahead' between them.                                    *)
(*                                                                         *)
(* do_private_wait frees its block when it returns.  A wake unlinks the    *)
(* block first; a timeout or a spurious return of the condition variable   *)
(* does not, and leaves a freed block on the list.  What the program does  *)
(* once it touches such a block is undefined: `ub' is set and the model    *)
(* stops there.                                                            *)
(***************************************************************************)
EXTENDS Integers, FiniteSets

CONSTANTS
  Threads,          \* thread ids (positive numbers, as do_gettid returns)
  Addrs,            \* addresses of futex words
  Blocks,           \* heap blocks that can hold a pfutex_entry
  Bits,             \* bits of a bitset; FUTEX_BITSET_MATCH_ANY is all of them
  Words,            \* what the guest stores in a futex word
  FUTEX_WAITERS,    \* the flag bit of a PI futex, above all thread ids
  Commands,         \* the futex commands the guest uses
  Counts,           \* numbers of waiters the guest asks to wake; < 0 is "all"
  TimedWaits,       \* do guests give a timeout?
  SpuriousWakeups,  \* may pthread_cond_wait return without a signal?
  NoThread, NoBlock, NoAddr

ASSUME ThreadsAssumption == Threads \subseteq Nat \ {0} /\ NoThread \notin Threads
ASSUME WordsAssumption == Words \subseteq Nat /\ 0 \in Words
ASSUME WaitersAssumption ==
  /\ FUTEX_WAITERS \in Nat
  /\ \A w \in Threads \cup Words : w < FUTEX_WAITERS
ASSUME BlocksAssumption == NoBlock \notin Blocks /\ IsFiniteSet(Blocks)
ASSUME AddrsAssumption == NoAddr \notin Addrs
ASSUME CountsAssumption == Counts \subseteq Int
ASSUME FlagsAssumption == TimedWaits \in BOOLEAN /\ SpuriousWakeups \in BOOLEAN

(* Linux error numbers, and the Darwin one that FUTEX_WAIT returns.        *)
EFAULT == -14
EAGAIN == -11
EINTR == -4
EINVAL == -22
ENOSYS == -38
ETIMEDOUT == -110
EWOULDBLOCK == -35

VARIABLES
  mem,          \* the futex words
  futex_mutex,  \* holder of proc.futex_mutex
  pc,           \* where each thread is
  call,         \* arguments of the wait or requeue a thread is in
  blk,          \* the entry of a thread that waits
  ret,          \* the return, if the last step was the return of a futex call
  heap,         \* blocks that are allocated
  entry,        \* contents of the blocks: uaddr and bitset
  linked,       \* blocks that are on some list
  ahead,        \* <<b, c>>: b is before c on the same list
  signalled,    \* blocks whose condition variable has been signalled
  ub            \* the program has touched a freed block

lists == <<linked, ahead, signalled>>
thread == <<pc, call, blk>>
vars == <<mem, futex_mutex, thread, ret, heap, entry, lists, ub>>

NoCall == [uaddr |-> NoAddr, uaddr2 |-> NoAddr, bitset |-> {}, ts |-> "none",
           val |-> 0, val2 |-> 0]
Calls == [uaddr : Addrs \cup {NoAddr}, uaddr2 : Addrs \cup {NoAddr}, bitset : SUBSET Bits,
          ts : {"none", "now", "guest"}, val : Nat, val2 : Int]

NoEntry == [uaddr |-> NoAddr, bitset |-> {}]
NoReturn == [thread |-> NoThread, value |-> 0]

Init ==
  /\ mem = [a \in Addrs |-> 0]
  /\ futex_mutex = NoThread
  /\ pc = [t \in Threads |-> "user"]
  /\ call = [t \in Threads |-> NoCall]
  /\ blk = [t \in Threads |-> NoBlock]
  /\ ret = NoReturn
  /\ heap = {}
  /\ entry = [b \in Blocks |-> NoEntry]
  /\ linked = {}
  /\ ahead = {}
  /\ signalled = {}
  /\ ub = FALSE
-----------------------------------------------------------------------------
(* The lists.                                                              *)

(* pfutex_get: the entries on the list of a word.                          *)
Queue(a) == {b \in linked : entry[b].uaddr = a}

(* The entries a wake with a bitset may take.                              *)
Matching(a, use_bitset, B) ==
  {b \in Queue(a) : use_bitset => entry[b].bitset \cap B # {}}

(* The first n of the entries in S, in list order; all of them if n < 0.   *)
FirstOf(S, n) ==
  {b \in S : n < 0 \/ Cardinality({c \in S : <<c, b>> \in ahead}) < n}

(* The entries of list Q that list_for_each_safe reads when it takes the   *)
(* first n of those in S: it reads on until an entry finds the count used  *)
(* up.                                                                     *)
Walked(Q, S, n) ==
  {b \in Q : \/ n < 0
             \/ \A c \in Q : \/ <<c, b>> \notin ahead
                            \/ Cardinality({d \in S : <<d, c>> \in ahead}) < n}

(* Mutant of Dequeue: the entries are not signalled.                       *)
Dequeue_noSignal(W) ==
  /\ linked' = linked \ W
  /\ ahead' = {p \in ahead : p[1] \notin W /\ p[2] \notin W}
  /\ UNCHANGED signalled

(* Mutant of Dequeue: the entries stay on their list.                      *)
Dequeue_noDelete(W) ==
  /\ signalled' = signalled \cup W
  /\ UNCHANGED <<linked, ahead>>

(* list_del_init and pthread_cond_signal of every entry in W.              *)
Dequeue(W) ==
  /\ linked' = linked \ W
  /\ ahead' = {p \in ahead : p[1] \notin W /\ p[2] \notin W}
  /\ signalled' = signalled \cup W

(* list_add_tail of block b, filled in by do_private_wait, on list a.      *)
Enqueue(b, a, B) ==
  /\ entry' = [entry EXCEPT ![b] = [uaddr |-> a, bitset |-> B]]
  /\ linked' = linked \cup {b}
  /\ ahead' = ahead \cup {<<c, b>> : c \in Queue(a)}
  /\ signalled' = signalled \ {b}

(* The entry at the tail of a list, which list_add_tail writes to.         *)
Last(a) == {b \in Queue(a) : \A c \in Queue(a) : <<b, c>> \notin ahead}

Return(t, r) ==
  /\ pc' = [pc EXCEPT ![t] = "user"]
  /\ ret' = [thread |-> t, value |-> r]
  /\ call' = [call EXCEPT ![t] = NoCall]

(* value | FUTEX_WAITERS                                                   *)
OrWaiters(w) == IF w < FUTEX_WAITERS THEN w + FUTEX_WAITERS ELSE w
-----------------------------------------------------------------------------
(* The guest.                                                              *)

(* A store by guest code: no lock is involved.                             *)
GuestStore(t, a, w) ==
  /\ pc[t] = "user"
  /\ mem' = [mem EXCEPT ![a] = w]
  /\ ret' = NoReturn
  /\ UNCHANGED <<futex_mutex, thread, heap, entry, lists, ub>>

(* A thread enters a futex call that may need more than one step: it takes *)
(* futex_mutex and keeps it.                                               *)
Enter(t, label, c) ==
  /\ futex_mutex' = t
  /\ pc' = [pc EXCEPT ![t] = label]
  /\ call' = [call EXCEPT ![t] = c]
  /\ ret' = NoReturn
  /\ UNCHANGED <<blk, heap, entry, lists, ub>>

(* A call that is refused before it touches a list: the word or the        *)
(* timeout cannot be read, the command is unknown, val is not 1.           *)
FutexError(t) ==
  /\ pc[t] = "user" /\ futex_mutex = NoThread
  /\ \E r \in {EFAULT, ENOSYS, EINVAL} : Return(t, r)
  /\ UNCHANGED <<mem, futex_mutex, blk, heap, entry, lists, ub>>
-----------------------------------------------------------------------------
(* Waking.                                                                 *)

(* do_private_futex_wake, for FUTEX_WAKE, FUTEX_WAKE_BITSET and            *)
(* do_futex_wake: a single critical section.                               *)
FutexWake(t, a, n, use_bitset, B) ==
  /\ pc[t] = "user" /\ futex_mutex = NoThread
  /\ LET M == Matching(a, use_bitset, B)
         W == FirstOf(M, n)
     IN /\ Walked(Queue(a), M, n) \subseteq heap
        /\ Dequeue(W)
        /\ Return(t, Cardinality(W))
  /\ UNCHANGED <<mem, futex_mutex, blk, heap, entry, ub>>

(* FUTEX_WAKE_OP: the word at uaddr2 gets a new value, n entries of uaddr  *)
(* are woken and, if the comparison holds for its old value, n2 of uaddr2. *)
(* The operation and the comparison are the guest's choice, so w and cond  *)
(* are arbitrary.                                                          *)
FutexWakeOp(t, a, n, a2, n2, w, cond) ==
  /\ pc[t] = "user" /\ futex_mutex = NoThread
  /\ mem' = [mem EXCEPT ![a2] = w]
  /\ LET W  == FirstOf(Queue(a), n)
         Q2 == IF cond THEN Queue(a2) \ W ELSE {}
         W2 == FirstOf(Q2, n2)
     IN /\ Walked(Queue(a), Queue(a), n) \cup Walked(Q2, Q2, n2) \subseteq heap
        /\ Dequeue(W \cup W2)
        /\ Return(t, Cardinality(W) + Cardinality(W2))
  /\ UNCHANGED <<futex_mutex, blk, heap, entry, ub>>

(* Mutant of FutexUnlockPi: every waiter is woken.                         *)
FutexUnlockPi_all(t, a) ==
  /\ pc[t] = "user" /\ futex_mutex = NoThread
  /\ Walked(Queue(a), Queue(a), -1) \subseteq heap
  /\ Dequeue(Queue(a))
  /\ Return(t, 0)
  /\ UNCHANGED <<mem, futex_mutex, blk, heap, entry, ub>>

(* FUTEX_UNLOCK_PI: wakes one waiter; the word is left as it is.           *)
FutexUnlockPi(t, a) ==
  /\ pc[t] = "user" /\ futex_mutex = NoThread
  /\ Walked(Queue(a), Queue(a), 1) \subseteq heap
  /\ Dequeue(FirstOf(Queue(a), 1))
  /\ Return(t, 0)
  /\ UNCHANGED <<mem, futex_mutex, blk, heap, entry, ub>>
-----------------------------------------------------------------------------
(* Waiting.                                                                *)

(* The deadline in ts: none, the time of the call (FUTEX_WAIT overwrites   *)
(* the guest's timeout with the current time), or what the guest gave.     *)
WaitCall(a, a2, B, ts, v) ==
  [uaddr |-> a, uaddr2 |-> a2, bitset |-> B, ts |-> ts, val |-> v, val2 |-> 0]

Deadlines(kind) == IF TimedWaits THEN {"none", kind} ELSE {"none"}

(* Mutant of FutexWait: the word is compared before futex_mutex is taken.  *)
FutexWait_unlocked(t, a, v, ts) ==
  /\ pc[t] = "user"
  /\ mem[a] = v
  /\ pc' = [pc EXCEPT ![t] = "wait"]
  /\ call' = [call EXCEPT ![t] = WaitCall(a, NoAddr, Bits, ts, v)]
  /\ ret' = NoReturn
  /\ UNCHANGED <<mem, futex_mutex, blk, heap, entry, lists, ub>>

(* FUTEX_WAIT: the word is compared under futex_mutex.  The guest can      *)
(* still store to it before the entry is linked.                           *)
FutexWait(t, a, v, ts) ==
  /\ pc[t] = "user" /\ futex_mutex = NoThread
  /\ \/ /\ mem[a] # v
        /\ Return(t, EWOULDBLOCK)
        /\ UNCHANGED <<futex_mutex, blk, heap, entry, lists, ub>>
     \/ /\ mem[a] = v
        /\ Enter(t, "wait", WaitCall(a, NoAddr, Bits, ts, v))
  /\ UNCHANGED mem

(* FUTEX_WAIT_BITSET: no comparison is made.                               *)
FutexWaitBitset(t, a, B, ts) ==
  /\ pc[t] = "user" /\ futex_mutex = NoThread
  /\ Enter(t, "wait", WaitCall(a, NoAddr, B, ts, 0))
  /\ UNCHANGED mem

(* FUTEX_WAIT_REQUEUE_PI: no comparison; the wait is meant to end on a2.   *)
FutexWaitRequeuePi(t, a, a2, ts) ==
  /\ pc[t] = "user" /\ futex_mutex = NoThread
  /\ Enter(t, "wait", WaitCall(a, a2, Bits, ts, 0))
  /\ UNCHANGED mem

(* FUTEX_LOCK_PI: the exchange, and the return when the word was 0.        *)
FutexLockPi(t, a, ts) ==
  /\ pc[t] = "user" /\ futex_mutex = NoThread
  /\ mem' = [mem EXCEPT ![a] = t]
  /\ \/ /\ mem[a] = 0
        /\ Return(t, 0)
        /\ UNCHANGED <<futex_mutex, blk, heap, entry, lists, ub>>
     \/ /\ mem[a] # 0
        /\ Enter(t, "lock_pi", WaitCall(a, NoAddr, Bits, ts, mem[a]))

(* FUTEX_LOCK_PI: the old value is stored back, marked as contended.       *)
LockPiStore(t) ==
  /\ pc[t] = "lock_pi"
  /\ mem' = [mem EXCEPT ![call[t].uaddr] = OrWaiters(call[t].val)]
  /\ pc' = [pc EXCEPT ![t] = "wait"]
  /\ ret' = NoReturn
  /\ UNCHANGED <<futex_mutex, call, blk, heap, entry, lists, ub>>

(* do_private_wait up to pthread_cond_wait, which releases futex_mutex.    *)
WaitSleep(t) ==
  /\ pc[t] = "wait"
  /\ Last(call[t].uaddr) \subseteq heap
  /\ \E b \in Blocks \ (heap \cup linked) :
       /\ heap' = heap \cup {b}
       /\ Enqueue(b, call[t].uaddr, call[t].bitset)
       /\ blk' = [blk EXCEPT ![t] = b]
  /\ pc' = [pc EXCEPT ![t] = "asleep"]
  /\ futex_mutex' = NoThread
  /\ ret' = NoReturn
  /\ UNCHANGED <<mem, call, ub>>

(* do_private_wait from pthread_cond_wait on: futex_mutex is taken again,  *)
(* the block is freed where it is, and the call returns.  The contents of  *)
(* a freed block that no list reaches do not matter.                       *)
WaitReturn(t, r) ==
  /\ futex_mutex = NoThread
  /\ LET b == blk[t]
         requeued == call[t].uaddr2 \in {NoAddr, entry[b].uaddr}
     IN /\ Return(t, IF requeued THEN r ELSE EAGAIN)
        /\ heap' = heap \ {b}
        /\ signalled' = signalled \ {b}
        /\ entry' = IF b \in linked THEN entry ELSE [entry EXCEPT ![b] = NoEntry]
  /\ blk' = [blk EXCEPT ![t] = NoBlock]
  /\ UNCHANGED <<mem, futex_mutex, linked, ahead, ub>>

(* pthread_cond_timedwait refuses the guest's timespec at once: the block  *)
(* is linked and freed in one critical section.                            *)
WaitRefused(t) ==
  /\ pc[t] = "wait" /\ call[t].ts = "guest"
  /\ Last(call[t].uaddr) \subseteq heap
  /\ \E b \in Blocks \ (heap \cup linked) : Enqueue(b, call[t].uaddr, call[t].bitset)
  /\ Return(t, IF call[t].uaddr2 = NoAddr THEN EINTR ELSE EAGAIN)
  /\ futex_mutex' = NoThread
  /\ UNCHANGED <<mem, blk, heap, ub>>

Woken(t) ==
  /\ pc[t] = "asleep" /\ blk[t] \in signalled
  /\ WaitReturn(t, 0)

Spurious(t) ==
  /\ SpuriousWakeups
  /\ pc[t] = "asleep" /\ blk[t] \notin signalled
  /\ WaitReturn(t, 0)

(* pthread_cond_timedwait gives up; a wake can still come before the       *)
(* thread has futex_mutex again.                                           *)
Timeout(t) ==
  /\ pc[t] = "asleep" /\ call[t].ts # "none"
  /\ pc' = [pc EXCEPT ![t] = "timedout"]
  /\ ret' = NoReturn
  /\ UNCHANGED <<mem, futex_mutex, call, blk, heap, entry, lists, ub>>

TimedOut(t) ==
  /\ pc[t] = "timedout"
  /\ WaitReturn(t, ETIMEDOUT)
-----------------------------------------------------------------------------
(* Requeueing.                                                             *)

(* FUTEX_CMP_REQUEUE_PI: the comparison.                                   *)
FutexCmpRequeuePi(t, a, a2, n2, v) ==
  /\ pc[t] = "user" /\ futex_mutex = NoThread
  /\ \/ /\ mem[a] # v
        /\ Return(t, EAGAIN)
        /\ UNCHANGED <<futex_mutex, blk, heap, entry, lists, ub>>
     \/ /\ mem[a] = v
        /\ Enter(t, "requeue",
                 [NoCall EXCEPT !.uaddr = a, !.uaddr2 = a2, !.val = v, !.val2 = n2])
  /\ UNCHANGED mem

(* Mutant of Moved: list_add instead of list_add_tail.                     *)
Moved_atHead(W, M, a2) ==
  {p \in ahead : /\ p[1] \notin W /\ p[2] \notin W
                 /\ p[1] \notin M /\ p[2] \notin M}
    \cup {<<p[2], p[1]>> : p \in {q \in ahead : q[1] \in M /\ q[2] \in M}}
    \cup (M \X Queue(a2))

(* The order of the lists after the entries in W have left their list and  *)
(* those in M have been moved, one by one, to the tail of a2's.            *)
Moved(W, M, a2) ==
  {p \in ahead : /\ p[1] \notin W /\ p[2] \notin W
                 /\ p[1] \in M <=> p[2] \in M}
    \cup (Queue(a2) \X M)

(* FUTEX_CMP_REQUEUE_PI: one entry of uaddr is woken, the next n2 move, in *)
(* order, to the tail of uaddr2's list.                                    *)
Requeue(t) ==
  /\ pc[t] = "requeue"
  /\ LET a  == call[t].uaddr
         a2 == call[t].uaddr2
         W  == FirstOf(Queue(a), 1)
         Q  == Queue(a) \ W
         M  == FirstOf(Q, call[t].val2)
     IN /\ Walked(Queue(a), Queue(a), 1) \subseteq heap
        /\ Walked(Q, Q, call[t].val2) \subseteq heap
        /\ M # {} => Last(a2) \subseteq heap
        /\ entry' = [b \in Blocks |->
                       IF b \in M THEN [entry[b] EXCEPT !.uaddr = a2] ELSE entry[b]]
        /\ linked' = linked \ W
        /\ ahead' = Moved(W, M, a2)
        /\ signalled' = signalled \cup W
        /\ Return(t, Cardinality(W) + Cardinality(M))
  /\ futex_mutex' = NoThread
  /\ UNCHANGED <<mem, blk, heap, ub>>
-----------------------------------------------------------------------------
(* Undefined behaviour: a list that holds a freed block is walked or added *)
(* to, or the freed block is handed out again while it is on a list.       *)
StaleAccess(t) ==
  /\ \/ /\ pc[t] = "user" /\ futex_mutex = NoThread
        /\ \E a \in Addrs : ~(Queue(a) \subseteq heap)
     \/ /\ pc[t] = "requeue"
        /\ ~(Queue(call[t].uaddr) \cup Last(call[t].uaddr2) \subseteq heap)
     \/ /\ pc[t] = "wait"
        /\ ~(linked \subseteq heap)
  /\ ub' = TRUE
  /\ ret' = NoReturn
  /\ UNCHANGED <<mem, futex_mutex, thread, heap, entry, lists>>
-----------------------------------------------------------------------------
Syscall(t) ==
  \/ FutexError(t)
  \/ /\ "WAKE" \in Commands
     /\ \E a \in Addrs, n \in Counts : FutexWake(t, a, n, FALSE, {})
  \/ /\ "WAKE_BITSET" \in Commands
     /\ \E a \in Addrs, n \in Counts, B \in SUBSET Bits : FutexWake(t, a, n, TRUE, B)
  \/ /\ "WAKE_OP" \in Commands
     /\ \E a, a2 \in Addrs, n, n2 \in Counts, w \in Words, cond \in BOOLEAN :
          FutexWakeOp(t, a, n, a2, n2, w, cond)
  \/ /\ "WAIT" \in Commands
     /\ \E a \in Addrs, v \in Words, ts \in Deadlines("now") : FutexWait(t, a, v, ts)
  \/ /\ "WAIT_BITSET" \in Commands
     /\ \E a \in Addrs, B \in SUBSET Bits, ts \in Deadlines("guest") :
          FutexWaitBitset(t, a, B, ts)
  \/ /\ "WAIT_REQUEUE_PI" \in Commands
     /\ \E a, a2 \in Addrs, ts \in Deadlines("guest") :
          FutexWaitRequeuePi(t, a, a2, ts)
  \/ /\ "CMP_REQUEUE_PI" \in Commands
     /\ \E a, a2 \in Addrs, n2 \in Counts, v \in Words :
          a # a2 /\ FutexCmpRequeuePi(t, a, a2, n2, v)
  \/ /\ "LOCK_PI" \in Commands
     /\ \E a \in Addrs, ts \in Deadlines("guest") : FutexLockPi(t, a, ts)
  \/ /\ "LOCK_PI" \in Commands
     /\ \E a \in Addrs : FutexUnlockPi(t, a)

Step(t) ==
  \/ LockPiStore(t)
  \/ WaitSleep(t)
  \/ WaitRefused(t)
  \/ Requeue(t)
  \/ Woken(t)
  \/ Spurious(t)
  \/ Timeout(t)
  \/ TimedOut(t)
  \/ StaleAccess(t)

Next ==
  /\ ~ub
  /\ \E t \in Threads :
       \/ \E a \in Addrs, w \in Words : GuestStore(t, a, w)
       \/ Syscall(t)
       \/ Step(t)

Spec == Init /\ [][Next]_vars
-----------------------------------------------------------------------------
(* Properties.                                                             *)

(* Every variable has its type.                                            *)
TypeOK ==
  /\ mem \in [Addrs -> Nat]
  /\ futex_mutex \in Threads \cup {NoThread}
  /\ pc \in [Threads -> {"user", "wait", "lock_pi", "requeue", "asleep", "timedout"}]
  /\ call \in [Threads -> Calls]
  /\ blk \in [Threads -> Blocks \cup {NoBlock}]
  /\ ret \in [thread : Threads \cup {NoThread}, value : Int]
  /\ heap \subseteq Blocks
  /\ entry \in [Blocks -> [uaddr : Addrs \cup {NoAddr}, bitset : SUBSET Bits]]
  /\ linked \subseteq Blocks
  /\ ahead \subseteq Blocks \X Blocks
  /\ signalled \subseteq Blocks
  /\ ub \in BOOLEAN

(* A thread that sleeps in do_private_wait and has not been signalled is   *)
(* on a list, through a block that is allocated and that no other sleeper  *)
(* uses: whatever wakes, requeues and timeouts of other threads do to the  *)
(* lists, the waiter can still be found by a wake.                         *)
SleepersQueued ==
  \A t \in Threads : pc[t] = "asleep" =>
    /\ blk[t] \in heap
    /\ blk[t] \in linked \cup signalled
    /\ \A u \in Threads : blk[u] = blk[t] => u = t

(* Conversely every entry of a list is the live block of a thread that     *)
(* sleeps and has not been signalled: a wake never counts an entry nobody  *)
(* waits on.                                                               *)
EntriesAwaited ==
  \A b \in linked : /\ b \in heap \ signalled
                    /\ \E t \in Threads : pc[t] = "asleep" /\ blk[t] = b

(* No list operation touches a block that do_private_wait has freed.       *)
NoUseAfterFree == ~ub
=============================================================================
