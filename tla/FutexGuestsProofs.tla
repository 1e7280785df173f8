-------------------------- MODULE FutexGuestsProofs --------------------------
(***************************************************************************)
(* Proofs about guest threads that synchronise through futexes, for any    *)
(* number of threads: words that are waited for (FutexSync), a PI lock     *)
(* (FutexPi), and both at once, through the one futex_mutex and the one    *)
(* table of lists (FutexGuests).                                           *)
(*                                                                         *)
(* The two protocols keep out of each other's way because a wake of a word *)
(* takes entries of its own list only, an entry is always on the list of   *)
(* the word its sleeper passed, and the lock is none of the words that are *)
(* waited for.                                                             *)
(***************************************************************************)
EXTENDS FutexGuests, FutexProofs


(* Every step of the guests is a step of the futex calls.                  *)
LEMMA SyncStepIsStep == EntryInv /\ [SyncNext]_svars => [Next]_vars
<1> SUFFICES ASSUME EntryInv, [SyncNext]_svars PROVE [Next]_vars
  OBVIOUS
<1>0. ~ub
  BY DEF EntryInv
<1>1. ASSUME NEW t \in Threads, NEW a \in Addrs, NEW w \in Words, Post(t, a, w)
      PROVE Next
  BY <1>0, <1>1 DEF Post, Next
<1>2. ASSUME NEW t \in Threads, NEW a \in Addrs, NEW w \in Words, Await(t, a, w)
      PROVE Next
  <2>1. "none" \in Deadlines("now")
    BY DEF Deadlines
  <2>2. Syscall(t)
    BY <1>2, <2>1, SyncAssumption DEF Await, Syscall
  <2> QED
    BY <1>0, <2>2 DEF Next
<1>3. ASSUME NEW t \in Threads, Notify(t) PROVE Next
  <2>1. Syscall(t)
    BY <1>3, SyncAssumption DEF Notify, Syscall
  <2> QED
    BY <1>0, <2>1 DEF Next
<1>4. ASSUME NEW t \in Threads, Proceed(t) PROVE Next
  BY <1>0, <1>4 DEF Proceed, Next, Step
<1> QED
  BY <1>1, <1>2, <1>3, <1>4, SyncAssumption DEF SyncNext, svars

(* The inductive invariant: NoLostWakeup, that a thread between the        *)
(* comparison and its sleep has futex_mutex, and that an unsignalled       *)
(* sleeper is on the list of the word it passed.                           *)
LostInv ==
  /\ EntryInv
  /\ owes \in [Threads -> Addrs \cup {NoAddr}]
  /\ \A t \in Threads : pc[t] = "wait" => futex_mutex = t
  /\ \A t \in Threads : Committed(t) => call[t].uaddr \in Addrs
  /\ \A t \in Threads : pc[t] = "asleep" /\ blk[t] \notin signalled
       => blk[t] \in linked /\ entry[blk[t]].uaddr = call[t].uaddr
  /\ NoLostWakeup

LEMMA LostInit == SyncInit => LostInv
  BY EntryInit, ThreadsAssumption DEF SyncInit, Init, LostInv, Committed, NoLostWakeup

LEMMA LostStep == LostInv /\ [SyncNext]_svars => LostInv'
<1> SUFFICES ASSUME LostInv, [SyncNext]_svars PROVE LostInv'
  OBVIOUS
<1>0. /\ EntryInv /\ EntryInv' /\ TypeOK
      /\ \A t, u \in Threads : blk[t] = blk[u] /\ blk[t] # NoBlock => t = u
      /\ \A t \in Threads : pc[t] = "asleep" => blk[t] \in heap
      /\ linked \subseteq heap
  BY SyncStepIsStep, EntryStep, SyncAssumption
     DEF LostInv, Untimed, EntryInv, SleepInv, Sleeping, EntriesAwaited
<1>1. ASSUME NEW t \in Threads, NEW a \in Addrs, NEW w \in Words, Post(t, a, w)
      PROVE LostInv'
  <2>1. owes' = [owes EXCEPT ![t] = a] /\ mem' = [mem EXCEPT ![a] = w]
        /\ UNCHANGED <<pc, call, blk, futex_mutex, linked, signalled, entry>>
    BY <1>1 DEF Post, GuestStore, thread, lists
  <2>2. owes[t] = NoAddr
    BY <1>1 DEF Post
  <2>3. NoLostWakeup'
    BY <1>0, <2>1, <2>2, AddrsAssumption DEF NoLostWakeup, LostInv, Committed, TypeOK
  <2> QED
    BY <1>0, <2>1, <2>3 DEF LostInv, Committed
<1>2. ASSUME NEW t \in Threads, NEW a \in Addrs, NEW v \in Words, Await(t, a, v)
      PROVE LostInv'
  <2>0. pc[t] = "user" /\ UNCHANGED <<mem, owes, blk, linked, signalled, entry>>
    BY <1>2 DEF Await, FutexWait, Enter, lists
  <2>1. CASE mem[a] # v
    <3>1. pc' = [pc EXCEPT ![t] = "user"] /\ call' = [call EXCEPT ![t] = NoCall]
          /\ UNCHANGED futex_mutex
      BY <1>2, <2>1 DEF Await, FutexWait, Return
    <3>2. \A u \in Threads : pc'[u] = pc[u] /\ (u # t => call'[u] = call[u])
      BY <1>0, <2>0, <3>1 DEF TypeOK
    <3>3. \A u \in Threads : Committed(u)' => Committed(u) /\ u # t
      BY <2>0, <3>2 DEF Committed
    <3> QED
      BY <1>0, <2>0, <3>1, <3>2, <3>3 DEF LostInv, NoLostWakeup
  <2>2. CASE mem[a] = v
    <3>1. /\ pc' = [pc EXCEPT ![t] = "wait"]
          /\ call' = [call EXCEPT ![t] = WaitCall(a, NoAddr, Bits, "none", v)]
          /\ futex_mutex = NoThread /\ futex_mutex' = t
      BY <1>2, <2>2 DEF Await, FutexWait, Enter
    <3>2. \A u \in Threads : u # t => pc'[u] = pc[u] /\ call'[u] = call[u]
      BY <1>0, <3>1 DEF TypeOK
    <3>3. call'[t].uaddr = a /\ call'[t].val = v /\ pc'[t] = "wait"
      BY <1>0, <3>1 DEF TypeOK, WaitCall
    <3>4. \A u \in Threads : Committed(u)' => u = t \/ Committed(u)
      BY <2>0, <3>2 DEF Committed
    <3>5. NoLostWakeup'
      BY <2>0, <2>2, <3>2, <3>3, <3>4 DEF LostInv, NoLostWakeup
    <3>6. \A u \in Threads : pc'[u] = "wait" => futex_mutex' = u
      BY <3>1, <3>2, ThreadsAssumption DEF LostInv
    <3>7. \A u \in Threads : Committed(u)' => call'[u].uaddr \in Addrs
      BY <3>2, <3>3, <3>4 DEF LostInv
    <3>8. \A u \in Threads : pc'[u] = "asleep" => u # t
      BY <3>3
    <3> QED
      BY <1>0, <2>0, <3>2, <3>5, <3>6, <3>7, <3>8 DEF LostInv
  <2> QED
    BY <2>1, <2>2
<1>3. ASSUME NEW t \in Threads, Notify(t) PROVE LostInv'
  <2> DEFINE a == owes[t]
             W == FirstOf(Matching(a, FALSE, {}), -1)
  <2>1. W = Queue(a)
    BY DEF FirstOf, Matching, Queue
  <2>2. /\ pc[t] = "user" /\ futex_mutex = NoThread
        /\ pc' = [pc EXCEPT ![t] = "user"] /\ call' = [call EXCEPT ![t] = NoCall]
        /\ linked' = linked \ W /\ signalled' = signalled \cup W
        /\ owes' = [owes EXCEPT ![t] = NoAddr]
        /\ UNCHANGED <<mem, futex_mutex, blk, entry>>
    BY <1>3 DEF Notify, FutexWake, Dequeue, Return
  <2>3. \A u \in Threads : pc'[u] = pc[u] /\ (u # t => call'[u] = call[u] /\ owes'[u] = owes[u])
    BY <1>0, <2>2 DEF TypeOK, LostInv
  <2>4. \A u \in Threads : pc[u] # "wait"
    BY <2>2, ThreadsAssumption DEF LostInv
  <2>5. \A u \in Threads : Committed(u)' => /\ Committed(u) /\ u # t
                                            /\ blk[u] \notin Queue(a)
                                            /\ call[u].uaddr # a
    <3> SUFFICES ASSUME NEW u \in Threads, Committed(u)'
                 PROVE /\ Committed(u) /\ u # t
                       /\ blk[u] \notin Queue(a) /\ call[u].uaddr # a
      OBVIOUS
    <3>1. pc[u] = "asleep" /\ blk[u] \notin signalled /\ blk[u] \notin W
      BY <2>2, <2>3, <2>4 DEF Committed
    <3> QED
      BY <2>1, <2>2, <3>1 DEF Committed, LostInv, Queue
  <2>6. NoLostWakeup'
    BY <2>2, <2>3, <2>5 DEF NoLostWakeup, LostInv
  <2>7. \A u \in Threads : Committed(u)' => call'[u].uaddr \in Addrs
    BY <2>3, <2>5 DEF LostInv
  <2>8. \A u \in Threads : pc'[u] = "asleep" /\ blk'[u] \notin signalled'
          => blk'[u] \in linked' /\ entry'[blk'[u]].uaddr = call'[u].uaddr
    <3> SUFFICES ASSUME NEW u \in Threads, pc'[u] = "asleep", blk'[u] \notin signalled'
                 PROVE  blk'[u] \in linked' /\ entry'[blk'[u]].uaddr = call'[u].uaddr
      OBVIOUS
    <3>1. pc[u] = "asleep" /\ blk[u] \notin signalled /\ blk[u] \notin W
      BY <2>2, <2>3
    <3>2. blk[u] \in linked /\ entry[blk[u]].uaddr = call[u].uaddr
      BY <3>1 DEF LostInv
    <3>3. u # t
      BY <3>1, <2>2
    <3> QED
      BY <3>1, <3>2, <3>3, <2>2, <2>3
  <2>9. owes' \in [Threads -> Addrs \cup {NoAddr}]
    BY <2>2 DEF LostInv
  <2> QED
    BY <1>0, <2>2, <2>3, <2>4, <2>6, <2>7, <2>8, <2>9 DEF LostInv
<1>4. ASSUME NEW t \in Threads, WaitSleep(t), UNCHANGED owes PROVE LostInv'
  <2>1. PICK b \in Blocks \ (heap \cup linked) :
          /\ linked' = linked \cup {b} /\ signalled' = signalled \ {b}
          /\ entry' = [entry EXCEPT ![b] = [uaddr |-> call[t].uaddr, bitset |-> call[t].bitset]]
          /\ blk' = [blk EXCEPT ![t] = b]
    BY <1>4 DEF WaitSleep, Enqueue
  <2>2. /\ pc[t] = "wait" /\ pc' = [pc EXCEPT ![t] = "asleep"]
        /\ UNCHANGED <<mem, call>>
    BY <1>4 DEF WaitSleep
  <2>3. \A u \in Threads : u # t => pc'[u] = pc[u] /\ blk'[u] = blk[u] /\ pc[u] # "wait"
    BY <1>0, <2>1, <2>2 DEF TypeOK, LostInv
  <2>4. pc'[t] = "asleep" /\ blk'[t] = b
    BY <1>0, <2>1, <2>2 DEF TypeOK
  <2>5. \A u \in Threads : u # t /\ pc[u] = "asleep" => blk[u] # b
    BY <1>0, <2>1
  <2>6. \A u \in Threads : Committed(u)' <=> Committed(u)
    BY <2>1, <2>2, <2>3, <2>4, <2>5 DEF Committed
  <2>7. NoLostWakeup'
    BY <1>4, <2>2, <2>6 DEF NoLostWakeup, LostInv
  <2>8. \A u \in Threads : pc'[u] = "asleep" /\ blk'[u] \notin signalled'
          => blk'[u] \in linked' /\ entry'[blk'[u]].uaddr = call'[u].uaddr
    <3>1. entry'[b].uaddr = call[t].uaddr
      BY <1>0, <2>1 DEF TypeOK
    <3>2. \A c \in Blocks : c # b => entry'[c] = entry[c]
      BY <1>0, <2>1 DEF TypeOK
    <3>3. \A u \in Threads : pc[u] = "asleep" => blk[u] \in Blocks
      BY <1>0 DEF TypeOK
    <3> QED
      BY <3>1, <3>2, <3>3, <2>1, <2>2, <2>3, <2>4, <2>5 DEF LostInv
  <2>9. \A u \in Threads : pc'[u] # "wait"
    BY <2>3, <2>4
  <2> QED
    BY <1>0, <1>4, <2>2, <2>6, <2>7, <2>8, <2>9 DEF LostInv
<1>5. ASSUME NEW t \in Threads, Woken(t), UNCHANGED owes PROVE LostInv'
  <2>1. /\ pc[t] = "asleep" /\ blk[t] \in signalled
        /\ pc' = [pc EXCEPT ![t] = "user"] /\ call' = [call EXCEPT ![t] = NoCall]
        /\ blk' = [blk EXCEPT ![t] = NoBlock] /\ signalled' = signalled \ {blk[t]}
        /\ entry' = IF blk[t] \in linked THEN entry ELSE [entry EXCEPT ![blk[t]] = NoEntry]
        /\ UNCHANGED <<mem, futex_mutex, linked>>
    BY <1>5 DEF Woken, WaitReturn, Return
  <2>2. \A u \in Threads : u # t => pc'[u] = pc[u] /\ blk'[u] = blk[u] /\ call'[u] = call[u]
    BY <1>0, <2>1 DEF TypeOK
  <2>3. pc'[t] = "user"
    BY <1>0, <2>1 DEF TypeOK
  <2>4. \A u \in Threads : u # t /\ pc[u] = "asleep" => blk[u] # blk[t]
    BY <1>0, <2>1, BlocksAssumption DEF TypeOK
  <2>5. \A u \in Threads : Committed(u)' => Committed(u) /\ u # t
    BY <2>1, <2>2, <2>3, <2>4 DEF Committed
  <2>6. NoLostWakeup'
    BY <1>5, <2>1, <2>2, <2>5 DEF NoLostWakeup, LostInv
  <2>7. \A u \in Threads : pc'[u] = "asleep" /\ blk'[u] \notin signalled'
          => blk'[u] \in linked' /\ entry'[blk'[u]].uaddr = call'[u].uaddr
    <3>1. \A c \in Blocks : c # blk[t] => entry'[c] = entry[c]
      BY <1>0, <2>1 DEF TypeOK
    <3>2. \A u \in Threads : pc[u] = "asleep" => blk[u] \in Blocks
      BY <1>0 DEF TypeOK
    <3> QED
      BY <3>1, <3>2, <2>1, <2>2, <2>3, <2>4 DEF LostInv
  <2> QED
    BY <1>0, <1>5, <2>1, <2>2, <2>3, <2>5, <2>6, <2>7 DEF LostInv
<1>6. CASE UNCHANGED svars
  BY <1>0, <1>6 DEF svars, vars, thread, lists, LostInv, Committed, NoLostWakeup
<1> QED
  BY <1>1, <1>2, <1>3, <1>4, <1>5, <1>6, SyncAssumption DEF SyncNext, Proceed

(* No wake-up is lost between the comparison of FUTEX_WAIT and             *)
(* pthread_cond_wait, for any number of threads, words and stores          *)
(* (src/src/ipc/futex.c:119-138, 43-61).                                   *)
THEOREM WakeupsAreNotLost == SyncSpec => []NoLostWakeup
<1>1. LostInv => NoLostWakeup
  BY DEF LostInv
<1> QED
  BY <1>1, LostInit, LostStep, PTL DEF SyncSpec
-----------------------------------------------------------------------------

(* Every step of the guests is a step of the futex calls.                  *)
LEMMA PiStepIsStep == EntryInv /\ [PiNext]_pvars => [Next]_vars
<1> SUFFICES ASSUME EntryInv, [PiNext]_pvars PROVE [Next]_vars
  OBVIOUS
<1>0. ~ub /\ 0 \in Words
  BY WordsAssumption DEF EntryInv
<1>1. ASSUME NEW t \in Threads, FastLock(t) \/ FastUnlock(t) PROVE Next
  BY <1>0, <1>1, LockAssumption DEF FastLock, FastUnlock, Next
<1>2. ASSUME NEW t \in Threads, SlowLock(t) PROVE Next
  <2>1. "none" \in Deadlines("guest")
    BY DEF Deadlines
  <2>2. Syscall(t)
    BY <1>2, <2>1, LockAssumption DEF SlowLock, Syscall
  <2> QED
    BY <1>0, <2>2 DEF Next
<1>3. ASSUME NEW t \in Threads, SlowUnlock(t) PROVE Next
  <2>1. Syscall(t)
    BY <1>3, LockAssumption DEF SlowUnlock, Syscall
  <2> QED
    BY <1>0, <2>1 DEF Next
<1>4. ASSUME NEW t \in Threads, LockPiStore(t) \/ WaitSleep(t) \/ Granted(t) PROVE Next
  BY <1>0, <1>4 DEF Granted, Next, Step
<1>5. ASSUME NEW t \in Threads, FastUnlockFails(t) PROVE UNCHANGED vars
  BY <1>5 DEF FastUnlockFails
<1> QED
  BY <1>1, <1>2, <1>3, <1>4, <1>5 DEF PiNext, pvars

(* Every two entries of a list are ordered.                                *)
TotalLists ==
  \A b, c \in linked :
    b # c /\ entry[b].uaddr = entry[c].uaddr => <<b, c>> \in ahead \/ <<c, b>> \in ahead

(* The threads that have the lock or are about to return with it.  The     *)
(* guests of FutexPi sleep on no other word, so these are the Holders.     *)
Owners ==
  {t \in Threads : \/ guest[t] \in {"holds", "unlocking"}
                   \/ pc[t] = "asleep" /\ blk[t] \in signalled}

OwnersAlone == \A t, u \in Owners : t = u

(* The inductive invariant.  While a thread is between the two writes of   *)
(* FUTEX_LOCK_PI the word names that thread, so that no other thread's     *)
(* compare-and-swap can succeed; a word that is 0 has no holder; and the   *)
(* lists are ordered, so that FUTEX_UNLOCK_PI wakes at most one thread.    *)
PiInv ==
  /\ EntryInv
  /\ TotalLists
  /\ guest \in [Threads -> {"idle", "holds", "unlocking"}]
  /\ \A t \in Threads : guest[t] # "idle" => pc[t] = "user"
  /\ \A t \in Threads : pc[t] \in {"lock_pi", "wait"} => futex_mutex = t
  /\ \A t \in Threads : pc[t] = "lock_pi" =>
       mem[Lock] = t /\ call[t].uaddr = Lock /\ call[t].val # 0
  /\ mem[Lock] = 0 => Owners = {}
  /\ OwnersAlone

(* The first entry of a list that is ordered.                              *)
LEMMA FirstIsUnique ==
  ASSUME TypeOK, TotalLists, NEW a, NEW b \in FirstOf(Queue(a), 1), NEW c \in FirstOf(Queue(a), 1)
  PROVE  b = c
<1>1. ASSUME NEW d \in FirstOf(Queue(a), 1), NEW e \in Queue(a) PROVE <<e, d>> \notin ahead
  <2> DEFINE P == {f \in Queue(a) : <<f, d>> \in ahead}
  <2>1. Cardinality(P) < 1
    BY <1>1 DEF FirstOf
  <2>2. IsFiniteSet(P)
    BY BlocksAssumption, FS_Subset DEF Queue, TypeOK
  <2>3. P = {}
    <3>1. Cardinality(P) \in Nat
      BY <2>2, FS_CardinalityType
    <3>2. Cardinality(P) = 0
      BY <2>1, <3>1
    <3> QED
      BY <2>2, <3>2, FS_EmptySet
  <2> QED
    BY <2>3
<1>2. b \in Queue(a) /\ c \in Queue(a)
  BY DEF FirstOf
<1> QED
  BY <1>1, <1>2 DEF TotalLists, Queue

LEMMA PiInitInv == PiInit => PiInv
<1> SUFFICES ASSUME PiInit PROVE PiInv
  OBVIOUS
<1>1. EntryInv
  BY EntryInit DEF PiInit
<1>2. Owners = {}
  BY DEF PiInit, Init, Owners
<1> QED
  BY <1>1, <1>2 DEF PiInit, Init, PiInv, TotalLists, OwnersAlone

LEMMA PiStep == PiInv /\ [PiNext]_pvars => PiInv'
<1> SUFFICES ASSUME PiInv, [PiNext]_pvars PROVE PiInv'
  OBVIOUS
<1>0. /\ EntryInv /\ EntryInv' /\ TypeOK /\ TotalLists
      /\ \A t, u \in Threads : blk[t] = blk[u] /\ blk[t] # NoBlock => t = u
      /\ \A t \in Threads : pc[t] = "asleep" => blk[t] \in heap
      /\ linked \cap signalled = {}
      /\ mem \in [Addrs -> Nat] /\ Lock \in Addrs /\ 0 \notin Threads
      /\ NoThread \notin Threads
  <2>1. EntryInv /\ TotalLists
    BY DEF PiInv
  <2>2. EntryInv'
    BY <2>1, PiStepIsStep, EntryStep, LockAssumption DEF Untimed
  <2>3. SleepInv /\ EntriesAwaited /\ TypeOK
    BY <2>1 DEF EntryInv, SleepInv
  <2>4. /\ \A t, u \in Threads : blk[t] = blk[u] /\ blk[t] # NoBlock => t = u
        /\ \A t \in Threads : pc[t] = "asleep" => blk[t] \in heap
    BY <2>3 DEF SleepInv, Sleeping
  <2>5. linked \cap signalled = {}
    BY <2>3 DEF EntriesAwaited
  <2>6. mem \in [Addrs -> Nat]
    BY <2>3 DEF TypeOK
  <2> QED
    BY <2>1, <2>2, <2>3, <2>4, <2>5, <2>6, LockAssumption, ThreadsAssumption
<1>1. ASSUME NEW t \in Threads, FastLock(t) PROVE PiInv'
  <2>1. /\ guest[t] = "idle" /\ mem[Lock] = 0 /\ pc[t] = "user"
        /\ mem' = [mem EXCEPT ![Lock] = t] /\ guest' = [guest EXCEPT ![t] = "holds"]
        /\ UNCHANGED <<pc, call, blk, futex_mutex, linked, signalled, ahead, entry>>
    BY <1>1 DEF FastLock, Becomes, GuestStore, thread, lists
  <2>2. Owners = {} /\ mem'[Lock] # 0
    BY <1>0, <2>1 DEF PiInv
  <2>3. Owners' \subseteq {t}
    BY <2>1, <2>2 DEF Owners, PiInv
  <2>4. \A u \in Threads : pc[u] # "lock_pi"
    BY <1>0, <2>1 DEF PiInv
  <2> QED
    BY <1>0, <2>1, <2>2, <2>3, <2>4 DEF PiInv, OwnersAlone, TotalLists
<1>2. ASSUME NEW t \in Threads, SlowLock(t) PROVE PiInv'
  <2>0. /\ guest[t] = "idle" /\ pc[t] = "user" /\ futex_mutex = NoThread
        /\ mem' = [mem EXCEPT ![Lock] = t]
        /\ UNCHANGED <<blk, linked, signalled, ahead, entry>>
    BY <1>2 DEF SlowLock, FutexLockPi, Enter, lists
  <2>1. \A u \in Threads : pc[u] \notin {"lock_pi", "wait"}
    BY <1>0, <2>0 DEF PiInv
  <2>2. mem'[Lock] = t /\ t # 0
    BY <1>0, <2>0
  <2>3. CASE mem[Lock] = 0
    <3>1. /\ pc' = [pc EXCEPT ![t] = "user"] /\ UNCHANGED futex_mutex
          /\ guest' = [guest EXCEPT ![t] = "holds"]
      BY <1>2, <2>3 DEF SlowLock, FutexLockPi, Return, Becomes
    <3>2. pc' = pc
      BY <1>0, <2>0, <3>1 DEF TypeOK
    <3>3. Owners' \subseteq {t}
      BY <2>0, <2>3, <3>1, <3>2 DEF Owners, PiInv
    <3> QED
      BY <1>0, <2>0, <2>1, <2>2, <3>1, <3>2, <3>3 DEF PiInv, OwnersAlone, TotalLists
  <2>4. CASE mem[Lock] # 0
    <3>1. /\ pc' = [pc EXCEPT ![t] = "lock_pi"] /\ futex_mutex' = t
          /\ call' = [call EXCEPT ![t] = WaitCall(Lock, NoAddr, Bits, "none", mem[Lock])]
          /\ guest' = [guest EXCEPT ![t] = "idle"]
      BY <1>2, <2>4 DEF SlowLock, FutexLockPi, Enter, Becomes
    <3>2. /\ \A u \in Threads : u # t => pc'[u] = pc[u]
          /\ pc'[t] = "lock_pi" /\ call'[t].uaddr = Lock /\ call'[t].val # 0
      BY <1>0, <2>4, <3>1 DEF TypeOK, WaitCall
    <3>3. guest' = guest
      BY <2>0, <3>1 DEF PiInv
    <3>4. Owners' = Owners
      BY <2>0, <3>2, <3>3 DEF Owners
    <3>5. \A u \in Threads : pc'[u] \in {"lock_pi", "wait"} => u = t
      BY <2>1, <3>2
    <3>6. \A u \in Threads : guest'[u] # "idle" => pc'[u] = "user"
      BY <2>0, <3>2, <3>3 DEF PiInv
    <3> QED
      BY <1>0, <2>0, <2>2, <3>1, <3>2, <3>3, <3>4, <3>5, <3>6
         DEF PiInv, OwnersAlone, TotalLists
  <2> QED
    BY <2>3, <2>4
<1>3. ASSUME NEW t \in Threads, LockPiStore(t), UNCHANGED guest PROVE PiInv'
  <2>1. /\ pc[t] = "lock_pi" /\ pc' = [pc EXCEPT ![t] = "wait"]
        /\ mem' = [mem EXCEPT ![call[t].uaddr] = OrWaiters(call[t].val)]
        /\ UNCHANGED <<futex_mutex, call, blk, entry, linked, signalled, ahead>>
    BY <1>3 DEF LockPiStore, lists
  <2>2. mem'[Lock] # 0
    <3>1. call[t].val \in Nat /\ call[t].val # 0 /\ call[t].uaddr = Lock
      BY <1>0, <2>1 DEF PiInv, TypeOK, Calls
    <3>2. OrWaiters(call[t].val) # 0
      BY <3>1, WaitersAssumption DEF OrWaiters
    <3> QED
      BY <1>0, <2>1, <3>1, <3>2
  <2>3. \A u \in Threads : /\ pc'[t] = "wait"
                           /\ u # t => pc'[u] = pc[u] /\ pc[u] \notin {"lock_pi", "wait"}
    BY <1>0, <2>1 DEF TypeOK, PiInv
  <2>4. Owners' = Owners
    BY <1>3, <2>1, <2>3 DEF Owners
  <2>5. \A u \in Threads : guest'[u] # "idle" => pc'[u] = "user"
    BY <1>3, <2>1, <2>3 DEF PiInv
  <2> QED
    BY <1>0, <1>3, <2>1, <2>2, <2>3, <2>4, <2>5 DEF PiInv, OwnersAlone, TotalLists
<1>4. ASSUME NEW t \in Threads, WaitSleep(t), UNCHANGED guest PROVE PiInv'
  <2>1. PICK b \in Blocks \ (heap \cup linked) :
          /\ linked' = linked \cup {b} /\ signalled' = signalled \ {b}
          /\ entry' = [entry EXCEPT ![b] = [uaddr |-> call[t].uaddr, bitset |-> call[t].bitset]]
          /\ ahead' = ahead \cup {<<c, b>> : c \in Queue(call[t].uaddr)}
          /\ blk' = [blk EXCEPT ![t] = b]
    BY <1>4 DEF WaitSleep, Enqueue
  <2>2. /\ pc[t] = "wait" /\ pc' = [pc EXCEPT ![t] = "asleep"]
        /\ UNCHANGED <<mem, call>>
    BY <1>4 DEF WaitSleep
  <2>3. /\ pc'[t] = "asleep" /\ blk'[t] = b
        /\ \A u \in Threads : u # t => /\ pc'[u] = pc[u] /\ blk'[u] = blk[u]
                                       /\ pc[u] \notin {"lock_pi", "wait"}
    <3>1. /\ pc \in [Threads -> {"user", "wait", "lock_pi", "requeue", "asleep", "timedout"}]
          /\ blk \in [Threads -> Blocks \cup {NoBlock}]
      BY <1>0 DEF TypeOK
    <3>2. /\ pc'[t] = "asleep" /\ blk'[t] = b
          /\ \A u \in Threads : u # t => pc'[u] = pc[u] /\ blk'[u] = blk[u]
      BY <2>1, <2>2, <3>1
    <3>3. \A u \in Threads : u # t => pc[u] \notin {"lock_pi", "wait"}
      BY <2>2 DEF PiInv
    <3> QED
      BY <3>2, <3>3
  <2>4. \A u \in Threads : u # t /\ pc[u] = "asleep" => blk[u] # b
    <3>1. b \notin heap
      BY <2>1
    <3> QED
      BY <1>0, <3>1
  <2>5. Owners' = Owners
    BY <1>4, <2>1, <2>2, <2>3, <2>4 DEF Owners
  <2>6. TotalLists'
    <3>1. entry'[b].uaddr = call[t].uaddr
      BY <1>0, <2>1 DEF TypeOK
    <3>2. \A c \in linked : c # b /\ entry'[c] = entry[c]
      BY <1>0, <2>1 DEF TypeOK
    <3> QED
      <4>1. linked' = linked \cup {b} /\ ahead \subseteq ahead'
        BY <2>1
      <4>2. \A c \in linked : entry[c].uaddr = call[t].uaddr => <<c, b>> \in ahead'
        BY <2>1 DEF Queue
      <4>3. ASSUME NEW c \in linked, NEW d \in linked, c # d, entry'[c].uaddr = entry'[d].uaddr
            PROVE  <<c, d>> \in ahead' \/ <<d, c>> \in ahead'
        BY <1>0, <3>2, <4>1, <4>3 DEF TotalLists
      <4>4. \A c \in linked : entry'[c].uaddr = entry'[b].uaddr => <<c, b>> \in ahead'
        BY <3>1, <3>2, <4>2
      <4> QED
        BY <4>1, <4>3, <4>4 DEF TotalLists
  <2>7. \A u \in Threads : guest'[u] # "idle" => pc'[u] = "user"
    BY <1>4, <2>2, <2>3 DEF PiInv
  <2>8. \A u \in Threads : pc'[u] \notin {"lock_pi", "wait"}
    BY <2>3
  <2> QED
    BY <1>0, <1>4, <2>2, <2>5, <2>6, <2>7, <2>8 DEF PiInv, OwnersAlone
<1>5. ASSUME NEW t \in Threads, Granted(t) PROVE PiInv'
  <2>1. /\ pc[t] = "asleep" /\ blk[t] \in signalled /\ futex_mutex = NoThread
        /\ pc' = [pc EXCEPT ![t] = "user"] /\ guest' = [guest EXCEPT ![t] = "holds"]
        /\ blk' = [blk EXCEPT ![t] = NoBlock] /\ signalled' = signalled \ {blk[t]}
        /\ entry' = IF blk[t] \in linked THEN entry ELSE [entry EXCEPT ![blk[t]] = NoEntry]
        /\ UNCHANGED <<mem, futex_mutex, linked, ahead>>
    BY <1>5 DEF Granted, Becomes, Woken, WaitReturn, Return
  <2>2. /\ pc'[t] = "user"
        /\ \A u \in Threads : u # t => pc'[u] = pc[u] /\ blk'[u] = blk[u] /\ guest'[u] = guest[u]
    BY <1>0, <2>1 DEF TypeOK, PiInv
  <2>3. \A u \in Threads : u # t /\ pc[u] = "asleep" => blk[u] # blk[t]
    BY <1>0, <2>1, BlocksAssumption DEF TypeOK
  <2>4. t \in Owners /\ Owners' \subseteq Owners
    BY <2>1, <2>2, <2>3 DEF Owners
  <2>5. TotalLists'
    <3>1. \A c \in linked : entry'[c] = entry[c]
      BY <1>0, <2>1 DEF TypeOK
    <3> QED
      BY <1>0, <2>1, <3>1 DEF TotalLists
  <2>6. \A u \in Threads : pc'[u] \notin {"lock_pi", "wait"}
    BY <1>0, <2>1, <2>2 DEF PiInv
  <2>7. /\ guest' \in [Threads -> {"idle", "holds", "unlocking"}]
        /\ \A u \in Threads : guest'[u] # "idle" => pc'[u] = "user"
    BY <2>1, <2>2 DEF PiInv
  <2>8. mem'[Lock] = 0 => Owners' = {}
    BY <2>1, <2>4 DEF PiInv
  <2> QED
    BY <1>0, <2>4, <2>5, <2>6, <2>7, <2>8 DEF PiInv, OwnersAlone
<1>6. ASSUME NEW t \in Threads, FastUnlock(t) PROVE PiInv'
  <2>1. /\ guest[t] = "holds" /\ mem[Lock] = t /\ pc[t] = "user"
        /\ mem' = [mem EXCEPT ![Lock] = 0] /\ guest' = [guest EXCEPT ![t] = "idle"]
        /\ UNCHANGED <<pc, call, blk, futex_mutex, linked, signalled, ahead, entry>>
    BY <1>6 DEF FastUnlock, Becomes, GuestStore, thread, lists
  <2>2. Owners = {t}
    BY <2>1 DEF Owners, PiInv, OwnersAlone
  <2>3. Owners' = {}
    BY <2>1, <2>2 DEF Owners, PiInv
  <2>4. \A u \in Threads : pc[u] # "lock_pi"
    BY <2>1 DEF PiInv
  <2> QED
    BY <1>0, <2>1, <2>3, <2>4 DEF PiInv, OwnersAlone, TotalLists
<1>7. ASSUME NEW t \in Threads, FastUnlockFails(t) PROVE PiInv'
  <2>1. /\ guest[t] = "holds" /\ pc[t] = "user" /\ guest' = [guest EXCEPT ![t] = "unlocking"]
        /\ UNCHANGED <<mem, pc, call, blk, futex_mutex, linked, signalled, ahead, entry>>
    BY <1>7 DEF FastUnlockFails, Becomes, vars, thread, lists
  <2>2. Owners' = Owners
    BY <2>1 DEF Owners, PiInv
  <2> QED
    BY <1>0, <2>1, <2>2 DEF PiInv, OwnersAlone, TotalLists
<1>8. ASSUME NEW t \in Threads, SlowUnlock(t) PROVE PiInv'
  <2> DEFINE W == FirstOf(Queue(Lock), 1)
  <2>1. /\ guest[t] = "unlocking" /\ pc[t] = "user" /\ futex_mutex = NoThread
        /\ linked' = linked \ W /\ signalled' = signalled \cup W
        /\ ahead' = {p \in ahead : p[1] \notin W /\ p[2] \notin W}
        /\ pc' = [pc EXCEPT ![t] = "user"] /\ guest' = [guest EXCEPT ![t] = "idle"]
        /\ UNCHANGED <<mem, futex_mutex, blk, entry>>
    BY <1>8 DEF SlowUnlock, FutexUnlockPi, Dequeue, Return, Becomes
  <2>2. pc' = pc
    BY <1>0, <2>1 DEF TypeOK
  <2>3. Owners = {t} /\ mem[Lock] # 0
    <3>1. t \in Owners
      BY <2>1 DEF Owners
    <3>2. \A u \in Owners : u = t
      BY <3>1 DEF PiInv, OwnersAlone
    <3> QED
      BY <3>1, <3>2 DEF PiInv
  <2>4. \A b, c \in W : b = c
    BY <1>0, FirstIsUnique
  <2>5. \A u \in Owners' : pc[u] = "asleep" /\ blk[u] \in W
    BY <2>1, <2>2, <2>3 DEF Owners, PiInv
  <2>6. \A u, v \in Owners' : u = v
    <3>1. \A u \in Owners' : u \in Threads /\ blk[u] # NoBlock
      BY <1>0, <2>5, BlocksAssumption DEF Owners, TypeOK
    <3> QED
      BY <1>0, <2>4, <2>5, <3>1
  <2>7. TotalLists'
    BY <1>0, <2>1 DEF TotalLists
  <2>8. \A u \in Threads : pc'[u] \notin {"lock_pi", "wait"}
    BY <1>0, <2>1, <2>2 DEF PiInv
  <2> QED
    BY <1>0, <2>1, <2>2, <2>3, <2>6, <2>7, <2>8 DEF PiInv, OwnersAlone
<1>9. CASE UNCHANGED pvars
  <2>1. UNCHANGED <<mem, pc, call, blk, futex_mutex, linked, signalled, ahead, entry, guest>>
    BY <1>9 DEF pvars, vars, thread, lists
  <2>2. Owners' = Owners
    BY <2>1 DEF Owners
  <2> QED
    BY <1>0, <2>1, <2>2 DEF PiInv, OwnersAlone, TotalLists
<1> QED
  BY <1>1, <1>2, <1>3, <1>4, <1>5, <1>6, <1>7, <1>8, <1>9 DEF PiNext

(* At most one thread has a PI lock, for any number of threads: the        *)
(* momentary overwrite of the word by FUTEX_LOCK_PI and the word that      *)
(* FUTEX_UNLOCK_PI leaves behind do not let a second thread in             *)
(* (src/src/ipc/futex.c:185-211).                                          *)
THEOREM PiLockExcludes == PiSpec => []PiMutualExclusion
<1>1. PiInv => PiMutualExclusion
  BY DEF PiInv, OwnersAlone, Owners, PiMutualExclusion, Holders
<1> QED
  BY <1>1, PiInitInv, PiStep, PTL DEF PiSpec
-----------------------------------------------------------------------------
(* Every step of the guests is a step of the futex calls, or none at all.  *)
LEMMA GuestStepIsStep == EntryInv /\ [GuestsNext]_gvars => [Next]_vars
<1> SUFFICES ASSUME EntryInv, [GuestsNext]_gvars PROVE [Next]_vars
  OBVIOUS
<1>0. ~ub /\ 0 \in Words /\ CondWords \subseteq Words /\ Conds \subseteq Addrs
  BY WordsAssumption, SyncAssumption, CondAssumption DEF EntryInv
<1>1. ASSUME NEW t \in Threads, WaitsForWord(t) PROVE Next
  <2>1. PICK a \in Conds, w \in CondWords : Post(t, a, w) \/ Await(t, a, w)
    BY <1>1 DEF WaitsForWord
  <2>2. CASE Post(t, a, w)
    BY <1>0, <2>2 DEF Post, Next
  <2>3. CASE Await(t, a, w)
    <3>1. "none" \in Deadlines("now")
      BY DEF Deadlines
    <3>2. Syscall(t)
      BY <1>0, <2>3, <3>1, SyncAssumption DEF Await, Syscall
    <3> QED
      BY <1>0, <3>2 DEF Next
  <2> QED
    BY <2>1, <2>2, <2>3
<1>2. ASSUME NEW t \in Threads, Announces(t) PROVE Next
  <2>1. Syscall(t)
    BY <1>2, SyncAssumption DEF Announces, Notify, Syscall
  <2> QED
    BY <1>0, <2>1 DEF Next
<1>3. ASSUME NEW t \in Threads, ProceedsOnWord(t) \/ ProceedsOnLock(t) PROVE Next
  BY <1>0, <1>3 DEF ProceedsOnWord, ProceedsOnLock, Proceed, Granted, Next, Step
<1>4. ASSUME NEW t \in Threads, UsesLock(t) PROVE Next \/ UNCHANGED vars
  <2>1. CASE FastLock(t) \/ FastUnlock(t)
    BY <1>0, <2>1, LockAssumption DEF FastLock, FastUnlock, Next
  <2>2. CASE SlowLock(t)
    <3>1. "none" \in Deadlines("guest")
      BY DEF Deadlines
    <3>2. Syscall(t)
      BY <2>2, <3>1, LockAssumption DEF SlowLock, Syscall
    <3> QED
      BY <1>0, <3>2 DEF Next
  <2>3. CASE SlowUnlock(t)
    <3>1. Syscall(t)
      BY <2>3, LockAssumption DEF SlowUnlock, Syscall
    <3> QED
      BY <1>0, <3>1 DEF Next
  <2>4. CASE FastUnlockFails(t)
    BY <2>4 DEF FastUnlockFails
  <2> QED
    BY <1>4, <2>1, <2>2, <2>3, <2>4 DEF UsesLock
<1>5. CASE UNCHANGED gvars
  BY <1>5 DEF gvars
<1> QED
  BY <1>1, <1>2, <1>3, <1>4, <1>5 DEF GuestsNext

(* The types of what the guests remember; a thread announces only words    *)
(* that are waited for.                                                    *)
GuestStates ==
  /\ owes \in [Threads -> Conds \cup {NoAddr}]
  /\ guest \in [Threads -> {"idle", "holds", "unlocking"}]

(* A sleeper's entry is on the list of the word it passed.                 *)
OnList(t) == blk[t] \in linked /\ entry[blk[t]].uaddr = call[t].uaddr

(* Threads inside a call: on a word that is waited for or on the lock;     *)
(* with futex_mutex until they sleep; and never on the lock when they have *)
(* it.                                                                     *)
InCalls ==
  /\ \A t \in Threads : pc[t] # "user" => call[t].uaddr \in Conds \cup {Lock}
  /\ \A t \in Threads : pc[t] \in {"lock_pi", "wait"} => futex_mutex = t
  /\ \A t \in Threads : pc[t] = "asleep" /\ blk[t] \notin signalled => OnList(t)
  /\ \A t \in Threads : pc[t] # "user" /\ guest[t] # "idle" => ~OnLock(t)

(* Between the two writes of FUTEX_LOCK_PI the word names the thread in    *)
(* between, so that no compare-and-swap of another one succeeds; a word    *)
(* that is 0 has no holder.                                                *)
WordInv ==
  /\ \A t \in Threads : pc[t] = "lock_pi" => mem[Lock] = t /\ OnLock(t) /\ call[t].val # 0
  /\ mem[Lock] = 0 => Holders = {}

(* The inductive invariant of the guests together.                         *)
GuestsInv ==
  /\ EntryInv /\ TotalLists
  /\ GuestStates /\ InCalls /\ WordInv
  /\ NoLostWakeup /\ PiMutualExclusion

(* What the invariant says of sleepers, entries and words.                 *)
LEMMA GuestsFacts ==
  ASSUME GuestsInv
  PROVE  /\ TypeOK /\ linked \cap signalled = {} /\ linked \subseteq heap /\ linked \subseteq Blocks
         /\ \A t \in Threads : pc[t] = "asleep" => blk[t] \in heap /\ blk[t] \in Blocks
         /\ \A t, u \in Threads : pc[t] = "asleep" /\ blk[t] = blk[u] => t = u
         /\ mem \in [Addrs -> Nat] /\ Lock \in Addrs /\ 0 \notin Threads /\ NoThread \notin Threads
         /\ Conds \subseteq Addrs /\ Lock \notin Conds /\ NoAddr \notin Addrs
<1>1. /\ TypeOK /\ linked \cap signalled = {} /\ linked \subseteq heap
      /\ \A t \in Threads : pc[t] = "asleep" => blk[t] \in heap
      /\ \A t, u \in Threads : blk[t] = blk[u] /\ blk[t] # NoBlock => t = u
  BY DEF GuestsInv, EntryInv, SleepInv, Sleeping, EntriesAwaited
<1>2. heap \subseteq Blocks /\ linked \subseteq Blocks /\ mem \in [Addrs -> Nat] /\ NoBlock \notin Blocks
  BY <1>1, BlocksAssumption DEF TypeOK
<1> QED
  BY <1>1, <1>2, SyncAssumption, LockAssumption, CondAssumption, AddrsAssumption, ThreadsAssumption

(* Initially nobody waits, owes a wake or has the lock.                    *)
LEMMA GuestsStart == GuestsInit => GuestsInv
<1> SUFFICES ASSUME GuestsInit PROVE GuestsInv
  OBVIOUS
<1>1. EntryInv
  BY EntryInit DEF GuestsInit, SyncInit
<1>2. Holders = {}
  BY DEF GuestsInit, PiInit, Init, Holders
<1> QED
  BY <1>1, <1>2 DEF GuestsInit, SyncInit, PiInit, Init, GuestsInv, GuestStates, InCalls, WordInv,
                    TotalLists, NoLostWakeup, Committed, PiMutualExclusion

(* A store to a word: its waiters are now owed a wake.                     *)
LEMMA PostKeeps ==
  ASSUME GuestsInv, EntryInv', NEW t \in Threads, NEW a \in Conds, NEW w \in CondWords, Post(t, a, w), UNCHANGED guest
  PROVE  GuestsInv'
<1>1. /\ owes[t] = NoAddr /\ owes' = [owes EXCEPT ![t] = a] /\ mem' = [mem EXCEPT ![a] = w]
      /\ UNCHANGED <<pc, call, blk, futex_mutex, linked, ahead, signalled, entry>>
  BY DEF Post, GuestStore, thread, lists
<1>2. mem'[Lock] = mem[Lock] /\ \A d \in Conds : d # a => mem'[d] = mem[d]
  BY <1>1, GuestsFacts
<1>3. Holders' = Holders
  BY <1>1 DEF Holders
<1>4. TotalLists' /\ InCalls'
  BY <1>1 DEF GuestsInv, TotalLists, InCalls, OnList, OnLock
<1>5. WordInv' /\ PiMutualExclusion'
  BY <1>1, <1>2, <1>3 DEF GuestsInv, WordInv, OnLock, PiMutualExclusion
<1>6. GuestStates' /\ owes'[t] = a /\ \A u \in Threads : u # t => owes'[u] = owes[u]
  BY <1>1 DEF GuestsInv, GuestStates
<1>7. NoLostWakeup'
  <2> SUFFICES ASSUME NEW u \in Threads, Committed(u)', call'[u].uaddr \in Conds,
                      mem'[call'[u].uaddr] # call'[u].val
               PROVE  \E x \in Threads : owes'[x] = call'[u].uaddr
    BY DEF NoLostWakeup
  <2>1. Committed(u) /\ call'[u] = call[u]
    BY <1>1 DEF Committed
  <2>2. CASE call[u].uaddr = a
    BY <1>6, <2>1, <2>2
  <2>3. CASE call[u].uaddr # a
    <3>1. mem[call[u].uaddr] # call[u].val /\ call[u].uaddr \in Conds
      BY <1>2, <2>1, <2>3
    <3>2. PICK x \in Threads : owes[x] = call[u].uaddr
      BY <2>1, <3>1 DEF GuestsInv, NoLostWakeup
    <3>3. x # t
      BY <1>1, <3>1, <3>2, GuestsFacts
    <3> QED
      BY <1>6, <2>1, <3>2, <3>3
  <2> QED
    BY <2>2, <2>3
<1> QED
  BY <1>4, <1>5, <1>6, <1>7 DEF GuestsInv

(* The first critical section of a call that goes on.                      *)
LEMMA Entered ==
  ASSUME EntryInv, NEW t \in Threads, NEW label, NEW c, Enter(t, label, c)
  PROVE  pc'[t] = label /\ futex_mutex' = t /\ call'[t] = c
<1>1. TypeOK
  BY DEF EntryInv, SleepInv
<1> QED
  BY <1>1 DEF Enter, TypeOK

(* Only t's own place and call change.                                     *)
Alike(t) == \A u \in Threads \ {t} : pc'[u] = pc[u] /\ call'[u] = call[u]

(* A step after which the same threads wait for the same words, with       *)
(* nothing written to them.                                                *)
LEMMA StillOwed ==
  ASSUME NoLostWakeup, UNCHANGED owes, \A a \in Conds : mem'[a] = mem[a],
         \A u \in Threads : Committed(u)' => Committed(u) /\ call'[u] = call[u]
  PROVE  NoLostWakeup'
<1> SUFFICES ASSUME NEW u \in Threads, Committed(u)', call'[u].uaddr \in Conds,
                    mem'[call'[u].uaddr] # call'[u].val
             PROVE  \E x \in Threads : owes'[x] = call'[u].uaddr
  BY DEF NoLostWakeup
<1>1. Committed(u) /\ call'[u] = call[u]
  OBVIOUS
<1>2. call[u].uaddr \in Conds /\ mem[call[u].uaddr] # call[u].val
  BY <1>1
<1>3. PICK x \in Threads : owes[x] = call[u].uaddr
  BY <1>1, <1>2 DEF NoLostWakeup
<1> QED
  BY <1>1, <1>3

(* What the invariant says of a thread that is inside a call, after a step *)
(* of another one.                                                         *)
LEMMA OthersInCalls ==
  ASSUME InCalls, NEW t \in Threads, Alike(t), UNCHANGED <<blk, linked, signalled, entry>>,
         NEW u \in Threads \ {t}, guest'[u] = guest[u]
  PROVE  /\ pc'[u] # "user" => call'[u].uaddr \in Conds \cup {Lock}
         /\ pc'[u] = "asleep" /\ blk'[u] \notin signalled' => OnList(u)'
         /\ pc'[u] # "user" /\ guest'[u] # "idle" => ~OnLock(u)'
<1>1. pc'[u] = pc[u] /\ call'[u] = call[u]
  BY DEF Alike
<1>2. OnList(u)' <=> OnList(u)
  BY <1>1 DEF OnList
<1>3. OnLock(u)' <=> OnLock(u)
  BY <1>1 DEF OnLock
<1> QED
  BY <1>1, <1>2, <1>3 DEF InCalls

(* FUTEX_WAIT: the word has the value that was passed, or the call         *)
(* returns.                                                                *)
LEMMA AwaitKeeps ==
  ASSUME GuestsInv, EntryInv', NEW t \in Threads, NEW a \in Conds, NEW v \in CondWords, Await(t, a, v), UNCHANGED guest
  PROVE  GuestsInv'
<1>1. /\ pc[t] = "user" /\ futex_mutex = NoThread
      /\ UNCHANGED <<mem, owes, blk, linked, ahead, signalled, entry>>
  BY DEF Await, FutexWait, Enter, lists
<1>2. Alike(t)
  BY GuestsFacts DEF Alike, Await, FutexWait, Return, Enter, TypeOK
<1>3. GuestStates' /\ TotalLists'
  BY <1>1 DEF GuestsInv, GuestStates, TotalLists
<1>4. \A u \in Threads : pc[u] \notin {"lock_pi", "wait"}
  BY <1>1, GuestsFacts DEF GuestsInv, InCalls
<1>5. pc'[t] # "asleep"
  BY GuestsFacts DEF Await, FutexWait, Return, Enter, TypeOK
<1>6. Holders' = Holders
  BY <1>1, <1>2, <1>5 DEF Holders, Alike
<1>7. PiMutualExclusion' /\ (mem'[Lock] = 0 => Holders' = {})
  BY <1>1, <1>6 DEF GuestsInv, PiMutualExclusion, WordInv
<1>8. CASE mem[a] # v
  <2>1. pc'[t] = "user" /\ UNCHANGED futex_mutex
    BY <1>8, GuestsFacts DEF Await, FutexWait, Return, TypeOK
  <2>a. \A u \in Threads : pc'[u] \notin {"lock_pi", "wait"}
    BY <1>2, <1>4, <2>1 DEF Alike
  <2>b. InCalls'
    BY <1>1, <1>2, <1>5, <2>1, <2>a, OthersInCalls DEF GuestsInv, InCalls
  <2>2. InCalls' /\ WordInv'
    BY <1>7, <2>a, <2>b DEF WordInv
  <2>3. \A u \in Threads : Committed(u)' => Committed(u) /\ u # t
    BY <1>1, <1>2, <2>1 DEF Committed, Alike
  <2>4. NoLostWakeup'
    BY <1>1, <1>2, <2>3, StillOwed DEF GuestsInv, Alike
  <2> QED
    BY <1>3, <1>7, <2>2, <2>4 DEF GuestsInv
<1>9. CASE mem[a] = v
  <2>1. /\ pc'[t] = "wait" /\ futex_mutex' = t /\ call'[t].uaddr = a /\ call'[t].val = v
    <3>1. Enter(t, "wait", WaitCall(a, NoAddr, Bits, "none", v))
      BY <1>9 DEF Await, FutexWait
    <3>2. /\ pc'[t] = "wait" /\ futex_mutex' = t
          /\ call'[t] = WaitCall(a, NoAddr, Bits, "none", v)
      BY <3>1, Entered DEF GuestsInv
    <3>3. LET c == WaitCall(a, NoAddr, Bits, "none", v) IN c.uaddr = a /\ c.val = v
      BY DEF WaitCall
    <3> QED
      BY <3>2, <3>3
  <2>2. ~OnLock(t)'
    BY <2>1, GuestsFacts DEF OnLock
  <2>a. \A u \in Threads : /\ pc'[u] # "lock_pi"
                           /\ pc'[u] = "wait" => u = t
    BY <1>2, <1>4, <2>1 DEF Alike
  <2>b. InCalls'
    <3>1. \A u \in Threads : pc'[u] \in {"lock_pi", "wait"} => futex_mutex' = u
      BY <2>1, <2>a
    <3>2. call'[t].uaddr \in Conds \cup {Lock} /\ pc'[t] # "asleep" /\ ~OnLock(t)'
      BY <2>1, <2>2
    <3> QED
      BY <1>1, <1>2, <3>1, <3>2, OthersInCalls DEF GuestsInv, InCalls
  <2>3. InCalls' /\ WordInv'
    BY <1>7, <2>a, <2>b DEF WordInv
  <2>4. \A u \in Threads : Committed(u)' => u = t \/ Committed(u)
    BY <1>1, <1>2 DEF Committed, Alike
  <2>5. NoLostWakeup'
    <3> SUFFICES ASSUME NEW u \in Threads, Committed(u)', call'[u].uaddr \in Conds,
                        mem'[call'[u].uaddr] # call'[u].val
                 PROVE  \E x \in Threads : owes'[x] = call'[u].uaddr
      BY DEF NoLostWakeup
    <3>1. u # t
      BY <1>1, <1>9, <2>1
    <3>2. Committed(u) /\ call'[u] = call[u]
      BY <1>2, <2>4, <3>1 DEF Alike
    <3> QED
      BY <1>1, <3>2 DEF GuestsInv, NoLostWakeup
  <2> QED
    BY <1>3, <1>7, <2>3, <2>5 DEF GuestsInv
<1> QED
  BY <1>8, <1>9

(* What any wake keeps.                                                    *)
LEMMA DequeueKeeps ==
  ASSUME GuestsInv, NEW t \in Threads, pc[t] = "user", futex_mutex = NoThread, NEW r, Return(t, r),
         UNCHANGED <<mem, futex_mutex, blk, entry>>, NEW W, Dequeue(W),
         \A u \in Threads \ {t} : guest'[u] = guest[u]
  PROVE  /\ pc' = pc /\ Alike(t) /\ TotalLists' /\ InCalls'
         /\ \A u \in Threads : pc[u] \notin {"lock_pi", "wait"}
         /\ \A u \in Threads : Committed(u)' <=> Committed(u) /\ blk[u] \notin W
         /\ \A u \in Threads : pc[u] = "asleep" => (blk'[u] \in signalled' <=> blk[u] \in signalled \cup W)
<1>1. pc' = pc /\ Alike(t)
  BY GuestsFacts DEF Return, Alike, TypeOK
<1>2. /\ linked' = linked \ W /\ signalled' = signalled \cup W
      /\ \A b, c \in linked' : <<b, c>> \in ahead' <=> <<b, c>> \in ahead
  BY DEF Dequeue
<1>3. TotalLists'
  BY <1>2 DEF GuestsInv, TotalLists
<1>4. \A u \in Threads : pc[u] \notin {"lock_pi", "wait"}
  BY GuestsFacts DEF GuestsInv, InCalls
<1>5. \A u \in Threads : pc[u] = "asleep" => u # t
  OBVIOUS
<1>6. InCalls'
  BY <1>1, <1>2, <1>4, <1>5 DEF GuestsInv, InCalls, OnList, OnLock, Alike
<1>7. \A u \in Threads : Committed(u)' <=> Committed(u) /\ blk[u] \notin W
  BY <1>1, <1>2, <1>4 DEF Committed
<1> QED
  BY <1>1, <1>2, <1>3, <1>4, <1>6, <1>7

(* FUTEX_WAKE of all waiters of the word that was changed: none of them is *)
(* left, and nobody waiting for the lock is woken.                         *)
LEMMA NotifyKeeps ==
  ASSUME GuestsInv, EntryInv', NEW t \in Threads, Notify(t), UNCHANGED guest
  PROVE  GuestsInv'
<1> DEFINE a == owes[t]
           W == FirstOf(Matching(a, FALSE, {}), -1)
<1>1. W = Queue(a)
  BY DEF FirstOf, Matching, Queue
<1>2. /\ pc[t] = "user" /\ futex_mutex = NoThread /\ Return(t, Cardinality(W)) /\ Dequeue(W)
      /\ owes' = [owes EXCEPT ![t] = NoAddr] /\ UNCHANGED <<mem, futex_mutex, blk, entry>>
  BY DEF Notify, FutexWake
<1>3. a \in Conds /\ a # Lock
  BY GuestsFacts DEF GuestsInv, GuestStates, Notify
<1> HIDE DEF W
<1>4. /\ pc' = pc /\ Alike(t) /\ TotalLists' /\ InCalls'
      /\ \A u \in Threads : pc[u] \notin {"lock_pi", "wait"}
      /\ \A u \in Threads : Committed(u)' <=> Committed(u) /\ blk[u] \notin W
      /\ \A u \in Threads : pc[u] = "asleep" => (blk'[u] \in signalled' <=> blk[u] \in signalled \cup W)
  BY <1>2, DequeueKeeps
<1>5. ASSUME NEW u \in Threads, pc[u] = "asleep", blk[u] \notin signalled
      PROVE  u # t /\ (blk[u] \in W <=> call[u].uaddr = a)
  BY <1>1, <1>2, <1>5 DEF GuestsInv, InCalls, OnList, Queue
<1>6. Holders' = Holders
  <2> SUFFICES ASSUME NEW u \in Threads PROVE u \in Holders' <=> u \in Holders
    BY DEF Holders
  <2>1. CASE pc[u] = "asleep"
    <3>1. call'[u] = call[u] /\ pc'[u] = "asleep" /\ guest' = guest
      BY <1>2, <1>4, <2>1 DEF Alike
    <3>2. call[u].uaddr = Lock => (blk'[u] \in signalled' <=> blk[u] \in signalled)
      BY <1>3, <1>4, <1>5, <2>1
    <3> QED
      BY <2>1, <3>1, <3>2 DEF Holders
  <2>2. CASE pc[u] # "asleep"
    BY <1>4, <2>2 DEF Holders
  <2> QED
    BY <2>1, <2>2
<1>7. WordInv' /\ PiMutualExclusion'
  BY <1>2, <1>4, <1>6 DEF GuestsInv, WordInv, PiMutualExclusion
<1>8. GuestStates' /\ \A u \in Threads : u # t => owes'[u] = owes[u]
  BY <1>2 DEF GuestsInv, GuestStates
<1>9. NoLostWakeup'
  <2> SUFFICES ASSUME NEW u \in Threads, Committed(u)', call'[u].uaddr \in Conds,
                      mem'[call'[u].uaddr] # call'[u].val
               PROVE  \E x \in Threads : owes'[x] = call'[u].uaddr
    BY DEF NoLostWakeup
  <2>1. Committed(u) /\ blk[u] \notin W /\ pc[u] = "asleep" /\ blk[u] \notin signalled
    BY <1>4 DEF Committed
  <2>2. u # t /\ call[u].uaddr # a /\ call'[u] = call[u]
    BY <1>4, <1>5, <2>1 DEF Alike
  <2>3. PICK x \in Threads : owes[x] = call[u].uaddr
    BY <1>2, <2>1, <2>2 DEF GuestsInv, NoLostWakeup
  <2> QED
    BY <1>8, <2>2, <2>3
<1> QED
  BY <1>4, <1>7, <1>8, <1>9 DEF GuestsInv

(* FUTEX_UNLOCK_PI passes the lock to at most one waiter, and wakes nobody *)
(* who waits for a word.                                                   *)
LEMMA SlowUnlockKeeps ==
  ASSUME GuestsInv, EntryInv', NEW t \in Threads, SlowUnlock(t), UNCHANGED owes
  PROVE  GuestsInv'
<1> DEFINE W == FirstOf(Queue(Lock), 1)
<1>1. /\ guest[t] = "unlocking" /\ pc[t] = "user" /\ futex_mutex = NoThread
      /\ Return(t, 0) /\ Dequeue(W) /\ guest' = [guest EXCEPT ![t] = "idle"]
      /\ UNCHANGED <<mem, futex_mutex, blk, entry>>
  BY DEF SlowUnlock, FutexUnlockPi, Becomes
<1>2. \A b, c \in W : b = c
  BY FirstIsUnique, GuestsFacts DEF GuestsInv
<1>3. W \subseteq Queue(Lock)
  BY FirstOfSubset
<1> HIDE DEF W
<1>4. GuestStates' /\ guest'[t] = "idle" /\ \A u \in Threads \ {t} : guest'[u] = guest[u]
  BY <1>1 DEF GuestsInv, GuestStates
<1>5. /\ pc' = pc /\ Alike(t) /\ TotalLists' /\ InCalls'
      /\ \A u \in Threads : pc[u] \notin {"lock_pi", "wait"}
      /\ \A u \in Threads : Committed(u)' <=> Committed(u) /\ blk[u] \notin W
      /\ \A u \in Threads : pc[u] = "asleep" => (blk'[u] \in signalled' <=> blk[u] \in signalled \cup W)
  BY <1>1, <1>4, DequeueKeeps
<1>6. t \in Holders /\ mem[Lock] # 0 /\ \A u \in Holders : u = t
  <2>1. t \in Holders
    BY <1>1 DEF Holders
  <2> QED
    BY <2>1 DEF GuestsInv, WordInv, PiMutualExclusion
<1>7. \A u \in Holders' : u \in Threads /\ pc[u] = "asleep" /\ blk[u] \in W
  <2> SUFFICES ASSUME NEW u \in Holders' PROVE u \in Threads /\ pc[u] = "asleep" /\ blk[u] \in W
    OBVIOUS
  <2>0. u \in Threads
    BY DEF Holders
  <2>1. CASE u = t
    BY <1>1, <1>4, <1>5, <2>1 DEF Holders
  <2>2. CASE u # t
    <3>1. u \notin Holders /\ guest'[u] = guest[u] /\ pc'[u] = pc[u] /\ call'[u] = call[u]
      BY <1>4, <1>5, <1>6, <2>0, <2>2 DEF Alike
    <3>2. pc[u] = "asleep" /\ blk'[u] \in signalled' /\ call[u].uaddr = Lock
      BY <2>0, <3>1 DEF Holders
    <3> QED
      BY <1>5, <2>0, <3>1, <3>2 DEF Holders
  <2> QED
    BY <2>1, <2>2
<1>8. PiMutualExclusion'
  BY <1>2, <1>7, GuestsFacts DEF PiMutualExclusion
<1>9. WordInv'
  BY <1>1, <1>5, <1>6 DEF WordInv
<1>10. NoLostWakeup'
  <2> SUFFICES ASSUME NEW u \in Threads, Committed(u)', call'[u].uaddr \in Conds,
                      mem'[call'[u].uaddr] # call'[u].val
               PROVE  \E x \in Threads : owes'[x] = call'[u].uaddr
    BY DEF NoLostWakeup
  <2>1. Committed(u) /\ u # t
    BY <1>1, <1>5 DEF Committed
  <2> QED
    <3>1. call'[u] = call[u] /\ mem'[call'[u].uaddr] = mem[call'[u].uaddr]
      BY <1>1, <1>5, <2>1 DEF Alike
    <3>2. PICK x \in Threads : owes[x] = call[u].uaddr
      BY <2>1, <3>1 DEF GuestsInv, NoLostWakeup
    <3> QED
      BY <1>1, <3>1, <3>2
<1> QED
  BY <1>4, <1>5, <1>8, <1>9, <1>10 DEF GuestsInv

(* do_private_wait links the entry and gives futex_mutex up.               *)
LEMMA WaitSleepKeeps ==
  ASSUME GuestsInv, EntryInv', NEW t \in Threads, WaitSleep(t), UNCHANGED <<owes, guest>>
  PROVE  GuestsInv'
<1>1. PICK b \in Blocks \ (heap \cup linked) :
        /\ linked' = linked \cup {b} /\ signalled' = signalled \ {b}
        /\ entry' = [entry EXCEPT ![b] = [uaddr |-> call[t].uaddr, bitset |-> call[t].bitset]]
        /\ ahead' = ahead \cup {<<c, b>> : c \in Queue(call[t].uaddr)}
        /\ blk' = [blk EXCEPT ![t] = b]
  BY DEF WaitSleep, Enqueue
<1>2. pc[t] = "wait" /\ UNCHANGED <<mem, call>>
  BY DEF WaitSleep
<1>3. /\ pc'[t] = "asleep" /\ blk'[t] = b
      /\ \A u \in Threads \ {t} : /\ pc'[u] = pc[u] /\ blk'[u] = blk[u]
                                  /\ pc[u] \notin {"lock_pi", "wait"}
  BY <1>1, <1>2, GuestsFacts DEF WaitSleep, TypeOK, GuestsInv, InCalls
<1>4. \A u \in Threads : pc[u] = "asleep" => blk[u] \in Blocks \ {b} /\ u # t
  BY <1>1, <1>2, GuestsFacts
<1>5. entry'[b].uaddr = call[t].uaddr /\ \A c \in Blocks : c # b => entry'[c] = entry[c]
  BY <1>1, GuestsFacts DEF TypeOK
<1>a. linked' = linked \cup {b} /\ signalled' = signalled \ {b}
  BY <1>1
<1>6. TotalLists'
  <2>1. \A c \in linked : c # b /\ c \in Blocks /\ entry'[c] = entry[c]
    BY <1>1, <1>5, GuestsFacts
  <2>2. \A c \in linked : entry[c].uaddr = call[t].uaddr => <<c, b>> \in ahead'
    BY <1>1 DEF Queue
  <2>3. ahead \subseteq ahead'
    BY <1>1
  <2>4. ASSUME NEW c \in linked', NEW d \in linked', c # d, entry'[c].uaddr = entry'[d].uaddr
        PROVE  <<c, d>> \in ahead' \/ <<d, c>> \in ahead'
    <3>1. CASE c = b
      BY <1>a, <1>5, <2>1, <2>2, <2>4, <3>1
    <3>2. CASE d = b
      BY <1>a, <1>5, <2>1, <2>2, <2>4, <3>2
    <3>3. CASE c # b /\ d # b
      <4>1. c \in linked /\ d \in linked /\ entry[c].uaddr = entry[d].uaddr
        BY <1>a, <2>1, <2>4, <3>3
      <4>2. <<c, d>> \in ahead \/ <<d, c>> \in ahead
        BY <2>4, <4>1 DEF GuestsInv, TotalLists
      <4> QED
        BY <2>3, <4>2
    <3> QED
      BY <3>1, <3>2, <3>3
  <2> QED
    BY <2>4 DEF TotalLists
<1>7. ASSUME NEW u \in Threads
      PROVE  /\ (Committed(u)' <=> Committed(u))
             /\ (pc'[u] = "asleep" /\ blk'[u] \in signalled') <=> (pc[u] = "asleep" /\ blk[u] \in signalled)
  <2>1. CASE u = t
    BY <1>a, <1>2, <1>3, <2>1 DEF Committed
  <2>2. CASE u # t
    <3>1. pc'[u] = pc[u] /\ blk'[u] = blk[u] /\ pc[u] # "wait"
      BY <1>3, <2>2
    <3>2. pc[u] = "asleep" => blk[u] # b
      BY <1>4
    <3> QED
      BY <1>a, <3>1, <3>2 DEF Committed
  <2> QED
    BY <2>1, <2>2
<1>8. Holders' = Holders
  BY <1>2, <1>7 DEF Holders
<1>9. NoLostWakeup'
  BY <1>2, <1>7 DEF GuestsInv, NoLostWakeup
<1>10. WordInv' /\ PiMutualExclusion' /\ GuestStates'
  BY <1>2, <1>3, <1>8 DEF GuestsInv, WordInv, PiMutualExclusion, GuestStates
<1>11. InCalls'
  <2>1. /\ \A u \in Threads : pc'[u] # "user" => pc[u] # "user"
        /\ \A u \in Threads : pc'[u] \notin {"lock_pi", "wait"}
    BY <1>2, <1>3
  <2>2. \A u \in Threads : pc'[u] = "asleep" /\ blk'[u] \notin signalled' => OnList(u)'
    <3>1. OnList(t)'
      BY <1>a, <1>2, <1>3, <1>5 DEF OnList
    <3>2. ASSUME NEW u \in Threads \ {t}, pc'[u] = "asleep", blk'[u] \notin signalled'
          PROVE  OnList(u)'
      <4>1. pc[u] = "asleep" /\ blk[u] \in Blocks \ {b} /\ blk'[u] = blk[u]
        BY <1>3, <1>4, <3>2
      <4>2. OnList(u)
        <5>1. blk[u] \notin signalled
          BY <1>a, <3>2, <4>1
        <5> QED
          BY <4>1, <5>1 DEF GuestsInv, InCalls
      <4> QED
        BY <1>a, <1>2, <1>5, <4>1, <4>2 DEF OnList
    <3> QED
      BY <3>1, <3>2
  <2> QED
    BY <1>2, <2>1, <2>2 DEF GuestsInv, InCalls, OnLock
<1> QED
  BY <1>6, <1>9, <1>10, <1>11 DEF GuestsInv

(* What the return from a wait keeps, on a word or on the lock.            *)
LEMMA WokenKeeps ==
  ASSUME GuestsInv, NEW t \in Threads, Woken(t), UNCHANGED owes,
         \A u \in Threads \ {t} : guest'[u] = guest[u]
  PROVE  /\ pc'[t] = "user" /\ UNCHANGED mem
         /\ TotalLists' /\ InCalls' /\ NoLostWakeup'
         /\ \A u \in Threads : pc'[u] \notin {"lock_pi", "wait"}
         /\ \A u \in Threads \ {t} : u \in Holders' <=> u \in Holders
         /\ OnLock(t) => t \in Holders
<1>1. /\ pc[t] = "asleep" /\ blk[t] \in signalled /\ futex_mutex = NoThread
      /\ signalled' = signalled \ {blk[t]}
      /\ UNCHANGED <<mem, futex_mutex, linked, ahead>>
  BY DEF Woken, WaitReturn
<1>2. /\ pc'[t] = "user"
      /\ \A u \in Threads \ {t} : pc'[u] = pc[u] /\ blk'[u] = blk[u] /\ call'[u] = call[u]
      /\ \A c \in Blocks : c # blk[t] => entry'[c] = entry[c]
  BY GuestsFacts DEF Woken, WaitReturn, Return, TypeOK
<1>3. \A u \in Threads \ {t} : pc[u] = "asleep" => blk[u] # blk[t] /\ blk[u] \in Blocks
  BY GuestsFacts
<1>4. TotalLists'
  <2>1. \A c \in linked : entry'[c] = entry[c]
    BY <1>1, <1>2, GuestsFacts
  <2> QED
    BY <1>1, <2>1 DEF GuestsInv, TotalLists
<1>5. \A u \in Threads : pc[u] \notin {"lock_pi", "wait"}
  BY <1>1, GuestsFacts DEF GuestsInv, InCalls
<1>6. InCalls'
  <2>1. ASSUME NEW u \in Threads, pc'[u] = "asleep", blk'[u] \notin signalled'
        PROVE  OnList(u)'
    <3>1. u # t /\ pc[u] = "asleep" /\ blk'[u] = blk[u] /\ call'[u] = call[u]
      BY <1>2, <2>1
    <3>2. blk[u] # blk[t] /\ blk[u] \in Blocks
      BY <1>3, <3>1
    <3>3. OnList(u)
      BY <1>1, <2>1, <3>1, <3>2 DEF GuestsInv, InCalls
    <3> QED
      BY <1>1, <1>2, <3>1, <3>2, <3>3 DEF OnList
  <2>2. \A u \in Threads : pc'[u] \notin {"lock_pi", "wait"}
    BY <1>2, <1>5
  <2>3. ASSUME NEW u \in Threads, pc'[u] # "user"
        PROVE  /\ call'[u].uaddr \in Conds \cup {Lock}
               /\ guest'[u] # "idle" => ~OnLock(u)'
    <3>1. u # t /\ pc[u] # "user" /\ call'[u] = call[u] /\ guest'[u] = guest[u]
      BY <1>2, <2>3
    <3> QED
      BY <3>1 DEF GuestsInv, InCalls, OnLock
  <2> QED
    BY <2>1, <2>2, <2>3 DEF InCalls
<1>7. \A u \in Threads : Committed(u)' => Committed(u) /\ u # t
  BY <1>1, <1>2, <1>3 DEF Committed
<1>8. NoLostWakeup'
  BY <1>1, <1>2, <1>7, StillOwed DEF GuestsInv
<1>9. \A u \in Threads \ {t} : u \in Holders' <=> u \in Holders
  BY <1>1, <1>2, <1>3 DEF Holders
<1>10. OnLock(t) => t \in Holders
  BY <1>1 DEF Holders, OnLock
<1> QED
  BY <1>1, <1>2, <1>4, <1>5, <1>6, <1>8, <1>9, <1>10

(* A thread that may have the lock returns from a wait for a word.         *)
LEMMA WokenOnWordKeeps ==
  ASSUME GuestsInv, EntryInv', NEW t \in Threads, ~OnLock(t), Woken(t), UNCHANGED <<owes, guest>>
  PROVE  GuestsInv'
<1>1. /\ pc'[t] = "user" /\ UNCHANGED mem
      /\ TotalLists' /\ InCalls' /\ NoLostWakeup'
      /\ \A u \in Threads : pc'[u] \notin {"lock_pi", "wait"}
      /\ \A u \in Threads \ {t} : u \in Holders' <=> u \in Holders
  BY WokenKeeps
<1>2. t \in Holders' <=> t \in Holders
  BY <1>1 DEF Holders, OnLock
<1>3. Holders' = Holders
  BY <1>1, <1>2 DEF Holders
<1> QED
  BY <1>1, <1>3 DEF GuestsInv, GuestStates, WordInv, PiMutualExclusion

(* A thread that was passed the lock returns with it.                      *)
LEMMA GrantedKeeps ==
  ASSUME GuestsInv, EntryInv', NEW t \in Threads, OnLock(t), Granted(t), UNCHANGED owes
  PROVE  GuestsInv'
<1>1. guest' = [guest EXCEPT ![t] = "holds"] /\ Woken(t)
  BY DEF Granted, Becomes
<1>2. GuestStates' /\ \A u \in Threads \ {t} : guest'[u] = guest[u]
  BY <1>1 DEF GuestsInv, GuestStates
<1>3. /\ pc'[t] = "user" /\ UNCHANGED mem
      /\ TotalLists' /\ InCalls' /\ NoLostWakeup'
      /\ \A u \in Threads : pc'[u] \notin {"lock_pi", "wait"}
      /\ \A u \in Threads \ {t} : u \in Holders' <=> u \in Holders
      /\ t \in Holders
  BY <1>1, <1>2, WokenKeeps
<1>4. Holders' \subseteq Holders
  BY <1>3 DEF Holders
<1> QED
  BY <1>2, <1>3, <1>4 DEF GuestsInv, WordInv, PiMutualExclusion

(* Writes to the lock do not concern the words that are waited for.        *)
LEMMA WordWritten ==
  ASSUME GuestsInv, NEW w, mem' = [mem EXCEPT ![Lock] = w], UNCHANGED owes,
         \A u \in Threads : /\ Committed(u)' /\ call'[u].uaddr \in Conds => Committed(u)
                            /\ Committed(u)' => call'[u] = call[u]
  PROVE  NoLostWakeup' /\ mem'[Lock] = w
<1>1. mem'[Lock] = w /\ \A a \in Conds : mem'[a] = mem[a]
  BY GuestsFacts
<1>2. NoLostWakeup'
  <2> SUFFICES ASSUME NEW u \in Threads, Committed(u)', call'[u].uaddr \in Conds,
                      mem'[call'[u].uaddr] # call'[u].val
               PROVE  \E x \in Threads : owes'[x] = call'[u].uaddr
    BY DEF NoLostWakeup
  <2>1. Committed(u) /\ call'[u] = call[u]
    OBVIOUS
  <2>2. call[u].uaddr \in Conds /\ mem[call[u].uaddr] # call[u].val
    BY <1>1, <2>1
  <2> QED
    BY <2>1, <2>2 DEF GuestsInv, NoLostWakeup
<1> QED
  BY <1>1, <1>2

(* A compare-and-swap of 0 succeeds: the lock had no holder.               *)
LEMMA FastLockKeeps ==
  ASSUME GuestsInv, EntryInv', NEW t \in Threads, FastLock(t), UNCHANGED owes
  PROVE  GuestsInv'
<1>1. /\ guest[t] = "idle" /\ mem[Lock] = 0 /\ pc[t] = "user"
      /\ mem' = [mem EXCEPT ![Lock] = t] /\ guest' = [guest EXCEPT ![t] = "holds"]
      /\ UNCHANGED <<pc, call, blk, futex_mutex, linked, signalled, ahead, entry>>
  BY DEF FastLock, Becomes, GuestStore, thread, lists
<1>2. GuestStates' /\ guest'[t] = "holds" /\ \A u \in Threads \ {t} : guest'[u] = guest[u]
  BY <1>1 DEF GuestsInv, GuestStates
<1>3. NoLostWakeup' /\ mem'[Lock] = t
  BY <1>1, WordWritten DEF Committed
<1>4. Holders' \subseteq {t}
  BY <1>1, <1>2 DEF Holders, GuestsInv, WordInv
<1>5. \A u \in Threads : pc[u] # "lock_pi"
  BY <1>1, GuestsFacts DEF GuestsInv, WordInv
<1>6. InCalls' /\ TotalLists'
  BY <1>1, <1>2 DEF GuestsInv, InCalls, OnList, OnLock, TotalLists
<1>7. WordInv' /\ PiMutualExclusion'
  BY <1>1, <1>3, <1>4, <1>5, GuestsFacts DEF WordInv, PiMutualExclusion
<1> QED
  BY <1>2, <1>3, <1>6, <1>7 DEF GuestsInv

(* FUTEX_LOCK_PI: the exchange.                                            *)
LEMMA SlowLockKeeps ==
  ASSUME GuestsInv, EntryInv', NEW t \in Threads, SlowLock(t), UNCHANGED owes
  PROVE  GuestsInv'
<1>1. /\ guest[t] = "idle" /\ pc[t] = "user" /\ futex_mutex = NoThread
      /\ mem' = [mem EXCEPT ![Lock] = t]
      /\ UNCHANGED <<blk, linked, signalled, ahead, entry>>
  BY DEF SlowLock, FutexLockPi, Enter, lists
<1>2. Alike(t) /\ pc'[t] # "asleep"
  BY GuestsFacts DEF Alike, SlowLock, FutexLockPi, Return, Enter, TypeOK
<1>3. GuestStates' /\ \A u \in Threads \ {t} : guest'[u] = guest[u]
  BY DEF GuestsInv, GuestStates, SlowLock, Becomes
<1>4. \A u \in Threads : pc[u] \notin {"lock_pi", "wait"}
  BY <1>1, GuestsFacts DEF GuestsInv, InCalls
<1>5. TotalLists'
  BY <1>1 DEF GuestsInv, TotalLists
<1>6. \A u \in Threads : Committed(u)' => u # t /\ Committed(u) /\ call'[u] = call[u]
  <2>1. pc'[t] \in {"user", "lock_pi"}
    BY GuestsFacts DEF SlowLock, FutexLockPi, Return, Enter, TypeOK
  <2> QED
    BY <1>1, <1>2, <2>1 DEF Committed, Alike
<1>7. NoLostWakeup' /\ mem'[Lock] = t /\ t # 0
  BY <1>1, <1>6, WordWritten, GuestsFacts
<1>8. \A u \in Threads \ {t} : u \in Holders' <=> u \in Holders
  BY <1>1, <1>2, <1>3 DEF Holders, Alike
<1>9. CASE mem[Lock] = 0
  <2>1. pc'[t] = "user" /\ UNCHANGED futex_mutex
    BY <1>9, GuestsFacts DEF SlowLock, FutexLockPi, Return, TypeOK
  <2>2. InCalls'
    BY <1>1, <1>2, <1>3, <1>4, <2>1 DEF GuestsInv, InCalls, OnList, OnLock, Alike
  <2>3. Holders' \subseteq {t}
    BY <1>8, <1>9 DEF GuestsInv, WordInv, Holders
  <2>4. WordInv' /\ PiMutualExclusion'
    BY <1>2, <1>4, <1>7, <2>1, <2>3 DEF WordInv, PiMutualExclusion, Alike
  <2> QED
    BY <1>3, <1>5, <1>7, <2>2, <2>4 DEF GuestsInv
<1>10. CASE mem[Lock] # 0
  <2>1. /\ pc'[t] = "lock_pi" /\ futex_mutex' = t /\ call'[t].uaddr = Lock /\ call'[t].val = mem[Lock]
    <3>1. Enter(t, "lock_pi", WaitCall(Lock, NoAddr, Bits, "none", mem[Lock]))
      BY <1>10 DEF SlowLock, FutexLockPi
    <3>2. /\ pc'[t] = "lock_pi" /\ futex_mutex' = t
          /\ call'[t] = WaitCall(Lock, NoAddr, Bits, "none", mem[Lock])
      BY <3>1, Entered DEF GuestsInv
    <3>3. LET c == WaitCall(Lock, NoAddr, Bits, "none", mem[Lock]) IN c.uaddr = Lock /\ c.val = mem[Lock]
      BY DEF WaitCall
    <3> QED
      BY <3>2, <3>3
  <2>2. guest'[t] = "idle"
    BY <1>10 DEF SlowLock, Becomes, GuestsInv, GuestStates
  <2>3. InCalls'
    <3>1. ASSUME NEW u \in Threads, pc'[u] = "asleep", blk'[u] \notin signalled'
          PROVE  OnList(u)'
      <4>1. u # t /\ pc[u] = "asleep" /\ call'[u] = call[u]
        BY <1>2, <3>1 DEF Alike
      <4> QED
        BY <1>1, <3>1, <4>1 DEF GuestsInv, InCalls, OnList
    <3>2. ASSUME NEW u \in Threads, pc'[u] # "user"
          PROVE  /\ call'[u].uaddr \in Conds \cup {Lock}
                 /\ guest'[u] # "idle" => ~OnLock(u)'
      <4>1. CASE u = t
        BY <2>1, <2>2, <4>1
      <4>2. CASE u # t
        <5>1. pc[u] # "user" /\ call'[u] = call[u] /\ guest'[u] = guest[u]
          BY <1>2, <1>3, <3>2, <4>2 DEF Alike
        <5> QED
          BY <5>1 DEF GuestsInv, InCalls, OnLock
      <4> QED
        BY <4>1, <4>2
    <3>3. \A u \in Threads : pc'[u] \in {"lock_pi", "wait"} => futex_mutex' = u
      BY <1>2, <1>4, <2>1 DEF Alike
    <3> QED
      BY <3>1, <3>2, <3>3 DEF InCalls
  <2>4. t \notin Holders'
    BY <2>1, <2>2 DEF Holders
  <2>5. Holders' \subseteq Holders
    BY <1>8, <2>4 DEF Holders
  <2>6. PiMutualExclusion'
    BY <2>5 DEF GuestsInv, PiMutualExclusion
  <2>7. WordInv'
    BY <1>2, <1>4, <1>7, <1>10, <2>1 DEF WordInv, OnLock, Alike
  <2> QED
    BY <1>3, <1>5, <1>7, <2>3, <2>6, <2>7 DEF GuestsInv
<1> QED
  BY <1>9, <1>10

(* FUTEX_LOCK_PI: the old value is stored back.                            *)
LEMMA LockPiStoreKeeps ==
  ASSUME GuestsInv, EntryInv', NEW t \in Threads, LockPiStore(t), UNCHANGED <<owes, guest>>
  PROVE  GuestsInv'
<1>1. /\ pc[t] = "lock_pi" /\ mem' = [mem EXCEPT ![call[t].uaddr] = OrWaiters(call[t].val)]
      /\ UNCHANGED <<futex_mutex, call, blk, entry, linked, signalled, ahead>>
  BY DEF LockPiStore, lists
<1>2. call[t].uaddr = Lock /\ call[t].val # 0 /\ call[t].val \in Nat
  BY <1>1, GuestsFacts DEF GuestsInv, WordInv, OnLock, TypeOK, Calls
<1>3. /\ pc'[t] = "wait"
      /\ \A u \in Threads \ {t} : pc'[u] = pc[u] /\ pc[u] \notin {"lock_pi", "wait"}
  BY <1>1, GuestsFacts DEF LockPiStore, TypeOK, GuestsInv, InCalls
<1>4. OrWaiters(call[t].val) # 0
  BY <1>2, WaitersAssumption DEF OrWaiters
<1>5. NoLostWakeup' /\ mem'[Lock] # 0
  <2>1. \A u \in Threads : Committed(u)' /\ call'[u].uaddr \in Conds => Committed(u)
    BY <1>1, <1>2, <1>3, GuestsFacts DEF Committed
  <2> QED
    BY <1>1, <1>2, <1>4, <2>1, WordWritten
<1>6. Holders' = Holders
  BY <1>1, <1>3 DEF Holders
<1>7. InCalls' /\ TotalLists' /\ GuestStates'
  BY <1>1, <1>3 DEF GuestsInv, InCalls, OnList, OnLock, TotalLists, GuestStates
<1>8. WordInv' /\ PiMutualExclusion'
  BY <1>3, <1>5, <1>6 DEF GuestsInv, WordInv, PiMutualExclusion
<1> QED
  BY <1>5, <1>7, <1>8 DEF GuestsInv

(* A compare-and-swap back to 0 succeeds only when no FUTEX_LOCK_PI is     *)
(* between its two writes.                                                 *)
LEMMA FastUnlockKeeps ==
  ASSUME GuestsInv, EntryInv', NEW t \in Threads, FastUnlock(t), UNCHANGED owes
  PROVE  GuestsInv'
<1>1. /\ guest[t] = "holds" /\ mem[Lock] = t /\ pc[t] = "user"
      /\ mem' = [mem EXCEPT ![Lock] = 0] /\ guest' = [guest EXCEPT ![t] = "idle"]
      /\ UNCHANGED <<pc, call, blk, futex_mutex, linked, signalled, ahead, entry>>
  BY DEF FastUnlock, Becomes, GuestStore, thread, lists
<1>2. GuestStates' /\ guest'[t] = "idle" /\ \A u \in Threads \ {t} : guest'[u] = guest[u]
  BY <1>1 DEF GuestsInv, GuestStates
<1>3. NoLostWakeup'
  BY <1>1, WordWritten DEF Committed
<1>4. \A u \in Holders : u = t
  <2>1. t \in Holders
    BY <1>1 DEF Holders
  <2> QED
    BY <2>1 DEF GuestsInv, PiMutualExclusion
<1>5. Holders' = {}
  BY <1>1, <1>2, <1>4 DEF Holders
<1>6. \A u \in Threads : pc[u] # "lock_pi"
  BY <1>1 DEF GuestsInv, WordInv
<1>7. InCalls' /\ TotalLists'
  BY <1>1, <1>2 DEF GuestsInv, InCalls, OnList, OnLock, TotalLists
<1>8. WordInv' /\ PiMutualExclusion'
  BY <1>1, <1>5, <1>6 DEF WordInv, PiMutualExclusion
<1> QED
  BY <1>2, <1>3, <1>7, <1>8 DEF GuestsInv

(* It fails: the holder will call FUTEX_UNLOCK_PI.                         *)
LEMMA FastUnlockFailsKeeps ==
  ASSUME GuestsInv, EntryInv', NEW t \in Threads, FastUnlockFails(t), UNCHANGED owes
  PROVE  GuestsInv'
<1>1. /\ guest[t] = "holds" /\ pc[t] = "user" /\ guest' = [guest EXCEPT ![t] = "unlocking"]
      /\ UNCHANGED <<mem, pc, call, blk, futex_mutex, linked, signalled, ahead, entry>>
  BY DEF FastUnlockFails, Becomes, vars, thread, lists
<1>2. GuestStates' /\ guest'[t] = "unlocking" /\ \A u \in Threads \ {t} : guest'[u] = guest[u]
  BY <1>1 DEF GuestsInv, GuestStates
<1>3. Holders' = Holders
  BY <1>1, <1>2 DEF Holders
<1>4. InCalls' /\ TotalLists' /\ NoLostWakeup'
  BY <1>1, <1>2 DEF GuestsInv, InCalls, OnList, OnLock, TotalLists, NoLostWakeup, Committed
<1>5. WordInv' /\ PiMutualExclusion'
  BY <1>1, <1>3 DEF GuestsInv, WordInv, OnLock, PiMutualExclusion
<1> QED
  BY <1>2, <1>4, <1>5 DEF GuestsInv

(* Every step of the guests keeps the invariant.                           *)
LEMMA GuestsStep == GuestsInv /\ [GuestsNext]_gvars => GuestsInv'
<1> SUFFICES ASSUME GuestsInv, [GuestsNext]_gvars PROVE GuestsInv'
  OBVIOUS
<1>0. EntryInv'
  BY GuestStepIsStep, EntryStep, SyncAssumption DEF GuestsInv, Untimed
<1>1. ASSUME NEW t \in Threads, WaitsForWord(t) PROVE GuestsInv'
  BY <1>0, <1>1, PostKeeps, AwaitKeeps DEF WaitsForWord
<1>2. ASSUME NEW t \in Threads, Announces(t) PROVE GuestsInv'
  BY <1>0, <1>2, NotifyKeeps DEF Announces
<1>3. ASSUME NEW t \in Threads, ProceedsOnWord(t) PROVE GuestsInv'
  BY <1>0, <1>3, WaitSleepKeeps, WokenOnWordKeeps DEF ProceedsOnWord, Proceed
<1>4. ASSUME NEW t \in Threads, UsesLock(t) PROVE GuestsInv'
  BY <1>0, <1>4, FastLockKeeps, SlowLockKeeps, FastUnlockKeeps, FastUnlockFailsKeeps, SlowUnlockKeeps DEF UsesLock
<1>5. ASSUME NEW t \in Threads, ProceedsOnLock(t) PROVE GuestsInv'
  BY <1>0, <1>5, LockPiStoreKeeps, WaitSleepKeeps, GrantedKeeps DEF ProceedsOnLock
<1>6. CASE UNCHANGED gvars
  <2>1. UNCHANGED <<mem, pc, call, blk, futex_mutex, linked, signalled, ahead, entry, guest, owes>>
    BY <1>6 DEF gvars, vars, thread, lists
  <2>2. Holders' = Holders
    BY <2>1 DEF Holders
  <2> QED
    BY <1>0, <2>1, <2>2 DEF GuestsInv, GuestStates, InCalls, OnList, OnLock, TotalLists, WordInv,
                            NoLostWakeup, Committed, PiMutualExclusion
<1>7. CASE GuestsNext
  BY <1>7, <1>1, <1>2, <1>3, <1>4, <1>5 DEF GuestsNext
<1> QED
  BY <1>6, <1>7

(* No wake-up is lost between the comparison of FUTEX_WAIT and             *)
(* pthread_cond_wait, although threads that use a PI lock take futex_mutex *)
(* and change the same table of lists in between                           *)
(* (src/src/ipc/futex.c:43-61, 119-138).                                   *)
THEOREM GuestsLoseNoWakeup == GuestsSpec => []NoLostWakeup
<1>1. GuestsInv => NoLostWakeup
  BY DEF GuestsInv
<1> QED
  BY <1>1, GuestsStart, GuestsStep, PTL DEF GuestsSpec

(* At most one thread has the PI lock, although its holder and its waiters *)
(* wait for words and wake each other through the same lists               *)
(* (src/src/ipc/futex.c:185-211).                                          *)
THEOREM GuestsLockExcludes == GuestsSpec => []PiMutualExclusion
<1>1. GuestsInv => PiMutualExclusion
  BY DEF GuestsInv
<1> QED
  BY <1>1, GuestsStart, GuestsStep, PTL DEF GuestsSpec
=============================================================================
