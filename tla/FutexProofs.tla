----------------------------- MODULE FutexProofs -----------------------------
(***************************************************************************)
(* Proofs about Futex: type correctness, that sleepers stay findable       *)
(* whatever times out, and that without timeouts list entries and sleepers *)
(* correspond and no freed entry is touched.                               *)
(***************************************************************************)
EXTENDS Futex, FiniteSetTheorems, TLAPS

(* What any number of blocks adds up to is a number.                       *)
LEMMA CountType ==
  ASSUME NEW S \in SUBSET Blocks
  PROVE  Cardinality(S) \in Nat
  BY BlocksAssumption, FS_Subset, FS_CardinalityType

(* Taking the first entries of a set takes some of them.                   *)
LEMMA FirstOfSubset ==
  ASSUME NEW S, NEW n
  PROVE  FirstOf(S, n) \subseteq S
  BY DEF FirstOf
-----------------------------------------------------------------------------
(* Type correctness of Futex.                                              *)
LEMMA TypeStep == TypeOK /\ [Next]_vars => TypeOK'
<1> SUFFICES ASSUME TypeOK, [Next]_vars PROVE TypeOK'
  OBVIOUS
<1> USE ThreadsAssumption, WordsAssumption, WaitersAssumption, CountsAssumption DEF TypeOK
<1>1. ASSUME NEW t \in Threads, NEW a \in Addrs, NEW w \in Words, GuestStore(t, a, w)
      PROVE TypeOK'
  BY <1>1 DEF GuestStore, thread, lists, NoReturn
<1>2. ASSUME NEW t \in Threads, Syscall(t) PROVE TypeOK'
  <2>0. NoCall \in Calls
    BY DEF NoCall, Calls
  <2>r. ASSUME NEW r \in Int, Return(t, r)
        PROVE /\ pc' \in [Threads -> {"user", "wait", "lock_pi", "requeue", "asleep", "timedout"}]
              /\ call' \in [Threads -> Calls]
              /\ ret' \in [thread : Threads \cup {NoThread}, value : Int]
    BY <2>0, <2>r DEF Return
  <2>1. CASE FutexError(t)
    BY <2>1, <2>r DEF FutexError, lists, EFAULT, ENOSYS, EINVAL
  <2>2. ASSUME NEW a \in Addrs, NEW n \in Counts, NEW ubs \in BOOLEAN, NEW B \in SUBSET Bits,
               FutexWake(t, a, n, ubs, B)
        PROVE TypeOK'
    <3> DEFINE W == FirstOf(Matching(a, ubs, B), n)
    <3>1. W \subseteq Blocks /\ Cardinality(W) \in Int
      BY FirstOfSubset, CountType DEF Matching, Queue
    <3>2. Dequeue(W) /\ Return(t, Cardinality(W))
      BY <2>2 DEF FutexWake
    <3> HIDE DEF W
    <3> QED
      BY <2>2, <2>r, <3>1, <3>2 DEF FutexWake, Dequeue
  <2>3. ASSUME NEW a \in Addrs, NEW a2 \in Addrs, NEW n \in Counts, NEW n2 \in Counts,
               NEW w \in Words, NEW cond \in BOOLEAN, FutexWakeOp(t, a, n, a2, n2, w, cond)
        PROVE TypeOK'
    <3> DEFINE W == FirstOf(Queue(a), n)
               Q2 == IF cond THEN Queue(a2) \ W ELSE {}
               W2 == FirstOf(Q2, n2)
    <3>1. /\ W \subseteq Blocks /\ W2 \subseteq Blocks
          /\ Cardinality(W) \in Nat /\ Cardinality(W2) \in Nat
      BY FirstOfSubset, CountType DEF Queue
    <3>2. Dequeue(W \cup W2) /\ Return(t, Cardinality(W) + Cardinality(W2))
      BY <2>3 DEF FutexWakeOp
    <3> HIDE DEF W, W2
    <3>3. Cardinality(W) + Cardinality(W2) \in Int
      BY <3>1
    <3> QED
      BY <2>3, <2>r, <3>1, <3>2, <3>3 DEF FutexWakeOp, Dequeue
  <2>4. ASSUME NEW a \in Addrs, FutexUnlockPi(t, a) PROVE TypeOK'
    <3>1. FirstOf(Queue(a), 1) \subseteq Blocks
      BY FirstOfSubset DEF Queue
    <3> QED
      BY <2>4, <2>r, <3>1 DEF FutexUnlockPi, Dequeue
  <2>5. ASSUME NEW c \in Calls, NEW label \in {"wait", "lock_pi", "requeue"}, Enter(t, label, c),
               mem' \in [Addrs -> Nat]
        PROVE TypeOK'
    BY <2>5 DEF Enter, NoReturn, lists
  <2>6. ASSUME NEW a \in Addrs, NEW a2 \in Addrs \cup {NoAddr}, NEW B \in SUBSET Bits,
               NEW ts \in Deadlines("now") \cup Deadlines("guest"), NEW v \in Nat
        PROVE  WaitCall(a, a2, B, ts, v) \in Calls
    <3>1. ts \in {"none", "now", "guest"}
      BY DEF Deadlines
    <3> QED
      BY <3>1 DEF WaitCall, Calls
  <2>7. ASSUME NEW a \in Addrs, NEW v \in Words, NEW ts \in Deadlines("now"),
               FutexWait(t, a, v, ts)
        PROVE TypeOK'
    <3>1. CASE mem[a] # v
      BY <3>1, <2>7, <2>r DEF FutexWait, Enter, EWOULDBLOCK, lists
    <3>2. CASE mem[a] = v
      BY <3>2, <2>7, <2>5, <2>6 DEF FutexWait
    <3> QED
      BY <3>1, <3>2
  <2>8. ASSUME NEW a \in Addrs, NEW B \in SUBSET Bits, NEW ts \in Deadlines("guest"),
               FutexWaitBitset(t, a, B, ts)
        PROVE TypeOK'
    BY <2>8, <2>5, <2>6 DEF FutexWaitBitset
  <2>9. ASSUME NEW a \in Addrs, NEW a2 \in Addrs, NEW ts \in Deadlines("guest"),
               FutexWaitRequeuePi(t, a, a2, ts)
        PROVE TypeOK'
    BY <2>9, <2>5, <2>6 DEF FutexWaitRequeuePi
  <2>10. ASSUME NEW a \in Addrs, NEW ts \in Deadlines("guest"), FutexLockPi(t, a, ts)
         PROVE TypeOK'
    <3>1. mem' \in [Addrs -> Nat]
      BY <2>10 DEF FutexLockPi
    <3>2. CASE mem[a] = 0
      BY <3>1, <3>2, <2>10, <2>r DEF FutexLockPi, lists
    <3>3. CASE mem[a] # 0
      BY <3>1, <3>3, <2>10, <2>5, <2>6 DEF FutexLockPi
    <3> QED
      BY <3>2, <3>3
  <2>11. ASSUME NEW a \in Addrs, NEW a2 \in Addrs, NEW n2 \in Counts, NEW v \in Words,
                FutexCmpRequeuePi(t, a, a2, n2, v)
         PROVE TypeOK'
    <3>1. [NoCall EXCEPT !.uaddr = a, !.uaddr2 = a2, !.val = v, !.val2 = n2] \in Calls
      BY DEF NoCall, Calls
    <3>2. CASE mem[a] # v
      BY <3>2, <2>11, <2>r DEF FutexCmpRequeuePi, EAGAIN, lists
    <3>3. CASE mem[a] = v
      BY <3>1, <3>3, <2>11, <2>5 DEF FutexCmpRequeuePi
    <3> QED
      BY <3>2, <3>3
  <2> HIDE DEF TypeOK
  <2>12. FALSE \in BOOLEAN /\ TRUE \in BOOLEAN /\ {} \in SUBSET Bits
    OBVIOUS
  <2> HIDE ThreadsAssumption, WordsAssumption, WaitersAssumption, CountsAssumption
  <2> QED
    BY ZenonT(60), <1>2, <2>12, <2>1, <2>2, <2>3, <2>4, <2>7, <2>8, <2>9, <2>10, <2>11 DEF Syscall
<1>3. ASSUME NEW t \in Threads, Step(t) PROVE TypeOK'
  <2>0. NoCall \in Calls
    BY DEF NoCall, Calls
  <2>1. CASE LockPiStore(t)
    <3>1. call[t].val \in Nat
      BY DEF Calls
    <3>2. OrWaiters(call[t].val) \in Nat
      BY <3>1 DEF OrWaiters
    <3>3. mem' \in [Addrs -> Nat]
      BY <2>1, <3>2 DEF LockPiStore
    <3> QED
      BY <2>1, <3>3 DEF LockPiStore, lists, NoReturn
  <2>2. CASE WaitSleep(t)
    BY <2>2 DEF WaitSleep, Enqueue, Queue, NoReturn, Calls
  <2>3. CASE WaitRefused(t)
    BY <2>0, <2>3 DEF WaitRefused, Enqueue, Queue, Return, Calls, EINTR, EAGAIN
  <2>4. CASE Requeue(t)
    <3> DEFINE a == call[t].uaddr
               a2 == call[t].uaddr2
               W == FirstOf(Queue(a), 1)
               M == FirstOf(Queue(a) \ W, call[t].val2)
    <3>1. /\ W \subseteq Blocks /\ M \subseteq Blocks /\ Queue(a2) \subseteq Blocks
          /\ Cardinality(W) \in Nat /\ Cardinality(M) \in Nat
      BY FirstOfSubset, CountType DEF Queue
    <3>2. a2 \in Addrs \cup {NoAddr}
      BY DEF Calls
    <3>3. Moved(W, M, a2) \subseteq Blocks \X Blocks
      BY <3>1 DEF Moved
    <3>4. /\ entry' = [b \in Blocks |->
                        IF b \in M THEN [entry[b] EXCEPT !.uaddr = a2] ELSE entry[b]]
          /\ linked' = linked \ W
          /\ ahead' = Moved(W, M, a2)
          /\ signalled' = signalled \cup W
          /\ Return(t, Cardinality(W) + Cardinality(M))
      BY <2>4 DEF Requeue
    <3> HIDE DEF a, a2, W, M
    <3>5. Cardinality(W) + Cardinality(M) \in Int
      BY <3>1
    <3>6. entry' \in [Blocks -> [uaddr : Addrs \cup {NoAddr}, bitset : SUBSET Bits]]
      BY <3>2, <3>4
    <3>7. /\ pc' \in [Threads -> {"user", "wait", "lock_pi", "requeue", "asleep", "timedout"}]
          /\ call' \in [Threads -> Calls]
          /\ ret' \in [thread : Threads \cup {NoThread}, value : Int]
      BY <2>0, <3>4, <3>5 DEF Return
    <3>8. UNCHANGED <<mem, blk, heap, ub>> /\ futex_mutex' = NoThread
      BY <2>4 DEF Requeue
    <3>9. linked' \subseteq Blocks /\ ahead' \subseteq Blocks \X Blocks /\ signalled' \subseteq Blocks
      BY <3>1, <3>3, <3>4
    <3> QED
      BY <3>6, <3>7, <3>8, <3>9
  <2>5. ASSUME NEW r \in Int, WaitReturn(t, r) PROVE TypeOK'
    <3>1. NoEntry \in [uaddr : Addrs \cup {NoAddr}, bitset : SUBSET Bits]
      BY DEF NoEntry
    <3>2. PICK q \in Int : Return(t, q)
      BY <2>5 DEF WaitReturn, EAGAIN
    <3>3. /\ pc' \in [Threads -> {"user", "wait", "lock_pi", "requeue", "asleep", "timedout"}]
          /\ call' \in [Threads -> Calls]
          /\ ret' \in [thread : Threads \cup {NoThread}, value : Int]
      BY <2>0, <3>2 DEF Return
    <3>4. /\ heap' \subseteq Blocks /\ signalled' \subseteq Blocks
          /\ entry' \in [Blocks -> [uaddr : Addrs \cup {NoAddr}, bitset : SUBSET Bits]]
          /\ blk' \in [Threads -> Blocks \cup {NoBlock}]
      BY <2>5, <3>1 DEF WaitReturn
    <3> QED
      BY <2>5, <3>3, <3>4 DEF WaitReturn
  <2>6. CASE Woken(t) \/ Spurious(t) \/ TimedOut(t)
    BY <2>5, <2>6 DEF Woken, Spurious, TimedOut, ETIMEDOUT
  <2>7. CASE Timeout(t)
    BY <2>7 DEF Timeout, lists, NoReturn
  <2>8. CASE StaleAccess(t)
    BY <2>8 DEF StaleAccess, lists, thread, NoReturn
  <2> QED
    BY <1>3, <2>1, <2>2, <2>3, <2>4, <2>6, <2>7, <2>8 DEF Step
<1>4. CASE UNCHANGED vars
  BY <1>4 DEF vars, thread, lists
<1> QED
  BY <1>1, <1>2, <1>3, <1>4 DEF Next
-----------------------------------------------------------------------------
(* Sleepers.                                                               *)

Sleeping(t) == pc[t] \in {"asleep", "timedout"}

(* The inductive invariant: SleepersQueued extended to threads that have   *)
(* timed out and not yet returned, which still own their block, and to     *)
(* those that do not sleep, which own none.                                *)
SleepInv ==
  /\ TypeOK
  /\ \A t \in Threads : Sleeping(t) => blk[t] \in heap /\ blk[t] \in linked \cup signalled
  /\ \A t \in Threads : ~Sleeping(t) => blk[t] = NoBlock
  /\ \A t, u \in Threads : blk[t] = blk[u] /\ blk[t] # NoBlock => t = u

(* Steps that put nobody to sleep and let nobody return, and after which   *)
(* every entry is still linked or signalled.                               *)
Quiet ==
  /\ UNCHANGED <<blk, heap>>
  /\ linked \cup signalled \subseteq linked' \cup signalled'
  /\ \A u \in Threads : Sleeping(u)' <=> Sleeping(u)

(* Futex calls up to the point where they sleep are quiet.                 *)
LEMMA SyscallQuiet ==
  ASSUME TypeOK, NEW t \in Threads, Syscall(t)
  PROVE  Quiet
<1> USE DEF TypeOK, Quiet, Sleeping
<1>1. ASSUME NEW r, Return(t, r), pc[t] = "user", UNCHANGED blk
      PROVE  \A u \in Threads : Sleeping(u)' <=> Sleeping(u)
  BY <1>1 DEF Return
<1>2. ASSUME NEW label \in {"wait", "lock_pi", "requeue"}, NEW c, Enter(t, label, c), pc[t] = "user"
      PROVE  Quiet
  BY <1>2 DEF Enter, lists
<1>3. CASE FutexError(t)
  BY <1>3, <1>1 DEF FutexError, lists
<1>4. ASSUME NEW a, NEW n, NEW ubs, NEW B, FutexWake(t, a, n, ubs, B)
      PROVE Quiet
  BY <1>4, <1>1 DEF FutexWake, Dequeue
<1>5. ASSUME NEW a, NEW a2, NEW n, NEW n2, NEW w, NEW cond, FutexWakeOp(t, a, n, a2, n2, w, cond)
      PROVE Quiet
  BY <1>5, <1>1 DEF FutexWakeOp, Dequeue
<1>6. ASSUME NEW a, FutexUnlockPi(t, a) PROVE Quiet
  BY <1>6, <1>1 DEF FutexUnlockPi, Dequeue
<1>7. ASSUME NEW a, NEW v, NEW ts, FutexWait(t, a, v, ts) PROVE Quiet
  BY <1>7, <1>1, <1>2 DEF FutexWait, lists
<1>8. ASSUME NEW a, NEW B, NEW ts, FutexWaitBitset(t, a, B, ts) PROVE Quiet
  BY <1>8, <1>2 DEF FutexWaitBitset
<1>9. ASSUME NEW a, NEW a2, NEW ts, FutexWaitRequeuePi(t, a, a2, ts) PROVE Quiet
  BY <1>9, <1>2 DEF FutexWaitRequeuePi
<1>10. ASSUME NEW a, NEW ts, FutexLockPi(t, a, ts) PROVE Quiet
  BY <1>10, <1>1, <1>2 DEF FutexLockPi, lists
<1>11. ASSUME NEW a, NEW a2, NEW n2, NEW v, FutexCmpRequeuePi(t, a, a2, n2, v) PROVE Quiet
  BY <1>11, <1>1, <1>2 DEF FutexCmpRequeuePi, lists
<1> HIDE DEF TypeOK, Quiet, Sleeping
<1> QED
  BY <1>3, <1>4, <1>5, <1>6, <1>7, <1>8, <1>9, <1>10, <1>11 DEF Syscall

LEMMA QuietKeepsSleepInv ==
  ASSUME SleepInv, Quiet, TypeOK'
  PROVE  SleepInv'
  BY DEF SleepInv, Quiet, Sleeping

LEMMA SleepStep == SleepInv /\ [Next]_vars => SleepInv'
<1> SUFFICES ASSUME SleepInv, [Next]_vars PROVE SleepInv'
  OBVIOUS
<1>0. TypeOK /\ TypeOK'
  BY TypeStep DEF SleepInv
<1>1. ASSUME NEW t \in Threads, NEW a \in Addrs, NEW w \in Words, GuestStore(t, a, w)
      PROVE SleepInv'
  <2>1. Quiet
    BY <1>1 DEF GuestStore, Quiet, Sleeping, thread, lists
  <2> QED
    BY <1>0, <2>1, QuietKeepsSleepInv
<1>2. ASSUME NEW t \in Threads, Syscall(t) PROVE SleepInv'
  BY <1>0, <1>2, SyscallQuiet, QuietKeepsSleepInv
<1>3. ASSUME NEW t \in Threads, WaitReturn(t, EAGAIN) \/ WaitReturn(t, 0) \/ WaitReturn(t, ETIMEDOUT),
             Sleeping(t)
      PROVE SleepInv'
  <2>1. /\ pc' = [pc EXCEPT ![t] = "user"]
        /\ blk' = [blk EXCEPT ![t] = NoBlock]
        /\ heap' = heap \ {blk[t]} /\ signalled' = signalled \ {blk[t]}
        /\ UNCHANGED linked
    BY <1>3 DEF WaitReturn, Return
  <2>2. \A u \in Threads : u # t => (Sleeping(u)' <=> Sleeping(u)) /\ blk'[u] = blk[u]
    BY <1>0, <2>1 DEF TypeOK, Sleeping
  <2>3. ~Sleeping(t)' /\ blk'[t] = NoBlock /\ blk[t] # NoBlock
    BY <1>0, <1>3, <2>1, BlocksAssumption DEF TypeOK, Sleeping, SleepInv
  <2>4. \A u \in Threads : Sleeping(u)' => blk'[u] \in heap' /\ blk'[u] \in linked' \cup signalled'
    BY <2>1, <2>2, <2>3 DEF SleepInv
  <2>5. \A u \in Threads : ~Sleeping(u)' => blk'[u] = NoBlock
    BY <2>2, <2>3 DEF SleepInv
  <2>6. \A u, v \in Threads : blk'[u] = blk'[v] /\ blk'[u] # NoBlock => u = v
    BY <2>2, <2>3 DEF SleepInv
  <2> QED
    BY <1>0, <2>4, <2>5, <2>6 DEF SleepInv
<1>4. ASSUME NEW t \in Threads, WaitSleep(t) PROVE SleepInv'
  <2>1. PICK b \in Blocks \ (heap \cup linked) :
          /\ heap' = heap \cup {b}
          /\ Enqueue(b, call[t].uaddr, call[t].bitset)
          /\ blk' = [blk EXCEPT ![t] = b]
    BY <1>4 DEF WaitSleep
  <2>2. \A u \in Threads : u # t => (Sleeping(u)' <=> Sleeping(u)) /\ blk'[u] = blk[u]
    BY <1>0, <1>4, <2>1 DEF TypeOK, Sleeping, WaitSleep
  <2>3. Sleeping(t)' /\ blk'[t] = b
    BY <1>0, <1>4, <2>1 DEF TypeOK, Sleeping, WaitSleep
  <2>4. linked' = linked \cup {b} /\ signalled' = signalled \ {b}
    BY <2>1 DEF Enqueue
  <2>5. \A u \in Threads : u # t => blk[u] # b
    BY <2>1, BlocksAssumption DEF SleepInv
  <2> QED
    BY <1>0, <2>1, <2>2, <2>3, <2>4, <2>5 DEF SleepInv
<1>5. ASSUME NEW t \in Threads, Step(t) PROVE SleepInv'
  <2>1. CASE LockPiStore(t)
    <3>1. Quiet
      BY <1>0, <2>1 DEF LockPiStore, Quiet, Sleeping, lists, TypeOK
    <3> QED
      BY <1>0, <3>1, QuietKeepsSleepInv
  <2>2. CASE WaitRefused(t)
    <3>1. Quiet
      BY <1>0, <2>2 DEF WaitRefused, Quiet, Sleeping, Enqueue, Return, TypeOK
    <3> QED
      BY <1>0, <3>1, QuietKeepsSleepInv
  <2>3. CASE Requeue(t)
    <3>1. Quiet
      BY <1>0, <2>3 DEF Requeue, Quiet, Sleeping, Return, TypeOK
    <3> QED
      BY <1>0, <3>1, QuietKeepsSleepInv
  <2>4. CASE Timeout(t)
    <3>1. Quiet
      BY <1>0, <2>4 DEF Timeout, Quiet, Sleeping, lists, TypeOK
    <3> QED
      BY <1>0, <3>1, QuietKeepsSleepInv
  <2>5. CASE StaleAccess(t)
    <3>1. Quiet
      BY <2>5 DEF StaleAccess, Quiet, Sleeping, lists, thread
    <3> QED
      BY <1>0, <3>1, QuietKeepsSleepInv
  <2>6. CASE Woken(t) \/ Spurious(t) \/ TimedOut(t)
    BY <2>6, <1>3 DEF Woken, Spurious, TimedOut, Sleeping
  <2> QED
    BY <1>4, <1>5, <2>1, <2>2, <2>3, <2>4, <2>5, <2>6 DEF Step
<1>6. CASE UNCHANGED vars
  BY <1>0, <1>6 DEF vars, thread, lists, SleepInv, Sleeping
<1> QED
  BY <1>1, <1>2, <1>5, <1>6 DEF Next

LEMMA SleepInit == Init => SleepInv
<1> SUFFICES ASSUME Init PROVE SleepInv
  OBVIOUS
<1>1. TypeOK
  <2>1. NoCall \in Calls
    BY DEF NoCall, Calls
  <2>2. NoReturn \in [thread : Threads \cup {NoThread}, value : Int]
    BY DEF NoReturn
  <2>3. NoEntry \in [uaddr : Addrs \cup {NoAddr}, bitset : SUBSET Bits]
    BY DEF NoEntry
  <2> QED
    BY <2>1, <2>2, <2>3 DEF Init, TypeOK
<1> QED
  BY <1>1 DEF Init, SleepInv, Sleeping

(* Every variable of Futex keeps its type.                                 *)
THEOREM TypeCorrect == Spec => []TypeOK
<1>1. SleepInv => TypeOK
  BY DEF SleepInv
<1> QED
  BY <1>1, SleepInit, SleepStep, PTL DEF Spec

(* Whatever times out, is requeued or is woken, a thread that sleeps in    *)
(* do_private_wait and has not been signalled is on a list, through a      *)
(* block of its own (src/src/ipc/futex.c:92-98).                           *)
THEOREM SleepersStayQueued == Spec => []SleepersQueued
<1>1. SleepInv => SleepersQueued
  BY BlocksAssumption DEF SleepInv, Sleeping, SleepersQueued, TypeOK
<1> QED
  BY <1>1, SleepInit, SleepStep, PTL DEF Spec
-----------------------------------------------------------------------------
(* Without timeouts.                                                       *)

(* What the guest and the host's pthreads must do for the next theorem.    *)
Untimed == ~TimedWaits /\ ~SpuriousWakeups

(* The inductive invariant: every linked entry is awaited, every call in   *)
(* progress is one without a deadline, and nothing undefined has happened. *)
EntryInv ==
  /\ SleepInv
  /\ EntriesAwaited
  /\ \A t \in Threads : call[t].ts = "none" /\ pc[t] # "timedout"
  /\ ~ub

(* Steps that leave the heap and the sleepers alone and take entries off a *)
(* list only to signal them.                                               *)
KeepsEntries ==
  /\ UNCHANGED <<heap, ub>>
  /\ linked' \subseteq linked
  /\ linked' \cap signalled' = {}
  /\ \A u \in Threads : pc[u] = "asleep" => pc'[u] = "asleep" /\ blk'[u] = blk[u]
  /\ \A u \in Threads : call'[u].ts = "none" /\ pc'[u] # "timedout"

LEMMA SyscallKeepsEntries ==
  ASSUME Untimed, EntryInv, NEW t \in Threads, Syscall(t)
  PROVE  KeepsEntries
<1>0. /\ TypeOK
      /\ linked \cap signalled = {}
      /\ \A u \in Threads : call[u].ts = "none" /\ pc[u] # "timedout"
  BY DEF EntryInv, SleepInv, EntriesAwaited
<1>1. ASSUME NEW r, Return(t, r), pc[t] = "user", UNCHANGED <<blk, heap, ub>>,
             linked' \subseteq linked, linked' \cap signalled' = {}
      PROVE  KeepsEntries
  BY <1>0, <1>1 DEF Return, NoCall, TypeOK, KeepsEntries
<1>2. ASSUME NEW label \in {"wait", "lock_pi", "requeue"}, NEW c, c.ts = "none",
             Enter(t, label, c), pc[t] = "user"
      PROVE  KeepsEntries
  BY <1>0, <1>2 DEF Enter, lists, TypeOK, KeepsEntries
<1>3. ASSUME NEW W, Dequeue(W)
      PROVE  linked' \subseteq linked /\ linked' \cap signalled' = {}
  BY <1>0, <1>3 DEF Dequeue
<1>4. ASSUME NEW a, NEW a2, NEW B, NEW ts \in Deadlines("now") \cup Deadlines("guest"), NEW v
      PROVE  WaitCall(a, a2, B, ts, v).ts = "none"
  BY DEF WaitCall, Deadlines, Untimed
<1>5. CASE FutexError(t)
  BY <1>0, <1>5, <1>1 DEF FutexError, lists
<1>6. ASSUME NEW a, NEW n, NEW ubs, NEW B, FutexWake(t, a, n, ubs, B)
      PROVE KeepsEntries
  BY <1>6, <1>1, <1>3 DEF FutexWake
<1>7. ASSUME NEW a, NEW a2, NEW n, NEW n2, NEW w, NEW cond, FutexWakeOp(t, a, n, a2, n2, w, cond)
      PROVE KeepsEntries
  BY <1>7, <1>1, <1>3 DEF FutexWakeOp
<1>8. ASSUME NEW a, FutexUnlockPi(t, a) PROVE KeepsEntries
  BY <1>8, <1>1, <1>3 DEF FutexUnlockPi
<1>9. ASSUME NEW a, NEW v, NEW ts \in Deadlines("now"), FutexWait(t, a, v, ts) PROVE KeepsEntries
  BY <1>0, <1>9, <1>1, <1>2, <1>4 DEF FutexWait, lists
<1>10. ASSUME NEW a, NEW B, NEW ts \in Deadlines("guest"), FutexWaitBitset(t, a, B, ts)
       PROVE KeepsEntries
  BY <1>10, <1>2, <1>4 DEF FutexWaitBitset
<1>11. ASSUME NEW a, NEW a2, NEW ts \in Deadlines("guest"), FutexWaitRequeuePi(t, a, a2, ts)
       PROVE KeepsEntries
  BY <1>11, <1>2, <1>4 DEF FutexWaitRequeuePi
<1>12. ASSUME NEW a, NEW ts \in Deadlines("guest"), FutexLockPi(t, a, ts) PROVE KeepsEntries
  BY <1>0, <1>12, <1>1, <1>2, <1>4 DEF FutexLockPi, lists
<1>13. ASSUME NEW a, NEW a2, NEW n2, NEW v, FutexCmpRequeuePi(t, a, a2, n2, v) PROVE KeepsEntries
  <2>1. [NoCall EXCEPT !.uaddr = a, !.uaddr2 = a2, !.val = v, !.val2 = n2].ts = "none"
    BY DEF NoCall
  <2> QED
    BY <1>0, <1>13, <1>1, <1>2, <2>1 DEF FutexCmpRequeuePi, lists
<1> QED
  BY ZenonT(60), <1>5, <1>6, <1>7, <1>8, <1>9, <1>10, <1>11, <1>12, <1>13 DEF Syscall

LEMMA KeepsEntryInv ==
  ASSUME EntryInv, KeepsEntries, SleepInv'
  PROVE  EntryInv'
  BY DEF EntryInv, KeepsEntries, EntriesAwaited

LEMMA EntryStep == Untimed /\ EntryInv /\ [Next]_vars => EntryInv'
<1> SUFFICES ASSUME Untimed, EntryInv, [Next]_vars PROVE EntryInv'
  OBVIOUS
<1>0. SleepInv /\ SleepInv' /\ TypeOK
  BY SleepStep DEF EntryInv, SleepInv
<1>1. ASSUME NEW t \in Threads, NEW a \in Addrs, NEW w \in Words, GuestStore(t, a, w)
      PROVE EntryInv'
  <2>1. KeepsEntries
    BY <1>1 DEF GuestStore, KeepsEntries, EntryInv, EntriesAwaited, thread, lists
  <2> QED
    BY <1>0, <2>1, KeepsEntryInv
<1>2. ASSUME NEW t \in Threads, Syscall(t) PROVE EntryInv'
  BY <1>0, <1>2, SyscallKeepsEntries, KeepsEntryInv
<1>3. ASSUME NEW t \in Threads, LockPiStore(t) PROVE EntryInv'
  <2>1. KeepsEntries
    BY <1>0, <1>3 DEF LockPiStore, KeepsEntries, EntryInv, EntriesAwaited, lists, TypeOK
  <2> QED
    BY <1>0, <2>1, KeepsEntryInv
<1>4. ASSUME NEW t \in Threads, WaitSleep(t) PROVE EntryInv'
  <2>1. PICK b \in Blocks \ (heap \cup linked) :
          /\ heap' = heap \cup {b}
          /\ linked' = linked \cup {b} /\ signalled' = signalled \ {b}
          /\ blk' = [blk EXCEPT ![t] = b]
    BY <1>4 DEF WaitSleep, Enqueue
  <2>2. pc' = [pc EXCEPT ![t] = "asleep"] /\ pc[t] = "wait" /\ UNCHANGED <<call, ub>>
    BY <1>4 DEF WaitSleep
  <2>3. \A u \in Threads : pc[u] = "asleep" => pc'[u] = "asleep" /\ blk'[u] = blk[u]
    BY <1>0, <2>1, <2>2 DEF TypeOK
  <2>4. pc'[t] = "asleep" /\ blk'[t] = b
    BY <1>0, <2>1, <2>2 DEF TypeOK
  <2>5. EntriesAwaited'
    BY <2>1, <2>3, <2>4 DEF EntryInv, EntriesAwaited
  <2> QED
    BY <1>0, <2>2, <2>5 DEF EntryInv, TypeOK
<1>5. ASSUME NEW t \in Threads, Requeue(t) PROVE EntryInv'
  <2>1. KeepsEntries
    BY <1>0, <1>5 DEF Requeue, Return, NoCall, KeepsEntries, EntryInv, EntriesAwaited, TypeOK
  <2> QED
    BY <1>0, <2>1, KeepsEntryInv
<1>6. ASSUME NEW t \in Threads, Woken(t) PROVE EntryInv'
  <2>1. /\ pc' = [pc EXCEPT ![t] = "user"] /\ call' = [call EXCEPT ![t] = NoCall]
        /\ blk' = [blk EXCEPT ![t] = NoBlock]
        /\ heap' = heap \ {blk[t]} /\ signalled' = signalled \ {blk[t]}
        /\ UNCHANGED <<linked, ub>>
    BY <1>6 DEF Woken, WaitReturn, Return
  <2>2. blk[t] \notin linked
    BY <1>6 DEF Woken, EntryInv, EntriesAwaited
  <2>3. \A u \in Threads : u # t => pc'[u] = pc[u] /\ blk'[u] = blk[u]
    BY <1>0, <2>1 DEF TypeOK
  <2>4. EntriesAwaited'
    BY <2>1, <2>2, <2>3 DEF EntryInv, EntriesAwaited
  <2>5. \A u \in Threads : call'[u].ts = "none" /\ pc'[u] # "timedout"
    BY <1>0, <2>1 DEF TypeOK, EntryInv, NoCall
  <2> QED
    BY <1>0, <2>1, <2>4, <2>5 DEF EntryInv
<1>7. ASSUME NEW t \in Threads
      PROVE /\ ~WaitRefused(t) /\ ~Timeout(t) /\ ~TimedOut(t) /\ ~Spurious(t)
  BY DEF EntryInv, WaitRefused, Timeout, TimedOut, Spurious, Untimed
<1>8. ASSUME NEW t \in Threads PROVE ~StaleAccess(t)
  BY DEF EntryInv, EntriesAwaited, StaleAccess, Queue, Last
<1>9. CASE UNCHANGED vars
  BY <1>0, <1>9 DEF vars, thread, lists, EntryInv, EntriesAwaited
<1> QED
  BY <1>1, <1>2, <1>3, <1>4, <1>5, <1>6, <1>7, <1>8, <1>9 DEF Next, Step

LEMMA EntryInit == Init => EntryInv
  BY SleepInit DEF Init, EntryInv, EntriesAwaited, NoCall

(* Without timeouts, every entry on a list is the live block of a thread   *)
(* that sleeps: a wake or a requeue never counts an abandoned entry        *)
(* (src/src/ipc/futex.c:48-59, 224-232).                                   *)
THEOREM EntriesStayAwaited ==
  ASSUME Untimed
  PROVE  Spec => []EntriesAwaited
<1>1. EntryInv => EntriesAwaited
  BY DEF EntryInv
<1>2. EntryInv /\ [Next]_vars => EntryInv'
  BY EntryStep
<1> QED
  BY <1>1, <1>2, EntryInit, PTL DEF Spec

(* Without timeouts, no list operation touches an entry that               *)
(* do_private_wait has freed (src/src/ipc/futex.c:104).                    *)
THEOREM NeverUseAfterFree ==
  ASSUME Untimed
  PROVE  Spec => []NoUseAfterFree
<1>1. EntryInv => NoUseAfterFree
  BY DEF EntryInv, NoUseAfterFree
<1>2. EntryInv /\ [Next]_vars => EntryInv'
  BY EntryStep
<1> QED
  BY <1>1, <1>2, EntryInit, PTL DEF Spec
=============================================================================
