------------------------------ MODULE FutexSync ------------------------------
(***************************************************************************)
(* Guest threads that synchronise through futex words the way the futex    *)
(* interface is meant to be used: whoever changes a word then wakes all    *)
(* its waiters; whoever waits passes the value it has seen.  The code is   *)
(* FUTEX_WAIT and FUTEX_WAKE of src/src/ipc/futex.c, through Futex.        *)
(***************************************************************************)
EXTENDS Futex

CONSTANT Conds  \* the words that are waited for
ASSUME SyncAssumption ==
  /\ Conds \subseteq Addrs
  /\ {"WAIT", "WAKE"} \subseteq Commands /\ -1 \in Counts
  /\ ~TimedWaits /\ ~SpuriousWakeups

VARIABLE owes   \* the word a thread has changed and not yet announced

svars == <<vars, owes>>

SyncInit == Init /\ owes = [t \in Threads |-> NoAddr]

Post(t, a, w) ==
  /\ owes[t] = NoAddr
  /\ GuestStore(t, a, w)
  /\ owes' = [owes EXCEPT ![t] = a]

Notify(t) ==
  /\ owes[t] \in Addrs
  /\ FutexWake(t, owes[t], -1, FALSE, {})
  /\ owes' = [owes EXCEPT ![t] = NoAddr]

Await(t, a, v) ==
  /\ owes[t] = NoAddr
  /\ FutexWait(t, a, v, "none")
  /\ UNCHANGED owes

Proceed(t) == (WaitSleep(t) \/ Woken(t)) /\ UNCHANGED owes

SyncNext ==
  \E t \in Threads :
    \/ \E a \in Conds, w \in Words : Post(t, a, w) \/ Await(t, a, w)
    \/ Notify(t)
    \/ Proceed(t)

SyncSpec == SyncInit /\ [][SyncNext]_svars

(* Every thread that can run does run, and one that asks for futex_mutex   *)
(* over and over gets it (Darwin's mutexes are fair-share).                *)
Fairness ==
  \A t \in Threads : SF_svars(Notify(t)) /\ SF_svars(Proceed(t))

FairSyncSpec == SyncSpec /\ Fairness
-----------------------------------------------------------------------------
(* A thread that FUTEX_WAIT lets sleep, or is about to.                    *)
Committed(t) ==
  \/ pc[t] = "wait"
  \/ pc[t] = "asleep" /\ blk[t] \notin signalled

(* No wake-up is lost: if a thread is asleep although the word no longer   *)
(* has the value it passed to FUTEX_WAIT, the one who changed the word has *)
(* yet to wake.  The store races the comparison and the list_add_tail in   *)
(* do_private_futex; only futex_mutex held from the comparison to          *)
(* pthread_cond_wait excludes the window.                                  *)
NoLostWakeup ==
  \A t \in Threads :
    Committed(t) /\ call[t].uaddr \in Conds /\ mem[call[t].uaddr] # call[t].val
      => \E u \in Threads : owes[u] = call[t].uaddr

(* A thread that sleeps on a value the word no longer has returns.         *)
StaleWaitEnds ==
  \A t \in Threads :
    (pc[t] = "asleep" /\ call[t].uaddr \in Conds /\ mem[call[t].uaddr] # call[t].val)
      ~> pc[t] = "user"
=============================================================================
