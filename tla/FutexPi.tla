------------------------------- MODULE FutexPi -------------------------------
(***************************************************************************)
(* Guest threads that use a futex word as a PI lock: lock by changing the  *)
(* word from 0 to the thread id, FUTEX_LOCK_PI when that fails; unlock by  *)
(* changing it back to 0, FUTEX_UNLOCK_PI when that fails.  The code is    *)
(* FUTEX_LOCK_PI and FUTEX_UNLOCK_PI of src/src/ipc/futex.c, through Futex.*)
(***************************************************************************)
EXTENDS Futex

CONSTANT Lock   \* the word
ASSUME LockAssumption ==
  /\ Lock \in Addrs /\ Threads \subseteq Words
  /\ "LOCK_PI" \in Commands
  /\ ~TimedWaits /\ ~SpuriousWakeups

VARIABLE guest  \* what each thread takes itself to be doing with the lock

pvars == <<vars, guest>>

Becomes(t, s) == guest' = [guest EXCEPT ![t] = s]

PiInit == Init /\ guest = [t \in Threads |-> "idle"]

(* Compare-and-swap by guest code, 0 to its thread id.                     *)
FastLock(t) ==
  /\ guest[t] = "idle" /\ mem[Lock] = 0
  /\ GuestStore(t, Lock, t)
  /\ Becomes(t, "holds")

SlowLock(t) ==
  /\ guest[t] = "idle"
  /\ FutexLockPi(t, Lock, "none")
  /\ Becomes(t, IF mem[Lock] = 0 THEN "holds" ELSE "idle")

Granted(t) == Woken(t) /\ Becomes(t, "holds")

(* Compare-and-swap by guest code, its thread id to 0.                     *)
FastUnlock(t) ==
  /\ guest[t] = "holds" /\ mem[Lock] = t
  /\ GuestStore(t, Lock, 0)
  /\ Becomes(t, "idle")

FastUnlockFails(t) ==
  /\ guest[t] = "holds" /\ pc[t] = "user" /\ mem[Lock] # t
  /\ Becomes(t, "unlocking")
  /\ UNCHANGED vars

SlowUnlock(t) ==
  /\ guest[t] = "unlocking"
  /\ FutexUnlockPi(t, Lock)
  /\ Becomes(t, "idle")

PiNext ==
  \E t \in Threads :
    \/ FastLock(t)
    \/ SlowLock(t)
    \/ (LockPiStore(t) \/ WaitSleep(t)) /\ UNCHANGED guest
    \/ Granted(t)
    \/ FastUnlock(t)
    \/ FastUnlockFails(t)
    \/ SlowUnlock(t)

PiSpec == PiInit /\ [][PiNext]_pvars
-----------------------------------------------------------------------------
(* The threads that have the lock, or have been given it and do not know.  *)
Holders ==
  {t \in Threads : \/ guest[t] \in {"holds", "unlocking"}
                   \/ pc[t] = "asleep" /\ blk[t] \in signalled /\ call[t].uaddr = Lock}

(* At most one thread has the lock: although FUTEX_LOCK_PI overwrites the  *)
(* word with the id of a thread that does not get it, and FUTEX_UNLOCK_PI  *)
(* never updates it.                                                       *)
PiMutualExclusion == \A t, u \in Holders : t = u
=============================================================================
