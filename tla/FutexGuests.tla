---------------------------- MODULE FutexGuests ----------------------------
(***************************************************************************)
(* Guest threads that wait for words to change (FutexSync) and share a PI  *)
(* lock (FutexPi) at the same time: both go through the one futex_mutex    *)
(* and the one table of lists of src/src/ipc/futex.c, and a thread may     *)
(* wait for a word while it holds the lock.                                *)
(***************************************************************************)
EXTENDS FutexSync, FutexPi

CONSTANTS CondWords,  \* values of the words that are waited for
          CondUsers   \* the threads that wait for words
ASSUME CondAssumption == CondWords \subseteq Words /\ Lock \notin Conds /\ CondUsers \subseteq Threads

gvars == <<vars, owes, guest>>

GuestsInit == SyncInit /\ PiInit

OnLock(t) == call[t].uaddr = Lock

WaitsForWord(t) ==
  /\ t \in CondUsers /\ guest[t] # "unlocking"
  /\ \E a \in Conds, w \in CondWords : Post(t, a, w) \/ Await(t, a, w)
  /\ UNCHANGED guest

Announces(t) == Notify(t) /\ UNCHANGED guest

ProceedsOnWord(t) == ~OnLock(t) /\ Proceed(t) /\ UNCHANGED guest

UsesLock(t) ==
  /\ owes[t] = NoAddr
  /\ FastLock(t) \/ SlowLock(t) \/ FastUnlock(t) \/ FastUnlockFails(t) \/ SlowUnlock(t)
  /\ UNCHANGED owes

ProceedsOnLock(t) ==
  /\ OnLock(t)
  /\ ((LockPiStore(t) \/ WaitSleep(t)) /\ UNCHANGED guest) \/ Granted(t)
  /\ UNCHANGED owes

GuestsNext ==
  \E t \in Threads :
    WaitsForWord(t) \/ Announces(t) \/ ProceedsOnWord(t) \/ UsesLock(t) \/ ProceedsOnLock(t)

(* Every thread that is inside a call, or has yet to announce a change,    *)
(* goes on; futex_mutex does not starve one that keeps asking for it.  No  *)
(* thread is made to use or to release the lock.                           *)
GuestsFairness ==
  \A t \in Threads :
    SF_gvars(Announces(t)) /\ SF_gvars(ProceedsOnWord(t)) /\ SF_gvars(ProceedsOnLock(t))

GuestsSpec == GuestsInit /\ [][GuestsNext]_gvars /\ GuestsFairness
=============================================================================
