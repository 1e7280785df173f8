------------------------------ MODULE FutexAbs ------------------------------
(***************************************************************************)
(* What the private futexes of a process promise: every call is atomic.    *)
(* A wait joins the end of its queue in one step, a wake takes the waiters *)
(* at the front of a queue, a requeue moves waiters from one queue to the  *)
(* end of another, and only a waiter that has been woken returns.  There   *)
(* are no locks, no blocks, no condition variables and no words here.      *)
(***************************************************************************)
EXTENDS Integers, FiniteSets

CONSTANTS Threads, Addrs, Bits, NoAddr

VARIABLES
  waiting,  \* the threads that are blocked
  woken,    \* the threads that have been woken and have not returned
  place,    \* the word each blocked thread waits on
  bits,     \* the bitset it waits with
  before    \* <<t, u>>: t is before u in a queue

avars == <<waiting, woken, place, bits, before>>

AInit ==
  /\ waiting = {} /\ woken = {}
  /\ place = [t \in Threads |-> NoAddr]
  /\ bits = [t \in Threads |-> {}]
  /\ before = {}

Waiters(a) == {t \in waiting : place[t] = a}

(* A set of waiters that leaves nobody behind who was first in line for it.*)
AtFront(W) ==
  /\ W \subseteq waiting
  /\ \A u \in W, t \in waiting \ W :
       <<t, u>> \in before => ~(bits[u] \subseteq bits[t])

Leave(W) == {p \in before : p[1] \notin W /\ p[2] \notin W}

Clear(f, W, v) == [t \in Threads |-> IF t \in W THEN v ELSE f[t]]

(* A thread blocks on a word.                                              *)
AWait(t, a, B) ==
  /\ t \notin waiting \cup woken
  /\ waiting' = waiting \cup {t}
  /\ place' = [place EXCEPT ![t] = a]
  /\ bits' = [bits EXCEPT ![t] = B]
  /\ before' = before \cup (Waiters(a) \X {t})
  /\ UNCHANGED woken

(* Waiters are woken, on two words at once in FUTEX_WAKE_OP.               *)
AWake(W) ==
  /\ AtFront(W)
  /\ waiting' = waiting \ W
  /\ woken' = woken \cup W
  /\ place' = Clear(place, W, NoAddr)
  /\ bits' = Clear(bits, W, {})
  /\ before' = Leave(W)

(* The first waiter of a is woken, the ones behind it move to the end of   *)
(* a2's queue in the order they have.                                      *)
AMove(W, M, a, a2) ==
  /\ a # a2
  /\ W \subseteq Waiters(a) /\ M \subseteq Waiters(a) \ W
  /\ \A u \in W \cup M, t \in Waiters(a) : <<t, u>> \in before => t \in W \cup M
  /\ \A u \in W, t \in Waiters(a) : <<t, u>> \in before => t \in W
  /\ waiting' = waiting \ W
  /\ woken' = woken \cup W
  /\ place' = Clear(Clear(place, M, a2), W, NoAddr)
  /\ bits' = Clear(bits, W, {})
  /\ before' = {p \in Leave(W) : p[1] \in M <=> p[2] \in M} \cup (Waiters(a2) \X M)

AReturn(t) ==
  /\ t \in woken
  /\ woken' = woken \ {t}
  /\ UNCHANGED <<waiting, place, bits, before>>

ANext ==
  \/ \E t \in Threads, a \in Addrs, B \in SUBSET Bits : AWait(t, a, B)
  \/ \E W \in SUBSET waiting : AWake(W)
  \/ \E a, a2 \in Addrs : \E W, M \in SUBSET Waiters(a) : AMove(W, M, a, a2)
  \/ \E t \in Threads : AReturn(t)

ASpec == AInit /\ [][ANext]_avars
=============================================================================
