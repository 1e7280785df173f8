----------------------------- MODULE FutexRefine -----------------------------
(***************************************************************************)
(* The futexes of src/src/ipc/futex.c implement FutexAbs as long as no     *)
(* wait times out and no condition variable returns spuriously.  A call    *)
(* takes effect at one point of its critical section: a wait when the word *)
(* is compared, although its entry is linked later.                        *)
(***************************************************************************)
EXTENDS Futex

Blocked(t) ==
  \/ pc[t] \in {"wait", "lock_pi"}
  \/ pc[t] = "asleep" /\ blk[t] \notin signalled

PlaceOf(t) ==
  CASE Blocked(t) /\ pc[t] = "asleep" -> entry[blk[t]].uaddr
    [] Blocked(t) /\ pc[t] # "asleep" -> call[t].uaddr
    [] OTHER -> NoAddr

Before(t, u) ==
  /\ Blocked(t) /\ Blocked(u) /\ PlaceOf(t) = PlaceOf(u)
  /\ pc[t] = "asleep"
  /\ pc[u] = "asleep" => <<blk[t], blk[u]>> \in ahead

Abs == INSTANCE FutexAbs WITH
  waiting <- {t \in Threads : Blocked(t)},
  woken <- {t \in Threads : pc[t] = "asleep" /\ blk[t] \in signalled},
  place <- [t \in Threads |-> PlaceOf(t)],
  bits <- [t \in Threads |-> IF Blocked(t) THEN call[t].bitset ELSE {}],
  before <- {p \in Threads \X Threads : Before(p[1], p[2])}

(* Every futex call of the program is one atomic step of FutexAbs.         *)
AbstractFutex == Abs!ASpec
=============================================================================
