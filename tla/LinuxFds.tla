----------------------------- MODULE LinuxFds -----------------------------
(***************************************************************************)
(* What a Linux program relies on when it uses file descriptors: a new     *)
(* descriptor is the lowest number that is free, dup2 and dup3 install one *)
(* at a given number, and execve closes exactly the flagged ones.          *)
(***************************************************************************)
EXTENDS Naturals

CONSTANT NoFile   \* descriptors are below this number

VARIABLES
  open,    \* descriptors in use
  flags,   \* the ones with FD_CLOEXEC
  last,    \* the last call that succeeded: which, with FD_CLOEXEC or without
  broken   \* nothing is promised any more

vars == <<open, flags, last, broken>>

Fd == 0 .. NoFile - 1

Flagged(S, ce) == IF ce THEN flags \cup S ELSE flags \ S

Init == open \subseteq Fd /\ flags \subseteq open /\ last = <<"none", FALSE>> /\ broken = FALSE

(* The lowest free descriptors from least on: one, or two for a pipe.      *)
New(S, least, ce) ==
  /\ \A f \in S : f >= least /\ f \notin open
  /\ \A f \in S : \A g \in least .. f : g \in open \cup S
  /\ open' = open \cup S
  /\ flags' = Flagged(S, ce)

Open(ce) == last' = <<"open", ce>> /\ \E f \in Fd : New({f}, 0, ce)

Pipe(ce) == last' = <<"pipe", ce>> /\ \E f, g \in Fd : f # g /\ New({f, g}, 0, ce)

(* A socketpair that fails in its last step takes its descriptors back one *)
(* at a time.                                                              *)
HalfPair ==
  /\ last' = <<"half", FALSE>>
  /\ \E f, g \in Fd \ open :
       /\ f < g /\ \A h \in 0 .. g : h \in open \cup {f, g}
       /\ open' = open \cup {g} /\ flags' = flags

Dupfd(ce) == last' = <<"dupfd", ce>> /\ \E f, least \in Fd : New({f}, least, ce)

(* dup2 and dup3 choose the number; dup2(fd, fd) clears the flag, which    *)
(* Linux itself would leave alone.                                         *)
Dup2(ce) ==
  /\ last' = <<"dup2", ce>>
  /\ \E f \in Fd : open' = open \cup {f} /\ flags' = Flagged({f}, ce)

Close == last' = <<"close", FALSE>> /\ \E f \in open : open' = open \ {f} /\ flags' = flags \ {f}

Setfd(ce) == last' = <<"setfd", ce>> /\ open' = open /\ \E f \in open : flags' = Flagged({f}, ce)

Exec == last' = <<"exec", FALSE>> /\ open' = open \ flags /\ flags' = {}

Calls ==
  \/ \E ce \in BOOLEAN : Open(ce) \/ Pipe(ce) \/ Dupfd(ce) \/ Dup2(ce) \/ Setfd(ce)
  \/ Close \/ HalfPair \/ Exec

Next == broken' \/ (Calls /\ UNCHANGED broken)

Spec == Init /\ [][Next]_vars
=============================================================================
