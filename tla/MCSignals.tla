----------------------------- MODULE MCSignals -----------------------------
(* Two signals for TLC: SIGINT has the same number on Linux and Darwin,    *)
(* SIGUSR1 has not.  The set of the program also holds signals that        *)
(* cannot be blocked or that Darwin does not have.                         *)
EXTENDS Signals

MCSigs == {LINUX_SIG["INT"], LINUX_SIG["USR1"]}
Handler(once, block) == [h |-> "fn", once |-> once, block |-> block]

MCActs ==
  [s \in MCSigs |->
    IF s = LINUX_SIG["INT"] THEN {Dfl, Ign, Handler(FALSE, {s})}
    ELSE {Dfl, Handler(TRUE, {s}), Handler(FALSE, MCSigs)}]
MCMasks == {{}, MCSigs \cup {LINUX_SIG["KILL"], LINUX_SIG["STKFLT"], 34}}
=============================================================================
