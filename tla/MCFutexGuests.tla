--------------------------- MODULE MCFutexGuests ---------------------------
(* Constants of FutexGuests for model checking: three threads, one word to *)
(* wait for and the lock.                                                  *)
EXTENDS FutexGuests

CONSTANTS uaddrA, uaddrB, b1, b2, b3, x
MCThreads == 1..3
MCAddrs == {uaddrA, uaddrB}
MCBlocks == {b1, b2, b3}
MCBits == {x}
MCWords == 0..3
MCCondWords == {0, 1}
MCCounts == {-1, 1}
MCCommands == {"WAIT", "WAKE", "LOCK_PI"}
=============================================================================
