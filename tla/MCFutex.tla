------------------------------- MODULE MCFutex -------------------------------
(* Constants of Futex and FutexRefine for model checking.                  *)
EXTENDS FutexRefine, TLC

CONSTANTS uaddrA, uaddrB, b1, b2, b3, b4, x
MCThreads == 1..4
MCThreeThreads == 1..3
MCAddrs == {uaddrA, uaddrB}
MCAddr == {uaddrA}
MCBlocks == {b1, b2, b3, b4}
MCThreeBlocks == {b1, b2, b3}
MCBits == {x}
MCWords == {0}
MCQueues == {"WAIT_BITSET", "WAKE_BITSET", "CMP_REQUEUE_PI"}
MCTimed == {"WAIT", "WAKE", "WAKE_OP", "WAIT_REQUEUE_PI", "LOCK_PI"}
MCSymmetry == Permutations(MCBlocks) \cup Permutations(MCAddrs)
MCBlockSymmetry == Permutations(MCThreeBlocks)
MCCounts == {-1, 1}
=============================================================================
