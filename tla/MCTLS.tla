------------------------------- MODULE MCTLS -------------------------------
(* Model-checking instance of TLS: two or three threads, two-byte pages,   *)
(* records of one or two pages and a pool of three page frames.            *)
EXTENDS TLS, TLC

CONSTANTS t1, t2, t3, f1, f2, f3

MCThreads2 == {t1, t2}
MCThreads3 == {t1, t2, t3}
MCFrames == {f1, f2, f3}

Symm == Permutations(MCFrames) \cup Permutations(MCThreads2)
=============================================================================
