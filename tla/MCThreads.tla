----------------------------- MODULE MCThreads -----------------------------
EXTENDS Threads, TLC

CONSTANTS t1, t2, s1, l1, c1

MCThread == {Main, Idle, t1, t2}
MCCondLock == c1 :> l1
MCInitValue == s1 :> 0
============================================================================
