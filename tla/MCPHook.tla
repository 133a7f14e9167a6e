------------------------------ MODULE MCPHook ------------------------------
(* Two threads, or one and the clone of it. *)
EXTENDS PHook, TLC

CONSTANTS t1, t2

TwoThreads == {t1, t2}
ThreadsAreAlike == Permutations(TwoThreads)
=============================================================================
