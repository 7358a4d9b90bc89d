----------------------------- MODULE MCRemoteCall -----------------------------
(* RemoteCall for TLC: callers are alike, which its safety properties and    *)
(* ThreadPool allow to make use of.                                          *)
EXTENDS RemoteCall, TLC

CallersAreAlike == Permutations(Callers)
=============================================================================
