---------------------------- MODULE MCIPCHarness ----------------------------
(* IPCHarness with the sentinel's real value, 2^28. *)
EXTENDS IPCHarness, TLC

MCInitialPrimaryValue == 2^28

MCThreadSymmetry == Permutations(Threads)
=============================================================================
