----------------------------- MODULE MCRefBase -----------------------------
(* Instantiation of RefBase for TLC.  INITIAL_PRIMARY_VALUE is the value   *)
(* of refbase.h, 1 << 28; the thread and WeakRefCounter sets are model     *)
(* values given in the .cfg files.                                         *)
EXTENDS RefBase, TLC

MCInitialPrimaryValue == 2^28

-----------------------------------------------------------------------------
(* The refinement mapping onto Lifetime.tla: the object's life is         *)
(* objAlive, the counter's is the negation of counterFreed, the object    *)
(* has had a strong owner once the count has left the sentinel, and the   *)
(* handles are those credited to the threads.  A handle in the making     *)
(* (between its library calls and its crediting) is not yet counted.      *)
Life == INSTANCE Lifetime WITH
          objAlive <- objAlive,
          ctrAlive <- ~counterFreed,
          everStrong <- strong # INITIAL,
          ext <- extended,
          rawH <- Cardinality(raw),
          strongH <- SptrCount,
          weakH <- SumFunction([i \in WrcIds |-> WptrCount(i)])

(* RefBase implements Lifetime: every step of every thread either leaves  *)
(* the handles and the two lives alone or is a step of the abstract       *)
(* specification; in particular the callback deletes the object, and      *)
(* DecRefCount frees the counter, only when the abstract rules allow it.  *)
ImplementsLifetime == Life!Spec
=============================================================================
