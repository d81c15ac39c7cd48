-------------------------- MODULE MCRefBaseAssign --------------------------
(***************************************************************************)
(* Sequences of RefBase calls over a few objects and counters.  The       *)
(* caller keeps the rules the spec and the comment at refbase.cpp 506-511 *)
(* give, except for the misuses named in Misuse:                           *)
(*   - handles are taken only on heap objects;                             *)
(*   - an object that has handles is never assigned over or moved from     *)
(*     ("assign_shared" lifts this);                                       *)
(*   - only objects on the stack are moved into ("move_into_heap" lifts    *)
(*     this);                                                              *)
(*   - ExtendObjectLifetime is called on heap objects that have a counter *)
(*     (refbase.cpp 567 does not check refs_).                             *)
(***************************************************************************)
EXTENDS RefBaseAssign, TLC

CONSTANT Misuse

Shared(o) == sh[o] > 0 \/ (mem.refs[o] # Null /\ wk[mem.refs[o]] > 0)
Allowed(m) == m \in Misuse

Next ==
  \/ \E o \in Objs, k \in Kinds : Construct(o, k)
  \/ \E o, x \in Objs, k \in Kinds : CopyConstruct(o, x, k)
  \/ \E o, x \in Objs :
       /\ ~Shared(o) \/ Allowed("assign_shared")
       /\ CopyAssign(o, x)
  \/ \E o, x \in Objs, k \in Kinds :
       /\ ~Shared(x) \/ Allowed("assign_shared")
       /\ k = "stack" \/ Allowed("move_into_heap")
       /\ MoveConstruct(o, x, k)
  \/ \E o, x \in Objs :
       /\ (~Shared(o) /\ ~Shared(x)) \/ Allowed("assign_shared")
       /\ mem.obj[o] = "stack" \/ Allowed("move_into_heap")
       /\ MoveAssign(o, x)
  \/ \E o \in Objs : Destroy(o)
  \/ \E o \in Objs :
       /\ mem.obj[o] = "heap"
       /\ mem.refs[o] # Null
       /\ ExtendObjectLifetime(o)
  \/ \E o \in Objs : mem.obj[o] = "heap" /\ SptrNew(o)
  \/ \E o \in Objs : SptrDrop(o)
  \/ \E o \in Objs : mem.obj[o] = "heap" /\ WptrNew(o)
  \/ \E c \in Ctrs : WptrDrop(c)

Spec == Init /\ [][Next]_vars

(* Objects and counter addresses are interchangeable. *)
Symm == Permutations(Objs) \cup Permutations(Ctrs)

-----------------------------------------------------------------------------
Owners(c) == {o \in Objs : mem.refs[o] = c}
StrongHandles(c) == MapThenSumSet(LAMBDA o : sh[o], Owners(c))

(* No call touches a freed RefCounter or a deleted object, or deletes an  *)
(* object twice: the sptr, wptr, destructor and assignment paths of       *)
(* refbase.cpp release each counter and object exactly when its last      *)
(* holder lets go.                                                        *)
NoUseAfterFree ==
  mem.fault \cap {"uaf_counter", "uaf_object", "double_delete"} = {}

(* The counts of every live RefCounter are those of the handles that hold *)
(* it through its owner: atomicStrong_ is the number of strong handles,   *)
(* or the sentinel if there never was one; atomicWeak_ counts the strong  *)
(* handles and the wptrs.  Copy and move must keep counts and owners      *)
(* together.                                                              *)
CountsMatchHandles ==
  \A c \in Ctrs : mem.ctr[c].st = "live" =>
    LET k == mem.ctr[c] n == StrongHandles(c)
    IN /\ k.strong = n \/ (n = 0 /\ k.strong \in {0, INITIAL_PRIMARY_VALUE})
       /\ k.weak = n + wk[c]

(* Each RefCounter has at most one owning object, and it is allocated     *)
(* exactly while an object owns it or a wptr holds it: copy and move      *)
(* neither share a counter, nor leak the one they replace, nor leave an   *)
(* object with a freed one.                                               *)
CounterOwnership ==
  \A c \in Ctrs :
    /\ Cardinality(Owners(c)) <= 1
    /\ mem.ctr[c].st = "live" <=> Owners(c) # {} \/ wk[c] > 0

(* A heap object whose count has left the sentinel stays alive only while *)
(* a strong handle holds it, or its life is extended and a wptr holds it: *)
(* the last release deletes it (refbase.cpp 600-622, 317-350).            *)
HeapObjectsHeld ==
  \A o \in Objs :
    LET c == mem.refs[o]
    IN mem.obj[o] = "heap" /\ c # Null
       /\ mem.ctr[c].strong # INITIAL_PRIMARY_VALUE
         => sh[o] > 0 \/ (mem.ctr[c].ext /\ wk[c] > 0)

(* The object a counter's callback deletes is the one that owns the       *)
(* counter (spec section 3: the object exclusively owns its counter, which *)
(* destroys it).                                                          *)
CallbackDeletesOwner == "wrong_delete" \notin mem.fault

====
