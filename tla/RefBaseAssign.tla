--------------------------- MODULE RefBaseAssign ---------------------------
(***************************************************************************)
(* Construction, copy, move and destruction of RefBase objects, each with *)
(* its own RefCounter (src/base/src/refbase.cpp 185-563).                  *)
(*                                                                         *)
(* RefBase.tla follows one object and one counter through every atomic    *)
(* step of its threads.  Here there are several objects and counters,     *)
(* and each call (a constructor, an assignment, a handle taken or         *)
(* released) is one step: the spec makes copy, move and destruction      *)
(* callers' exclusive business, not to be raced with handle operations,   *)
(* so what this module asks is which SEQUENCES of calls are sound.        *)
(*                                                                         *)
(* The whole heap is the record `mem`:                                     *)
(*   mem.ctr[c]  RefCounter c: its allocation state, atomicStrong_,        *)
(*               atomicWeak_, atomicRefCount_, the object callback_       *)
(*               deletes (the `this` its lambda captured) and the         *)
(*               lifetime-extended flag;                                   *)
(*   mem.obj[o]  object o: not yet built, alive on the heap or on the      *)
(*               stack, or gone;                                           *)
(*   mem.refs[o] its refs_;                                                *)
(*   mem.fault   the memory errors committed so far.                       *)
(* A call is a composition of the helpers below, each a function from     *)
(* one `mem` to the next, in the order the code makes them.               *)
(* sptr<T> holds a T*: sh[o] strong handles on object o.  wptr<T> holds   *)
(* its own WeakRefCounter, bound to the RefCounter of the moment: wk[c]   *)
(* weak handles on counter c.                                              *)
(***************************************************************************)
EXTENDS Naturals, FiniteSets, FiniteSetsExt

CONSTANTS
  Objs,      \* the objects
  Ctrs,      \* the addresses a RefCounter may be allocated at
  Null,      \* nullptr
  MaxSptr,   \* bound on the strong handles of one object
  MaxWptr    \* bound on the weak handles of one counter

ASSUME Null \notin Objs \cup Ctrs

VARIABLES mem, sh, wk

vars == <<mem, sh, wk>>

INITIAL_PRIMARY_VALUE == 268435456   \* 1 << 28

Faults == {"uaf_counter", "uaf_object", "double_delete", "delete_stack",
           "wrong_delete", "null_deref"}

FreshCounter(o) ==
  [st |-> "live", strong |-> INITIAL_PRIMARY_VALUE, weak |-> 0, refCount |-> 0,
   cb |-> o, ext |-> FALSE]

Init ==
  /\ mem = [ctr |-> [c \in Ctrs |-> [FreshCounter(Null) EXCEPT !.st = "unused"]],
            obj |-> [o \in Objs |-> "none"],
            refs |-> [o \in Objs |-> Null],
            fault |-> {}]
  /\ sh = [o \in Objs |-> 0]
  /\ wk = [c \in Ctrs |-> 0]

Alive(m, o) == m.obj[o] \in {"heap", "stack"}
Fault(m, f) == [m EXCEPT !.fault = @ \cup {f}]
Unused(m) == {c \in Ctrs : m.ctr[c].st = "unused"}

-----------------------------------------------------------------------------
(* RefCounter.  Every access to a freed counter is a use after free; what *)
(* it then reads or writes is undefined, and the model lets it proceed on *)
(* the stale fields.                                                      *)
Use(m, c) == IF m.ctr[c].st = "freed" THEN Fault(m, "uaf_counter") ELSE m

IncRefCount(m, c) == [Use(m, c) EXCEPT !.ctr[c].refCount = @ + 1]

(* DecRefCount: deletes the counter when the last count goes.             *)
DecRefCount(m, c) ==
  LET u == Use(m, c) n == u.ctr[c].refCount
  IN IF n = 0 THEN u
     ELSE IF n = 1 THEN [u EXCEPT !.ctr[c].refCount = 0, !.ctr[c].st = "freed"]
     ELSE [u EXCEPT !.ctr[c].refCount = n - 1]

RemoveCallback(m, c) == [Use(m, c) EXCEPT !.ctr[c].cb = Null]

IncWeakRefCount(m, c) == [Use(m, c) EXCEPT !.ctr[c].weak = @ + 1]

(* Mutant: the sentinel is left in the count.                             *)
IncStrongRefCount_NoFix(m, c) ==
  LET u == Use(m, c) n == u.ctr[c].strong
  IN IF n < 0 THEN u ELSE [u EXCEPT !.ctr[c].strong = n + 1]

(* IncStrongRefCount: the first strong reference removes the sentinel.     *)
IncStrongRefCount(m, c) ==
  LET u == Use(m, c) n == u.ctr[c].strong
  IN IF n < 0 THEN u
     ELSE IF n = INITIAL_PRIMARY_VALUE THEN [u EXCEPT !.ctr[c].strong = 1]
     ELSE [u EXCEPT !.ctr[c].strong = n + 1]

(* A new counter, counted once by its object, whose callback deletes o.  *)
NewCounter(m, o, c) ==
  [m EXCEPT !.ctr[c] = [FreshCounter(o) EXCEPT !.refCount = 1], !.refs[o] = c]

-----------------------------------------------------------------------------
(* Mutant: the destructor always releases the counter.                    *)
RefBaseDtor_AlwaysRelease(m, o) ==
  LET c == m.refs[o]
  IN IF c = Null THEN m
     ELSE [DecRefCount(RemoveCallback(m, c), c) EXCEPT !.refs[o] = Null]

(* ~RefBase: the callback is removed and the counter released if the      *)
(* object never had a strong reference, or its life is extended and no   *)
(* weak reference is left.                                                *)
RefBaseDtor(m, o) ==
  LET c == m.refs[o]
      u == RemoveCallback(m, c)
      release == \/ u.ctr[c].ext /\ u.ctr[c].weak = 0
                 \/ u.ctr[c].strong = INITIAL_PRIMARY_VALUE
  IN IF c = Null THEN m
     ELSE [(IF release THEN DecRefCount(u, c) ELSE u) EXCEPT !.refs[o] = Null]

(* RefPtrCallback, `delete this`, of the object x the lambda captured.     *)
DeleteObject(m, x) ==
  LET u == IF m.obj[x] = "stack" THEN Fault(m, "delete_stack") ELSE m
  IN IF ~Alive(m, x) THEN Fault(m, "double_delete")
     ELSE [RefBaseDtor(u, x) EXCEPT !.obj[x] = "gone"]

(* `if (callback_) callback_();` on counter c.  The object it deletes     *)
(* should be the one whose refs_ is c.                                    *)
FireCallback(m, c) ==
  LET x == m.ctr[c].cb
  IN IF x = Null THEN m
     ELSE DeleteObject(IF m.refs[x] # c THEN Fault(m, "wrong_delete") ELSE m, x)

(* DecWeakRefCount: the last weak reference deletes the object if its    *)
(* life is extended or it never had a strong one, else the counter.       *)
DecWeakRefCount(m, c) ==
  LET u == Use(m, c) n == u.ctr[c].weak
      v == IF n > 0 THEN [u EXCEPT !.ctr[c].weak = n - 1] ELSE u
  IN IF n # 1 THEN v
     ELSE IF v.ctr[c].ext \/ v.ctr[c].strong = INITIAL_PRIMARY_VALUE
          THEN FireCallback(v, c)
          ELSE DecRefCount(v, c)

(* RefBase::IncStrongRef and RefBase::DecStrongRef; the latter keeps the *)
(* counter in a local, so the weak release after the callback reaches it *)
(* even though the object is gone.                                        *)
IncStrongRef(m, o) ==
  LET c == m.refs[o]
  IN IF c = Null THEN m ELSE IncStrongRefCount(IncWeakRefCount(m, c), c)

(* Mutant: the callback is fired when the count it leaves is 1.          *)
DecStrongRef_OffByOne(m, o) ==
  LET c == m.refs[o]
      u == Use(m, c) n == u.ctr[c].strong
      v == IF n # INITIAL_PRIMARY_VALUE /\ n > 0
           THEN [u EXCEPT !.ctr[c].strong = n - 1] ELSE u
      w == IF n = 2 /\ ~v.ctr[c].ext THEN FireCallback(v, c) ELSE v
  IN IF c = Null THEN m ELSE DecWeakRefCount(w, c)

DecStrongRef(m, o) ==
  LET c == m.refs[o]
      u == Use(m, c) n == u.ctr[c].strong
      v == IF n # INITIAL_PRIMARY_VALUE /\ n > 0
           THEN [u EXCEPT !.ctr[c].strong = n - 1] ELSE u
      w == IF n = 1 /\ ~v.ctr[c].ext THEN FireCallback(v, c) ELSE v
  IN IF c = Null THEN m ELSE DecWeakRefCount(w, c)

(* The old counter of an assignment's target: callback removed, released. *)
ReleaseOld(m, o) ==
  LET c == m.refs[o]
  IN IF c = Null THEN m ELSE DecRefCount(RemoveCallback(m, c), c)

-----------------------------------------------------------------------------
(* The calls.  `kind` says where a new object lives.                        *)
Kinds == {"heap", "stack"}

(* RefBase(): a counter that cannot be allocated throws.                   *)
Construct(o, kind) ==
  /\ mem.obj[o] = "none"
  /\ \E c \in Unused(mem) : mem' = [NewCounter(mem, o, c) EXCEPT !.obj[o] = kind]
  /\ UNCHANGED <<sh, wk>>

(* RefBase(const RefBase &): a fresh counter, or none when the nothrow    *)
(* allocation fails; the source is not read.                              *)
CopyConstruct(o, x, kind) ==
  /\ mem.obj[o] = "none" /\ Alive(mem, x)
  /\ \/ \E c \in Unused(mem) : mem' = [NewCounter(mem, o, c) EXCEPT !.obj[o] = kind]
     \/ mem' = [mem EXCEPT !.obj[o] = kind]
  /\ UNCHANGED <<sh, wk>>

(* operator=(const RefBase &): the old counter loses its callback and is  *)
(* released, whoever else still holds it; then a fresh counter, or none. *)
CopyAssign(o, x) ==
  /\ Alive(mem, o) /\ Alive(mem, x)
  /\ LET m == ReleaseOld(mem, o)
     IN \/ \E c \in Unused(m) : mem' = NewCounter(m, o, c)
        \/ mem' = [m EXCEPT !.refs[o] = Null]
  /\ UNCHANGED <<sh, wk>>

(* Mutant: the source keeps its counter.                                   *)
MoveConstruct_NoClear(o, x, kind) ==
  /\ mem.obj[o] = "none" /\ Alive(mem, x)
  /\ mem' = [mem EXCEPT !.obj[o] = kind, !.refs[o] = mem.refs[x]]
  /\ UNCHANGED <<sh, wk>>

(* RefBase(RefBase &&): the counter, callback and all, changes hands.      *)
MoveConstruct(o, x, kind) ==
  /\ mem.obj[o] = "none" /\ Alive(mem, x)
  /\ mem' = [mem EXCEPT !.obj[o] = kind, !.refs[o] = mem.refs[x], !.refs[x] = Null]
  /\ UNCHANGED <<sh, wk>>

(* operator=(RefBase &&): nothing if both hold the same counter (or none), *)
(* else the old counter is released and the source's taken over.         *)
MoveAssign(o, x) ==
  /\ Alive(mem, o) /\ Alive(mem, x)
  /\ IF mem.refs[o] = mem.refs[x] THEN UNCHANGED mem
     ELSE mem' = [ReleaseOld(mem, o) EXCEPT !.refs[o] = mem.refs[x], !.refs[x] = Null]
  /\ UNCHANGED <<sh, wk>>

(* A stack object leaves its scope.                                        *)
Destroy(o) ==
  /\ mem.obj[o] = "stack"
  /\ mem' = [RefBaseDtor(mem, o) EXCEPT !.obj[o] = "gone"]
  /\ UNCHANGED <<sh, wk>>

(* RefBase::ExtendObjectLifetime dereferences refs_ unchecked.            *)
ExtendObjectLifetime(o) ==
  /\ Alive(mem, o)
  /\ LET c == mem.refs[o]
     IN mem' = IF c = Null THEN Fault(mem, "null_deref")
               ELSE [Use(mem, c) EXCEPT !.ctr[c].ext = TRUE]
  /\ UNCHANGED <<sh, wk>>

(* sptr<T>(T *p): IncStrongRef on the object.                                *)
SptrNew(o) ==
  /\ Alive(mem, o) /\ sh[o] < MaxSptr
  /\ mem' = IncStrongRef(mem, o)
  /\ sh' = [sh EXCEPT ![o] = @ + 1]
  /\ UNCHANGED wk

(* ~sptr<T>: DecStrongRef on the object it points at, freed or not.       *)
SptrDrop(o) ==
  /\ sh[o] > 0
  /\ mem' = IF Alive(mem, o) THEN DecStrongRef(mem, o) ELSE Fault(mem, "uaf_object")
  /\ sh' = [sh EXCEPT ![o] = @ - 1]
  /\ UNCHANGED wk

(* wptr<T>(T *p): CreateWeakRef makes a WeakRefCounter, which counts the    *)
(* RefCounter once, and its first weak reference takes one on it.  With  *)
(* a null refs_ the wptr is empty and nothing changes.                    *)
WptrNew(o) ==
  /\ Alive(mem, o) /\ mem.refs[o] # Null
  /\ LET c == mem.refs[o]
     IN /\ wk[c] < MaxWptr
        /\ mem' = IncWeakRefCount(IncRefCount(mem, c), c)
        /\ wk' = [wk EXCEPT ![c] = @ + 1]
  /\ UNCHANGED sh

(* ~wptr<T>: the WeakRefCounter's last weak reference releases one on the *)
(* RefCounter, then `delete this` releases its count of it.               *)
WptrDrop(c) ==
  /\ wk[c] > 0
  /\ mem' = DecRefCount(DecWeakRefCount(mem, c), c)
  /\ wk' = [wk EXCEPT ![c] = @ - 1]
  /\ UNCHANGED sh

====
