------------------------------ MODULE RefBase ------------------------------
(***************************************************************************)
(* The intrusive strong/weak reference counting of src/base/src/refbase.cpp *)
(* for ONE object derived from RefBase, its RefCounter control block and    *)
(* the WeakRefCounter blocks created for it, used concurrently by client    *)
(* threads that hold sptr and wptr handles (refbase.h, not under src/: the  *)
(* handle operations are modelled from the spec).                          *)
(*                                                                         *)
(* Every atomic access of the code (load, fetch_add, fetch_sub, CAS) and    *)
(* every read or write of the plain fields callback_ and cookie_ is one     *)
(* step of the thread that executes it; a thread's position in the code is *)
(* pc[t], the return points of nested calls are stack[t].  Compare-exchange *)
(* is modelled as the strong CAS: a spurious failure of compare_exchange_   *)
(* weak only repeats the loop with the value it just read.                 *)
(***************************************************************************)
EXTENDS Integers, FiniteSets, Sequences, Functions

CONSTANTS
  Threads,               \* client threads
  RawHolders,            \* threads given the raw pointer returned by new
  WrcIds,                \* identities of WeakRefCounter blocks (bounds how many are made)
  NoWrc,                 \* "no WeakRefCounter" for the local w[t]
  MaxOps,                \* handle-creating calls each thread may make
  INITIAL_PRIMARY_VALUE, \* strong-count sentinel of refbase.h: never had a strong ref
  ExtendAtInit,          \* values of the extended-lifetime flag after construction
  OhosPlatform,          \* OHOS_PLATFORM defined: the canPromote_ gate is compiled in
  CanPromoteResults      \* answers the object's CanPromote() override may give

ASSUME RawHolders \subseteq Threads
ASSUME NoWrc \notin WrcIds
ASSUME MaxOps \in Nat /\ INITIAL_PRIMARY_VALUE \in Nat \ {0}
ASSUME ExtendAtInit \subseteq BOOLEAN /\ ExtendAtInit # {}
ASSUME OhosPlatform \in BOOLEAN
ASSUME CanPromoteResults \subseteq BOOLEAN /\ CanPromoteResults # {}

INITIAL == INITIAL_PRIMARY_VALUE

VARIABLES
  \* RefCounter (refbase.cpp 185-188): atomicStrong_, atomicWeak_,
  \* atomicRefCount_, FLAG_EXTEND_LIFE_TIME of atomicFlags_, callback_ set,
  \* whether the block has been deleted, and atomicAttempt_.
  strong, weak, refCount, extended, callback, counterFreed, attempt,
  \* the RefBase object: not yet deleted; how often OnFirstStrongRef and
  \* OnLastStrongRef ran; the UTILS_LOGF diagnostics it reported.
  objAlive, firstRefs, lastRefs, fatal,
  \* WeakRefCounter blocks: state, atomicWeak_, cookie_ # nullptr.
  wrc,
  \* handles: threads still holding the raw pointer; sptrs held per thread;
  \* wptrs held per thread and WeakRefCounter.
  raw, sp, wp,
  \* per-thread control: program point, return points, the local curCount,
  \* the boolean result of a promotion, the WeakRefCounter in use, the
  \* thread that receives the handle being made, calls made so far.
  pc, stack, cur, res, w, dst, ops

counterVars == <<strong, weak, refCount, extended, callback, counterFreed,
                attempt>>
objVars     == <<objAlive, firstRefs, lastRefs, fatal>>
handleVars  == <<wrc, raw, sp, wp>>
localVars   == <<cur, res, w, dst, ops>>
vars == <<counterVars, objVars, handleVars, pc, stack, localVars>>

-----------------------------------------------------------------------------
(* Control flow of a thread. *)
Goto(t, l)    == pc' = [pc EXCEPT ![t] = l] /\ UNCHANGED stack
Call(t, l, r) == /\ pc' = [pc EXCEPT ![t] = l]
                 /\ stack' = [stack EXCEPT ![t] = <<r>> \o @]
Return(t)     == /\ pc' = [pc EXCEPT ![t] = Head(stack[t])]
                 /\ stack' = [stack EXCEPT ![t] = Tail(@)]
(* Call l, which returns through the labels rs in order. *)
CallChain(t, l, rs) == /\ pc' = [pc EXCEPT ![t] = l]
                       /\ stack' = [stack EXCEPT ![t] = rs \o @]
At(t, l) == pc[t] = l
SetCur(t, v) == cur' = [cur EXCEPT ![t] = v]

Init ==
  /\ strong = INITIAL /\ weak = 0 /\ refCount = 1   \* RefBase(): IncRefCount
  /\ extended \in ExtendAtInit /\ callback = TRUE /\ counterFreed = FALSE
  /\ attempt = 0
  /\ objAlive = TRUE /\ firstRefs = 0 /\ lastRefs = 0 /\ fatal = {}
  /\ wrc = [i \in WrcIds |-> [st |-> "unused", weak |-> 0, cookie |-> FALSE]]
  /\ raw = RawHolders
  /\ sp = [t \in Threads |-> 0]
  /\ wp = [t \in Threads |-> [i \in WrcIds |-> 0]]
  /\ pc = [t \in Threads |-> "Idle"] /\ stack = [t \in Threads |-> <<>>]
  /\ cur = [t \in Threads |-> 0] /\ res = [t \in Threads |-> FALSE]
  /\ w = [t \in Threads |-> NoWrc] /\ dst = [t \in Threads |-> t]
  /\ ops = [t \in Threads |-> 0]

-----------------------------------------------------------------------------
(* RefCounter::DecRefCount: the load guarding the release, then the        *)
(* fetch_sub; the thread that takes the count from 1 to 0 deletes the block.*)
DecRefCount_Load(t) ==
  /\ At(t, "RC_Load")
  /\ IF refCount > 0 THEN Goto(t, "RC_Sub") ELSE Return(t)
  /\ UNCHANGED <<counterVars, objVars, handleVars, localVars>>

DecRefCount_Sub(t) ==
  /\ At(t, "RC_Sub")
  /\ refCount' = refCount - 1
  /\ counterFreed' = (counterFreed \/ refCount = 1)
  /\ Return(t)
  /\ UNCHANGED <<strong, weak, extended, callback, attempt, objVars, handleVars,
                 localVars>>

(* RefBase::RefPtrCallback, run through callback_: delete this, whose      *)
(* ~RefBase removes the callback and releases the object's share of the    *)
(* RefCounter only if (lifetime extended and no weak ref is left) or the   *)
(* object never had a strong ref.                                         *)
RefBaseDtor_Remove(t) ==
  /\ At(t, "DT_Remove")
  /\ objAlive' = FALSE
  /\ callback' = FALSE
  /\ Goto(t, IF extended THEN "DT_Weak" ELSE "DT_Strong")
  /\ UNCHANGED <<strong, weak, refCount, extended, counterFreed, attempt, firstRefs,
                 lastRefs, fatal, handleVars, localVars>>

RefBaseDtor_Weak(t) ==
  /\ At(t, "DT_Weak")
  /\ Goto(t, IF weak = 0 THEN "RC_Load" ELSE "DT_Strong")
  /\ UNCHANGED <<counterVars, objVars, handleVars, localVars>>

(* Mutant: the destructor releases the object's share whatever the strong *)
(* count, dropping the never-had-a-strong-ref condition.                  *)
RefBaseDtor_Strong_AlwaysRelease(t) ==
  /\ At(t, "DT_Strong")
  /\ Goto(t, "RC_Load")
  /\ UNCHANGED <<counterVars, objVars, handleVars, localVars>>

RefBaseDtor_Strong(t) ==
  /\ At(t, "DT_Strong")
  /\ IF strong = INITIAL THEN Goto(t, "RC_Load") ELSE Return(t)
  /\ UNCHANGED <<counterVars, objVars, handleVars, localVars>>

(* RefCounter::DecWeakRefCount: load, fetch_sub if positive; the thread    *)
(* that saw 1 runs the callback if the lifetime is extended or the object  *)
(* never had a strong ref, and otherwise releases the object's share.     *)
DecWeakRefCount_Load(t) ==
  /\ At(t, "DW_Load")
  /\ SetCur(t, weak)
  /\ Goto(t, IF weak > 0 THEN "DW_Sub" ELSE "DW_Test")
  /\ UNCHANGED <<counterVars, objVars, handleVars, res, w, dst, ops>>

DecWeakRefCount_Sub(t) ==
  /\ At(t, "DW_Sub")
  /\ SetCur(t, weak)
  /\ weak' = weak - 1
  /\ Goto(t, "DW_Test")
  /\ UNCHANGED <<strong, refCount, extended, callback, counterFreed, attempt, objVars,
                 handleVars, res, w, dst, ops>>

DecWeakRefCount_Test(t) ==
  /\ At(t, "DW_Test")
  /\ IF cur[t] # 1 THEN Return(t)
     ELSE Goto(t, IF extended THEN "DW_Callback" ELSE "DW_Sentinel")
  /\ UNCHANGED <<counterVars, objVars, handleVars, localVars>>

DecWeakRefCount_Sentinel(t) ==
  /\ At(t, "DW_Sentinel")
  /\ Goto(t, IF strong = INITIAL THEN "DW_Callback" ELSE "RC_Load")
  /\ UNCHANGED <<counterVars, objVars, handleVars, localVars>>

DecWeakRefCount_Callback(t) ==
  /\ At(t, "DW_Callback")
  /\ IF callback THEN Goto(t, "DT_Remove") ELSE Return(t)
  /\ UNCHANGED <<counterVars, objVars, handleVars, localVars>>

-----------------------------------------------------------------------------
(* RefBase::IncStrongRef: IncWeakRef, then RefCounter::IncStrongRefCount   *)
(* (load; if >= 0 fetch_add; if that returned the sentinel, subtract it),  *)
(* then the FATAL check and OnFirstStrongRef on the value it returned.     *)
IncStrongRef_IncWeak(t) ==
  /\ At(t, "IS_IncWeak")
  /\ weak' = weak + 1
  /\ Goto(t, "IS_Load")
  /\ UNCHANGED <<strong, refCount, extended, callback, counterFreed, attempt, objVars,
                 handleVars, localVars>>

IncStrongRef_Load(t) ==
  /\ At(t, "IS_Load")
  /\ SetCur(t, strong)
  /\ Goto(t, IF strong >= 0 THEN "IS_Add" ELSE "IS_Check")
  /\ UNCHANGED <<counterVars, objVars, handleVars, res, w, dst, ops>>

(* Mutant: the fetch_add result is discarded and the earlier load is used *)
(* to decide the first-attach fixup.                                      *)
IncStrongRef_Add_StaleLoad(t) ==
  /\ At(t, "IS_Add")
  /\ strong' = strong + 1
  /\ Goto(t, IF cur[t] = INITIAL THEN "IS_Fix" ELSE "IS_Check")
  /\ UNCHANGED <<weak, refCount, extended, callback, counterFreed, attempt, objVars,
                 handleVars, localVars>>

IncStrongRef_Add(t) ==
  /\ At(t, "IS_Add")
  /\ SetCur(t, strong)
  /\ strong' = strong + 1
  /\ Goto(t, IF strong = INITIAL THEN "IS_Fix" ELSE "IS_Check")
  /\ UNCHANGED <<weak, refCount, extended, callback, counterFreed, attempt, objVars,
                 handleVars, res, w, dst, ops>>

(* Mutant: the first-attach fixup is missing; the sentinel stays added.   *)
IncStrongRef_Fix_Skipped(t) ==
  /\ At(t, "IS_Fix")
  /\ Goto(t, "IS_Check")
  /\ UNCHANGED <<counterVars, objVars, handleVars, localVars>>

IncStrongRef_Fix(t) ==
  /\ At(t, "IS_Fix")
  /\ strong' = strong - INITIAL
  /\ Goto(t, "IS_Check")
  /\ UNCHANGED <<weak, refCount, extended, callback, counterFreed, attempt, objVars,
                 handleVars, localVars>>

IncStrongRef_Check(t) ==
  /\ At(t, "IS_Check")
  /\ fatal' = IF ~extended /\ cur[t] = 0 THEN fatal \cup {"IncStrongAfterLast"}
              ELSE fatal
  /\ firstRefs' = IF cur[t] = INITIAL THEN firstRefs + 1 ELSE firstRefs
  /\ Return(t)
  /\ UNCHANGED <<counterVars, objAlive, lastRefs, handleVars, localVars>>

(* RefCounter::DecStrongRefCount, a subroutine: load; fetch_sub unless the *)
(* load saw the sentinel or a count <= 0; cur[t] is the value returned.    *)
DecStrongRefCount_Load(t) ==
  /\ At(t, "DSC_Load")
  /\ SetCur(t, strong)
  /\ IF strong # INITIAL /\ strong > 0 THEN Goto(t, "DSC_Sub") ELSE Return(t)
  /\ UNCHANGED <<counterVars, objVars, handleVars, res, w, dst, ops>>

(* Mutant: the value after the decrement is kept instead of fetch_sub's.  *)
DecStrongRefCount_Sub_NewValue(t) ==
  /\ At(t, "DSC_Sub")
  /\ SetCur(t, strong - 1)
  /\ strong' = strong - 1
  /\ Return(t)
  /\ UNCHANGED <<weak, refCount, extended, callback, counterFreed, attempt, objVars,
                 handleVars, res, w, dst, ops>>

DecStrongRefCount_Sub(t) ==
  /\ At(t, "DSC_Sub")
  /\ SetCur(t, strong)
  /\ strong' = strong - 1
  /\ Return(t)
  /\ UNCHANGED <<weak, refCount, extended, callback, counterFreed, attempt, objVars,
                 handleVars, res, w, dst, ops>>

(* RefBase::DecStrongRef after DecStrongRefCount returned cur[t]: the      *)
(* FATAL check; for the last strong ref the OnLastStrongRef hook and,      *)
(* unless the lifetime is extended, the callback; finally DecWeakRefCount  *)
(* on the saved counter.                                                   *)
AfterLastStrong(t, last) ==
  IF cur[t] = 1 THEN Call(t, "OnLastStrongRef", last) ELSE Goto(t, "DW_Load")

(* Mutant: off by one, the callback also runs when the count was 2.        *)
DecStrongRef_Check_OffByOne(t) ==
  /\ At(t, "DS_Check")
  /\ fatal' = IF cur[t] <= 0 THEN fatal \cup {"DecStrongTooMany"} ELSE fatal
  /\ lastRefs' = IF cur[t] = 1 THEN lastRefs + 1 ELSE lastRefs
  /\ IF cur[t] <= 2 /\ ~extended
     THEN IF cur[t] = 1 THEN Call(t, "OnLastStrongRef", "DS_Callback")
          ELSE Goto(t, "DS_Callback")
     ELSE AfterLastStrong(t, "DW_Load")
  /\ UNCHANGED <<counterVars, objAlive, firstRefs, handleVars, localVars>>

DecStrongRef_Check(t) ==
  /\ At(t, "DS_Check")
  /\ fatal' = IF cur[t] <= 0 THEN fatal \cup {"DecStrongTooMany"} ELSE fatal
  /\ lastRefs' = IF cur[t] = 1 THEN lastRefs + 1 ELSE lastRefs
  /\ AfterLastStrong(t, IF extended THEN "DW_Load" ELSE "DS_Callback")
  /\ UNCHANGED <<counterVars, objAlive, firstRefs, handleVars, localVars>>

DecStrongRef_Callback(t) ==
  /\ At(t, "DS_Callback")
  /\ IF callback THEN Call(t, "DT_Remove", "DW_Load") ELSE Goto(t, "DW_Load")
  /\ UNCHANGED <<counterVars, objVars, handleVars, localVars>>

(* The default RefBase::OnLastStrongRef does nothing; a derived class that *)
(* overrides it defines its own action at the label "OnLastStrongRef".     *)
RefBase_OnLastStrongRef(t) ==
  /\ At(t, "OnLastStrongRef")
  /\ Return(t)
  /\ UNCHANGED <<counterVars, objVars, handleVars, localVars>>

-----------------------------------------------------------------------------
(* RefCounter::AttemptIncStrongRef, the promotion of a weak ref: the count *)
(* is loaded BEFORE the weak count is pinned; a CAS loop while the count is *)
(* a real positive count; a CAS loop from the sentinel for a normal        *)
(* lifetime; for an extended lifetime the canPromote_ gate and an          *)
(* unconditional fetch_add.  At ATTEMPT_SUCCESS the sentinel is subtracted *)
(* if it was seen, and a count < 0, or 0 under a normal lifetime, undoes   *)
(* the pinning weak increment and fails.  A refusal of the gate returns    *)
(* false without undoing it (lines 425-426).                               *)
AttemptIncStrongRef_Load(t) ==
  /\ At(t, "AI_Load")
  /\ SetCur(t, strong)
  /\ Goto(t, "AI_IncWeak")
  /\ UNCHANGED <<counterVars, objVars, handleVars, res, w, dst, ops>>

AttemptIncStrongRef_IncWeak(t) ==
  /\ At(t, "AI_IncWeak")
  /\ weak' = weak + 1
  /\ Goto(t, "AI_Loop1")
  /\ UNCHANGED <<strong, refCount, extended, callback, counterFreed, attempt, objVars,
                 handleVars, localVars>>

(* One iteration of a compare_exchange loop while Cond holds: success adds *)
(* one and jumps to ATTEMPT_SUCCESS, failure stores the value seen in cur. *)
CasStep(t, cond, retry, exit) ==
  IF cond
  THEN IF strong = cur[t]
       THEN strong' = strong + 1 /\ Goto(t, "AI_Success") /\ UNCHANGED cur
       ELSE SetCur(t, strong) /\ Goto(t, retry) /\ UNCHANGED strong
  ELSE Goto(t, exit) /\ UNCHANGED <<strong, cur>>

AttemptIncStrongRef_Loop1(t) ==
  /\ At(t, "AI_Loop1")
  /\ CasStep(t, cur[t] > 0 /\ cur[t] # INITIAL, "AI_Reload1", "AI_Normal")
  /\ UNCHANGED <<weak, refCount, extended, callback, counterFreed, attempt, objVars,
                 handleVars, res, w, dst, ops>>

AttemptIncStrongRef_Reload1(t) ==
  /\ At(t, "AI_Reload1")
  /\ SetCur(t, strong)
  /\ Goto(t, "AI_Loop1")
  /\ UNCHANGED <<counterVars, objVars, handleVars, res, w, dst, ops>>

AttemptIncStrongRef_Normal(t) ==
  /\ At(t, "AI_Normal")
  /\ Goto(t, IF cur[t] = INITIAL /\ ~extended THEN "AI_Loop2" ELSE "AI_Ext")
  /\ UNCHANGED <<counterVars, objVars, handleVars, localVars>>

AttemptIncStrongRef_Loop2(t) ==
  /\ At(t, "AI_Loop2")
  /\ CasStep(t, cur[t] > 0, "AI_Reload2", "AI_Ext")
  /\ UNCHANGED <<weak, refCount, extended, callback, counterFreed, attempt, objVars,
                 handleVars, res, w, dst, ops>>

AttemptIncStrongRef_Reload2(t) ==
  /\ At(t, "AI_Reload2")
  /\ SetCur(t, strong)
  /\ Goto(t, "AI_Loop2")
  /\ UNCHANGED <<counterVars, objVars, handleVars, res, w, dst, ops>>

AttemptIncStrongRef_Ext(t) ==
  /\ At(t, "AI_Ext")
  /\ Goto(t, IF extended THEN "AI_Gate" ELSE "AI_Success")
  /\ UNCHANGED <<counterVars, objVars, handleVars, localVars>>

(* canPromote_ calls the object's CanPromote() override. *)
AttemptIncStrongRef_Gate(t) ==
  /\ At(t, "AI_Gate")
  /\ \E allow \in IF OhosPlatform THEN CanPromoteResults ELSE {TRUE} :
       IF allow THEN Goto(t, "AI_Add") /\ UNCHANGED res
       ELSE res' = [res EXCEPT ![t] = FALSE] /\ Return(t)
  /\ UNCHANGED <<counterVars, objVars, handleVars, cur, w, dst, ops>>

AttemptIncStrongRef_Add(t) ==
  /\ At(t, "AI_Add")
  /\ SetCur(t, strong)
  /\ strong' = strong + 1
  /\ Goto(t, "AI_Success")
  /\ UNCHANGED <<weak, refCount, extended, callback, counterFreed, attempt, objVars,
                 handleVars, res, w, dst, ops>>

(* Mutant: the sentinel is subtracted on every success, whatever the      *)
(* count seen before the increment.                                       *)
AttemptIncStrongRef_Success_AlwaysFix(t) ==
  /\ At(t, "AI_Success")
  /\ strong' = strong - INITIAL
  /\ res' = [res EXCEPT ![t] = TRUE]
  /\ Return(t)
  /\ UNCHANGED <<weak, refCount, extended, callback, counterFreed, attempt, objVars,
                 handleVars, cur, w, dst, ops>>

AttemptIncStrongRef_Success(t) ==
  /\ At(t, "AI_Success")
  /\ IF cur[t] = INITIAL
     THEN /\ strong' = strong - INITIAL
          /\ res' = [res EXCEPT ![t] = TRUE]
          /\ Return(t)
     ELSE Goto(t, "AI_Fail") /\ UNCHANGED <<strong, res>>
  /\ UNCHANGED <<weak, refCount, extended, callback, counterFreed, attempt, objVars,
                 handleVars, cur, w, dst, ops>>

(* Mutant: a count of zero fails the promotion whatever the lifetime.     *)
AttemptIncStrongRef_Fail_IgnoreExtended(t) ==
  /\ At(t, "AI_Fail")
  /\ IF cur[t] <= 0
     THEN res' = [res EXCEPT ![t] = FALSE] /\ Goto(t, "DW_Load")
     ELSE res' = [res EXCEPT ![t] = TRUE] /\ Return(t)
  /\ UNCHANGED <<counterVars, objVars, handleVars, cur, w, dst, ops>>

AttemptIncStrongRef_Fail(t) ==
  /\ At(t, "AI_Fail")
  /\ IF cur[t] < 0 \/ (~extended /\ cur[t] = 0)
     THEN res' = [res EXCEPT ![t] = FALSE] /\ Goto(t, "DW_Load")
     ELSE res' = [res EXCEPT ![t] = TRUE] /\ Return(t)
  /\ UNCHANGED <<counterVars, objVars, handleVars, cur, w, dst, ops>>

(* RefBase::AttemptAcquire: the promotion above on refs_; on success       *)
(* RefCounter::SetAttemptAcquire (fetch_add on atomicAttempt_) and, if the *)
(* promotion attached the object from the sentinel, OnFirstStrongRef.      *)
(* Mutant: OnFirstStrongRef on every successful promotion, the count      *)
(* returned through outCount not consulted.                               *)
AttemptAcquire_Set_AlwaysFirst(t) ==
  /\ At(t, "AA_Set")
  /\ attempt' = IF res[t] THEN attempt + 1 ELSE attempt
  /\ firstRefs' = IF res[t] THEN firstRefs + 1 ELSE firstRefs
  /\ Return(t)
  /\ UNCHANGED <<strong, weak, refCount, extended, callback, counterFreed,
                 objAlive, lastRefs, fatal, handleVars, localVars>>

AttemptAcquire_Set(t) ==
  /\ At(t, "AA_Set")
  /\ attempt' = IF res[t] THEN attempt + 1 ELSE attempt
  /\ firstRefs' = IF res[t] /\ cur[t] = INITIAL THEN firstRefs + 1 ELSE firstRefs
  /\ Return(t)
  /\ UNCHANGED <<strong, weak, refCount, extended, callback, counterFreed,
                 objAlive, lastRefs, fatal, handleVars, localVars>>

(* RefCounter::AttemptIncStrong and RefBase::AttemptIncStrong: IncWeak,    *)
(* load, a CAS loop while the count is positive (the sentinel included:    *)
(* there is no first-attach fixup); if the count was <= 0 undo the weak    *)
(* increment and fail, otherwise SetAttemptAcquire.                        *)
AttemptIncStrong_IncWeak(t) ==
  /\ At(t, "AIS_IncWeak")
  /\ weak' = weak + 1
  /\ Goto(t, "AIS_Load")
  /\ UNCHANGED <<strong, refCount, extended, callback, counterFreed, attempt,
                 objVars, handleVars, localVars>>

AttemptIncStrong_Load(t) ==
  /\ At(t, "AIS_Load")
  /\ SetCur(t, strong)
  /\ Goto(t, "AIS_Cas")
  /\ UNCHANGED <<counterVars, objVars, handleVars, res, w, dst, ops>>

(* compare_exchange stores the value it saw in curCount when it fails. *)
AttemptIncStrong_Cas(t) ==
  /\ At(t, "AIS_Cas")
  /\ cur[t] > 0
  /\ IF strong = cur[t]
     THEN strong' = strong + 1 /\ Goto(t, "AIS_Done") /\ UNCHANGED cur
     ELSE SetCur(t, strong) /\ Goto(t, "AIS_Cas") /\ UNCHANGED strong
  /\ UNCHANGED <<weak, refCount, extended, callback, counterFreed, attempt,
                 objVars, handleVars, res, w, dst, ops>>

AttemptIncStrong_Done(t) ==
  /\ \/ At(t, "AIS_Done")
     \/ At(t, "AIS_Cas") /\ cur[t] <= 0
  /\ res' = [res EXCEPT ![t] = cur[t] > 0]
  /\ Goto(t, IF cur[t] > 0 THEN "AIS_Set" ELSE "DW_Load")
  /\ UNCHANGED <<counterVars, objVars, handleVars, cur, w, dst, ops>>

AttemptIncStrong_Set(t) ==
  /\ At(t, "AIS_Set")
  /\ attempt' = attempt + 1
  /\ Return(t)
  /\ UNCHANGED <<strong, weak, refCount, extended, callback, counterFreed,
                 objVars, handleVars, localVars>>

(* RefBase::CheckIsAttemptAcquireSet: if atomicAttempt_ > 0, fetch_sub it, *)
(* reload it (a negative value is reported with UTILS_LOGF), then          *)
(* RefCounter::DecStrongRefCount and DecWeakRefCount: the strong count is  *)
(* dropped without the OnLastStrongRef hook or the callback.               *)
CheckIsAttemptAcquireSet_IsSet(t) ==
  /\ At(t, "CK_IsSet")
  /\ IF attempt > 0 THEN Goto(t, "CK_Clear") ELSE Return(t)
  /\ UNCHANGED <<counterVars, objVars, handleVars, localVars>>

CheckIsAttemptAcquireSet_Clear(t) ==
  /\ At(t, "CK_Clear")
  /\ attempt' = attempt - 1
  /\ Goto(t, "CK_Get")
  /\ UNCHANGED <<strong, weak, refCount, extended, callback, counterFreed,
                 objVars, handleVars, localVars>>

CheckIsAttemptAcquireSet_Get(t) ==
  /\ At(t, "CK_Get")
  /\ fatal' = IF attempt < 0 THEN fatal \cup {"IllegalDecStrong"} ELSE fatal
  /\ Call(t, "DSC_Load", "DW_Load")
  /\ UNCHANGED <<counterVars, objAlive, firstRefs, lastRefs, handleVars,
                 localVars>>

-----------------------------------------------------------------------------
(* WeakRefCounter: the first subscriber forwards IncWeakRefCount to the    *)
(* RefCounter, the last one forwards DecWeakRefCount and deletes the block,*)
(* whose destructor releases its RefCounter share.                         *)
WrcSet(i, field, v) == wrc' = [wrc EXCEPT ![i][field] = v]

(* Mutant: every subscriber, not only the first, is forwarded.           *)
WeakRefCounter_Inc_AlwaysForward(t) ==
  /\ At(t, "WrcInc")
  /\ WrcSet(w[t], "weak", wrc[w[t]].weak + 1)
  /\ Goto(t, "RcIncWeak")
  /\ UNCHANGED <<counterVars, objVars, raw, sp, wp, localVars>>

WeakRefCounter_Inc(t) ==
  /\ At(t, "WrcInc")
  /\ WrcSet(w[t], "weak", wrc[w[t]].weak + 1)
  /\ IF wrc[w[t]].weak = 0 THEN Goto(t, "RcIncWeak") ELSE Return(t)
  /\ UNCHANGED <<counterVars, objVars, raw, sp, wp, localVars>>

RefCounter_IncWeak(t) ==
  /\ At(t, "RcIncWeak")
  /\ weak' = weak + 1
  /\ Return(t)
  /\ UNCHANGED <<strong, refCount, extended, callback, counterFreed, attempt, objVars,
                 handleVars, localVars>>

WeakRefCounter_Dec(t) ==
  /\ At(t, "WrcDec")
  /\ WrcSet(w[t], "weak", wrc[w[t]].weak - 1)
  /\ IF wrc[w[t]].weak = 1 THEN Call(t, "DW_Load", "WrcDelete") ELSE Return(t)
  /\ UNCHANGED <<counterVars, objVars, raw, sp, wp, localVars>>

(* Mutant: ~WeakRefCounter forgets to release its RefCounter share.       *)
WeakRefCounter_Delete_NoRelease(t) ==
  /\ At(t, "WrcDelete")
  /\ Goto(t, "WrcFreed")
  /\ UNCHANGED <<counterVars, objVars, handleVars, localVars>>

WeakRefCounter_Delete(t) ==
  /\ At(t, "WrcDelete")
  /\ Call(t, "RC_Load", "WrcFreed")
  /\ UNCHANGED <<counterVars, objVars, handleVars, localVars>>

WeakRefCounter_Freed(t) ==
  /\ At(t, "WrcFreed")
  /\ WrcSet(w[t], "st", "freed")
  /\ Return(t)
  /\ UNCHANGED <<counterVars, objVars, raw, sp, wp, localVars>>

(* WeakRefCounter::GetRefPtr after a successful promotion: the cookie is   *)
(* nulled for good once the RefCounter's callback has been removed.  The   *)
(* sptr is non-null only if the cookie still is.                          *)
Promote_GetRefPtr(t) ==
  /\ At(t, "PromoteGetRefPtr")
  /\ IF res[t]
     THEN LET valid == wrc[w[t]].cookie /\ callback
          IN /\ WrcSet(w[t], "cookie", valid)
             /\ sp' = [sp EXCEPT ![t] = IF valid THEN @ + 1 ELSE @]
     ELSE UNCHANGED <<wrc, sp>>
  /\ Goto(t, "Idle")
  /\ UNCHANGED <<counterVars, objVars, raw, wp, localVars>>

-----------------------------------------------------------------------------
(* The handle operations of refbase.h.  A handle-creating call is made at  *)
(* most MaxOps times per thread; wrapping the raw pointer is not counted,  *)
(* since its holder must wrap it.  A release starts only once every raw    *)
(* holder has wrapped its pointer: before that a release could delete the  *)
(* object under a thread that may still wrap it, a client error.          *)
CanCreate(t) == At(t, "Idle") /\ ops[t] < MaxOps
Counted(t) == ops' = [ops EXCEPT ![t] = @ + 1]
SetDst(t, u) == dst' = [dst EXCEPT ![t] = u]
UnusedWrcs == {i \in WrcIds : wrc[i].st = "unused"}

(* sptr(T *other): IncStrongRef on the object. *)
SptrFromRaw(t) ==
  /\ At(t, "Idle") /\ t \in raw
  /\ SetDst(t, t)
  /\ Call(t, "IS_IncWeak", "CreditRawSptr")
  /\ UNCHANGED <<counterVars, objVars, handleVars, cur, res, w, ops>>

(* sptr copy constructor: another thread receives the copy. *)
SptrCopy(t, u) ==
  /\ CanCreate(t) /\ sp[t] > 0
  /\ SetDst(t, u) /\ Counted(t)
  /\ Call(t, "IS_IncWeak", "CreditSptr")
  /\ UNCHANGED <<counterVars, objVars, handleVars, cur, res, w>>

(* The handle made is handed to its receiver; a raw holder gives up the   *)
(* raw pointer once its wrapping handle exists.                           *)
CreditSptr(t) ==
  /\ At(t, "CreditSptr") \/ At(t, "CreditRawSptr")
  /\ sp' = [sp EXCEPT ![dst[t]] = @ + 1]
  /\ raw' = IF At(t, "CreditRawSptr") THEN raw \ {t} ELSE raw
  /\ Goto(t, "Idle")
  /\ UNCHANGED <<counterVars, objVars, wrc, wp, localVars>>

(* ~sptr: DecStrongRef on the object. *)
SptrDrop(t) ==
  /\ At(t, "Idle") /\ sp[t] > 0 /\ raw = {}
  /\ sp' = [sp EXCEPT ![t] = @ - 1]
  /\ CallChain(t, "DSC_Load", <<"DS_Check", "Idle">>)
  /\ UNCHANGED <<counterVars, objVars, wrc, raw, wp, localVars>>

(* wptr(T *other) and wptr(const sptr &): CreateWeakRef makes a new        *)
(* WeakRefCounter, whose constructor does IncRefCount, then                *)
(* IncWeakRefCount on it.                                                  *)
NewWeakRef(t, u) ==
  /\ \E i \in UnusedWrcs :
       /\ wrc' = [wrc EXCEPT ![i] = [st |-> "live", weak |-> 0, cookie |-> TRUE]]
       /\ w' = [w EXCEPT ![t] = i]
  /\ refCount' = refCount + 1
  /\ SetDst(t, u)

WptrFromRaw(t) ==
  /\ At(t, "Idle") /\ t \in raw
  /\ NewWeakRef(t, t)
  /\ Call(t, "WrcInc", "CreditRawWptr")
  /\ UNCHANGED <<strong, weak, extended, callback, counterFreed, attempt, objVars,
                 raw, sp, wp, cur, res, ops>>

WptrFromSptr(t, u) ==
  /\ CanCreate(t) /\ sp[t] > 0
  /\ NewWeakRef(t, u) /\ Counted(t)
  /\ Call(t, "WrcInc", "CreditWptr")
  /\ UNCHANGED <<strong, weak, extended, callback, counterFreed, attempt, objVars,
                 raw, sp, wp, cur, res>>

(* wptr copy constructor: IncWeakRefCount on the shared WeakRefCounter. *)
WptrCopy(t, i, u) ==
  /\ CanCreate(t) /\ wp[t][i] > 0
  /\ w' = [w EXCEPT ![t] = i] /\ SetDst(t, u) /\ Counted(t)
  /\ Call(t, "WrcInc", "CreditWptr")
  /\ UNCHANGED <<counterVars, objVars, handleVars, cur, res>>

CreditWptr(t) ==
  /\ At(t, "CreditWptr") \/ At(t, "CreditRawWptr")
  /\ wp' = [wp EXCEPT ![dst[t]][w[t]] = @ + 1]
  /\ raw' = IF At(t, "CreditRawWptr") THEN raw \ {t} ELSE raw
  /\ Goto(t, "Idle")
  /\ UNCHANGED <<counterVars, objVars, wrc, sp, localVars>>

(* ~wptr: DecWeakRefCount on the WeakRefCounter. *)
WptrDrop(t, i) ==
  /\ At(t, "Idle") /\ wp[t][i] > 0 /\ raw = {}
  /\ wp' = [wp EXCEPT ![t][i] = @ - 1]
  /\ w' = [w EXCEPT ![t] = i]
  /\ Call(t, "WrcDec", "Idle")
  /\ UNCHANGED <<counterVars, objVars, wrc, raw, sp, cur, res, dst, ops>>

(* wptr::promote: sptr(WeakRefCounter *, bool) calls                       *)
(* WeakRefCounter::AttemptIncStrongRef, which runs the RefCounter's        *)
(* promotion and discards the first-attach result: OnFirstStrongRef is not *)
(* called on this path.                                                    *)
WptrPromote(t, i) ==
  /\ CanCreate(t) /\ wp[t][i] > 0
  /\ w' = [w EXCEPT ![t] = i] /\ Counted(t)
  /\ Call(t, "AI_Load", "PromoteGetRefPtr")
  /\ UNCHANGED <<counterVars, objVars, handleVars, cur, res, dst>>

(* The attempt-acquire guard idiom (spec 4.3): a thread holding an sptr    *)
(* takes an extra strong ref with RefBase::AttemptIncStrong or            *)
(* RefBase::AttemptAcquire, which set the attempt counter, and gives it    *)
(* back with CheckIsAttemptAcquireSet.                                     *)
SptrAttemptGuard(t) ==
  /\ CanCreate(t) /\ sp[t] > 0
  /\ Counted(t)
  /\ \/ CallChain(t, "AIS_IncWeak", <<"CK_IsSet", "Idle">>)
     \/ CallChain(t, "AI_Load", <<"AA_Set", "CK_IsSet", "Idle">>)
  /\ UNCHANGED <<counterVars, objVars, handleVars, cur, res, w, dst>>

-----------------------------------------------------------------------------
(* The steps of the library code, whoever calls it. *)
LibStep(t) ==
  \/ IncStrongRef_IncWeak(t) \/ IncStrongRef_Load(t) \/ IncStrongRef_Add(t)
  \/ IncStrongRef_Fix(t) \/ IncStrongRef_Check(t)
  \/ DecStrongRefCount_Load(t) \/ DecStrongRefCount_Sub(t)
  \/ DecStrongRef_Check(t) \/ DecStrongRef_Callback(t)
  \/ DecWeakRefCount_Load(t) \/ DecWeakRefCount_Sub(t) \/ DecWeakRefCount_Test(t)
  \/ DecWeakRefCount_Sentinel(t) \/ DecWeakRefCount_Callback(t)
  \/ RefBaseDtor_Remove(t) \/ RefBaseDtor_Weak(t) \/ RefBaseDtor_Strong(t)
  \/ DecRefCount_Load(t) \/ DecRefCount_Sub(t)
  \/ AttemptIncStrongRef_Load(t) \/ AttemptIncStrongRef_IncWeak(t)
  \/ AttemptIncStrongRef_Loop1(t) \/ AttemptIncStrongRef_Reload1(t)
  \/ AttemptIncStrongRef_Normal(t) \/ AttemptIncStrongRef_Loop2(t)
  \/ AttemptIncStrongRef_Reload2(t) \/ AttemptIncStrongRef_Ext(t)
  \/ AttemptIncStrongRef_Gate(t) \/ AttemptIncStrongRef_Add(t)
  \/ AttemptIncStrongRef_Success(t) \/ AttemptIncStrongRef_Fail(t)
  \/ AttemptAcquire_Set(t)
  \/ AttemptIncStrong_IncWeak(t) \/ AttemptIncStrong_Load(t)
  \/ AttemptIncStrong_Cas(t) \/ AttemptIncStrong_Done(t) \/ AttemptIncStrong_Set(t)
  \/ CheckIsAttemptAcquireSet_IsSet(t) \/ CheckIsAttemptAcquireSet_Clear(t)
  \/ CheckIsAttemptAcquireSet_Get(t)
  \/ WeakRefCounter_Inc(t) \/ RefCounter_IncWeak(t) \/ WeakRefCounter_Dec(t)
  \/ WeakRefCounter_Delete(t) \/ WeakRefCounter_Freed(t)

(* The sptr/wptr operations of the client threads. *)
ClientStep(t) ==
  \/ \E u \in Threads : SptrCopy(t, u) \/ WptrFromSptr(t, u)
  \/ \E i \in WrcIds : \/ WptrDrop(t, i) \/ WptrPromote(t, i)
                       \/ \E u \in Threads : WptrCopy(t, i, u)
  \/ SptrFromRaw(t) \/ WptrFromRaw(t) \/ SptrDrop(t) \/ SptrAttemptGuard(t)
  \/ CreditSptr(t) \/ CreditWptr(t) \/ Promote_GetRefPtr(t)

Step(t) == ClientStep(t) \/ LibStep(t) \/ RefBase_OnLastStrongRef(t)

(* Every handle is released and every call has returned: the program ends. *)
Quiescent == \A t \in Threads : pc[t] = "Idle"
Done == /\ Quiescent /\ raw = {}
        /\ \A t \in Threads : sp[t] = 0 /\ \A i \in WrcIds : wp[t][i] = 0
Terminated == Done /\ UNCHANGED vars

Next == (\E t \in Threads : Step(t)) \/ Terminated

Spec == Init /\ [][Next]_vars

(* The code is lock-free: a scheduled thread always makes progress, and    *)
(* the OS scheduler keeps scheduling every runnable thread.  Handles are   *)
(* RAII objects, so every thread eventually releases what it holds.        *)
FairSpec == Spec /\ \A t \in Threads : WF_vars(Step(t))

-----------------------------------------------------------------------------
(* Properties. *)

Counts == 0 .. 16
(* A strong count or curCount may go below zero after an over-release. *)
SignedCounts == -16 .. 16
(* The sentinel plus the attaches not yet fixed up. *)
SentinelRange == {INITIAL + k : k \in Counts}
TypeOK ==
  /\ strong \in SignedCounts \cup SentinelRange
  /\ weak \in SignedCounts /\ refCount \in SignedCounts
  /\ extended \in BOOLEAN /\ callback \in BOOLEAN /\ counterFreed \in BOOLEAN
  /\ objAlive \in BOOLEAN /\ firstRefs \in Nat /\ lastRefs \in Nat
  /\ attempt \in SignedCounts
  /\ fatal \subseteq {"IncStrongAfterLast", "DecStrongTooMany", "IllegalDecStrong"}
  /\ wrc \in [WrcIds -> [st : {"unused", "live", "freed"}, weak : Counts,
                         cookie : BOOLEAN]]
  /\ raw \subseteq RawHolders
  /\ sp \in [Threads -> Nat] /\ wp \in [Threads -> [WrcIds -> Nat]]
  /\ stack \in [Threads -> Seq(STRING)] /\ pc \in [Threads -> STRING]
  /\ cur \in [Threads -> SignedCounts \cup SentinelRange]
  /\ res \in [Threads -> BOOLEAN] /\ w \in [Threads -> WrcIds \cup {NoWrc}]
  /\ dst \in [Threads -> Threads] /\ ops \in [Threads -> 0 .. MaxOps]

(* The steps that dereference the object (its refs_ member, its hooks, its *)
(* CanPromote override, or its callback), the steps that access the        *)
(* RefCounter, and the steps that access the WeakRefCounter w[t].          *)
UsesObject(t) ==
  \/ pc[t] \in {"IS_IncWeak", "IS_Load", "IS_Check", "DSC_Load", "AI_Gate",
                "DT_Remove", "OnLastStrongRef", "AA_Set", "AIS_IncWeak",
                "CK_IsSet", "CK_Clear", "CK_Get"}
  \/ pc[t] = "AI_Load" /\ Head(stack[t]) = "AA_Set"
  \/ pc[t] = "DS_Check" /\ cur[t] = 1
UsesCounter(t) ==
  \/ pc[t] \in {"IS_IncWeak", "IS_Load", "IS_Add", "IS_Fix", "IS_Check",
                "DSC_Load", "DSC_Sub", "DS_Callback",
                "DW_Load", "DW_Sub", "DW_Sentinel", "DW_Callback",
                "DT_Remove", "DT_Weak", "DT_Strong", "RC_Load", "RC_Sub",
                "AI_Load", "AI_IncWeak", "AI_Loop1", "AI_Reload1", "AI_Normal",
                "AI_Loop2", "AI_Reload2", "AI_Ext", "AI_Gate", "AI_Add",
                "AI_Success", "AI_Fail", "RcIncWeak", "AA_Set",
                "AIS_IncWeak", "AIS_Load", "AIS_Cas", "AIS_Set",
                "CK_IsSet", "CK_Clear", "CK_Get"}
  \/ pc[t] \in {"DS_Check", "DW_Test"} /\ cur[t] = 1
  \/ pc[t] = "PromoteGetRefPtr" /\ res[t] /\ wrc[w[t]].cookie
UsesWrc(t) ==
  \/ pc[t] \in {"WrcInc", "WrcDec", "WrcDelete", "WrcFreed"}
  \/ pc[t] = "AI_Load" /\ Head(stack[t]) = "PromoteGetRefPtr"
  \/ pc[t] = "PromoteGetRefPtr" /\ res[t]

(* No thread touches the object after it was deleted (this includes a      *)
(* second delete through callback_), the RefCounter after the thread that  *)
(* took atomicRefCount_ to zero deleted it, or a WeakRefCounter after its  *)
(* last subscriber deleted it; and the RefCounter is deleted only after    *)
(* the object and after the last wptr, which would reach it again.         *)
NoUseAfterFree ==
  /\ \A t \in Threads :
       /\ UsesObject(t) => objAlive
       /\ UsesCounter(t) => ~counterFreed
       /\ UsesWrc(t) => wrc[w[t]].st = "live"
  /\ counterFreed => ~objAlive /\ \A t \in Threads, i \in WrcIds : wp[t][i] = 0

(* A handle never dangles: while a thread holds an sptr (or the raw        *)
(* pointer it has yet to wrap) the object has not been deleted, and while  *)
(* it holds a wptr its WeakRefCounter has not been deleted, whatever the   *)
(* interleaving of releases and promotions of the other threads.           *)
HandlesNeverDangle ==
  \A t \in Threads :
     /\ (sp[t] > 0 \/ t \in raw) => objAlive
     /\ \A i \in WrcIds : wp[t][i] > 0 => wrc[i].st = "live"

(* When no call is in progress the counters account exactly for the       *)
(* handles: the strong count (sentinel if no sptr ever attached) is the    *)
(* number of sptrs; the weak count is one per sptr plus one per live       *)
(* WeakRefCounter, whose own count is its wptrs; atomicRefCount_ is one    *)
(* per live WeakRefCounter plus the object's share, held until the object *)
(* is gone and the weak count is zero; and the object is alive exactly     *)
(* when a raw pointer or an sptr is held, or a weak ref is held and the    *)
(* lifetime is extended or no sptr ever attached.                          *)
SptrCount == SumFunction(sp)
LiveWrcs == {i \in WrcIds : wrc[i].st = "live"}
WptrCount(i) == SumFunction([t \in Threads |-> wp[t][i]])

LifetimeMatchesHandles ==
  Quiescent =>
    /\ strong = SptrCount \/ (strong = INITIAL /\ SptrCount = 0)
    /\ weak = SptrCount + Cardinality(LiveWrcs)
    /\ \A i \in LiveWrcs : wrc[i].weak = WptrCount(i)
    /\ refCount = Cardinality(LiveWrcs) + IF objAlive \/ weak > 0 THEN 1 ELSE 0
    /\ counterFreed = (refCount = 0)
    /\ attempt = 0
    /\ objAlive = \/ raw # {} \/ SptrCount > 0
                  \/ weak > 0 /\ (extended \/ strong = INITIAL)

(* OnFirstStrongRef runs at most once even when several threads attach the *)
(* fresh object at the same time, and for a normal lifetime               *)
(* OnLastStrongRef runs at most once: nothing resurrects the object.       *)
LifecycleHooksOnce ==
  /\ firstRefs <= 1
  /\ ~extended => lastRefs <= 1

(* A correct client never triggers the UTILS_LOGF misuse reports of        *)
(* IncStrongRef ("still incStrongRef after last strong ref"), DecStrongRef *)
(* ("call decStrongRef too many times") and CheckIsAttemptAcquireSet       *)
(* ("illegal decstrong ... due to AttemptIncStrong").                      *)
NoFatalDiagnostics == fatal = {}

(* Every run ends with the object and its RefCounter reclaimed: no leak.   *)
EventuallyReclaimed == <>counterFreed


=============================================================================
