----------------------------- MODULE IPCHarness -----------------------------
(***************************************************************************)
(* The IPC registry of the refbase unit test (src/base/test/unittest/      *)
(* common/utils_refbase_test.cpp 202-310) composed with the reference      *)
(* counting of RefBase.tla: IPCProcessSkeleton keeps, under mutex_, a map  *)
(* from a descriptor to a wptr of an IPCObjectProxy; RegisterEventThread   *)
(* repeatedly finds or creates the proxy with AttemptAcquire, wraps it in  *)
(* an sptr, runs CheckIsAttemptAcquireSet and drops the sptr; the proxy's  *)
(* OnLastStrongRef, under mutexLast_, detaches it from the map when its    *)
(* strong count is zero.                                                   *)
(*                                                                         *)
(* The model follows ONE proxy object, the one for handle 10: RefBase.tla *)
(* is its RefCounter and WeakRefCounters.  A FindOrNewObject that finds    *)
(* the entry erased creates another proxy, which this model does not       *)
(* follow.  IRemoteObject's constructor extends the lifetime, so the cfgs *)
(* set ExtendAtInit to {TRUE}.                                             *)
(***************************************************************************)
EXTENDS RefBase

CONSTANTS
  NoThread,        \* an unlocked mutex's owner
  NewAcquire,      \* the call FindOrNewObject makes on a new proxy
  QueryAcquire     \* the call QueryObjectInner makes on a found proxy

Acquires == {"AttemptAcquire", "AttemptIncStrong"}
ASSUME NoThread \notin Threads
ASSUME NewAcquire \in Acquires /\ QueryAcquire \in Acquires

VARIABLES
  regLock,   \* owner of IPCProcessSkeleton::mutex_
  lastLock,  \* owner of IPCObjectProxy::mutexLast_
  mapState,  \* the proxy's entry in objects1_: "none" yet, "in", "erased"
  mapWrc,    \* the WeakRefCounter of the wptr held by the entry
  found      \* threads holding the raw pointer FindOrNewObject returned

ipcVars == <<regLock, lastLock, mapState, mapWrc, found>>
allVars == <<vars, ipcVars>>

IPCInit ==
  /\ Init
  /\ regLock = NoThread /\ lastLock = NoThread
  /\ mapState = "none" /\ mapWrc = NoWrc /\ found = {}

-----------------------------------------------------------------------------
(* The promotion a thread makes through the call "how", returning to r.   *)
Acquire(t, how, r) ==
  IF how = "AttemptAcquire" THEN CallChain(t, "AI_Load", <<"AA_Set", r>>)
  ELSE Call(t, "AIS_IncWeak", r)

(* RegisterEventThread: one loop iteration starts with FindOrNewObject,    *)
(* which takes mutex_.                                                     *)
FindOrNewObject_Lock(t) ==
  /\ At(t, "Idle") /\ ops[t] < MaxOps /\ regLock = NoThread
  /\ regLock' = t
  /\ ops' = [ops EXCEPT ![t] = @ + 1]
  /\ Goto(t, "FO_Query")
  /\ UNCHANGED <<counterVars, objVars, handleVars, cur, res, w, dst,
                 lastLock, mapState, mapWrc, found>>

(* QueryObjectInner finds the entry and promotes through it, ignoring the *)
(* result; with no entry a new proxy is made and promoted.  An entry      *)
(* erased earlier leads to another proxy, outside this model.             *)
FindOrNewObject_Query(t) ==
  /\ At(t, "FO_Query")
  /\ CASE mapState = "in" ->
            Acquire(t, QueryAcquire, "FO_GetRefPtr") /\ UNCHANGED <<regLock, found>>
       [] mapState = "none" ->
            Acquire(t, NewAcquire, "FO_Insert") /\ found' = found \cup {t}
            /\ UNCHANGED regLock
       [] mapState = "erased" ->
            Goto(t, "Idle") /\ regLock' = NoThread /\ UNCHANGED found
  /\ UNCHANGED <<counterVars, objVars, handleVars, localVars, lastLock,
                 mapState, mapWrc>>

(* it->second.GetRefPtr(): WeakRefCounter::GetRefPtr of the entry's wptr;  *)
(* a null result sends FindOrNewObject on to create another proxy.        *)
FindOrNewObject_GetRefPtr(t) ==
  /\ At(t, "FO_GetRefPtr")
  /\ LET valid == wrc[mapWrc].cookie /\ callback
     IN /\ WrcSet(mapWrc, "cookie", valid)
        /\ IF valid THEN Goto(t, "FO_Return") /\ found' = found \cup {t}
                         /\ UNCHANGED regLock
           ELSE Goto(t, "Idle") /\ regLock' = NoThread /\ UNCHANGED found
  /\ UNCHANGED <<counterVars, objVars, raw, sp, wp, localVars, lastLock,
                 mapState, mapWrc>>

(* objects1_.insert of a wptr made from the new proxy: CreateWeakRef (the  *)
(* WeakRefCounter constructor does IncRefCount) and IncWeakRefCount.  The  *)
(* pair's copy of the wptr and the temporary's release are one subscriber  *)
(* taken and one given back on that block, invisible under mutex_.        *)
FindOrNewObject_Insert(t) ==
  /\ At(t, "FO_Insert")
  /\ \E i \in UnusedWrcs :
       /\ wrc' = [wrc EXCEPT ![i] = [st |-> "live", weak |-> 0, cookie |-> TRUE]]
       /\ w' = [w EXCEPT ![t] = i]
       /\ mapWrc' = i
  /\ refCount' = refCount + 1
  /\ mapState' = "in"
  /\ Call(t, "WrcInc", "FO_Return")
  /\ UNCHANGED <<strong, weak, extended, callback, counterFreed, attempt,
                 objVars, raw, sp, wp, cur, res, dst, ops, regLock, lastLock,
                 found>>

(* FindOrNewObject returns, releasing mutex_; the caller's sptr is built   *)
(* from the raw pointer by IncStrongRef.                                  *)
FindOrNewObject_Return(t) ==
  /\ At(t, "FO_Return")
  /\ regLock' = NoThread
  /\ Call(t, "IS_IncWeak", "RE_Check")
  /\ UNCHANGED <<counterVars, objVars, handleVars, localVars, lastLock,
                 mapState, mapWrc, found>>

(* remote->CheckIsAttemptAcquireSet(remote) with the sptr held. *)
RegisterEventThread_Check(t) ==
  /\ At(t, "RE_Check")
  /\ sp' = [sp EXCEPT ![t] = @ + 1]
  /\ found' = found \ {t}
  /\ Call(t, "CK_IsSet", "RE_Drop")
  /\ UNCHANGED <<counterVars, objVars, wrc, raw, wp, localVars, regLock,
                 lastLock, mapState, mapWrc>>

(* The end of the iteration destroys the sptr: DecStrongRef. *)
RegisterEventThread_Drop(t) ==
  /\ At(t, "RE_Drop")
  /\ sp' = [sp EXCEPT ![t] = @ - 1]
  /\ CallChain(t, "DSC_Load", <<"DS_Check", "Idle">>)
  /\ UNCHANGED <<counterVars, objVars, wrc, raw, wp, localVars, ipcVars>>

-----------------------------------------------------------------------------
(* IPCObjectProxy::OnLastStrongRef takes mutexLast_ and calls              *)
(* DetachObject, which takes mutex_ and erases the entry unless the proxy  *)
(* has a strong ref again; erasing destroys the entry's wptr.              *)
(* Mutant: the override does not detach the proxy from the registry. *)
IPCObjectProxy_OnLastStrongRef_NoDetach(t) ==
  /\ At(t, "OnLastStrongRef")
  /\ Return(t)
  /\ UNCHANGED <<counterVars, objVars, handleVars, localVars, ipcVars>>

IPCObjectProxy_OnLastStrongRef(t) ==
  /\ At(t, "OnLastStrongRef") /\ lastLock = NoThread
  /\ lastLock' = t
  /\ Goto(t, "DO_Lock")
  /\ UNCHANGED <<counterVars, objVars, handleVars, localVars, regLock,
                 mapState, mapWrc, found>>

DetachObject_Lock(t) ==
  /\ At(t, "DO_Lock") /\ regLock = NoThread
  /\ regLock' = t
  /\ Goto(t, "DO_Get")
  /\ UNCHANGED <<counterVars, objVars, handleVars, localVars, lastLock,
                 mapState, mapWrc, found>>

(* Mutant: the entry is erased without the GetSptrRefCount test. *)
DetachObject_Get_NoCountCheck(t) ==
  /\ At(t, "DO_Get")
  /\ IF mapState = "in"
     THEN /\ mapState' = "erased"
          /\ w' = [w EXCEPT ![t] = mapWrc]
          /\ Call(t, "WrcDec", "DO_Unlock")
     ELSE Goto(t, "DO_Unlock") /\ UNCHANGED <<mapState, w>>
  /\ UNCHANGED <<counterVars, objVars, handleVars, cur, res, dst, ops,
                 regLock, lastLock, mapWrc, found>>

DetachObject_Get(t) ==
  /\ At(t, "DO_Get")
  /\ IF strong = 0 /\ mapState = "in"
     THEN /\ mapState' = "erased"
          /\ w' = [w EXCEPT ![t] = mapWrc]
          /\ Call(t, "WrcDec", "DO_Unlock")
     ELSE Goto(t, "DO_Unlock") /\ UNCHANGED <<mapState, w>>
  /\ UNCHANGED <<counterVars, objVars, handleVars, cur, res, dst, ops,
                 regLock, lastLock, mapWrc, found>>

(* DetachObject's lock_guard, then OnLastStrongRef's, are released. *)
DetachObject_Unlock(t) ==
  /\ At(t, "DO_Unlock")
  /\ regLock' = NoThread /\ lastLock' = NoThread
  /\ Return(t)
  /\ UNCHANGED <<counterVars, objVars, handleVars, localVars, mapState,
                 mapWrc, found>>

-----------------------------------------------------------------------------
IPCStep(t) ==
  \/ LibStep(t) /\ UNCHANGED ipcVars
  \/ FindOrNewObject_Lock(t) \/ FindOrNewObject_Query(t)
  \/ FindOrNewObject_GetRefPtr(t) \/ FindOrNewObject_Insert(t)
  \/ FindOrNewObject_Return(t)
  \/ RegisterEventThread_Check(t) \/ RegisterEventThread_Drop(t)
  \/ IPCObjectProxy_OnLastStrongRef(t) \/ DetachObject_Lock(t)
  \/ DetachObject_Get(t) \/ DetachObject_Unlock(t)

(* Every thread has run its iterations of RegisterEventThread. *)
IPCDone == \A t \in Threads : At(t, "Idle") /\ ops[t] = MaxOps
IPCTerminated == IPCDone /\ UNCHANGED allVars

IPCNext == (\E t \in Threads : IPCStep(t)) \/ IPCTerminated

IPCSpec == IPCInit /\ [][IPCNext]_allVars

(* Each thread is scheduled while it can run.  A thread blocked on a mutex *)
(* needs no more: the iterations are bounded, so every mutex is eventually *)
(* released for good.                                                     *)
IPCFairSpec == IPCSpec /\ \A t \in Threads : WF_allVars(IPCStep(t))

-----------------------------------------------------------------------------
(* Properties. *)

IPCTypeOK ==
  /\ TypeOK
  /\ regLock \in Threads \cup {NoThread} /\ lastLock \in Threads \cup {NoThread}
  /\ mapState \in {"none", "in", "erased"} /\ mapWrc \in WrcIds \cup {NoWrc}
  /\ found \subseteq Threads

(* The harness steps that dereference the proxy: QueryObjectInner's        *)
(* it->second->AttemptAcquire and DetachObject's GetSptrRefCount.          *)
HarnessUsesObject(t) ==
  \/ At(t, "DO_Get")
  \/ At(t, "FO_Query") /\ mapState = "in"

(* No step of the library or of the harness touches the proxy, its        *)
(* RefCounter or a WeakRefCounter after it was deleted, and a thread       *)
(* holding the raw pointer FindOrNewObject returned, or the sptr built     *)
(* from it, never holds a deleted proxy: AttemptAcquire's increment must   *)
(* keep the proxy alive from the moment mutex_ is released until the sptr *)
(* is built, whatever OnLastStrongRef does meanwhile.                      *)
IPCNoUseAfterFree ==
  /\ NoUseAfterFree
  /\ \A t \in Threads :
       /\ HarnessUsesObject(t) => objAlive
       /\ (t \in found \/ sp[t] > 0) => objAlive

(* DetachObject erases the entry only when no thread holds the proxy, nor *)
(* will again: once the entry is erased no thread holds an sptr to it or  *)
(* the raw pointer FindOrNewObject returned, so a later FindOrNewObject    *)
(* that creates a new proxy for the handle never duplicates a live one.    *)
(* The strong count DetachObject reads must account for every promotion   *)
(* made by QueryObjectInner, including one whose sptr is not yet built     *)
(* and whose attempt unit another thread's CheckIsAttemptAcquireSet took.  *)
ErasedOnlyWhenUnheld ==
  mapState = "erased" => \A t \in Threads : sp[t] = 0 /\ t \notin found

(* When every iteration has finished, the attempt counter is back at zero *)
(* and no entry is left for a proxy nobody holds: the proxy was detached  *)
(* by its last OnLastStrongRef, and it and its RefCounter were freed       *)
(* (the test's firstRefCount_ == freeCount_).                             *)
IPCAllReleased ==
  IPCDone =>
    /\ attempt = 0
    /\ mapState # "in"
    /\ ~objAlive /\ counterFreed

=============================================================================
