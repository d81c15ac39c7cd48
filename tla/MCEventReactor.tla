--------------------------- MODULE MCEventReactor ---------------------------
(***************************************************************************)
(* The reactor as a timer uses it: one thread runs SetUp, RunLoop with a *)
(* finite or an infinite timeout if SetUp succeeded, then CleanUp, up to  *)
(* MaxRuns times; another thread switches the loop on and off and        *)
(* schedules and cancels timers, up to MaxCtlOps calls.                   *)
(***************************************************************************)
EXTENDS EventReactor, TLC

CONSTANTS MaxRuns, MaxCtlOps

VARIABLES runs, cops

vars == <<reactorVars, rpc, timeout, runs, cops>>

Init == ReactorInit /\ rpc = "Idle" /\ timeout = "finite" /\ runs = 0 /\ cops = 0

LoopSetUp ==
  /\ rpc = "Idle" /\ runs < MaxRuns
  /\ \E ok \in BOOLEAN : SetUp(ok) /\ rpc' = IF ok THEN "RL_Ready" ELSE "CleanUp"
  /\ timeout' \in {"finite", "infinite"}
  /\ UNCHANGED <<runs, cops>>

LoopStep ==
  /\ \/ RunLoop_Ready \/ RunLoop_Switch \/ RunLoop_Poll \/ RunLoop_Again \/ RunLoop_Exit("CleanUp")
  /\ UNCHANGED <<timeout, runs, cops>>

LoopCleanUp ==
  /\ rpc = "CleanUp" /\ CleanUp
  /\ rpc' = "Idle" /\ runs' = runs + 1
  /\ UNCHANGED <<timeout, cops>>

LoopThread == LoopSetUp \/ LoopStep \/ LoopCleanUp

Control(A) == cops < MaxCtlOps /\ A /\ cops' = cops + 1 /\ UNCHANGED <<rpc, timeout, runs>>

ControlThread ==
  \/ Control(SwitchOn) \/ Control(SwitchOff)
  \/ \E id \in TimerIds, isOnce \in BOOLEAN : Control(ScheduleTimer(id, isOnce))
  \/ \E fd \in {i \in TimerIds : hstate[i] \in {"init", "uninit"}} : Control(CancelTimer(fd))

(* Both threads have made all their calls.                                 *)
Finished == rpc = "Idle" /\ runs = MaxRuns /\ cops = MaxCtlOps

(* The loop thread waits in epoll_wait with no timeout and nothing that   *)
(* can wake it.                                                           *)
Blocked == rpc = "RL_Poll" /\ timeout = "infinite" /\ ~TimerCanFire

Next == LoopThread \/ ControlThread \/ ((Finished \/ Blocked) /\ UNCHANGED vars)

Spec == Init /\ [][Next]_vars

(* The loop thread is scheduled while it can run: Polling returns when   *)
(* its timeout is finite or a timer can wake it.  The control thread needs *)
(* no fairness.                                                           *)
FairSpec == Spec /\ WF_vars(LoopThread)

-----------------------------------------------------------------------------
(* Every initialised timer handler is in timerEventHandlers_ (lines 107, *)
(* 118-119), so CancelTimer or CleanUp can still reach and uninitialise  *)
(* it.                                                                    *)
ArmedTimersListed ==
  \A i \in TimerIds : hstate[i] = "init" => Contains(timers, i)

(* Once switch_ stays off, RunLoop ends (line 75 re-reads both flags     *)
(* after every Polling), provided Polling keeps returning: its timeout is *)
(* finite or a periodic timer stays initialised.  With an infinite        *)
(* timeout and no such timer, SwitchOff is never seen (line 76).          *)
LoopEndsAfterSwitchOff ==
  <>[](switch = FALSE /\ (timeout = "finite" \/ TimerCanFire))
    => <>[](rpc \notin RunLoopLabels)

====
