---------------------------- MODULE EventReactor ----------------------------
(***************************************************************************)
(* EventReactor of src/base/src/event_reactor.cpp.                         *)
(*                                                                         *)
(* The flags loopReady_ and switch_ are shared by the thread running       *)
(* RunLoop and the threads calling SetUp, SwitchOn and SwitchOff; each     *)
(* read or write of a flag is one step.  The timer list is guarded by     *)
(* the recursive mutex_: ScheduleTimer, CancelTimer and CleanUp are one   *)
(* step each.  The EventDemultiplexer and TimerEventHandler bodies are    *)
(* not in the repository: StartUp and Initialize may succeed or fail,     *)
(* and Polling returns (its timeout is finite) with or without a critical *)
(* error, after its timeout or when an event arrives.  RunLoop's timeout *)
(* is "finite" or "infinite" (-1, epoll_wait blocks until an event); the  *)
(* events are the expiries of initialised periodic timers.  Timer         *)
(* descriptors are the model values TimerIds, never reused.               *)
(***************************************************************************)
EXTENDS Naturals, Sequences, SequencesExt

CONSTANTS TimerIds

VARIABLES
  loopReady,   \* loopReady_
  switch,      \* switch_
  started,     \* the demultiplexer's epoll instance exists
  timers,      \* timerEventHandlers_: the descriptors of the listed handlers
  hstate,      \* each handler: "none", "init", "uninit" or "failed"
  once,        \* each handler: ScheduleTimer's `once`
  rpc,         \* where the RunLoop thread is
  timeout      \* RunLoop's timeout argument

reactorVars == <<loopReady, switch, started, timers, hstate, once>>

RunLoopLabels == {"RL_Ready", "RL_Switch", "RL_Poll", "RL_Polled", "RL_Exit"}

ReactorInit ==
  /\ loopReady = FALSE /\ switch = FALSE      \* the constructor
  /\ started = FALSE
  /\ timers = <<>>
  /\ hstate = [i \in TimerIds |-> "none"]
  /\ once = [i \in TimerIds |-> FALSE]

-----------------------------------------------------------------------------
(* SetUp: StartUp succeeds at once if the demultiplexer is started, else  *)
(* it may fail, and SetUp returns its error without touching loopReady_.  *)
(* `ok` is the result the caller sees.                                    *)
SetUp(ok) ==
  \/ /\ ok
     /\ started' = TRUE /\ loopReady' = TRUE
     /\ UNCHANGED <<switch, timers, hstate, once>>
  \/ /\ ~ok /\ ~started
     /\ UNCHANGED reactorVars

SwitchOn == switch' = TRUE /\ UNCHANGED <<loopReady, started, timers, hstate, once>>
SwitchOff == switch' = FALSE /\ UNCHANGED <<loopReady, started, timers, hstate, once>>

(* RunLoop, `while (loopReady_ && switch_)`: two reads, then Polling.      *)
RunLoop_Ready ==
  /\ rpc = "RL_Ready"
  /\ rpc' = IF loopReady THEN "RL_Switch" ELSE "RL_Exit"
  /\ UNCHANGED reactorVars

RunLoop_Switch ==
  /\ rpc = "RL_Switch"
  /\ rpc' = IF switch THEN "RL_Poll" ELSE "RL_Exit"
  /\ UNCHANGED reactorVars

(* An event can end the wait: ScheduleTimer's handler, made with its     *)
(* once flag and initialised, arms a timer fd whose periodic expiry wakes *)
(* epoll (TimerEventHandler is not in the repository; a one-shot timer's  *)
(* single expiry is left out).                                            *)
TimerCanFire == \E i \in TimerIds : hstate[i] = "init" /\ ~once[i]

(* Polling returns, after the timeout or on an event; EPOLL_CRITICAL_ERROR *)
(* breaks the loop.                                                       *)
RunLoop_Poll ==
  /\ rpc = "RL_Poll"
  /\ (timeout = "finite" \/ TimerCanFire)
  /\ \E critical \in BOOLEAN : rpc' = IF critical THEN "RL_Exit" ELSE "RL_Polled"
  /\ UNCHANGED reactorVars

(* Mutant: the loop condition is evaluated once, as a compiler may do     *)
(* with plain flags: after Polling the loop polls again at once.          *)
RunLoop_Again_Hoisted ==
  /\ rpc = "RL_Polled"
  /\ rpc' = "RL_Poll"
  /\ UNCHANGED reactorVars

(* The loop's back edge: the condition is evaluated again.                 *)
RunLoop_Again ==
  /\ rpc = "RL_Polled"
  /\ rpc' = "RL_Ready"
  /\ UNCHANGED reactorVars

(* After the loop: loopReady_ = false.  `next` is where the caller goes.  *)
RunLoop_Exit(next) ==
  /\ rpc = "RL_Exit"
  /\ loopReady' = FALSE
  /\ rpc' = next
  /\ UNCHANGED <<switch, started, timers, hstate, once>>

-----------------------------------------------------------------------------
(* ScheduleTimer: a new handler is initialised; on failure it is dropped  *)
(* and the error returned, on success it is appended to the list.         *)
ScheduleTimer(id, isOnce) ==
  /\ hstate[id] = "none"
  /\ once' = [once EXCEPT ![id] = isOnce]
  /\ \/ hstate' = [hstate EXCEPT ![id] = "init"] /\ timers' = Append(timers, id)
     \/ hstate' = [hstate EXCEPT ![id] = "failed"] /\ UNCHANGED timers
  /\ UNCHANGED <<loopReady, switch, started>>

(* Mutant: the handler is erased without being uninitialised.             *)
CancelTimer_NoUninit(fd) ==
  LET I == {i \in DOMAIN timers : timers[i] = fd}
  IN /\ IF I = {} THEN UNCHANGED <<timers, hstate>>
        ELSE /\ timers' = RemoveAt(timers, Min(I))
             /\ UNCHANGED hstate
     /\ UNCHANGED <<loopReady, switch, started, once>>

(* CancelTimer: the first listed handler with this descriptor is          *)
(* uninitialised and erased; an unknown descriptor changes nothing.       *)
CancelTimer(fd) ==
  LET I == {i \in DOMAIN timers : timers[i] = fd}
  IN /\ IF I = {} THEN UNCHANGED <<timers, hstate>>
        ELSE /\ timers' = RemoveAt(timers, Min(I))
             /\ hstate' = [hstate EXCEPT ![fd] = "uninit"]
     /\ UNCHANGED <<loopReady, switch, started, once>>

(* CleanUp: every listed handler is uninitialised; the list is kept.      *)
CleanUp ==
  /\ hstate' = [i \in TimerIds |-> IF Contains(timers, i) THEN "uninit" ELSE hstate[i]]
  /\ UNCHANGED <<loopReady, switch, started, timers, once>>

====
