------------------------------ MODULE TimerPool ------------------------------
(***************************************************************************)
(* TimerPool: timers ordered by target time, one management thread         *)
(* (mainLoop) and executor threads that call the listeners.                *)
(*                                                                         *)
(* A step is one critical section, or a call of a listener.  The mutex of  *)
(* a timer (guard) is explicit because stop() keeps it while it waits; the *)
(* management thread keeps the main mutex between the two halves of        *)
(* doExecute().  Condition variables are explicit: a sleeper moves when it *)
(* is signalled.  Clients and listeners call the timers; a listener runs   *)
(* in the thread of its executor.  Times are ticks of CLOCK_REALTIME,      *)
(* executors are numbers because std::set<Executor*> orders them by        *)
(* address.                                                                *)
(***************************************************************************)
EXTENDS Integers, FiniteSets, FiniteSetsExt

CONSTANTS
    Clients,      \* threads that use timers
    Timers,
    Initial,      \* executors made by the constructor
    Spare,        \* addresses for the executors made later
    MaxTime,      \* bound on the clock
    MaxCalls,     \* bound on the calls of start(), stop() and the destructor
    ClientOps,    \* calls made by clients
    HandlerOps,   \* calls made by listeners on their own timer
    None

Executors == Initial \cup Spare
Threads == Clients \cup Executors
Times == 0..MaxTime
Ops == {"start", "stop", "delete"}

ASSUME TimerAssumption ==
    /\ Initial # {} /\ Executors \subseteq Nat /\ IsFiniteSet(Executors)
    /\ Clients \cap Executors = {}
    /\ MaxTime \in Nat /\ MaxCalls \in Nat
    /\ ClientOps \subseteq Ops /\ HandlerOps \subseteq Ops
    /\ None \notin Timers \cup Threads \cup Times

VARIABLES
    now,
    m_runningTimers,  \* target time -> timer
    m_idleTimers,
    alive,            \* timers that exist
    guard,            \* PooledTimer::m_fieldGuard: the thread that holds it
    mpc, nextStop,    \* where mainLoop() is, and what it waits for
    found,            \* doExecute(): the timer and its executor
    m_timer, m_doCount,  \* of each executor
    m_idle, m_running,   \* of the container
    pc,               \* where each thread is
    arg,              \* the timer, target time and executor of its call
    owed,             \* events of each timer whose listener is not called yet
    dropped,          \* history: timers whose target time was in use
    calls

clockVars == <<now, calls>>
timerVars == <<m_runningTimers, m_idleTimers, alive>>
mainVars  == <<mpc, nextStop, found>>
execVars  == <<m_timer, m_doCount, m_idle, m_running>>
vars == <<clockVars, timerVars, guard, mainVars, execVars, pc, arg, owed,
          dropped>>

NoCall == [timer |-> None, time |-> None, exe |-> None]
Nobody == [timer |-> None, exe |-> None]

Init ==
    /\ now = 0 /\ calls = 0
    /\ m_runningTimers = [t \in Times |-> None]
    /\ m_idleTimers = {} /\ alive = {}
    /\ guard = [t \in Timers |-> None]
    /\ mpc = "loop" /\ nextStop = None /\ found = Nobody
    /\ m_timer = [e \in Executors |-> None]
    /\ m_doCount = [e \in Executors |-> 0]
    /\ m_idle = Initial /\ m_running = [t \in Timers |-> None]
    /\ pc = [th \in Threads |-> IF th \in Clients THEN "free"
                                ELSE IF th \in Initial THEN "check" ELSE "none"]
    /\ arg = [th \in Threads |-> NoCall]
    /\ owed = [t \in Timers |-> 0]
    /\ dropped = {}

\* After LastStart the bounded clock may leave no target time for a timer to
\* fire at, so no call of start() is made or left pending then.
LastStart == MaxTime - 2 * Cardinality(Timers)
Tick == /\ now < MaxTime
        /\ now >= LastStart => \A th \in Threads : pc[th] # "start"
        /\ now' = now + 1
        /\ UNCHANGED <<calls, timerVars, guard, mainVars, execVars, pc, arg,
                       owed, dropped>>

-----------------------------------------------------------------------------
(* Helpers *)

TargetsOf(t) == {d \in Times : m_runningTimers[d] = t}
isRunning(t) == TargetsOf(t) # {}
Occupied == {d \in Times : m_runningTimers[d] # None}
MainMutexFree == mpc # "try"

\* std::map::erase and std::map::insert: insert keeps an existing element.
MutErase(f, d) == f
Erase(f, d) == [f EXCEPT ![d] = None]
Insert(f, d, t) == IF f[d] = None THEN [f EXCEPT ![d] = t] ELSE f

\* pthread_cond_signal(&m_mainLoopCond).
MutSignalMain == UNCHANGED mainVars
SignalMain == /\ mpc' = IF mpc = "wait" THEN "loop" ELSE mpc
              /\ UNCHANGED <<nextStop, found>>

\* m_executorCond is shared by the executor and those who wait for it.
Sleepers(e) == {th \in Threads :
                   \/ th = e /\ pc[th] = "wait"
                   \/ pc[th] = "asleep" /\ arg[th].exe = e}
Awake(th) == IF pc[th] = "wait" THEN "check" ELSE "serve"

-----------------------------------------------------------------------------
(* PooledTimer, as clients and listeners use it *)

Create(t) ==
    /\ t \notin alive /\ calls = 0 /\ MainMutexFree
    /\ alive' = alive \cup {t} /\ m_idleTimers' = m_idleTimers \cup {t}
    /\ UNCHANGED <<clockVars, m_runningTimers, guard, mainVars, execVars, pc, arg,
                   owed, dropped>>

\* A timer is used by threads that know it is not being destroyed.
Users(t) == {th \in Threads : arg[th].timer = t
                              /\ pc[th] \notin {"free", "handler", "execute"}}
Deleting(t) == \E th \in Users(t) :
                  \/ pc[th] = "delete"
                  \/ pc[th] \in {"serve", "asleep"} /\ guard[t] # th
Legal(th, op, t) ==
    /\ t \in alive
    /\ op = "delete" => Users(t) = {}
    /\ \/ th \in Clients /\ pc[th] = "free" /\ op \in ClientOps /\ ~Deleting(t)
       \/ /\ th \in Executors /\ pc[th] = "handler" /\ arg[th].timer = t
          /\ op \in HandlerOps

Call(th, op, t) ==
    /\ calls < MaxCalls /\ Legal(th, op, t)
    /\ op = "start" => now <= LastStart
    /\ calls' = calls + 1
    /\ pc' = [pc EXCEPT ![th] = op]
    /\ arg' = [arg EXCEPT ![th] = [NoCall EXCEPT !.timer = t]]
    /\ UNCHANGED <<now, timerVars, guard, mainVars, execVars, owed, dropped>>

Back(th) == IF th \in Clients THEN "free" ELSE "handler"
Forget(th) == [arg EXCEPT ![th] =
                 IF th \in Clients THEN NoCall ELSE [NoCall EXCEPT !.timer = arg[th].timer]]

\* start() and restart(): the clock is read under the timer's mutex.
Start(th) ==
    LET t == arg[th].timer IN
    /\ pc[th] = "start" /\ guard[t] = None
    /\ guard' = [guard EXCEPT ![t] = th]
    /\ \E d \in 1..MaxTime :
          /\ now + d < MaxTime
          /\ arg' = [arg EXCEPT ![th].time = now + d]
    /\ pc' = [pc EXCEPT ![th] = "insert"]
    /\ UNCHANGED <<clockVars, timerVars, mainVars, execVars, owed, dropped>>

\* insert() does nothing when another timer has the same target time, and
\* nobody looks at what it returns: the timer is then in neither container.
Scheduled(f, d, t) ==
    /\ m_runningTimers' = Insert(f, d, t)
    /\ dropped' = IF f[d] = None THEN dropped \ {t} ELSE dropped \cup {t}
    /\ SignalMain
startTimer(th) ==
    LET t == arg[th].timer
        d == arg[th].time IN
    /\ pc[th] = "insert" /\ MainMutexFree
    /\ \/ d \in TargetsOf(t) /\ UNCHANGED <<timerVars, mainVars, dropped>>
       \/ /\ isRunning(t) /\ d \notin TargetsOf(t)
          /\ Scheduled(Erase(m_runningTimers, Min(TargetsOf(t))), d, t)
          /\ UNCHANGED <<m_idleTimers, alive>>
       \/ /\ ~isRunning(t)
          /\ m_idleTimers' = m_idleTimers \ {t}
          /\ Scheduled(m_runningTimers, d, t)
          /\ UNCHANGED alive
    /\ guard' = [guard EXCEPT ![t] = None]
    /\ pc' = [pc EXCEPT ![th] = Back(th)] /\ arg' = Forget(th)
    /\ UNCHANGED <<clockVars, execVars, owed>>

Stop(th) ==
    LET t == arg[th].timer IN
    /\ pc[th] = "stop" /\ guard[t] = None
    /\ guard' = [guard EXCEPT ![t] = th]
    /\ pc' = [pc EXCEPT ![th] = "halt"]
    /\ UNCHANGED <<clockVars, timerVars, mainVars, execVars, arg, owed, dropped>>

\* Only a timer that is running again is waited for.
stopTimer(th) ==
    LET t == arg[th].timer IN
    /\ pc[th] = "halt" /\ MainMutexFree
    /\ IF isRunning(t)
       THEN /\ m_runningTimers' = Erase(m_runningTimers, Min(TargetsOf(t)))
            /\ m_idleTimers' = m_idleTimers \cup {t}
            /\ SignalMain
       ELSE UNCHANGED <<m_runningTimers, m_idleTimers, mainVars>>
    /\ IF isRunning(t) /\ m_running[t] # None
       THEN /\ pc' = [pc EXCEPT ![th] = "serve"]
            /\ arg' = [arg EXCEPT ![th].exe = m_running[t]]
            /\ UNCHANGED guard
       ELSE /\ pc' = [pc EXCEPT ![th] = Back(th)] /\ arg' = Forget(th)
            /\ guard' = [guard EXCEPT ![t] = None]
    /\ UNCHANGED <<clockVars, alive, execVars, owed, dropped>>

\* The destructor waits for the executor, then the timer is gone.
MutWaitFor(t) == IF isRunning(t) THEN m_running[t] ELSE None
WaitFor(t) == m_running[t]
removeTimer(th) ==
    LET t == arg[th].timer IN
    /\ pc[th] = "delete" /\ MainMutexFree
    /\ IF isRunning(t)
       THEN /\ m_runningTimers' = Erase(m_runningTimers, Min(TargetsOf(t)))
            /\ UNCHANGED m_idleTimers
       ELSE m_idleTimers' = m_idleTimers \ {t} /\ UNCHANGED m_runningTimers
    /\ IF WaitFor(t) = None
       THEN /\ pc' = [pc EXCEPT ![th] = Back(th)] /\ arg' = Forget(th)
            /\ alive' = alive \ {t}
       ELSE /\ pc' = [pc EXCEPT ![th] = "serve"]
            /\ arg' = [arg EXCEPT ![th].exe = WaitFor(t)]
            /\ UNCHANGED alive
    /\ UNCHANGED <<clockVars, guard, mainVars, execVars, owed, dropped>>

-----------------------------------------------------------------------------
(* The management thread *)

isTimeReached(d) == now > d

\* Nothing is due: wait for a signal, or until the first target time.
MainWait ==
    /\ mpc = "loop"
    /\ \A d \in Occupied : ~isTimeReached(d)
    /\ mpc' = "wait"
    /\ nextStop' = IF Occupied = {} THEN None ELSE Min(Occupied)
    /\ UNCHANGED <<clockVars, timerVars, guard, found, execVars, pc, arg,
                   owed, dropped>>

MainTimeout ==
    /\ mpc = "wait" /\ nextStop # None /\ now >= nextStop
    /\ mpc' = "loop"
    /\ UNCHANGED <<clockVars, timerVars, guard, nextStop, found, execVars, pc, arg,
                   owed, dropped>>

\* doExecute() and getExecutor(); a new executor if none is idle.
doExecute ==
    /\ mpc = "loop" /\ Occupied # {} /\ isTimeReached(Min(Occupied))
    /\ LET d == Min(Occupied)
           t == m_runningTimers[d] IN
       /\ m_runningTimers' = Erase(m_runningTimers, d)
       /\ m_idleTimers' = m_idleTimers \cup {t}
       /\ \/ /\ m_running[t] # None
             /\ found' = [timer |-> t, exe |-> m_running[t]]
             /\ UNCHANGED <<m_idle, pc>>
          \/ /\ m_running[t] = None /\ m_idle # {}
             /\ found' = [timer |-> t, exe |-> Min(m_idle)]
             /\ UNCHANGED <<m_idle, pc>>
          \/ /\ m_running[t] = None /\ m_idle = {}
             /\ \E e \in Spare : /\ pc[e] = "none"
                                 /\ pc' = [pc EXCEPT ![e] = "check"]
                                 /\ m_idle' = {e}
                                 /\ found' = [timer |-> t, exe |-> e]
    /\ mpc' = "try"
    /\ UNCHANGED <<clockVars, alive, guard, nextStop, m_timer, m_doCount, m_running,
                   arg, owed, dropped>>

\* setRunning(): from the idle executors to the running ones.
MutSetRunning(e, t) == m_idle' = m_idle \ {e} /\ UNCHANGED m_running
setRunning(e, t) ==
    IF m_running[t] = None
    THEN m_idle' = m_idle \ {e} /\ m_running' = [m_running EXCEPT ![t] = e]
    ELSE UNCHANGED <<m_idle, m_running>>

MutWakes(e) == UNCHANGED pc
Wakes(e) ==
    \/ \E th \in Sleepers(e) : pc' = [pc EXCEPT ![th] = Awake(th)]
    \/ Sleepers(e) = {} /\ UNCHANGED pc

tryExecute ==
    LET e == found.exe
        t == found.timer IN
    /\ mpc = "try"
    /\ IF m_timer[e] \in {None, t}
       THEN /\ m_timer' = [m_timer EXCEPT ![e] = t]
            /\ IF m_doCount[e] = 0 THEN setRunning(e, t)
                                   ELSE UNCHANGED <<m_idle, m_running>>
            /\ m_doCount' = [m_doCount EXCEPT ![e] = @ + 1]
            /\ Wakes(e)
       ELSE UNCHANGED <<execVars, pc>>
    /\ owed' = [owed EXCEPT ![t] = @ + 1]
    /\ mpc' = "loop" /\ found' = Nobody
    /\ UNCHANGED <<clockVars, timerVars, guard, nextStop, arg, dropped>>

-----------------------------------------------------------------------------
(* Executors *)

\* setIdle(): the pair of m_timer = NULL and the move back to the idle ones.
Release(e) ==
    /\ m_running' = [m_running EXCEPT ![m_timer[e]] = None]
    /\ m_idle' = m_idle \cup {e}
    /\ m_doCount' = [m_doCount EXCEPT ![e] = 0]
    /\ m_timer' = [m_timer EXCEPT ![e] = None]

Check(e) ==
    /\ e \in Executors /\ pc[e] = "check"
    /\ pc' = [pc EXCEPT ![e] = IF m_timer[e] = None THEN "wait" ELSE "execute"]
    /\ UNCHANGED <<clockVars, timerVars, guard, mainVars, execVars, arg,
                   owed, dropped>>

\* PooledTimer::execute(): reads the listener under the timer's mutex.
Execute(e) ==
    /\ pc[e] = "execute" /\ guard[m_timer[e]] = None
    /\ pc' = [pc EXCEPT ![e] = "handler"]
    /\ arg' = [arg EXCEPT ![e] = [NoCall EXCEPT !.timer = m_timer[e]]]
    /\ owed' = [owed EXCEPT ![m_timer[e]] = IF @ > 0 THEN @ - 1 ELSE 0]
    /\ UNCHANGED <<clockVars, timerVars, guard, mainVars, execVars, dropped>>

\* The listener returns, or its thread exits and onThreadExitHandler() starts
\* another; reduceCount() wakes everyone who waits for the executor.
MutLast(e) == m_doCount[e] = 1
MutLastEarly(e) == TRUE
Last(e) == m_doCount[e] - 1 <= 0
reduceCount(e) ==
    /\ e \in Executors /\ pc[e] = "handler"
    /\ IF m_timer[e] # None /\ Last(e)
       THEN /\ Release(e)
            /\ pc' = [th \in Threads |-> IF th = e THEN "check"
                        ELSE IF th \in Sleepers(e) THEN Awake(th) ELSE pc[th]]
       ELSE /\ m_doCount' = IF m_timer[e] = None THEN m_doCount
                            ELSE [m_doCount EXCEPT ![e] = @ - 1]
            /\ pc' = [pc EXCEPT ![e] = "check"]
            /\ UNCHANGED <<m_timer, m_idle, m_running>>
    /\ arg' = [arg EXCEPT ![e] = NoCall]
    /\ UNCHANGED <<clockVars, timerVars, guard, mainVars, owed, dropped>>

\* waitUntilServiced(): the executor's own thread only lets go of the timer;
\* any other thread drops the pending events and sleeps until it is served.
Served(th) ==
    /\ pc' = [pc EXCEPT ![th] = Back(th)] /\ arg' = Forget(th)
    /\ LET t == arg[th].timer IN
       IF guard[t] = th
       THEN guard' = [guard EXCEPT ![t] = None] /\ UNCHANGED alive
       ELSE alive' = alive \ {t} /\ UNCHANGED guard
waitUntilServiced(th) ==
    LET t == arg[th].timer
        e == arg[th].exe IN
    /\ pc[th] = "serve"
    /\ \/ m_timer[e] = t /\ th = e /\ Release(e) /\ Served(th)
       \/ m_timer[e] # t /\ Served(th) /\ UNCHANGED execVars
       \/ /\ m_timer[e] = t /\ th # e
          /\ m_doCount' = [m_doCount EXCEPT ![e] = 0]
          /\ pc' = [pc EXCEPT ![th] = "asleep"]
          /\ UNCHANGED <<m_timer, m_idle, m_running, alive, guard, arg>>
    /\ owed' = IF m_timer[e] = t THEN [owed EXCEPT ![t] = 0] ELSE owed
    /\ UNCHANGED <<clockVars, m_runningTimers, m_idleTimers, mainVars, dropped>>

ThreadStep(th) ==
    \/ Start(th) \/ startTimer(th) \/ Stop(th) \/ stopTimer(th) \/ removeTimer(th)
    \/ waitUntilServiced(th)
ExecutorStep(e) == Check(e) \/ Execute(e) \/ reduceCount(e)
MainStep == MainWait \/ MainTimeout \/ doExecute \/ tryExecute

Next ==
    \/ Tick \/ MainStep
    \/ \E t \in Timers : Create(t)
    \/ \E th \in Threads, op \in Ops, t \in Timers : Call(th, op, t)
    \/ \E th \in Threads : ThreadStep(th)
    \/ \E e \in Executors : ExecutorStep(e)

Spec == Init /\ [][Next]_vars

\* Threads are scheduled, listeners return, the clock goes on.
FairSpec ==
    /\ Spec /\ WF_vars(Tick) /\ WF_vars(MainStep)
    /\ \A th \in Threads : WF_vars(ThreadStep(th))
    /\ \A e \in Executors : WF_vars(ExecutorStep(e))

-----------------------------------------------------------------------------
(* Properties *)

Pcs == {"free", "start", "insert", "stop", "halt", "delete", "serve", "asleep",
        "none", "check", "wait", "execute", "handler"}

\* The types of the pool's state; counts of pending events are never negative.
TypeOK ==
    /\ now \in Times /\ calls \in 0..MaxCalls
    /\ m_runningTimers \in [Times -> Timers \cup {None}]
    /\ m_idleTimers \subseteq Timers /\ alive \subseteq Timers
    /\ guard \in [Timers -> Threads \cup {None}]
    /\ mpc \in {"loop", "wait", "try"} /\ nextStop \in Times \cup {None}
    /\ found \in [timer : Timers \cup {None}, exe : Executors \cup {None}]
    /\ m_timer \in [Executors -> Timers \cup {None}]
    /\ m_doCount \in [Executors -> Nat]
    /\ m_idle \subseteq Executors
    /\ m_running \in [Timers -> Executors \cup {None}]
    /\ pc \in [Threads -> Pcs]
    /\ arg \in [Threads -> [timer : Timers \cup {None}, time : Times \cup {None},
                            exe : Executors \cup {None}]]
    /\ owed \in [Timers -> Nat] /\ dropped \subseteq Timers

Owned == {t \in alive : ~Deleting(t)}

\* OneState: a timer that exists and is not being destroyed is in exactly one
\* of m_idleTimers and m_runningTimers, there under one target time
\* (startTimer(), stopTimer(), doExecute()), with one exception: a timer
\* whose target time another one had is in neither until it is started
\* again, and does not fire.
OneState ==
    \A t \in Owned :
        /\ t \in dropped => t \notin m_idleTimers
        /\ Cardinality(TargetsOf(t)) =
              IF t \in m_idleTimers \cup dropped THEN 0 ELSE 1

\* EitherState: "Inside TimerPool each timer can be in either idle or running
\* state."
EitherState == \A t \in Owned : t \in m_idleTimers \/ isRunning(t)

Serving(e) == IF pc[e] = "execute" THEN m_timer[e] ELSE arg[e].timer

\* "it is serviced by single thread, so handler shouldn't take care of
\* synchronization": two executors never call the listener of one timer
\* (getExecutor(), setRunning(), setIdle()).
OneServer ==
    \A e, f \in Executors :
        Serving(e) # None /\ Serving(e) = Serving(f) => e = f

\* "no live thread exists in listener's timer event handler after timer is
\* destroyed": once the destructor has returned, neither the running timers
\* nor an executor refers to the timer, and no executor is in its listener,
\* unless it is that listener which destroyed it (removeTimer() and
\* waitUntilServiced()).
DestroyedQuiet ==
    \A t \in Timers \ alive :
        /\ ~isRunning(t) /\ m_running[t] = None /\ found.timer # t
        /\ \A e \in Executors :
              /\ m_timer[e] # t
              /\ "delete" \notin HandlerOps => Serving(e) # t

\* "it is possible to fire many events in row, timer event handler is called
\* same times": every event that doExecute() hands out and nobody discards is
\* still counted by the executor of its timer (m_doCount in tryExecute() and
\* reduceCount()).
NoEventLost ==
    \A t \in Timers : owed[t] > 0 =>
        \E e \in Executors :
            /\ m_timer[e] = t
            /\ owed[t] = m_doCount[e] - (IF arg[e].timer = t THEN 1 ELSE 0)

\* A timer that runs fires, and the listener is called for every event: no
\* wake-up of the management thread or of an executor is lost.
TimersFire ==
    \A t \in Timers : /\ isRunning(t) ~> ~isRunning(t)
                      /\ owed[t] > 0 ~> owed[t] = 0

\* "no possible deadlocks": stop() returns.
StopReturns == \A c \in Clients : pc[c] = "stop" ~> pc[c] = "free"
=============================================================================
