----------------------------- MODULE WorkerPool -----------------------------
(***************************************************************************)
(* WorkerPool and SyncedTask: threads that take tasks from a queue, and    *)
(* callers that wait until their task has run.                             *)
(*                                                                         *)
(* A step is what a thread does while it holds a mutex, or one call of     *)
(* ITask::run().  Condition variables are explicit: a waiting thread moves *)
(* only when it is signalled, or spuriously.  A call of push_and_join() is *)
(* known by its task; its caller (a JSON-RPC handler) still owns the task, *)
(* the pool owns the SyncedTask around it.                                 *)
(***************************************************************************)
EXTENDS Integers, Sequences, FiniteSets

CONSTANTS
    Workers,      \* threads started by init()
    Plain,        \* tasks given to push()
    Synced,       \* tasks given to push_and_join(), one caller each
    ShutdownBody, \* tasks whose run() calls init_shutdown()
    ThrowBody,    \* tasks whose run() may throw
    NoTask

Tasks == Plain \cup Synced

ASSUME PoolAssumption ==
    /\ IsFiniteSet(Workers) /\ Workers # {}
    /\ Plain \cap Synced = {}
    /\ ShutdownBody \subseteq Tasks /\ ThrowBody \subseteq Tasks
    /\ NoTask \notin Tasks

VARIABLES
    queue, shutdown, busy_workers,
    wpc,       \* where each worker is
    wtask,     \* the task a worker holds
    runs,      \* how often run() of each task has returned
    object,    \* the object in the queue: none, live or deleted
    inner,     \* the caller's task inside a SyncedTask: live or deleted
    finished,  \* SyncedTask::finished_status
    caller,    \* the thread that calls push_and_join()
    main,      \* the thread that owns the pool
    alive      \* the process runs

poolVars  == <<queue, shutdown, busy_workers>>
taskVars  == <<runs, object, inner, finished, caller>>
ownerVars == <<main, alive>>
vars == <<poolVars, wpc, wtask, taskVars, ownerVars>>

Init ==
    /\ queue = <<>> /\ shutdown = FALSE
    /\ busy_workers = Cardinality(Workers)
    /\ wpc = [w \in Workers |-> "enter"] /\ wtask = [w \in Workers |-> NoTask]
    /\ runs = [t \in Tasks |-> 0] /\ object = [t \in Tasks |-> "none"]
    /\ inner = [t \in Synced |-> "live"] /\ finished = [t \in Synced |-> FALSE]
    /\ caller = [t \in Synced |-> "free"]
    /\ main = "up" /\ alive = TRUE

\* pthread_cond_signal() wakes one waiting worker, if any;
\* pthread_cond_broadcast() wakes all.
MutSignal == UNCHANGED wpc
Signal ==
    \/ \E w \in Workers : wpc[w] = "wait" /\ wpc' = [wpc EXCEPT ![w] = "check"]
    \/ (\A w \in Workers : wpc[w] # "wait") /\ UNCHANGED wpc
MutBroadcast == Signal
Broadcast ==
    wpc' = [w \in Workers |-> IF wpc[w] = "wait" THEN "check" ELSE wpc[w]]

-----------------------------------------------------------------------------
(* Callers *)

Callable == alive /\ main # "destroyed"

Push(t) ==
    /\ Callable /\ object[t] = "none" /\ t \in Plain
    /\ IF ~shutdown
       THEN /\ queue' = Append(queue, t)
            /\ object' = [object EXCEPT ![t] = "live"]
            /\ Signal
       ELSE /\ object' = [object EXCEPT ![t] = "deleted"]
            /\ UNCHANGED <<queue, wpc>>
    /\ UNCHANGED <<shutdown, busy_workers, wtask, runs, inner, finished, caller,
                   ownerVars>>

PushAndJoin(t) ==
    /\ Callable /\ t \in Synced /\ caller[t] = "free"
    /\ IF ~shutdown
       THEN /\ queue' = Append(queue, t)
            /\ object' = [object EXCEPT ![t] = "live"]
            /\ caller' = [caller EXCEPT ![t] = "join"]
            /\ Signal
            /\ UNCHANGED inner
       ELSE /\ inner' = [inner EXCEPT ![t] = "deleted"]
            /\ caller' = [caller EXCEPT ![t] = "refused"]
            /\ UNCHANGED <<queue, object, wpc>>
    /\ UNCHANGED <<shutdown, busy_workers, wtask, runs, finished, ownerVars>>

\* SyncedTask::join(); the signal goes to the worker that runs the task.
Return(t) ==
    /\ caller' = [caller EXCEPT ![t] = "returned"]
    /\ finished' = [finished EXCEPT ![t] = FALSE]
    /\ wpc' = [w \in Workers |-> IF wpc[w] = "ackwait" /\ wtask[w] = t
                                 THEN "ack" ELSE wpc[w]]
MutJoined(t) == TRUE
Joined(t) == finished[t]
Join(t) ==
    /\ alive /\ t \in Synced /\ caller[t] = "join"
    /\ \/ Joined(t) /\ Return(t)
       \/ /\ ~Joined(t)
          /\ caller' = [caller EXCEPT ![t] = "wait"]
          /\ UNCHANGED <<finished, wpc>>
    /\ UNCHANGED <<poolVars, wtask, runs, object, inner, ownerVars>>

-----------------------------------------------------------------------------
(* Workers: run_entry() *)

\* One pass through the critical section, from the top of the loop (enter)
\* or after a wake-up (check).
MutIdling(w) == busy_workers - 1
Idling(w) == IF wpc[w] = "enter" THEN busy_workers - 1 ELSE busy_workers
Hold(w) == /\ queue # <<>>
           /\ busy_workers' = Idling(w) + 1
           /\ wpc' = [wpc EXCEPT ![w] = "run"]
           /\ wtask' = [wtask EXCEPT ![w] = Head(queue)]
MutTakeTask(w) == Hold(w) /\ queue' = Tail(queue)
MutTakeKeeps(w) == ~shutdown /\ Hold(w) /\ UNCHANGED queue
TakeTask(w) == ~shutdown /\ Hold(w) /\ queue' = Tail(queue)
Leave(w) ==
    /\ shutdown
    /\ busy_workers' = Idling(w)
    /\ wpc' = [wpc EXCEPT ![w] = "gone"]
    /\ UNCHANGED <<queue, wtask>>
Wait(w) ==
    /\ queue = <<>> /\ ~shutdown
    /\ busy_workers' = Idling(w)
    /\ wpc' = [wpc EXCEPT ![w] = "wait"]
    /\ UNCHANGED <<queue, wtask>>
Enter(w) ==
    /\ alive /\ wpc[w] \in {"enter", "check"}
    /\ TakeTask(w) \/ Leave(w) \/ Wait(w)
    /\ UNCHANGED <<shutdown, taskVars, ownerVars>>

\* task->run().
Run(w) ==
    LET t == wtask[w] IN
    /\ alive /\ wpc[w] = "run"
    /\ runs' = [runs EXCEPT ![t] = @ + 1]
    /\ LET next == IF t \in Synced THEN "sync" ELSE "delete" IN
       IF t \in ShutdownBody
       THEN /\ shutdown' = TRUE
            /\ wpc' = [v \in Workers |-> IF v = w THEN next
                         ELSE IF wpc[v] = "wait" THEN "check" ELSE wpc[v]]
       ELSE /\ wpc' = [wpc EXCEPT ![w] = next]
            /\ UNCHANGED shutdown
    /\ UNCHANGED <<queue, busy_workers, wtask, object, inner, finished, caller,
                   ownerVars>>

\* An exception leaves run(): gf->exit(1) raises SIGTERM.
RunThrows(w) ==
    /\ alive /\ wpc[w] = "run" /\ wtask[w] \in ThrowBody
    /\ alive' = FALSE
    /\ UNCHANGED <<poolVars, wpc, wtask, taskVars, main>>

\* SyncedTask::run() after the task: tell the caller and wait for the answer.
MutAfterSync == "delete"
AfterSync == "ackwait"
Sync(w) ==
    /\ alive /\ wpc[w] = "sync"
    /\ finished' = [finished EXCEPT ![wtask[w]] = TRUE]
    /\ caller' = [caller EXCEPT ![wtask[w]] = IF @ = "wait" THEN "join" ELSE @]
    /\ wpc' = [wpc EXCEPT ![w] = AfterSync]
    /\ UNCHANGED <<poolVars, wtask, runs, object, inner, ownerVars>>
Acknowledged(w) ==
    /\ alive /\ wpc[w] = "ack"
    /\ wpc' = [wpc EXCEPT ![w] = IF finished[wtask[w]] THEN "ackwait" ELSE "delete"]
    /\ UNCHANGED <<poolVars, wtask, taskVars, ownerVars>>

Delete(w) ==
    /\ alive /\ wpc[w] = "delete"
    /\ object' = [object EXCEPT ![wtask[w]] = "deleted"]
    /\ wpc' = [wpc EXCEPT ![w] = "enter"]
    /\ wtask' = [wtask EXCEPT ![w] = NoTask]
    /\ UNCHANGED <<poolVars, runs, inner, finished, caller, ownerVars>>

SpuriousWakeup ==
    /\ alive
    /\ \/ \E w \in Workers :
            /\ wpc[w] \in {"wait", "ackwait"}
            /\ wpc' = [wpc EXCEPT ![w] = IF @ = "wait" THEN "check" ELSE "ack"]
            /\ UNCHANGED caller
       \/ \E t \in Synced :
            /\ caller[t] = "wait"
            /\ caller' = [caller EXCEPT ![t] = "join"]
            /\ UNCHANGED wpc
    /\ UNCHANGED <<poolVars, wtask, runs, object, inner, finished, ownerVars>>

-----------------------------------------------------------------------------
(* The owner: init_shutdown(), join() and the destructor *)

InitShutdown ==
    /\ alive /\ main = "up"
    /\ main' = "join"
    /\ shutdown' = TRUE
    /\ Broadcast
    /\ UNCHANGED <<queue, busy_workers, wtask, taskVars, alive>>

\* join() returns when every thread has ended; ~WorkerPool() then deletes
\* what is left in the queue.
Destroy ==
    /\ alive /\ main = "join" /\ \A w \in Workers : wpc[w] = "gone"
    /\ main' = "destroyed"
    /\ object' = [t \in Tasks |-> IF \E i \in DOMAIN queue : queue[i] = t
                                  THEN "deleted" ELSE object[t]]
    /\ queue' = <<>>
    /\ UNCHANGED <<shutdown, busy_workers, wpc, wtask, runs, inner, finished,
                   caller, alive>>

-----------------------------------------------------------------------------
Work(w) == Enter(w) \/ Run(w) \/ RunThrows(w) \/ Sync(w) \/ Acknowledged(w)
             \/ Delete(w)

Next == \/ \E t \in Plain : Push(t)
        \/ \E t \in Synced : PushAndJoin(t) \/ Join(t)
        \/ \E w \in Workers : Work(w)
        \/ SpuriousWakeup \/ InitShutdown \/ Destroy

Spec == Init /\ [][Next]_vars

\* Threads are scheduled and task bodies end; nobody has to push, to shut
\* the pool down or to wake up spuriously.
Fairness == /\ \A w \in Workers : WF_vars(Work(w))
            /\ \A t \in Synced : WF_vars(Join(t))
            /\ WF_vars(Destroy)
FairSpec == Spec /\ Fairness

-----------------------------------------------------------------------------
(* Properties *)

QueueType == /\ queue \in Seq(Tasks) /\ shutdown \in BOOLEAN
             /\ busy_workers \in 0..Cardinality(Workers)
WorkerType ==
    /\ wpc \in [Workers -> {"enter", "check", "wait", "run", "sync", "ackwait",
                            "ack", "delete", "gone"}]
    /\ wtask \in [Workers -> Tasks \cup {NoTask}]
TaskType ==
    /\ runs \in [Tasks -> Nat]
    /\ object \in [Tasks -> {"none", "live", "deleted"}]
    /\ inner \in [Synced -> {"live", "deleted"}]
    /\ finished \in [Synced -> BOOLEAN]
    /\ caller \in [Synced -> {"free", "join", "wait", "returned", "refused"}]
\* TypeOK: the types of the variables.
TypeOK == /\ QueueType /\ WorkerType /\ TaskType
          /\ main \in {"up", "join", "destroyed"} /\ alive \in BOOLEAN

\* BusyMatches: busy_workers counts the workers that are outside of the
\* waiting loop; the size_t never drops below zero.
BusyMatches ==
    busy_workers =
        Cardinality({w \in Workers : wpc[w] \notin {"wait", "check", "gone"}})

Held(w) == wpc[w] \in {"run", "sync", "ackwait", "ack", "delete"}
\* OneHolder: a task object is in the queue once, or held by one worker, and
\* nowhere else; only such objects are alive, so run() and delete never
\* touch an object that is gone.
OneHolder ==
    /\ \A w \in Workers : Held(w) => object[wtask[w]] = "live"
    /\ \A v, w \in Workers : Held(v) /\ Held(w) /\ wtask[v] = wtask[w] => v = w
    /\ \A i \in DOMAIN queue :
         /\ object[queue[i]] = "live" /\ runs[queue[i]] = 0
         /\ \A j \in DOMAIN queue : queue[i] = queue[j] => i = j
         /\ \A w \in Workers : Held(w) => wtask[w] # queue[i]

\* JoinedHasRun: push_and_join() returns only when its task has run exactly
\* once, or when it was refused.
JoinedHasRun ==
    \A t \in Synced : /\ caller[t] = "returned" => runs[t] = 1
                      /\ caller[t] = "refused" => runs[t] = 0

\* NotPremature: while the pool exists, a SyncedTask is not deleted before
\* its caller has left join(); "signalling back to not allow premature
\* destructor call".
NotPremature ==
    main # "destroyed" =>
        \A t \in Synced : caller[t] \in {"join", "wait"} => object[t] = "live"

\* NoEffectAfterShutdown: once init_shutdown() was called push() has no
\* effect, and no further task is started.
NoEffectAfterShutdown ==
    [][shutdown => /\ Len(queue') <= Len(queue)
                   /\ \A w \in Workers : wpc'[w] = "run" => wpc[w] = "run"]_vars

\* TasksRun: until the pool is shut down or the process ends every task in
\* the queue is eventually run.
TasksRun ==
    \A t \in Tasks : object[t] = "live" ~> runs[t] > 0 \/ shutdown \/ ~alive

\* ShutdownEnds: once init_shutdown() was called join() returns, and every
\* thread of the pool has ended.
ShutdownEnds == main = "join" ~> main = "destroyed" \/ ~alive

\* OwnershipKept: push_and_join() "doesn't take ownership of task".
OwnershipKept == \A t \in Synced : inner[t] = "live"

\* NeverPremature: a SyncedTask outlives the call of join() that waits for
\* it, in the destructor of the pool as well.
NeverPremature ==
    \A t \in Synced : caller[t] \in {"join", "wait"} => object[t] = "live"

=============================================================================
