------------------------------ MODULE Scheduler ------------------------------
(***************************************************************************)
(* The scheduler task closed by the least its environment promises: any    *)
(* client may send any command at any time, every dispatched job becomes a *)
(* run, every run that ends sends SlotFreed, and the process may restart.  *)
(* Daemon refines this specification with the runs the bridge starts.      *)
(***************************************************************************)
EXTENDS SchedulerTask

VARIABLE runs  \* for each job, how many of its runs have not freed a slot yet

vars == <<schedVars, runs>>

Init ==
    /\ SchedInit
    /\ sent = 0
    /\ doubled = {}
    /\ runs = [j \in Jobs |-> 0]

(* ADD_DOWNLOAD, RESUME and RETRY.                                         *)
ClientEnqueue(job) ==
    /\ ClientSend(Enqueue(job))
    /\ UNCHANGED <<sched, runs>>

(* UPDATE_SETTINGS, SET_PRIORITY, and CANCEL or REMOVE.                    *)
ClientControl(c) ==
    /\ ClientSend(c)
    /\ UNCHANGED <<sched, runs>>

ClientSetMaxConcurrent == \E n \in Limits : ClientControl(SetMaxConcurrent(n))
ClientSetPriority == \E j \in Jobs, p \in Priorities : ClientControl(SetPriority(j, p))
ClientRemovePending == \E j \in Jobs : ClientControl(RemovePending(j))

(* dispatch() calls bridge::start_download.                                *)
Start(q) ==
    /\ Dispatch(q)
    /\ runs' = [runs EXCEPT ![q.job.id] = @ + 1]

(* Mutant: a run ends without SlotFreed.                                   *)
RunVanishes(j) ==
    /\ runs[j] > 0
    /\ runs' = [runs EXCEPT ![j] = @ - 1]
    /\ UNCHANGED schedVars

RunEnds(j) ==
    /\ runs[j] > 0
    /\ runs' = [runs EXCEPT ![j] = @ - 1]
    /\ Send(SlotFreed(j))
    /\ UNCHANGED <<sched, sentVars>>

(* The process stops and starts again: main() reads the limit and queues   *)
(* nothing.                                                                *)
Restart ==
    /\ cmds' = <<>>
    /\ \E n \in Limits : max' = AtLeastOne(n)
    /\ seq' = 0
    /\ running' = {}
    /\ pending' = {}
    /\ loop' = "recv"
    /\ doubled' = {}
    /\ runs' = [j \in Jobs |-> 0]
    /\ UNCHANGED sent

StartSome == \E q \in pending : Start(q)

RecvSome ==
    /\ \/ RecvEnqueue
       \/ RecvSlotFreed
       \/ RecvSetMaxConcurrent
       \/ RecvSetPriority
       \/ RecvRemovePending
    /\ UNCHANGED runs

LeaveDispatch == DispatchDone /\ UNCHANGED runs

(* Everything the scheduler's own task does.                               *)
TaskStep == RecvSome \/ StartSome \/ LeaveDispatch

Next ==
    \/ \E job \in Copy : ClientEnqueue(job)
    \/ ClientSetMaxConcurrent
    \/ ClientSetPriority
    \/ ClientRemovePending
    \/ TaskStep
    \/ \E j \in Jobs : RunEnds(j)
    \/ Restart

Spec == Init /\ [][Next]_vars

(* The task is polled by the runtime while it has work; a run ends when    *)
(* its server answers or drops the connection. Clients owe nothing.        *)
Fairness ==
    /\ WF_vars(TaskStep)
    /\ \A j \in Jobs : WF_vars(RunEnds(j))

FairSpec == Spec /\ Fairness

-----------------------------------------------------------------------------
(* Type invariant.                                                         *)
TypeOK ==
    /\ SchedTypeOK
    /\ runs \in [Jobs -> Nat]

(* No slot leaks: a job that occupies a slot has a run that will free it,  *)
(* or its SlotFreed is on the way. A slot with neither would be lost for   *)
(* good, because only SlotFreed removes from `running`.                    *)
SlotBacked == \A j \in running : runs[j] > 0 \/ InChannel(SlotFreed(j))

(* The task never goes to sleep in rx.recv() on a free slot while a job    *)
(* waits: nothing else would ever wake it for that job.                    *)
WorkConserving == (loop = "recv" /\ Cardinality(running) < max) => pending = {}

(* A job nobody queued twice is held in one place at a time: a queued      *)
(* copy, a run, or one message in the channel. So the SlotFreed of one run *)
(* of it cannot free the slot of a later one, whatever clients do to other *)
(* jobs.                                                                   *)
Carries(c, j) == (c.op = "Enqueue" /\ c.job.id = j) \/ c = SlotFreed(j)
AtMostOneMessage(j) ==
    \A i, k \in DOMAIN cmds : Carries(cmds[i], j) /\ Carries(cmds[k], j) => i = k
AtMostOneEntry(j) ==
    \A q, r \in pending : q.job.id = j /\ r.job.id = j => q = r
HeldOnce(j) ==
    /\ runs[j] <= 1
    /\ j \in running <=> (runs[j] = 1 \/ InChannel(SlotFreed(j)))
    /\ ~ (runs[j] = 1 /\ InChannel(SlotFreed(j)))
    /\ IsQueued(j) => j \notin running
    /\ EnqueueInChannel(j) => j \notin running /\ ~ IsQueued(j)
    /\ AtMostOneMessage(j)
    /\ AtMostOneEntry(j)
OneAtATime == \A j \in Jobs \ doubled : HeldOnce(j)

(* A request made twice breaks the limit only with the job it names: of    *)
(* the other jobs no more than the limit are running when one starts, and  *)
(* none of those starts while a run of it is in progress. This is about    *)
(* the runs, not about the set `running` that the scheduler keeps.         *)
Live == {j \in Jobs : runs[j] > 0}
StartsWithinCap ==
    [][\A j \in Jobs : runs'[j] > runs[j] =>
            /\ j \notin doubled => runs[j] = 0
            /\ Cardinality(Live' \ doubled) <= max]_vars

(* The job that should start next does start, unless it is removed or      *)
(* another one overtakes it.                                               *)
TopServed == \A j \in Jobs :
    (\E q \in pending : q.job.id = j /\ IsTop(q)) ~> ~ (\E q \in pending : q.job.id = j /\ IsTop(q))

(* A job that keeps a slot forever would block the queue: every slot is    *)
(* given back.                                                             *)
SlotsReturn == \A j \in Jobs : j \in running ~> j \notin running
=============================================================================
