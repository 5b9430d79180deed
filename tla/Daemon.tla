------------------------------- MODULE Daemon -------------------------------
(***************************************************************************)
(* The daemon: the scheduler task, the runs it starts, the consumer of     *)
(* engine events, one handler per client connection, the jobs table and    *)
(* the process itself, which may stop at any point and start again.        *)
(* Every action is what a task does between two points where another task  *)
(* can see or change what it uses: a lock released, a message sent.        *)
(***************************************************************************)
EXTENDS RunTask

CONSTANTS
    Clients,     \* connections of UIs and extensions
    Requests,    \* the kinds of messages they send
    UiOnly,      \* they send what the UI has a button for, given the row
    MaxRestarts, \* bound: restarts of the process in one behaviour
    Overrides,   \* the limits the process may be started with in UDM_MAX_CONCURRENT
    NoOverride   \* the variable is not set

AllRequests == {"Add", "Pause", "Resume", "Retry", "Cancel", "Remove", "SetPriority",
                "UpdateSettings"}

ASSUME RequestsAssumption == Requests \subseteq AllRequests
ASSUME UiOnlyAssumption == UiOnly \in BOOLEAN
ASSUME MaxRestartsAssumption == MaxRestarts \in Nat
ASSUME OverridesAssumption == Overrides \subseteq Limits /\ NoOverride \notin Limits

VARIABLES
    db,          \* the jobs table: a row or NoRow for each job
    used,        \* the identifiers Uuid::new_v4 has handed out
    savedMax,    \* the max_concurrent_downloads row of the settings table
    override,    \* what UDM_MAX_CONCURRENT says, until a client sets the limit
    cancelling,  \* AppState.cancelling
    consumer,    \* consume_events: at recv(), or deleting the parts of a job
    handler,     \* handle_text of each connection: idle, or what is left to do
    restarts     \* how often the process has restarted

(* History: no action reads them, the properties do.                       *)
VARIABLES
    stale,     \* jobs whose status a stray tick or an earlier process wrote last
    crossed,   \* jobs one connection queued while another was withdrawing them
    chosen,    \* the limit a client saved last
    contested  \* another limit was on its way when that one was saved

dbVars == <<db, stale>>
requestVars == <<used, crossed>>
limitVars == <<savedMax, override, chosen, contested>>
daemonVars == <<dbVars, requestVars, limitVars, cancelling, consumer, handler, restarts>>
vars == <<schedVars, runVars, daemonVars>>

NoRow == [status |-> "none"]
Statuses == {"Queued", "Active", "Paused", "Completed", "Failed", "Cancelled"}
Row == [status : Statuses, priority : Priorities, plan : Plans]

HasRow(j) == db[j] # NoRow

(* UPDATE jobs SET status = s WHERE id = j.                                *)
Updated(j, s) == IF HasRow(j) THEN [db EXCEPT ![j].status = s] ELSE db
SetStatus(j, s) == db' = Updated(j, s) /\ stale' = stale \ {j}

(* Mutant: insert_job whether or not the row is there.                     *)
SetPlanAndStatusUpserts(j, plan, s) ==
    /\ db' = [db EXCEPT ![j] =
                 [status |-> s, priority |-> CHOOSE p \in Priorities : TRUE, plan |-> plan]]
    /\ stale' = stale \ {j}

(* get_job, then insert_job only if the row is there.                      *)
SetPlanAndStatus(j, plan, s) ==
    /\ db' = IF HasRow(j) THEN [db EXCEPT ![j].status = s, ![j].plan = plan] ELSE db
    /\ stale' = stale \ {j}

CopyOf(j) == [id |-> j, priority |-> db[j].priority, plan |-> db[j].plan]

(* remove_file on every path part_files() lists for a row with that plan.  *)
DeleteParts(j, plan) ==
    files' = [files EXCEPT ![j] = @ \ ({"part"} \cup IF plan = "segs" THEN {"seg"} ELSE {})]

AtRest == [pc |-> "rest"]

(* The environment overrides the settings.                                 *)
Configured(n, forced) == IF forced = NoOverride THEN n ELSE forced

Init ==
    /\ SchedInit
    /\ sent = 0
    /\ doubled = {}
    /\ RunInit
    /\ db = [j \in Jobs |-> NoRow]
    /\ used = {}
    /\ savedMax \in Limits
    /\ override \in Overrides \cup {NoOverride}
    /\ max = AtLeastOne(Configured(savedMax, override))
    /\ cancelling = {}
    /\ consumer = AtRest
    /\ handler = [c \in Clients |-> AtRest]
    /\ restarts = 0
    /\ stale = {}
    /\ crossed = {}
    /\ chosen = savedMax
    /\ contested = FALSE

-----------------------------------------------------------------------------
(* The scheduler task.                                                     *)

SchedulerSetsPriority ==
    /\ RecvSetPriority
    /\ LET c == Head(cmds)
       IN  db' = IF HasRow(c.id) THEN [db EXCEPT ![c.id].priority = c.priority] ELSE db
    /\ UNCHANGED <<runVars, stale, requestVars, limitVars, cancelling, consumer, handler,
                   restarts>>

SchedulerStarts ==
    /\ \E q \in pending : StartDownload(q)
    /\ UNCHANGED daemonVars

SchedulerStep ==
    \/ /\ RecvEnqueue \/ RecvSlotFreed \/ RecvSetMaxConcurrent \/ RecvRemovePending \/ DispatchDone
       /\ UNCHANGED <<runVars, daemonVars>>
    \/ SchedulerSetsPriority
    \/ SchedulerStarts

-----------------------------------------------------------------------------
(* The runs.                                                               *)

(* The row is read again after the backoff, if it is still there.          *)
RetryRun(r) ==
    LET j == run[r].job
    IN  BackoffOver(r, IF HasRow(j) THEN db[j].plan ELSE run[r].plan)

(* What a run does of its own accord.                                      *)
LocalStep(r) ==
    /\ \/ BeginResume(r) \/ BodyStops(r) \/ Join(r) \/ Assemble(r) \/ AssembleFails(r)
       \/ GiveUp(r) \/ Backoff(r) \/ BackoffStops(r) \/ RetryRun(r)
       \/ Unlist(r) \/ FreeSlot(r)
    /\ UNCHANGED daemonVars

(* What waits for the server's headers, or for its body.                   *)
HeaderStep(r) ==
    /\ ProbeAnswers(r) \/ GetAnswers(r) \/ GetFails(r) \/ OpenFails(r)
    /\ UNCHANGED daemonVars

BodyStep(r) ==
    /\ BodyEnds(r) \/ BodyFails(r)
    /\ UNCHANGED daemonVars

TickerStep ==
    /\ \/ \E r \in Runs : RunTick(r)
       \/ \E t \in strays : StrayTick(t)
    /\ UNCHANGED daemonVars

-----------------------------------------------------------------------------
(* The consumer of engine events.                                          *)

ConsumeEvent(ev) ==
    /\ consumer = AtRest
    /\ events # <<>>
    /\ Head(events).ev = ev
    /\ events' = Tail(events)
    /\ UNCHANGED <<schedVars, run, active, strays, files, requestVars, limitVars, handler,
                   restarts>>

ConsumeStarted ==
    /\ ConsumeEvent("Started")
    /\ SetPlanAndStatus(Head(events).id, Head(events).plan, "Active")
    /\ UNCHANGED <<cancelling, consumer>>

ConsumeProgress ==
    /\ ConsumeEvent("Progress")
    /\ db' = Updated(Head(events).id, "Active")
    /\ stale' = IF Head(events).stray THEN stale \cup {Head(events).id}
                ELSE stale \ {Head(events).id}
    /\ UNCHANGED <<cancelling, consumer>>

ConsumePaused ==
    LET j == Head(events).id
    IN  /\ ConsumeEvent("Paused")
        /\ j \notin cancelling
        /\ SetPlanAndStatus(j, Head(events).plan, "Paused")
        /\ UNCHANGED <<cancelling, consumer>>

(* finish_cancel: the row, then the part files it names.                   *)
ConsumeCancelled ==
    LET j == Head(events).id
    IN  /\ ConsumeEvent("Paused")
        /\ j \in cancelling
        /\ cancelling' = cancelling \ {j}
        /\ SetStatus(j, "Cancelled")
        /\ consumer' = IF HasRow(j) THEN [pc |-> "files", id |-> j, plan |-> db[j].plan] ELSE AtRest

ConsumeCompleted ==
    /\ ConsumeEvent("Completed")
    /\ SetStatus(Head(events).id, "Completed")
    /\ UNCHANGED <<cancelling, consumer>>

ConsumeFailed ==
    /\ ConsumeEvent("Failed")
    /\ SetStatus(Head(events).id, "Failed")
    /\ UNCHANGED <<cancelling, consumer>>

ConsumerDeletes ==
    /\ consumer # AtRest
    /\ DeleteParts(consumer.id, consumer.plan)
    /\ consumer' = AtRest
    /\ UNCHANGED <<schedVars, run, active, strays, events, dbVars, requestVars, limitVars,
                   cancelling, handler, restarts>>

ConsumerStep ==
    \/ ConsumeStarted \/ ConsumeProgress \/ ConsumePaused \/ ConsumeCancelled
    \/ ConsumeCompleted \/ ConsumeFailed \/ ConsumerDeletes

-----------------------------------------------------------------------------
(* The handlers. A connection takes its next message when it is done with  *)
(* the last one.                                                           *)

(* The sends that handlers already owe count against the bound.            *)
Owed == Cardinality({c \in Clients : handler[c].pc \in {"enqueue", "limit"}})

Asks(c, kind) ==
    /\ kind \in Requests
    /\ handler[c] = AtRest
    /\ kind # "Pause" => sent + Owed < MaxSends

(* A client learns of a job from its row, and the UI has a button for it   *)
(* in some statuses (renderActions).                                       *)
Offered(j, statuses) == j \in used /\ (UiOnly => db[j].status \in statuses)

Then(c, h) == handler' = [handler EXCEPT ![c] = h]

(* queue_payload: the row is inserted under the lock, the command is sent  *)
(* after the broadcast.                                                    *)
AddDownload(c, j, p) ==
    /\ Asks(c, "Add")
    /\ j \notin used
    /\ used' = used \cup {j}
    /\ db' = [db EXCEPT ![j] = [status |-> "Queued", priority |-> p, plan |-> "none"]]
    /\ stale' = stale \ {j}
    /\ Then(c, [pc |-> "enqueue", job |-> [id |-> j, priority |-> p, plan |-> "none"]])
    /\ UNCHANGED <<schedVars, runVars, crossed, limitVars, cancelling, consumer, restarts>>

(* Handlers at work on a job: one about to queue it, one withdrawing it.   *)
BeingQueued(j) == \E c \in Clients : handler[c].pc = "enqueue" /\ handler[c].job.id = j
BeingDropped(j) ==
    \E c \in Clients :
        handler[c].pc \in {"check", "mark", "stop", "row"} /\ handler[c].id = j

NoteCrossing(j) == crossed' = IF BeingDropped(j) THEN crossed \cup {j} ELSE crossed

Resume(c, j) ==
    /\ Asks(c, "Resume") /\ Offered(j, {"Paused"})
    /\ HasRow(j)
    /\ Then(c, [pc |-> "enqueue", job |-> CopyOf(j)])
    /\ NoteCrossing(j)
    /\ UNCHANGED <<schedVars, runVars, dbVars, used, limitVars, cancelling, consumer,
                   restarts>>

Retry(c, j) ==
    /\ Asks(c, "Retry") /\ Offered(j, {"Failed", "Cancelled"})
    /\ HasRow(j)
    /\ SetStatus(j, "Queued")
    /\ Then(c, [pc |-> "enqueue", job |-> CopyOf(j)])
    /\ NoteCrossing(j)
    /\ UNCHANGED <<schedVars, runVars, used, limitVars, cancelling, consumer, restarts>>

HandlerEnqueues(c) ==
    /\ handler[c].pc = "enqueue"
    /\ ClientSend(Enqueue(handler[c].job))
    /\ Then(c, AtRest)
    /\ UNCHANGED <<sched, runVars, dbVars, requestVars, limitVars, cancelling, consumer,
                   restarts>>

LimitOnItsWay == \E c \in Clients : handler[c].pc = "limit"

NoteChoice(n) ==
    /\ chosen' = n
    /\ contested' = LimitOnItsWay

(* Mutant: the command without save_settings.                              *)
UpdateSettingsUnsaved(c, n) ==
    /\ Asks(c, "UpdateSettings")
    /\ override' = NoOverride
    /\ Then(c, [pc |-> "limit", n |-> n])
    /\ NoteChoice(n)
    /\ UNCHANGED <<schedVars, runVars, dbVars, requestVars, savedMax, cancelling, consumer,
                   restarts>>

(* save_settings, then the command.                                        *)
UpdateSettings(c, n) ==
    /\ Asks(c, "UpdateSettings")
    /\ savedMax' = n
    /\ override' = NoOverride
    /\ Then(c, [pc |-> "limit", n |-> n])
    /\ NoteChoice(n)
    /\ UNCHANGED <<schedVars, runVars, dbVars, requestVars, cancelling, consumer, restarts>>

HandlerSetsLimit(c) ==
    /\ handler[c].pc = "limit"
    /\ ClientSend(SetMaxConcurrent(handler[c].n))
    /\ Then(c, AtRest)
    /\ UNCHANGED <<sched, runVars, dbVars, requestVars, limitVars, cancelling, consumer,
                   restarts>>

ChangePriority(c, j, p) ==
    /\ Asks(c, "SetPriority") /\ Offered(j, {})
    /\ ClientSend(SetPriority(j, p))
    /\ UNCHANGED <<sched, runVars, daemonVars>>

Pause(c, j) ==
    /\ Asks(c, "Pause") /\ Offered(j, {"Active", "Queued"})
    /\ active[j] # NoRun
    /\ StopListed(j)
    /\ UNCHANGED <<schedVars, active, strays, events, files, daemonVars>>

(* What it takes back is all there is of the job in the queue, unless      *)
(* another handler still holds a copy.                                     *)
NoteWithdrawal(j) == crossed' = IF BeingQueued(j) THEN crossed \cup {j} ELSE crossed \ {j}

(* Mutant: the job is left in the queue.                                   *)
WithdrawNothing(c, j, kind) ==
    /\ Asks(c, kind)
    /\ Then(c, [pc |-> "check", kind |-> kind, id |-> j])
    /\ NoteWithdrawal(j)
    /\ UNCHANGED <<schedVars, runVars, dbVars, used, limitVars, cancelling, consumer,
                   restarts>>

(* CANCEL and REMOVE: out of the queue first, then is it running?          *)
Withdraw(c, j, kind) ==
    /\ Asks(c, kind)
    /\ ClientSend(RemovePending(j))
    /\ Then(c, [pc |-> "check", kind |-> kind, id |-> j])
    /\ NoteWithdrawal(j)
    /\ UNCHANGED <<sched, runVars, dbVars, used, limitVars, cancelling, consumer, restarts>>

Cancel(c, j) == Offered(j, {"Active", "Queued", "Paused"}) /\ Withdraw(c, j, "Cancel")
Remove(c, j) == Offered(j, Statuses) /\ Withdraw(c, j, "Remove")

WithdrawChecks(c) ==
    /\ handler[c].pc = "check"
    /\ Then(c, [handler[c] EXCEPT !.pc = IF active[handler[c].id] # NoRun THEN "mark" ELSE "row"])
    /\ UNCHANGED <<schedVars, runVars, dbVars, requestVars, limitVars, cancelling, consumer,
                   restarts>>

WithdrawMarks(c) ==
    /\ handler[c].pc = "mark"
    /\ cancelling' = cancelling \cup {handler[c].id}
    /\ Then(c, [handler[c] EXCEPT !.pc = "stop"])
    /\ UNCHANGED <<schedVars, runVars, dbVars, requestVars, limitVars, consumer, restarts>>

WithdrawStops(c) ==
    /\ handler[c].pc = "stop"
    /\ StopListed(handler[c].id)
    /\ Then(c, IF handler[c].kind = "Cancel" THEN AtRest ELSE [handler[c] EXCEPT !.pc = "row"])
    /\ UNCHANGED <<schedVars, active, strays, events, files, dbVars, requestVars, limitVars,
                   cancelling, consumer, restarts>>

(* finish_cancel marks the row, remove deletes it; both read its plan.     *)
WithdrawRow(c) ==
    LET j == handler[c].id
    IN  /\ handler[c].pc = "row"
        /\ IF handler[c].kind = "Cancel" THEN SetStatus(j, "Cancelled")
           ELSE db' = [db EXCEPT ![j] = NoRow] /\ stale' = stale \ {j}
        /\ Then(c, IF HasRow(j) THEN [pc |-> "files", id |-> j, plan |-> db[j].plan] ELSE AtRest)
        /\ UNCHANGED <<schedVars, runVars, requestVars, limitVars, cancelling, consumer,
                       restarts>>

WithdrawDeletes(c) ==
    /\ handler[c].pc = "files"
    /\ DeleteParts(handler[c].id, handler[c].plan)
    /\ Then(c, AtRest)
    /\ UNCHANGED <<schedVars, run, active, strays, events, dbVars, requestVars, limitVars,
                   cancelling, consumer, restarts>>

Request(c) ==
    \/ \E j \in Jobs, p \in Priorities : AddDownload(c, j, p) \/ ChangePriority(c, j, p)
    \/ \E j \in Jobs : Resume(c, j) \/ Retry(c, j) \/ Pause(c, j) \/ Cancel(c, j) \/ Remove(c, j)
    \/ \E n \in Limits : UpdateSettings(c, n)

HandlerStep(c) ==
    \/ HandlerEnqueues(c) \/ HandlerSetsLimit(c)
    \/ WithdrawChecks(c) \/ WithdrawMarks(c) \/ WithdrawStops(c) \/ WithdrawRow(c)
    \/ WithdrawDeletes(c)

-----------------------------------------------------------------------------
(* What main() finds and sets up when it runs again.                       *)
Reborn ==
    /\ restarts < MaxRestarts
    /\ restarts' = restarts + 1
    /\ cmds' = <<>>
    /\ override' \in Overrides \cup {NoOverride}
    /\ max' = AtLeastOne(Configured(savedMax, override'))
    /\ seq' = 0
    /\ pending' = {}
    /\ loop' = "recv"
    /\ run' = [r \in Runs |-> Idle]
    /\ active' = [j \in Jobs |-> NoRun]
    /\ strays' = {}
    /\ events' = <<>>
    /\ cancelling' = {}
    /\ consumer' = AtRest
    /\ handler' = [c \in Clients |-> AtRest]
    /\ doubled' = {} /\ crossed' = {} /\ contested' = FALSE
    /\ stale' = Jobs
    /\ UNCHANGED <<sent, files, db, used, savedMax, chosen>>

(* Mutant: the slots of the dead process stay taken.                       *)
RestartKeepsSlots == Reborn /\ UNCHANGED running

(* The process dies at any point and main() runs again: what is not in the *)
(* database or on disk is gone, and no job is queued.                      *)
Restart == Reborn /\ running' = {}

Next ==
    \/ SchedulerStep
    \/ \E r \in Runs : LocalStep(r) \/ HeaderStep(r) \/ BodyStep(r)
    \/ TickerStep
    \/ ConsumerStep
    \/ \E c \in Clients : Request(c) \/ HandlerStep(c)
    \/ Restart

Spec == Init /\ [][Next]_vars

(* Every task that has work is polled. Servers and clients owe nothing.    *)
Fairness ==
    /\ WF_vars(SchedulerStep)
    /\ WF_vars(ConsumerStep)
    /\ \A r \in Runs : WF_vars(LocalStep(r))
    /\ \A c \in Clients : WF_vars(HandlerStep(c))

(* Assumed only where a property says so: every request gets its headers,  *)
(* or an error; every body ends, or its connection drops.                  *)
HeadersArrive == \A r \in Runs : WF_vars(HeaderStep(r))
BodiesEnd == \A r \in Runs : WF_vars(BodyStep(r))

FairSpec == Spec /\ Fairness
AnsweringSpec == FairSpec /\ HeadersArrive

-----------------------------------------------------------------------------
(* Type invariant.                                                         *)
HandlerState ==
    {AtRest}
        \cup [pc : {"enqueue"}, job : Copy]
        \cup [pc : {"limit"}, n : Limits]
        \cup [pc : {"check", "mark", "stop", "row"}, kind : {"Cancel", "Remove"}, id : Jobs]
        \cup [pc : {"files"}, id : Jobs, plan : Plans]

TypeOK ==
    /\ SchedTypeOK
    /\ RunTypeOK
    /\ db \in [Jobs -> Row \cup {NoRow}]
    /\ used \in SUBSET Jobs
    /\ savedMax \in Limits
    /\ override \in Overrides \cup {NoOverride}
    /\ cancelling \in SUBSET Jobs
    /\ consumer \in {AtRest} \cup [pc : {"files"}, id : Jobs, plan : Plans]
    /\ handler \in [Clients -> HandlerState]
    /\ restarts \in 0 .. MaxRestarts
    /\ stale \in SUBSET Jobs
    /\ crossed \in SUBSET Jobs
    /\ chosen \in Limits
    /\ contested \in BOOLEAN

(* The daemon's scheduler is the one of module Scheduler, with the tasks   *)
(* that still owe a SlotFreed as its runs.                                 *)
RunsOf == [j \in Jobs |-> Cardinality({r \in Runs : RunningJob(r, j)})]
Abstract == INSTANCE Scheduler WITH runs <- RunsOf
RefinesScheduler == Abstract!Spec

(* A token that is listed belongs to a task that will take it off the list *)
(* again: pause and cancel never signal a token nobody holds.              *)
TokenIsHeld ==
    \A j \in Jobs : active[j] # NoRun =>
        RunningJob(active[j], j) /\ run[active[j]].phase # "freeing"

(* A removed row never comes back, however late the events, commands and   *)
(* handlers that still speak of the job.                                   *)
RemovedStaysRemoved ==
    [][\A j \in used : ~ HasRow(j) => ~ HasRow(j)']_vars

Terminal(e) == e.ev \in {"Paused", "Completed", "Failed"}
TerminalOnItsWay(j) == \E i \in DOMAIN events : events[i].id = j /\ Terminal(events[i])

(* The task has not yet reported how it ended.                             *)
Unreported(r) == Busy(r) /\ run[r].phase \notin {"unlist", "freeing"}
Unfinished(j) == TerminalOnItsWay(j) \/ \E r \in Runs : RunningJob(r, j) /\ Unreported(r)

(* A row that says Active has a task that will still report, or the report *)
(* is in the channel. There are two exceptions: nothing touches the rows   *)
(* when the process starts again, and a tick of a ticker that outlived its *)
(* transfer sets the row Active although the job has ended.                *)
ActiveIsHeld == \A j \in Jobs \ stale : db[j].status = "Active" => Unfinished(j)

(* A row that says Queued has a copy on its way to the scheduler or in its *)
(* heap, or a task that will still report: the job is not forgotten, but   *)
(* for rows of an earlier process. The one other exception is a job queued *)
(* again that was cancelled while its last run was still listed:           *)
(* RemovePending took the copy, and the mark waits for a Paused event that *)
(* the old run has already sent.                                           *)
AwaitsSlot(j) == BeingQueued(j) \/ EnqueueInChannel(j) \/ IsQueued(j)
BeingWithdrawn(j) == \E c \in Clients : "id" \in DOMAIN handler[c] /\ handler[c].id = j
QueuedIsHeld ==
    \A j \in Jobs \ stale : db[j].status = "Queued" =>
        AwaitsSlot(j) \/ Unfinished(j) \/ BeingWithdrawn(j) \/ j \in cancelling

(* CANCEL and REMOVE are to "Drop it from the pending queue". From the     *)
(* command on until a CANCEL has written the row, and for good once the    *)
(* row is removed, every copy of the job that waits is behind a            *)
(* RemovePending: a dispatcher that has not read it may still start the    *)
(* job, but no copy outlives it. The exception is a job another connection *)
(* queued while this one was withdrawing it: its copy comes behind the     *)
(* RemovePending, and stays.                                               *)
Withdrawn(j) ==
    /\ \A i \in DOMAIN cmds : cmds[i].op = "Enqueue" /\ cmds[i].job.id = j =>
           \E k \in DOMAIN cmds : k > i /\ cmds[k] = RemovePending(j)
    /\ IsQueued(j) => InChannel(RemovePending(j))
IsGone(j) == j \in used /\ ~ HasRow(j)
WithdrawnAhead == \A j \in Jobs \ crossed : BeingDropped(j) \/ IsGone(j) => Withdrawn(j)

(* The limit in force is the one a client saved last, or the one the       *)
(* process was started with in UDM_MAX_CONCURRENT since, up to the command *)
(* that carries it. The exception is a limit saved while another           *)
(* connection had saved its own and not sent it yet: the two may arrive in *)
(* the other order.                                                        *)
LimitInForce ==
    \/ max = AtLeastOne(Configured(chosen, override))
    \/ contested
    \/ LimitOnItsWay
    \/ \E i \in DOMAIN cmds : cmds[i].op = "SetMaxConcurrent"

(* A task whose token is cancelled ends and frees its slot, even if its    *)
(* body never ends, as long as its requests are answered.                  *)
StopEnds == \A r \in Runs : (Busy(r) /\ run[r].stop) ~> ~ Busy(r)

(* If every body ends, a queued job is started, whatever the other jobs    *)
(* do.                                                                     *)
QueuedServed ==
    BodiesEnd => \A j \in Jobs : db[j].status = "Queued" ~> db[j].status # "Queued"

-----------------------------------------------------------------------------
(* What the project's documents and comments say, where the code disagrees *)
(* in the configuration that checks it.                                    *)

(* AppState.active holds "Cancellation tokens for currently-running        *)
(* downloads": a download in progress can be paused and cancelled.         *)
LiveRunListed == \A r \in Runs : Unreported(r) => active[run[r].job] # NoRun

(* Paused carries the segments "so it can be resumed later": pausing a     *)
(* download does not forget the segments its row already has.              *)
PausedKeepsPlan ==
    [][\A j \in Jobs : (HasRow(j) /\ db[j].plan = "segs" /\ db'[j].status = "Paused")
            => db'[j].plan = "segs"]_vars
=============================================================================
