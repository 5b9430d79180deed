---------------------------- MODULE SchedulerTask ----------------------------
(***************************************************************************)
(* The task that owns the download queue (daemon/src/queue/scheduler.rs):  *)
(* its command channel, its own state and one action per arm of its loop.  *)
(* What a dispatched job does is left to the modules that extend this one: *)
(* Scheduler closes the task with an abstract environment, Daemon with the *)
(* bridge, the engine, the database and the clients.                       *)
(***************************************************************************)
EXTENDS Naturals, Sequences, FiniteSets

CONSTANTS
    Jobs,        \* job identifiers
    Priorities,  \* the priorities jobs are given (u8 in the code)
    Plans,       \* what the copy of a job says of its segments
    Limits,      \* values of the max_concurrent_downloads setting (u8)
    MaxSends     \* bound: commands the clients send in one behaviour

ASSUME PrioritiesAssumption == Priorities \subseteq Nat
ASSUME LimitsAssumption == Limits \subseteq Nat
ASSUME MaxSendsAssumption == MaxSends \in Nat

VARIABLES
    cmds,     \* the unbounded channel sched_tx -> scheduler, oldest first
    max,      \* Scheduler.max
    seq,      \* Scheduler.seq, the number of jobs pushed so far
    running,  \* Scheduler.running, a set of job identifiers
    pending,  \* Scheduler.pending, the heap, as the set of its entries
    loop,     \* "recv" at rx.recv(), "dispatch" inside dispatch()
    sent,     \* how many commands the clients have sent
    doubled   \* history: the jobs queued again before an earlier request was over

sched == <<max, seq, running, pending, loop>>
sentVars == <<sent, doubled>>
schedVars == <<cmds, sched, sentVars>>

(* The DownloadJob a command carries is a copy of a row, taken when the    *)
(* command was made.                                                       *)
Copy == [id : Jobs, priority : Priorities, plan : Plans]
Queued == [seq : Nat, job : Copy]

Enqueue(job) == [op |-> "Enqueue", job |-> job]
SlotFreed(j) == [op |-> "SlotFreed", id |-> j]
SetMaxConcurrent(n) == [op |-> "SetMaxConcurrent", n |-> n]
SetPriority(j, p) == [op |-> "SetPriority", id |-> j, priority |-> p]
RemovePending(j) == [op |-> "RemovePending", id |-> j]

Command ==
    [op : {"Enqueue"}, job : Copy]
        \cup [op : {"SlotFreed", "RemovePending"}, id : Jobs]
        \cup [op : {"SetMaxConcurrent"}, n : Limits]
        \cup [op : {"SetPriority"}, id : Jobs, priority : Priorities]

Send(c) == cmds' = Append(cmds, c)

InChannel(c) == \E i \in DOMAIN cmds : cmds[i] = c

EnqueueInChannel(j) == \E i \in DOMAIN cmds : cmds[i].op = "Enqueue" /\ cmds[i].job.id = j

IsQueued(j) == \E q \in pending : q.job.id = j

(* Something of an earlier request to run j is left: a queued copy, a      *)
(* slot, or a message about either.                                        *)
Outstanding(j) ==
    EnqueueInChannel(j) \/ IsQueued(j) \/ j \in running \/ InChannel(SlotFreed(j))

(* A client's command: it counts against the bound. The daemon accepts an  *)
(* Enqueue of any job at any time; `doubled` only remembers the jobs that  *)
(* were queued while Outstanding.                                          *)
ClientSend(c) ==
    /\ sent < MaxSends
    /\ sent' = sent + 1
    /\ Send(c)
    /\ doubled' = doubled \cup {j \in Jobs : Outstanding(j) /\ c.op = "Enqueue" /\ c.job.id = j}

-----------------------------------------------------------------------------

(* Mutant: max(1) forgotten.                                               *)
AnyLimit(n) == n

AtLeastOne(n) == IF n = 0 THEN 1 ELSE n

(* Queued::cmp: the higher priority first, first in first out on ties.     *)
Before(q, r) ==
    \/ q.job.priority > r.job.priority
    \/ q.job.priority = r.job.priority /\ q.seq < r.seq

(* What BinaryHeap::pop would return.                                      *)
IsTop(q) == q \in pending /\ \A r \in pending \ {q} : Before(q, r)

(* No code ever sets Scheduler.window.                                     *)
ScheduleOk == TRUE

(* Mutant: off by one.                                                     *)
MayStartOneMore == Cardinality(running) <= max /\ ScheduleOk

MayStart == Cardinality(running) < max /\ ScheduleOk

SchedInit ==
    /\ cmds = <<>>
    /\ \E n \in Limits : max = AtLeastOne(n)
    /\ seq = 0
    /\ running = {}
    /\ pending = {}
    /\ loop = "recv"

(* rx.recv() returns a command of kind op.                                 *)
Recv(op) ==
    /\ loop = "recv"
    /\ cmds # <<>>
    /\ Head(cmds).op = op
    /\ cmds' = Tail(cmds)
    /\ UNCHANGED sentVars

(* Mutant: a job is only kept when a slot is free.                         *)
PushIfFree(job) ==
    /\ seq' = seq + 1
    /\ pending' = IF MayStart THEN pending \cup {[seq |-> seq + 1, job |-> job]} ELSE pending

Push(job) ==
    /\ seq' = seq + 1
    /\ pending' = pending \cup {[seq |-> seq + 1, job |-> job]}

RecvEnqueue ==
    /\ Recv("Enqueue")
    /\ Push(Head(cmds).job)
    /\ loop' = "dispatch"
    /\ UNCHANGED <<max, running>>

(* Mutant: the arm does not go on to dispatch().                           *)
RecvSlotFreedSleeps ==
    /\ Recv("SlotFreed")
    /\ running' = running \ {Head(cmds).id}
    /\ UNCHANGED <<max, seq, pending, loop>>

RecvSlotFreed ==
    /\ Recv("SlotFreed")
    /\ running' = running \ {Head(cmds).id}
    /\ loop' = "dispatch"
    /\ UNCHANGED <<max, seq, pending>>

RecvSetMaxConcurrent ==
    /\ Recv("SetMaxConcurrent")
    /\ max' = AtLeastOne(Head(cmds).n)
    /\ loop' = "dispatch"
    /\ UNCHANGED <<seq, running, pending>>

(* Every queued copy of the job is given the priority and keeps its place  *)
(* among equals.                                                           *)
Reprioritised(q, j, p) ==
    IF q.job.id = j THEN [q EXCEPT !.job.priority = p] ELSE q

RecvSetPriority ==
    /\ Recv("SetPriority")
    /\ pending' = {Reprioritised(q, Head(cmds).id, Head(cmds).priority) : q \in pending}
    /\ UNCHANGED <<max, seq, running, loop>>

RecvRemovePending ==
    /\ Recv("RemovePending")
    /\ pending' = {q \in pending : q.job.id # Head(cmds).id}
    /\ UNCHANGED <<max, seq, running, loop>>

(* Mutant: peek() instead of pop().                                        *)
DispatchPeeks(q) ==
    /\ loop = "dispatch"
    /\ MayStart
    /\ IsTop(q)
    /\ running' = running \cup {q.job.id}
    /\ UNCHANGED <<cmds, max, seq, loop, sentVars, pending>>

(* One turn of dispatch()'s loop: q leaves the heap and takes a slot.      *)
Dispatch(q) ==
    /\ loop = "dispatch"
    /\ MayStart
    /\ IsTop(q)
    /\ pending' = pending \ {q}
    /\ running' = running \cup {q.job.id}
    /\ UNCHANGED <<cmds, max, seq, loop, sentVars>>

(* The loop of dispatch() ends: no slot, or nothing to start.              *)
DispatchDone ==
    /\ loop = "dispatch"
    /\ ~ MayStart \/ pending = {}
    /\ loop' = "recv"
    /\ UNCHANGED <<cmds, max, seq, running, pending, sentVars>>

SchedTypeOK ==
    /\ cmds \in Seq(Command)
    /\ max \in Nat \ {0}
    /\ seq \in Nat
    /\ running \in SUBSET Jobs
    /\ pending \in SUBSET Queued
    /\ loop \in {"recv", "dispatch"}
    /\ sent \in 0 .. MaxSends
    /\ doubled \in SUBSET Jobs
=============================================================================
