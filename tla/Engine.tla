-------------------------------- MODULE Engine --------------------------------
(***************************************************************************)
(* The bytes of one download: the part files its attempts write, in chunks *)
(* of one byte, through pauses, network errors, retries and crashes of the *)
(* process, until assemble_parts or finalize makes the file. A byte is     *)
(* named by its offset in the resource. RunTask has the same attempts      *)
(* without bytes, and with the tasks around them; here a job has one run   *)
(* at a time.                                                              *)
(***************************************************************************)
EXTENDS Chunker, Sequences, FiniteSets

CONSTANTS
    Size,         \* length of the resource
    MaxSegments,  \* MAX_SEGMENTS
    MaxTries,     \* RETRY_BACKOFF.len()
    MaxAttempts,  \* bound: attempts in one behaviour, over all runs of the job
    MaxCrashes    \* bound: restarts of the process

ASSUME SizeAssumption == Size \in Nat \ {0}
ASSUME MaxSegmentsAssumption == MaxSegments \in 1 .. 255
ASSUME BoundsAssumption == MaxTries \in Nat /\ MaxAttempts \in Nat /\ MaxCrashes \in Nat

VARIABLES
    row,      \* the status and the plan ("none" or "segs") of the row
    events,   \* engine_tx -> consume_events
    pc,       \* where the run is
    plan,     \* the segment list of the run's own copy of the job
    stop,     \* its cancellation token
    tries,    \* attempt
    task,     \* each segment's task; that of the single stream is number 0
    disk,     \* contents of the part files; a missing file is empty
    buf,      \* the chunk that write_all has taken and the disk has not
    out,      \* contents of the file at save_path
    next,     \* the part that is copied or deleted next
    attempts, crashes,
    honest    \* auxiliary: every body so far was the one that was asked for, and
              \* no attempt began before the writes of the last had landed

run == <<pc, plan, stop, tries, next>>
bounds == <<attempts, crashes>>
vars == <<row, events, run, task, disk, buf, out, bounds, honest>>

Ranges == SplitRanges(Size, CalculateSegments(Size, MaxSegments))
Segs == DOMAIN Ranges
Single == 0
Files == {Single} \cup Segs

First(f) == IF f = Single THEN 0 ELSE Ranges[f][1]
Last(f) == IF f = Single THEN Size - 1 ELSE Ranges[f][2]
Length(f) == Last(f) - First(f) + 1

(* The bytes first .. last of the resource.                                *)
Bytes(first, last) == [k \in 1 .. last - first + 1 |-> first + k - 1]

Emit(ev, p) == events' = Append(events, [ev |-> ev, plan |-> p])

Off == [pc |-> "off"]
Ask(f, already) == [pc |-> "get", at |-> First(f) + already]
AllOff == [f \in Files |-> Off]
Working == {f \in Files : task[f].pc \in {"get", "body"}}
Ended(how) == \E f \in Files : task[f].pc = how
Multi == \E f \in Segs : task[f] # Off

-----------------------------------------------------------------------------
(* The user and the consumer of events.                                    *)

(* The job is dispatched: it is new, or it was resumed or retried by a     *)
(* client that has seen the outcome of its last run.                       *)
Launch ==
    /\ pc = "rest" /\ events = <<>> /\ row.status # "Completed"
    /\ attempts < MaxAttempts
    /\ attempts' = attempts + 1
    /\ pc' = "begin"
    /\ plan' = row.plan
    /\ stop' = FALSE
    /\ tries' = 0
    /\ UNCHANGED <<row, events, next, task, disk, buf, out, crashes, honest>>

Stop ==
    /\ pc # "rest" /\ ~ stop
    /\ stop' = TRUE
    /\ UNCHANGED <<row, events, pc, plan, tries, next, task, disk, buf, out, bounds, honest>>

(* CANCEL of a job that does not run: finish_cancel. What is still being   *)
(* written goes to a file that has no name any more.                       *)
Cancel ==
    /\ pc = "rest" /\ events = <<>> /\ row.status \notin {"Completed", "Cancelled"}
    /\ row' = [row EXCEPT !.status = "Cancelled"]
    /\ LET gone == {Single} \cup IF row.plan = "segs" THEN Segs ELSE {}
       IN  /\ disk' = [f \in Files |-> IF f \in gone THEN <<>> ELSE disk[f]]
           /\ buf' = [f \in Files |-> IF f \in gone THEN <<>> ELSE buf[f]]
    /\ UNCHANGED <<events, run, task, out, bounds, honest>>

Consume ==
    /\ events # <<>>
    /\ events' = Tail(events)
    /\ LET e == Head(events)
       IN  row' = CASE e.ev = "Started" -> [status |-> "Active", plan |-> e.plan]
                    [] e.ev = "Paused" -> [status |-> "Paused", plan |-> e.plan]
                    [] OTHER -> [row EXCEPT !.status = e.ev]
    /\ UNCHANGED <<run, task, disk, buf, out, bounds, honest>>

-----------------------------------------------------------------------------
(* One attempt.                                                            *)

(* The writes of earlier attempts have reached the disk. Nobody waits for  *)
(* them: after an error the file is dropped without a flush, and only the  *)
(* seconds of the backoff, or a client's request, lie between. An attempt  *)
(* may begin before they have; `honest` remembers it.                      *)
Settled == \A f \in Files : buf[f] = <<>>

Begins ==
    /\ pc = "begin"
    /\ honest' = (honest /\ Settled)
    /\ pc' = "transfer"

OnDisk(f) == IF Len(disk[f]) < Length(f) THEN Len(disk[f]) ELSE Length(f)

(* reconcile_segments_from_disk trims what is longer than its segment.     *)
Reconciled(f) == SubSeq(disk[f], 1, OnDisk(f))

(* Resume: the probe is skipped, complete segments get no task.            *)
BeginResume ==
    /\ Begins /\ plan = "segs"
    /\ disk' = [f \in Files |-> IF f = Single THEN disk[f] ELSE Reconciled(f)]
    /\ task' = [f \in Files |->
                  IF f = Single THEN Off
                  ELSE IF OnDisk(f) = Length(f) THEN [pc |-> "done"]
                  ELSE Ask(f, OnDisk(f))]
    /\ Emit("Started", "segs")
    /\ UNCHANGED <<row, plan, stop, tries, next, buf, out, bounds>>

(* The probe says that ranges work and the file is worth several segments. *)
BeginSegments ==
    /\ Begins /\ plan = "none"
    /\ Cardinality(Segs) > 1
    /\ task' = [f \in Files |-> IF f = Single THEN Off ELSE Ask(f, 0)]
    /\ Emit("Started", "segs")
    /\ UNCHANGED <<row, plan, stop, tries, next, disk, buf, out, bounds>>

(* It does not, or it fails.                                               *)
BeginSingle ==
    /\ Begins /\ plan = "none"
    /\ task' = [AllOff EXCEPT ![Single] = Ask(Single, 0)]
    /\ UNCHANGED <<row, events, plan, stop, tries, next, disk, buf, out, bounds>>

(* Mutant: the file is created anew even if it holds bytes to keep.        *)
OpenTruncates(f) == <<>>

(* Mutant: the file is always opened for append.                           *)
OpenAppends(f) == disk[f]

(* The file is opened for append if the request is for the rest of it,     *)
(* else created.                                                           *)
Open(f) == IF task[f].at > First(f) THEN disk[f] ELSE <<>>

Answers(f, at, until) ==
    /\ task[f].pc = "get"
    /\ task' = [task EXCEPT ![f] = [pc |-> "body", at |-> at, until |-> until]]
    /\ disk' = [disk EXCEPT ![f] = Open(f)]
    /\ IF f = Single THEN Emit("Started", "none") ELSE UNCHANGED events
    /\ UNCHANGED <<row, run, buf, out, bounds>>

Answer(f) == Answers(f, task[f].at, Last(f)) /\ UNCHANGED honest

(* Bound: responses break the protocol in the last attempt only. Nothing   *)
(* is stated of what follows them.                                         *)
LastAttempt == attempts = MaxAttempts

(* A 200 with the whole resource instead of the range. The status is only  *)
(* looked at for errors.                                                   *)
AnswerWhole(f) ==
    /\ f # Single /\ LastAttempt
    /\ Answers(f, 0, Size - 1)
    /\ honest' = FALSE

(* A chunk arrives; write_all first waits for the one before it.           *)
Receive(f) ==
    /\ task[f].pc = "body" /\ task[f].at <= task[f].until
    /\ disk' = [disk EXCEPT ![f] = @ \o buf[f]]
    /\ buf' = [buf EXCEPT ![f] = <<task[f].at>>]
    /\ task' = [task EXCEPT ![f].at = @ + 1]
    /\ UNCHANGED <<row, events, run, out, bounds, honest>>

(* The blocking write of the chunk is over, whether or not its task is.    *)
Settle(f) ==
    /\ buf[f] # <<>>
    /\ disk' = [disk EXCEPT ![f] = @ \o buf[f]]
    /\ buf' = [buf EXCEPT ![f] = <<>>]
    /\ UNCHANGED <<row, events, run, task, out, bounds, honest>>

(* The task leaves its loop after a flush.                                 *)
Leave(f, how) ==
    /\ task' = [task EXCEPT ![f] = [pc |-> how]]
    /\ disk' = [disk EXCEPT ![f] = @ \o buf[f]]
    /\ buf' = [buf EXCEPT ![f] = <<>>]
    /\ UNCHANGED <<row, events, run, out, bounds>>

BodyEnds(f) ==
    /\ task[f].pc = "body" /\ task[f].at > task[f].until
    /\ Leave(f, "done")
    /\ UNCHANGED honest

(* The connection closes early on a body that does not say its length. The *)
(* number of bytes is not compared with the range.                         *)
BodyEndsShort(f) ==
    /\ task[f].pc = "body" /\ task[f].at <= task[f].until
    /\ LastAttempt
    /\ Leave(f, "done")
    /\ honest' = FALSE

TaskStops(f) ==
    /\ task[f].pc = "body" /\ stop
    /\ Leave(f, "stopped")
    /\ UNCHANGED honest

(* No answer, an error status, or a broken body. The file is dropped       *)
(* without a flush.                                                        *)
TaskFails(f) ==
    /\ f \in Working
    /\ task' = [task EXCEPT ![f] = [pc |-> "failed"]]
    /\ UNCHANGED <<row, events, run, disk, buf, out, bounds, honest>>

(* What a run leaves behind when it is over.                               *)
Rest ==
    /\ pc' = "rest"
    /\ task' = AllOff
    /\ UNCHANGED <<plan, stop, tries, next>>

Joined == pc = "transfer" /\ Working = {}

(* A cancelled transfer reports the segments, whatever its tasks say.      *)
JoinStopped ==
    /\ Joined
    /\ (stop /\ Multi) \/ task[Single].pc = "stopped"
    /\ Emit("Paused", IF Multi THEN "segs" ELSE "none")
    /\ Rest
    /\ UNCHANGED <<row, disk, buf, out, bounds, honest>>

JoinFailed ==
    /\ Joined /\ Ended("failed") /\ ~ (stop /\ Multi)
    /\ pc' = "erred"
    /\ task' = AllOff
    /\ UNCHANGED <<row, events, plan, stop, tries, next, disk, buf, out, bounds, honest>>

(* Mutant: the parts are assembled although some were not finished.        *)
JoinAnyway ==
    /\ Joined /\ Multi /\ ~ stop
    /\ pc' = "copy"
    /\ next' = 1
    /\ out' = <<>>
    /\ task' = AllOff
    /\ UNCHANGED <<row, events, plan, stop, tries, disk, buf, bounds, honest>>

JoinDone ==
    /\ Joined /\ Multi /\ ~ stop /\ ~ Ended("failed")
    /\ pc' = "copy"
    /\ next' = 1
    /\ out' = <<>>
    /\ task' = AllOff
    /\ UNCHANGED <<row, events, plan, stop, tries, disk, buf, bounds, honest>>

(* assemble_parts: the parts are copied in order, then deleted.            *)
CopyPart ==
    /\ pc = "copy" /\ next \in Segs
    /\ out' = out \o disk[next]
    /\ next' = next + 1
    /\ UNCHANGED <<row, events, pc, plan, stop, tries, task, disk, buf, bounds, honest>>

CopiesDone ==
    /\ pc = "copy" /\ next \notin Segs
    /\ pc' = "delete"
    /\ next' = 1
    /\ UNCHANGED <<row, events, plan, stop, tries, task, disk, buf, out, bounds, honest>>

(* A part cannot be opened, or the disk is full.                           *)
CopyFails ==
    /\ pc = "copy"
    /\ pc' = "erred"
    /\ UNCHANGED <<row, events, plan, stop, tries, next, task, disk, buf, out, bounds, honest>>

DeletePart ==
    /\ pc = "delete" /\ next \in Segs
    /\ disk' = [disk EXCEPT ![next] = <<>>]
    /\ next' = next + 1
    /\ UNCHANGED <<row, events, pc, plan, stop, tries, task, buf, out, bounds, honest>>

DeletesDone ==
    /\ pc = "delete" /\ next \notin Segs
    /\ Emit("Completed", "segs")
    /\ Rest
    /\ UNCHANGED <<row, disk, buf, out, bounds, honest>>

(* finalize: the .part file replaces what is at save_path.                 *)
Finalize ==
    /\ Joined /\ task[Single].pc = "done"
    /\ out' = disk[Single]
    /\ disk' = [disk EXCEPT ![Single] = <<>>]
    /\ Emit("Completed", "none")
    /\ Rest
    /\ UNCHANGED <<row, buf, bounds, honest>>

FinalizeFails ==
    /\ Joined /\ task[Single].pc = "done"
    /\ pc' = "erred"
    /\ out' = <<>>
    /\ task' = AllOff
    /\ UNCHANGED <<row, events, plan, stop, tries, next, disk, buf, bounds, honest>>

-----------------------------------------------------------------------------
(* The retry loop of start_download.                                       *)

(* is_transient looks for words in the text of the error, which may quote  *)
(* any path or URL: one and the same error may be retried or not.          *)
GiveUp ==
    /\ pc = "erred"
    /\ Emit("Failed", "none")
    /\ Rest
    /\ UNCHANGED <<row, disk, buf, out, bounds, honest>>

(* Mutant: the number of attempts is not looked at.                        *)
BackoffUncounted ==
    /\ pc = "erred" /\ ~ stop
    /\ attempts < MaxAttempts
    /\ attempts' = attempts + 1
    /\ pc' = "backoff"
    /\ tries' = tries + 1
    /\ UNCHANGED <<row, events, plan, stop, next, task, disk, buf, out, crashes, honest>>

Backoff ==
    /\ pc = "erred" /\ ~ stop /\ tries < MaxTries
    /\ attempts < MaxAttempts
    /\ attempts' = attempts + 1
    /\ pc' = "backoff"
    /\ tries' = tries + 1
    /\ UNCHANGED <<row, events, plan, stop, next, task, disk, buf, out, crashes, honest>>

BackoffStops ==
    /\ pc = "backoff" /\ stop
    /\ Emit("Paused", plan)
    /\ Rest
    /\ UNCHANGED <<row, disk, buf, out, bounds, honest>>

BackoffOver ==
    /\ pc = "backoff"
    /\ pc' = "begin"
    /\ plan' = row.plan
    /\ UNCHANGED <<row, events, stop, tries, next, task, disk, buf, out, bounds, honest>>

(* The process dies and comes back. A chunk that was being written may     *)
(* have reached the disk or not.                                           *)
Crash ==
    /\ crashes < MaxCrashes
    /\ crashes' = crashes + 1
    /\ \E landed \in SUBSET Files :
           disk' = [f \in Files |-> IF f \in landed THEN disk[f] \o buf[f] ELSE disk[f]]
    /\ buf' = [f \in Files |-> <<>>]
    /\ events' = <<>>
    /\ pc' = "rest"
    /\ stop' = FALSE
    /\ task' = AllOff
    /\ UNCHANGED <<row, plan, tries, next, out, attempts, honest>>

-----------------------------------------------------------------------------

Init ==
    /\ row = [status |-> "Queued", plan |-> "none"]
    /\ events = <<>>
    /\ pc = "rest" /\ plan = "none" /\ stop = FALSE /\ tries = 0 /\ next = 1
    /\ task = AllOff
    /\ disk = [f \in Files |-> <<>>]
    /\ buf = [f \in Files |-> <<>>]
    /\ out = <<>>
    /\ attempts = 0 /\ crashes = 0
    /\ honest = TRUE

RunStep ==
    \/ BeginResume \/ BeginSegments \/ BeginSingle
    \/ JoinStopped \/ JoinFailed \/ JoinDone \/ Finalize \/ FinalizeFails
    \/ CopyPart \/ CopiesDone \/ CopyFails \/ DeletePart \/ DeletesDone
    \/ GiveUp \/ Backoff \/ BackoffStops \/ BackoffOver

TaskStep(f) ==
    \/ Answer(f) \/ AnswerWhole(f) \/ Receive(f)
    \/ BodyEnds(f) \/ BodyEndsShort(f) \/ TaskStops(f) \/ TaskFails(f)

Next ==
    \/ Launch \/ Stop \/ Cancel \/ Consume
    \/ RunStep
    \/ \E f \in Files : TaskStep(f) \/ Settle(f)
    \/ Crash

Spec == Init /\ [][Next]_vars

-----------------------------------------------------------------------------
(* Type invariant.                                                         *)
TypeOK ==
    /\ row \in [status : {"Queued", "Active", "Paused", "Failed", "Completed", "Cancelled"},
                plan : {"none", "segs"}]
    /\ \A i \in DOMAIN events :
           events[i] \in [ev : {"Started", "Paused", "Failed", "Completed"}, plan : {"none", "segs"}]
    /\ pc \in {"rest", "begin", "transfer", "copy", "delete", "erred", "backoff"}
    /\ plan \in {"none", "segs"}
    /\ stop \in BOOLEAN
    /\ tries \in 0 .. MaxTries
    /\ next \in Nat
    /\ task \in [Files -> {Off, [pc |-> "done"], [pc |-> "stopped"], [pc |-> "failed"]}
                    \cup [pc : {"get"}, at : Nat] \cup [pc : {"body"}, at : Nat, until : Nat]]
    /\ disk \in [Files -> Seq(0 .. Size - 1)]
    /\ buf \in [Files -> Seq(0 .. Size - 1)]
    /\ out \in Seq(0 .. Size - 1)
    /\ attempts \in 0 .. MaxAttempts
    /\ crashes \in 0 .. MaxCrashes
    /\ honest \in BOOLEAN

(* "fixes corrupt resumes after a crash": a part file, with the chunk on   *)
(* its way to it, is always a prefix of its segment, whatever was paused,  *)
(* dropped, retried or lost in a crash, if no response broke the protocol  *)
(* and no write was still on its way when an attempt began.                *)
Prefix(f) == disk[f] \o buf[f] = Bytes(First(f), First(f) + Len(disk[f]) + Len(buf[f]) - 1)
PartsArePrefixes ==
    honest => \A f \in Files : Prefix(f) /\ Len(disk[f]) + Len(buf[f]) <= Length(f)

(* "byte-identical": a download that has announced its completion has the  *)
(* whole resource at save_path, under the same conditions.                 *)
Announced == \E i \in DOMAIN events : events[i].ev = "Completed"
CompletedIsExact ==
    honest /\ (row.status = "Completed" \/ Announced) => out = Bytes(0, Size - 1)

(* "lets retries keep valid partial data": an attempt that knows its       *)
(* segments never gives up a byte of a part file before assembly, under    *)
(* the same conditions.                                                    *)
KeepsBytes ==
    [][\A f \in Segs : honest /\ plan = "segs" /\ pc \in {"begin", "transfer"}
            => Len(disk'[f]) >= Len(disk[f])]_vars

=============================================================================
