------------------------------- MODULE RunTask -------------------------------
(***************************************************************************)
(* What bridge::start_download spawns: the retry loop around one engine    *)
(* download, the control flow of the engine below it (probe, multi-segment *)
(* or single-stream transfer, assembly), the progress ticker, and the      *)
(* events they send. The parallel segments of a download are one transfer  *)
(* here: multi_segment waits for every one of them before it looks at the  *)
(* outcome. Bytes are left out; part files are present or absent.          *)
(***************************************************************************)
EXTENDS SchedulerTask

CONSTANTS
    MaxTries,  \* RETRY_BACKOFF.len()
    MaxBacklog, \* bound: a ticker ticks when no more events than this wait
    Strays     \* which tickers may outlive their run: a subset of {"late", "leaked"}

ASSUME PlansAssumption == Plans = {"none", "segs"}
ASSUME MaxTriesAssumption == MaxTries \in Nat
ASSUME MaxBacklogAssumption == MaxBacklog \in Nat
ASSUME StraysAssumption == Strays \subseteq {"late", "leaked"}

VARIABLES
    run,     \* the spawned tasks; a finished one is Idle again
    active,  \* AppState.active: the run whose token is listed for each job
    strays,  \* tickers that still tick although their transfer is over
    events,  \* the unbounded channel engine_tx -> consume_events, oldest first
    files    \* part files on disk: "seg" the .part.N files, "part" the .part file

runVars == <<run, active, strays, events, files>>

(* Every run comes from one Enqueue of a client.                           *)
Runs == 1 .. MaxSends
NoRun == 0
Idle == [phase |-> "idle"]

(* begin    at download(): a run without a plan awaits the HEAD probe      *)
(* get      awaits response headers                                        *)
(* body     in the select loop that writes the body                        *)
(* joined   every byte the servers sent is written, ticker not yet aborted *)
(* assemble merging the parts, or moving the .part file into place         *)
(* erred    download() returned an error                                   *)
(* backoff  sleeping before the next attempt                               *)
(* unlist   the loop is over, the token still listed                       *)
(* freeing  about to send SlotFreed                                        *)
Phases == {"begin", "get", "body", "joined", "assemble", "erred", "backoff", "unlist",
           "freeing"}

(* plan is the segment list of the loop's own `job`, multi says that the   *)
(* attempt in progress has segments; stop is the cancellation token.       *)
RunState == [phase : Phases, job : Jobs, plan : Plans, multi : BOOLEAN,
             tries : 0 .. MaxTries, stop : BOOLEAN]

Busy(r) == run[r] # Idle
RunningJob(r, j) == Busy(r) /\ run[r].job = j

Started(j, plan) == [ev |-> "Started", id |-> j, plan |-> plan]
Progress(j, stray) == [ev |-> "Progress", id |-> j, stray |-> stray]
Paused(j, plan) == [ev |-> "Paused", id |-> j, plan |-> plan]
Completed(j) == [ev |-> "Completed", id |-> j]
Failed(j) == [ev |-> "Failed", id |-> j]

(* `stray` is not in the code: it says that the tick came from a ticker    *)
(* that outlived its transfer.                                             *)
Event ==
    [ev : {"Started", "Paused"}, id : Jobs, plan : Plans]
        \cup [ev : {"Progress"}, id : Jobs, stray : BOOLEAN]
        \cup [ev : {"Completed", "Failed"}, id : Jobs]

Emit(e) == events' = Append(events, e)

Goto(r, phase) == run' = [run EXCEPT ![r].phase = phase]

Segments(r) == IF run[r].multi THEN "segs" ELSE "none"
PartKind(r) == IF run[r].multi THEN "seg" ELSE "part"

(* abort() takes effect at the ticker's next await: a tick being sent on   *)
(* another worker thread still goes out.                                   *)
AbortTicker(r) ==
    \/ UNCHANGED strays
    \/ "late" \in Strays /\ strays' = strays \cup {<<"late", run[r].job>>}

-----------------------------------------------------------------------------

(* The dispatcher pops q: start_download lists its token and spawns.       *)
StartDownload(q) ==
    /\ Dispatch(q)
    /\ LET r == CHOOSE i \in Runs : ~ Busy(i)
       IN  /\ run' = [run EXCEPT ![r] =
                        [phase |-> "begin", job |-> q.job.id, plan |-> q.job.plan,
                         multi |-> FALSE, tries |-> 0, stop |-> FALSE]]
           /\ active' = [active EXCEPT ![q.job.id] = r]
    /\ UNCHANGED <<strays, events, files>>

(* The copy has a plan: resume, with requests for the incomplete segments, *)
(* or with none if the part files already hold every byte.                 *)
BeginResume(r) ==
    /\ run[r].phase = "begin" /\ run[r].plan = "segs"
    /\ \E phase \in {"get"} \cup (IF "seg" \in files[run[r].job] THEN {"joined"} ELSE {}) :
           run' = [run EXCEPT ![r].phase = phase, ![r].multi = TRUE]
    /\ Emit(Started(run[r].job, "segs"))
    /\ UNCHANGED <<schedVars, active, strays, files>>

(* The probe is answered, or fails: then it is a single stream.            *)
ProbeAnswers(r) ==
    /\ run[r].phase = "begin" /\ run[r].plan = "none"
    /\ \/ /\ run' = [run EXCEPT ![r].phase = "get", ![r].multi = TRUE]
          /\ Emit(Started(run[r].job, "segs"))
       \/ /\ run' = [run EXCEPT ![r].phase = "get", ![r].multi = FALSE]
          /\ UNCHANGED events
    /\ UNCHANGED <<schedVars, active, strays, files>>

(* The multi-segment path announced itself before its requests; the single *)
(* stream does so once its response is there.                              *)
AnnounceSingle(r) ==
    IF run[r].multi THEN UNCHANGED events ELSE Emit(Started(run[r].job, "none"))

(* Headers arrive, the part file is opened. No token is looked at before.  *)
GetAnswers(r) ==
    /\ run[r].phase = "get"
    /\ Goto(r, "body")
    /\ AnnounceSingle(r)
    /\ files' = [files EXCEPT ![run[r].job] = @ \cup {PartKind(r)}]
    /\ UNCHANGED <<schedVars, active, strays>>

(* download() ends with Paused instead of an error when a cancelled        *)
(* multi-segment transfer fails.                                           *)
EndInError(r) ==
    IF run[r].multi /\ run[r].stop
      THEN Goto(r, "unlist") /\ Emit(Paused(run[r].job, "segs"))
      ELSE Goto(r, "erred") /\ UNCHANGED events

GetFails(r) ==
    /\ run[r].phase = "get"
    /\ EndInError(r)
    /\ IF run[r].multi THEN AbortTicker(r) ELSE UNCHANGED strays
    /\ UNCHANGED <<schedVars, active, files>>

(* The part file cannot be created. On the single stream the ticker is     *)
(* already running, and `ensure_parent_dir(&part).await?` returns past its *)
(* abort().                                                                *)
OpenFails(r) ==
    /\ run[r].phase = "get"
    /\ IF run[r].multi
         THEN EndInError(r) /\ AbortTicker(r)
         ELSE /\ Goto(r, "erred")
              /\ Emit(Started(run[r].job, "none"))
              /\ \/ AbortTicker(r)
                 \/ "leaked" \in Strays /\ strays' = strays \cup {<<"leaked", run[r].job>>}
    /\ UNCHANGED <<schedVars, active, files>>

BodyEnds(r) ==
    /\ run[r].phase = "body"
    /\ Goto(r, "joined")
    /\ UNCHANGED <<schedVars, active, strays, events, files>>

BodyFails(r) ==
    /\ run[r].phase = "body"
    /\ EndInError(r)
    /\ AbortTicker(r)
    /\ UNCHANGED <<schedVars, active, files>>

(* Mutant: the select loop has no branch for the token.                    *)
BodyNeverStops(r) ==
    /\ FALSE
    /\ UNCHANGED <<schedVars, runVars>>

(* The select loop takes the branch of the cancelled token.                *)
BodyStops(r) ==
    /\ run[r].phase = "body" /\ run[r].stop
    /\ Goto(r, "unlist")
    /\ Emit(Paused(run[r].job, Segments(r)))
    /\ AbortTicker(r)
    /\ UNCHANGED <<schedVars, active, files>>

(* All segments are in. Only the multi-segment path looks at the token     *)
(* once more before it assembles.                                          *)
Join(r) ==
    /\ run[r].phase = "joined"
    /\ AbortTicker(r)
    /\ IF run[r].multi /\ run[r].stop
         THEN Goto(r, "unlist") /\ Emit(Paused(run[r].job, "segs"))
         ELSE Goto(r, "assemble") /\ UNCHANGED events
    /\ UNCHANGED <<schedVars, active, files>>

Assemble(r) ==
    /\ run[r].phase = "assemble"
    /\ PartKind(r) \in files[run[r].job]
    /\ files' = [files EXCEPT ![run[r].job] = @ \ {PartKind(r)}]
    /\ Emit(Completed(run[r].job))
    /\ Goto(r, "unlist")
    /\ UNCHANGED <<schedVars, active, strays>>

(* A part is missing, or the final file cannot be written.                 *)
AssembleFails(r) ==
    /\ run[r].phase = "assemble"
    /\ Goto(r, "erred")
    /\ UNCHANGED <<schedVars, active, strays, events, files>>

-----------------------------------------------------------------------------
(* The retry loop. is_transient() looks for words like "timed out" in the  *)
(* text of the whole error chain, paths and addresses included, so an      *)
(* error of any kind may count as transient, and any may not.              *)

(* Mutant: the loop breaks without the Failed event.                       *)
GiveUpSilently(r) ==
    /\ run[r].phase = "erred"
    /\ Goto(r, "unlist")
    /\ UNCHANGED <<schedVars, active, strays, events, files>>

GiveUp(r) ==
    /\ run[r].phase = "erred"
    /\ Emit(Failed(run[r].job))
    /\ Goto(r, "unlist")
    /\ UNCHANGED <<schedVars, active, strays, files>>

(* Mutant: the number of attempts is not looked at.                        *)
BackoffForever(r) ==
    /\ run[r].phase = "erred"
    /\ ~ run[r].stop
    /\ run' = [run EXCEPT ![r].phase = "backoff", ![r].tries = @ + 1]
    /\ UNCHANGED <<schedVars, active, strays, events, files>>

Backoff(r) ==
    /\ run[r].phase = "erred"
    /\ ~ run[r].stop
    /\ run[r].tries < MaxTries
    /\ run' = [run EXCEPT ![r].phase = "backoff", ![r].tries = @ + 1]
    /\ UNCHANGED <<schedVars, active, strays, events, files>>

(* The event carries the segments of the loop's own copy of the job.       *)
BackoffStops(r) ==
    /\ run[r].phase = "backoff" /\ run[r].stop
    /\ Emit(Paused(run[r].job, run[r].plan))
    /\ Goto(r, "unlist")
    /\ UNCHANGED <<schedVars, active, strays, files>>

(* The sleep is over; plan is what the row says now.                       *)
BackoffOver(r, plan) ==
    /\ run[r].phase = "backoff"
    /\ run' = [run EXCEPT ![r].phase = "begin", ![r].plan = plan, ![r].multi = FALSE]
    /\ UNCHANGED <<schedVars, active, strays, events, files>>

(* Mutant: the token stays listed.                                         *)
UnlistNothing(r) ==
    /\ run[r].phase = "unlist"
    /\ Goto(r, "freeing")
    /\ UNCHANGED <<schedVars, active, strays, events, files>>

(* active.remove(&job_id), by key: whichever run is listed.                *)
Unlist(r) ==
    /\ run[r].phase = "unlist"
    /\ active' = [active EXCEPT ![run[r].job] = NoRun]
    /\ Goto(r, "freeing")
    /\ UNCHANGED <<schedVars, strays, events, files>>

(* Mutant: the task ends without SlotFreed.                                *)
FreeNothing(r) ==
    /\ run[r].phase = "freeing"
    /\ run' = [run EXCEPT ![r] = Idle]
    /\ UNCHANGED <<schedVars, active, strays, events, files>>

FreeSlot(r) ==
    /\ run[r].phase = "freeing"
    /\ Send(SlotFreed(run[r].job))
    /\ run' = [run EXCEPT ![r] = Idle]
    /\ UNCHANGED <<sched, sentVars, active, strays, events, files>>

-----------------------------------------------------------------------------

Ticking(r) ==
    /\ Busy(r)
    /\ \/ run[r].phase \in {"body", "joined"}
       \/ run[r].phase = "get" /\ run[r].multi

Tick(j, stray) ==
    /\ Len(events) <= MaxBacklog
    /\ Emit(Progress(j, stray))

RunTick(r) ==
    /\ Ticking(r)
    /\ Tick(run[r].job, FALSE)
    /\ UNCHANGED <<schedVars, run, active, strays, files>>

StrayTick(t) ==
    /\ Tick(t[2], TRUE)
    /\ strays' = IF t[1] = "late" THEN strays \ {t} ELSE strays
    /\ UNCHANGED <<schedVars, run, active, files>>

(* token.cancel() on the token listed for j.                               *)
StopListed(j) ==
    run' = IF active[j] = NoRun THEN run ELSE [run EXCEPT ![active[j]].stop = TRUE]

RunInit ==
    /\ run = [r \in Runs |-> Idle]
    /\ active = [j \in Jobs |-> NoRun]
    /\ strays = {}
    /\ events = <<>>
    /\ files = [j \in Jobs |-> {}]

RunTypeOK ==
    /\ run \in [Runs -> RunState \cup {Idle}]
    /\ active \in [Jobs -> Runs \cup {NoRun}]
    /\ strays \in SUBSET (Strays \X Jobs)
    /\ events \in Seq(Event)
    /\ files \in [Jobs -> SUBSET {"seg", "part"}]
=============================================================================
