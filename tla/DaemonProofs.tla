----------------------------- MODULE DaemonProofs -----------------------------
(***************************************************************************)
(* What holds of the daemon for every set of jobs, clients and requests,   *)
(* every limit and every bound.                                            *)
(***************************************************************************)
EXTENDS Daemon, FiniteSetTheorems, SequenceTheorems, TLAPS

-----------------------------------------------------------------------------
(* Types, in the three parts of the state.                                 *)

DaemonTypeOK ==
    /\ db \in [Jobs -> Row \cup {NoRow}]
    /\ used \in SUBSET Jobs
    /\ savedMax \in Limits
    /\ override \in Overrides \cup {NoOverride}
    /\ cancelling \in SUBSET Jobs
    /\ consumer \in {AtRest} \cup [pc : {"files"}, id : Jobs, plan : Plans]
    /\ handler \in [Clients -> HandlerState]
    /\ restarts \in 0 .. MaxRestarts
    /\ stale \in SUBSET Jobs
    /\ crossed \in SUBSET Jobs
    /\ chosen \in Limits
    /\ contested \in BOOLEAN

LEMMA TypeParts == TypeOK <=> SchedTypeOK /\ RunTypeOK /\ DaemonTypeOK
  BY DEF TypeOK, DaemonTypeOK

(* A channel loses its oldest message, or gains a youngest one.            *)
LEMMA TailFacts ==
    ASSUME NEW S, NEW s \in Seq(S), s # <<>>
    PROVE  /\ Tail(s) \in Seq(S) /\ Head(s) \in S /\ Head(s) = s[1]
           /\ Len(s) \in Nat \ {0} /\ DOMAIN s = 1 .. Len(s)
           /\ DOMAIN Tail(s) = 1 .. Len(s) - 1
           /\ \A i \in 1 .. Len(s) - 1 : Tail(s)[i] = s[i + 1]
  OBVIOUS

LEMMA AppendFacts ==
    ASSUME NEW S, NEW s \in Seq(S), NEW e \in S
    PROVE  /\ Append(s, e) \in Seq(S)
           /\ DOMAIN s = 1 .. Len(s) /\ Len(s) \in Nat
           /\ DOMAIN Append(s, e) = 1 .. Len(s) + 1
           /\ \A i \in 1 .. Len(s) : Append(s, e)[i] = s[i]
           /\ Append(s, e)[Len(s) + 1] = e
  OBVIOUS

LEMMA CommandKinds ==
    ASSUME NEW c \in Command
    PROVE  /\ c.op = "Enqueue" => c.job \in Copy /\ c.job.id \in Jobs /\ c = Enqueue(c.job)
           /\ c.op = "SlotFreed" => c.id \in Jobs /\ c = SlotFreed(c.id)
           /\ c.op = "SetMaxConcurrent" => c.n \in Limits /\ c = SetMaxConcurrent(c.n)
           /\ c.op = "SetPriority" =>
                c.id \in Jobs /\ c.priority \in Priorities /\ c = SetPriority(c.id, c.priority)
           /\ c.op = "RemovePending" => c.id \in Jobs /\ c = RemovePending(c.id)
  BY DEF Command, Copy, Enqueue, SlotFreed, SetMaxConcurrent, SetPriority, RemovePending

LEMMA CommandsAreCommands ==
    /\ \A job \in Copy : Enqueue(job) \in Command
    /\ \A j \in Jobs : SlotFreed(j) \in Command /\ RemovePending(j) \in Command
    /\ \A n \in Limits : SetMaxConcurrent(n) \in Command
    /\ \A j \in Jobs, p \in Priorities : SetPriority(j, p) \in Command
  BY DEF Command, Enqueue, SlotFreed, SetMaxConcurrent, SetPriority, RemovePending

LEMMA AtLeastOnePositive == \A n \in Limits : AtLeastOne(n) \in Nat \ {0}
  BY LimitsAssumption DEF AtLeastOne

LEMMA ReceivedFacts ==
    ASSUME SchedTypeOK, NEW op, Recv(op)
    PROVE  /\ cmds \in Seq(Command) /\ cmds # <<>>
           /\ cmds' = Tail(cmds) /\ cmds' \in Seq(Command)
           /\ Head(cmds) \in Command /\ Head(cmds).op = op
           /\ sent' = sent /\ doubled' = doubled
  BY TailFacts DEF SchedTypeOK, Recv, sentVars

LEMMA ReprioritisedFacts ==
    ASSUME NEW q \in Queued, NEW j \in Jobs, NEW p \in Priorities
    PROVE  /\ Reprioritised(q, j, p) \in Queued
           /\ Reprioritised(q, j, p).job.id = q.job.id
  BY DEF Reprioritised, Queued, Copy

-----------------------------------------------------------------------------
(* The scheduler task.                                                     *)

LEMMA RecvEnqueueTyped == SchedTypeOK /\ RecvEnqueue => SchedTypeOK'
<1> SUFFICES ASSUME SchedTypeOK, RecvEnqueue PROVE SchedTypeOK'
  OBVIOUS
<1>1. Recv("Enqueue") /\ Push(Head(cmds).job)
  BY DEF RecvEnqueue
<1>2. Head(cmds).job \in Copy
  BY <1>1, ReceivedFacts, CommandKinds
<1>3. pending' \in SUBSET Queued /\ seq' \in Nat
  BY <1>1, <1>2 DEF Push, Queued, SchedTypeOK
<1>4. QED
  BY <1>1, <1>3, ReceivedFacts DEF RecvEnqueue, SchedTypeOK

LEMMA RecvSlotFreedTyped == SchedTypeOK /\ RecvSlotFreed => SchedTypeOK'
  BY ReceivedFacts DEF RecvSlotFreed, SchedTypeOK

LEMMA RecvSetMaxTyped == SchedTypeOK /\ RecvSetMaxConcurrent => SchedTypeOK'
<1> SUFFICES ASSUME SchedTypeOK, RecvSetMaxConcurrent PROVE SchedTypeOK'
  OBVIOUS
<1>1. Recv("SetMaxConcurrent") /\ max' = AtLeastOne(Head(cmds).n)
  BY DEF RecvSetMaxConcurrent
<1>2. max' \in Nat \ {0}
  BY <1>1, ReceivedFacts, CommandKinds, AtLeastOnePositive
<1>3. QED
  BY <1>1, <1>2, ReceivedFacts DEF RecvSetMaxConcurrent, SchedTypeOK

LEMMA RecvSetPriorityTyped == SchedTypeOK /\ RecvSetPriority => SchedTypeOK'
<1> SUFFICES ASSUME SchedTypeOK, RecvSetPriority PROVE SchedTypeOK'
  OBVIOUS
<1>1. Recv("SetPriority")
  BY DEF RecvSetPriority
<1>2. Head(cmds).id \in Jobs /\ Head(cmds).priority \in Priorities
  BY <1>1, ReceivedFacts, CommandKinds
<1>3. pending' \in SUBSET Queued
  BY <1>2, ReprioritisedFacts DEF RecvSetPriority, SchedTypeOK
<1>4. QED
  BY <1>1, <1>3, ReceivedFacts DEF RecvSetPriority, SchedTypeOK

LEMMA RecvRemoveTyped == SchedTypeOK /\ RecvRemovePending => SchedTypeOK'
  BY ReceivedFacts DEF RecvRemovePending, SchedTypeOK

LEMMA DispatchTyped ==
    ASSUME SchedTypeOK, NEW q \in pending, Dispatch(q)
    PROVE  SchedTypeOK' /\ q.job \in Copy
  BY DEF Dispatch, SchedTypeOK, Queued, Copy, sentVars

LEMMA DispatchDoneTyped == SchedTypeOK /\ DispatchDone => SchedTypeOK'
  BY DEF DispatchDone, SchedTypeOK, sentVars

LEMMA SendTyped ==
    ASSUME SchedTypeOK, NEW c \in Command, Send(c), UNCHANGED <<sched, sentVars>>
    PROVE  SchedTypeOK'
  BY AppendFacts DEF SchedTypeOK, Send, sched, sentVars

LEMMA ClientSendTyped ==
    ASSUME SchedTypeOK, NEW c \in Command, ClientSend(c), UNCHANGED sched
    PROVE  SchedTypeOK'
<1>1. cmds' \in Seq(Command)
  BY AppendFacts DEF SchedTypeOK, ClientSend, Send
<1>2. sent' \in 0 .. MaxSends /\ doubled' \in SUBSET Jobs
  BY MaxSendsAssumption DEF SchedTypeOK, ClientSend
<1>3. QED
  BY <1>1, <1>2 DEF SchedTypeOK, sched

LEMMA SchedSame == SchedTypeOK /\ UNCHANGED schedVars => SchedTypeOK'
  BY DEF SchedTypeOK, schedVars, sentVars, sched

-----------------------------------------------------------------------------
(* The runs.                                                               *)

LEMMA RunFacts ==
    ASSUME RunTypeOK, NEW r \in Runs, run[r].phase # "idle"
    PROVE  /\ run[r] \in RunState
           /\ run[r].job \in Jobs /\ run[r].plan \in Plans /\ run[r].phase \in Phases
           /\ Busy(r)
  BY DEF RunTypeOK, RunState, Idle, Busy

LEMMA EventKinds ==
    /\ \A j \in Jobs, p \in Plans : Started(j, p) \in Event /\ Paused(j, p) \in Event
    /\ \A j \in Jobs : Completed(j) \in Event /\ Failed(j) \in Event
    /\ \A j \in Jobs, stray \in BOOLEAN : Progress(j, stray) \in Event
  BY DEF Event, Started, Paused, Progress, Completed, Failed

LEMMA EventFacts ==
    ASSUME NEW e \in Event
    PROVE  /\ e.id \in Jobs /\ e.ev \in {"Started", "Paused", "Progress", "Completed", "Failed"}
           /\ e.ev \in {"Started", "Paused"} => e.plan \in Plans
           /\ e.ev = "Progress" => e.stray \in BOOLEAN
  BY DEF Event

LEMMA EmitTyped ==
    ASSUME events \in Seq(Event), NEW e \in Event, Emit(e)
    PROVE  events' \in Seq(Event)
  BY AppendFacts DEF Emit

LEMMA RunSet ==
    ASSUME RunTypeOK, NEW r \in Runs, NEW s \in RunState, run' = [run EXCEPT ![r] = s]
    PROVE  run' \in [Runs -> RunState \cup {Idle}]
  BY DEF RunTypeOK

LEMMA GotoTyped ==
    ASSUME RunTypeOK, NEW r \in Runs, run[r].phase # "idle", NEW p \in Phases, Goto(r, p)
    PROVE  run' \in [Runs -> RunState \cup {Idle}]
<1>1. run[r] \in RunState
  BY RunFacts
<1>2. [run[r] EXCEPT !.phase = p] \in RunState
  BY <1>1 DEF RunState
<1>3. QED
  BY <1>2, RunSet DEF Goto, RunTypeOK

LEMMA TickerTyped ==
    ASSUME RunTypeOK, NEW r \in Runs, run[r].phase # "idle",
           \/ AbortTicker(r)
           \/ UNCHANGED strays
           \/ "leaked" \in Strays /\ strays' = strays \cup {<<"leaked", run[r].job>>}
    PROVE  strays' \in SUBSET (Strays \X Jobs)
  BY RunFacts DEF AbortTicker, RunTypeOK

LEMMA PlanFacts == "none" \in Plans /\ "segs" \in Plans
  BY PlansAssumption

LEMMA PhaseFacts ==
    /\ "begin" \in Phases /\ "get" \in Phases /\ "body" \in Phases /\ "joined" \in Phases
    /\ "assemble" \in Phases /\ "erred" \in Phases
    /\ "backoff" \in Phases /\ "unlist" \in Phases /\ "freeing" \in Phases
  BY DEF Phases

LEMMA FilesTyped ==
    ASSUME RunTypeOK, NEW j \in Jobs, NEW kind \in SUBSET {"seg", "part"},
           \/ files' = [files EXCEPT ![j] = @ \cup kind]
           \/ files' = [files EXCEPT ![j] = @ \ kind]
    PROVE  files' \in [Jobs -> SUBSET {"seg", "part"}]
  BY DEF RunTypeOK

LEMMA PartKindTyped == \A r \in Runs : {PartKind(r)} \in SUBSET {"seg", "part"}
  BY DEF PartKind

(* What a step of run r does to the parts of the run state that it writes. *)
LEMMA RunStepTyped ==
    ASSUME RunTypeOK, NEW r \in Runs,
           \/ BeginResume(r) \/ ProbeAnswers(r) \/ GetAnswers(r) \/ GetFails(r) \/ OpenFails(r)
           \/ BodyEnds(r) \/ BodyFails(r) \/ BodyStops(r) \/ Join(r) \/ Assemble(r)
           \/ AssembleFails(r) \/ GiveUp(r) \/ Backoff(r) \/ BackoffStops(r) \/ Unlist(r)
           \/ \E plan \in Plans : BackoffOver(r, plan)
    PROVE  RunTypeOK'
<1>0. /\ run \in [Runs -> RunState \cup {Idle}] /\ events \in Seq(Event)
      /\ active \in [Jobs -> Runs \cup {NoRun}] /\ strays \in SUBSET (Strays \X Jobs)
  BY DEF RunTypeOK
<1>1. /\ run[r].phase # "idle" /\ run[r] \in RunState
      /\ run[r].job \in Jobs /\ run[r].plan \in Plans
  <2>1. run[r].phase # "idle"
    BY DEF BeginResume, ProbeAnswers, GetAnswers, GetFails, OpenFails, BodyEnds, BodyFails,
           BodyStops, Join, Assemble, AssembleFails, GiveUp, Backoff, BackoffStops, Unlist,
           BackoffOver
  <2>2. QED
    BY <2>1, RunFacts
<1>2. /\ Started(run[r].job, "segs") \in Event /\ Started(run[r].job, "none") \in Event
      /\ Paused(run[r].job, "segs") \in Event /\ Paused(run[r].job, Segments(r)) \in Event
      /\ Paused(run[r].job, run[r].plan) \in Event
      /\ Completed(run[r].job) \in Event /\ Failed(run[r].job) \in Event
  BY <1>1, EventKinds, PlanFacts DEF Segments
<1>3. CASE BeginResume(r) \/ ProbeAnswers(r)
  <2>1. PICK phase \in {"get", "joined"}, multi \in BOOLEAN :
            run' = [run EXCEPT ![r].phase = phase, ![r].multi = multi]
    BY <1>3 DEF BeginResume, ProbeAnswers
  <2>2. [run[r] EXCEPT !.phase = phase, !.multi = multi] \in RunState
    BY <1>1, PhaseFacts DEF RunState
  <2>3. run' \in [Runs -> RunState \cup {Idle}]
    BY <1>0, <2>1, <2>2, RunSet
  <2>4. events' \in Seq(Event)
    BY <1>0, <1>2, <1>3, EmitTyped DEF BeginResume, ProbeAnswers
  <2>5. QED
    BY <1>3, <2>3, <2>4 DEF BeginResume, ProbeAnswers, RunTypeOK
<1>4. CASE GetAnswers(r)
  <2>1. run' \in [Runs -> RunState \cup {Idle}]
    BY <1>1, <1>4, GotoTyped, PhaseFacts DEF GetAnswers
  <2>2. events' \in Seq(Event)
    BY <1>0, <1>2, <1>4, EmitTyped DEF GetAnswers, AnnounceSingle
  <2>3. files' \in [Jobs -> SUBSET {"seg", "part"}]
    BY <1>1, <1>4, FilesTyped, PartKindTyped DEF GetAnswers
  <2>4. QED
    BY <1>4, <2>1, <2>2, <2>3 DEF GetAnswers, RunTypeOK
<1>5. CASE GetFails(r) \/ OpenFails(r) \/ BodyFails(r) \/ BodyStops(r) \/ Join(r)
  <2>1. PICK phase \in Phases : Goto(r, phase)
    BY <1>5, PhaseFacts DEF GetFails, OpenFails, BodyFails, BodyStops, Join, EndInError
  <2>2. run' \in [Runs -> RunState \cup {Idle}]
    BY <1>1, <2>1, GotoTyped
  <2>3. events' \in Seq(Event)
    BY <1>0, <1>2, <1>5, EmitTyped
    DEF GetFails, OpenFails, BodyFails, BodyStops, Join, EndInError
  <2>4. strays' \in SUBSET (Strays \X Jobs)
    BY <1>1, <1>5, TickerTyped DEF GetFails, OpenFails, BodyFails, BodyStops, Join
  <2>5. QED
    BY <1>5, <2>2, <2>3, <2>4
    DEF GetFails, OpenFails, BodyFails, BodyStops, Join, RunTypeOK
<1>6. CASE BodyEnds(r) \/ AssembleFails(r) \/ GiveUp(r) \/ BackoffStops(r) \/ Unlist(r)
  <2>1. PICK phase \in Phases : Goto(r, phase)
    BY <1>6, PhaseFacts DEF BodyEnds, AssembleFails, GiveUp, BackoffStops, Unlist
  <2>2. run' \in [Runs -> RunState \cup {Idle}]
    BY <1>1, <2>1, GotoTyped
  <2>3. events' \in Seq(Event)
    BY <1>0, <1>2, <1>6, EmitTyped DEF BodyEnds, AssembleFails, GiveUp, BackoffStops, Unlist
  <2>4. active' \in [Jobs -> Runs \cup {NoRun}]
    BY <1>0, <1>6 DEF BodyEnds, AssembleFails, GiveUp, BackoffStops, Unlist
  <2>5. QED
    BY <1>6, <2>2, <2>3, <2>4
    DEF BodyEnds, AssembleFails, GiveUp, BackoffStops, Unlist, RunTypeOK
<1>7. CASE Assemble(r)
  <2>1. run' \in [Runs -> RunState \cup {Idle}]
    BY <1>1, <1>7, GotoTyped, PhaseFacts DEF Assemble
  <2>2. events' \in Seq(Event)
    BY <1>0, <1>2, <1>7, EmitTyped DEF Assemble
  <2>3. files' \in [Jobs -> SUBSET {"seg", "part"}]
    BY <1>1, <1>7, FilesTyped, PartKindTyped DEF Assemble
  <2>4. QED
    BY <1>7, <2>1, <2>2, <2>3 DEF Assemble, RunTypeOK
<1>8. CASE Backoff(r)
  <2>1. run[r].tries + 1 \in 0 .. MaxTries
    BY <1>1, <1>8, MaxTriesAssumption DEF Backoff, RunState
  <2>2. [run[r] EXCEPT !.phase = "backoff", !.tries = @ + 1] \in RunState
    BY <1>1, <2>1, PhaseFacts DEF RunState
  <2>3. run' \in [Runs -> RunState \cup {Idle}]
    BY <1>0, <1>8, <2>2, RunSet DEF Backoff
  <2>4. QED
    BY <1>8, <2>3 DEF Backoff, RunTypeOK
<1>9. ASSUME NEW plan \in Plans, BackoffOver(r, plan) PROVE RunTypeOK'
  <2>1. [run[r] EXCEPT !.phase = "begin", !.plan = plan, !.multi = FALSE] \in RunState
    BY <1>1, PhaseFacts DEF RunState
  <2>2. run' \in [Runs -> RunState \cup {Idle}]
    BY <1>0, <1>9, <2>1, RunSet DEF BackoffOver
  <2>3. QED
    BY <1>9, <2>2 DEF BackoffOver, RunTypeOK
<1>10. QED
  BY <1>3, <1>4, <1>5, <1>6, <1>7, <1>8, <1>9

LEMMA FreeSlotTyped ==
    ASSUME SchedTypeOK, RunTypeOK, NEW r \in Runs, FreeSlot(r)
    PROVE  SchedTypeOK' /\ RunTypeOK'
<1>1. run[r].job \in Jobs
  BY RunFacts DEF FreeSlot
<1>2. SchedTypeOK'
  BY <1>1, CommandsAreCommands, SendTyped DEF FreeSlot
<1>3. RunTypeOK'
  BY DEF FreeSlot, RunTypeOK
<1>4. QED
  BY <1>2, <1>3

LEMMA StopTyped ==
    ASSUME RunTypeOK, NEW j \in Jobs, StopListed(j), UNCHANGED <<active, strays, events, files>>,
           active[j] # NoRun => Busy(active[j])
    PROVE  RunTypeOK'
<1>1. CASE active[j] = NoRun
  BY <1>1 DEF StopListed, RunTypeOK
<1>2. CASE active[j] # NoRun
  <2>1. PICK r \in Runs : active[j] = r
    BY <1>2 DEF RunTypeOK
  <2>2. run[r] \in RunState
    BY <1>2, <2>1 DEF RunTypeOK, Busy
  <2>3. [run[r] EXCEPT !.stop = TRUE] \in RunState
    BY <2>2 DEF RunState
  <2>4. run' \in [Runs -> RunState \cup {Idle}]
    BY <1>2, <2>1, <2>3, RunSet DEF StopListed, RunTypeOK
  <2>5. QED
    BY <2>4 DEF RunTypeOK
<1>3. QED
  BY <1>1, <1>2

LEMMA TickTyped ==
    ASSUME RunTypeOK,
           (\E r \in Runs : RunTick(r)) \/ (\E t \in strays : StrayTick(t))
    PROVE  RunTypeOK'
<1>1. ASSUME NEW r \in Runs, RunTick(r) PROVE RunTypeOK'
  <2>1. run[r].job \in Jobs
    <3>1. run[r].phase # "idle"
      BY <1>1 DEF RunTick, Ticking
    <3>2. QED
      BY <3>1, RunFacts
  <2>2. events' \in Seq(Event)
    BY <1>1, <2>1, EventKinds, EmitTyped DEF RunTick, Tick, RunTypeOK
  <2>3. QED
    BY <1>1, <2>2 DEF RunTick, RunTypeOK
<1>2. ASSUME NEW t \in strays, StrayTick(t) PROVE RunTypeOK'
  <2>1. t[2] \in Jobs
    BY DEF RunTypeOK
  <2>2. events' \in Seq(Event)
    BY <1>2, <2>1, EventKinds, EmitTyped DEF StrayTick, Tick, RunTypeOK
  <2>3. strays' \in SUBSET (Strays \X Jobs)
    BY <1>2 DEF StrayTick, RunTypeOK
  <2>4. QED
    BY <1>2, <2>2, <2>3 DEF StrayTick, RunTypeOK
<1>3. QED
  BY <1>1, <1>2

LEMMA RunSame == RunTypeOK /\ UNCHANGED runVars => RunTypeOK'
  BY DEF RunTypeOK, runVars
-----------------------------------------------------------------------------
(* A run is left for every entry of the heap: entries and runs come from   *)
(* Enqueue commands, and clients send at most MaxSends of those.           *)

BusyRuns == {r \in Runs : Busy(r)}
Enqueues == {i \in DOMAIN cmds : cmds[i].op = "Enqueue"}
Room ==
    /\ IsFiniteSet(pending)
    /\ Cardinality(BusyRuns) + Cardinality(pending) + Cardinality(Enqueues) <= sent

LEMMA RunsFinite == IsFiniteSet(Runs) /\ Cardinality(Runs) = MaxSends
  BY FS_Interval, MaxSendsAssumption DEF Runs

LEMMA BusyFinite == IsFiniteSet(BusyRuns) /\ Cardinality(BusyRuns) \in Nat
<1>1. BusyRuns \in SUBSET Runs
  BY DEF BusyRuns
<1>2. QED
  BY <1>1, RunsFinite, FS_Subset, FS_CardinalityType

LEMMA EnqueuesFinite ==
    ASSUME SchedTypeOK
    PROVE  IsFiniteSet(Enqueues) /\ Cardinality(Enqueues) \in Nat
<1>1. DOMAIN cmds = 1 .. Len(cmds) /\ Len(cmds) \in Nat
  BY DEF SchedTypeOK
<1>2. IsFiniteSet(1 .. Len(cmds))
  BY <1>1, FS_Interval
<1>3. Enqueues \in SUBSET (1 .. Len(cmds))
  BY <1>1 DEF Enqueues
<1>4. QED
  BY <1>2, <1>3, FS_Subset, FS_CardinalityType

LEMMA PendingCounted == Room => Cardinality(pending) \in Nat
  BY FS_CardinalityType DEF Room

(* The oldest command is received.                                         *)
LEMMA ReceivedEnqueues ==
    ASSUME SchedTypeOK, NEW op, Recv(op)
    PROVE  Cardinality(Enqueues') <= Cardinality(Enqueues) - (IF op = "Enqueue" THEN 1 ELSE 0)
<1> DEFINE Rest == Enqueues \ {1}
           f == [i \in Rest |-> i - 1]
<1>1. /\ cmds \in Seq(Command) /\ cmds # <<>> /\ cmds' = Tail(cmds)
      /\ Head(cmds).op = op /\ Head(cmds) = cmds[1]
      /\ Len(cmds) \in Nat \ {0} /\ DOMAIN cmds = 1 .. Len(cmds)
      /\ DOMAIN cmds' = 1 .. Len(cmds) - 1
      /\ \A i \in 1 .. Len(cmds) - 1 : cmds'[i] = cmds[i + 1]
  BY ReceivedFacts, TailFacts
<1>2. Enqueues' = {i \in DOMAIN cmds' : cmds'[i].op = "Enqueue"}
  BY DEF Enqueues
<1>3. \A i \in Rest : i \in 2 .. Len(cmds) /\ cmds[i].op = "Enqueue"
  BY <1>1 DEF Enqueues
<1>4. \A i \in Rest : i - 1 \in Enqueues'
  BY <1>1, <1>2, <1>3
<1>5. \A k \in Enqueues' : k + 1 \in Rest /\ f[k + 1] = k
  <2> SUFFICES ASSUME NEW k \in Enqueues' PROVE k + 1 \in Rest /\ f[k + 1] = k
    OBVIOUS
  <2>1. k \in 1 .. Len(cmds) - 1 /\ cmds[k + 1].op = "Enqueue"
    BY <1>1, <1>2
  <2>2. k + 1 \in Rest
    BY <1>1, <2>1 DEF Enqueues
  <2>3. QED
    BY <2>1, <2>2
<1>6. f \in Surjection(Rest, Enqueues')
  BY <1>4, <1>5 DEF Surjection
<1>7. /\ IsFiniteSet(Rest)
      /\ Cardinality(Rest) = Cardinality(Enqueues) - (IF op = "Enqueue" THEN 1 ELSE 0)
  <2>1. 1 \in Enqueues <=> op = "Enqueue"
    BY <1>1 DEF Enqueues
  <2>2. QED
    BY <2>1, EnqueuesFinite, FS_RemoveElement
<1>8. Cardinality(Enqueues') <= Cardinality(Rest)
  BY <1>6, <1>7, FS_Surjection
<1>9. QED
  BY <1>7, <1>8

(* A command is sent.                                                      *)
LEMMA SentEnqueues ==
    ASSUME SchedTypeOK, NEW c \in Command, Send(c)
    PROVE  Cardinality(Enqueues') = Cardinality(Enqueues) + (IF c.op = "Enqueue" THEN 1 ELSE 0)
<1>1. /\ DOMAIN cmds = 1 .. Len(cmds) /\ Len(cmds) \in Nat
      /\ DOMAIN cmds' = 1 .. Len(cmds) + 1
      /\ \A i \in 1 .. Len(cmds) : cmds'[i] = cmds[i]
      /\ cmds'[Len(cmds) + 1] = c
  BY AppendFacts DEF SchedTypeOK, Send
<1>2. Enqueues' = {i \in DOMAIN cmds' : cmds'[i].op = "Enqueue"}
  BY DEF Enqueues
<1>3. Enqueues' = Enqueues \cup (IF c.op = "Enqueue" THEN {Len(cmds) + 1} ELSE {})
  BY <1>1, <1>2 DEF Enqueues
<1>4. Len(cmds) + 1 \notin Enqueues
  BY <1>1 DEF Enqueues
<1>5. CASE c.op = "Enqueue"
  <2>1. Enqueues' = Enqueues \cup {Len(cmds) + 1}
    BY <1>3, <1>5
  <2>2. Cardinality(Enqueues \cup {Len(cmds) + 1}) = Cardinality(Enqueues) + 1
    BY <1>4, EnqueuesFinite, FS_AddElement
  <2>3. QED
    BY <1>5, <2>1, <2>2
<1>6. CASE c.op # "Enqueue"
  <2>1. Enqueues' = Enqueues
    BY <1>3, <1>6
  <2>2. QED
    BY <1>6, <2>1, EnqueuesFinite
<1>7. QED
  BY <1>5, <1>6

LEMMA SameEnqueues == UNCHANGED cmds => Enqueues' = Enqueues
  BY DEF Enqueues

LEMMA SameBusy == (\A r \in Runs : Busy(r)' <=> Busy(r)) => BusyRuns' = BusyRuns
  BY DEF BusyRuns
(* An idle run takes the entry that is dispatched.                         *)
LEMMA StartFacts ==
    ASSUME SchedTypeOK, RunTypeOK, Room, NEW q \in pending, StartDownload(q)
    PROVE  \E r \in Runs :
              /\ ~ Busy(r)
              /\ run' = [run EXCEPT ![r] =
                            [phase |-> "begin", job |-> q.job.id, plan |-> q.job.plan,
                             multi |-> FALSE, tries |-> 0, stop |-> FALSE]]
              /\ active' = [active EXCEPT ![q.job.id] = r]
<1>1. BusyRuns # Runs
  <2>1. Cardinality(pending) # 0
    BY FS_EmptySet DEF Room
  <2>2. Cardinality(BusyRuns) < MaxSends
    BY <2>1, BusyFinite, EnqueuesFinite, PendingCounted, MaxSendsAssumption DEF Room, SchedTypeOK
  <2>3. QED
    BY <2>2, RunsFinite, MaxSendsAssumption
<1>2. \E i \in Runs : ~ Busy(i)
  BY <1>1 DEF BusyRuns
<1> DEFINE free == CHOOSE i \in Runs : ~ Busy(i)
<1>3. free \in Runs /\ ~ Busy(free)
  BY <1>2
<1>4. QED
  BY <1>3 DEF StartDownload

LEMMA StartTyped ==
    ASSUME SchedTypeOK, RunTypeOK, Room, NEW q \in pending, StartDownload(q)
    PROVE  SchedTypeOK' /\ RunTypeOK'
<1>1. SchedTypeOK' /\ q.job \in Copy
  BY DispatchTyped DEF StartDownload
<1>2. PICK r \in Runs :
          /\ run' = [run EXCEPT ![r] =
                        [phase |-> "begin", job |-> q.job.id, plan |-> q.job.plan,
                         multi |-> FALSE, tries |-> 0, stop |-> FALSE]]
          /\ active' = [active EXCEPT ![q.job.id] = r]
  BY StartFacts
<1>3. [phase |-> "begin", job |-> q.job.id, plan |-> q.job.plan,
       multi |-> FALSE, tries |-> 0, stop |-> FALSE] \in RunState
  BY <1>1, PhaseFacts, MaxTriesAssumption DEF Copy, RunState
<1>4. run' \in [Runs -> RunState \cup {Idle}]
  BY <1>2, <1>3, RunSet
<1>5. active' \in [Jobs -> Runs \cup {NoRun}]
  BY <1>2 DEF RunTypeOK
<1>6. RunTypeOK'
  BY <1>4, <1>5 DEF StartDownload, RunTypeOK
<1>7. QED
  BY <1>1, <1>6
-----------------------------------------------------------------------------
(* What a step does to the tasks: which are there and for which jobs.      *)

SameTasks == \A r \in Runs : (Busy(r)' <=> Busy(r)) /\ run'[r].job = run[r].job

(* No task is about to free its slot that was not.                         *)
NoneFreeing == \A r \in Runs : run'[r].phase = "freeing" => run[r].phase = "freeing"

(* Run r goes to state s, for the same job.                                *)
Becomes(r, s) ==
    /\ run[r] \in RunState /\ s \in RunState /\ s.job = run[r].job
    /\ run' = [run EXCEPT ![r] = s]

LEMMA BecomesFacts ==
    ASSUME RunTypeOK, NEW r \in Runs, NEW s, Becomes(r, s)
    PROVE  /\ SameTasks
           /\ s.phase # "freeing" => NoneFreeing
           /\ \A k \in Runs \ {r} : run'[k] = run[k]
           /\ run'[r] = s
<1>1. /\ \A k \in Runs \ {r} : run'[k] = run[k]
      /\ run'[r] = s
  BY DEF RunTypeOK, Becomes
<1>2. run[r] # Idle /\ s # Idle
  BY DEF Becomes, RunState, Idle
<1>3. QED
  BY <1>1, <1>2 DEF SameTasks, NoneFreeing, Busy, Becomes

LEMMA GotoBecomes ==
    ASSUME RunTypeOK, NEW r \in Runs, run[r].phase # "idle", NEW p \in Phases, Goto(r, p)
    PROVE  Becomes(r, [run[r] EXCEPT !.phase = p])
<1>1. run[r] \in RunState
  BY RunFacts
<1>2. [run[r] EXCEPT !.phase = p] \in RunState /\ [run[r] EXCEPT !.phase = p].job = run[r].job
  BY <1>1 DEF RunState
<1>3. run' = [run EXCEPT ![r] = [run[r] EXCEPT !.phase = p]]
  BY DEF Goto, RunTypeOK
<1>4. QED
  BY <1>1, <1>2, <1>3 DEF Becomes

(* A step of a run other than the two that end it.                         *)
LEMMA RunStepBecomes ==
    ASSUME RunTypeOK, NEW r \in Runs,
           \/ BeginResume(r) \/ ProbeAnswers(r) \/ GetAnswers(r) \/ GetFails(r) \/ OpenFails(r)
           \/ BodyEnds(r) \/ BodyFails(r) \/ BodyStops(r) \/ Join(r) \/ Assemble(r)
           \/ AssembleFails(r) \/ GiveUp(r) \/ Backoff(r) \/ BackoffStops(r)
           \/ \E plan \in Plans : BackoffOver(r, plan)
    PROVE  /\ SameTasks /\ NoneFreeing
           /\ UNCHANGED <<schedVars, active>>
<1>0. run \in [Runs -> RunState \cup {Idle}]
  BY DEF RunTypeOK
<1>1. run[r].phase # "idle" /\ run[r] \in RunState
  <2>1. run[r].phase # "idle"
    BY DEF BeginResume, ProbeAnswers, GetAnswers, GetFails, OpenFails, BodyEnds, BodyFails,
           BodyStops, Join, Assemble, AssembleFails, GiveUp, Backoff, BackoffStops, BackoffOver
  <2>2. QED
    BY <2>1, RunFacts
<1>2. UNCHANGED <<schedVars, active>>
  BY DEF BeginResume, ProbeAnswers, GetAnswers, GetFails, OpenFails, BodyEnds, BodyFails,
         BodyStops, Join, Assemble, AssembleFails, GiveUp, Backoff, BackoffStops, BackoffOver
<1>3. \E s \in RunState : Becomes(r, s) /\ s.phase # "freeing"
  <2>1. CASE BeginResume(r) \/ ProbeAnswers(r)
    <3>1. PICK phase \in {"get", "joined"}, multi \in BOOLEAN :
              run' = [run EXCEPT ![r].phase = phase, ![r].multi = multi]
      BY <2>1 DEF BeginResume, ProbeAnswers
    <3> DEFINE s == [run[r] EXCEPT !.phase = phase, !.multi = multi]
    <3>2. s \in RunState /\ s.job = run[r].job /\ s.phase = phase
      BY <1>1, PhaseFacts DEF RunState
    <3>3. run' = [run EXCEPT ![r] = s]
      BY <1>0, <3>1
    <3>4. QED
      BY <1>1, <3>2, <3>3 DEF Becomes
  <2>2. CASE \/ GetAnswers(r) \/ GetFails(r) \/ OpenFails(r) \/ BodyEnds(r) \/ BodyFails(r)
             \/ BodyStops(r) \/ Join(r) \/ Assemble(r) \/ AssembleFails(r) \/ GiveUp(r)
             \/ BackoffStops(r)
    <3>1. PICK phase \in Phases \ {"freeing"} : Goto(r, phase)
      BY <2>2, PhaseFacts
      DEF GetAnswers, GetFails, OpenFails, BodyEnds, BodyFails, BodyStops, Join, Assemble,
          AssembleFails, GiveUp, BackoffStops, EndInError
    <3>2. Becomes(r, [run[r] EXCEPT !.phase = phase])
      BY <1>1, <3>1, GotoBecomes
    <3>3. [run[r] EXCEPT !.phase = phase].phase = phase
      BY <1>1 DEF RunState
    <3>4. QED
      BY <3>1, <3>2, <3>3 DEF Becomes
  <2>3. CASE Backoff(r)
    <3> DEFINE s == [run[r] EXCEPT !.phase = "backoff", !.tries = @ + 1]
    <3>1. run[r].tries + 1 \in 0 .. MaxTries
      BY <1>1, <2>3, MaxTriesAssumption DEF Backoff, RunState
    <3>2. s \in RunState /\ s.job = run[r].job /\ s.phase = "backoff"
      BY <1>1, <3>1, PhaseFacts DEF RunState
    <3>3. run' = [run EXCEPT ![r] = s]
      BY <1>0, <2>3 DEF Backoff
    <3>4. QED
      BY <1>1, <3>2, <3>3 DEF Becomes
  <2>4. ASSUME NEW plan \in Plans, BackoffOver(r, plan)
        PROVE  \E s \in RunState : Becomes(r, s) /\ s.phase # "freeing"
    <3> DEFINE s == [run[r] EXCEPT !.phase = "begin", !.plan = plan, !.multi = FALSE]
    <3>1. s \in RunState /\ s.job = run[r].job /\ s.phase = "begin"
      BY <1>1, PhaseFacts DEF RunState
    <3>2. run' = [run EXCEPT ![r] = s]
      BY <1>0, <2>4 DEF BackoffOver
    <3>3. QED
      BY <1>1, <3>1, <3>2 DEF Becomes
  <2>5. QED
    BY <2>1, <2>2, <2>3, <2>4
<1>4. QED
  BY <1>2, <1>3, BecomesFacts

LEMMA UnlistBecomes ==
    ASSUME RunTypeOK, NEW r \in Runs, Unlist(r)
    PROVE  /\ SameTasks /\ Busy(r)
           /\ \A k \in Runs \ {r} : run'[k] = run[k]
<1>1. Goto(r, "freeing") /\ run[r].phase # "idle"
  BY DEF Unlist
<1>2. QED
  BY <1>1, GotoBecomes, BecomesFacts, PhaseFacts, RunFacts

LEMMA StopBecomes ==
    ASSUME RunTypeOK, NEW j \in Jobs, StopListed(j), active[j] # NoRun => Busy(active[j])
    PROVE  SameTasks /\ NoneFreeing
<1>1. CASE active[j] = NoRun
  BY <1>1 DEF StopListed, SameTasks, NoneFreeing, Busy
<1>2. CASE active[j] # NoRun
  <2>1. PICK r \in Runs : active[j] = r
    BY <1>2 DEF RunTypeOK
  <2>2. run[r] \in RunState
    BY <1>2, <2>1 DEF RunTypeOK, Busy
  <2> DEFINE s == [run[r] EXCEPT !.stop = TRUE]
  <2>3. s \in RunState /\ s.job = run[r].job /\ s.phase = run[r].phase
    BY <2>2 DEF RunState
  <2>4. run' = [run EXCEPT ![r] = s]
    BY <1>2, <2>1 DEF StopListed, RunTypeOK
  <2>5. /\ SameTasks
        /\ \A k \in Runs \ {r} : run'[k] = run[k]
        /\ run'[r] = s
    BY <2>2, <2>3, <2>4, BecomesFacts DEF Becomes
  <2>6. NoneFreeing
    BY <2>3, <2>5 DEF NoneFreeing
  <2>7. QED
    BY <2>5, <2>6
<1>3. QED
  BY <1>1, <1>2

LEMMA SameTasksRoom ==
    ASSUME Room, SameTasks, UNCHANGED schedVars
    PROVE  Room'
<1>1. BusyRuns' = BusyRuns
  BY SameBusy DEF SameTasks
<1>2. Enqueues' = Enqueues
  BY SameEnqueues DEF schedVars, sentVars
<1>3. QED
  BY <1>1, <1>2 DEF Room, schedVars, sentVars, sched
(* The scheduler task: no run starts or ends.                              *)
LEMMA RecvRoom ==
    ASSUME SchedTypeOK, Room, UNCHANGED run,
           \/ RecvEnqueue \/ RecvSlotFreed \/ RecvSetMaxConcurrent \/ RecvRemovePending
           \/ RecvSetPriority
    PROVE  Room'
<1>0. /\ BusyRuns' = BusyRuns /\ Cardinality(BusyRuns) \in Nat
      /\ IsFiniteSet(pending) /\ Cardinality(pending) \in Nat
      /\ Cardinality(Enqueues) \in Nat /\ sent \in Nat
      /\ Cardinality(BusyRuns) + Cardinality(pending) + Cardinality(Enqueues) <= sent
  BY SameBusy, BusyFinite, EnqueuesFinite, PendingCounted, MaxSendsAssumption
  DEF Busy, Room, SchedTypeOK
<1>1. PICK op \in {"Enqueue", "SlotFreed", "SetMaxConcurrent", "RemovePending", "SetPriority"} :
          Recv(op) /\ (op = "Enqueue" <=> RecvEnqueue)
  BY DEF RecvEnqueue, RecvSlotFreed, RecvSetMaxConcurrent, RecvRemovePending, RecvSetPriority,
         Recv
<1>2. SchedTypeOK'
  BY RecvEnqueueTyped, RecvSlotFreedTyped, RecvSetMaxTyped, RecvRemoveTyped, RecvSetPriorityTyped
<1>3. Cardinality(Enqueues') \in Nat /\ sent' = sent
  <2>1. IsFiniteSet(Enqueues')
    <3>1. Enqueues' = {i \in DOMAIN cmds' : cmds'[i].op = "Enqueue"}
      BY DEF Enqueues
    <3>2. cmds' \in Seq(Command)
      BY <1>2 DEF SchedTypeOK
    <3>3. DOMAIN cmds' = 1 .. Len(cmds') /\ Len(cmds') \in Nat
      BY <3>2
    <3>4. IsFiniteSet(1 .. Len(cmds'))
      BY <3>3, FS_Interval
    <3>5. Enqueues' \in SUBSET (1 .. Len(cmds'))
      BY <3>1, <3>3
    <3>6. QED
      BY <3>4, <3>5, FS_Subset
  <2>2. QED
    BY <1>1, <2>1, FS_CardinalityType DEF Recv, sentVars
<1>4. CASE op = "Enqueue"
  <2>1. pending' = pending \cup {[seq |-> seq + 1, job |-> Head(cmds).job]}
    BY <1>1, <1>4 DEF RecvEnqueue, Push
  <2>2. IsFiniteSet(pending') /\ Cardinality(pending') <= Cardinality(pending) + 1
        /\ Cardinality(pending') \in Nat
    <3> DEFINE x == [seq |-> seq + 1, job |-> Head(cmds).job]
    <3>1. /\ IsFiniteSet(pending \cup {x})
          /\ \/ Cardinality(pending \cup {x}) = Cardinality(pending)
             \/ Cardinality(pending \cup {x}) = Cardinality(pending) + 1
      <4> HIDE DEF x
      <4>1. QED
        BY <1>0, FS_AddElement
    <3>2. QED
      BY <1>0, <2>1, <3>1
  <2>3. Cardinality(Enqueues') <= Cardinality(Enqueues) - 1
    BY <1>1, <1>4, ReceivedEnqueues
  <2>4. QED
    BY <1>0, <1>3, <2>2, <2>3 DEF Room
<1>5. CASE op # "Enqueue"
  <2>1. IsFiniteSet(pending') /\ Cardinality(pending') <= Cardinality(pending)
    <3>1. CASE RecvSetPriority
      <4> DEFINE f == [q \in pending |-> Reprioritised(q, Head(cmds).id, Head(cmds).priority)]
      <4>1. f \in Surjection(pending, pending')
        BY <3>1 DEF RecvSetPriority, Surjection
      <4>2. QED
        BY <1>0, <4>1, FS_Surjection
    <3>2. CASE RecvRemovePending
      <4>1. pending' \in SUBSET pending
        BY <3>2 DEF RecvRemovePending
      <4>2. QED
        BY <1>0, <4>1, FS_Subset
    <3>3. CASE RecvSlotFreed \/ RecvSetMaxConcurrent
      BY <1>0, <3>3 DEF RecvSlotFreed, RecvSetMaxConcurrent
    <3>4. QED
      BY <1>1, <1>5, <3>1, <3>2, <3>3
  <2>2. Cardinality(pending') \in Nat
    BY <2>1, FS_CardinalityType
  <2>3. Cardinality(Enqueues') <= Cardinality(Enqueues)
    BY <1>0, <1>1, <1>5, ReceivedEnqueues
  <2>4. QED
    BY <1>0, <1>3, <2>1, <2>2, <2>3 DEF Room
<1>6. QED
  BY <1>4, <1>5

LEMMA StartRoom ==
    ASSUME SchedTypeOK, RunTypeOK, Room, NEW q \in pending, StartDownload(q)
    PROVE  Room'
<1>1. PICK r \in Runs :
          /\ ~ Busy(r)
          /\ run' = [run EXCEPT ![r] =
                        [phase |-> "begin", job |-> q.job.id, plan |-> q.job.plan,
                         multi |-> FALSE, tries |-> 0, stop |-> FALSE]]
  BY StartFacts
<1>2. BusyRuns' = BusyRuns \cup {r}
  <2>1. run'[r].phase = "begin" /\ Idle.phase = "idle"
    BY <1>1 DEF RunTypeOK, Idle
  <2>2. \A k \in Runs \ {r} : run'[k] = run[k]
    BY <1>1 DEF RunTypeOK
  <2>3. \A k \in Runs : Busy(k)' <=> k = r \/ Busy(k)
    BY <2>1, <2>2 DEF Busy
  <2>4. QED
    BY <2>3 DEF BusyRuns
<1>3. Cardinality(BusyRuns') = Cardinality(BusyRuns) + 1
  <2>1. r \notin BusyRuns
    BY <1>1 DEF BusyRuns
  <2>2. Cardinality(BusyRuns \cup {r}) = Cardinality(BusyRuns) + 1
    BY <2>1, BusyFinite, FS_AddElement
  <2>3. QED
    BY <1>2, <2>2
<1>4. pending' = pending \ {q} /\ UNCHANGED <<cmds, sent>>
  BY DEF StartDownload, Dispatch, sentVars
<1>5. IsFiniteSet(pending') /\ Cardinality(pending') = Cardinality(pending) - 1
  <2>1. Cardinality(pending \ {q}) = Cardinality(pending) - 1 /\ IsFiniteSet(pending \ {q})
    BY FS_RemoveElement DEF Room
  <2>2. QED
    BY <1>4, <2>1
<1>6. Enqueues' = Enqueues
  BY <1>4, SameEnqueues
<1>7. QED
  BY <1>3, <1>4, <1>5, <1>6, BusyFinite, EnqueuesFinite, PendingCounted DEF Room

LEMMA FreeRoom ==
    ASSUME SchedTypeOK, RunTypeOK, Room, NEW r \in Runs, FreeSlot(r)
    PROVE  Room'
<1>1. Busy(r) /\ run[r].job \in Jobs
  BY RunFacts DEF FreeSlot
<1>2. BusyRuns' = BusyRuns \ {r}
  <2>1. run'[r] = Idle /\ \A k \in Runs \ {r} : run'[k] = run[k]
    BY DEF FreeSlot, RunTypeOK
  <2>2. \A k \in Runs : Busy(k)' <=> k # r /\ Busy(k)
    BY <2>1 DEF Busy
  <2>3. QED
    BY <2>2 DEF BusyRuns
<1>3. Cardinality(BusyRuns') = Cardinality(BusyRuns) - 1
  <2>1. r \in BusyRuns
    BY <1>1 DEF BusyRuns
  <2>2. Cardinality(BusyRuns \ {r}) = Cardinality(BusyRuns) - 1
    BY <2>1, BusyFinite, FS_RemoveElement
  <2>3. QED
    BY <1>2, <2>2
<1>4. Cardinality(Enqueues') = Cardinality(Enqueues)
  <2>1. SlotFreed(run[r].job) \in Command /\ SlotFreed(run[r].job).op # "Enqueue"
    BY <1>1, CommandsAreCommands DEF SlotFreed
  <2>2. Send(SlotFreed(run[r].job))
    BY DEF FreeSlot
  <2>3. QED
    BY <2>1, <2>2, SentEnqueues, EnqueuesFinite
<1>5. UNCHANGED <<pending, sent>>
  BY DEF FreeSlot, sched, sentVars
<1>6. QED
  BY <1>3, <1>4, <1>5, BusyFinite, EnqueuesFinite, PendingCounted DEF Room, SchedTypeOK

LEMMA ClientSendRoom ==
    ASSUME SchedTypeOK, Room, NEW c \in Command, ClientSend(c), UNCHANGED <<sched, run>>
    PROVE  Room'
<1>1. BusyRuns' = BusyRuns
  BY SameBusy DEF Busy
<1>2. Cardinality(Enqueues') <= Cardinality(Enqueues) + 1 /\ Cardinality(Enqueues') \in Nat
  BY SentEnqueues, EnqueuesFinite DEF ClientSend
<1>3. pending' = pending /\ sent' = sent + 1 /\ sent \in Nat
  BY MaxSendsAssumption DEF ClientSend, sched, SchedTypeOK
<1>4. QED
  BY <1>1, <1>2, <1>3, BusyFinite, EnqueuesFinite, PendingCounted DEF Room
-----------------------------------------------------------------------------
(* The jobs table, the handlers and the consumer.                          *)

LEMMA RowFacts ==
    ASSUME DaemonTypeOK, NEW j \in Jobs
    PROVE  /\ HasRow(j) => db[j] \in Row /\ db[j].plan \in Plans /\ db[j].priority \in Priorities
           /\ ~ HasRow(j) => db[j] = NoRow
  BY DEF DaemonTypeOK, HasRow, Row

LEMMA UpdatedTyped ==
    ASSUME DaemonTypeOK, NEW j \in Jobs, NEW s \in Statuses, db' = Updated(j, s)
    PROVE  db' \in [Jobs -> Row \cup {NoRow}]
<1>1. db \in [Jobs -> Row \cup {NoRow}]
  BY DEF DaemonTypeOK
<1>2. CASE HasRow(j)
  <2>1. [db[j] EXCEPT !.status = s] \in Row
    BY <1>2, RowFacts DEF Row
  <2>2. db' = [db EXCEPT ![j] = [db[j] EXCEPT !.status = s]]
    BY <1>1, <1>2 DEF Updated
  <2>3. QED
    BY <1>1, <2>1, <2>2
<1>3. CASE ~ HasRow(j)
  BY <1>1, <1>3 DEF Updated
<1>4. QED
  BY <1>2, <1>3

LEMMA SetStatusTyped ==
    ASSUME DaemonTypeOK, NEW j \in Jobs, NEW s \in Statuses, SetStatus(j, s)
    PROVE  db' \in [Jobs -> Row \cup {NoRow}] /\ stale' \in SUBSET Jobs
  BY UpdatedTyped DEF SetStatus, DaemonTypeOK

LEMMA SetPlanTyped ==
    ASSUME DaemonTypeOK, NEW j \in Jobs, NEW s \in Statuses, NEW plan \in Plans,
           SetPlanAndStatus(j, plan, s)
    PROVE  db' \in [Jobs -> Row \cup {NoRow}] /\ stale' \in SUBSET Jobs
<1>1. db \in [Jobs -> Row \cup {NoRow}]
  BY DEF DaemonTypeOK
<1>2. ASSUME HasRow(j) PROVE db' \in [Jobs -> Row \cup {NoRow}]
  <2>1. [db[j] EXCEPT !.status = s, !.plan = plan] \in Row
    BY <1>2, RowFacts DEF Row
  <2>2. db' = [db EXCEPT ![j] = [db[j] EXCEPT !.status = s, !.plan = plan]]
    BY <1>1, <1>2 DEF SetPlanAndStatus
  <2>3. QED
    BY <1>1, <2>1, <2>2
<1>3. ASSUME ~ HasRow(j) PROVE db' \in [Jobs -> Row \cup {NoRow}]
  BY <1>1, <1>3 DEF SetPlanAndStatus
<1>4. stale' \in SUBSET Jobs
  BY DEF SetPlanAndStatus, DaemonTypeOK
<1>5. QED
  BY <1>2, <1>3, <1>4

LEMMA CopyTyped == \A j \in Jobs : DaemonTypeOK /\ HasRow(j) => CopyOf(j) \in Copy
  BY RowFacts DEF CopyOf, Copy

LEMMA StatusFacts ==
    {"Queued", "Active", "Paused", "Completed", "Failed", "Cancelled"} \subseteq Statuses
  BY DEF Statuses

WithdrawPcs == {"check", "mark", "stop", "row"}

LEMMA HandlerKinds ==
    ASSUME NEW h \in HandlerState
    PROVE  /\ h.pc = "enqueue" => h = [pc |-> "enqueue", job |-> h.job] /\ h.job \in Copy
           /\ h.pc = "limit" => h = [pc |-> "limit", n |-> h.n] /\ h.n \in Limits
           /\ h.pc \in WithdrawPcs =>
                /\ h.id \in Jobs /\ h.kind \in {"Cancel", "Remove"}
                /\ \A pc \in WithdrawPcs : [h EXCEPT !.pc = pc] \in HandlerState
           /\ h.pc = "files" => h.id \in Jobs /\ h.plan \in Plans
  BY DEF HandlerState, WithdrawPcs, AtRest

LEMMA HandlersAreHandlers ==
    /\ AtRest \in HandlerState
    /\ \A job \in Copy : [pc |-> "enqueue", job |-> job] \in HandlerState
    /\ \A n \in Limits : [pc |-> "limit", n |-> n] \in HandlerState
    /\ \A j \in Jobs, kind \in {"Cancel", "Remove"} :
            [pc |-> "check", kind |-> kind, id |-> j] \in HandlerState
    /\ \A j \in Jobs, plan \in Plans : [pc |-> "files", id |-> j, plan |-> plan] \in HandlerState
  BY DEF HandlerState

LEMMA ThenTyped ==
    ASSUME DaemonTypeOK, NEW c \in Clients, NEW h \in HandlerState, Then(c, h)
    PROVE  handler' \in [Clients -> HandlerState]
  BY DEF DaemonTypeOK, Then

LEMMA DeletePartsTyped ==
    ASSUME RunTypeOK, NEW j \in Jobs, NEW plan, DeleteParts(j, plan)
    PROVE  files' \in [Jobs -> SUBSET {"seg", "part"}]
  BY DEF RunTypeOK, DeleteParts

LEMMA DaemonSame == DaemonTypeOK /\ UNCHANGED daemonVars => DaemonTypeOK'
  BY DEF DaemonTypeOK, daemonVars, dbVars, requestVars, limitVars

LEMMA ConsumedFacts ==
    ASSUME RunTypeOK, NEW ev, ConsumeEvent(ev)
    PROVE  /\ events # <<>> /\ events \in Seq(Event) /\ Head(events) \in Event
           /\ Head(events).id \in Jobs /\ Head(events).ev = ev
           /\ ev \in {"Started", "Paused"} => Head(events).plan \in Plans
           /\ events' = Tail(events) /\ events' \in Seq(Event)
           /\ RunTypeOK'
<1>1. /\ events # <<>> /\ events \in Seq(Event) /\ Head(events).ev = ev
      /\ events' = Tail(events)
  BY DEF ConsumeEvent, RunTypeOK
<1>2. Head(events) \in Event /\ events' \in Seq(Event)
  BY <1>1, TailFacts
<1>3. RunTypeOK'
  BY <1>2 DEF ConsumeEvent, RunTypeOK
<1>4. QED
  BY <1>1, <1>2, <1>3, EventFacts

LEMMA ConsumerTyped ==
    ASSUME RunTypeOK, DaemonTypeOK, ConsumerStep
    PROVE  RunTypeOK' /\ DaemonTypeOK' /\ UNCHANGED <<schedVars, run, active, strays>>
<1>1. CASE ConsumeStarted \/ ConsumePaused
  <2>1. PICK ev \in {"Started", "Paused"}, s \in Statuses :
            /\ ConsumeEvent(ev)
            /\ SetPlanAndStatus(Head(events).id, Head(events).plan, s)
            /\ UNCHANGED <<cancelling, consumer>>
    BY <1>1, StatusFacts DEF ConsumeStarted, ConsumePaused
  <2>2. db' \in [Jobs -> Row \cup {NoRow}] /\ stale' \in SUBSET Jobs
    BY <2>1, ConsumedFacts, SetPlanTyped
  <2>3. QED
    BY <2>1, <2>2, ConsumedFacts DEF ConsumeEvent, DaemonTypeOK, requestVars, limitVars
<1>2. CASE ConsumeCompleted \/ ConsumeFailed
  <2>1. PICK ev \in {"Completed", "Failed"}, s \in Statuses :
            /\ ConsumeEvent(ev)
            /\ SetStatus(Head(events).id, s)
            /\ UNCHANGED <<cancelling, consumer>>
    BY <1>2, StatusFacts DEF ConsumeCompleted, ConsumeFailed
  <2>2. db' \in [Jobs -> Row \cup {NoRow}] /\ stale' \in SUBSET Jobs
    BY <2>1, ConsumedFacts, SetStatusTyped
  <2>3. QED
    BY <2>1, <2>2, ConsumedFacts DEF ConsumeEvent, DaemonTypeOK, requestVars, limitVars
<1>3. CASE ConsumeCancelled
  <2> DEFINE j == Head(events).id
  <2>1. ConsumeEvent("Paused") /\ SetStatus(j, "Cancelled")
        /\ cancelling' = cancelling \ {j}
        /\ consumer' = IF HasRow(j) THEN [pc |-> "files", id |-> j, plan |-> db[j].plan] ELSE AtRest
    BY <1>3 DEF ConsumeCancelled
  <2>2. j \in Jobs
    BY <2>1, ConsumedFacts
  <2>3. db' \in [Jobs -> Row \cup {NoRow}] /\ stale' \in SUBSET Jobs
    BY <2>1, <2>2, SetStatusTyped, StatusFacts
  <2>4. consumer' \in {AtRest} \cup [pc : {"files"}, id : Jobs, plan : Plans]
    BY <2>1, <2>2, RowFacts
  <2>5. QED
    BY <2>1, <2>3, <2>4, ConsumedFacts DEF ConsumeEvent, DaemonTypeOK, requestVars, limitVars
<1>4. CASE ConsumerDeletes
  <2>1. consumer.id \in Jobs
    BY <1>4 DEF ConsumerDeletes, DaemonTypeOK
  <2>2. files' \in [Jobs -> SUBSET {"seg", "part"}]
    BY <1>4, <2>1, DeletePartsTyped DEF ConsumerDeletes
  <2>3. QED
    BY <1>4, <2>2
    DEF ConsumerDeletes, DaemonTypeOK, RunTypeOK, dbVars, requestVars, limitVars
<1>5. CASE ConsumeProgress
  <2> DEFINE j == Head(events).id
  <2>1. ConsumeEvent("Progress") /\ db' = Updated(j, "Active")
        /\ stale' \in SUBSET (stale \cup {j}) /\ UNCHANGED <<cancelling, consumer>>
    BY <1>5 DEF ConsumeProgress
  <2>2. j \in Jobs
    BY <2>1, ConsumedFacts
  <2>3. db' \in [Jobs -> Row \cup {NoRow}]
    BY <2>1, <2>2, UpdatedTyped, StatusFacts
  <2>4. stale' \in SUBSET Jobs
    BY <2>1, <2>2 DEF DaemonTypeOK
  <2>5. QED
    BY <2>1, <2>3, <2>4, ConsumedFacts DEF ConsumeEvent, DaemonTypeOK, requestVars, limitVars
<1>6. QED
  BY <1>1, <1>2, <1>3, <1>4, <1>5 DEF ConsumerStep
-----------------------------------------------------------------------------
(* What a client's step does to the scheduler's channel and to the tasks:  *)
(* nothing, one command, one token cancelled, or part files deleted.       *)

SendsNothing == UNCHANGED <<schedVars, runVars>>
SendsCommand ==
    \E cmd \in Command :
        cmd.op # "SlotFreed" /\ ClientSend(cmd) /\ UNCHANGED <<sched, runVars>>
CancelsToken ==
    \E j \in Jobs : StopListed(j) /\ UNCHANGED <<schedVars, active, strays, events, files>>
DeletesParts ==
    \E j \in Jobs, plan \in Plans :
        DeleteParts(j, plan) /\ UNCHANGED <<schedVars, run, active, strays, events>>

TasksOK == SchedTypeOK /\ RunTypeOK /\ Room

LEMMA ClientTasks ==
    ASSUME TasksOK, TokenIsHeld, SendsNothing \/ SendsCommand \/ CancelsToken \/ DeletesParts
    PROVE  TasksOK' /\ SameTasks /\ NoneFreeing /\ UNCHANGED active
<1> USE DEF TasksOK
<1>1. CASE SendsNothing
  <2>1. UNCHANGED schedVars /\ UNCHANGED runVars
    BY <1>1 DEF SendsNothing
  <2>2. SameTasks /\ NoneFreeing /\ UNCHANGED active
    BY <2>1 DEF runVars, SameTasks, NoneFreeing, Busy
  <2>3. QED
    BY <2>1, <2>2, SchedSame, RunSame, SameTasksRoom
<1>2. CASE SendsCommand
  <2>1. PICK cmd \in Command : ClientSend(cmd) /\ UNCHANGED <<sched, runVars>>
    BY <1>2 DEF SendsCommand
  <2>2. UNCHANGED sched /\ UNCHANGED run /\ UNCHANGED runVars /\ UNCHANGED active
    BY <2>1 DEF runVars
  <2>3. SameTasks /\ NoneFreeing
    BY <2>2 DEF SameTasks, NoneFreeing, Busy
  <2>4. QED
    BY <2>1, <2>2, <2>3, ClientSendTyped, ClientSendRoom, RunSame
<1>3. CASE CancelsToken
  <2>1. PICK j \in Jobs : StopListed(j) /\ UNCHANGED <<schedVars, active, strays, events, files>>
    BY <1>3 DEF CancelsToken
  <2>2. active[j] # NoRun => Busy(active[j])
    BY DEF TokenIsHeld, RunningJob
  <2>3. UNCHANGED schedVars /\ UNCHANGED active
    BY <2>1
  <2>4. SameTasks /\ NoneFreeing
    BY <2>1, <2>2, StopBecomes
  <2>5. RunTypeOK'
    BY <2>1, <2>2, StopTyped
  <2>6. QED
    BY <2>3, <2>4, <2>5, SchedSame, SameTasksRoom
<1>4. CASE DeletesParts
  <2>1. PICK j \in Jobs, plan \in Plans :
            DeleteParts(j, plan) /\ UNCHANGED <<schedVars, run, active, strays, events>>
    BY <1>4 DEF DeletesParts
  <2>2. UNCHANGED schedVars /\ UNCHANGED active /\ UNCHANGED run
    BY <2>1
  <2>3. SameTasks /\ NoneFreeing
    BY <2>2 DEF SameTasks, NoneFreeing, Busy
  <2>4. RunTypeOK'
    BY <2>1, DeletePartsTyped DEF RunTypeOK
  <2>5. QED
    BY <2>2, <2>3, <2>4, SchedSame, SameTasksRoom
<1>5. QED
  BY <1>1, <1>2, <1>3, <1>4

LEMMA AddTyped ==
    ASSUME DaemonTypeOK, NEW c \in Clients, NEW j \in Jobs, NEW p \in Priorities,
           AddDownload(c, j, p)
    PROVE  DaemonTypeOK' /\ SendsNothing
<1>1. [id |-> j, priority |-> p, plan |-> "none"] \in Copy
  BY PlanFacts DEF Copy
<1>2. handler' \in [Clients -> HandlerState]
  BY <1>1, HandlersAreHandlers, ThenTyped DEF AddDownload
<1>3. [status |-> "Queued", priority |-> p, plan |-> "none"] \in Row
  BY PlanFacts, StatusFacts DEF Row
<1>4. db' \in [Jobs -> Row \cup {NoRow}]
  BY <1>3 DEF AddDownload, DaemonTypeOK
<1>5. QED
  BY <1>2, <1>4 DEF AddDownload, DaemonTypeOK, SendsNothing, dbVars, requestVars, limitVars

LEMMA RequestTyped ==
    ASSUME DaemonTypeOK, NEW c \in Clients, Request(c)
    PROVE  DaemonTypeOK' /\ (SendsNothing \/ SendsCommand \/ CancelsToken \/ DeletesParts)
<1>1. ASSUME NEW j \in Jobs, NEW p \in Priorities, ChangePriority(c, j, p)
      PROVE  DaemonTypeOK' /\ SendsCommand
  BY <1>1, CommandsAreCommands, DaemonSame DEF ChangePriority, SendsCommand, SetPriority
<1>2. ASSUME NEW j \in Jobs, Resume(c, j) \/ Retry(c, j)
      PROVE  DaemonTypeOK' /\ SendsNothing
  <2>1. CopyOf(j) \in Copy
    BY <1>2, CopyTyped DEF Resume, Retry
  <2>2. handler' \in [Clients -> HandlerState]
    BY <1>2, <2>1, HandlersAreHandlers, ThenTyped DEF Resume, Retry
  <2>3. db' \in [Jobs -> Row \cup {NoRow}] /\ stale' \in SUBSET Jobs
    BY <1>2, SetStatusTyped, StatusFacts DEF Resume, Retry, DaemonTypeOK, dbVars
  <2>4. QED
    BY <1>2, <2>2, <2>3
    DEF Resume, Retry, NoteCrossing, DaemonTypeOK, SendsNothing, dbVars, requestVars, limitVars
<1>3. ASSUME NEW j \in Jobs, Pause(c, j)
      PROVE  DaemonTypeOK' /\ CancelsToken
  BY <1>3, DaemonSame DEF Pause, CancelsToken
<1>4. ASSUME NEW j \in Jobs, Cancel(c, j) \/ Remove(c, j)
      PROVE  DaemonTypeOK' /\ SendsCommand
  <2>1. PICK kind \in {"Cancel", "Remove"} : Withdraw(c, j, kind)
    BY <1>4 DEF Cancel, Remove
  <2>2. handler' \in [Clients -> HandlerState]
    BY <2>1, HandlersAreHandlers, ThenTyped DEF Withdraw
  <2>3. QED
    BY <2>1, <2>2, CommandsAreCommands
    DEF Withdraw, NoteWithdrawal, DaemonTypeOK, SendsCommand, dbVars, requestVars, limitVars,
        RemovePending
<1>5. ASSUME NEW n \in Limits, UpdateSettings(c, n)
      PROVE  DaemonTypeOK' /\ SendsNothing
  <2>1. handler' \in [Clients -> HandlerState]
    BY <1>5, HandlersAreHandlers, ThenTyped DEF UpdateSettings
  <2>2. /\ savedMax' \in Limits /\ override' \in Overrides \cup {NoOverride}
        /\ chosen' \in Limits
    BY <1>5 DEF UpdateSettings, NoteChoice
  <2>3. contested' \in BOOLEAN
    BY <1>5 DEF UpdateSettings, NoteChoice, LimitOnItsWay
  <2>4. QED
    BY <1>5, <2>1, <2>2, <2>3
    DEF UpdateSettings, DaemonTypeOK, SendsNothing, dbVars, requestVars
<1>6. QED
  BY <1>1, <1>2, <1>3, <1>4, <1>5, AddTyped DEF Request

LEMMA HandlerStepTyped ==
    ASSUME DaemonTypeOK, NEW c \in Clients, HandlerStep(c)
    PROVE  DaemonTypeOK' /\ (SendsNothing \/ SendsCommand \/ CancelsToken \/ DeletesParts)
<1>0. handler[c] \in HandlerState /\ AtRest \in HandlerState
  BY HandlersAreHandlers DEF DaemonTypeOK
<1>1. CASE HandlerEnqueues(c)
  <2>1. handler[c].job \in Copy
    BY <1>0, <1>1, HandlerKinds DEF HandlerEnqueues
  <2>2. handler' \in [Clients -> HandlerState]
    BY <1>0, <1>1, ThenTyped DEF HandlerEnqueues
  <2>3. QED
    BY <1>1, <2>1, <2>2, CommandsAreCommands
    DEF HandlerEnqueues, DaemonTypeOK, SendsCommand, dbVars, requestVars, limitVars,
        Enqueue
<1>2. CASE HandlerSetsLimit(c)
  <2>1. handler[c].n \in Limits
    BY <1>0, <1>2, HandlerKinds DEF HandlerSetsLimit
  <2>2. handler' \in [Clients -> HandlerState]
    BY <1>0, <1>2, ThenTyped DEF HandlerSetsLimit
  <2>3. QED
    BY <1>2, <2>1, <2>2, CommandsAreCommands
    DEF HandlerSetsLimit, DaemonTypeOK, SendsCommand, dbVars, requestVars, limitVars,
        SetMaxConcurrent
<1>3. CASE WithdrawChecks(c)
  <2>1. PICK pc \in {"mark", "row"} : Then(c, [handler[c] EXCEPT !.pc = pc])
    BY <1>3 DEF WithdrawChecks
  <2>2. [handler[c] EXCEPT !.pc = pc] \in HandlerState
    BY <1>0, <1>3, HandlerKinds DEF WithdrawChecks, WithdrawPcs
  <2>3. handler' \in [Clients -> HandlerState]
    BY <2>1, <2>2, ThenTyped
  <2>4. QED
    BY <1>3, <2>3 DEF WithdrawChecks, DaemonTypeOK, SendsNothing, dbVars, requestVars, limitVars
<1>4. CASE WithdrawMarks(c)
  <2>1. handler[c].id \in Jobs /\ [handler[c] EXCEPT !.pc = "stop"] \in HandlerState
    BY <1>0, <1>4, HandlerKinds DEF WithdrawMarks, WithdrawPcs
  <2>2. handler' \in [Clients -> HandlerState]
    BY <1>4, <2>1, ThenTyped DEF WithdrawMarks
  <2>3. QED
    BY <1>4, <2>1, <2>2 DEF WithdrawMarks, DaemonTypeOK, SendsNothing, dbVars, requestVars,
                            limitVars
<1>5. CASE WithdrawStops(c)
  <2>1. handler[c].id \in Jobs /\ [handler[c] EXCEPT !.pc = "row"] \in HandlerState
    BY <1>0, <1>5, HandlerKinds DEF WithdrawStops, WithdrawPcs
  <2>2. handler' \in [Clients -> HandlerState]
    BY <1>0, <1>5, <2>1, ThenTyped DEF WithdrawStops
  <2>3. QED
    BY <1>5, <2>1, <2>2 DEF WithdrawStops, DaemonTypeOK, CancelsToken, dbVars, requestVars,
                            limitVars
<1>6. CASE WithdrawRow(c)
  <2> DEFINE j == handler[c].id
  <2>1. j \in Jobs
    BY <1>0, <1>6, HandlerKinds DEF WithdrawRow, WithdrawPcs
  <2>2. db' \in [Jobs -> Row \cup {NoRow}] /\ stale' \in SUBSET Jobs
    <3>1. CASE handler[c].kind = "Cancel"
      BY <1>6, <2>1, <3>1, SetStatusTyped, StatusFacts DEF WithdrawRow
    <3>2. CASE handler[c].kind # "Cancel"
      BY <1>6, <2>1, <3>2 DEF WithdrawRow, DaemonTypeOK
    <3>3. QED
      BY <3>1, <3>2
  <2> DEFINE h == IF HasRow(j) THEN [pc |-> "files", id |-> j, plan |-> db[j].plan] ELSE AtRest
  <2>3. h \in HandlerState
    BY <2>1, RowFacts, HandlersAreHandlers
  <2>4. Then(c, h)
    BY <1>6 DEF WithdrawRow
  <2>5. handler' \in [Clients -> HandlerState]
    BY <2>3, <2>4, ThenTyped
  <2>6. QED
    BY <1>6, <2>2, <2>5 DEF WithdrawRow, DaemonTypeOK, SendsNothing, dbVars, requestVars,
                            limitVars
<1>7. CASE WithdrawDeletes(c)
  <2>1. handler[c].id \in Jobs /\ handler[c].plan \in Plans
    BY <1>0, <1>7, HandlerKinds DEF WithdrawDeletes
  <2>2. handler' \in [Clients -> HandlerState]
    BY <1>0, <1>7, ThenTyped DEF WithdrawDeletes
  <2>3. QED
    BY <1>7, <2>1, <2>2 DEF WithdrawDeletes, DaemonTypeOK, DeletesParts, dbVars, requestVars,
                            limitVars
<1>8. QED
  BY <1>1, <1>2, <1>3, <1>4, <1>5, <1>6, <1>7 DEF HandlerStep
-----------------------------------------------------------------------------
(* The invariant: types, room for every start, and who holds a token. A    *)
(* token is cancelled by a write to the run it belongs to, so the types    *)
(* need TokenIsHeld; a start needs Room.                                   *)

Inv == TasksOK /\ DaemonTypeOK /\ TokenIsHeld

LEMMA TokenSame ==
    ASSUME RunTypeOK, TokenIsHeld, SameTasks, NoneFreeing, UNCHANGED active
    PROVE  TokenIsHeld'
<1> SUFFICES ASSUME NEW j \in Jobs, active'[j] # NoRun
             PROVE  /\ run'[active'[j]] # Idle /\ run'[active'[j]].job = j
                    /\ run'[active'[j]].phase # "freeing"
  BY DEF TokenIsHeld, RunningJob, Busy
<1>1. PICK r \in Runs : active[j] = r /\ active'[j] = r
  BY DEF RunTypeOK
<1>2. Busy(r) /\ run[r].job = j /\ run[r].phase # "freeing"
  BY <1>1 DEF TokenIsHeld, RunningJob
<1>3. Busy(r)' /\ run'[r].job = j /\ run'[r].phase # "freeing"
  BY <1>2 DEF SameTasks, NoneFreeing
<1>4. QED
  BY <1>1, <1>3 DEF Busy

(* The same for a step that takes a token off the list, lists an idle run  *)
(* or ends a run that is not listed.                                       *)
LEMMA TokenMoved ==
    ASSUME RunTypeOK, TokenIsHeld, NEW r \in Runs,
           \A k \in Runs \ {r} : run'[k] = run[k],
           \A j \in Jobs : active'[j] # NoRun =>
              \/ active'[j] = active[j] /\ active[j] # r
              \/ active'[j] = r /\ run'[r] # Idle /\ run'[r].job = j /\ run'[r].phase # "freeing"
    PROVE  TokenIsHeld'
<1> SUFFICES ASSUME NEW j \in Jobs, active'[j] # NoRun
             PROVE  /\ run'[active'[j]] # Idle /\ run'[active'[j]].job = j
                    /\ run'[active'[j]].phase # "freeing"
  BY DEF TokenIsHeld, RunningJob, Busy
<1>1. CASE active'[j] = active[j] /\ active[j] # r
  <2>1. PICK k \in Runs \ {r} : active[j] = k /\ active'[j] = k
    BY <1>1 DEF RunTypeOK
  <2>2. Busy(k) /\ run[k].job = j /\ run[k].phase # "freeing"
    BY <2>1 DEF TokenIsHeld, RunningJob
  <2>3. run'[k] # Idle /\ run'[k].job = j /\ run'[k].phase # "freeing"
    BY <2>2 DEF Busy
  <2>4. QED
    BY <2>1, <2>3 DEF Busy
<1>2. CASE active'[j] = r /\ run'[r] # Idle /\ run'[r].job = j /\ run'[r].phase # "freeing"
  BY <1>2 DEF Busy
<1>3. QED
  BY <1>1, <1>2

LEMMA StartToken ==
    ASSUME SchedTypeOK, RunTypeOK, Room, TokenIsHeld, NEW q \in pending, StartDownload(q)
    PROVE  TokenIsHeld'
<1>1. PICK r \in Runs :
          /\ ~ Busy(r)
          /\ run' = [run EXCEPT ![r] =
                        [phase |-> "begin", job |-> q.job.id, plan |-> q.job.plan,
                         multi |-> FALSE, tries |-> 0, stop |-> FALSE]]
          /\ active' = [active EXCEPT ![q.job.id] = r]
  BY StartFacts
<1>2. q.job.id \in Jobs
  BY DispatchTyped DEF StartDownload, Copy
<1>3. \A k \in Runs \ {r} : run'[k] = run[k]
  BY <1>1 DEF RunTypeOK
<1>4. run'[r] # Idle /\ run'[r].job = q.job.id /\ run'[r].phase # "freeing"
  <2>1. run'[r].phase = "begin" /\ run'[r].job = q.job.id
    BY <1>1 DEF RunTypeOK
  <2>2. QED
    BY <2>1 DEF Idle
<1>5. \A j \in Jobs : active[j] # NoRun => active[j] # r
  BY <1>1 DEF TokenIsHeld, RunningJob
<1>6. \A j \in Jobs : active'[j] = IF j = q.job.id THEN r ELSE active[j]
  BY <1>1, <1>2 DEF RunTypeOK
<1>7. QED
  BY <1>3, <1>4, <1>5, <1>6, TokenMoved

LEMMA UnlistToken ==
    ASSUME RunTypeOK, TokenIsHeld, NEW r \in Runs, Unlist(r)
    PROVE  TokenIsHeld'
<1>1. \A k \in Runs \ {r} : run'[k] = run[k]
  BY UnlistBecomes
<1>2. run[r].job \in Jobs
  BY RunFacts DEF Unlist
<1>3. \A j \in Jobs : active'[j] = IF j = run[r].job THEN NoRun ELSE active[j]
  BY <1>2 DEF Unlist, RunTypeOK
<1>4. \A j \in Jobs : active[j] # NoRun /\ j # run[r].job => active[j] # r
  BY DEF TokenIsHeld, RunningJob
<1>5. QED
  BY <1>1, <1>3, <1>4, TokenMoved

LEMMA FreeToken ==
    ASSUME RunTypeOK, TokenIsHeld, NEW r \in Runs, FreeSlot(r)
    PROVE  TokenIsHeld'
<1>1. \A k \in Runs \ {r} : run'[k] = run[k]
  BY DEF FreeSlot, RunTypeOK
<1>2. \A j \in Jobs : active'[j] = active[j] /\ (active[j] # NoRun => active[j] # r)
  BY DEF FreeSlot, TokenIsHeld
<1>3. QED
  BY <1>1, <1>2, TokenMoved

LEMMA ConfiguredFacts ==
    \A n \in Limits, forced \in Overrides \cup {NoOverride} : Configured(n, forced) \in Limits
  BY OverridesAssumption DEF Configured

LEMMA InitInv == Init => Inv
<1> SUFFICES ASSUME Init PROVE Inv
  OBVIOUS
<1>1. SchedTypeOK
  <2>1. max \in Nat \ {0}
    BY AtLeastOnePositive, ConfiguredFacts DEF Init
  <2>2. QED
    BY <2>1, MaxSendsAssumption DEF Init, SchedInit, SchedTypeOK
<1>2. RunTypeOK
  BY DEF Init, RunInit, RunTypeOK
<1>3. DaemonTypeOK
  <2>1. restarts \in 0 .. MaxRestarts /\ handler \in [Clients -> HandlerState]
    BY MaxRestartsAssumption, HandlersAreHandlers DEF Init
  <2>2. /\ savedMax \in Limits /\ override \in Overrides \cup {NoOverride}
        /\ chosen \in Limits /\ contested \in BOOLEAN
    BY DEF Init
  <2>3. QED
    BY <2>1, <2>2 DEF Init, DaemonTypeOK
<1>4. TokenIsHeld
  BY DEF Init, RunInit, TokenIsHeld
<1>5. Room
  <2>1. BusyRuns = {} /\ pending = {} /\ Enqueues = {} /\ sent = 0
    BY DEF Init, SchedInit, RunInit, BusyRuns, Busy, Enqueues
  <2>2. QED
    BY <2>1, FS_EmptySet DEF Room
<1>6. QED
  BY <1>1, <1>2, <1>3, <1>4, <1>5 DEF Inv, TasksOK

LEMMA SchedulerInv == Inv /\ SchedulerStep => Inv'
<1> SUFFICES ASSUME TasksOK, DaemonTypeOK, TokenIsHeld, SchedulerStep PROVE Inv'
  BY DEF Inv
<1> USE DEF TasksOK
<1>1. CASE /\ RecvEnqueue \/ RecvSlotFreed \/ RecvSetMaxConcurrent \/ RecvRemovePending
           /\ UNCHANGED <<runVars, daemonVars>>
  <2>1. UNCHANGED runVars /\ UNCHANGED daemonVars /\ UNCHANGED run /\ UNCHANGED active
    BY <1>1 DEF runVars
  <2>2. SchedTypeOK'
    BY <1>1, RecvEnqueueTyped, RecvSlotFreedTyped, RecvSetMaxTyped, RecvRemoveTyped
  <2>3. Room'
    BY <1>1, <2>1, RecvRoom
  <2>4. TokenIsHeld'
    BY <2>1 DEF TokenIsHeld, RunningJob, Busy
  <2>5. QED
    BY <2>1, <2>2, <2>3, <2>4, RunSame, DaemonSame DEF Inv
<1>2. CASE DispatchDone /\ UNCHANGED <<runVars, daemonVars>>
  <2>1. UNCHANGED runVars /\ UNCHANGED daemonVars /\ UNCHANGED run /\ UNCHANGED active
    BY <1>2 DEF runVars
  <2>2. SchedTypeOK'
    BY <1>2, DispatchDoneTyped
  <2>3. Room'
    <3>1. BusyRuns' = BusyRuns /\ Enqueues' = Enqueues
      BY <1>2, <2>1, SameBusy, SameEnqueues DEF Busy, DispatchDone
    <3>2. QED
      BY <1>2, <3>1 DEF Room, DispatchDone, sentVars
  <2>4. TokenIsHeld'
    BY <2>1 DEF TokenIsHeld, RunningJob, Busy
  <2>5. QED
    BY <2>1, <2>2, <2>3, <2>4, RunSame, DaemonSame DEF Inv
<1>3. CASE SchedulerSetsPriority
  <2>1. RecvSetPriority /\ UNCHANGED runVars
        /\ UNCHANGED <<stale, requestVars, limitVars, cancelling, consumer, handler, restarts>>
    BY <1>3 DEF SchedulerSetsPriority
  <2>2. UNCHANGED run /\ UNCHANGED active
    BY <2>1 DEF runVars
  <2>3. SchedTypeOK' /\ Room'
    BY <2>1, <2>2, RecvSetPriorityTyped, RecvRoom
  <2>4. TokenIsHeld'
    BY <2>2 DEF TokenIsHeld, RunningJob, Busy
  <2>5. DaemonTypeOK'
    <3> DEFINE c == Head(cmds)
    <3>1. c.id \in Jobs /\ c.priority \in Priorities
      BY <2>1, ReceivedFacts, CommandKinds DEF RecvSetPriority
    <3>2. db' = IF HasRow(c.id) THEN [db EXCEPT ![c.id].priority = c.priority] ELSE db
      BY <1>3 DEF SchedulerSetsPriority
    <3>3. HasRow(c.id) => [db[c.id] EXCEPT !.priority = c.priority] \in Row
      BY <3>1, RowFacts DEF Row
    <3>4. db' \in [Jobs -> Row \cup {NoRow}]
      BY <3>1, <3>2, <3>3 DEF DaemonTypeOK
    <3>5. QED
      BY <2>1, <3>4 DEF DaemonTypeOK, requestVars, limitVars
  <2>6. QED
    BY <2>1, <2>3, <2>4, <2>5, RunSame DEF Inv
<1>4. CASE SchedulerStarts
  <2>1. PICK q \in pending : StartDownload(q)
    BY <1>4 DEF SchedulerStarts
  <2>2. UNCHANGED daemonVars
    BY <1>4 DEF SchedulerStarts
  <2>3. QED
    BY <2>1, <2>2, StartTyped, StartRoom, StartToken, DaemonSame DEF Inv
<1>5. QED
  BY <1>1, <1>2, <1>3, <1>4 DEF SchedulerStep

(* A run of a job whose row is gone keeps the plan it has.                 *)
LEMMA RetryFacts ==
    ASSUME RunTypeOK, DaemonTypeOK, NEW r \in Runs, RetryRun(r)
    PROVE  \E plan \in Plans : BackoffOver(r, plan)
<1>1. run[r].job \in Jobs /\ run[r].plan \in Plans
  BY RunFacts DEF RetryRun, BackoffOver
<1>2. QED
  BY <1>1, RowFacts DEF RetryRun

RunSteps(r) == LocalStep(r) \/ HeaderStep(r) \/ BodyStep(r)

LEMMA RunStepKinds ==
    ASSUME RunTypeOK, DaemonTypeOK, NEW r \in Runs, RunSteps(r)
    PROVE  /\ UNCHANGED daemonVars
           /\ \/ \/ BeginResume(r) \/ ProbeAnswers(r) \/ GetAnswers(r) \/ GetFails(r)
                 \/ OpenFails(r) \/ BodyEnds(r) \/ BodyFails(r) \/ BodyStops(r) \/ Join(r)
                 \/ Assemble(r) \/ AssembleFails(r) \/ GiveUp(r) \/ Backoff(r)
                 \/ BackoffStops(r) \/ \E plan \in Plans : BackoffOver(r, plan)
              \/ Unlist(r)
              \/ FreeSlot(r)
  BY RetryFacts DEF RunSteps, LocalStep, HeaderStep, BodyStep

LEMMA RunInv ==
    ASSUME Inv, NEW r \in Runs, RunSteps(r)
    PROVE  Inv'
<1> SUFFICES ASSUME TasksOK, DaemonTypeOK, TokenIsHeld PROVE Inv'
  BY DEF Inv
<1> USE DEF TasksOK
<1>0. DaemonTypeOK'
  BY RunStepKinds, DaemonSame
<1>1. CASE \/ BeginResume(r) \/ ProbeAnswers(r) \/ GetAnswers(r) \/ GetFails(r)
           \/ OpenFails(r) \/ BodyEnds(r) \/ BodyFails(r) \/ BodyStops(r) \/ Join(r)
           \/ Assemble(r) \/ AssembleFails(r) \/ GiveUp(r) \/ Backoff(r)
           \/ BackoffStops(r) \/ \E plan \in Plans : BackoffOver(r, plan)
  <2>1. SameTasks /\ NoneFreeing /\ UNCHANGED <<schedVars, active>>
    BY <1>1, RunStepBecomes
  <2>2. RunTypeOK'
    BY <1>1, RunStepTyped
  <2>3. QED
    BY <1>0, <2>1, <2>2, SchedSame, SameTasksRoom, TokenSame DEF Inv
<1>2. CASE Unlist(r)
  <2>1. SameTasks
    BY <1>2, UnlistBecomes
  <2>2. UNCHANGED schedVars
    BY <1>2 DEF Unlist
  <2>3. RunTypeOK'
    BY <1>2, RunStepTyped
  <2>4. QED
    BY <1>0, <1>2, <2>1, <2>2, <2>3, SchedSame, SameTasksRoom, UnlistToken DEF Inv
<1>3. CASE FreeSlot(r)
  BY <1>0, <1>3, FreeSlotTyped, FreeRoom, FreeToken DEF Inv
<1>4. QED
  BY <1>1, <1>2, <1>3, RunStepKinds

LEMMA TickerInv == Inv /\ TickerStep => Inv'
<1> SUFFICES ASSUME TasksOK, DaemonTypeOK, TokenIsHeld, TickerStep PROVE Inv'
  BY DEF Inv
<1> USE DEF TasksOK
<1>1. UNCHANGED schedVars /\ UNCHANGED run /\ UNCHANGED active /\ UNCHANGED daemonVars
  BY DEF TickerStep, RunTick, StrayTick
<1>2. RunTypeOK'
  BY TickTyped DEF TickerStep
<1>3. SameTasks /\ NoneFreeing
  BY <1>1 DEF SameTasks, NoneFreeing, Busy
<1>4. QED
  BY <1>1, <1>2, <1>3, SchedSame, SameTasksRoom, TokenSame, DaemonSame DEF Inv

LEMMA ConsumerInv == Inv /\ ConsumerStep => Inv'
<1> SUFFICES ASSUME TasksOK, DaemonTypeOK, TokenIsHeld, ConsumerStep PROVE Inv'
  BY DEF Inv
<1> USE DEF TasksOK
<1>1. RunTypeOK' /\ DaemonTypeOK' /\ UNCHANGED <<schedVars, run, active, strays>>
  BY ConsumerTyped
<1>2. SameTasks /\ NoneFreeing
  BY <1>1 DEF SameTasks, NoneFreeing, Busy
<1>3. QED
  BY <1>1, <1>2, SchedSame, SameTasksRoom, TokenSame DEF Inv

LEMMA ClientInv ==
    ASSUME Inv, NEW c \in Clients, Request(c) \/ HandlerStep(c)
    PROVE  Inv'
<1>1. TasksOK /\ DaemonTypeOK /\ TokenIsHeld
  BY DEF Inv
<1>2. DaemonTypeOK' /\ (SendsNothing \/ SendsCommand \/ CancelsToken \/ DeletesParts)
  BY <1>1, RequestTyped, HandlerStepTyped
<1>3. TasksOK' /\ SameTasks /\ NoneFreeing /\ UNCHANGED active
  BY <1>1, <1>2, ClientTasks
<1>4. QED
  BY <1>1, <1>2, <1>3, TokenSame DEF Inv, TasksOK

LEMMA RestartInv == Inv /\ Restart => Inv'
<1> SUFFICES ASSUME TasksOK, DaemonTypeOK, Restart PROVE Inv'
  BY DEF Inv
<1> USE DEF TasksOK
<1>1. SchedTypeOK'
  <2>1. max' \in Nat \ {0}
    BY AtLeastOnePositive, ConfiguredFacts DEF Restart, Reborn, DaemonTypeOK
  <2>2. QED
    BY <2>1 DEF Restart, Reborn, SchedTypeOK
<1>2. RunTypeOK'
  BY DEF Restart, Reborn, RunTypeOK
<1>3. DaemonTypeOK'
  <2>1. restarts' \in 0 .. MaxRestarts
    BY MaxRestartsAssumption DEF Restart, Reborn, DaemonTypeOK
  <2>2. handler' \in [Clients -> HandlerState]
    BY HandlersAreHandlers DEF Restart, Reborn
  <2>3. QED
    BY <2>1, <2>2 DEF Restart, Reborn, DaemonTypeOK
<1>4. TokenIsHeld'
  BY DEF Restart, Reborn, TokenIsHeld
<1>5. Room'
  <2>1. BusyRuns' = {} /\ pending' = {} /\ Enqueues' = {} /\ sent' = sent
    BY DEF Restart, Reborn, BusyRuns, Busy, Enqueues
  <2>2. sent \in Nat
    BY MaxSendsAssumption DEF SchedTypeOK
  <2>3. QED
    BY <2>1, <2>2, FS_EmptySet DEF Room
<1>6. QED
  BY <1>1, <1>2, <1>3, <1>4, <1>5 DEF Inv

LEMMA NextInv == Inv /\ [Next]_vars => Inv'
<1> SUFFICES ASSUME Inv, [Next]_vars PROVE Inv'
  OBVIOUS
<1>1. CASE UNCHANGED vars
  <2>1. UNCHANGED schedVars /\ UNCHANGED runVars /\ UNCHANGED daemonVars
    BY <1>1 DEF vars
  <2>2. SendsNothing
    BY <2>1 DEF SendsNothing
  <2>3. QED
    BY <2>1, <2>2, ClientTasks, TokenSame, DaemonSame DEF Inv, TasksOK
<1>2. CASE Next
  BY <1>2, SchedulerInv, RunInv, TickerInv, ConsumerInv, ClientInv, RestartInv
  DEF Next, RunSteps
<1>3. QED
  BY <1>1, <1>2

LEMMA InvAlways == Spec => []Inv
  BY InitInv, NextInv, PTL DEF Spec

(* Every command, event, row, task and half-finished request is one the    *)
(* code can make, and a start finds a task: whatever the clients send.     *)
THEOREM TypeCorrect == Spec => []TypeOK
<1>1. Inv => TypeOK
  BY TypeParts DEF Inv, TasksOK
<1>2. QED
  BY <1>1, InvAlways, PTL

(* A listed token belongs to a task that will take it off the list again,  *)
(* through every interleaving of pause, cancel, restart and retry.         *)
THEOREM TokenHeld == Spec => []TokenIsHeld
<1>1. Inv => TokenIsHeld
  BY DEF Inv
<1>2. QED
  BY <1>1, InvAlways, PTL
-----------------------------------------------------------------------------
(* Removed rows. Only AddDownload inserts one, and never an identifier     *)
(* that was handed out before.                                             *)

NeverBack == \A j \in used : ~ HasRow(j) => ~ HasRow(j)'

LEMMA NoRowKept ==
    ASSUME DaemonTypeOK, NEW j \in Jobs, ~ HasRow(j), NEW k \in Jobs, NEW s, NEW plan,
           db' = Updated(k, s) \/ SetPlanAndStatus(k, plan, s)
    PROVE  ~ HasRow(j)'
<1>1. CASE HasRow(k)
  <2>1. j # k
    BY <1>1
  <2>2. db'[j] = db[j]
    BY <1>1, <2>1 DEF Updated, SetPlanAndStatus, DaemonTypeOK
  <2>3. QED
    BY <2>2 DEF HasRow
<1>2. CASE ~ HasRow(k)
  BY <1>2 DEF Updated, SetPlanAndStatus, HasRow
<1>3. QED
  BY <1>1, <1>2

LEMMA ConsumerNeverBack == Inv /\ ConsumerStep => NeverBack
<1> SUFFICES ASSUME RunTypeOK, DaemonTypeOK, ConsumerStep, NEW j \in used, ~ HasRow(j)
             PROVE  ~ HasRow(j)'
  BY DEF Inv, TasksOK, NeverBack
<1>0. j \in Jobs
  BY DEF DaemonTypeOK
<1>1. CASE ConsumerDeletes
  BY <1>1 DEF ConsumerDeletes, HasRow, dbVars
<1>2. CASE \/ ConsumeStarted \/ ConsumePaused \/ ConsumeProgress \/ ConsumeCancelled
           \/ ConsumeCompleted \/ ConsumeFailed
  <2>1. PICK ev, s :
            /\ ConsumeEvent(ev)
            /\ \/ db' = Updated(Head(events).id, s)
               \/ SetPlanAndStatus(Head(events).id, Head(events).plan, s)
    BY <1>2 DEF ConsumeStarted, ConsumePaused, ConsumeProgress, ConsumeCancelled,
                ConsumeCompleted, ConsumeFailed, SetStatus
  <2>2. Head(events).id \in Jobs
    BY <2>1, ConsumedFacts
  <2>3. QED
    BY <1>0, <2>1, <2>2, NoRowKept
<1>3. QED
  BY <1>1, <1>2 DEF ConsumerStep

LEMMA ClientNeverBack ==
    ASSUME Inv, NEW c \in Clients, Request(c) \/ HandlerStep(c)
    PROVE  NeverBack
<1> SUFFICES ASSUME DaemonTypeOK, NEW j \in used, ~ HasRow(j) PROVE ~ HasRow(j)'
  BY DEF Inv, NeverBack
<1>0. j \in Jobs /\ db \in [Jobs -> Row \cup {NoRow}] /\ handler[c] \in HandlerState
  BY DEF DaemonTypeOK
<1>1. ASSUME NEW k \in Jobs, NEW p \in Priorities, AddDownload(c, k, p) PROVE ~ HasRow(j)'
  BY <1>0, <1>1 DEF AddDownload, HasRow
<1>2. ASSUME NEW k \in Jobs, Retry(c, k) PROVE ~ HasRow(j)'
  BY <1>0, <1>2, NoRowKept DEF Retry, SetStatus
<1>3. ASSUME WithdrawRow(c) PROVE ~ HasRow(j)'
  <2>1. handler[c].id \in Jobs
    BY <1>0, <1>3, HandlerKinds DEF WithdrawRow, WithdrawPcs
  <2>2. CASE handler[c].kind = "Cancel"
    BY <1>0, <1>3, <2>1, <2>2, NoRowKept DEF WithdrawRow, SetStatus
  <2>3. CASE handler[c].kind # "Cancel"
    BY <1>0, <1>3, <2>1, <2>3 DEF WithdrawRow, HasRow
  <2>4. QED
    BY <2>2, <2>3
<1>4. \/ \E k \in Jobs, p \in Priorities : AddDownload(c, k, p)
      \/ \E k \in Jobs : Retry(c, k)
      \/ WithdrawRow(c)
      \/ UNCHANGED db
  BY DEF Request, HandlerStep, ChangePriority, Resume, Pause, Cancel, Remove, Withdraw,
         UpdateSettings, HandlerEnqueues, HandlerSetsLimit, WithdrawChecks, WithdrawMarks,
         WithdrawStops, WithdrawDeletes, daemonVars, dbVars, requestVars, limitVars
<1>5. QED
  BY <1>1, <1>2, <1>3, <1>4 DEF HasRow

LEMMA NextNeverBack == Inv /\ [Next]_vars => NeverBack
<1> SUFFICES ASSUME Inv, [Next]_vars PROVE NeverBack
  OBVIOUS
<1>1. UNCHANGED db => NeverBack
  BY DEF NeverBack, HasRow
<1>2. CASE UNCHANGED vars
  BY <1>1, <1>2 DEF vars, daemonVars, dbVars, requestVars, limitVars
<1>3. CASE SchedulerStep
  <2>1. CASE SchedulerSetsPriority
    <3> SUFFICES ASSUME NEW j \in used, ~ HasRow(j) PROVE ~ HasRow(j)'
      BY DEF NeverBack
    <3>1. j \in Jobs /\ db \in [Jobs -> Row \cup {NoRow}]
      BY DEF Inv, DaemonTypeOK
    <3>2. Head(cmds).id \in Jobs
      BY <2>1, ReceivedFacts, CommandKinds DEF Inv, TasksOK, SchedulerSetsPriority,
                                               RecvSetPriority
    <3>3. QED
      BY <2>1, <3>1, <3>2 DEF SchedulerSetsPriority, HasRow
  <2>2. CASE ~ SchedulerSetsPriority
    BY <1>1, <1>3, <2>2 DEF SchedulerStep, SchedulerStarts, daemonVars, dbVars, requestVars,
                            limitVars
  <2>3. QED
    BY <2>1, <2>2
<1>4. ASSUME NEW r \in Runs, RunSteps(r) PROVE NeverBack
  BY <1>1, <1>4 DEF RunSteps, LocalStep, HeaderStep, BodyStep, daemonVars, dbVars, requestVars,
                    limitVars
<1>5. CASE TickerStep
  BY <1>1, <1>5 DEF TickerStep, daemonVars, dbVars, requestVars, limitVars
<1>6. CASE Restart
  BY <1>1, <1>6 DEF Restart, Reborn
<1>7. QED
  BY <1>2, <1>3, <1>4, <1>5, <1>6, ConsumerNeverBack, ClientNeverBack DEF Next, RunSteps

(* A removed row never comes back, however late the events, commands and   *)
(* handlers that still speak of the job, over any number of restarts.      *)
THEOREM RemovedForGood == Spec => RemovedStaysRemoved
<1>1. RemovedStaysRemoved <=> [][NeverBack]_vars
  BY DEF RemovedStaysRemoved, NeverBack
<1>2. QED
  BY <1>1, InvAlways, NextNeverBack, PTL DEF Spec
-----------------------------------------------------------------------------
(* The limit in force. When the last limit was saved with no other on its  *)
(* way, one handler at most owes a command, the one that carries it; no    *)
(* command for another limit follows it in the channel.                    *)

NoLimit == \A i \in DOMAIN cmds : cmds[i].op # "SetMaxConcurrent"
LastLimit(n) ==
    \E i \in DOMAIN cmds :
        /\ cmds[i] = SetMaxConcurrent(n)
        /\ \A k \in DOMAIN cmds : k > i => cmds[k].op # "SetMaxConcurrent"
OwesLimit(c) == handler[c].pc = "limit"
Carried(n) ==
    \/ \E c \in Clients : OwesLimit(c)
    \/ LastLimit(n)
    \/ max = AtLeastOne(n) /\ NoLimit
Uncontested ==
    /\ \A c \in Clients : OwesLimit(c) => handler[c].n = chosen /\ override = NoOverride
    /\ \A c, d \in Clients : OwesLimit(c) /\ OwesLimit(d) => c = d
    /\ \A n \in Limits : Configured(chosen, override) = n => Carried(n)
LimitInv == savedMax = chosen /\ (contested \/ Uncontested)

LEMMA ReceivedLimit ==
    ASSUME SchedTypeOK, NEW op, Recv(op), NEW n
    PROVE  /\ NoLimit => NoLimit'
           /\ LastLimit(n) =>
                \/ LastLimit(n)'
                \/ op = "SetMaxConcurrent" /\ Head(cmds).n = n /\ NoLimit'
<1>1. /\ cmds \in Seq(Command) /\ cmds # <<>> /\ cmds' = Tail(cmds)
      /\ Head(cmds).op = op /\ Head(cmds) = cmds[1]
      /\ Len(cmds) \in Nat \ {0} /\ DOMAIN cmds = 1 .. Len(cmds)
      /\ DOMAIN cmds' = 1 .. Len(cmds) - 1
      /\ \A i \in 1 .. Len(cmds) - 1 : cmds'[i] = cmds[i + 1]
  BY ReceivedFacts, TailFacts
<1>2. NoLimit => NoLimit'
  BY <1>1 DEF NoLimit
<1>3. ASSUME LastLimit(n)
      PROVE  \/ LastLimit(n)'
             \/ op = "SetMaxConcurrent" /\ Head(cmds).n = n /\ NoLimit'
  <2>1. PICK i \in DOMAIN cmds :
            /\ cmds[i] = SetMaxConcurrent(n)
            /\ \A k \in DOMAIN cmds : k > i => cmds[k].op # "SetMaxConcurrent"
    BY <1>3 DEF LastLimit
  <2>2. CASE i = 1
    <3>1. op = "SetMaxConcurrent" /\ Head(cmds).n = n
      BY <1>1, <2>1, <2>2 DEF SetMaxConcurrent
    <3>2. NoLimit'
      BY <1>1, <2>1, <2>2 DEF NoLimit
    <3>3. QED
      BY <3>1, <3>2
  <2>3. CASE i # 1
    <3>1. i - 1 \in DOMAIN cmds' /\ cmds'[i - 1] = SetMaxConcurrent(n)
      BY <1>1, <2>1, <2>3
    <3>2. \A k \in DOMAIN cmds' : k > i - 1 => cmds'[k].op # "SetMaxConcurrent"
      BY <1>1, <2>1, <2>3
    <3>3. QED
      BY <3>1, <3>2 DEF LastLimit
  <2>4. QED
    BY <2>2, <2>3
<1>4. QED
  BY <1>2, <1>3

LEMMA SentLimit ==
    ASSUME SchedTypeOK, NEW cmd \in Command, Send(cmd), NEW n
    PROVE  /\ cmd.op # "SetMaxConcurrent" =>
                (NoLimit => NoLimit') /\ (LastLimit(n) => LastLimit(n)')
           /\ cmd = SetMaxConcurrent(n) => LastLimit(n)'
<1>1. /\ DOMAIN cmds = 1 .. Len(cmds) /\ Len(cmds) \in Nat
      /\ DOMAIN cmds' = 1 .. Len(cmds) + 1
      /\ \A i \in 1 .. Len(cmds) : cmds'[i] = cmds[i]
      /\ cmds'[Len(cmds) + 1] = cmd
  BY AppendFacts DEF SchedTypeOK, Send
<1>2. ASSUME cmd.op # "SetMaxConcurrent", NoLimit PROVE NoLimit'
  BY <1>1, <1>2 DEF NoLimit
<1>3. ASSUME cmd.op # "SetMaxConcurrent", LastLimit(n) PROVE LastLimit(n)'
  <2>1. PICK i \in DOMAIN cmds :
            /\ cmds[i] = SetMaxConcurrent(n)
            /\ \A k \in DOMAIN cmds : k > i => cmds[k].op # "SetMaxConcurrent"
    BY <1>3 DEF LastLimit
  <2>2. i \in DOMAIN cmds' /\ cmds'[i] = SetMaxConcurrent(n)
    BY <1>1, <2>1
  <2>3. \A k \in DOMAIN cmds' : k > i => cmds'[k].op # "SetMaxConcurrent"
    BY <1>1, <1>3, <2>1
  <2>4. QED
    BY <2>2, <2>3 DEF LastLimit
<1>4. ASSUME cmd = SetMaxConcurrent(n) PROVE LastLimit(n)'
  <2>1. Len(cmds) + 1 \in DOMAIN cmds' /\ cmds'[Len(cmds) + 1] = SetMaxConcurrent(n)
    BY <1>1, <1>4
  <2>2. \A k \in DOMAIN cmds' : ~ (k > Len(cmds) + 1)
    BY <1>1
  <2>3. QED
    BY <2>1, <2>2 DEF LastLimit
<1>5. QED
  BY <1>2, <1>3, <1>4

(* A step that neither owes, sends nor receives a limit.                   *)
LEMMA LimitKept ==
    ASSUME SchedTypeOK, LimitInv, UNCHANGED max, UNCHANGED limitVars,
           \A c \in Clients : handler'[c] = handler[c] \/ ~ (OwesLimit(c) \/ OwesLimit(c)'),
           \/ UNCHANGED cmds
           \/ \E op : op # "SetMaxConcurrent" /\ Recv(op)
           \/ \E cmd \in Command : cmd.op # "SetMaxConcurrent" /\ Send(cmd)
    PROVE  LimitInv'
<1>0. UNCHANGED <<savedMax, override, chosen, contested>>
  BY DEF limitVars
<1> SUFFICES ASSUME ~ contested PROVE Uncontested'
  BY <1>0 DEF LimitInv
<1> Uncontested
  BY DEF LimitInv
<1>1. \A c \in Clients : OwesLimit(c)' <=> OwesLimit(c)
  BY DEF OwesLimit
<1>2. \A c \in Clients : OwesLimit(c)' => handler'[c].n = chosen' /\ override' = NoOverride
  BY <1>0 DEF Uncontested, OwesLimit
<1>3. ASSUME NEW n \in Limits, Configured(chosen', override') = n PROVE Carried(n)'
  <2>1. Carried(n)
    BY <1>0, <1>3 DEF Uncontested
  <2>2. (NoLimit => NoLimit') /\ (LastLimit(n) => LastLimit(n)')
    <3>1. CASE UNCHANGED cmds
      BY <3>1 DEF NoLimit, LastLimit
    <3>2. CASE \E op : op # "SetMaxConcurrent" /\ Recv(op)
      BY <3>2, ReceivedLimit
    <3>3. CASE \E cmd \in Command : cmd.op # "SetMaxConcurrent" /\ Send(cmd)
      BY <3>3, SentLimit
    <3>4. QED
      BY <3>1, <3>2, <3>3
  <2>3. QED
    BY <1>1, <2>1, <2>2 DEF Carried
<1>4. QED
  BY <1>1, <1>2, <1>3 DEF Uncontested, Configured

LEMMA InitLimit == Init => LimitInv
  BY DEF Init, LimitInv, Uncontested, Carried, OwesLimit, NoLimit, AtRest, SchedInit

LEMMA SchedulerLimit == Inv /\ LimitInv /\ SchedulerStep => LimitInv'
<1> SUFFICES ASSUME Inv, SchedTypeOK, LimitInv, SchedulerStep PROVE LimitInv'
  BY DEF Inv, TasksOK
<1>1. UNCHANGED limitVars /\ UNCHANGED handler
  BY DEF SchedulerStep, SchedulerSetsPriority, SchedulerStarts, daemonVars
<1>2. CASE RecvSetMaxConcurrent
  <2>1. Recv("SetMaxConcurrent") /\ max' = AtLeastOne(Head(cmds).n)
    BY <1>2 DEF RecvSetMaxConcurrent
  <2>2. \A c \in Clients : OwesLimit(c)' <=> OwesLimit(c)
    BY <1>1 DEF OwesLimit
  <2>3. ASSUME Uncontested, NEW n \in Limits, Configured(chosen, override) = n
        PROVE  Carried(n)'
    <3>1. Carried(n)
      BY <2>3 DEF Uncontested
    <3>2. CASE \E c \in Clients : OwesLimit(c)
      BY <2>2, <3>2 DEF Carried
    <3>3. CASE LastLimit(n)
      BY <2>1, <3>3, ReceivedLimit DEF Carried
    <3>4. ~ NoLimit
      <4>1. cmds \in Seq(Command) /\ cmds # <<>> /\ Head(cmds).op = "SetMaxConcurrent"
        BY <2>1, ReceivedFacts
      <4>2. 1 \in DOMAIN cmds /\ cmds[1].op = "SetMaxConcurrent"
        BY <4>1, TailFacts
      <4>3. QED
        BY <4>2 DEF NoLimit
    <3>5. QED
      BY <3>1, <3>2, <3>3, <3>4 DEF Carried
  <2>4. QED
    BY <1>1, <2>2, <2>3 DEF LimitInv, Uncontested, Configured, OwesLimit, limitVars
<1>3. CASE ~ RecvSetMaxConcurrent
  <2>1. /\ UNCHANGED max
        /\ UNCHANGED cmds \/ \E op : op # "SetMaxConcurrent" /\ Recv(op)
    BY <1>3
    DEF SchedulerStep, SchedulerSetsPriority, SchedulerStarts, RecvEnqueue, RecvSlotFreed,
        RecvSetPriority, RecvRemovePending, DispatchDone, StartDownload, Dispatch
  <2>2. QED
    BY <1>1, <2>1, LimitKept
<1>4. QED
  BY <1>2, <1>3

LEMMA RunLimit ==
    ASSUME Inv, LimitInv, NEW r \in Runs, RunSteps(r)
    PROVE  LimitInv'
<1>0. SchedTypeOK /\ RunTypeOK /\ DaemonTypeOK
  BY DEF Inv, TasksOK
<1>1. UNCHANGED limitVars /\ UNCHANGED handler
  BY <1>0, RunStepKinds DEF daemonVars
<1>2. CASE FreeSlot(r)
  <2>1. SlotFreed(run[r].job) \in Command /\ SlotFreed(run[r].job).op # "SetMaxConcurrent"
    BY <1>0, <1>2, RunFacts, CommandsAreCommands DEF FreeSlot, SlotFreed
  <2>2. Send(SlotFreed(run[r].job)) /\ UNCHANGED max
    BY <1>2 DEF FreeSlot, sched
  <2>3. QED
    BY <1>0, <1>1, <2>1, <2>2, LimitKept
<1>3. CASE ~ FreeSlot(r)
  <2>1. UNCHANGED schedVars
    BY <1>0, <1>3, RunStepKinds, RunStepBecomes DEF Unlist
  <2>2. QED
    BY <1>0, <1>1, <2>1, LimitKept DEF schedVars, sentVars, sched
<1>4. QED
  BY <1>2, <1>3

(* A step of one connection leaves what the others are at.                 *)
LEMMA OtherHandlers ==
    ASSUME DaemonTypeOK, NEW c \in Clients, Request(c) \/ HandlerStep(c),
           NEW d \in Clients, d # c
    PROVE  handler'[d] = handler[d]
<1>1. UNCHANGED handler \/ \E h : Then(c, h)
  BY DEF Request, HandlerStep, AddDownload, ChangePriority, Resume, Retry, Pause, Cancel, Remove,
         Withdraw, UpdateSettings, HandlerEnqueues, HandlerSetsLimit, WithdrawChecks,
         WithdrawMarks, WithdrawStops, WithdrawRow, WithdrawDeletes, daemonVars
<1>2. QED
  BY <1>1 DEF Then, DaemonTypeOK

LEMMA ClientLimit ==
    ASSUME Inv, LimitInv, NEW c \in Clients, Request(c) \/ HandlerStep(c)
    PROVE  LimitInv'
<1>0. /\ SchedTypeOK /\ DaemonTypeOK /\ handler \in [Clients -> HandlerState]
      /\ \A d \in Clients \ {c} : handler'[d] = handler[d]
  BY OtherHandlers DEF Inv, TasksOK, DaemonTypeOK
<1>1. ASSUME NEW n \in Limits, UpdateSettings(c, n) PROVE LimitInv'
  <2>1. /\ savedMax' = n /\ chosen' = n /\ override' = NoOverride
        /\ contested' = LimitOnItsWay /\ handler'[c] = [pc |-> "limit", n |-> n]
    BY <1>0, <1>1 DEF UpdateSettings, NoteChoice, Then
  <2>2. handler'[c].pc = "limit" /\ handler'[c].n = n
    BY <2>1
  <2>3. ASSUME ~ LimitOnItsWay PROVE Uncontested'
    <3>1. \A d \in Clients : OwesLimit(d)' => d = c
      BY <1>0, <2>3 DEF LimitOnItsWay, OwesLimit
    <3>2. \A m \in Limits : Carried(m)'
      BY <2>2 DEF Carried, OwesLimit
    <3>3. QED
      BY <2>1, <2>2, <3>1, <3>2 DEF Uncontested, Configured
  <2>4. QED
    BY <2>1, <2>3 DEF LimitInv
<1>2. ASSUME HandlerSetsLimit(c) PROVE LimitInv'
  <2>0. /\ handler[c].pc = "limit" /\ handler' = [handler EXCEPT ![c] = AtRest]
        /\ UNCHANGED <<savedMax, override, chosen, contested>>
    BY <1>2 DEF HandlerSetsLimit, Then, limitVars
  <2> SUFFICES ASSUME ~ contested PROVE Uncontested'
    BY <2>0 DEF LimitInv
  <2>1. /\ handler[c].n = chosen /\ override = NoOverride /\ chosen \in Limits
        /\ \A d \in Clients : OwesLimit(d) => d = c
    BY <1>0, <2>0 DEF LimitInv, Uncontested, OwesLimit, DaemonTypeOK
  <2>2. Send(SetMaxConcurrent(chosen))
    BY <1>2, <2>1 DEF HandlerSetsLimit, ClientSend
  <2>3. ASSUME NEW n \in Limits, n = chosen PROVE LastLimit(n)'
    <3>1. Send(SetMaxConcurrent(n)) /\ SetMaxConcurrent(n) \in Command
      BY <2>2, <2>3, CommandsAreCommands DEF SetMaxConcurrent
    <3>2. QED
      BY <1>0, <3>1, SentLimit
  <2>4. \A d \in Clients : ~ OwesLimit(d)'
    BY <1>0, <2>0, <2>1 DEF OwesLimit, AtRest
  <2>5. Configured(chosen, override)' = chosen
    BY <2>0, <2>1 DEF Configured
  <2>6. QED
    BY <2>0, <2>3, <2>4, <2>5 DEF Uncontested, Carried
<1>3. CASE UNCHANGED handler \/ ~ (OwesLimit(c) \/ OwesLimit(c)')
  <2>1. \A d \in Clients : handler'[d] = handler[d] \/ ~ (OwesLimit(d) \/ OwesLimit(d)')
    BY <1>0, <1>3
  <2>2. SendsNothing \/ SendsCommand \/ CancelsToken \/ DeletesParts
    BY <1>0, RequestTyped, HandlerStepTyped
  <2>3. UNCHANGED max
    BY <2>2 DEF SendsNothing, SendsCommand, CancelsToken, DeletesParts, schedVars, sentVars, sched
  <2>4. ASSUME ~ HandlerSetsLimit(c)
        PROVE  UNCHANGED cmds \/ \E cmd \in Command : cmd.op # "SetMaxConcurrent" /\ Send(cmd)
    <3>1. CASE HandlerEnqueues(c)
      <4>1. handler[c].job \in Copy
        BY <1>0, <3>1, HandlerKinds DEF HandlerEnqueues
      <4>2. QED
        BY <3>1, <4>1, CommandsAreCommands DEF HandlerEnqueues, ClientSend, Enqueue
    <3>2. ASSUME NEW j \in Jobs, NEW p \in Priorities, ChangePriority(c, j, p)
          PROVE  \E cmd \in Command : cmd.op # "SetMaxConcurrent" /\ Send(cmd)
      BY <3>2, CommandsAreCommands DEF ChangePriority, ClientSend, SetPriority
    <3>3. ASSUME NEW j \in Jobs, Cancel(c, j) \/ Remove(c, j)
          PROVE  \E cmd \in Command : cmd.op # "SetMaxConcurrent" /\ Send(cmd)
      BY <3>3, CommandsAreCommands DEF Cancel, Remove, Withdraw, ClientSend, RemovePending
    <3>4. QED
      BY <2>4, <3>1, <3>2, <3>3
      DEF Request, HandlerStep, AddDownload, Resume, Retry, Pause, UpdateSettings, WithdrawChecks,
          WithdrawMarks, WithdrawStops, WithdrawRow, WithdrawDeletes, schedVars, sentVars
  <2>5. CASE ~ (\E n \in Limits : UpdateSettings(c, n)) /\ ~ HandlerSetsLimit(c)
    <3>1. UNCHANGED limitVars
      BY <2>5 DEF Request, HandlerStep, AddDownload, ChangePriority, Resume, Retry, Pause, Cancel,
                  Remove, Withdraw, HandlerEnqueues, WithdrawChecks, WithdrawMarks, WithdrawStops,
                  WithdrawRow, WithdrawDeletes, daemonVars
    <3>2. QED
      BY <1>0, <2>1, <2>3, <2>4, <2>5, <3>1, LimitKept
  <2>6. QED
    BY <1>1, <1>2, <2>5
<1>4. ASSUME ~ (\E n \in Limits : UpdateSettings(c, n)), ~ HandlerSetsLimit(c)
      PROVE  UNCHANGED handler \/ ~ (OwesLimit(c) \/ OwesLimit(c)')
  <2>1. ASSUME NEW h, Then(c, h), handler[c].pc # "limit", h.pc # "limit"
        PROVE  ~ (OwesLimit(c) \/ OwesLimit(c)')
    BY <1>0, <2>1 DEF Then, OwesLimit
  <2>2. CASE Request(c)
    <3>1. AtRest.pc # "limit"
      BY DEF AtRest
    <3>2. ASSUME NEW j \in Jobs, NEW p \in Priorities, AddDownload(c, j, p)
          PROVE  ~ (OwesLimit(c) \/ OwesLimit(c)')
      <4> DEFINE h == [pc |-> "enqueue", job |-> [id |-> j, priority |-> p, plan |-> "none"]]
      <4>1. handler[c] = AtRest /\ Then(c, h)
        BY <3>2 DEF AddDownload, Asks
      <4>2. QED
        BY <2>1, <3>1, <4>1
    <3>3. ASSUME NEW j \in Jobs, Resume(c, j) \/ Retry(c, j)
          PROVE  ~ (OwesLimit(c) \/ OwesLimit(c)')
      <4> DEFINE h == [pc |-> "enqueue", job |-> CopyOf(j)]
      <4>1. handler[c] = AtRest /\ Then(c, h)
        BY <3>3 DEF Resume, Retry, Asks
      <4>2. QED
        BY <2>1, <3>1, <4>1
    <3>4. ASSUME NEW j \in Jobs, NEW kind, Withdraw(c, j, kind)
          PROVE  ~ (OwesLimit(c) \/ OwesLimit(c)')
      <4> DEFINE h == [pc |-> "check", kind |-> kind, id |-> j]
      <4>1. handler[c] = AtRest /\ Then(c, h)
        BY <3>4 DEF Withdraw, Asks
      <4>2. QED
        BY <2>1, <3>1, <4>1
    <3>5. ASSUME NEW j \in Jobs, \/ Pause(c, j)
                                 \/ \E p \in Priorities : ChangePriority(c, j, p)
          PROVE  UNCHANGED handler
      BY <3>5 DEF Pause, ChangePriority, daemonVars, dbVars, requestVars, limitVars
    <3>6. QED
      BY <1>4, <2>2, <3>2, <3>3, <3>4, <3>5 DEF Request, Cancel, Remove
  <2>3. CASE HandlerStep(c)
    <3>1. handler[c].pc \in {"enqueue", "check", "mark", "stop", "row", "files"}
      BY <1>4, <2>3 DEF HandlerStep, HandlerEnqueues, WithdrawChecks, WithdrawMarks,
                        WithdrawStops,
                        WithdrawRow, WithdrawDeletes
    <3>2. PICK h : Then(c, h) /\ h.pc # "limit"
      <4>1. AtRest.pc # "limit"
        BY DEF AtRest
      <4>2. CASE HandlerEnqueues(c) \/ WithdrawDeletes(c)
        BY <4>1, <4>2 DEF HandlerEnqueues, WithdrawDeletes
      <4>3. CASE WithdrawChecks(c) \/ WithdrawMarks(c) \/ WithdrawStops(c)
        <5>1. handler[c].pc \in WithdrawPcs
          BY <4>3 DEF WithdrawChecks, WithdrawMarks, WithdrawStops, WithdrawPcs
        <5>2. \A pc \in {"mark", "stop", "row"} : [handler[c] EXCEPT !.pc = pc].pc = pc
          BY <1>0, <5>1 DEF HandlerState, WithdrawPcs, AtRest
        <5>3. \/ Then(c, AtRest)
              \/ \E pc \in {"mark", "stop", "row"} : Then(c, [handler[c] EXCEPT !.pc = pc])
          BY <4>3 DEF WithdrawChecks, WithdrawMarks, WithdrawStops
        <5>4. QED
          BY <4>1, <5>2, <5>3
      <4>4. CASE WithdrawRow(c)
        <5> DEFINE j == handler[c].id
                   f == [pc |-> "files", id |-> j, plan |-> db[j].plan]
        <5>1. Then(c, f) \/ Then(c, AtRest)
          BY <4>4 DEF WithdrawRow
        <5>2. QED
          BY <4>1, <5>1
      <4>5. QED
        BY <1>4, <2>3, <4>2, <4>3, <4>4 DEF HandlerStep
    <3>3. QED
      BY <2>1, <3>1, <3>2
  <2>4. QED
    BY <2>2, <2>3
<1>5. QED
  BY <1>1, <1>2, <1>3, <1>4

LEMMA NextLimit == Inv /\ LimitInv /\ [Next]_vars => LimitInv'
<1> SUFFICES ASSUME Inv, LimitInv, [Next]_vars PROVE LimitInv'
  OBVIOUS
<1>0. SchedTypeOK
  BY DEF Inv, TasksOK
<1>1. ASSUME UNCHANGED <<cmds, max, limitVars, handler>> PROVE LimitInv'
  BY <1>0, <1>1, LimitKept
<1>2. CASE UNCHANGED vars
  BY <1>1, <1>2 DEF vars, schedVars, sched, daemonVars
<1>3. CASE TickerStep
  BY <1>1, <1>3 DEF TickerStep, RunTick, StrayTick, schedVars, sched, daemonVars
<1>4. CASE ConsumerStep
  BY <1>1, <1>4
  DEF ConsumerStep, ConsumeStarted, ConsumeProgress, ConsumePaused, ConsumeCancelled,
      ConsumeCompleted, ConsumeFailed, ConsumerDeletes, ConsumeEvent, schedVars, sentVars, sched
<1>5. CASE Restart
  <2>1. /\ cmds' = <<>> /\ max' = AtLeastOne(Configured(savedMax, override'))
        /\ handler' = [c \in Clients |-> AtRest] /\ UNCHANGED <<savedMax, chosen>>
    BY <1>5 DEF Restart, Reborn
  <2>2. \A c \in Clients : ~ OwesLimit(c)'
    BY <2>1 DEF OwesLimit, AtRest
  <2>3. NoLimit'
    BY <2>1 DEF NoLimit
  <2>4. max' = AtLeastOne(Configured(chosen', override'))
    BY <2>1 DEF LimitInv
  <2>5. QED
    BY <2>1, <2>2, <2>3, <2>4 DEF LimitInv, Uncontested, Carried, Configured
<1>6. QED
  BY <1>2, <1>3, <1>4, <1>5, SchedulerLimit, RunLimit, ClientLimit DEF Next, RunSteps

(* The limit the scheduler applies is the one a client saved last, or the  *)
(* environment's since the last restart, or the command that carries it is *)
(* on its way: whatever the connections ask for and in whatever order, but *)
(* for a limit saved while another one was on its way.                     *)
THEOREM LimitHolds == Spec => []LimitInForce
<1>1. Inv /\ LimitInv => LimitInForce
  BY ConfiguredFacts
  DEF Inv, DaemonTypeOK, LimitInv, Uncontested, Carried, LastLimit, OwesLimit, LimitInForce,
      LimitOnItsWay, SetMaxConcurrent
<1>2. QED
  BY <1>1, InitLimit, NextLimit, InvAlways, PTL DEF Spec
-----------------------------------------------------------------------------
(* The refinement: the tasks of a job are the runs that module Scheduler   *)
(* counts for it.                                                          *)

TasksOf(j) == {r \in Runs : RunningJob(r, j)}

LEMMA TasksFinite ==
    ASSUME NEW j
    PROVE  IsFiniteSet(TasksOf(j)) /\ Cardinality(TasksOf(j)) \in Nat
<1>1. TasksOf(j) \in SUBSET Runs
  BY DEF TasksOf
<1>2. QED
  BY <1>1, RunsFinite, FS_Subset, FS_CardinalityType

LEMMA RunsOfIs ==
    /\ RunsOf = [j \in Jobs |-> Cardinality(TasksOf(j))]
    /\ RunsOf' = [j \in Jobs |-> Cardinality(TasksOf(j)')]
  BY DEF RunsOf, TasksOf

LEMMA SameTasksSameRuns == SameTasks => RunsOf' = RunsOf
<1> SUFFICES ASSUME SameTasks PROVE RunsOf' = RunsOf
  OBVIOUS
<1>1. \A j \in Jobs : TasksOf(j)' = TasksOf(j)
  BY DEF SameTasks, TasksOf, RunningJob
<1>2. QED
  BY <1>1, RunsOfIs

LEMMA StartRuns ==
    ASSUME SchedTypeOK, RunTypeOK, Room, NEW q \in pending, StartDownload(q)
    PROVE  RunsOf' = [RunsOf EXCEPT ![q.job.id] = @ + 1]
<1>1. PICK r \in Runs :
          /\ ~ Busy(r)
          /\ run' = [run EXCEPT ![r] =
                        [phase |-> "begin", job |-> q.job.id, plan |-> q.job.plan,
                         multi |-> FALSE, tries |-> 0, stop |-> FALSE]]
  BY StartFacts
<1>2. q.job.id \in Jobs
  BY DispatchTyped DEF StartDownload, Copy
<1>3. run'[r].phase = "begin" /\ run'[r].job = q.job.id /\ \A k \in Runs \ {r} : run'[k] = run[k]
  BY <1>1 DEF RunTypeOK
<1>4. run'[r] # Idle
  BY <1>3 DEF Idle
<1>5. ASSUME NEW j \in Jobs
      PROVE  Cardinality(TasksOf(j)') = Cardinality(TasksOf(j)) + (IF j = q.job.id THEN 1 ELSE 0)
  <2>1. CASE j = q.job.id
    <3>1. TasksOf(j)' = TasksOf(j) \cup {r}
      BY <1>3, <1>4, <2>1 DEF TasksOf, RunningJob, Busy
    <3>2. r \notin TasksOf(j)
      BY <1>1 DEF TasksOf, RunningJob
    <3>3. Cardinality(TasksOf(j) \cup {r}) = Cardinality(TasksOf(j)) + 1
      BY <3>2, TasksFinite, FS_AddElement
    <3>4. QED
      BY <2>1, <3>1, <3>3
  <2>2. CASE j # q.job.id
    <3>1. TasksOf(j)' = TasksOf(j)
      BY <1>1, <1>3, <2>2 DEF TasksOf, RunningJob, Busy
    <3>2. QED
      BY <2>2, <3>1, TasksFinite
  <2>3. QED
    BY <2>1, <2>2
<1>6. QED
  BY <1>2, <1>5, RunsOfIs, TasksFinite

LEMMA FreeRuns ==
    ASSUME RunTypeOK, NEW r \in Runs, FreeSlot(r)
    PROVE  /\ run[r].job \in Jobs /\ RunsOf[run[r].job] > 0
           /\ RunsOf' = [RunsOf EXCEPT ![run[r].job] = @ - 1]
<1> DEFINE job == run[r].job
<1>1. Busy(r) /\ job \in Jobs
  BY RunFacts DEF FreeSlot
<1>2. run'[r] = Idle /\ \A k \in Runs \ {r} : run'[k] = run[k]
  BY DEF FreeSlot, RunTypeOK
<1>3. r \in TasksOf(job)
  BY <1>1 DEF TasksOf, RunningJob
<1>4. Cardinality(TasksOf(job)) > 0
  BY <1>3, TasksFinite, FS_EmptySet
<1>5. ASSUME NEW j \in Jobs
      PROVE  Cardinality(TasksOf(j)') = Cardinality(TasksOf(j)) - (IF j = job THEN 1 ELSE 0)
  <2>1. TasksOf(j)' = TasksOf(j) \ {r}
    BY <1>2 DEF TasksOf, RunningJob, Busy
  <2>2. CASE j = job
    <3>1. Cardinality(TasksOf(j) \ {r}) = Cardinality(TasksOf(j)) - 1
      BY <1>3, <2>2, TasksFinite, FS_RemoveElement
    <3>2. QED
      BY <2>1, <2>2, <3>1
  <2>3. CASE j # job
    <3>1. TasksOf(j)' = TasksOf(j)
      BY <2>1, <2>3 DEF TasksOf, RunningJob
    <3>2. QED
      BY <2>3, <3>1, TasksFinite
  <2>4. QED
    BY <2>2, <2>3
<1>6. QED
  BY <1>1, <1>4, <1>5, RunsOfIs, TasksFinite

LEMMA AbstractStutter ==
    ASSUME UNCHANGED schedVars, RunsOf' = RunsOf
    PROVE  UNCHANGED Abstract!vars
  BY DEF schedVars, sentVars, sched, Abstract!vars, Abstract!schedVars, Abstract!sentVars,
         Abstract!sched

LEMMA SameVars ==
    /\ UNCHANGED schedVars <=> UNCHANGED Abstract!schedVars
    /\ UNCHANGED sched <=> UNCHANGED Abstract!sched
  BY DEF schedVars, sentVars, sched, Abstract!schedVars, Abstract!sentVars, Abstract!sched

LEMMA SameSize == \A S : Abstract!Cardinality(S) = Cardinality(S)
  BY Zenon DEF Cardinality, Abstract!Cardinality

LEMMA SameOutstanding == \A j : Outstanding(j) <=> Abstract!Outstanding(j)
  BY DEF Outstanding, EnqueueInChannel, IsQueued, InChannel, SlotFreed, Abstract!Outstanding,
         Abstract!EnqueueInChannel, Abstract!IsQueued, Abstract!InChannel, Abstract!SlotFreed

LEMMA SameMayStart == MayStart <=> Abstract!MayStart
  BY SameSize DEF MayStart, ScheduleOk, Abstract!MayStart, Abstract!ScheduleOk

LEMMA InitRefines == Init => Abstract!Init
<1> SUFFICES ASSUME Init PROVE Abstract!Init
  OBVIOUS
<1>1. Abstract!SchedInit /\ sent = 0 /\ doubled = {}
  BY DEF Init, SchedInit, Abstract!SchedInit, AtLeastOne, Abstract!AtLeastOne
<1>2. \A j \in Jobs : TasksOf(j) = {}
  BY DEF Init, RunInit, TasksOf, RunningJob, Busy
<1>3. RunsOf = [j \in Jobs |-> 0]
  BY <1>2, RunsOfIs, FS_EmptySet
<1>4. QED
  BY <1>1, <1>3 DEF Abstract!Init

LEMMA SchedulerRefines == Inv /\ SchedulerStep => Abstract!TaskStep
<1> SUFFICES ASSUME Inv, SchedulerStep PROVE Abstract!TaskStep
  OBVIOUS
<1>1. CASE \/ /\ RecvEnqueue \/ RecvSlotFreed \/ RecvSetMaxConcurrent \/ RecvRemovePending
              /\ UNCHANGED <<runVars, daemonVars>>
           \/ SchedulerSetsPriority
  <2>1. RunsOf' = RunsOf
    <3>1. UNCHANGED run
      BY <1>1 DEF SchedulerSetsPriority, runVars
    <3>2. SameTasks
      BY <3>1 DEF SameTasks, Busy
    <3>3. QED
      BY <3>2, SameTasksSameRuns
  <2>2. \/ RecvEnqueue \/ RecvSlotFreed \/ RecvSetMaxConcurrent \/ RecvRemovePending
        \/ RecvSetPriority
    BY <1>1 DEF SchedulerSetsPriority
  <2>3. CASE RecvEnqueue
    BY <2>1, <2>3 DEF RecvEnqueue, Recv, Push, sentVars, Abstract!TaskStep, Abstract!RecvSome,
                      Abstract!RecvEnqueue, Abstract!Recv, Abstract!Push, Abstract!sentVars
  <2>4. CASE RecvSlotFreed
    BY <2>1, <2>4 DEF RecvSlotFreed, Recv, sentVars, Abstract!TaskStep, Abstract!RecvSome,
                      Abstract!RecvSlotFreed, Abstract!Recv, Abstract!sentVars
  <2>5. CASE RecvSetMaxConcurrent
    BY <2>1, <2>5 DEF RecvSetMaxConcurrent, Recv, AtLeastOne, sentVars, Abstract!TaskStep,
                      Abstract!RecvSome, Abstract!RecvSetMaxConcurrent, Abstract!Recv,
                      Abstract!AtLeastOne, Abstract!sentVars
  <2>6. CASE RecvRemovePending
    BY <2>1, <2>6 DEF RecvRemovePending, Recv, sentVars, Abstract!TaskStep, Abstract!RecvSome,
                      Abstract!RecvRemovePending, Abstract!Recv, Abstract!sentVars
  <2>7. CASE RecvSetPriority
    BY <2>1, <2>7 DEF RecvSetPriority, Recv, Reprioritised, sentVars, Abstract!TaskStep,
                      Abstract!RecvSome, Abstract!RecvSetPriority, Abstract!Recv,
                      Abstract!Reprioritised, Abstract!sentVars
  <2>8. QED
    BY <2>2, <2>3, <2>4, <2>5, <2>6, <2>7
<1>2. CASE DispatchDone /\ UNCHANGED <<runVars, daemonVars>>
  <2>1. UNCHANGED run
    BY <1>2 DEF runVars
  <2>2. SameTasks
    BY <2>1 DEF SameTasks, Busy
  <2>3. RunsOf' = RunsOf
    BY <2>2, SameTasksSameRuns
  <2>4. QED
    BY <1>2, <2>3, SameMayStart
    DEF DispatchDone, sentVars, Abstract!TaskStep, Abstract!LeaveDispatch,
        Abstract!DispatchDone, Abstract!sentVars
<1>3. CASE SchedulerStarts
  <2>1. PICK q \in pending : StartDownload(q)
    BY <1>3 DEF SchedulerStarts
  <2>2. RunsOf' = [RunsOf EXCEPT ![q.job.id] = @ + 1]
    BY <2>1, StartRuns DEF Inv, TasksOK
  <2>3. Abstract!Dispatch(q)
    BY <2>1, SameMayStart
    DEF StartDownload, Dispatch, IsTop, Before, sentVars, Abstract!Dispatch, Abstract!IsTop,
        Abstract!Before, Abstract!sentVars
  <2>4. QED
    BY <2>2, <2>3 DEF Abstract!TaskStep, Abstract!StartSome, Abstract!Start
<1>4. QED
  BY <1>1, <1>2, <1>3 DEF SchedulerStep

LEMMA CommandRefines ==
    ASSUME NEW cmd \in Command, cmd.op # "SlotFreed", ClientSend(cmd), UNCHANGED sched,
           RunsOf' = RunsOf
    PROVE  Abstract!Next
<1>1. Abstract!ClientSend(cmd) /\ UNCHANGED Abstract!sched
  BY SameVars, SameOutstanding DEF ClientSend, Send, Abstract!ClientSend, Abstract!Send
<1>2. CASE cmd.op = "Enqueue"
  <2>1. cmd.job \in Abstract!Copy /\ cmd = Abstract!Enqueue(cmd.job)
    BY <1>2, CommandKinds DEF Copy, Enqueue, Abstract!Copy, Abstract!Enqueue
  <2>2. Abstract!ClientEnqueue(cmd.job)
    BY <1>1, <2>1 DEF Abstract!ClientEnqueue
  <2>3. QED
    BY <2>1, <2>2 DEF Abstract!Next
<1>3. CASE cmd.op = "SetMaxConcurrent"
  <2>1. cmd.n \in Limits /\ cmd = Abstract!SetMaxConcurrent(cmd.n)
    BY <1>3, CommandKinds DEF SetMaxConcurrent, Abstract!SetMaxConcurrent
  <2>2. Abstract!ClientSetMaxConcurrent
    BY <1>1, <2>1 DEF Abstract!ClientSetMaxConcurrent, Abstract!ClientControl
  <2>3. QED
    BY <2>2 DEF Abstract!Next
<1>4. CASE cmd.op = "SetPriority"
  <2>1. /\ cmd.id \in Jobs /\ cmd.priority \in Priorities
        /\ cmd = Abstract!SetPriority(cmd.id, cmd.priority)
    BY <1>4, CommandKinds DEF SetPriority, Abstract!SetPriority
  <2>2. Abstract!ClientSetPriority
    BY <1>1, <2>1 DEF Abstract!ClientSetPriority, Abstract!ClientControl
  <2>3. QED
    BY <2>2 DEF Abstract!Next
<1>5. CASE cmd.op = "RemovePending"
  <2>1. cmd.id \in Jobs /\ cmd = Abstract!RemovePending(cmd.id)
    BY <1>5, CommandKinds DEF RemovePending, Abstract!RemovePending
  <2>2. Abstract!ClientRemovePending
    BY <1>1, <2>1 DEF Abstract!ClientRemovePending, Abstract!ClientControl
  <2>3. QED
    BY <2>2 DEF Abstract!Next
<1>6. cmd.op \in {"Enqueue", "SetMaxConcurrent", "SetPriority", "RemovePending"}
  BY DEF Command
<1>7. QED
  BY <1>2, <1>3, <1>4, <1>5, <1>6

LEMMA ClientRefines ==
    ASSUME Inv, NEW c \in Clients, Request(c) \/ HandlerStep(c)
    PROVE  Abstract!Next \/ UNCHANGED Abstract!vars
<1>1. TasksOK /\ DaemonTypeOK /\ TokenIsHeld
  BY DEF Inv
<1>2. SendsNothing \/ SendsCommand \/ CancelsToken \/ DeletesParts
  BY <1>1, RequestTyped, HandlerStepTyped
<1>3. RunsOf' = RunsOf
  BY <1>1, <1>2, ClientTasks, SameTasksSameRuns
<1>4. CASE SendsCommand
  BY <1>3, <1>4, CommandRefines DEF SendsCommand
<1>5. CASE SendsNothing \/ CancelsToken \/ DeletesParts
  <2>1. UNCHANGED schedVars
    BY <1>5 DEF SendsNothing, CancelsToken, DeletesParts
  <2>2. QED
    BY <1>3, <2>1, AbstractStutter
<1>6. QED
  BY <1>2, <1>4, <1>5

LEMMA RunRefines ==
    ASSUME Inv, NEW r \in Runs, RunSteps(r)
    PROVE  Abstract!Next \/ UNCHANGED Abstract!vars
<1>0. RunTypeOK /\ DaemonTypeOK
  BY DEF Inv, TasksOK
<1>1. CASE FreeSlot(r)
  <2>1. Abstract!RunEnds(run[r].job)
    BY <1>0, <1>1, FreeRuns, SameVars
    DEF FreeSlot, Send, SlotFreed, sentVars, Abstract!RunEnds, Abstract!Send,
        Abstract!SlotFreed, Abstract!sentVars
  <2>2. QED
    BY <1>0, <1>1, <2>1, FreeRuns DEF Abstract!Next
<1>2. CASE ~ FreeSlot(r)
  <2>1. SameTasks /\ UNCHANGED schedVars
    BY <1>0, <1>2, RunStepKinds, RunStepBecomes, UnlistBecomes DEF Unlist
  <2>2. QED
    BY <2>1, SameTasksSameRuns, AbstractStutter
<1>3. QED
  BY <1>1, <1>2

LEMMA RestartRefines == Inv /\ Restart => Abstract!Next
<1> SUFFICES ASSUME Inv, Restart PROVE Abstract!Next
  OBVIOUS
<1>1. \A j \in Jobs : TasksOf(j)' = {}
  BY DEF Restart, Reborn, TasksOf, RunningJob, Busy
<1>2. RunsOf' = [j \in Jobs |-> 0]
  BY <1>1, RunsOfIs, FS_EmptySet
<1>3. Configured(savedMax, override') \in Limits
  BY OverridesAssumption DEF Inv, DaemonTypeOK, Restart, Reborn, Configured
<1>4. Abstract!Restart
  BY <1>2, <1>3 DEF Restart, Reborn, AtLeastOne, Abstract!Restart, Abstract!AtLeastOne
<1>5. QED
  BY <1>4 DEF Abstract!Next

LEMMA NextRefines == Inv /\ [Next]_vars => [Abstract!Next]_(Abstract!vars)
<1> SUFFICES ASSUME Inv, [Next]_vars PROVE Abstract!Next \/ UNCHANGED Abstract!vars
  OBVIOUS
<1>1. ASSUME UNCHANGED schedVars, UNCHANGED run PROVE UNCHANGED Abstract!vars
  <2>1. SameTasks
    BY <1>1 DEF SameTasks, Busy
  <2>2. QED
    BY <1>1, <2>1, SameTasksSameRuns, AbstractStutter
<1>2. CASE UNCHANGED vars
  BY <1>1, <1>2 DEF vars, runVars
<1>3. CASE TickerStep
  BY <1>1, <1>3 DEF TickerStep, RunTick, StrayTick
<1>4. CASE ConsumerStep
  <2>1. UNCHANGED <<schedVars, run, active, strays>>
    BY <1>4, ConsumerTyped DEF Inv, TasksOK
  <2>2. QED
    BY <1>1, <2>1
<1>5. CASE SchedulerStep
  BY <1>5, SchedulerRefines DEF Abstract!Next
<1>6. QED
  BY <1>2, <1>3, <1>4, <1>5, RunRefines, ClientRefines, RestartRefines DEF Next, RunSteps

(* The daemon implements module Scheduler: handlers, the bridge, its runs  *)
(* and a restart do to the scheduler what its environment may do, and each *)
(* start is a dispatch, each end of a task a SlotFreed.                    *)
THEOREM Refines == Spec => RefinesScheduler
  BY InvAlways, InitRefines, NextRefines, PTL DEF Spec, RefinesScheduler, Abstract!Spec
-----------------------------------------------------------------------------
(* Copies of a job that wait: an Enqueue that no RemovePending follows, or *)
(* an entry of the heap with none in the channel.                          *)

InChan(cmd) == \E i \in DOMAIN cmds : cmds[i] = cmd
InHeap(j) == \E q \in pending : q.job.id = j
Follows(i, cmd) == \E k \in DOMAIN cmds : k > i /\ cmds[k] = cmd
Waits(j) ==
    \E i \in DOMAIN cmds :
        cmds[i].op = "Enqueue" /\ cmds[i].job.id = j /\ ~ Follows(i, RemovePending(j))
Waiting(j) == Waits(j) \/ (InHeap(j) /\ ~ InChan(RemovePending(j)))

LEMMA WithdrawnIs == \A j \in Jobs : Withdrawn(j) <=> ~ Waiting(j)
  BY DEF Withdrawn, Waiting, Waits, Follows, InHeap, InChan, IsQueued, InChannel

LEMMA ReceivedWaits ==
    ASSUME SchedTypeOK, NEW op, Recv(op), NEW j \in Jobs
    PROVE  /\ Waits(j)' => Waits(j)
           /\ Waits(j) => \/ Waits(j)'
                          \/ /\ op = "Enqueue" /\ Head(cmds).job.id = j
                             /\ ~ InChan(RemovePending(j))'
           /\ (op = "Enqueue" /\ Head(cmds).job.id = j /\ ~ InChan(RemovePending(j))') => Waits(j)
           /\ InChan(RemovePending(j))' => InChan(RemovePending(j))
           /\ InChan(RemovePending(j)) =>
                  InChan(RemovePending(j))' \/ Head(cmds) = RemovePending(j)
<1> DEFINE rp == RemovePending(j)
<1>1. /\ cmds \in Seq(Command) /\ cmds # <<>> /\ cmds' = Tail(cmds)
      /\ Head(cmds).op = op /\ Head(cmds) = cmds[1]
      /\ Len(cmds) \in Nat \ {0} /\ DOMAIN cmds = 1 .. Len(cmds)
      /\ DOMAIN cmds' = 1 .. Len(cmds) - 1
      /\ \A i \in 1 .. Len(cmds) - 1 : cmds'[i] = cmds[i + 1]
  BY ReceivedFacts, TailFacts
<1>2. InChan(rp)' <=> \E k \in DOMAIN cmds' : cmds'[k] = rp
  BY DEF InChan
<1>3. \A k \in DOMAIN cmds' : k + 1 \in DOMAIN cmds /\ cmds'[k] = cmds[k + 1]
  BY <1>1
<1>4. \A k \in DOMAIN cmds : k # 1 => k - 1 \in DOMAIN cmds' /\ cmds'[k - 1] = cmds[k]
  BY <1>1
<1>5. \A i \in DOMAIN cmds' : Follows(i, rp)' <=> Follows(i + 1, rp)
  <2> SUFFICES ASSUME NEW i \in DOMAIN cmds'
               PROVE  (\E k \in DOMAIN cmds' : k > i /\ cmds'[k] = rp)
                         <=> (\E k \in DOMAIN cmds : k > i + 1 /\ cmds[k] = rp)
    BY DEF Follows
  <2>1. ASSUME NEW k \in DOMAIN cmds', k > i, cmds'[k] = rp
        PROVE  k + 1 \in DOMAIN cmds /\ k + 1 > i + 1 /\ cmds[k + 1] = rp
    BY <1>1, <1>3, <2>1
  <2>2. ASSUME NEW k \in DOMAIN cmds, k > i + 1, cmds[k] = rp
        PROVE  k - 1 \in DOMAIN cmds' /\ k - 1 > i /\ cmds'[k - 1] = rp
    BY <1>1, <1>4, <2>2
  <2>3. QED
    BY <2>1, <2>2
<1>6. Follows(1, rp) <=> InChan(rp)'
  <2>1. ASSUME NEW k \in DOMAIN cmds, k > 1, cmds[k] = rp
        PROVE  k - 1 \in DOMAIN cmds' /\ cmds'[k - 1] = rp
    BY <1>1, <1>4, <2>1
  <2>2. ASSUME NEW k \in DOMAIN cmds', cmds'[k] = rp
        PROVE  k + 1 \in DOMAIN cmds /\ k + 1 > 1 /\ cmds[k + 1] = rp
    BY <1>1, <1>3, <2>2
  <2>3. QED
    BY <1>2, <2>1, <2>2 DEF Follows
<1>7. ASSUME Waits(j)' PROVE Waits(j)
  <2>1. PICK i \in DOMAIN cmds' :
            cmds'[i].op = "Enqueue" /\ cmds'[i].job.id = j /\ ~ Follows(i, rp)'
    BY <1>7 DEF Waits
  <2>2. QED
    BY <1>3, <1>5, <2>1 DEF Waits
<1>8. ASSUME Waits(j)
      PROVE  \/ Waits(j)'
             \/ op = "Enqueue" /\ Head(cmds).job.id = j /\ ~ InChan(rp)'
  <2>1. PICK i \in DOMAIN cmds : cmds[i].op = "Enqueue" /\ cmds[i].job.id = j /\ ~ Follows(i, rp)
    BY <1>8 DEF Waits
  <2>2. CASE i = 1
    BY <1>1, <1>6, <2>1, <2>2
  <2>3. CASE i # 1
    <3>1. i - 1 \in DOMAIN cmds' /\ cmds'[i - 1] = cmds[i] /\ (i - 1) + 1 = i
      BY <1>1, <1>4, <2>3
    <3>2. ~ Follows(i - 1, rp)'
      <4>1. PICK k \in DOMAIN cmds' : k = i - 1
        BY <3>1
      <4>2. ~ Follows(k, rp)'
        BY <1>5, <2>1, <3>1, <4>1
      <4>3. QED
        BY <4>1, <4>2
    <3>3. QED
      BY <2>1, <3>1, <3>2 DEF Waits
  <2>4. QED
    BY <2>2, <2>3
<1>9. ASSUME op = "Enqueue", Head(cmds).job.id = j, ~ InChan(rp)' PROVE Waits(j)
  <2>1. 1 \in DOMAIN cmds
    BY <1>1
  <2>2. QED
    BY <1>1, <1>6, <1>9, <2>1 DEF Waits
<1>10. (InChan(rp)' => InChan(rp)) /\ (InChan(rp) => InChan(rp)' \/ Head(cmds) = rp)
  BY <1>1, <1>2, <1>3, <1>4 DEF InChan
<1>11. QED
  BY <1>7, <1>8, <1>9, <1>10

LEMMA SentWaits ==
    ASSUME SchedTypeOK, NEW cmd \in Command, Send(cmd), NEW j \in Jobs
    PROVE  /\ cmd # RemovePending(j) =>
                /\ Waits(j) => Waits(j)'
                /\ InChan(RemovePending(j))' => InChan(RemovePending(j))
           /\ cmd = RemovePending(j) => ~ Waits(j)' /\ InChan(RemovePending(j))'
           /\ InChan(RemovePending(j)) => InChan(RemovePending(j))'
           /\ (cmd.op = "Enqueue" /\ cmd.job.id = j) => Waits(j)'
           /\ ~ (cmd.op = "Enqueue" /\ cmd.job.id = j) => (Waits(j)' => Waits(j))
<1> DEFINE rp == RemovePending(j)
<1>0. PICK last \in Nat : last = Len(cmds) + 1
  BY DEF SchedTypeOK
<1>1. /\ DOMAIN cmds = 1 .. Len(cmds) /\ Len(cmds) \in Nat /\ last = Len(cmds) + 1
      /\ DOMAIN cmds' = 1 .. last
      /\ \A i \in 1 .. Len(cmds) : cmds'[i] = cmds[i]
      /\ cmds'[last] = cmd
  BY <1>0, AppendFacts DEF SchedTypeOK, Send
<1>2. InChan(rp)' <=> \E k \in DOMAIN cmds' : cmds'[k] = rp
  BY DEF InChan
<1>3. \A i \in DOMAIN cmds : Follows(i, rp)' <=> Follows(i, rp) \/ cmd = rp
  <2> SUFFICES ASSUME NEW i \in DOMAIN cmds
               PROVE  (\E k \in DOMAIN cmds' : k > i /\ cmds'[k] = rp)
                         <=> (\E k \in DOMAIN cmds : k > i /\ cmds[k] = rp) \/ cmd = rp
    BY DEF Follows
  <2>1. last \in DOMAIN cmds' /\ last > i
    BY <1>1
  <2>2. \A k \in DOMAIN cmds' : k \in DOMAIN cmds \/ k = last
    BY <1>1
  <2>3. \A k \in DOMAIN cmds : k \in DOMAIN cmds' /\ cmds'[k] = cmds[k]
    BY <1>1
  <2>4. QED
    BY <1>1, <2>1, <2>2, <2>3
<1>4. ~ Follows(last, rp)'
  <2>1. \A k \in DOMAIN cmds' : ~ (k > last)
    BY <1>1
  <2>2. Follows(last, rp)' => \E k \in DOMAIN cmds' : k > last
    BY DEF Follows
  <2>3. QED
    BY <2>1, <2>2
<1>5. \A i \in DOMAIN cmds' : (i \in DOMAIN cmds /\ cmds'[i] = cmds[i]) \/ (i = last /\ cmds'[i] = cmd)
  BY <1>1
<1>6. \A i \in DOMAIN cmds : i \in DOMAIN cmds' /\ cmds'[i] = cmds[i]
  BY <1>1
<1>7. Waits(j)' <=> \E i \in DOMAIN cmds' :
            cmds'[i].op = "Enqueue" /\ cmds'[i].job.id = j /\ ~ Follows(i, rp)'
  BY DEF Waits
<1>8. ASSUME cmd # rp PROVE (Waits(j) => Waits(j)') /\ (InChan(rp)' => InChan(rp))
  BY <1>2, <1>3, <1>5, <1>6, <1>7, <1>8 DEF Waits, InChan
<1>9. ASSUME cmd = rp PROVE ~ Waits(j)' /\ InChan(rp)'
  <2>1. cmd.op # "Enqueue"
    BY <1>9 DEF RemovePending
  <2>2. last \in DOMAIN cmds'
    BY <1>1
  <2>3. QED
    BY <1>1, <1>2, <1>3, <1>5, <1>7, <1>9, <2>1, <2>2
<1>10. InChan(rp) => InChan(rp)'
  BY <1>2, <1>6 DEF InChan
<1>11. ASSUME cmd.op = "Enqueue", cmd.job.id = j PROVE Waits(j)'
  <2>1. last \in DOMAIN cmds'
    BY <1>1
  <2>2. cmds'[last].op = "Enqueue" /\ cmds'[last].job.id = j
    BY <1>1, <1>11
  <2>3. QED
    BY <1>4, <1>7, <2>1, <2>2
<1>12. ASSUME ~ (cmd.op = "Enqueue" /\ cmd.job.id = j), Waits(j)' PROVE Waits(j)
  BY <1>3, <1>5, <1>7, <1>12 DEF Waits
<1>13. QED
  BY <1>8, <1>9, <1>10, <1>11, <1>12

(* Some task of the job has not reported how it ended.                     *)
Working(j) == \E r \in Runs : RunningJob(r, j) /\ Unreported(r)

LEMMA SameWaiting ==
    ASSUME UNCHANGED <<cmds, pending>>
    PROVE  \A j \in Jobs : Waiting(j)' <=> Waiting(j)
  BY DEF Waiting, Waits, Follows, InHeap, InChan

LEMMA SentWaiting ==
    ASSUME SchedTypeOK, NEW cmd \in Command, Send(cmd), UNCHANGED pending, NEW j \in Jobs
    PROVE  /\ cmd # RemovePending(j) => (Waiting(j) => Waiting(j)')
           /\ cmd = RemovePending(j) => ~ Waiting(j)'
           /\ (cmd.op = "Enqueue" /\ cmd.job.id = j) => Waiting(j)'
           /\ ~ (cmd.op = "Enqueue" /\ cmd.job.id = j) => (Waiting(j)' => Waiting(j))
<1>1. InHeap(j)' <=> InHeap(j)
  BY DEF InHeap
<1>2. QED
  BY <1>1, SentWaits DEF Waiting

(* The scheduler task makes no copy, and drops one only for RemovePending  *)
(* or for the task it starts.                                              *)
LEMMA SchedulerWaiting ==
    ASSUME Inv, SchedulerStep, NEW j \in Jobs
    PROVE  /\ Waiting(j)' => Waiting(j)
           /\ Waiting(j) => Waiting(j)' \/ Working(j)'
<1> DEFINE rp == RemovePending(j)
<1>0. SchedTypeOK /\ RunTypeOK /\ Room
  BY DEF Inv, TasksOK
<1>1. CASE RecvEnqueue
  <2>1. Recv("Enqueue") /\ pending' = pending \cup {[seq |-> seq + 1, job |-> Head(cmds).job]}
    BY <1>1 DEF RecvEnqueue, Push
  <2> DEFINE new == [seq |-> seq + 1, job |-> Head(cmds).job]
  <2>2. InHeap(j)' <=> InHeap(j) \/ Head(cmds).job.id = j
    <3>1. pending' = pending \cup {new} /\ new.job = Head(cmds).job
      BY <2>1
    <3> HIDE DEF new
    <3>2. QED
      BY <3>1 DEF InHeap
  <2>3. Head(cmds) # rp
    BY <2>1 DEF Recv, RemovePending
  <2>4. QED
    BY <1>0, <2>1, <2>2, <2>3, ReceivedWaits DEF Waiting
<1>2. CASE RecvSlotFreed \/ RecvSetMaxConcurrent \/ RecvSetPriority
  <2>1. PICK op \in {"SlotFreed", "SetMaxConcurrent", "SetPriority"} : Recv(op)
    BY <1>2 DEF RecvSlotFreed, RecvSetMaxConcurrent, RecvSetPriority
  <2>2. Head(cmds) # rp
    BY <2>1 DEF Recv, RemovePending
  <2>3. InHeap(j)' <=> InHeap(j)
    <3>1. CASE UNCHANGED pending
      BY <3>1 DEF InHeap
    <3>2. CASE RecvSetPriority
      <4> DEFINE i == Head(cmds).id
                 p == Head(cmds).priority
      <4>1. pending' = {Reprioritised(q, i, p) : q \in pending}
        BY <3>2 DEF RecvSetPriority
      <4>2. i \in Jobs /\ p \in Priorities
        BY <1>0, <3>2, ReceivedFacts, CommandKinds DEF RecvSetPriority
      <4>3. \A q \in pending : Reprioritised(q, i, p).job.id = q.job.id
        BY <1>0, <4>2, ReprioritisedFacts DEF SchedTypeOK
      <4> HIDE DEF i, p
      <4>4. QED
        BY <4>1, <4>3 DEF InHeap
    <3>3. QED
      BY <1>2, <3>1, <3>2 DEF RecvSlotFreed, RecvSetMaxConcurrent
  <2>4. QED
    BY <1>0, <2>1, <2>2, <2>3, ReceivedWaits DEF Waiting
<1>3. CASE RecvRemovePending
  <2>1. Recv("RemovePending") /\ pending' = {q \in pending : q.job.id # Head(cmds).id}
    BY <1>3 DEF RecvRemovePending
  <2>2. InHeap(j)' <=> InHeap(j) /\ Head(cmds).id # j
    BY <2>1 DEF InHeap
  <2>3. Head(cmds) = rp <=> Head(cmds).id = j
    BY <1>0, <2>1, ReceivedFacts, CommandKinds DEF RemovePending
  <2>4. Head(cmds) = rp => InChan(rp)
    <3>1. 1 \in DOMAIN cmds /\ cmds[1] = Head(cmds)
      BY <1>0, <2>1, ReceivedFacts, TailFacts
    <3>2. QED
      BY <3>1 DEF InChan
  <2>5. QED
    BY <1>0, <2>1, <2>2, <2>3, <2>4, ReceivedWaits DEF Waiting
<1>4. CASE DispatchDone
  BY <1>4, SameWaiting DEF DispatchDone
<1>5. CASE SchedulerStarts
  <2>1. PICK q \in pending : StartDownload(q)
    BY <1>5 DEF SchedulerStarts
  <2>2. pending' = pending \ {q} /\ UNCHANGED cmds
    BY <2>1 DEF StartDownload, Dispatch
  <2>3. (Waits(j)' <=> Waits(j)) /\ (InChan(rp)' <=> InChan(rp))
    BY <2>2 DEF Waits, Follows, InChan
  <2>4. (InHeap(j)' => InHeap(j)) /\ (InHeap(j) => InHeap(j)' \/ q.job.id = j)
    BY <2>2 DEF InHeap
  <2>5. ASSUME q.job.id = j PROVE Working(j)'
    <3>1. PICK r \in Runs :
              run' = [run EXCEPT ![r] =
                         [phase |-> "begin", job |-> q.job.id, plan |-> q.job.plan,
                          multi |-> FALSE, tries |-> 0, stop |-> FALSE]]
      BY <1>0, <2>1, StartFacts
    <3>2. run'[r].phase = "begin" /\ run'[r].job = j /\ run'[r] # Idle
      BY <1>0, <2>5, <3>1 DEF RunTypeOK, Idle
    <3>3. QED
      BY <3>2 DEF Working, RunningJob, Unreported, Busy
  <2>6. QED
    BY <2>3, <2>4, <2>5 DEF Waiting
<1>6. QED
  BY <1>1, <1>2, <1>3, <1>4, <1>5 DEF SchedulerStep, SchedulerSetsPriority

-----------------------------------------------------------------------------
(* What the tasks still owe: a step that neither consumes an event nor     *)
(* restarts the process leaves every task unreported, or sends the event   *)
(* that ends it; and what else it sends comes from a task that still owes  *)
(* that event, or from a ticker that outlived its own.                     *)

StrayEvent(e) == e.ev = "Progress" /\ e.stray

Over == {"unlist", "freeing"}

Reports ==
    \/ UNCHANGED events /\ \A j \in Jobs : Working(j) => Working(j)'
    \/ \E e \in Event :
          /\ Emit(e)
          /\ \A j \in Jobs : Working(j) => Working(j)' \/ (e.id = j /\ Terminal(e))
          /\ Terminal(e) \/ Working(e.id)' \/ StrayEvent(e)

LEMMA EventEnds ==
    /\ \A j \in Jobs, p \in Plans : ~ Terminal(Started(j, p)) /\ Terminal(Paused(j, p))
    /\ \A j \in Jobs : Terminal(Completed(j)) /\ Terminal(Failed(j))
    /\ \A j \in Jobs, stray \in BOOLEAN : ~ Terminal(Progress(j, stray))
  BY DEF Terminal, Started, Paused, Completed, Failed, Progress

LEMMA BecomesWorking ==
    ASSUME RunTypeOK, NEW r \in Runs, NEW s, Becomes(r, s)
    PROVE  /\ \A j \in Jobs : Working(j) => Working(j)' \/ (j = run[r].job /\ s.phase \in Over)
           /\ run[r].phase \in Over => \A j \in Jobs : Working(j) => Working(j)'
           /\ \A j \in Jobs : j = run[r].job /\ s.phase \notin Over => Working(j)'
<1>1. /\ \A k \in Runs \ {r} : run'[k] = run[k]
      /\ run'[r] = s
      /\ s \in RunState /\ s.job = run[r].job /\ s # Idle
  <2>1. s \in RunState /\ s.job = run[r].job
    BY DEF Becomes
  <2>2. s # Idle
    BY <2>1 DEF RunState, Idle
  <2>3. QED
    BY <2>1, <2>2, BecomesFacts
<1>2. ASSUME NEW j \in Jobs, j = run[r].job, s.phase \notin Over PROVE Working(j)'
  <2>1. Busy(r)' /\ run'[r].phase \notin Over /\ run'[r].job = j
    BY <1>1, <1>2 DEF Busy
  <2>2. QED
    BY <2>1 DEF Working, RunningJob, Unreported, Busy, Over
<1>3. ASSUME NEW j \in Jobs, NEW k \in Runs \ {r}, RunningJob(k, j), Unreported(k)
      PROVE  Working(j)'
  <2>1. run'[k] = run[k]
    BY <1>1
  <2>2. RunningJob(k, j)' /\ Unreported(k)'
    BY <1>3, <2>1 DEF RunningJob, Unreported, Busy
  <2>3. QED
    BY <2>2 DEF Working
<1>4. ASSUME NEW j \in Jobs, Working(j)
      PROVE  Working(j)' \/ (j = run[r].job /\ run[r].phase \notin Over)
  <2>1. PICK k \in Runs : RunningJob(k, j) /\ Unreported(k)
    BY <1>4 DEF Working
  <2>2. CASE k = r
    BY <2>1, <2>2 DEF RunningJob, Unreported, Over
  <2>3. QED
    BY <1>3, <2>1, <2>2
<1>5. ASSUME NEW j \in Jobs, Working(j)
      PROVE  /\ Working(j)' \/ (j = run[r].job /\ s.phase \in Over)
             /\ run[r].phase \in Over => Working(j)'
  <2>1. CASE j = run[r].job
    BY <1>2, <1>4, <1>5, <2>1
  <2>2. CASE j # run[r].job
    BY <1>4, <1>5, <2>2
  <2>3. QED
    BY <2>1, <2>2
<1>6. QED
  BY <1>2, <1>5

(* The steps of a run that go on with the loop, and those that end it.     *)
LEMMA RunStepReports ==
    ASSUME RunTypeOK, NEW r \in Runs,
           \/ BeginResume(r) \/ ProbeAnswers(r) \/ GetAnswers(r) \/ GetFails(r) \/ OpenFails(r)
           \/ BodyEnds(r) \/ BodyFails(r) \/ BodyStops(r) \/ Join(r) \/ Assemble(r)
           \/ AssembleFails(r) \/ GiveUp(r) \/ Backoff(r) \/ BackoffStops(r)
           \/ \E plan \in Plans : BackoffOver(r, plan)
    PROVE  Reports
<1>0. run \in [Runs -> RunState \cup {Idle}]
  BY DEF RunTypeOK
<1>1. run[r].phase # "idle" /\ run[r] \in RunState /\ run[r].job \in Jobs /\ run[r].plan \in Plans
  <2>1. run[r].phase # "idle"
    BY DEF BeginResume, ProbeAnswers, GetAnswers, GetFails, OpenFails, BodyEnds, BodyFails,
           BodyStops, Join, Assemble, AssembleFails, GiveUp, Backoff, BackoffStops, BackoffOver
  <2>2. QED
    BY <2>1, RunFacts
<1> DEFINE j == run[r].job
           Sends(e) == e \in Event /\ Emit(e) /\ e.id = j
<1>2. /\ \A p \in Plans : Started(j, p) \in Event /\ Started(j, p).id = j
      /\ \A p \in Plans : Paused(j, p) \in Event /\ Paused(j, p).id = j
      /\ Completed(j) \in Event /\ Completed(j).id = j
      /\ Failed(j) \in Event /\ Failed(j).id = j
  BY <1>1, EventKinds DEF Started, Paused, Completed, Failed
<1>3. ASSUME NEW s, Becomes(r, s), s.phase \notin Over, UNCHANGED events \/ \E e : Sends(e)
      PROVE  Reports
  <2>1. \A i \in Jobs : Working(i) => Working(i)'
    BY <1>3, BecomesWorking
  <2>2. ASSUME NEW e, Sends(e) PROVE Reports
    <3>1. e \in Event /\ Emit(e) /\ e.id \in Jobs /\ e.id = run[r].job
      BY <1>1, <2>2
    <3>2. \A i \in Jobs : i = run[r].job => Working(i)'
      BY <1>3, BecomesWorking
    <3>3. \A i \in Jobs : i = e.id => Working(i)'
      BY <3>1, <3>2
    <3>4. QED
      BY <2>1, <3>1, <3>3 DEF Reports
  <2>3. QED
    BY <1>3, <2>1, <2>2 DEF Reports
<1>4. ASSUME NEW s, Becomes(r, s), NEW e, Sends(e), Terminal(e)
      PROVE  Reports
  BY <1>1, <1>4, BecomesWorking DEF Reports
<1>5. ASSUME NEW phase \in Phases, Goto(r, phase)
      PROVE  \E s : Becomes(r, s) /\ s.phase = phase
  <2>1. Becomes(r, [run[r] EXCEPT !.phase = phase])
    BY <1>1, <1>5, GotoBecomes
  <2>2. [run[r] EXCEPT !.phase = phase].phase = phase
    BY <1>1 DEF RunState
  <2>3. QED
    BY <2>1, <2>2
<1>6. ASSUME Goto(r, "unlist"), \E e : Sends(e) /\ Terminal(e) PROVE Reports
  BY <1>4, <1>5, <1>6, PhaseFacts
<1>7. ASSUME NEW phase \in Phases \ Over, Goto(r, phase), UNCHANGED events \/ \E e : Sends(e)
      PROVE  Reports
  BY <1>3, <1>5, <1>7
<1>8. ASSUME EndInError(r) PROVE Reports
  <2>1. CASE run[r].multi /\ run[r].stop
    <3>1. Goto(r, "unlist") /\ Emit(Paused(j, "segs"))
      BY <1>8, <2>1 DEF EndInError
    <3>2. Sends(Paused(j, "segs")) /\ Terminal(Paused(j, "segs"))
      BY <1>1, <1>2, <3>1, EventEnds, PlanFacts
    <3>3. QED
      BY <1>6, <3>1, <3>2
  <2>2. CASE ~ (run[r].multi /\ run[r].stop)
    <3>1. Goto(r, "erred") /\ UNCHANGED events
      BY <1>8, <2>2 DEF EndInError
    <3>2. "erred" \in Phases \ Over
      BY PhaseFacts DEF Over
    <3>3. QED
      BY <1>7, <3>1, <3>2
  <2>3. QED
    BY <2>1, <2>2
<1>9. /\ "get" \in Phases \ Over /\ "body" \in Phases \ Over /\ "joined" \in Phases \ Over
      /\ "assemble" \in Phases \ Over /\ "erred" \in Phases \ Over
  BY PhaseFacts DEF Over
<1>10. CASE BeginResume(r) \/ ProbeAnswers(r)
  <2>1. PICK phase \in {"get", "joined"}, multi \in BOOLEAN :
            run' = [run EXCEPT ![r].phase = phase, ![r].multi = multi]
    BY <1>10 DEF BeginResume, ProbeAnswers
  <2>2. UNCHANGED events \/ Emit(Started(j, "segs"))
    BY <1>10 DEF BeginResume, ProbeAnswers
  <2> DEFINE s == [run[r] EXCEPT !.phase = phase, !.multi = multi]
  <2>3. s \in RunState /\ s.job = j /\ s.phase \notin Over
    BY <1>1, PhaseFacts DEF RunState, Over
  <2>4. run' = [run EXCEPT ![r] = s]
    BY <1>0, <2>1
  <2>5. Becomes(r, s)
    BY <1>1, <2>3, <2>4 DEF Becomes
  <2>6. UNCHANGED events \/ Sends(Started(j, "segs"))
    BY <1>2, <2>2, PlanFacts
  <2>7. QED
    BY <1>3, <2>3, <2>5, <2>6
<1>11. CASE GetAnswers(r)
  <2>1. Goto(r, "body") /\ (UNCHANGED events \/ Emit(Started(j, "none")))
    BY <1>11 DEF GetAnswers, AnnounceSingle
  <2>2. UNCHANGED events \/ Sends(Started(j, "none"))
    BY <1>2, <2>1, PlanFacts
  <2>3. QED
    BY <1>7, <1>9, <2>1, <2>2
<1>12. CASE GetFails(r) \/ BodyFails(r)
  BY <1>8, <1>12 DEF GetFails, BodyFails
<1>13. CASE OpenFails(r)
  <2>1. CASE run[r].multi
    BY <1>8, <1>13, <2>1 DEF OpenFails
  <2>2. CASE ~ run[r].multi
    <3>1. Goto(r, "erred") /\ Emit(Started(j, "none"))
      BY <1>13, <2>2 DEF OpenFails
    <3>2. Sends(Started(j, "none"))
      BY <1>2, <3>1, PlanFacts
    <3>3. QED
      BY <1>7, <1>9, <3>1, <3>2
  <2>3. QED
    BY <2>1, <2>2
<1>14. CASE BodyEnds(r) \/ AssembleFails(r)
  BY <1>7, <1>9, <1>14 DEF BodyEnds, AssembleFails
<1>15. CASE BodyStops(r)
  <2>1. PICK p \in Plans : Goto(r, "unlist") /\ Emit(Paused(j, p))
    BY <1>15, PlanFacts DEF BodyStops, Segments
  <2>2. Sends(Paused(j, p)) /\ Terminal(Paused(j, p))
    BY <1>1, <1>2, <2>1, EventEnds
  <2>3. QED
    BY <1>6, <2>1, <2>2
<1>16. CASE Join(r)
  <2>1. CASE run[r].multi /\ run[r].stop
    <3>1. Goto(r, "unlist") /\ Emit(Paused(j, "segs"))
      BY <1>16, <2>1 DEF Join
    <3>2. Sends(Paused(j, "segs")) /\ Terminal(Paused(j, "segs"))
      BY <1>1, <1>2, <3>1, EventEnds, PlanFacts
    <3>3. QED
      BY <1>6, <3>1, <3>2
  <2>2. CASE ~ (run[r].multi /\ run[r].stop)
    BY <1>7, <1>9, <1>16, <2>2 DEF Join
  <2>3. QED
    BY <2>1, <2>2
<1>17. CASE Assemble(r)
  <2>1. Goto(r, "unlist") /\ Sends(Completed(j)) /\ Terminal(Completed(j))
    BY <1>1, <1>2, <1>17, EventEnds DEF Assemble
  <2>2. QED
    BY <1>6, <2>1
<1>18. CASE GiveUp(r)
  <2>1. Goto(r, "unlist") /\ Sends(Failed(j)) /\ Terminal(Failed(j))
    BY <1>1, <1>2, <1>18, EventEnds DEF GiveUp
  <2>2. QED
    BY <1>6, <2>1
<1>19. CASE BackoffStops(r)
  <2>1. Goto(r, "unlist") /\ Emit(Paused(j, run[r].plan))
    BY <1>19 DEF BackoffStops
  <2>2. Sends(Paused(j, run[r].plan)) /\ Terminal(Paused(j, run[r].plan))
    BY <1>1, <1>2, <2>1, EventEnds
  <2>3. QED
    BY <1>6, <2>1, <2>2
<1>20. CASE Backoff(r)
  <2> DEFINE s == [run[r] EXCEPT !.phase = "backoff", !.tries = @ + 1]
  <2>1. run[r].tries + 1 \in 0 .. MaxTries
    BY <1>1, <1>20, MaxTriesAssumption DEF Backoff, RunState
  <2>2. s \in RunState /\ s.job = j /\ s.phase \notin Over
    BY <1>1, <2>1, PhaseFacts DEF RunState, Over
  <2>3. run' = [run EXCEPT ![r] = s] /\ UNCHANGED events
    BY <1>0, <1>20 DEF Backoff
  <2>4. Becomes(r, s)
    BY <1>1, <2>2, <2>3 DEF Becomes
  <2>5. QED
    BY <1>3, <2>2, <2>3, <2>4
<1>21. ASSUME NEW plan \in Plans, BackoffOver(r, plan) PROVE Reports
  <2> DEFINE s == [run[r] EXCEPT !.phase = "begin", !.plan = plan, !.multi = FALSE]
  <2>1. s \in RunState /\ s.job = j /\ s.phase \notin Over
    BY <1>1, PhaseFacts DEF RunState, Over
  <2>2. run' = [run EXCEPT ![r] = s] /\ UNCHANGED events
    BY <1>0, <1>21 DEF BackoffOver
  <2>3. Becomes(r, s)
    BY <1>1, <2>1, <2>2 DEF Becomes
  <2>4. QED
    BY <1>3, <2>1, <2>2, <2>3
<1>22. QED
  BY <1>10, <1>11, <1>12, <1>13, <1>14, <1>15, <1>16, <1>17, <1>18, <1>19, <1>20, <1>21

LEMMA SameReports == UNCHANGED <<run, events>> => Reports
  BY DEF Reports, Working, RunningJob, Unreported, Busy

LEMMA UnlistReports ==
    ASSUME RunTypeOK, NEW r \in Runs, Unlist(r)
    PROVE  Reports
<1>1. Goto(r, "freeing") /\ run[r].phase = "unlist" /\ UNCHANGED events
  BY DEF Unlist
<1>2. Becomes(r, [run[r] EXCEPT !.phase = "freeing"])
  BY <1>1, GotoBecomes, PhaseFacts
<1>3. QED
  BY <1>1, <1>2, BecomesWorking DEF Reports, Over

LEMMA FreeReports ==
    ASSUME RunTypeOK, NEW r \in Runs, FreeSlot(r)
    PROVE  Reports
<1>1. /\ run[r].phase = "freeing" /\ UNCHANGED events
      /\ \A k \in Runs \ {r} : run'[k] = run[k]
  BY DEF FreeSlot, RunTypeOK
<1>2. ASSUME NEW j \in Jobs, Working(j) PROVE Working(j)'
  <2>1. PICK k \in Runs : RunningJob(k, j) /\ Unreported(k)
    BY <1>2 DEF Working
  <2>2. k # r
    BY <1>1, <2>1 DEF Unreported
  <2>3. run'[k] = run[k]
    BY <1>1, <2>2
  <2>4. RunningJob(k, j)' /\ Unreported(k)'
    BY <2>1, <2>3 DEF RunningJob, Unreported, Busy
  <2>5. QED
    BY <2>4 DEF Working
<1>3. QED
  BY <1>1, <1>2 DEF Reports

LEMMA StartReports ==
    ASSUME SchedTypeOK, RunTypeOK, Room, NEW q \in pending, StartDownload(q)
    PROVE  Reports
<1>1. PICK r \in Runs :
          /\ ~ Busy(r)
          /\ run' = [run EXCEPT ![r] =
                        [phase |-> "begin", job |-> q.job.id, plan |-> q.job.plan,
                         multi |-> FALSE, tries |-> 0, stop |-> FALSE]]
  BY StartFacts
<1>2. UNCHANGED events
  BY DEF StartDownload
<1>3. \A k \in Runs \ {r} : run'[k] = run[k]
  BY <1>1 DEF RunTypeOK
<1>4. ASSUME NEW j \in Jobs, Working(j) PROVE Working(j)'
  <2>1. PICK k \in Runs : RunningJob(k, j) /\ Unreported(k)
    BY <1>4 DEF Working
  <2>2. run'[k] = run[k]
    BY <1>1, <1>3, <2>1 DEF RunningJob
  <2>3. RunningJob(k, j)' /\ Unreported(k)'
    BY <2>1, <2>2 DEF RunningJob, Unreported, Busy
  <2>4. QED
    BY <2>3 DEF Working
<1>5. QED
  BY <1>2, <1>4 DEF Reports

LEMMA TickerReports == RunTypeOK /\ TickerStep => Reports
<1> SUFFICES ASSUME RunTypeOK, TickerStep PROVE Reports
  OBVIOUS
<1>1. UNCHANGED run
  BY DEF TickerStep, RunTick, StrayTick
<1>2. \A j \in Jobs : Working(j)' <=> Working(j)
  BY <1>1 DEF Working, RunningJob, Unreported, Busy
<1>3. PICK j \in Jobs, stray \in BOOLEAN : Emit(Progress(j, stray)) /\ (Working(j) \/ stray)
  <2>1. ASSUME NEW r \in Runs, RunTick(r)
        PROVE  run[r].job \in Jobs /\ Emit(Progress(run[r].job, FALSE)) /\ Working(run[r].job)
    <3>1. run[r].phase \in {"get", "body", "joined"} /\ Emit(Progress(run[r].job, FALSE))
      BY <2>1 DEF RunTick, Ticking, Tick
    <3>2. run[r].job \in Jobs /\ Busy(r)
      BY <3>1, RunFacts
    <3>3. RunningJob(r, run[r].job) /\ Unreported(r)
      BY <3>1, <3>2 DEF RunningJob, Unreported
    <3>4. QED
      BY <3>1, <3>2, <3>3 DEF Working
  <2>2. ASSUME NEW t \in strays, StrayTick(t)
        PROVE  t[2] \in Jobs /\ Emit(Progress(t[2], TRUE))
    BY <2>2 DEF StrayTick, Tick, RunTypeOK
  <2>3. QED
    BY <2>1, <2>2 DEF TickerStep
<1>4. /\ Progress(j, stray) \in Event /\ Progress(j, stray).id = j
      /\ stray => StrayEvent(Progress(j, stray))
  BY EventKinds DEF Progress, StrayEvent
<1>5. QED
  BY <1>2, <1>3, <1>4 DEF Reports

LEMMA StopReports ==
    ASSUME RunTypeOK, NEW j \in Jobs, StopListed(j), active[j] # NoRun => Busy(active[j]),
           UNCHANGED events
    PROVE  Reports
<1>1. CASE active[j] = NoRun
  BY <1>1, SameReports DEF StopListed
<1>2. CASE active[j] # NoRun
  <2>1. PICK r \in Runs : active[j] = r
    BY <1>2 DEF RunTypeOK
  <2>2. run[r] \in RunState
    BY <1>2, <2>1 DEF RunTypeOK, Busy
  <2> DEFINE s == [run[r] EXCEPT !.stop = TRUE]
  <2>3. s \in RunState /\ s.job = run[r].job /\ s.phase = run[r].phase
    BY <2>2 DEF RunState
  <2>4. run' = [run EXCEPT ![r] = s]
    BY <1>2, <2>1 DEF StopListed, RunTypeOK
  <2>5. Becomes(r, s)
    BY <2>2, <2>3, <2>4 DEF Becomes
  <2>6. \A i \in Jobs : Working(i) => Working(i)'
    BY <2>3, <2>5, BecomesWorking
  <2>7. QED
    BY <2>6 DEF Reports
<1>3. QED
  BY <1>1, <1>2

LEMMA ClientReports ==
    ASSUME Inv, NEW c \in Clients, Request(c) \/ HandlerStep(c)
    PROVE  Reports
<1>1. RunTypeOK /\ DaemonTypeOK /\ TokenIsHeld
  BY DEF Inv, TasksOK
<1>2. SendsNothing \/ SendsCommand \/ CancelsToken \/ DeletesParts
  BY <1>1, RequestTyped, HandlerStepTyped
<1>3. CASE CancelsToken
  BY <1>1, <1>3, StopReports DEF CancelsToken, TokenIsHeld, RunningJob
<1>4. CASE SendsNothing \/ SendsCommand \/ DeletesParts
  BY <1>4, SameReports DEF SendsNothing, SendsCommand, DeletesParts, runVars
<1>5. QED
  BY <1>2, <1>3, <1>4

LEMMA NextReports == Inv /\ [Next]_vars => Reports \/ ConsumerStep \/ Restart
<1> SUFFICES ASSUME Inv, [Next]_vars PROVE Reports \/ ConsumerStep \/ Restart
  OBVIOUS
<1>0. SchedTypeOK /\ RunTypeOK /\ Room /\ DaemonTypeOK
  BY DEF Inv, TasksOK
<1>1. CASE UNCHANGED vars
  BY <1>1, SameReports DEF vars, runVars
<1>2. CASE SchedulerStep
  <2>1. CASE SchedulerStarts
    BY <1>0, <2>1, StartReports DEF SchedulerStarts
  <2>2. CASE ~ SchedulerStarts
    BY <1>2, <2>2, SameReports DEF SchedulerStep, SchedulerSetsPriority, runVars
  <2>3. QED
    BY <2>1, <2>2
<1>3. ASSUME NEW r \in Runs, RunSteps(r) PROVE Reports
  BY <1>0, <1>3, RunStepKinds, RunStepReports, UnlistReports, FreeReports
<1>4. QED
  BY <1>0, <1>1, <1>2, <1>3, TickerReports, ClientReports DEF Next, RunSteps

LEMMA EmittedFacts ==
    ASSUME events \in Seq(Event), NEW e \in Event, Emit(e)
    PROVE  /\ \A i \in DOMAIN events : i \in DOMAIN events' /\ events'[i] = events[i]
           /\ \E n \in DOMAIN events' :
                /\ events'[n] = e
                /\ \A i \in DOMAIN events : n > i
                /\ \A i \in DOMAIN events' : i \in DOMAIN events \/ i = n
<1> DEFINE n == Len(events) + 1
<1>1. /\ DOMAIN events = 1 .. Len(events) /\ Len(events) \in Nat
      /\ DOMAIN events' = 1 .. n
      /\ \A i \in 1 .. Len(events) : events'[i] = events[i]
      /\ events'[n] = e
  BY AppendFacts DEF Emit
<1>2. n \in DOMAIN events' /\ \A i \in DOMAIN events : n > i
  BY <1>1
<1>3. \A i \in DOMAIN events' : i \in DOMAIN events \/ i = n
  BY <1>1
<1>4. QED
  BY <1>1, <1>2, <1>3

LEMMA ReportsUnfinished ==
    ASSUME RunTypeOK, Reports, NEW j \in Jobs, Unfinished(j)
    PROVE  Unfinished(j)'
<1>0. events \in Seq(Event)
  BY DEF RunTypeOK
<1>1. TerminalOnItsWay(j) => TerminalOnItsWay(j)'
  <2>1. CASE UNCHANGED events
    BY <2>1 DEF TerminalOnItsWay, Terminal
  <2>2. ASSUME NEW e \in Event, Emit(e) PROVE TerminalOnItsWay(j) => TerminalOnItsWay(j)'
    BY <1>0, <2>2, EmittedFacts DEF TerminalOnItsWay, Terminal
  <2>3. QED
    BY <2>1, <2>2 DEF Reports
<1>2. Working(j) => Working(j)' \/ TerminalOnItsWay(j)'
  <2>1. ASSUME NEW e \in Event, Emit(e), e.id = j, Terminal(e) PROVE TerminalOnItsWay(j)'
    <3>1. PICK n \in DOMAIN events' : events'[n] = e
      BY <1>0, <2>1, EmittedFacts
    <3>2. QED
      BY <2>1, <3>1 DEF TerminalOnItsWay, Terminal
  <2>2. QED
    BY <2>1 DEF Reports
<1>3. QED
  BY <1>1, <1>2 DEF Unfinished, Working
-----------------------------------------------------------------------------
(* The consumer of events: what is left to hear of each job.               *)

EndsLater(i, j) == \E k \in DOMAIN events : k > i /\ events[k].id = j /\ Terminal(events[k])

(* Every event a run sends that makes a row Active is followed by the one  *)
(* that ends the run, or its job has a task that still owes that one.      *)
Opens(e) == ~ Terminal(e) /\ ~ StrayEvent(e)
EventsHeld ==
    \A i \in DOMAIN events, j \in Jobs :
        events[i].id = j /\ Opens(events[i]) => EndsLater(i, j) \/ Working(j)

LEMMA ConsumedLater ==
    ASSUME RunTypeOK, NEW ev, ConsumeEvent(ev), NEW j \in Jobs
    PROVE  /\ Working(j)' <=> Working(j)
           /\ TerminalOnItsWay(j) =>
                TerminalOnItsWay(j)' \/ (Head(events).id = j /\ Terminal(Head(events)))
           /\ EndsLater(1, j) => TerminalOnItsWay(j)'
           /\ \A i \in DOMAIN events' :
                /\ i + 1 \in DOMAIN events /\ events'[i] = events[i + 1]
                /\ EndsLater(i + 1, j) => EndsLater(i, j)'
<1>1. /\ events # <<>> /\ events' = Tail(events) /\ Head(events) = events[1]
      /\ Len(events) \in Nat \ {0} /\ DOMAIN events = 1 .. Len(events)
      /\ DOMAIN events' = 1 .. Len(events) - 1
      /\ \A i \in 1 .. Len(events) - 1 : events'[i] = events[i + 1]
  <2>1. events # <<>> /\ events' = Tail(events) /\ events \in Seq(Event)
    BY ConsumedFacts
  <2>2. QED
    BY <2>1, TailFacts
<1>2. Working(j)' <=> Working(j)
  <2>1. UNCHANGED run
    BY DEF ConsumeEvent
  <2>2. QED
    BY <2>1 DEF Working, RunningJob, Unreported, Busy
<1>3. \A k \in DOMAIN events : k # 1 => k - 1 \in DOMAIN events' /\ events'[k - 1] = events[k]
  BY <1>1
<1>4. TerminalOnItsWay(j)' <=>
          \E i \in DOMAIN events' : events'[i].id = j /\ events'[i].ev \in {"Paused", "Completed", "Failed"}
  BY DEF TerminalOnItsWay, Terminal
<1>5. ASSUME NEW k \in DOMAIN events, k # 1, events[k].id = j, Terminal(events[k])
      PROVE  TerminalOnItsWay(j)'
  BY <1>3, <1>4, <1>5 DEF Terminal
<1>6. TerminalOnItsWay(j) =>
          TerminalOnItsWay(j)' \/ (Head(events).id = j /\ Terminal(Head(events)))
  BY <1>1, <1>5 DEF TerminalOnItsWay
<1>7. EndsLater(1, j) => TerminalOnItsWay(j)'
  BY <1>1, <1>5 DEF EndsLater
<1>8. ASSUME NEW i \in DOMAIN events'
      PROVE  /\ i + 1 \in DOMAIN events /\ events'[i] = events[i + 1]
             /\ EndsLater(i + 1, j) => EndsLater(i, j)'
  <2>1. i + 1 \in DOMAIN events /\ events'[i] = events[i + 1]
    BY <1>1
  <2>2. ASSUME NEW k \in DOMAIN events, k > i + 1, events[k].id = j, Terminal(events[k])
        PROVE  EndsLater(i, j)'
    <3>1. k # 1 /\ k - 1 > i
      BY <1>1, <2>2
    <3>2. k - 1 \in DOMAIN events' /\ events'[k - 1] = events[k]
      BY <1>3, <3>1
    <3>3. PICK m \in DOMAIN events' : m = k - 1
      BY <3>2
    <3>4. m > i /\ events'[m].id = j /\ events'[m].ev \in {"Paused", "Completed", "Failed"}
      BY <2>2, <3>1, <3>2, <3>3 DEF Terminal
    <3>5. QED
      BY <3>4 DEF EndsLater, Terminal
  <2>3. QED
    BY <2>1, <2>2 DEF EndsLater
<1>9. QED
  BY <1>2, <1>6, <1>7, <1>8

LEMMA ConsumedUnfinished ==
    ASSUME RunTypeOK, NEW ev, ConsumeEvent(ev), NEW j \in Jobs
    PROVE  /\ Unfinished(j) =>
                Unfinished(j)' \/ (Head(events).id = j /\ Terminal(Head(events)))
           /\ (EventsHeld /\ Head(events).id = j /\ Opens(Head(events))) => Unfinished(j)'
<1>1. ASSUME EventsHeld, Head(events).id = j, Opens(Head(events))
      PROVE  EndsLater(1, j) \/ Working(j)
  <2>1. 1 \in DOMAIN events /\ events[1] = Head(events)
    BY ConsumedFacts, TailFacts
  <2>2. QED
    BY <1>1, <2>1 DEF EventsHeld
<1>2. Unfinished(j) <=> TerminalOnItsWay(j) \/ Working(j)
  BY DEF Unfinished, Working
<1>3. Unfinished(j)' <=> TerminalOnItsWay(j)' \/ Working(j)'
  BY DEF Unfinished, Working
<1>4. QED
  BY <1>1, <1>2, <1>3, ConsumedLater

LEMMA ConsumedHeld ==
    ASSUME RunTypeOK, NEW ev, ConsumeEvent(ev), EventsHeld
    PROVE  EventsHeld'
<1> SUFFICES ASSUME NEW i \in DOMAIN events', NEW j \in Jobs, events'[i].id = j,
                    Opens(events'[i])
             PROVE  EndsLater(i, j)' \/ Working(j)'
  BY DEF EventsHeld, Opens, Terminal, StrayEvent
<1>1. i + 1 \in DOMAIN events /\ events'[i] = events[i + 1]
  BY ConsumedLater
<1>2. EndsLater(i + 1, j) \/ Working(j)
  BY <1>1 DEF EventsHeld
<1>3. QED
  BY <1>2, ConsumedLater

LEMMA ReportsHeld ==
    ASSUME RunTypeOK, Reports, EventsHeld
    PROVE  EventsHeld'
<1>0. events \in Seq(Event)
  BY DEF RunTypeOK
<1>1. CASE UNCHANGED events /\ \A j \in Jobs : Working(j) => Working(j)'
  BY <1>1 DEF EventsHeld, EndsLater, Opens, Terminal, StrayEvent
<1>2. ASSUME NEW e \in Event, Emit(e),
             \A j \in Jobs : Working(j) => Working(j)' \/ (e.id = j /\ Terminal(e)),
             Terminal(e) \/ Working(e.id)' \/ StrayEvent(e)
      PROVE  EventsHeld'
  <2>1. \A i \in DOMAIN events : i \in DOMAIN events' /\ events'[i] = events[i]
    BY <1>0, <1>2, EmittedFacts
  <2>2. PICK n \in DOMAIN events' :
            /\ events'[n] = e
            /\ \A i \in DOMAIN events : n > i
            /\ \A i \in DOMAIN events' : i \in DOMAIN events \/ i = n
    BY <1>0, <1>2, EmittedFacts
  <2>3. SUFFICES ASSUME NEW i \in DOMAIN events', NEW j \in Jobs, events'[i].id = j,
                        Opens(events'[i])
                 PROVE  EndsLater(i, j)' \/ Working(j)'
    BY DEF EventsHeld, Opens, Terminal, StrayEvent
  <2>4. CASE i = n
    BY <1>2, <2>2, <2>3, <2>4 DEF Opens
  <2>5. CASE i \in DOMAIN events
    <3>1. EndsLater(i, j) \/ Working(j)
      BY <2>1, <2>3, <2>5 DEF EventsHeld
    <3>2. EndsLater(i, j) => EndsLater(i, j)'
      BY <2>1 DEF EndsLater, Terminal
    <3>3. (e.id = j /\ Terminal(e)) => EndsLater(i, j)'
      BY <2>2, <2>5 DEF EndsLater, Terminal
    <3>4. QED
      BY <1>2, <3>1, <3>2, <3>3
  <2>6. QED
    BY <2>2, <2>4, <2>5
<1>3. QED
  BY <1>1, <1>2 DEF Reports

(* What an UPDATE of one row does to the statuses, and a get and insert.   *)
LEMMA UpdatedRows ==
    ASSUME DaemonTypeOK, NEW j \in Jobs, NEW s, NEW plan,
           \/ db' = Updated(j, s)
           \/ SetPlanAndStatus(j, plan, s)
    PROVE  /\ \A i \in Jobs : i # j => db'[i] = db[i]
           /\ db'[j].status = IF HasRow(j) THEN s ELSE "none"
<1>0. db \in [Jobs -> Row \cup {NoRow}]
  BY DEF DaemonTypeOK
<1>1. CASE HasRow(j)
  <2>1. db[j] \in Row
    BY <1>1, RowFacts
  <2>2. /\ [db[j] EXCEPT !.status = s].status = s
        /\ [db[j] EXCEPT !.status = s, !.plan = plan].status = s
    BY <2>1 DEF Row
  <2>3. \/ db' = [db EXCEPT ![j] = [db[j] EXCEPT !.status = s]]
        \/ db' = [db EXCEPT ![j] = [db[j] EXCEPT !.status = s, !.plan = plan]]
    BY <1>0, <1>1 DEF Updated, SetPlanAndStatus
  <2>4. PICK row \in {[db[j] EXCEPT !.status = s],
                     [db[j] EXCEPT !.status = s, !.plan = plan]} : db' = [db EXCEPT ![j] = row]
    BY <2>3
  <2>5. row.status = s
    BY <2>2
  <2>6. (\A i \in Jobs : i # j => db'[i] = db[i]) /\ db'[j] = row
    BY <1>0, <2>4
  <2>7. QED
    BY <1>1, <2>5, <2>6
<1>2. CASE ~ HasRow(j)
  BY <1>2 DEF Updated, SetPlanAndStatus, HasRow, NoRow
<1>3. QED
  BY <1>1, <1>2

LEMMA RowKept ==
    ASSUME DaemonTypeOK, NEW j \in Jobs, HasRow(j),
           db'[j].status \in {db[j].status} \cup Statuses
    PROVE  HasRow(j)'
<1>1. db[j].status # "none"
  BY RowFacts DEF Row, Statuses
<1>2. QED
  BY <1>1 DEF HasRow, NoRow, Statuses

LEMMA RowsKept ==
    ASSUME DaemonTypeOK, NEW j \in Jobs, NEW s \in Statuses, NEW plan,
           \/ db' = Updated(j, s)
           \/ SetPlanAndStatus(j, plan, s)
    PROVE  \A i \in Jobs : HasRow(i) => HasRow(i)'
<1> SUFFICES ASSUME NEW i \in Jobs, HasRow(i) PROVE HasRow(i)'
  OBVIOUS
<1>1. CASE i = j
  BY <1>1, UpdatedRows, RowKept
<1>2. CASE i # j
  BY <1>2, UpdatedRows DEF HasRow, NoRow
<1>3. QED
  BY <1>1, <1>2

(* What consuming an event does to the rows, and to who wrote them last.   *)
LEMMA ConsumedRows ==
    ASSUME RunTypeOK, DaemonTypeOK, ConsumerStep, ~ ConsumerDeletes
    PROVE  \E ev :
              /\ ConsumeEvent(ev)
              /\ \A i \in Jobs : i # Head(events).id =>
                     db'[i] = db[i] /\ (i \in stale' <=> i \in stale)
              /\ db'[Head(events).id].status # "Queued"
              /\ Opens(Head(events)) \/ db'[Head(events).id].status # "Active"
                   \/ Head(events).id \in stale'
              /\ \A i \in Jobs : HasRow(i) => HasRow(i)'
<1>1. CASE ConsumeStarted
  <2>1. ConsumeEvent("Started") /\ SetPlanAndStatus(Head(events).id, Head(events).plan, "Active")
    BY <1>1 DEF ConsumeStarted
  <2>2. Head(events).id \in Jobs /\ Opens(Head(events))
    BY <2>1, ConsumedFacts DEF Opens, Terminal, StrayEvent
  <2>3. \A i \in Jobs : i # Head(events).id => (i \in stale' <=> i \in stale)
    BY <2>1 DEF SetPlanAndStatus
  <2>4. \A i \in Jobs : HasRow(i) => HasRow(i)'
    BY <2>1, <2>2, RowsKept, StatusFacts
  <2>5. QED
    BY <2>1, <2>2, <2>3, <2>4, UpdatedRows
<1>2. CASE ConsumeProgress
  <2>1. ConsumeEvent("Progress") /\ db' = Updated(Head(events).id, "Active")
    BY <1>2 DEF ConsumeProgress
  <2>2. Head(events).id \in Jobs /\ Head(events).ev = "Progress"
    BY <2>1, ConsumedFacts
  <2>3. \A i \in Jobs : i # Head(events).id => (i \in stale' <=> i \in stale)
    BY <1>2 DEF ConsumeProgress
  <2>4. Opens(Head(events)) \/ Head(events).id \in stale'
    BY <1>2, <2>2 DEF ConsumeProgress, Opens, Terminal, StrayEvent
  <2>5. \A i \in Jobs : i # Head(events).id => db'[i] = db[i]
    BY <2>1, <2>2, UpdatedRows
  <2>6. db'[Head(events).id].status # "Queued"
    BY <2>1, <2>2, UpdatedRows
  <2>7. \A i \in Jobs : HasRow(i) => HasRow(i)'
    BY <2>1, <2>2, RowsKept, StatusFacts
  <2>8. QED
    BY <2>1, <2>3, <2>4, <2>5, <2>6, <2>7
<1>3. CASE ConsumePaused
  <2>1. ConsumeEvent("Paused") /\ SetPlanAndStatus(Head(events).id, Head(events).plan, "Paused")
    BY <1>3 DEF ConsumePaused
  <2>2. Head(events).id \in Jobs
    BY <2>1, ConsumedFacts
  <2>3. \A i \in Jobs : i # Head(events).id => (i \in stale' <=> i \in stale)
    BY <2>1 DEF SetPlanAndStatus
  <2>4. \A i \in Jobs : HasRow(i) => HasRow(i)'
    BY <2>1, <2>2, RowsKept, StatusFacts
  <2>5. QED
    BY <2>1, <2>2, <2>3, <2>4, UpdatedRows
<1>4. CASE ConsumeCancelled \/ ConsumeCompleted \/ ConsumeFailed
  <2>1. PICK ev \in {"Paused", "Completed", "Failed"}, s \in {"Cancelled", "Completed", "Failed"} :
            ConsumeEvent(ev) /\ SetStatus(Head(events).id, s)
    BY <1>4 DEF ConsumeCancelled, ConsumeCompleted, ConsumeFailed
  <2>2. Head(events).id \in Jobs
    BY <2>1, ConsumedFacts
  <2>3. /\ \A i \in Jobs : i # Head(events).id => (i \in stale' <=> i \in stale)
        /\ db' = Updated(Head(events).id, s)
    BY <2>1 DEF SetStatus
  <2>4. \A i \in Jobs : HasRow(i) => HasRow(i)'
    BY <2>2, <2>3, RowsKept, StatusFacts
  <2>5. QED
    BY <2>1, <2>2, <2>3, <2>4, UpdatedRows
<1>5. QED
  BY <1>1, <1>2, <1>3, <1>4 DEF ConsumerStep

(* No other step writes Active, nor, but for ADD and RETRY, Queued.        *)
LEMMA StatusSet ==
    ASSUME DaemonTypeOK, NEW j \in Jobs, NEW s \in Statuses, SetStatus(j, s), NEW i \in Jobs
    PROVE  \/ db'[i].status = db[i].status /\ (i \in stale' <=> i \in stale)
           \/ i = j /\ db'[i].status \in {s, "none"}
<1>1. CASE i = j
  BY <1>1, UpdatedRows DEF SetStatus
<1>2. CASE i # j
  BY <1>2, UpdatedRows DEF SetStatus
<1>3. QED
  BY <1>1, <1>2

LEMMA SchedulerStatus ==
    ASSUME Inv, SchedulerStep, NEW j \in Jobs
    PROVE  db'[j].status = db[j].status /\ (j \in stale' <=> j \in stale)
<1>0. SchedTypeOK /\ DaemonTypeOK /\ db \in [Jobs -> Row \cup {NoRow}]
  BY DEF Inv, TasksOK, DaemonTypeOK
<1>1. CASE SchedulerSetsPriority
  <2> DEFINE c == Head(cmds)
  <2>1. c.id \in Jobs /\ c.priority \in Priorities
    BY <1>0, <1>1, ReceivedFacts, CommandKinds DEF SchedulerSetsPriority, RecvSetPriority
  <2>2. db' = IF HasRow(c.id) THEN [db EXCEPT ![c.id].priority = c.priority] ELSE db
    BY <1>1 DEF SchedulerSetsPriority
  <2> HIDE DEF c
  <2>3. CASE HasRow(c.id)
    <3>1. db[c.id] \in Row
      BY <1>0, <2>1, <2>3, RowFacts
    <3>2. [db[c.id] EXCEPT !.priority = c.priority].status = db[c.id].status
      BY <3>1 DEF Row
    <3>3. db' = [db EXCEPT ![c.id] = [db[c.id] EXCEPT !.priority = c.priority]]
      BY <1>0, <2>2, <2>3
    <3>4. db'[j].status = db[j].status
      BY <1>0, <2>1, <3>2, <3>3
    <3>5. QED
      BY <1>1, <3>4 DEF SchedulerSetsPriority
  <2>4. CASE ~ HasRow(c.id)
    BY <1>1, <2>2, <2>4 DEF SchedulerSetsPriority
  <2>5. QED
    BY <2>3, <2>4
<1>2. CASE UNCHANGED daemonVars
  BY <1>2 DEF daemonVars, dbVars, requestVars, limitVars
<1>3. QED
  BY <1>1, <1>2 DEF SchedulerStep, SchedulerStarts

LEMMA ClientStatus ==
    ASSUME Inv, NEW c \in Clients, Request(c) \/ HandlerStep(c), NEW j \in Jobs
    PROVE  \/ db'[j].status = db[j].status /\ (j \in stale' <=> j \in stale)
           \/ db'[j].status \notin {"Active", "Queued"}
           \/ /\ db'[j].status = "Queued"
              /\ Retry(c, j) \/ \E p \in Priorities : AddDownload(c, j, p)
<1> DEFINE same == db'[j].status = db[j].status /\ (j \in stale' <=> j \in stale)
<1>0. DaemonTypeOK /\ db \in [Jobs -> Row \cup {NoRow}] /\ handler[c] \in HandlerState
  BY DEF Inv, DaemonTypeOK
<1>1. ASSUME NEW i \in Jobs, NEW p \in Priorities, AddDownload(c, i, p)
      PROVE  same \/ (i = j /\ db'[j].status = "Queued")
  BY <1>0, <1>1 DEF AddDownload
<1>2. ASSUME NEW i \in Jobs, Retry(c, i)
      PROVE  same \/ (i = j /\ db'[j].status \in {"Queued", "none"})
  BY <1>0, <1>2, StatusSet, StatusFacts DEF Retry
<1>3. CASE WithdrawRow(c)
  <2> DEFINE i == handler[c].id
  <2>1. i \in Jobs
    BY <1>0, <1>3, HandlerKinds DEF WithdrawRow, WithdrawPcs
  <2>2. SetStatus(i, "Cancelled") \/ (db' = [db EXCEPT ![i] = NoRow] /\ stale' = stale \ {i})
    BY <1>3 DEF WithdrawRow
  <2> HIDE DEF i
  <2>3. CASE SetStatus(i, "Cancelled")
    <3>1. same \/ db'[j].status \in {"Cancelled", "none"}
      BY <1>0, <2>1, <2>3, StatusSet, StatusFacts
    <3>2. QED
      BY <3>1
  <2>4. CASE db' = [db EXCEPT ![i] = NoRow] /\ stale' = stale \ {i}
    <3>1. same \/ db'[j] = NoRow
      BY <1>0, <2>1, <2>4
    <3>2. QED
      BY <3>1 DEF NoRow
  <2>5. QED
    BY <2>2, <2>3, <2>4
<1>4. ASSUME ~ WithdrawRow(c), ~ \E i \in Jobs : Retry(c, i),
             ~ \E i \in Jobs, p \in Priorities : AddDownload(c, i, p)
      PROVE  UNCHANGED <<db, stale>>
  BY <1>4 DEF Request, HandlerStep, ChangePriority, Resume, Pause, Cancel, Remove, Withdraw,
              UpdateSettings, HandlerEnqueues, HandlerSetsLimit, WithdrawChecks, WithdrawMarks,
              WithdrawStops, WithdrawDeletes, daemonVars, dbVars, requestVars, limitVars
<1>5. QED
  BY <1>1, <1>2, <1>3, <1>4

-----------------------------------------------------------------------------
(* Rows that say Active.                                                   *)

ActiveInv == ActiveIsHeld /\ EventsHeld

LEMMA NextActive == Inv /\ ActiveInv /\ [Next]_vars => ActiveInv'
<1> SUFFICES ASSUME Inv, ActiveInv, [Next]_vars PROVE ActiveInv'
  OBVIOUS
<1>0. RunTypeOK /\ DaemonTypeOK /\ ActiveIsHeld /\ EventsHeld
  BY DEF Inv, TasksOK, ActiveInv
<1>1. CASE Restart
  BY <1>1 DEF Restart, Reborn, ActiveInv, ActiveIsHeld, EventsHeld
<1>2. CASE ~ ConsumerStep /\ ~ Restart
  <2>1. Reports
    BY <1>2, NextReports
  <2>2. ASSUME NEW j \in Jobs \ stale', db'[j].status = "Active"
        PROVE  db[j].status = "Active" /\ j \notin stale
    <3>1. CASE UNCHANGED daemonVars
      BY <2>2, <3>1 DEF daemonVars, dbVars
    <3>2. CASE UNCHANGED vars \/ TickerStep \/ \E r \in Runs : RunSteps(r)
      <4>1. UNCHANGED daemonVars
        BY <1>0, <3>2, RunStepKinds DEF vars, TickerStep
      <4>2. QED
        BY <3>1, <4>1
    <3>3. QED
      BY <1>2, <2>2, <3>2, SchedulerStatus, ClientStatus DEF Next, RunSteps
  <2>3. EventsHeld'
    BY <1>0, <2>1, ReportsHeld
  <2>4. ASSUME NEW j \in Jobs \ stale', db'[j].status = "Active" PROVE Unfinished(j)'
    <3>1. Unfinished(j)
      BY <1>0, <2>2, <2>4 DEF ActiveIsHeld
    <3>2. QED
      BY <1>0, <2>1, <3>1, ReportsUnfinished
  <2>5. QED
    BY <2>3, <2>4 DEF ActiveInv, ActiveIsHeld
<1>3. CASE ConsumerDeletes
  <2>1. UNCHANGED <<db, stale, run, events>>
    BY <1>3 DEF ConsumerDeletes, dbVars
  <2>2. QED
    BY <1>0, <2>1 DEF ActiveInv, ActiveIsHeld, EventsHeld, EndsLater, Working, Unfinished, Opens,
                      StrayEvent, TerminalOnItsWay, Terminal, RunningJob, Unreported, Busy
<1>4. CASE ConsumerStep /\ ~ ConsumerDeletes
  <2>1. PICK ev :
            /\ ConsumeEvent(ev)
            /\ \A i \in Jobs : i # Head(events).id =>
                   db'[i] = db[i] /\ (i \in stale' <=> i \in stale)
            /\ db'[Head(events).id].status # "Queued"
            /\ Opens(Head(events)) \/ db'[Head(events).id].status # "Active"
                 \/ Head(events).id \in stale'
            /\ \A i \in Jobs : HasRow(i) => HasRow(i)'
    BY <1>0, <1>4, ConsumedRows
  <2>2. EventsHeld'
    BY <1>0, <2>1, ConsumedHeld
  <2>3. ASSUME NEW j \in Jobs \ stale', db'[j].status = "Active" PROVE Unfinished(j)'
    <3>1. CASE j # Head(events).id
      <4>1. Unfinished(j)
        BY <1>0, <2>1, <2>3, <3>1 DEF ActiveIsHeld
      <4>2. QED
        BY <1>0, <2>1, <3>1, <4>1, ConsumedUnfinished
    <3>2. CASE j = Head(events).id
      <4>1. Opens(Head(events))
        BY <2>1, <2>3, <3>2
      <4>2. QED
        BY <1>0, <2>1, <3>2, <4>1, ConsumedUnfinished
    <3>3. QED
      BY <3>1, <3>2
  <2>4. QED
    BY <2>2, <2>3 DEF ActiveInv, ActiveIsHeld
<1>5. QED
  BY <1>1, <1>2, <1>3, <1>4

(* A row that says Active has a task that will still report, or its report *)
(* is in the channel, whatever is paused, cancelled, queued again or       *)
(* restarted in between: but for rows of an earlier process, and rows that *)
(* a ticker wrote after its transfer was over.                             *)
THEOREM ActiveHeld == Spec => []ActiveIsHeld
<1>1. Init => ActiveInv
  BY DEF Init, RunInit, NoRow, ActiveInv, ActiveIsHeld, EventsHeld
<1>2. ActiveInv => ActiveIsHeld
  BY DEF ActiveInv
<1>3. QED
  BY <1>1, <1>2, NextActive, InvAlways, PTL DEF Spec
-----------------------------------------------------------------------------
(* Rows that say Queued. A handler holds a job it is about to queue, and   *)
(* one it withdraws up to the point where the mark is set or the row is    *)
(* written.                                                                *)

Withdrawing(c, j) ==
    /\ handler[c].pc \in {"check", "mark", "row"}
         \/ (handler[c].pc = "stop" /\ handler[c].kind = "Remove")
    /\ handler[c].id = j
HandlerHolds(c, j) ==
    (handler[c].pc = "enqueue" /\ handler[c].job.id = j) \/ Withdrawing(c, j)

Held(j) ==
    \/ \E c \in Clients : HandlerHolds(c, j)
    \/ Waiting(j)
    \/ Unfinished(j)
    \/ j \in cancelling

QueuedInv == \A j \in Jobs \ stale : db[j].status = "Queued" => Held(j)

LEMMA HeldKept ==
    ASSUME NEW j \in Jobs, Held(j),
           Waiting(j) => Waiting(j)' \/ Working(j)',
           Unfinished(j) => Unfinished(j)',
           \A c \in Clients :
               HandlerHolds(c, j) => HandlerHolds(c, j)' \/ Waiting(j)' \/ j \in cancelling',
           j \in cancelling => j \in cancelling'
    PROVE  Held(j)'
<1>1. Working(j)' => Unfinished(j)'
  BY DEF Working, Unfinished
<1>2. QED
  BY <1>1 DEF Held

(* The channel after a client's step: no copy is lost but to the           *)
(* RemovePending that the handler of j sends.                              *)
LEMMA ClientWaiting ==
    ASSUME Inv, NEW c \in Clients, Request(c) \/ HandlerStep(c), NEW j \in Jobs
    PROVE  \/ Waiting(j) => Waiting(j)'
           \/ Cancel(c, j) \/ Remove(c, j)
<1>0. SchedTypeOK /\ DaemonTypeOK /\ handler[c] \in HandlerState
  BY DEF Inv, TasksOK, DaemonTypeOK
<1>1. ASSUME NEW cmd \in Command, cmd # RemovePending(j), ClientSend(cmd), UNCHANGED sched
      PROVE  Waiting(j) => Waiting(j)'
  BY <1>0, <1>1, SentWaiting DEF ClientSend, sched
<1>2. CASE HandlerEnqueues(c)
  <2> DEFINE cmd == Enqueue(handler[c].job)
  <2>1. handler[c].job \in Copy
    BY <1>0, <1>2, HandlerKinds DEF HandlerEnqueues
  <2>2. cmd \in Command /\ cmd # RemovePending(j)
    BY <2>1, CommandsAreCommands DEF Enqueue, RemovePending
  <2>3. ClientSend(cmd) /\ UNCHANGED sched
    BY <1>2 DEF HandlerEnqueues
  <2>4. QED
    BY <1>1, <2>2, <2>3
<1>3. CASE HandlerSetsLimit(c)
  <2> DEFINE cmd == SetMaxConcurrent(handler[c].n)
  <2>1. handler[c].n \in Limits
    BY <1>0, <1>3, HandlerKinds DEF HandlerSetsLimit
  <2>2. cmd \in Command /\ cmd # RemovePending(j)
    BY <2>1, CommandsAreCommands DEF SetMaxConcurrent, RemovePending
  <2>3. ClientSend(cmd) /\ UNCHANGED sched
    BY <1>3 DEF HandlerSetsLimit
  <2>4. QED
    BY <1>1, <2>2, <2>3
<1>4. ASSUME NEW i \in Jobs, NEW p \in Priorities, ChangePriority(c, i, p)
      PROVE  Waiting(j) => Waiting(j)'
  <2> DEFINE cmd == SetPriority(i, p)
  <2>1. cmd \in Command /\ cmd # RemovePending(j)
    BY CommandsAreCommands DEF SetPriority, RemovePending
  <2>2. ClientSend(cmd) /\ UNCHANGED sched
    BY <1>4 DEF ChangePriority
  <2>3. QED
    BY <1>1, <2>1, <2>2
<1>5. ASSUME NEW i \in Jobs, i # j, Cancel(c, i) \/ Remove(c, i)
      PROVE  Waiting(j) => Waiting(j)'
  <2> DEFINE cmd == RemovePending(i)
  <2>1. cmd \in Command /\ cmd # RemovePending(j)
    BY <1>5, CommandsAreCommands DEF RemovePending
  <2>2. ClientSend(cmd) /\ UNCHANGED sched
    BY <1>5 DEF Cancel, Remove, Withdraw
  <2>3. QED
    BY <1>1, <2>1, <2>2
<1>6. ASSUME ~ HandlerEnqueues(c), ~ HandlerSetsLimit(c),
             ~ \E i \in Jobs, p \in Priorities : ChangePriority(c, i, p),
             ~ \E i \in Jobs : Cancel(c, i) \/ Remove(c, i)
      PROVE  UNCHANGED schedVars
  BY <1>6 DEF Request, HandlerStep, AddDownload, Resume, Retry, Pause, UpdateSettings,
              WithdrawChecks, WithdrawMarks, WithdrawStops, WithdrawRow, WithdrawDeletes
<1>7. UNCHANGED schedVars => (Waiting(j) => Waiting(j)')
  BY SameWaiting DEF schedVars, sentVars, sched
<1>8. QED
  BY <1>2, <1>3, <1>4, <1>5, <1>6, <1>7

(* What a handler holds it keeps, passes to the channel, marks, or ends    *)
(* with a row that no longer says Queued.                                  *)
LEMMA ClientHolds ==
    ASSUME Inv, NEW c \in Clients, Request(c) \/ HandlerStep(c), NEW j \in Jobs,
           NEW d \in Clients, HandlerHolds(d, j)
    PROVE  \/ HandlerHolds(d, j)' \/ Waiting(j)' \/ j \in cancelling'
           \/ db'[j].status # "Queued"
<1>0. /\ SchedTypeOK /\ DaemonTypeOK
      /\ handler \in [Clients -> HandlerState] /\ handler[c] \in HandlerState
      /\ db \in [Jobs -> Row \cup {NoRow}]
  BY DEF Inv, TasksOK, DaemonTypeOK
<1>1. CASE handler'[d] = handler[d]
  BY <1>1 DEF HandlerHolds, Withdrawing
<1>2. ASSUME d = c, HandlerEnqueues(c) PROVE Waiting(j)'
  <2>1. handler[c].pc = "enqueue" /\ handler[c].job \in Copy
    BY <1>0, <1>2, HandlerKinds DEF HandlerEnqueues
  <2>2. handler[c].job.id = j
    BY <1>2, <2>1 DEF HandlerHolds, Withdrawing
  <2> DEFINE cmd == Enqueue(handler[c].job)
  <2>3. cmd \in Command /\ cmd.op = "Enqueue" /\ cmd.job.id = j
    BY <2>1, <2>2, CommandsAreCommands DEF Enqueue
  <2>4. Send(cmd) /\ UNCHANGED pending
    BY <1>2 DEF HandlerEnqueues, ClientSend, sched
  <2> HIDE DEF cmd
  <2>5. QED
    BY <1>0, <2>3, <2>4, SentWaiting
<1>3. ASSUME d = c, WithdrawChecks(c) PROVE HandlerHolds(d, j)'
  <2>1. handler[c].pc = "check" /\ handler[c].id = j
    BY <1>3 DEF WithdrawChecks, HandlerHolds, Withdrawing
  <2>2. PICK pc \in {"mark", "row"} : handler' = [handler EXCEPT ![c] = [handler[c] EXCEPT !.pc = pc]]
    BY <1>3 DEF WithdrawChecks, Then
  <2>3. [handler[c] EXCEPT !.pc = pc].pc = pc /\ [handler[c] EXCEPT !.pc = pc].id = j
    BY <1>0, <2>1 DEF HandlerState, AtRest
  <2>4. handler'[d].pc = pc /\ handler'[d].id = j
    BY <1>0, <1>3, <2>2, <2>3
  <2>5. QED
    BY <2>4 DEF HandlerHolds, Withdrawing
<1>4. ASSUME d = c, WithdrawMarks(c) PROVE j \in cancelling'
  BY <1>4 DEF WithdrawMarks, HandlerHolds, Withdrawing
<1>5. ASSUME d = c, WithdrawStops(c) PROVE HandlerHolds(d, j)'
  <2>1. handler[c].pc = "stop" /\ handler[c].kind = "Remove" /\ handler[c].id = j
    BY <1>5 DEF WithdrawStops, HandlerHolds, Withdrawing
  <2>2. handler' = [handler EXCEPT ![c] = [handler[c] EXCEPT !.pc = "row"]]
    BY <1>5, <2>1 DEF WithdrawStops, Then
  <2>3. [handler[c] EXCEPT !.pc = "row"].pc = "row" /\ [handler[c] EXCEPT !.pc = "row"].id = j
    BY <1>0, <2>1 DEF HandlerState, AtRest
  <2>4. handler'[d].pc = "row" /\ handler'[d].id = j
    BY <1>0, <1>5, <2>2, <2>3
  <2>5. QED
    BY <2>4 DEF HandlerHolds, Withdrawing
<1>6. ASSUME d = c, WithdrawRow(c) PROVE db'[j].status # "Queued"
  <2>1. handler[c].id = j
    BY <1>6 DEF WithdrawRow, HandlerHolds, Withdrawing
  <2>2. SetStatus(j, "Cancelled") \/ db' = [db EXCEPT ![j] = NoRow]
    BY <1>6, <2>1 DEF WithdrawRow
  <2>3. CASE SetStatus(j, "Cancelled")
    <3>1. CASE HasRow(j)
      <4>1. db[j] \in Row /\ db' = [db EXCEPT ![j] = [db[j] EXCEPT !.status = "Cancelled"]]
        BY <1>0, <2>3, <3>1, RowFacts DEF SetStatus, Updated
      <4>2. [db[j] EXCEPT !.status = "Cancelled"].status = "Cancelled"
        BY <4>1 DEF Row
      <4>3. QED
        BY <1>0, <4>1, <4>2
    <3>2. CASE ~ HasRow(j)
      BY <2>3, <3>2 DEF SetStatus, Updated, HasRow, NoRow
    <3>3. QED
      BY <3>1, <3>2
  <2>4. CASE db' = [db EXCEPT ![j] = NoRow]
    BY <1>0, <2>4 DEF NoRow
  <2>5. QED
    BY <2>2, <2>3, <2>4
<1>7. ASSUME d = c, HandlerSetsLimit(c) \/ WithdrawDeletes(c) PROVE FALSE
  BY <1>7 DEF HandlerSetsLimit, WithdrawDeletes, HandlerHolds, Withdrawing
<1>8. ASSUME d = c, Request(c) PROVE handler'[d] = handler[d]
  <2>1. handler[c] # AtRest
    BY <1>8 DEF AtRest, HandlerHolds, Withdrawing
  <2>2. FALSE
    BY <1>8, <2>1
    DEF Request, AddDownload, ChangePriority, Resume, Retry, Pause, Cancel, Remove, Withdraw,
        UpdateSettings, Asks
  <2>3. QED
    BY <2>2
<1>9. ASSUME d # c PROVE handler'[d] = handler[d]
  BY <1>0, <1>9, OtherHandlers
<1>10. QED
  BY <1>1, <1>2, <1>3, <1>4, <1>5, <1>6, <1>7, <1>8, <1>9 DEF HandlerStep

LEMMA ClientQueued ==
    ASSUME Inv, QueuedInv, NEW c \in Clients, Request(c) \/ HandlerStep(c)
    PROVE  QueuedInv'
<1>0. /\ SchedTypeOK /\ RunTypeOK /\ DaemonTypeOK
      /\ handler \in [Clients -> HandlerState]
  BY DEF Inv, TasksOK, DaemonTypeOK
<1>2. ASSUME NEW j \in Jobs, NEW job, job.id = j, Then(c, [pc |-> "enqueue", job |-> job])
      PROVE  Held(j)'
  <2> DEFINE h == [pc |-> "enqueue", job |-> job]
  <2>1. handler'[c] = h
    BY <1>0, <1>2 DEF Then
  <2>2. handler'[c].pc = "enqueue" /\ handler'[c].job.id = j
    BY <1>2, <2>1
  <2>3. HandlerHolds(c, j)'
    BY <2>2 DEF HandlerHolds
  <2>4. QED
    BY <2>3 DEF Held
<1>3. ASSUME NEW j \in Jobs, NEW p \in Priorities, AddDownload(c, j, p) PROVE Held(j)'
  <2> DEFINE job == [id |-> j, priority |-> p, plan |-> "none"]
  <2>1. job.id = j /\ Then(c, [pc |-> "enqueue", job |-> job])
    BY <1>3 DEF AddDownload
  <2> HIDE DEF job
  <2>2. QED
    BY <1>2, <2>1
<1>4. ASSUME NEW j \in Jobs, Retry(c, j) PROVE Held(j)'
  <2>1. CopyOf(j).id = j /\ Then(c, [pc |-> "enqueue", job |-> CopyOf(j)])
    BY <1>4 DEF Retry, CopyOf
  <2>2. QED
    BY <1>2, <2>1
<1>5. ASSUME NEW j \in Jobs, Cancel(c, j) \/ Remove(c, j) PROVE Held(j)'
  <2>1. PICK kind : Then(c, [pc |-> "check", kind |-> kind, id |-> j])
    BY <1>5 DEF Cancel, Remove, Withdraw
  <2>2. handler'[c] = [pc |-> "check", kind |-> kind, id |-> j]
    BY <1>0, <2>1 DEF Then
  <2>3. handler'[c].pc = "check" /\ handler'[c].id = j
    BY <2>2
  <2>4. HandlerHolds(c, j)'
    BY <2>3 DEF HandlerHolds, Withdrawing
  <2>5. QED
    BY <2>4 DEF Held
<1>6. ASSUME NEW j \in Jobs, j \in cancelling PROVE j \in cancelling'
  BY <1>6
  DEF Request, HandlerStep, AddDownload, ChangePriority, Resume, Retry, Pause, Cancel, Remove,
      Withdraw, UpdateSettings, HandlerEnqueues, HandlerSetsLimit, WithdrawChecks, WithdrawMarks,
      WithdrawStops, WithdrawRow, WithdrawDeletes, daemonVars, dbVars, requestVars, limitVars
<1>7. ASSUME NEW j \in Jobs \ stale', db'[j].status = "Queued" PROVE Held(j)'
  <2>1. CASE Retry(c, j) \/ \E p \in Priorities : AddDownload(c, j, p)
    BY <1>3, <1>4, <2>1
  <2>2. CASE Cancel(c, j) \/ Remove(c, j)
    BY <1>5, <2>2
  <2>3. CASE /\ ~ (Retry(c, j) \/ \E p \in Priorities : AddDownload(c, j, p))
             /\ ~ (Cancel(c, j) \/ Remove(c, j))
    <3>1. db[j].status = "Queued" /\ j \notin stale
      BY <1>7, <2>3, ClientStatus
    <3>2. Held(j)
      BY <3>1 DEF QueuedInv
    <3>3. Waiting(j) => Waiting(j)'
      BY <2>3, ClientWaiting
    <3>4. Unfinished(j) => Unfinished(j)'
      BY <1>0, ClientReports, ReportsUnfinished
    <3>5. \A d \in Clients :
              HandlerHolds(d, j) => HandlerHolds(d, j)' \/ Waiting(j)' \/ j \in cancelling'
      BY <1>7, ClientHolds
    <3>6. QED
      BY <1>6, <3>2, <3>3, <3>4, <3>5, HeldKept
  <2>4. QED
    BY <2>1, <2>2, <2>3
<1>8. QED
  BY <1>7 DEF QueuedInv

LEMMA ConsumerQueued == Inv /\ QueuedInv /\ ConsumerStep => QueuedInv'
<1> SUFFICES ASSUME Inv, QueuedInv, ConsumerStep,
                    NEW j \in Jobs \ stale', db'[j].status = "Queued"
             PROVE  Held(j)'
  BY DEF QueuedInv
<1>0. RunTypeOK /\ DaemonTypeOK
  BY DEF Inv, TasksOK
<1>1. UNCHANGED <<cmds, pending, handler>>
  BY DEF ConsumerStep, ConsumeStarted, ConsumeProgress, ConsumePaused, ConsumeCancelled,
         ConsumeCompleted, ConsumeFailed, ConsumerDeletes, ConsumeEvent, schedVars, sentVars,
         sched
<1>2. (Waiting(j) => Waiting(j)') /\ \A c \in Clients : HandlerHolds(c, j) => HandlerHolds(c, j)'
  BY <1>1, SameWaiting DEF HandlerHolds, Withdrawing
<1>3. CASE ConsumerDeletes
  <2>1. UNCHANGED <<db, stale, run, events, cancelling>>
    BY <1>3 DEF ConsumerDeletes, dbVars
  <2>2. Held(j)
    BY <2>1 DEF QueuedInv
  <2>3. Reports
    BY <2>1, SameReports
  <2>4. Unfinished(j) => Unfinished(j)'
    BY <1>0, <2>3, ReportsUnfinished
  <2>5. QED
    BY <1>2, <2>1, <2>2, <2>4, HeldKept
<1>4. CASE ~ ConsumerDeletes
  <2>1. PICK ev :
            /\ ConsumeEvent(ev)
            /\ \A i \in Jobs : i # Head(events).id =>
                   db'[i] = db[i] /\ (i \in stale' <=> i \in stale)
            /\ db'[Head(events).id].status # "Queued"
            /\ Opens(Head(events)) \/ db'[Head(events).id].status # "Active"
                 \/ Head(events).id \in stale'
            /\ \A i \in Jobs : HasRow(i) => HasRow(i)'
    BY <1>0, <1>4, ConsumedRows
  <2>2. j # Head(events).id
    BY <2>1
  <2>3. Held(j)
    BY <2>1, <2>2 DEF QueuedInv
  <2>4. Unfinished(j) => Unfinished(j)'
    BY <1>0, <2>1, <2>2, ConsumedUnfinished
  <2>5. j \in cancelling => j \in cancelling'
    BY <1>4, <2>2 DEF ConsumerStep, ConsumeStarted, ConsumeProgress, ConsumePaused,
                      ConsumeCancelled, ConsumeCompleted, ConsumeFailed
  <2>6. QED
    BY <1>2, <2>3, <2>4, <2>5, HeldKept
<1>5. QED
  BY <1>3, <1>4

LEMMA RunWaiting ==
    ASSUME SchedTypeOK, RunTypeOK, DaemonTypeOK, NEW r \in Runs, RunSteps(r), NEW j \in Jobs
    PROVE  Waiting(j) => Waiting(j)'
<1>1. CASE FreeSlot(r)
  <2> DEFINE cmd == SlotFreed(run[r].job)
  <2>1. cmd \in Command /\ cmd # RemovePending(j)
    BY <1>1, RunFacts, CommandsAreCommands DEF FreeSlot, SlotFreed, RemovePending
  <2>2. Send(cmd) /\ UNCHANGED pending
    BY <1>1 DEF FreeSlot, sched
  <2> HIDE DEF cmd
  <2>3. QED
    BY <2>1, <2>2, SentWaiting
<1>2. CASE ~ FreeSlot(r)
  <2>1. UNCHANGED schedVars
    BY <1>2, RunStepKinds, RunStepBecomes DEF Unlist
  <2>2. QED
    BY <2>1, SameWaiting DEF schedVars, sentVars, sched
<1>3. QED
  BY <1>1, <1>2

LEMMA NextQueued == Inv /\ QueuedInv /\ [Next]_vars => QueuedInv'
<1> SUFFICES ASSUME Inv, QueuedInv, [Next]_vars PROVE QueuedInv'
  OBVIOUS
<1>0. SchedTypeOK /\ RunTypeOK /\ DaemonTypeOK
  BY DEF Inv, TasksOK
<1>1. CASE Restart
  BY <1>1 DEF Restart, Reborn, QueuedInv
<1>2. ASSUME UNCHANGED <<cancelling, handler>>, ~ ConsumerStep, ~ Restart,
             \A j \in Jobs : db'[j].status = db[j].status /\ (j \in stale' <=> j \in stale),
             \A j \in Jobs : Waiting(j) => Waiting(j)' \/ Working(j)'
      PROVE  QueuedInv'
  <2> SUFFICES ASSUME NEW j \in Jobs \ stale', db'[j].status = "Queued" PROVE Held(j)'
    BY DEF QueuedInv
  <2>1. Held(j)
    BY <1>2 DEF QueuedInv
  <2>2. Unfinished(j) => Unfinished(j)'
    BY <1>0, <1>2, NextReports, ReportsUnfinished
  <2>3. \A c \in Clients : HandlerHolds(c, j) => HandlerHolds(c, j)'
    BY <1>2 DEF HandlerHolds, Withdrawing
  <2>4. QED
    BY <1>2, <2>1, <2>2, <2>3, HeldKept
<1>3. ASSUME ~ ConsumerStep, ~ Restart, SchedulerStep PROVE QueuedInv'
  <2>1. \A j \in Jobs : db'[j].status = db[j].status /\ (j \in stale' <=> j \in stale)
    BY <1>3, SchedulerStatus
  <2>2. UNCHANGED <<cancelling, handler>>
    BY <1>3 DEF SchedulerStep, SchedulerSetsPriority, SchedulerStarts, daemonVars
  <2>3. \A j \in Jobs : Waiting(j) => Waiting(j)' \/ Working(j)'
    BY <1>3, SchedulerWaiting
  <2>4. QED
    BY <1>2, <1>3, <2>1, <2>2, <2>3
<1>4. ASSUME ~ ConsumerStep, ~ Restart, UNCHANGED vars \/ TickerStep \/ \E r \in Runs : RunSteps(r)
      PROVE  QueuedInv'
  <2>1. UNCHANGED daemonVars
    BY <1>0, <1>4, RunStepKinds DEF vars, TickerStep
  <2>2. \A j \in Jobs : Waiting(j) => Waiting(j)'
    <3>1. CASE UNCHANGED vars \/ TickerStep
      BY <3>1, SameWaiting DEF vars, TickerStep, RunTick, StrayTick, schedVars, sched
    <3>2. CASE \E r \in Runs : RunSteps(r)
      BY <1>0, <3>2, RunWaiting
    <3>3. QED
      BY <1>4, <3>1, <3>2
  <2>3. QED
    BY <1>2, <1>4, <2>1, <2>2 DEF daemonVars, dbVars
<1>5. QED
  BY <1>1, <1>3, <1>4, ClientQueued, ConsumerQueued DEF Next, RunSteps

(* No job that says Queued is forgotten: a handler, the channel, the heap  *)
(* or a task still has it, or it is one that a late mark took out of the   *)
(* queue, or its row is from an earlier process.                           *)
THEOREM QueuedHeld == Spec => []QueuedIsHeld
<1>1. Init => QueuedInv
  BY DEF Init, NoRow, QueuedInv
<1>2. Inv /\ QueuedInv => QueuedIsHeld
  <2> SUFFICES ASSUME Inv, QueuedInv, NEW j \in Jobs \ stale, db[j].status = "Queued"
               PROVE  AwaitsSlot(j) \/ Unfinished(j) \/ BeingWithdrawn(j) \/ j \in cancelling
    BY DEF QueuedIsHeld
  <2>1. Held(j)
    BY DEF QueuedInv
  <2>2. Waiting(j) => AwaitsSlot(j)
    BY DEF Waiting, Waits, InHeap, AwaitsSlot, EnqueueInChannel, IsQueued
  <2>3. ASSUME NEW c \in Clients, HandlerHolds(c, j) PROVE AwaitsSlot(j) \/ BeingWithdrawn(j)
    <3>1. handler[c] \in HandlerState
      BY DEF Inv, DaemonTypeOK
    <3>2. CASE Withdrawing(c, j)
      <4>1. handler[c].pc \in WithdrawPcs /\ handler[c].id = j
        BY <3>2 DEF Withdrawing, WithdrawPcs
      <4>2. "id" \in DOMAIN handler[c]
        BY <3>1, <4>1 DEF HandlerState, WithdrawPcs, AtRest
      <4>3. QED
        BY <4>1, <4>2 DEF BeingWithdrawn
    <3>3. QED
      BY <2>3, <3>2 DEF HandlerHolds, AwaitsSlot, BeingQueued
  <2>4. QED
    BY <2>1, <2>2, <2>3 DEF Held
<1>3. QED
  BY <1>1, <1>2, NextQueued, InvAlways, PTL DEF Spec
-----------------------------------------------------------------------------
(* Withdrawals. A job that is being withdrawn, or whose row is gone, has   *)
(* no copy that waits and no handler about to send one, unless two         *)
(* connections crossed.                                                    *)

Withdraws(c, j) == handler[c].pc \in WithdrawPcs /\ handler[c].id = j
Queues(c, j) == handler[c].pc = "enqueue" /\ handler[c].job.id = j
AheadOf(j) ==
    /\ BeingDropped(j) => j \in used
    /\ \/ j \in crossed
       \/ BeingDropped(j) \/ IsGone(j) => ~ BeingQueued(j) /\ ~ Waiting(j)
Ahead == \A j \in Jobs : AheadOf(j)

LEMMA AheadIs == Ahead => WithdrawnAhead
  BY WithdrawnIs DEF Ahead, AheadOf, WithdrawnAhead

LEMMA DroppedIs ==
    ASSUME NEW j \in Jobs
    PROVE  /\ BeingDropped(j) <=> \E c \in Clients : Withdraws(c, j)
           /\ BeingQueued(j) <=> \E c \in Clients : Queues(c, j)
           /\ BeingDropped(j)' <=> \E c \in Clients : Withdraws(c, j)'
           /\ BeingQueued(j)' <=> \E c \in Clients : Queues(c, j)'
  BY DEF BeingDropped, BeingQueued, Withdraws, Queues, WithdrawPcs

LEMMA AheadKept ==
    ASSUME Ahead, NEW j \in Jobs, j \in used => j \in used', j \in crossed => j \in crossed',
           \A c \in Clients : Withdraws(c, j)' => Withdraws(c, j),
           \A c \in Clients : Queues(c, j)' => Queues(c, j),
           IsGone(j)' => IsGone(j) \/ BeingDropped(j),
           Waiting(j)' => Waiting(j)
    PROVE  AheadOf(j)'
<1>1. (BeingDropped(j)' => BeingDropped(j)) /\ (BeingQueued(j)' => BeingQueued(j))
  BY DroppedIs
<1>2. AheadOf(j)
  BY DEF Ahead
<1>3. QED
  BY <1>1, <1>2 DEF AheadOf

(* What a request makes of the handler of its connection.                  *)
LEMMA AskedHandler ==
    ASSUME NEW c \in Clients, DaemonTypeOK, NEW h, handler[c] = AtRest, Then(c, h),
           NEW j \in Jobs
    PROVE  /\ handler'[c] = h
           /\ ~ Withdraws(c, j) /\ ~ Queues(c, j)
  BY DEF Then, DaemonTypeOK, Withdraws, Queues, WithdrawPcs, AtRest

LEMMA RequestAhead ==
    ASSUME Inv, Ahead, NEW c \in Clients, Request(c), NEW j \in Jobs
    PROVE  AheadOf(j)'
<1>0. /\ SchedTypeOK /\ DaemonTypeOK /\ db \in [Jobs -> Row \cup {NoRow}]
      /\ \A d \in Clients \ {c} : handler'[d] = handler[d]
      /\ AheadOf(j)
  BY OtherHandlers DEF Inv, TasksOK, DaemonTypeOK, Ahead
<1>1. ASSUME NEW d \in Clients \ {c}
      PROVE  /\ Withdraws(d, j)' <=> Withdraws(d, j)
             /\ Queues(d, j)' <=> Queues(d, j)
  BY <1>0 DEF Withdraws, Queues
<1>2. ASSUME ~ Withdraws(c, j)', ~ Queues(c, j)', UNCHANGED <<db, used, crossed>>,
             Waiting(j)' => Waiting(j)
      PROVE  AheadOf(j)'
  BY <1>1, <1>2, AheadKept DEF IsGone, HasRow
<1>3. ASSUME NEW i \in Jobs, NEW p \in Priorities, AddDownload(c, i, p) PROVE AheadOf(j)'
  <2> DEFINE h == [pc |-> "enqueue", job |-> [id |-> i, priority |-> p, plan |-> "none"]]
  <2>1. /\ handler[c] = AtRest /\ Then(c, h) /\ i \notin used /\ used' = used \cup {i}
        /\ db' = [db EXCEPT ![i] = [status |-> "Queued", priority |-> p, plan |-> "none"]]
        /\ UNCHANGED <<cmds, pending, crossed>>
    BY <1>3 DEF AddDownload, Asks, schedVars, sched
  <2>2. handler'[c] = h /\ ~ Withdraws(c, j) /\ ~ Queues(c, j)
    BY <1>0, <2>1, AskedHandler
  <2>3. ~ Withdraws(c, j)' /\ (Queues(c, j)' => i = j)
    BY <2>2 DEF Withdraws, Queues, WithdrawPcs
  <2>4. Waiting(j)' <=> Waiting(j)
    BY <2>1, SameWaiting
  <2>5. CASE i # j
    <3>1. db'[j] = db[j] /\ (j \in used' <=> j \in used)
      BY <1>0, <2>1, <2>5
    <3>2. IsGone(j)' => IsGone(j)
      BY <3>1 DEF IsGone, HasRow
    <3>3. QED
      BY <1>1, <2>1, <2>3, <2>4, <2>5, <3>1, <3>2, AheadKept
  <2>6. CASE i = j
    <3>1. ~ BeingDropped(j)'
      BY <1>0, <1>1, <2>1, <2>3, <2>6, DroppedIs DEF AheadOf
    <3>2. db'[j].status = "Queued"
      BY <1>0, <2>1, <2>6
    <3>3. ~ IsGone(j)'
      BY <3>2 DEF IsGone, HasRow, NoRow
    <3>4. QED
      BY <3>1, <3>3 DEF AheadOf
  <2>7. QED
    BY <2>5, <2>6
<1>4. ASSUME NEW i \in Jobs, Resume(c, i) \/ Retry(c, i) PROVE AheadOf(j)'
  <2> DEFINE h == [pc |-> "enqueue", job |-> CopyOf(i)]
  <2>1. /\ handler[c] = AtRest /\ Then(c, h) /\ HasRow(i)
        /\ UNCHANGED db \/ db' = Updated(i, "Queued")
        /\ crossed' = (IF BeingDropped(i) THEN crossed \cup {i} ELSE crossed)
        /\ UNCHANGED <<cmds, pending, used>>
    BY <1>4 DEF Resume, Retry, Asks, NoteCrossing, SetStatus, schedVars, sched, dbVars
  <2>2. handler'[c] = h /\ ~ Withdraws(c, j) /\ ~ Queues(c, j)
    BY <1>0, <2>1, AskedHandler
  <2>3. ~ Withdraws(c, j)' /\ (Queues(c, j)' => i = j)
    BY <2>2 DEF Withdraws, Queues, WithdrawPcs, CopyOf
  <2>4. Waiting(j)' <=> Waiting(j)
    BY <2>1, SameWaiting
  <2>5. HasRow(j) => HasRow(j)'
    <3>1. CASE UNCHANGED db
      BY <3>1 DEF HasRow
    <3>2. CASE db' = Updated(i, "Queued")
      BY <1>0, <3>2, RowsKept, StatusFacts
    <3>3. QED
      BY <2>1, <3>1, <3>2
  <2>6. IsGone(j)' => IsGone(j)
    BY <2>1, <2>5 DEF IsGone
  <2>7. CASE i # j
    BY <1>1, <2>1, <2>3, <2>4, <2>6, <2>7, AheadKept
  <2>8. CASE i = j
    <3>1. ~ IsGone(j)'
      BY <2>1, <2>5, <2>8 DEF IsGone
    <3>2. BeingDropped(j)' => BeingDropped(j) /\ j \in crossed'
      BY <1>1, <2>1, <2>3, <2>8, DroppedIs
    <3>3. QED
      BY <1>0, <2>1, <3>1, <3>2 DEF AheadOf
  <2>9. QED
    BY <2>7, <2>8
<1>5. ASSUME NEW i \in Jobs, Cancel(c, i) \/ Remove(c, i) PROVE AheadOf(j)'
  <2>1. PICK kind : Withdraw(c, i, kind) /\ i \in used
    BY <1>5 DEF Cancel, Remove, Offered
  <2> DEFINE h == [pc |-> "check", kind |-> kind, id |-> i]
             cmd == RemovePending(i)
  <2>2. /\ handler[c] = AtRest /\ Then(c, h)
        /\ crossed' = (IF BeingQueued(i) THEN crossed \cup {i} ELSE crossed \ {i})
        /\ Send(cmd) /\ UNCHANGED <<pending, used, db>>
    BY <2>1 DEF Withdraw, Asks, NoteWithdrawal, ClientSend, sched, dbVars
  <2>3. handler'[c] = h /\ ~ Withdraws(c, j) /\ ~ Queues(c, j)
    BY <1>0, <2>2, AskedHandler
  <2>4. (Withdraws(c, j)' => i = j) /\ ~ Queues(c, j)'
    BY <2>3 DEF Withdraws, Queues, WithdrawPcs
  <2>5. cmd \in Command /\ cmd.op # "Enqueue"
    BY CommandsAreCommands DEF RemovePending
  <2>6. Waiting(j)' => Waiting(j)
    BY <1>0, <2>2, <2>5, SentWaiting
  <2>7. IsGone(j)' => IsGone(j)
    BY <2>2 DEF IsGone, HasRow
  <2>8. CASE i # j
    BY <1>1, <2>2, <2>4, <2>6, <2>7, <2>8, AheadKept
  <2>9. CASE i = j
    <3>1. ~ Waiting(j)'
      BY <1>0, <2>2, <2>5, <2>9, SentWaiting
    <3>2. BeingQueued(j)' => j \in crossed'
      BY <1>1, <2>2, <2>4, <2>9, DroppedIs
    <3>3. j \in used'
      BY <2>1, <2>2, <2>9
    <3>4. QED
      BY <3>1, <3>2, <3>3 DEF AheadOf
  <2>10. QED
    BY <2>8, <2>9
<1>6. ASSUME NEW n \in Limits, UpdateSettings(c, n) PROVE AheadOf(j)'
  <2> DEFINE h == [pc |-> "limit", n |-> n]
  <2>1. handler[c] = AtRest /\ Then(c, h) /\ UNCHANGED <<cmds, pending, db, used, crossed>>
    BY <1>6 DEF UpdateSettings, Asks, schedVars, sched, dbVars, requestVars
  <2>2. handler'[c] = h
    BY <1>0, <2>1, AskedHandler
  <2>3. ~ Withdraws(c, j)' /\ ~ Queues(c, j)'
    BY <2>2 DEF Withdraws, Queues, WithdrawPcs
  <2>4. QED
    BY <1>2, <2>1, <2>3, SameWaiting
<1>7. ASSUME NEW i \in Jobs, Pause(c, i) \/ \E p \in Priorities : ChangePriority(c, i, p)
      PROVE  AheadOf(j)'
  <2>1. handler[c] = AtRest /\ UNCHANGED <<handler, pending, db, used, crossed>>
    BY <1>7
    DEF Pause, ChangePriority, Asks, daemonVars, dbVars, requestVars, schedVars, sched
  <2>2. ~ Withdraws(c, j)' /\ ~ Queues(c, j)'
    BY <2>1 DEF Withdraws, Queues, WithdrawPcs, AtRest
  <2>3. CASE Pause(c, i)
    BY <1>2, <2>1, <2>2, <2>3, SameWaiting DEF Pause, schedVars
  <2>4. ASSUME NEW p \in Priorities, ChangePriority(c, i, p) PROVE AheadOf(j)'
    <3> DEFINE cmd == SetPriority(i, p)
    <3>1. cmd \in Command /\ cmd.op # "Enqueue" /\ Send(cmd)
      BY <2>4, CommandsAreCommands DEF ChangePriority, ClientSend, SetPriority
    <3> HIDE DEF cmd
    <3>2. Waiting(j)' => Waiting(j)
      BY <1>0, <2>1, <3>1, SentWaiting
    <3>3. QED
      BY <1>2, <2>1, <2>2, <3>2
  <2>5. QED
    BY <1>7, <2>3, <2>4
<1>8. QED
  BY <1>3, <1>4, <1>5, <1>6, <1>7 DEF Request

LEMMA HandlerAhead ==
    ASSUME Inv, Ahead, NEW c \in Clients, HandlerStep(c), NEW j \in Jobs
    PROVE  AheadOf(j)'
<1>0. /\ SchedTypeOK /\ DaemonTypeOK /\ handler \in [Clients -> HandlerState]
      /\ handler[c] \in HandlerState /\ db \in [Jobs -> Row \cup {NoRow}]
      /\ \A d \in Clients \ {c} : handler'[d] = handler[d]
      /\ AheadOf(j)
  BY OtherHandlers DEF Inv, TasksOK, DaemonTypeOK, Ahead
<1>1. ASSUME NEW d \in Clients \ {c}
      PROVE  /\ Withdraws(d, j)' <=> Withdraws(d, j)
             /\ Queues(d, j)' <=> Queues(d, j)
  BY <1>0 DEF Withdraws, Queues
<1>2. UNCHANGED <<used, crossed>>
  BY DEF HandlerStep, HandlerEnqueues, HandlerSetsLimit, WithdrawChecks, WithdrawMarks,
         WithdrawStops, WithdrawRow, WithdrawDeletes, requestVars
<1>3. ASSUME Withdraws(c, j)' => Withdraws(c, j), ~ Queues(c, j)',
             IsGone(j)' => IsGone(j) \/ BeingDropped(j), Waiting(j)' => Waiting(j)
      PROVE  AheadOf(j)'
  BY <1>1, <1>2, <1>3, AheadKept
<1>4. ASSUME Then(c, AtRest) PROVE ~ Withdraws(c, j)' /\ ~ Queues(c, j)'
  BY <1>0, <1>4 DEF Then, Withdraws, Queues, WithdrawPcs, AtRest
<1>5. CASE HandlerEnqueues(c)
  <2> DEFINE cmd == Enqueue(handler[c].job)
  <2>1. /\ handler[c].pc = "enqueue" /\ Then(c, AtRest) /\ Send(cmd)
        /\ UNCHANGED <<pending, db>>
    BY <1>5 DEF HandlerEnqueues, ClientSend, sched, dbVars
  <2>2. cmd \in Command /\ (cmd.op = "Enqueue" /\ cmd.job.id = j <=> Queues(c, j))
    BY <1>0, <2>1, HandlerKinds, CommandsAreCommands DEF Enqueue, Queues
  <2>3. ~ Withdraws(c, j)' /\ ~ Queues(c, j)'
    BY <1>4, <2>1
  <2>4. IsGone(j)' => IsGone(j)
    BY <1>2, <2>1 DEF IsGone, HasRow
  <2> HIDE DEF cmd
  <2>5. CASE ~ Queues(c, j)
    <3>1. Waiting(j)' => Waiting(j)
      BY <1>0, <2>1, <2>2, <2>5, SentWaiting
    <3>2. QED
      BY <1>3, <2>3, <2>4, <3>1
  <2>6. CASE Queues(c, j)
    <3>1. BeingQueued(j)
      BY <2>6, DroppedIs
    <3>2. BeingDropped(j)' => BeingDropped(j)
      BY <1>1, <2>3, DroppedIs
    <3>3. QED
      BY <1>0, <1>2, <2>4, <3>1, <3>2 DEF AheadOf
  <2>7. QED
    BY <2>5, <2>6
<1>6. CASE HandlerSetsLimit(c)
  <2> DEFINE cmd == SetMaxConcurrent(handler[c].n)
  <2>1. /\ handler[c].pc = "limit" /\ Then(c, AtRest) /\ Send(cmd)
        /\ UNCHANGED <<pending, db>>
    BY <1>6 DEF HandlerSetsLimit, ClientSend, sched, dbVars
  <2>2. cmd \in Command /\ cmd.op # "Enqueue"
    BY <1>0, <2>1, HandlerKinds, CommandsAreCommands DEF SetMaxConcurrent
  <2> HIDE DEF cmd
  <2>3. Waiting(j)' => Waiting(j)
    BY <1>0, <2>1, <2>2, SentWaiting
  <2>4. IsGone(j)' => IsGone(j)
    BY <1>2, <2>1 DEF IsGone, HasRow
  <2>5. QED
    BY <1>3, <1>4, <2>1, <2>3, <2>4
<1>7. CASE WithdrawDeletes(c)
  <2>1. Then(c, AtRest) /\ UNCHANGED <<cmds, pending, db>>
    BY <1>7 DEF WithdrawDeletes, schedVars, sched, dbVars
  <2>2. IsGone(j)' => IsGone(j)
    BY <1>2, <2>1 DEF IsGone, HasRow
  <2>3. QED
    BY <1>3, <1>4, <2>1, <2>2, SameWaiting
<1>8. CASE WithdrawRow(c)
  <2> DEFINE i == handler[c].id
             f == [pc |-> "files", id |-> i, plan |-> db[i].plan]
  <2>1. i \in Jobs /\ Withdraws(c, i)
    BY <1>0, <1>8, HandlerKinds DEF WithdrawRow, Withdraws, WithdrawPcs
  <2>2. /\ Then(c, f) \/ Then(c, AtRest)
        /\ db' = Updated(i, "Cancelled") \/ db' = [db EXCEPT ![i] = NoRow]
        /\ UNCHANGED <<cmds, pending>>
    BY <1>8 DEF WithdrawRow, SetStatus, schedVars, sched
  <2>3. ~ Withdraws(c, j)' /\ ~ Queues(c, j)'
    <3>1. CASE Then(c, f)
      BY <1>0, <3>1 DEF Then, Withdraws, Queues, WithdrawPcs
    <3>2. QED
      BY <1>4, <2>2, <3>1
  <2>4. i # j => db'[j] = db[j]
    BY <1>0, <2>1, <2>2, UpdatedRows
  <2>5. IsGone(j)' => IsGone(j) \/ BeingDropped(j)
    <3>1. i # j => (IsGone(j)' => IsGone(j))
      BY <1>2, <2>4 DEF IsGone, HasRow
    <3>2. i = j => BeingDropped(j)
      BY <2>1, DroppedIs
    <3>3. QED
      BY <3>1, <3>2
  <2>6. QED
    BY <1>3, <2>2, <2>3, <2>5, SameWaiting
<1>9. CASE WithdrawChecks(c) \/ WithdrawMarks(c) \/ WithdrawStops(c)
  <2>1. handler[c].pc \in WithdrawPcs
    BY <1>9 DEF WithdrawChecks, WithdrawMarks, WithdrawStops, WithdrawPcs
  <2>2. \/ Then(c, AtRest)
        \/ \E pc \in {"mark", "stop", "row"} : Then(c, [handler[c] EXCEPT !.pc = pc])
    BY <1>9 DEF WithdrawChecks, WithdrawMarks, WithdrawStops
  <2>3. UNCHANGED <<cmds, pending, db>>
    BY <1>9 DEF WithdrawChecks, WithdrawMarks, WithdrawStops, schedVars, sched, dbVars
  <2>4. IsGone(j)' => IsGone(j)
    BY <1>2, <2>3 DEF IsGone, HasRow
  <2>5. ASSUME NEW pc \in {"mark", "stop", "row"}, Then(c, [handler[c] EXCEPT !.pc = pc])
        PROVE  (Withdraws(c, j)' => Withdraws(c, j)) /\ ~ Queues(c, j)'
    <3>1. /\ [handler[c] EXCEPT !.pc = pc].id = handler[c].id
          /\ [handler[c] EXCEPT !.pc = pc].pc = pc
      BY <1>0, <2>1 DEF HandlerState, WithdrawPcs, AtRest
    <3>2. QED
      BY <1>0, <2>1, <2>5, <3>1 DEF Then, Withdraws, Queues
  <2>6. QED
    BY <1>3, <1>4, <2>2, <2>3, <2>4, <2>5, SameWaiting
<1>10. QED
  BY <1>5, <1>6, <1>7, <1>8, <1>9 DEF HandlerStep

LEMMA NextAhead == Inv /\ Ahead /\ [Next]_vars => Ahead'
<1> SUFFICES ASSUME Inv, Ahead, [Next]_vars, NEW j \in Jobs PROVE AheadOf(j)'
  BY DEF Ahead
<1>0. SchedTypeOK /\ RunTypeOK /\ DaemonTypeOK
  BY DEF Inv, TasksOK
<1>1. ASSUME UNCHANGED <<handler, used, crossed>>, HasRow(j) => HasRow(j)',
             Waiting(j)' => Waiting(j)
      PROVE  AheadOf(j)'
  BY <1>1, AheadKept DEF Withdraws, Queues, IsGone
<1>2. ASSUME UNCHANGED <<cmds, pending, handler, used, crossed, db>> PROVE AheadOf(j)'
  BY <1>1, <1>2, SameWaiting DEF HasRow
<1>3. CASE UNCHANGED vars
  BY <1>2, <1>3 DEF vars, schedVars, sched, daemonVars, dbVars, requestVars
<1>4. CASE SchedulerStep
  <2>1. UNCHANGED <<handler, used, crossed>>
    BY <1>4 DEF SchedulerStep, SchedulerSetsPriority, SchedulerStarts, daemonVars, requestVars
  <2>2. HasRow(j) => HasRow(j)'
    BY <1>0, <1>4, SchedulerStatus, RowKept
  <2>3. QED
    BY <1>1, <1>4, <2>1, <2>2, SchedulerWaiting
<1>5. ASSUME NEW r \in Runs, RunSteps(r) PROVE AheadOf(j)'
  <2>1. UNCHANGED <<handler, used, crossed, db>>
    BY <1>0, <1>5, RunStepKinds DEF daemonVars, dbVars, requestVars
  <2>2. CASE FreeSlot(r)
    <3> DEFINE cmd == SlotFreed(run[r].job)
    <3>1. cmd \in Command /\ cmd.op # "Enqueue"
      BY <1>0, <2>2, RunFacts, CommandsAreCommands DEF FreeSlot, SlotFreed
    <3>2. Send(cmd) /\ UNCHANGED pending
      BY <2>2 DEF FreeSlot, sched
    <3> HIDE DEF cmd
    <3>3. Waiting(j)' => Waiting(j)
      BY <1>0, <3>1, <3>2, SentWaiting
    <3>4. QED
      BY <1>1, <2>1, <3>3 DEF HasRow
  <2>3. CASE ~ FreeSlot(r)
    <3>1. UNCHANGED schedVars
      BY <1>0, <1>5, <2>3, RunStepKinds, RunStepBecomes DEF Unlist
    <3>2. QED
      BY <1>2, <2>1, <3>1 DEF schedVars, sched
  <2>4. QED
    BY <2>2, <2>3
<1>6. CASE TickerStep
  BY <1>2, <1>6
  DEF TickerStep, RunTick, StrayTick, schedVars, sched, daemonVars, dbVars, requestVars
<1>7. CASE ConsumerStep
  <2>1. UNCHANGED <<cmds, pending, handler, used, crossed>>
    BY <1>7
    DEF ConsumerStep, ConsumeStarted, ConsumeProgress, ConsumePaused, ConsumeCancelled,
        ConsumeCompleted, ConsumeFailed, ConsumerDeletes, ConsumeEvent, schedVars, sched,
        requestVars
  <2>2. HasRow(j) => HasRow(j)'
    <3>1. CASE ConsumerDeletes
      BY <3>1 DEF ConsumerDeletes, HasRow, dbVars
    <3>2. CASE ~ ConsumerDeletes
      BY <1>0, <1>7, <3>2, ConsumedRows
    <3>3. QED
      BY <3>1, <3>2
  <2>3. QED
    BY <1>1, <2>1, <2>2, SameWaiting
<1>8. CASE Restart
  <2>1. cmds' = <<>> /\ pending' = {} /\ handler' = [c \in Clients |-> AtRest]
    BY <1>8 DEF Restart, Reborn
  <2>2. ~ Waiting(j)'
    BY <2>1 DEF Waiting, Waits, InHeap
  <2>3. \A c \in Clients : ~ Withdraws(c, j)' /\ ~ Queues(c, j)'
    BY <2>1 DEF Withdraws, Queues, WithdrawPcs, AtRest
  <2>4. QED
    BY <2>2, <2>3, DroppedIs DEF AheadOf
<1>9. QED
  BY <1>3, <1>4, <1>5, <1>6, <1>7, <1>8, RequestAhead, HandlerAhead DEF Next, RunSteps

(* While a connection works on a CANCEL or a REMOVE, and for good once a   *)
(* row is gone, every copy of the job that waits is behind a RemovePending *)
(* and no handler is about to send one: whatever the other connections do, *)
(* but for a job one of them queued while another was withdrawing it.      *)
THEOREM WithdrawalGoesAhead == Spec => []WithdrawnAhead
<1>1. Init => Ahead
  BY DEF Init, Ahead, AheadOf, BeingDropped, IsGone, AtRest
<1>2. QED
  BY <1>1, NextAhead, AheadIs, InvAlways, PTL DEF Spec
-----------------------------------------------------------------------------
(* The slots: what module Scheduler promises for any runs that end, for    *)
(* the tasks the bridge starts.                                            *)

HasTask(j) == \E r \in Runs : RunningJob(r, j)
SlotsInv == \A j \in running : HasTask(j) \/ InChan(SlotFreed(j))

LEMMA ReceivedChan ==
    ASSUME SchedTypeOK, NEW op, Recv(op), NEW cmd, InChan(cmd)
    PROVE  InChan(cmd)' \/ Head(cmds) = cmd
<1>1. /\ cmds' = Tail(cmds) /\ Head(cmds) = cmds[1]
      /\ Len(cmds) \in Nat \ {0} /\ DOMAIN cmds = 1 .. Len(cmds)
      /\ DOMAIN cmds' = 1 .. Len(cmds) - 1
      /\ \A i \in 1 .. Len(cmds) - 1 : cmds'[i] = cmds[i + 1]
  BY ReceivedFacts, TailFacts
<1>2. PICK i \in DOMAIN cmds : cmds[i] = cmd
  BY DEF InChan
<1>3. CASE i = 1
  BY <1>1, <1>2, <1>3
<1>4. CASE i # 1
  <2>1. i - 1 \in DOMAIN cmds' /\ cmds'[i - 1] = cmd
    BY <1>1, <1>2, <1>4
  <2>2. QED
    BY <2>1 DEF InChan
<1>5. QED
  BY <1>3, <1>4

LEMMA SentChan ==
    ASSUME SchedTypeOK, NEW c \in Command, Send(c)
    PROVE  InChan(c)' /\ \A cmd : InChan(cmd) => InChan(cmd)'
<1>1. /\ DOMAIN cmds = 1 .. Len(cmds) /\ Len(cmds) \in Nat
      /\ DOMAIN cmds' = 1 .. Len(cmds) + 1
      /\ \A i \in 1 .. Len(cmds) : cmds'[i] = cmds[i]
      /\ cmds'[Len(cmds) + 1] = c
  BY AppendFacts DEF SchedTypeOK, Send
<1>2. \E i \in DOMAIN cmds' : cmds'[i] = c
  <2>1. Len(cmds) + 1 \in DOMAIN cmds'
    BY <1>1
  <2>2. QED
    BY <1>1, <2>1
<1>3. \A i \in DOMAIN cmds : i \in DOMAIN cmds' /\ cmds'[i] = cmds[i]
  BY <1>1
<1>4. QED
  BY <1>2, <1>3 DEF InChan

LEMMA SlotsKept ==
    ASSUME SlotsInv, UNCHANGED running, \A j \in Jobs : HasTask(j) => HasTask(j)',
           \A cmd : InChan(cmd) => InChan(cmd)', running \in SUBSET Jobs
    PROVE  SlotsInv'
  BY DEF SlotsInv, SlotFreed

LEMMA SchedulerSlots == Inv /\ SlotsInv /\ SchedulerStep => SlotsInv'
<1> SUFFICES ASSUME SchedTypeOK, RunTypeOK, Room, SlotsInv, SchedulerStep PROVE SlotsInv'
  BY DEF Inv, TasksOK
<1>1. CASE SchedulerStarts
  <2>1. PICK q \in pending : StartDownload(q)
    BY <1>1 DEF SchedulerStarts
  <2>2. PICK r \in Runs :
            /\ ~ Busy(r)
            /\ run' = [run EXCEPT ![r] =
                          [phase |-> "begin", job |-> q.job.id, plan |-> q.job.plan,
                           multi |-> FALSE, tries |-> 0, stop |-> FALSE]]
    BY <2>1, StartFacts
  <2>3. run'[r].job = q.job.id /\ run'[r] # Idle /\ \A k \in Runs \ {r} : run'[k] = run[k]
    BY <2>2 DEF RunTypeOK, Idle
  <2>4. running' = running \cup {q.job.id} /\ UNCHANGED cmds
    BY <2>1 DEF StartDownload, Dispatch
  <2>5. SUFFICES ASSUME NEW j \in running' PROVE HasTask(j)' \/ InChan(SlotFreed(j))'
    BY DEF SlotsInv
  <2>6. CASE j = q.job.id
    BY <2>3, <2>6 DEF HasTask, RunningJob, Busy
  <2>7. CASE j \in running
    <3>1. HasTask(j) => HasTask(j)'
      BY <2>2, <2>3 DEF HasTask, RunningJob, Busy
    <3>2. InChan(SlotFreed(j)) => InChan(SlotFreed(j))'
      BY <2>4 DEF InChan, SlotFreed
    <3>3. QED
      BY <2>7, <3>1, <3>2 DEF SlotsInv
  <2>8. QED
    BY <2>4, <2>5, <2>6, <2>7
<1>2. CASE ~ SchedulerStarts
  <2>1. UNCHANGED run
    BY <1>2 DEF SchedulerStep, SchedulerSetsPriority, runVars
  <2>2. \A j : HasTask(j)' <=> HasTask(j)
    BY <2>1 DEF HasTask, RunningJob, Busy
  <2>3. CASE DispatchDone
    BY <2>2, <2>3 DEF DispatchDone, SlotsInv, InChan, SlotFreed
  <2>4. CASE RecvSlotFreed
    <3>1. Recv("SlotFreed") /\ running' = running \ {Head(cmds).id}
      BY <2>4 DEF RecvSlotFreed
    <3>2. ASSUME NEW j \in running' PROVE HasTask(j)' \/ InChan(SlotFreed(j))'
      <4>1. j \in running /\ Head(cmds) # SlotFreed(j)
        BY <3>1, <3>2 DEF SlotFreed
      <4>2. InChan(SlotFreed(j)) => InChan(SlotFreed(j))'
        <5>1. PICK cmd : cmd = SlotFreed(j)
          OBVIOUS
        <5>2. InChan(cmd) => InChan(cmd)'
          BY <3>1, <4>1, <5>1, ReceivedChan
        <5>3. QED
          BY <5>1, <5>2 DEF SlotFreed
      <4>3. QED
        BY <2>2, <4>1, <4>2 DEF SlotsInv
    <3>3. QED
      BY <3>2 DEF SlotsInv
  <2>5. CASE RecvEnqueue \/ RecvSetMaxConcurrent \/ RecvRemovePending \/ RecvSetPriority
    <3>1. PICK op \in {"Enqueue", "SetMaxConcurrent", "RemovePending", "SetPriority"} : Recv(op)
      BY <2>5 DEF RecvEnqueue, RecvSetMaxConcurrent, RecvRemovePending, RecvSetPriority
    <3>2. UNCHANGED running
      BY <2>5 DEF RecvEnqueue, RecvSetMaxConcurrent, RecvRemovePending, RecvSetPriority
    <3>3. ASSUME NEW j \in running' PROVE HasTask(j)' \/ InChan(SlotFreed(j))'
      <4>1. j \in running /\ Head(cmds) # SlotFreed(j)
        BY <3>1, <3>2 DEF SlotFreed, Recv
      <4>2. InChan(SlotFreed(j)) => InChan(SlotFreed(j))'
        <5>1. PICK cmd : cmd = SlotFreed(j)
          OBVIOUS
        <5>2. InChan(cmd) => InChan(cmd)'
          BY <3>1, <4>1, <5>1, ReceivedChan
        <5>3. QED
          BY <5>1, <5>2 DEF SlotFreed
      <4>3. QED
        BY <2>2, <4>1, <4>2 DEF SlotsInv
    <3>4. QED
      BY <3>3 DEF SlotsInv
  <2>6. QED
    BY <1>2, <2>3, <2>4, <2>5 DEF SchedulerStep, SchedulerSetsPriority
<1>3. QED
  BY <1>1, <1>2

LEMMA SameTasksSlots ==
    ASSUME SchedTypeOK, SlotsInv, SameTasks, UNCHANGED running,
           UNCHANGED cmds \/ \E c \in Command : Send(c)
    PROVE  SlotsInv'
<1>1. \A j \in Jobs : HasTask(j) => HasTask(j)'
  BY DEF SameTasks, HasTask, RunningJob, Busy
<1>2. \A cmd : InChan(cmd) => InChan(cmd)'
  <2>1. CASE UNCHANGED cmds
    BY <2>1 DEF InChan
  <2>2. CASE \E c \in Command : Send(c)
    BY <2>2, SentChan
  <2>3. QED
    BY <2>1, <2>2
<1>3. QED
  BY <1>1, <1>2, SlotsKept DEF SchedTypeOK

LEMMA NextSlots == Inv /\ SlotsInv /\ [Next]_vars => SlotsInv'
<1> SUFFICES ASSUME Inv, SlotsInv, [Next]_vars PROVE SlotsInv'
  OBVIOUS
<1>0. SchedTypeOK /\ RunTypeOK /\ DaemonTypeOK /\ TasksOK /\ TokenIsHeld
  BY DEF Inv, TasksOK
<1>1. ASSUME UNCHANGED schedVars, SameTasks PROVE SlotsInv'
  BY <1>0, <1>1, SameTasksSlots DEF schedVars, sentVars, sched
<1>2. ASSUME UNCHANGED schedVars, UNCHANGED run PROVE SlotsInv'
  BY <1>1, <1>2 DEF SameTasks, Busy
<1>3. CASE UNCHANGED vars
  BY <1>2, <1>3 DEF vars, runVars
<1>4. CASE TickerStep
  BY <1>2, <1>4 DEF TickerStep, RunTick, StrayTick
<1>5. CASE ConsumerStep
  BY <1>0, <1>2, <1>5, ConsumerTyped
<1>6. ASSUME NEW r \in Runs, RunSteps(r) PROVE SlotsInv'
  <2>1. CASE FreeSlot(r)
    <3>1. PICK j \in Jobs : run[r].job = j
      BY <1>0, <2>1, RunFacts DEF FreeSlot
    <3>2. Send(SlotFreed(j)) /\ UNCHANGED running /\ \A k \in Runs \ {r} : run'[k] = run[k]
      BY <1>0, <2>1, <3>1 DEF FreeSlot, sched, RunTypeOK
    <3>3. InChan(SlotFreed(j))' /\ \A cmd : InChan(cmd) => InChan(cmd)'
      BY <1>0, <3>2, SentChan, CommandsAreCommands
    <3>4. \A i \in Jobs : i # j /\ HasTask(i) => HasTask(i)'
      BY <3>1, <3>2 DEF HasTask, RunningJob, Busy
    <3>5. ASSUME NEW i \in running' PROVE HasTask(i)' \/ InChan(SlotFreed(i))'
      <4>1. i \in running /\ i \in Jobs
        BY <1>0, <3>2, <3>5 DEF SchedTypeOK
      <4>2. CASE i = j
        BY <3>3, <4>2
      <4>3. CASE i # j
        <5>1. PICK cmd : cmd = SlotFreed(i)
          OBVIOUS
        <5>2. InChan(cmd) => InChan(cmd)'
          BY <3>3
        <5>3. InChan(SlotFreed(i)) => InChan(SlotFreed(i))'
          BY <5>1, <5>2 DEF SlotFreed
        <5>4. QED
          BY <3>4, <4>1, <4>3, <5>3 DEF SlotsInv
      <4>4. QED
        BY <4>2, <4>3
    <3>6. QED
      BY <3>5 DEF SlotsInv
  <2>2. CASE ~ FreeSlot(r)
    <3>1. SameTasks /\ UNCHANGED schedVars
      BY <1>0, <1>6, <2>2, RunStepKinds, RunStepBecomes, UnlistBecomes DEF Unlist
    <3>2. QED
      BY <1>1, <3>1
  <2>3. QED
    BY <2>1, <2>2
<1>7. ASSUME NEW c \in Clients, Request(c) \/ HandlerStep(c) PROVE SlotsInv'
  <2>1. SendsNothing \/ SendsCommand \/ CancelsToken \/ DeletesParts
    BY <1>0, <1>7, RequestTyped, HandlerStepTyped
  <2>2. SameTasks
    BY <1>0, <2>1, ClientTasks
  <2>3. CASE SendsCommand
    <3>1. PICK cmd \in Command : Send(cmd) /\ UNCHANGED running
      BY <2>3 DEF SendsCommand, ClientSend, sched
    <3>2. QED
      BY <1>0, <2>2, <3>1, SameTasksSlots
  <2>4. CASE SendsNothing \/ CancelsToken \/ DeletesParts
    BY <1>1, <2>2, <2>4 DEF SendsNothing, CancelsToken, DeletesParts
  <2>5. QED
    BY <2>1, <2>3, <2>4
<1>8. CASE Restart
  BY <1>8 DEF Restart, Reborn, SlotsInv
<1>9. QED
  BY <1>3, <1>4, <1>5, <1>6, <1>7, <1>8, SchedulerSlots DEF Next, RunSteps

(* No slot leaks in the daemon: a job that occupies one has a task that    *)
(* will send SlotFreed, or its SlotFreed is in the channel, whatever run,  *)
(* pause, retry, cancellation or restart came before.                      *)
THEOREM SlotsBacked == Spec => []Abstract!SlotBacked
<1>1. Init => SlotsInv
  BY DEF Init, SchedInit, SlotsInv
<1>2. Inv /\ SlotsInv => Abstract!SlotBacked
  <2> SUFFICES ASSUME Inv, SlotsInv, NEW j \in running
               PROVE  RunsOf[j] > 0 \/ Abstract!InChannel(Abstract!SlotFreed(j))
    BY DEF Abstract!SlotBacked
  <2>1. j \in Jobs
    BY DEF Inv, TasksOK, SchedTypeOK
  <2>2. InChan(SlotFreed(j)) => Abstract!InChannel(Abstract!SlotFreed(j))
    BY DEF InChan, SlotFreed, Abstract!InChannel, Abstract!SlotFreed
  <2>3. HasTask(j) => RunsOf[j] > 0
    <3>1. TasksOf(j) # {} => Cardinality(TasksOf(j)) # 0
      BY <2>1, TasksFinite, FS_EmptySet
    <3>2. HasTask(j) => TasksOf(j) # {}
      BY DEF HasTask, TasksOf
    <3>3. RunsOf[j] = Cardinality(TasksOf(j)) /\ Cardinality(TasksOf(j)) \in Nat
      BY <2>1, TasksFinite, RunsOfIs
    <3>4. QED
      BY <3>1, <3>2, <3>3
  <2>4. QED
    BY <2>2, <2>3 DEF SlotsInv
<1>3. QED
  BY <1>1, <1>2, NextSlots, InvAlways, PTL DEF Spec

(* The scheduler never sleeps on a free slot while a job waits, whatever   *)
(* the daemon around it does.                                              *)
THEOREM NoSlotIdle == Spec => []Abstract!WorkConserving
<1> DEFINE Conserving == loop = "recv" /\ Cardinality(running) < max => pending = {}
<1>1. Init => Conserving
  BY DEF Init, SchedInit
<1>2. Conserving /\ [Next]_vars => Conserving'
  <2> SUFFICES ASSUME Conserving, [Next]_vars PROVE Conserving'
    OBVIOUS
  <2>1. ASSUME UNCHANGED sched PROVE Conserving'
    BY <2>1 DEF sched
  <2>2. CASE SchedulerStep
    BY <2>2 DEF SchedulerStep, SchedulerSetsPriority, SchedulerStarts, StartDownload, Dispatch,
                DispatchDone, RecvEnqueue, RecvSlotFreed, RecvSetMaxConcurrent, RecvSetPriority,
                RecvRemovePending, MayStart, ScheduleOk
  <2>3. CASE Restart
    BY <2>3 DEF Restart, Reborn
  <2>4. CASE ~ SchedulerStep /\ ~ Restart
    <3>1. UNCHANGED sched
      BY <2>4
      DEF Next, vars, schedVars, sentVars, TickerStep, RunTick, StrayTick, ConsumerStep,
          ConsumeStarted,
          ConsumeProgress, ConsumePaused, ConsumeCancelled, ConsumeCompleted, ConsumeFailed,
          ConsumerDeletes, ConsumeEvent, Request, HandlerStep, AddDownload, ChangePriority,
          Resume,
          Retry, Pause, Cancel, Remove, Withdraw, UpdateSettings, HandlerEnqueues,
          HandlerSetsLimit, WithdrawChecks, WithdrawMarks, WithdrawStops, WithdrawRow,
          WithdrawDeletes, LocalStep, HeaderStep, BodyStep, BeginResume, BodyStops, Join,
          Assemble,
          AssembleFails, GiveUp, Backoff, BackoffStops, RetryRun, BackoffOver, Unlist, FreeSlot,
          ProbeAnswers, GetAnswers, GetFails, OpenFails, BodyEnds, BodyFails
    <3>2. QED
      BY <2>1, <3>1
  <2>5. QED
    BY <2>2, <2>3, <2>4
<1>3. Conserving => Abstract!WorkConserving
  BY SameSize DEF Abstract!WorkConserving
<1> HIDE DEF Conserving
<1>4. QED
  BY <1>1, <1>2, <1>3, PTL DEF Spec
===============================================================================
