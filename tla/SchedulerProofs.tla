--------------------------- MODULE SchedulerProofs ---------------------------
(***************************************************************************)
(* What holds of Scheduler for every set of jobs, limits and bounds.       *)
(***************************************************************************)
EXTENDS Scheduler, FiniteSetTheorems, TLAPS

(* Facts about the channel as a sequence.                                  *)
LEMMA AppendFacts ==
    ASSUME NEW S, NEW s \in Seq(S), NEW e \in S
    PROVE  /\ Append(s, e) \in Seq(S)
           /\ DOMAIN s = 1 .. Len(s)
           /\ Len(s) \in Nat
           /\ DOMAIN Append(s, e) = 1 .. Len(s) + 1
           /\ \A i \in 1 .. Len(s) : Append(s, e)[i] = s[i]
           /\ Append(s, e)[Len(s) + 1] = e
  OBVIOUS

LEMMA TailFacts ==
    ASSUME NEW S, NEW s \in Seq(S), s # <<>>
    PROVE  /\ Tail(s) \in Seq(S)
           /\ Head(s) \in S
           /\ Head(s) = s[1]
           /\ Len(s) \in Nat \ {0}
           /\ DOMAIN s = 1 .. Len(s)
           /\ DOMAIN Tail(s) = 1 .. Len(s) - 1
           /\ \A i \in 1 .. Len(s) - 1 : Tail(s)[i] = s[i + 1]
  OBVIOUS

LEMMA AtLeastOnePositive ==
    ASSUME NEW n \in Nat
    PROVE  AtLeastOne(n) \in Nat \ {0}
  BY DEF AtLeastOne

(* The head of the channel, taken by an arm of the loop, is a command of   *)
(* that arm's kind.                                                        *)
LEMMA ReceivedFacts ==
    ASSUME TypeOK, NEW op, Recv(op)
    PROVE  /\ cmds \in Seq(Command)
           /\ cmds # <<>>
           /\ cmds' = Tail(cmds)
           /\ Tail(cmds) \in Seq(Command)
           /\ Head(cmds) \in Command
           /\ Head(cmds).op = op
           /\ loop = "recv"
           /\ UNCHANGED sentVars
  BY TailFacts DEF TypeOK, SchedTypeOK, Recv, sentVars

LEMMA CommandKinds ==
    ASSUME NEW c \in Command
    PROVE  /\ c.op = "Enqueue" => c.job \in Copy /\ c = Enqueue(c.job)
           /\ c.op = "SlotFreed" => c.id \in Jobs /\ c = SlotFreed(c.id)
           /\ c.op = "SetMaxConcurrent" => c.n \in Limits /\ c = SetMaxConcurrent(c.n)
           /\ c.op = "SetPriority" =>
                c.id \in Jobs /\ c.priority \in Priorities /\ c = SetPriority(c.id, c.priority)
           /\ c.op = "RemovePending" => c.id \in Jobs /\ c = RemovePending(c.id)
  BY DEF Command, Enqueue, SlotFreed, SetMaxConcurrent, SetPriority, RemovePending

LEMMA CommandsAreCommands ==
    /\ \A job \in Copy : Enqueue(job) \in Command
    /\ \A j \in Jobs : SlotFreed(j) \in Command /\ RemovePending(j) \in Command
    /\ \A n \in Limits : SetMaxConcurrent(n) \in Command
    /\ \A j \in Jobs, p \in Priorities : SetPriority(j, p) \in Command
  BY DEF Command, Enqueue, SlotFreed, SetMaxConcurrent, SetPriority, RemovePending

LEMMA ReprioritisedFacts ==
    ASSUME NEW q \in Queued, NEW j \in Jobs, NEW p \in Priorities
    PROVE  /\ Reprioritised(q, j, p) \in Queued
           /\ Reprioritised(q, j, p).job.id = q.job.id
           /\ Reprioritised(q, j, p).seq = q.seq
  BY DEF Reprioritised, Queued, Copy

LEMMA InitTypeOK == Init => TypeOK
  <1> SUFFICES ASSUME Init PROVE TypeOK
    OBVIOUS
  <1>1. PICK n \in Limits : max = AtLeastOne(n)
    BY DEF Init, SchedInit
  <1>2. max \in Nat \ {0}
    BY <1>1, AtLeastOnePositive, LimitsAssumption
  <1>3. cmds \in Seq(Command)
    BY DEF Init, SchedInit
  <1> QED
    BY <1>2, <1>3, MaxSendsAssumption DEF Init, SchedInit, TypeOK, SchedTypeOK

(* A client's command leaves everything but the channel and the count.     *)
LEMMA ClientSendTypeOK ==
    ASSUME TypeOK, NEW c \in Command, ClientSend(c), UNCHANGED <<sched, runs>>
    PROVE  TypeOK'
  <1>1. cmds' \in Seq(Command)
    BY AppendFacts DEF TypeOK, SchedTypeOK, ClientSend, Send
  <1>2. sent' \in 0 .. MaxSends /\ doubled' \in SUBSET Jobs
    BY MaxSendsAssumption DEF TypeOK, SchedTypeOK, ClientSend
  <1> QED
    BY <1>1, <1>2 DEF TypeOK, SchedTypeOK, sched

LEMMA NextTypeOK == TypeOK /\ [Next]_vars => TypeOK'
  <1> SUFFICES ASSUME TypeOK, [Next]_vars PROVE TypeOK'
    OBVIOUS
  <1> USE DEF TypeOK, SchedTypeOK, sentVars
  <1>1. CASE \E job \in Copy : ClientEnqueue(job)
    BY <1>1, CommandsAreCommands, ClientSendTypeOK DEF ClientEnqueue
  <1>2. CASE ClientSetMaxConcurrent \/ ClientSetPriority \/ ClientRemovePending
    BY <1>2, CommandsAreCommands, ClientSendTypeOK
       DEF ClientSetMaxConcurrent, ClientSetPriority, ClientRemovePending, ClientControl
  <1>3. CASE RecvEnqueue /\ UNCHANGED runs
    <2>1. Recv("Enqueue") /\ Push(Head(cmds).job)
      BY <1>3 DEF RecvEnqueue
    <2>2. Head(cmds).job \in Copy
      BY <2>1, ReceivedFacts, CommandKinds
    <2>3. pending' \in SUBSET Queued /\ seq' \in Nat
      BY <2>1, <2>2 DEF Push, Queued
    <2> QED
      BY <1>3, <2>1, <2>3, ReceivedFacts DEF RecvEnqueue
  <1>4. CASE RecvSlotFreed /\ UNCHANGED runs
    <2>1. Recv("SlotFreed")
      BY <1>4 DEF RecvSlotFreed
    <2> QED
      BY <1>4, <2>1, ReceivedFacts DEF RecvSlotFreed
  <1>5. CASE RecvSetMaxConcurrent /\ UNCHANGED runs
    <2>1. Recv("SetMaxConcurrent")
      BY <1>5 DEF RecvSetMaxConcurrent
    <2>2. Head(cmds).n \in Limits
      BY <2>1, ReceivedFacts, CommandKinds
    <2>3. max' \in Nat \ {0}
      BY <1>5, <2>2, LimitsAssumption, AtLeastOnePositive DEF RecvSetMaxConcurrent
    <2> QED
      BY <1>5, <2>1, <2>3, ReceivedFacts DEF RecvSetMaxConcurrent
  <1>6. CASE RecvSetPriority /\ UNCHANGED runs
    <2>1. Recv("SetPriority")
      BY <1>6 DEF RecvSetPriority
    <2>2. Head(cmds).id \in Jobs /\ Head(cmds).priority \in Priorities
      BY <2>1, ReceivedFacts, CommandKinds
    <2>3. pending' \in SUBSET Queued
      BY <1>6, <2>2, ReprioritisedFacts DEF RecvSetPriority
    <2> QED
      BY <1>6, <2>1, <2>3, ReceivedFacts DEF RecvSetPriority
  <1>7. CASE RecvRemovePending /\ UNCHANGED runs
    <2>1. Recv("RemovePending")
      BY <1>7 DEF RecvRemovePending
    <2> QED
      BY <1>7, <2>1, ReceivedFacts DEF RecvRemovePending
  <1>8. CASE StartSome
    <2>1. PICK q \in pending : Start(q)
      BY <1>8 DEF StartSome
    <2>2. q.job.id \in Jobs
      BY <2>1 DEF Queued, Copy
    <2> QED
      BY <2>1, <2>2 DEF Start, Dispatch
  <1>9. CASE LeaveDispatch
    BY <1>9 DEF LeaveDispatch, DispatchDone
  <1>10. CASE \E j \in Jobs : RunEnds(j)
    <2>1. PICK j \in Jobs : RunEnds(j)
      BY <1>10
    <2>2. cmds' \in Seq(Command)
      BY <2>1, AppendFacts, CommandsAreCommands DEF RunEnds, Send
    <2>3. runs' \in [Jobs -> Nat]
      BY <2>1 DEF RunEnds
    <2> QED
      BY <2>1, <2>2, <2>3 DEF RunEnds, sched
  <1>11. CASE Restart
    <2>1. PICK n \in Limits : max' = AtLeastOne(n)
      BY <1>11 DEF Restart
    <2>2. max' \in Nat \ {0}
      BY <2>1, AtLeastOnePositive, LimitsAssumption
    <2>3. cmds' \in Seq(Command)
      BY <1>11 DEF Restart
    <2> QED
      BY <1>11, <2>2, <2>3 DEF Restart
  <1>12. CASE UNCHANGED vars
    BY <1>12 DEF vars, schedVars, sched
  <1> QED
    BY <1>1, <1>2, <1>3, <1>4, <1>5, <1>6, <1>7, <1>8, <1>9, <1>10, <1>11, <1>12
       DEF Next, TaskStep, RecvSome

(* Every reachable state has the declared types, whatever the jobs, the    *)
(* limits and the bound.                                                   *)
THEOREM TypeCorrect == Spec => []TypeOK
  BY InitTypeOK, NextTypeOK, PTL DEF Spec

-----------------------------------------------------------------------------
(* Messages stay in the channel until they are received.                   *)
LEMMA SendKeeps ==
    ASSUME TypeOK, NEW c \in Command, Send(c)
    PROVE  /\ InChannel(c)'
           /\ \A d : InChannel(d) => InChannel(d)'
           /\ \A d : InChannel(d)' => InChannel(d) \/ d = c
  BY AppendFacts DEF TypeOK, SchedTypeOK, Send, InChannel

LEMMA RecvKeeps ==
    ASSUME TypeOK, NEW op, Recv(op)
    PROVE  /\ \A d : InChannel(d) => InChannel(d)' \/ d = Head(cmds)
           /\ \A d : InChannel(d)' => InChannel(d)
           /\ InChannel(Head(cmds))
  <1>1. cmds \in Seq(Command) /\ cmds # <<>> /\ cmds' = Tail(cmds)
    BY ReceivedFacts
  <1>2. Len(cmds) \in Nat \ {0} /\ DOMAIN cmds = 1 .. Len(cmds) /\ Head(cmds) = cmds[1]
    BY <1>1, TailFacts
  <1>3. DOMAIN cmds' = 1 .. Len(cmds) - 1 /\ \A i \in 1 .. Len(cmds) - 1 : cmds'[i] = cmds[i + 1]
    BY <1>1, TailFacts
  <1>4. ASSUME NEW d, InChannel(d) PROVE InChannel(d)' \/ d = Head(cmds)
    <2>1. PICK i \in 1 .. Len(cmds) : cmds[i] = d
      BY <1>2, <1>4 DEF InChannel
    <2>2. CASE i = 1
      BY <1>2, <2>1, <2>2
    <2>3. CASE i # 1
      <3>1. i - 1 \in 1 .. Len(cmds) - 1 /\ cmds'[i - 1] = cmds[i]
        BY <1>2, <1>3, <2>3
      <3> QED
        BY <1>3, <2>1, <3>1 DEF InChannel
    <2> QED
      BY <2>2, <2>3
  <1>5. ASSUME NEW d, InChannel(d)' PROVE InChannel(d)
    <2>1. PICK i \in 1 .. Len(cmds) - 1 : cmds'[i] = d
      BY <1>3, <1>5 DEF InChannel
    <2> QED
      BY <1>2, <1>3, <2>1 DEF InChannel
  <1> QED
    BY <1>2, <1>4, <1>5 DEF InChannel

LEMMA InitSlotBacked == Init => SlotBacked
  BY DEF Init, SchedInit, SlotBacked

(* Receiving anything but SlotFreed(j) keeps what backs the slot of j.     *)
LEMMA RecvKeepsSlotBacked ==
    ASSUME TypeOK, SlotBacked, NEW op, Recv(op), op # "SlotFreed", UNCHANGED <<running, runs>>
    PROVE  SlotBacked'
  <1> SUFFICES ASSUME NEW j \in running PROVE runs[j] > 0 \/ InChannel(SlotFreed(j))'
    BY DEF SlotBacked
  <1>1. Head(cmds) # SlotFreed(j)
    BY ReceivedFacts DEF SlotFreed
  <1> QED
    BY <1>1, RecvKeeps DEF SlotBacked

LEMMA NextSlotBacked == TypeOK /\ SlotBacked /\ [Next]_vars => SlotBacked'
  <1> SUFFICES ASSUME TypeOK, SlotBacked, [Next]_vars PROVE SlotBacked'
    OBVIOUS
  <1>1. CASE \E job \in Copy : ClientEnqueue(job)
    BY <1>1, CommandsAreCommands, SendKeeps DEF ClientEnqueue, ClientSend, SlotBacked, sched
  <1>2. CASE ClientSetMaxConcurrent \/ ClientSetPriority \/ ClientRemovePending
    BY <1>2, CommandsAreCommands, SendKeeps
       DEF ClientSetMaxConcurrent, ClientSetPriority, ClientRemovePending, ClientControl,
           ClientSend, SlotBacked, sched
  <1>3. CASE RecvEnqueue /\ UNCHANGED runs
    BY <1>3, RecvKeepsSlotBacked DEF RecvEnqueue
  <1>4. CASE RecvSlotFreed /\ UNCHANGED runs
    <2>1. Recv("SlotFreed") /\ running' = running \ {Head(cmds).id}
      BY <1>4 DEF RecvSlotFreed
    <2> SUFFICES ASSUME NEW j \in running' PROVE runs'[j] > 0 \/ InChannel(SlotFreed(j))'
      BY DEF SlotBacked
    <2>2. j \in running /\ Head(cmds) # SlotFreed(j)
      BY <2>1 DEF SlotFreed
    <2> QED
      BY <1>4, <2>1, <2>2, RecvKeeps DEF SlotBacked
  <1>5. CASE RecvSetMaxConcurrent /\ UNCHANGED runs
    BY <1>5, RecvKeepsSlotBacked DEF RecvSetMaxConcurrent
  <1>6. CASE RecvSetPriority /\ UNCHANGED runs
    BY <1>6, RecvKeepsSlotBacked DEF RecvSetPriority
  <1>7. CASE RecvRemovePending /\ UNCHANGED runs
    BY <1>7, RecvKeepsSlotBacked DEF RecvRemovePending
  <1>8. CASE StartSome
    <2>1. PICK q \in pending : Start(q)
      BY <1>8 DEF StartSome
    <2>2. q.job.id \in Jobs
      BY <2>1 DEF TypeOK, SchedTypeOK, Queued, Copy
    <2>3. runs'[q.job.id] > 0 /\ \A j \in Jobs \ {q.job.id} : runs'[j] = runs[j]
      BY <2>1, <2>2 DEF Start, TypeOK
    <2> QED
      BY <2>1, <2>2, <2>3 DEF Start, Dispatch, SlotBacked, InChannel, TypeOK, SchedTypeOK
  <1>9. CASE LeaveDispatch
    BY <1>9 DEF LeaveDispatch, DispatchDone, SlotBacked, InChannel
  <1>10. CASE \E j \in Jobs : RunEnds(j)
    <2>1. PICK j \in Jobs : RunEnds(j)
      BY <1>10
    <2>2. \A i \in Jobs \ {j} : runs'[i] = runs[i]
      BY <2>1 DEF RunEnds, TypeOK
    <2> QED
      BY <2>1, <2>2, CommandsAreCommands, SendKeeps
         DEF RunEnds, SlotBacked, sched, TypeOK, SchedTypeOK
  <1>11. CASE Restart
    BY <1>11 DEF Restart, SlotBacked
  <1>12. CASE UNCHANGED vars
    BY <1>12 DEF vars, schedVars, sched, SlotBacked, InChannel
  <1> QED
    BY <1>1, <1>2, <1>3, <1>4, <1>5, <1>6, <1>7, <1>8, <1>9, <1>10, <1>11, <1>12
       DEF Next, TaskStep, RecvSome

(* No slot of the scheduler leaks: whoever occupies one will free it.      *)
THEOREM NoSlotLeaks == Spec => []SlotBacked
  <1>1. Init => TypeOK /\ SlotBacked
    BY InitTypeOK, InitSlotBacked
  <1>2. TypeOK /\ SlotBacked /\ [Next]_vars => (TypeOK /\ SlotBacked)'
    BY NextTypeOK, NextSlotBacked
  <1> QED
    BY <1>1, <1>2, PTL DEF Spec

(* The task sleeps in recv() only when it has no slot or no job to give    *)
(* it: by induction, since every arm that changes `running`, `max` or adds *)
(* to `pending` goes through dispatch().                                   *)
THEOREM NoSlotIdle == Spec => []WorkConserving
  <1>1. Init => WorkConserving
    BY DEF Init, SchedInit, WorkConserving
  <1>2. WorkConserving /\ [Next]_vars => WorkConserving'
    BY DEF WorkConserving, Next, vars, schedVars, sched, ClientEnqueue, ClientSetMaxConcurrent,
           ClientSetPriority, ClientRemovePending, ClientControl, TaskStep, RecvSome, StartSome,
           LeaveDispatch, Start, RunEnds, Restart, RecvEnqueue, RecvSlotFreed,
           RecvSetMaxConcurrent, RecvSetPriority, RecvRemovePending, Dispatch, DispatchDone,
           MayStart, ScheduleOk
  <1> QED
    BY <1>1, <1>2, PTL DEF Spec

-----------------------------------------------------------------------------
(* The channel as one job sees it.                                         *)
NoMessage(j) == \A i \in DOMAIN cmds : ~ Carries(cmds[i], j)

LEMMA NoMessageMeans ==
    ASSUME NEW j, NoMessage(j)
    PROVE  ~ EnqueueInChannel(j) /\ ~ InChannel(SlotFreed(j)) /\ AtMostOneMessage(j)
  BY DEF NoMessage, EnqueueInChannel, InChannel, Carries, AtMostOneMessage

LEMMA MessageMeans ==
    ASSUME NEW j, ~ EnqueueInChannel(j), ~ InChannel(SlotFreed(j))
    PROVE  NoMessage(j)
  BY DEF NoMessage, EnqueueInChannel, InChannel, Carries

LEMMA SendOther ==
    ASSUME TypeOK, NEW c \in Command, Send(c), NEW j, ~ Carries(c, j)
    PROVE  /\ InChannel(SlotFreed(j))' <=> InChannel(SlotFreed(j))
           /\ EnqueueInChannel(j)' => EnqueueInChannel(j)
           /\ AtMostOneMessage(j) => AtMostOneMessage(j)'
  <1>1. /\ DOMAIN cmds = 1 .. Len(cmds) /\ Len(cmds) \in Nat
        /\ DOMAIN cmds' = 1 .. Len(cmds) + 1
        /\ \A i \in 1 .. Len(cmds) : cmds'[i] = cmds[i]
        /\ cmds'[Len(cmds) + 1] = c
    BY AppendFacts DEF TypeOK, SchedTypeOK, Send
  <1>2. InChannel(SlotFreed(j))' <=> InChannel(SlotFreed(j))
    BY SendKeeps DEF Carries
  <1>3. EnqueueInChannel(j)' => EnqueueInChannel(j)
    BY <1>1 DEF EnqueueInChannel, Carries
  <1>4. ASSUME AtMostOneMessage(j) PROVE AtMostOneMessage(j)'
    BY <1>1, <1>4 DEF AtMostOneMessage
  <1> QED
    BY <1>2, <1>3, <1>4

LEMMA SendFirst ==
    ASSUME TypeOK, NEW c \in Command, Send(c), NEW j, NoMessage(j)
    PROVE  AtMostOneMessage(j)'
  <1>1. /\ DOMAIN cmds = 1 .. Len(cmds) /\ Len(cmds) \in Nat
        /\ DOMAIN cmds' = 1 .. Len(cmds) + 1
        /\ \A i \in 1 .. Len(cmds) : cmds'[i] = cmds[i]
    BY AppendFacts DEF TypeOK, SchedTypeOK, Send
  <1> QED
    BY <1>1 DEF NoMessage, AtMostOneMessage

LEMMA RecvChannel ==
    ASSUME TypeOK, NEW op, Recv(op), NEW j, AtMostOneMessage(j)
    PROVE  /\ AtMostOneMessage(j)'
           /\ EnqueueInChannel(j)' => EnqueueInChannel(j)
           /\ Carries(Head(cmds), j) => NoMessage(j)'
           /\ ~ Carries(Head(cmds), j) =>
                (InChannel(SlotFreed(j))' <=> InChannel(SlotFreed(j)))
  <1>1. cmds \in Seq(Command) /\ cmds # <<>> /\ cmds' = Tail(cmds)
    BY ReceivedFacts
  <1>2. Len(cmds) \in Nat \ {0} /\ DOMAIN cmds = 1 .. Len(cmds) /\ Head(cmds) = cmds[1]
    BY <1>1, TailFacts
  <1>3. DOMAIN cmds' = 1 .. Len(cmds) - 1 /\ \A i \in 1 .. Len(cmds) - 1 : cmds'[i] = cmds[i + 1]
    BY <1>1, TailFacts
  <1>4. AtMostOneMessage(j)'
    <2> SUFFICES ASSUME NEW i \in 1 .. Len(cmds) - 1, NEW k \in 1 .. Len(cmds) - 1,
                        Carries(cmds'[i], j), Carries(cmds'[k], j)
                 PROVE  i = k
      BY <1>3 DEF AtMostOneMessage, Carries
    <2>1. i + 1 \in DOMAIN cmds /\ k + 1 \in DOMAIN cmds
      BY <1>2
    <2>2. i + 1 = k + 1
      BY <1>3, <2>1 DEF AtMostOneMessage
    <2> QED
      BY <2>2
  <1>5. EnqueueInChannel(j)' => EnqueueInChannel(j)
    BY <1>2, <1>3 DEF EnqueueInChannel
  <1>6. ASSUME Carries(Head(cmds), j) PROVE NoMessage(j)'
    <2> SUFFICES ASSUME NEW i \in 1 .. Len(cmds) - 1, Carries(cmds'[i], j) PROVE FALSE
      BY <1>3 DEF NoMessage, Carries
    <2>1. i + 1 \in DOMAIN cmds /\ 1 \in DOMAIN cmds /\ Carries(cmds[i + 1], j)
      BY <1>2, <1>3
    <2>2. i + 1 = 1
      BY <1>2, <1>6, <2>1 DEF AtMostOneMessage
    <2> QED
      BY <2>2
  <1>7. ASSUME ~ Carries(Head(cmds), j)
        PROVE  InChannel(SlotFreed(j))' <=> InChannel(SlotFreed(j))
    BY <1>7, RecvKeeps DEF Carries
  <1> QED
    BY <1>4, <1>5, <1>6, <1>7

(* A step that gives job j nothing new leaves it held once.                *)
LEMMA Undisturbed ==
    ASSUME NEW j, HeldOnce(j),
           runs'[j] = runs[j], j \in running' <=> j \in running,
           InChannel(SlotFreed(j))' <=> InChannel(SlotFreed(j)),
           EnqueueInChannel(j)' => EnqueueInChannel(j), AtMostOneMessage(j)',
           IsQueued(j)' => IsQueued(j), AtMostOneEntry(j)'
    PROVE  HeldOnce(j)'
  BY DEF HeldOnce

LEMMA FewerEntries ==
    ASSUME NEW j, pending' \subseteq pending
    PROVE  /\ IsQueued(j)' => IsQueued(j)
           /\ AtMostOneEntry(j) => AtMostOneEntry(j)'
  BY DEF IsQueued, AtMostOneEntry

LEMMA SameChannel ==
    ASSUME NEW j, UNCHANGED cmds
    PROVE  /\ InChannel(SlotFreed(j))' <=> InChannel(SlotFreed(j))
           /\ EnqueueInChannel(j)' <=> EnqueueInChannel(j)
           /\ AtMostOneMessage(j)' <=> AtMostOneMessage(j)
  BY DEF InChannel, EnqueueInChannel, AtMostOneMessage, Carries

LEMMA KindsDiffer ==
    ASSUME NEW j, NEW job
    PROVE  /\ ~ Carries(RemovePending(j), j)
           /\ \A i : ~ Carries(RemovePending(i), j)
           /\ \A n : ~ Carries(SetMaxConcurrent(n), j)
           /\ \A i, p : ~ Carries(SetPriority(i, p), j)
           /\ Carries(Enqueue(job), j) <=> job.id = j
           /\ \A i : Carries(SlotFreed(i), j) <=> i = j
  BY DEF Carries, RemovePending, SetMaxConcurrent, SetPriority, Enqueue, SlotFreed

LEMMA SendNoEnqueue ==
    ASSUME TypeOK, NEW c \in Command, Send(c), c.op # "Enqueue", NEW j
    PROVE  EnqueueInChannel(j)' => EnqueueInChannel(j)
  <1>1. /\ DOMAIN cmds = 1 .. Len(cmds) /\ Len(cmds) \in Nat
        /\ DOMAIN cmds' = 1 .. Len(cmds) + 1
        /\ \A i \in 1 .. Len(cmds) : cmds'[i] = cmds[i]
        /\ cmds'[Len(cmds) + 1] = c
    BY AppendFacts DEF TypeOK, SchedTypeOK, Send
  <1> QED
    BY <1>1 DEF EnqueueInChannel

(* A client's command that is no Enqueue disturbs no job.                  *)
LEMMA ControlHeldOnce ==
    ASSUME TypeOK, NEW j \in Jobs, HeldOnce(j), NEW c \in Command, ~ Carries(c, j),
           Send(c), UNCHANGED <<sched, runs>>
    PROVE  HeldOnce(j)'
  <1>1. AtMostOneMessage(j)
    BY DEF HeldOnce
  <1>2. pending' \subseteq pending /\ runs' = runs /\ running' = running
    BY DEF sched
  <1>3. AtMostOneEntry(j)' /\ (IsQueued(j)' => IsQueued(j))
    BY <1>2, FewerEntries DEF HeldOnce
  <1> QED
    BY <1>1, <1>2, <1>3, SendOther, Undisturbed

(* An arm of the loop that takes a command not about job j, and leaves its *)
(* slot, its runs and its entry alone, does not disturb it.                *)
LEMMA RecvHeldOnce ==
    ASSUME TypeOK, NEW j \in Jobs, HeldOnce(j), NEW op, Recv(op), ~ Carries(Head(cmds), j),
           UNCHANGED runs, j \in running' <=> j \in running,
           IsQueued(j)' => IsQueued(j), AtMostOneEntry(j)'
    PROVE  HeldOnce(j)'
  <1>1. AtMostOneMessage(j)
    BY DEF HeldOnce
  <1> QED
    BY <1>1, RecvChannel, Undisturbed

(* Short of a restart, a job that is held once stays so unless the step    *)
(* queues it a second time.                                                *)
LEMMA NextHeldOnce ==
    ASSUME TypeOK, NEW j \in Jobs, HeldOnce(j), [Next]_vars, ~ Restart, j \notin doubled'
    PROVE  HeldOnce(j)'
  <1>0. AtMostOneMessage(j) /\ AtMostOneEntry(j) /\ runs[j] \in Nat
    BY DEF HeldOnce, TypeOK
  <1>1. CASE \E job \in Copy : ClientEnqueue(job)
    <2>1. PICK job \in Copy : ClientEnqueue(job)
      BY <1>1
    <2>2. Enqueue(job) \in Command /\ Send(Enqueue(job)) /\ UNCHANGED <<sched, runs>>
      BY <2>1, CommandsAreCommands DEF ClientEnqueue, ClientSend
    <2>3. CASE job.id # j
      BY <2>2, <2>3, KindsDiffer, ControlHeldOnce
    <2>4. CASE job.id = j
      <3>1. ~ Outstanding(j)
        BY <2>1, <2>4 DEF ClientEnqueue, ClientSend, Enqueue
      <3>2. AtMostOneMessage(j)'
        BY <2>2, <3>1, MessageMeans, SendFirst DEF Outstanding
      <3>3. ~ InChannel(SlotFreed(j))'
        BY <2>2, <3>1, SendKeeps DEF Outstanding, Enqueue, SlotFreed
      <3>4. AtMostOneEntry(j)' /\ ~ IsQueued(j)'
        BY <1>0, <2>2, <3>1, FewerEntries DEF Outstanding, sched
      <3>5. runs'[j] = 0 /\ j \notin running'
        BY <1>0, <2>2, <3>1 DEF Outstanding, HeldOnce, sched
      <3> QED
        BY <3>2, <3>3, <3>4, <3>5 DEF HeldOnce
    <2> QED
      BY <2>3, <2>4
  <1>2. CASE ClientSetMaxConcurrent \/ ClientSetPriority \/ ClientRemovePending
    BY <1>2, CommandsAreCommands, KindsDiffer, ControlHeldOnce
       DEF ClientSetMaxConcurrent, ClientSetPriority, ClientRemovePending, ClientControl,
           ClientSend
  <1>3. CASE RecvEnqueue /\ UNCHANGED runs
    <2>1. Recv("Enqueue") /\ Push(Head(cmds).job) /\ running' = running /\ runs' = runs
      BY <1>3 DEF RecvEnqueue
    <2>2. Head(cmds) = Enqueue(Head(cmds).job)
      BY <2>1, ReceivedFacts, CommandKinds
    <2>3. CASE Head(cmds).job.id # j
      <3>1. IsQueued(j)' => IsQueued(j)
        BY <2>1, <2>3 DEF IsQueued, Push
      <3>2. AtMostOneEntry(j)'
        BY <1>0, <2>1, <2>3 DEF AtMostOneEntry, Push
      <3> QED
        BY <2>1, <2>2, <2>3, <3>1, <3>2, KindsDiffer, RecvHeldOnce
    <2>4. CASE Head(cmds).job.id = j
      <3>1. EnqueueInChannel(j)
        BY <2>1, <2>4, ReceivedFacts, TailFacts DEF EnqueueInChannel
      <3>2. j \notin running /\ ~ IsQueued(j) /\ runs[j] = 0
        BY <1>0, <3>1 DEF HeldOnce
      <3>3. NoMessage(j)'
        BY <1>0, <2>1, <2>2, <2>4, KindsDiffer, RecvChannel
      <3>4. ~ EnqueueInChannel(j)' /\ ~ InChannel(SlotFreed(j))' /\ AtMostOneMessage(j)'
        BY <3>3 DEF NoMessage, EnqueueInChannel, InChannel, Carries, AtMostOneMessage
      <3>5. AtMostOneEntry(j)'
        BY <2>1, <3>2 DEF AtMostOneEntry, IsQueued, Push
      <3> QED
        BY <2>1, <3>2, <3>4, <3>5 DEF HeldOnce
    <2> QED
      BY <2>3, <2>4
  <1>4. CASE RecvSlotFreed /\ UNCHANGED runs
    <2>1. /\ Recv("SlotFreed") /\ running' = running \ {Head(cmds).id}
          /\ pending' = pending /\ runs' = runs
      BY <1>4 DEF RecvSlotFreed
    <2>2. Head(cmds) = SlotFreed(Head(cmds).id)
      BY <2>1, ReceivedFacts, CommandKinds
    <2>3. AtMostOneEntry(j)' /\ (IsQueued(j)' => IsQueued(j))
      BY <1>0, <2>1, FewerEntries
    <2>4. CASE Head(cmds).id # j
      <3>1. ~ Carries(Head(cmds), j)
        BY <2>2, <2>4 DEF Carries, SlotFreed
      <3>2. j \in running' <=> j \in running
        BY <2>1, <2>4
      <3> QED
        BY <2>1, <2>3, <3>1, <3>2, RecvHeldOnce
    <2>5. CASE Head(cmds).id = j
      <3>1. InChannel(SlotFreed(j))
        BY <2>1, <2>2, <2>5, RecvKeeps
      <3>2. runs[j] = 0 /\ ~ IsQueued(j)
        BY <1>0, <3>1 DEF HeldOnce
      <3>3. NoMessage(j)'
        BY <1>0, <2>1, <2>2, <2>5, KindsDiffer, RecvChannel
      <3>4. ~ EnqueueInChannel(j)' /\ ~ InChannel(SlotFreed(j))' /\ AtMostOneMessage(j)'
        BY <3>3 DEF NoMessage, EnqueueInChannel, InChannel, Carries, AtMostOneMessage
      <3> QED
        BY <2>1, <2>3, <2>5, <3>2, <3>4 DEF HeldOnce
    <2> QED
      BY <2>4, <2>5
  <1>5. CASE RecvSetMaxConcurrent /\ UNCHANGED runs
    <2>1. Recv("SetMaxConcurrent") /\ running' = running /\ pending' = pending /\ runs' = runs
      BY <1>5 DEF RecvSetMaxConcurrent
    <2>2. ~ Carries(Head(cmds), j)
      BY <2>1, ReceivedFacts, CommandKinds, KindsDiffer
    <2> QED
      BY <1>0, <2>1, <2>2, FewerEntries, RecvHeldOnce
  <1>6. CASE RecvSetPriority /\ UNCHANGED runs
    <2>1. Recv("SetPriority") /\ running' = running /\ runs' = runs
      BY <1>6 DEF RecvSetPriority
    <2>2. ~ Carries(Head(cmds), j)
      BY <2>1, ReceivedFacts, CommandKinds, KindsDiffer
    <2> DEFINE New(q) == Reprioritised(q, Head(cmds).id, Head(cmds).priority)
    <2>3. \A q \in pending : New(q).job.id = q.job.id
      BY <2>1, ReceivedFacts, CommandKinds, ReprioritisedFacts DEF TypeOK, SchedTypeOK
    <2>4. pending' = {New(q) : q \in pending}
      BY <1>6 DEF RecvSetPriority
    <2>5. IsQueued(j)' => IsQueued(j)
      BY <2>3, <2>4 DEF IsQueued
    <2>6. AtMostOneEntry(j)'
      BY <1>0, <2>3, <2>4 DEF AtMostOneEntry
    <2> QED
      BY <2>1, <2>2, <2>5, <2>6, RecvHeldOnce
  <1>7. CASE RecvRemovePending /\ UNCHANGED runs
    <2>1. Recv("RemovePending") /\ running' = running /\ pending' \subseteq pending /\ runs' = runs
      BY <1>7 DEF RecvRemovePending
    <2>2. ~ Carries(Head(cmds), j)
      BY <2>1, ReceivedFacts, CommandKinds, KindsDiffer
    <2> QED
      BY <1>0, <2>1, <2>2, FewerEntries, RecvHeldOnce
  <1>8. CASE StartSome
    <2>1. PICK q \in pending : Start(q)
      BY <1>8 DEF StartSome
    <2>2. /\ UNCHANGED cmds /\ pending' = pending \ {q}
          /\ running' = running \cup {q.job.id}
          /\ runs' = [runs EXCEPT ![q.job.id] = @ + 1]
      BY <2>1 DEF Start, Dispatch
    <2>3. CASE q.job.id # j
      <3>1. runs'[j] = runs[j]
        BY <2>2, <2>3 DEF TypeOK
      <3> QED
        BY <1>0, <2>2, <2>3, <3>1, FewerEntries, SameChannel, Undisturbed
    <2>4. CASE q.job.id = j
      <3>1. IsQueued(j)
        BY <2>4 DEF IsQueued
      <3>2. runs[j] = 0 /\ ~ InChannel(SlotFreed(j)) /\ ~ EnqueueInChannel(j)
        BY <1>0, <3>1 DEF HeldOnce
      <3>3. runs'[j] = 1 /\ j \in running'
        BY <2>2, <2>4, <3>2 DEF TypeOK
      <3>4. ~ IsQueued(j)'
        BY <1>0, <2>2, <2>4 DEF IsQueued, AtMostOneEntry
      <3> QED
        BY <1>0, <2>2, <3>2, <3>3, <3>4, FewerEntries, SameChannel DEF HeldOnce
    <2> QED
      BY <2>3, <2>4
  <1>9. CASE LeaveDispatch
    BY <1>0, <1>9, FewerEntries, SameChannel, Undisturbed DEF LeaveDispatch, DispatchDone
  <1>10. CASE \E i \in Jobs : RunEnds(i)
    <2>1. PICK i \in Jobs : RunEnds(i)
      BY <1>10
    <2>2. /\ SlotFreed(i) \in Command /\ Send(SlotFreed(i))
          /\ running' = running /\ pending' = pending
      BY <2>1, CommandsAreCommands DEF RunEnds, sched
    <2>3. AtMostOneEntry(j)' /\ (IsQueued(j)' => IsQueued(j))
      BY <1>0, <2>2, FewerEntries
    <2>4. CASE i # j
      <3>1. runs'[j] = runs[j]
        BY <2>1, <2>4 DEF RunEnds, TypeOK
      <3> QED
        BY <1>0, <2>2, <2>3, <2>4, <3>1, KindsDiffer, SendOther, Undisturbed
    <2>5. CASE i = j
      <3>1. runs[j] = 1 /\ runs'[j] = 0
        BY <1>0, <2>1, <2>5 DEF RunEnds, TypeOK, HeldOnce
      <3>2. j \in running /\ ~ InChannel(SlotFreed(j)) /\ ~ EnqueueInChannel(j) /\ ~ IsQueued(j)
        BY <3>1 DEF HeldOnce
      <3>3. AtMostOneMessage(j)'
        BY <2>2, <3>2, MessageMeans, SendFirst
      <3>4. InChannel(SlotFreed(j))'
        BY <2>2, <2>5, SendKeeps
      <3>5. ~ EnqueueInChannel(j)'
        BY <2>2, <3>2, SendNoEnqueue DEF SlotFreed
      <3> QED
        BY <2>2, <2>3, <3>1, <3>2, <3>3, <3>4, <3>5 DEF HeldOnce
    <2> QED
      BY <2>4, <2>5
  <1>11. CASE UNCHANGED vars
    BY <1>0, <1>11, FewerEntries, SameChannel, Undisturbed DEF vars, schedVars, sched
  <1> QED
    BY <1>1, <1>2, <1>3, <1>4, <1>5, <1>6, <1>7, <1>8, <1>9, <1>10, <1>11
       DEF Next, TaskStep, RecvSome

LEMMA RestartHeldOnce ==
    ASSUME Restart
    PROVE  OneAtATime'
  BY DEF Restart, OneAtATime, HeldOnce, InChannel, EnqueueInChannel, IsQueued, AtMostOneMessage,
         AtMostOneEntry

(* Only a restart forgets that a job was queued twice.                     *)
LEMMA DoubledStays ==
    ASSUME [Next]_vars, ~ Restart
    PROVE  doubled \subseteq doubled'
  BY DEF Next, vars, schedVars, sched, sentVars, ClientEnqueue, ClientSetMaxConcurrent,
         ClientSetPriority, ClientRemovePending, ClientControl, ClientSend, TaskStep, RecvSome,
         StartSome, LeaveDispatch, Start, RunEnds, RecvEnqueue, RecvSlotFreed,
         RecvSetMaxConcurrent, RecvSetPriority, RecvRemovePending, Recv, Dispatch, DispatchDone

LEMMA InitHeldOnce == Init => OneAtATime
  BY DEF Init, SchedInit, OneAtATime, HeldOnce, InChannel, EnqueueInChannel, IsQueued,
         AtMostOneMessage, AtMostOneEntry

(* Whatever the clients send, a job that was not queued twice since the    *)
(* process started has at most one entry, one run and one message, and its *)
(* slot is its own.                                                        *)
THEOREM HeldOnceAlways == Spec => []OneAtATime
  <1>1. Init => TypeOK /\ OneAtATime
    BY InitTypeOK, InitHeldOnce
  <1>2. TypeOK /\ OneAtATime /\ [Next]_vars => (TypeOK /\ OneAtATime)'
    <2> SUFFICES ASSUME TypeOK, OneAtATime, [Next]_vars PROVE OneAtATime'
      BY NextTypeOK
    <2>1. CASE Restart
      BY <2>1, RestartHeldOnce
    <2>2. CASE ~ Restart
      BY <2>2, DoubledStays, NextHeldOnce DEF OneAtATime
    <2> QED
      BY <2>1, <2>2
  <1> QED
    BY <1>1, <1>2, PTL DEF Spec

-----------------------------------------------------------------------------
SlotsFinite == IsFiniteSet(running)

LEMMA SlotsFiniteAlways == Spec => []SlotsFinite
  <1>1. Init => SlotsFinite
    BY FS_EmptySet DEF Init, SchedInit, SlotsFinite
  <1>2. SlotsFinite /\ [Next]_vars => SlotsFinite'
    <2> SUFFICES ASSUME SlotsFinite, [Next]_vars PROVE IsFiniteSet(running')
      BY DEF SlotsFinite
    <2>1. CASE running' = running
      BY <2>1 DEF SlotsFinite
    <2>2. CASE RecvSlotFreed
      BY <2>2, FS_RemoveElement DEF RecvSlotFreed, SlotsFinite
    <2>3. CASE StartSome
      BY <2>3, FS_AddElement DEF StartSome, Start, Dispatch, SlotsFinite
    <2>4. CASE Restart
      BY <2>4, FS_EmptySet DEF Restart
    <2> QED
      BY <2>1, <2>2, <2>3, <2>4
         DEF Next, vars, schedVars, sched, ClientEnqueue, ClientSetMaxConcurrent,
             ClientSetPriority, ClientRemovePending, ClientControl, TaskStep, RecvSome,
             LeaveDispatch, RunEnds, RecvEnqueue, RecvSetMaxConcurrent, RecvSetPriority,
             RecvRemovePending, DispatchDone
  <1> QED
    BY <1>1, <1>2, PTL DEF Spec

StartsWithinCapStep ==
    \A j \in Jobs : runs'[j] > runs[j] =>
        /\ j \notin doubled => runs[j] = 0
        /\ Cardinality(Live' \ doubled) <= max

LEMMA NextWithinCap ==
    ASSUME TypeOK, OneAtATime, OneAtATime', SlotsFinite, Next
    PROVE  StartsWithinCapStep
  <1> SUFFICES ASSUME NEW j \in Jobs, runs'[j] > runs[j]
               PROVE  /\ j \notin doubled => runs[j] = 0
                      /\ Cardinality(Live' \ doubled) <= max
    BY DEF StartsWithinCapStep
  <1>1. ASSUME ~ StartSome PROVE FALSE
    <2>1. CASE \E i \in Jobs : RunEnds(i)
      BY <2>1 DEF RunEnds, TypeOK
    <2>2. CASE Restart
      BY <2>2 DEF Restart, TypeOK
    <2>3. CASE runs' = runs
      BY <2>3 DEF TypeOK
    <2> QED
      BY <1>1, <2>1, <2>2, <2>3
         DEF Next, TaskStep, RecvSome, LeaveDispatch, ClientEnqueue, ClientSetMaxConcurrent,
             ClientSetPriority, ClientRemovePending, ClientControl
  <1>2. PICK q \in pending : Start(q)
    BY <1>1 DEF StartSome
  <1>3. q.job.id = j
    BY <1>2 DEF Start, TypeOK
  <1>4. j \notin doubled => runs[j] = 0
    BY <1>3 DEF OneAtATime, HeldOnce, IsQueued, TypeOK
  <1>5. Cardinality(running) < max /\ running' = running \cup {j}
    BY <1>2, <1>3 DEF Start, Dispatch, MayStart
  <1>6. IsFiniteSet(running') /\ Cardinality(running) \in Nat
        /\ Cardinality(running') <= Cardinality(running) + 1
    <2>1. IsFiniteSet(running)
      BY DEF SlotsFinite
    <2>2. Cardinality(running) \in Nat
      BY <2>1, FS_CardinalityType
    <2>3. IsFiniteSet(running \cup {j})
          /\ Cardinality(running \cup {j}) =
               IF j \in running THEN Cardinality(running) ELSE Cardinality(running) + 1
      BY <2>1, FS_AddElement
    <2> QED
      BY <1>5, <2>2, <2>3
  <1>7. Live' \ doubled \subseteq running'
    <2>1. doubled' = doubled
      BY <1>2 DEF Start, Dispatch, sentVars
    <2> QED
      BY <1>2, <2>1 DEF Live, OneAtATime, HeldOnce, Start, TypeOK
  <1>8. /\ Cardinality(Live' \ doubled) <= Cardinality(running')
        /\ Cardinality(Live' \ doubled) \in Nat
    BY <1>6, <1>7, FS_Subset, FS_CardinalityType
  <1> QED
    BY <1>4, <1>5, <1>6, <1>8, FS_CardinalityType DEF TypeOK, SchedTypeOK

(* The limit bounds the downloads in progress, and not just the set the    *)
(* scheduler keeps, whatever the clients send: of the jobs that were not   *)
(* queued twice no more than the limit run when one starts, and none of    *)
(* them starts while a run of it is in progress.                           *)
THEOREM CapHolds == Spec => StartsWithinCap
  <1>1. TypeOK /\ OneAtATime /\ OneAtATime' /\ SlotsFinite /\ [Next]_vars => [StartsWithinCapStep]_vars
    BY NextWithinCap
  <1>2. Spec => [][StartsWithinCapStep]_vars
    BY <1>1, TypeCorrect, HeldOnceAlways, SlotsFiniteAlways, PTL DEF Spec
  <1> QED
    BY <1>2 DEF StartsWithinCap, StartsWithinCapStep
=============================================================================
