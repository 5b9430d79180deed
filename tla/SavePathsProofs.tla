-------------------------- MODULE SavePathsProofs --------------------------
(***************************************************************************)
(* Theorems about the choice of names, for every set of jobs and folders.  *)
(***************************************************************************)
EXTENDS SavePaths, TLAPS

Used(j) == row[j] # "unused"

(* A job has a path from its row on.                                       *)
PathsChosen == \A j \in Jobs : Used(j) => path[j] \in Names /\ path[j].part \in {0, 1}

(* Only a job that has had a row is queued, runs or is cleaned up.         *)
OnlyUsed == \A j \in Jobs : j \in queued \/ j \in doomed \/ Busy(j) => Used(j)

(* A row that is not in flight has lapsed.                                 *)
LapsedKnown == \A j \in Jobs : row[j] \notin InFlight \cup {"unused"} => j \in lapsed

(* The inductive invariant.                                                *)
PathInv == TypeOK /\ PathsChosen /\ OnlyUsed /\ LapsedKnown /\ ReservedApart

-----------------------------------------------------------------------------
(* Names.                                                                  *)

LEMMA BuiltIsName ==
    ASSUME NEW payload \in Payloads, NEW auto \in BOOLEAN, NEW c \in Copies
    PROVE  /\ Copy(build_job(payload, auto), c) \in Names
           /\ Copy(build_job(payload, auto), c).part \in {0, 1}
<1>1. payload \in [pick : Folders \cup {"none", "unsafe"}, typed : BOOLEAN, part : {0, 1}]
    BY PayloadsAssumption
<1> DEFINE d == IF payload.pick \in Folders THEN payload.pick
                ELSE IF auto /\ payload.typed THEN Category ELSE Directory
<1>2. d \in Folders
    BY FoldersAssumption
<1>3. Copy(build_job(payload, auto), c) = [dir |-> d, copy |-> c, part |-> payload.part]
    BY DEF Copy, build_job
<1> HIDE DEF d
<1> QED
    BY <1>1, <1>2, <1>3 DEF Names

LEMMA PartIsName ==
    ASSUME NEW n \in Names, n.part \in {0, 1}
    PROVE  Part(n) \in Names
BY DEF Part, Names

LEMMA NoFileIsFile == NoFile \in Files
BY DEF NoFile, Files

(* What follows the handles keeps the runs, and who is busy.               *)
LEMMA MovedRuns ==
    ASSUME NEW r \in [Jobs -> Runs \cup {Idle}], NEW n, NEW m \in Names \cup {NoName}
    PROVE  /\ Moved(r, n, m) \in [Jobs -> Runs \cup {Idle}]
           /\ \A k \in Jobs : Moved(r, n, m)[k] # Idle => r[k] # Idle
<1> SUFFICES ASSUME NEW k \in Jobs, r[k] # Idle, r[k].at = n
             PROVE  [r[k] EXCEPT !.at = m] \in Runs
    BY DEF Moved
<1>1. r[k] \in Runs
    OBVIOUS
<1> QED
    BY <1>1 DEF Runs

-----------------------------------------------------------------------------
(* A status is set.                                                        *)

LEMMA SetStatusKeeps ==
    ASSUME PathInv, NEW j \in Jobs, NEW s \in Statuses \cup {"removed"},
           SetStatus(j, s), UNCHANGED path
    PROVE  /\ row' \in [Jobs -> Statuses \cup NoRow]
           /\ lapsed' \in SUBSET Jobs
           /\ \A k \in Jobs : Used(k) <=> Used(k)'
           /\ PathsChosen' /\ LapsedKnown' /\ ReservedApart'
<1>1. row \in [Jobs -> Statuses \cup NoRow] /\ lapsed \in SUBSET Jobs
    BY DEF PathInv, TypeOK
<1>2. \A k \in Jobs : k # j => row'[k] = row[k]
    BY <1>1 DEF SetStatus
<1>3. row'[j] = row[j] \/ (HasRow(j) /\ row'[j] = s)
    BY <1>1 DEF SetStatus
<1>4. lapsed \subseteq lapsed' /\ lapsed' \in SUBSET Jobs
      /\ (HasRow(j) /\ s \notin InFlight => j \in lapsed')
    BY <1>1 DEF SetStatus
<1>5. row' \in [Jobs -> Statuses \cup NoRow]
    BY <1>1 DEF SetStatus, NoRow
<1>6. \A k \in Jobs : Used(k) <=> Used(k)'
    BY <1>2, <1>3 DEF Used, HasRow, NoRow, Statuses, InFlight
<1>7. PathsChosen'
    BY <1>6 DEF PathInv, PathsChosen
<1>8. LapsedKnown'
    BY <1>2, <1>3, <1>4 DEF PathInv, LapsedKnown
(* A row comes back in flight only from one that is known to have lapsed.  *)
<1>9. \A k \in Jobs : row'[k] \in InFlight => row[k] \in InFlight \/ k \in lapsed'
    BY <1>2, <1>3, <1>4 DEF PathInv, LapsedKnown, HasRow, NoRow
<1>10. ReservedApart'
    BY <1>4, <1>9 DEF PathInv, ReservedApart
<1> QED
    BY <1>4, <1>5, <1>6, <1>7, <1>8, <1>10

LEMMA RowsUnchanged ==
    ASSUME PathInv, UNCHANGED <<row, path, lapsed>>
    PROVE  PathsChosen' /\ LapsedKnown' /\ ReservedApart'
           /\ \A k \in Jobs : Used(k) <=> Used(k)'
BY DEF PathInv, PathsChosen, LapsedKnown, ReservedApart, Used


-----------------------------------------------------------------------------
(* The steps.                                                              *)

LEMMA ArrivalNames == \A n \in Arrivals : n \in Names /\ n.part = 0
BY ArrivalsAssumption

LEMMA PersonsFile == [by |-> {Person}, done |-> TRUE] \in Files
BY DEF Files

LEMMA InitPathInv == Init => PathInv
<1>0. SUFFICES ASSUME Init PROVE PathInv
    OBVIOUS
<1>1. TypeOK
    <2>1. PICK old \in SUBSET Arrivals :
             disk = [n \in Names |-> IF n \in old THEN [by |-> {Person}, done |-> TRUE] ELSE NoFile]
        BY <1>0 DEF Init
    <2>2. disk \in [Names -> Files]
        BY <2>1, PersonsFile, NoFileIsFile
    <2>3. row \in [Jobs -> Statuses \cup NoRow] /\ path \in [Jobs -> Names \cup {NoName}]
          /\ run \in [Jobs -> Runs \cup {Idle}]
        BY <1>0 DEF Init, NoRow
    <2>4. /\ queued = {} /\ cancelling = {} /\ doomed = {} /\ lapsed = {} /\ late = {}
          /\ requests \in 0 .. MaxRequests /\ crashes \in 0 .. MaxCrashes
        BY <1>0, BoundsAssumption DEF Init
    <2> QED
        BY <2>2, <2>3, <2>4 DEF TypeOK
<1>2. PathsChosen /\ OnlyUsed /\ LapsedKnown /\ ReservedApart
    BY <1>0 DEF Init, PathsChosen, OnlyUsed, LapsedKnown, ReservedApart, Used, Busy, InFlight
<1> QED
    BY <1>1, <1>2 DEF PathInv

LEMMA QueueInv ==
    ASSUME PathInv, NEW j \in Jobs, NEW payload \in Payloads, NEW auto \in BOOLEAN,
           queue_payload(j, payload, auto)
    PROVE  PathInv'
<1> DEFINE built == build_job(payload, auto)
<1>1. PICK c \in Copies :
         /\ ~ Taken(Copy(built, c))
         /\ path' = [path EXCEPT ![j] = Copy(built, c)]
    BY DEF queue_payload, unique_path
<1>2. Copy(built, c) \in Names /\ Copy(built, c).part \in {0, 1}
    BY BuiltIsName
<1> HIDE DEF built
<1>3. /\ row[j] = "unused"
      /\ row' = [row EXCEPT ![j] = "Queued"]
      /\ queued' = queued \cup {j}
      /\ UNCHANGED <<run, cancelling, doomed, disk, lapsed, requests, late, crashes>>
    BY DEF queue_payload
<1>4. TypeOK'
    BY <1>1, <1>2, <1>3 DEF PathInv, TypeOK, Statuses, InFlight
<1>5. row'[j] = "Queued" /\ path'[j] = Copy(built, c)
      /\ \A k \in Jobs : k # j => row'[k] = row[k] /\ path'[k] = path[k]
    BY <1>1, <1>3 DEF PathInv, TypeOK
<1>6. PathsChosen' /\ OnlyUsed' /\ LapsedKnown'
    BY <1>2, <1>3, <1>5 DEF PathInv, PathsChosen, OnlyUsed, LapsedKnown, Used, Busy, InFlight
<1>7. \A k \in Jobs : k # j /\ row'[k] \in InFlight => path'[k] # path'[j]
    BY <1>1, <1>5 DEF Taken
<1>8. ReservedApart'
    BY <1>3, <1>5, <1>7 DEF PathInv, ReservedApart
<1> QED
    BY <1>4, <1>6, <1>8 DEF PathInv

(* Steps of a run that leave the row alone.                                *)
LEMMA RunStepInv ==
    ASSUME PathInv, UNCHANGED <<row, path, lapsed, cancelling, requests, late, crashes>>,
           run' \in [Jobs -> Runs \cup {Idle}],
           disk' \in [Names -> Files],
           queued' \subseteq queued, doomed' \subseteq doomed,
           \A k \in Jobs : Busy(k)' => Busy(k) \/ k \in queued
    PROVE  PathInv'
<1>1. PathsChosen' /\ LapsedKnown' /\ ReservedApart'
    BY RowsUnchanged
<1>2. OnlyUsed'
    BY RowsUnchanged DEF PathInv, OnlyUsed, Used
<1>3. TypeOK'
    BY DEF PathInv, TypeOK
<1> QED
    BY <1>1, <1>2, <1>3 DEF PathInv

LEMMA EndRuns ==
    ASSUME PathInv, NEW j \in Jobs, Busy(j), NEW outcome \in Outcomes \ {"none"}
    PROVE  /\ End(j, outcome) \in [Jobs -> Runs \cup {Idle}]
           /\ \A k \in Jobs : End(j, outcome)[k] # Idle => Busy(k)
<1>1. run[j] \in Runs
    BY DEF PathInv, TypeOK, Busy
<1>2. [run[j] EXCEPT !.pc = "ended", !.at = NoName, !.end = outcome] \in Runs
    BY <1>1 DEF Runs, Phases
<1> QED
    BY <1>2 DEF End, PathInv, TypeOK, Busy

LEMMA StartInv ==
    ASSUME PathInv, NEW j \in Jobs, Start(j)
    PROVE  PathInv'
<1>1. [pc |-> "get", stop |-> FALSE, at |-> NoName, end |-> "none"] \in Runs
    BY DEF Runs, Phases, Outcomes
<1>2. run' \in [Jobs -> Runs \cup {Idle}]
    BY <1>1 DEF Start, PathInv, TypeOK
<1>3. \A k \in Jobs : Busy(k)' => Busy(k) \/ k \in queued
    BY DEF Start, Busy, PathInv, TypeOK
<1>4. disk' \in [Names -> Files]
    BY DEF Start, PathInv, TypeOK
<1> QED
    BY <1>2, <1>3, <1>4, RunStepInv DEF Start

LEMMA WriteInv ==
    ASSUME PathInv, NEW j \in Jobs, Write(j)
    PROVE  PathInv'
<1>1. disk' \in [Names -> Files]
    BY DEF Write, PathInv, TypeOK, Files
<1>2. run' \in [Jobs -> Runs \cup {Idle}] /\ \A k \in Jobs : Busy(k)' => Busy(k)
    BY DEF Write, PathInv, TypeOK, Busy
<1> QED
    BY <1>1, <1>2, RunStepInv DEF Write

LEMMA StopInv ==
    ASSUME PathInv, NEW j \in Jobs, Stop(j) \/ Fail(j)
    PROVE  PathInv'
<1>1. PICK outcome \in {"Paused", "Failed"} : run' = End(j, outcome)
    BY DEF Stop, Fail
<1>2. Busy(j) /\ outcome \in Outcomes \ {"none"}
    BY DEF Stop, Fail, At, Outcomes
<1>3. UNCHANGED <<row, path, queued, cancelling, doomed, disk, lapsed, requests, late, crashes>>
    BY DEF Stop, Fail
<1>4. run' \in [Jobs -> Runs \cup {Idle}] /\ \A k \in Jobs : Busy(k)' => Busy(k)
    BY <1>1, <1>2, EndRuns DEF Busy
<1>5. disk' \in [Names -> Files]
    BY <1>3 DEF PathInv, TypeOK
<1> QED
    BY <1>3, <1>4, <1>5, RunStepInv

LEMMA ClearTargetInv ==
    ASSUME PathInv, NEW j \in Jobs, ClearTarget(j)
    PROVE  PathInv'
<1> DEFINE moving == [run EXCEPT ![j].pc = "move", ![j].at = NoName]
<1>1. Busy(j) /\ run[j] \in Runs
    BY DEF ClearTarget, At, Busy, PathInv, TypeOK
<1>2. moving \in [Jobs -> Runs \cup {Idle}] /\ \A k \in Jobs : moving[k] # Idle => Busy(k)
    <2>1. [run[j] EXCEPT !.pc = "move", !.at = NoName] \in Runs
        BY <1>1 DEF Runs, Phases
    <2> QED
        BY <1>1, <2>1 DEF PathInv, TypeOK, Busy
<1>3. run' = Moved(moving, path[j], NoName) /\ disk' = [disk EXCEPT ![path[j]] = NoFile]
    BY DEF ClearTarget, Unlink
<1> HIDE DEF moving
<1>4. run' \in [Jobs -> Runs \cup {Idle}] /\ \A k \in Jobs : Busy(k)' => Busy(k)
    BY <1>2, <1>3, MovedRuns DEF Busy
<1>5. disk' \in [Names -> Files]
    BY <1>3, NoFileIsFile DEF PathInv, TypeOK
<1> QED
    BY <1>4, <1>5, RunStepInv DEF ClearTarget

LEMMA RenameInv ==
    ASSUME PathInv, NEW j \in Jobs, Rename(j)
    PROVE  PathInv'
<1> DEFINE done == End(j, "Completed")
           replaced == Moved(done, path[j], NoName)
<1>1. Busy(j) /\ path[j] \in Names /\ path[j].part \in {0, 1}
    BY DEF Rename, At, PathInv, OnlyUsed, PathsChosen
<1>2. done \in [Jobs -> Runs \cup {Idle}] /\ \A k \in Jobs : done[k] # Idle => Busy(k)
    BY <1>1, EndRuns DEF Outcomes
<1> HIDE DEF done
<1>3. replaced \in [Jobs -> Runs \cup {Idle}] /\ \A k \in Jobs : replaced[k] # Idle => Busy(k)
    BY <1>2, MovedRuns
<1> HIDE DEF replaced
<1>4. run' = Moved(replaced, Part(path[j]), path[j])
    BY DEF Rename, replaced, done
<1>5. run' \in [Jobs -> Runs \cup {Idle}] /\ \A k \in Jobs : Busy(k)' => Busy(k)
    BY <1>1, <1>3, <1>4, MovedRuns DEF Busy
<1>6. disk' \in [Names -> Files]
    <2>1. Part(path[j]) \in Names
        BY <1>1, PartIsName
    <2>2. [by |-> disk[Part(path[j])].by, done |-> TRUE] \in Files
        BY <2>1 DEF PathInv, TypeOK, Files
    <2> QED
        BY <1>1, <2>2, NoFileIsFile DEF Rename, PathInv, TypeOK
<1> QED
    BY <1>5, <1>6, RunStepInv DEF Rename

LEMMA DeletesInv ==
    ASSUME PathInv, NEW n, Unlink(n, run), doomed' \subseteq doomed,
           UNCHANGED <<row, path, queued, cancelling, lapsed, requests, late, crashes>>
    PROVE  PathInv'
<1>1. run' \in [Jobs -> Runs \cup {Idle}] /\ \A k \in Jobs : Busy(k)' => Busy(k)
    BY MovedRuns DEF Unlink, PathInv, TypeOK, Busy
<1>2. disk' \in [Names -> Files]
    BY NoFileIsFile DEF Unlink, PathInv, TypeOK
<1> QED
    BY <1>1, <1>2, RunStepInv

(* Steps that set a status, and let no job in that has had no row.         *)
LEMMA StatusStepInv ==
    ASSUME PathInv, NEW j \in Jobs, NEW s \in Statuses \cup {"removed"},
           SetStatus(j, s), UNCHANGED path, Used(j),
           run' \in [Jobs -> Runs \cup {Idle}],
           disk' \in [Names -> Files],
           \A k \in Jobs : Busy(k)' => Busy(k),
           queued' \subseteq queued \cup {j},
           doomed' \subseteq doomed \cup {j},
           cancelling' \subseteq cancelling \cup {j},
           requests' \in 0 .. MaxRequests, UNCHANGED <<late, crashes>>
    PROVE  PathInv'
<1>1. /\ row' \in [Jobs -> Statuses \cup NoRow]
      /\ lapsed' \in SUBSET Jobs
      /\ \A k \in Jobs : Used(k) <=> Used(k)'
      /\ PathsChosen' /\ LapsedKnown' /\ ReservedApart'
    BY SetStatusKeeps
<1>2. OnlyUsed'
    BY <1>1 DEF PathInv, OnlyUsed
<1>3. TypeOK'
    BY <1>1 DEF PathInv, TypeOK
<1> QED
    BY <1>1, <1>2, <1>3 DEF PathInv

(* Requests that leave every row alone.                                    *)
LEMMA AskStepInv ==
    ASSUME PathInv, NEW j \in Jobs, Used(j),
           UNCHANGED <<row, path, disk, lapsed, late, crashes>>,
           run' \in [Jobs -> Runs \cup {Idle}],
           \A k \in Jobs : Busy(k)' => Busy(k),
           queued' \subseteq queued \cup {j},
           doomed' \subseteq doomed,
           cancelling' \subseteq cancelling \cup {j},
           requests' \in 0 .. MaxRequests
    PROVE  PathInv'
<1>1. PathsChosen' /\ LapsedKnown' /\ ReservedApart' /\ \A k \in Jobs : Used(k) <=> Used(k)'
    BY RowsUnchanged
<1>2. OnlyUsed'
    BY <1>1 DEF PathInv, OnlyUsed
<1>3. TypeOK'
    BY DEF PathInv, TypeOK
<1> QED
    BY <1>1, <1>2, <1>3 DEF PathInv

LEMMA AsksFacts ==
    ASSUME PathInv, NEW j \in Jobs, NEW statuses, statuses \subseteq Statuses, Asks(j, statuses)
    PROVE  Used(j) /\ requests' \in 0 .. MaxRequests
BY BoundsAssumption DEF Asks, PathInv, TypeOK, Used, Statuses, InFlight

LEMMA SignalRuns ==
    ASSUME PathInv, NEW j \in Jobs, Busy(j)
    PROVE  /\ [run EXCEPT ![j].stop = TRUE] \in [Jobs -> Runs \cup {Idle}]
           /\ \A k \in Jobs : [run EXCEPT ![j].stop = TRUE][k] # Idle => Busy(k)
<1>1. run[j] \in Runs
    BY DEF PathInv, TypeOK, Busy
<1>2. [run[j] EXCEPT !.stop = TRUE] \in Runs
    BY <1>1 DEF Runs
<1> QED
    BY <1>2 DEF PathInv, TypeOK, Busy

LEMMA SameRuns ==
    ASSUME PathInv, UNCHANGED run
    PROVE  run' \in [Jobs -> Runs \cup {Idle}] /\ \A k \in Jobs : Busy(k)' => Busy(k)
BY DEF PathInv, TypeOK, Busy

LEMMA SameDisk ==
    ASSUME PathInv, UNCHANGED disk
    PROVE  disk' \in [Names -> Files]
BY DEF PathInv, TypeOK

LEMMA OpenInv ==
    ASSUME PathInv, NEW j \in Jobs, Open(j)
    PROVE  PathInv'
<1>1. Busy(j) /\ run[j] \in Runs /\ Used(j) /\ Part(path[j]) \in Names
    BY PartIsName DEF Open, At, Busy, PathInv, TypeOK, OnlyUsed, PathsChosen
<1>2. run' \in [Jobs -> Runs \cup {Idle}] /\ \A k \in Jobs : Busy(k)' => Busy(k)
    <2>1. [run[j] EXCEPT !.pc = "write", !.at = Part(path[j])] \in Runs
        BY <1>1 DEF Runs, Phases
    <2> QED
        BY <1>1, <2>1 DEF Open, PathInv, TypeOK, Busy
<1>3. disk' \in [Names -> Files]
    <2>1. PICK kept \in {{}, disk[Part(path[j])].by} :
             disk' = [disk EXCEPT ![Part(path[j])] = [by |-> kept \cup {j}, done |-> FALSE]]
        BY DEF Open
    <2>2. disk[Part(path[j])] \in Files /\ disk \in [Names -> Files]
        BY <1>1 DEF PathInv, TypeOK
    <2>3. [by |-> kept \cup {j}, done |-> FALSE] \in Files
        BY <2>2 DEF Files
    <2> QED
        BY <2>1, <2>2, <2>3
<1>4. requests' \in 0 .. MaxRequests
    BY DEF Open, PathInv, TypeOK
<1>5. SetStatus(j, "Active") /\ UNCHANGED <<path, queued, cancelling, doomed, late, crashes>>
    BY DEF Open
<1>6. "Active" \in Statuses \cup {"removed"}
    BY DEF Statuses, InFlight
<1> QED
    BY <1>1, <1>2, <1>3, <1>4, <1>5, <1>6, StatusStepInv

LEMMA ReportInv ==
    ASSUME PathInv, NEW j \in Jobs, Report(j)
    PROVE  PathInv'
<1>1. Busy(j) /\ run[j] \in Runs /\ Used(j)
    BY DEF Report, At, Busy, PathInv, TypeOK, OnlyUsed
<1>2. run' \in [Jobs -> Runs \cup {Idle}] /\ \A k \in Jobs : Busy(k)' => Busy(k)
    BY DEF Report, PathInv, TypeOK, Busy
<1>3. disk' \in [Names -> Files] /\ requests' \in 0 .. MaxRequests
    BY DEF Report, PathInv, TypeOK
<1>4. UNCHANGED <<path, queued, late, crashes>>
    BY DEF Report
<1>5. CASE run[j].end = "Paused" /\ j \in cancelling
    <2>1. /\ SetStatus(j, "Cancelled")
          /\ cancelling' = cancelling \ {j}
          /\ doomed' = IF HasRow(j) THEN doomed \cup {j} ELSE doomed
        BY <1>5 DEF Report
    <2>2. "Cancelled" \in Statuses \cup {"removed"}
        BY DEF Statuses
    <2> QED
        BY <1>1, <1>2, <1>3, <1>4, <2>1, <2>2, StatusStepInv
<1>6. CASE ~ (run[j].end = "Paused" /\ j \in cancelling)
    <2>1. SetStatus(j, run[j].end) /\ UNCHANGED <<cancelling, doomed>>
        BY <1>6 DEF Report
    <2>2. run[j].end \in Statuses \cup {"removed"}
        BY <1>1 DEF Report, At, Runs, Outcomes, Statuses, InFlight
    <2> QED
        BY <1>1, <1>2, <1>3, <1>4, <2>1, <2>2, StatusStepInv
<1> QED
    BY <1>5, <1>6

LEMMA RetryInv ==
    ASSUME PathInv, NEW j \in Jobs, Retry(j)
    PROVE  PathInv'
<1>1. Used(j) /\ requests' \in 0 .. MaxRequests
    BY AsksFacts DEF Retry, Statuses
<1>2. /\ SetStatus(j, "Queued")
      /\ queued' = queued \cup {j}
      /\ UNCHANGED <<path, run, cancelling, doomed, disk, late, crashes>>
    BY DEF Retry
<1>3. "Queued" \in Statuses \cup {"removed"}
    BY DEF Statuses, InFlight
<1> QED
    BY <1>1, <1>2, <1>3, SameRuns, SameDisk, StatusStepInv

LEMMA ResumeInv ==
    ASSUME PathInv, NEW j \in Jobs, Resume(j)
    PROVE  PathInv'
<1>1. Used(j) /\ requests' \in 0 .. MaxRequests
    BY AsksFacts DEF Resume, Statuses, InFlight
<1>2. /\ queued' = queued \cup {j}
      /\ UNCHANGED <<row, path, run, cancelling, doomed, disk, lapsed, late, crashes>>
    BY DEF Resume
<1> QED
    BY <1>1, <1>2, SameRuns, AskStepInv

LEMMA PauseInv ==
    ASSUME PathInv, NEW j \in Jobs, Pause(j)
    PROVE  PathInv'
<1>1. Used(j) /\ requests' \in 0 .. MaxRequests
    BY AsksFacts DEF Pause, Statuses, InFlight
<1>2. Busy(j) /\ run' = [run EXCEPT ![j].stop = TRUE]
    BY DEF Pause
<1>3. UNCHANGED <<row, path, queued, cancelling, doomed, disk, lapsed, late, crashes>>
    BY DEF Pause
<1>4. run' \in [Jobs -> Runs \cup {Idle}] /\ \A k \in Jobs : Busy(k)' => Busy(k)
    BY <1>2, SignalRuns DEF Busy
<1> QED
    BY <1>1, <1>3, <1>4, AskStepInv

LEMMA CancelInv ==
    ASSUME PathInv, NEW j \in Jobs, Cancel(j)
    PROVE  PathInv'
<1>1. Used(j) /\ requests' \in 0 .. MaxRequests
    BY AsksFacts DEF Cancel, Statuses
<1>2. queued' \subseteq queued /\ UNCHANGED <<path, disk, late, crashes>>
    BY DEF Cancel, Withdraw
<1>3. CASE Busy(j) /\ Signal(j) /\ UNCHANGED <<row, lapsed, doomed>>
    <2>1. run' \in [Jobs -> Runs \cup {Idle}] /\ \A k \in Jobs : Busy(k)' => Busy(k)
        BY <1>3, SignalRuns DEF Signal, Busy
    <2> QED
        BY <1>1, <1>2, <1>3, <2>1, AskStepInv DEF Signal
<1>4. CASE SetStatus(j, "Cancelled") /\ doomed' = doomed \cup {j} /\ UNCHANGED <<run, cancelling>>
    <2>1. "Cancelled" \in Statuses \cup {"removed"}
        BY DEF Statuses
    <2> QED
        BY <1>1, <1>2, <1>4, <2>1, SameRuns, SameDisk, StatusStepInv
<1> QED
    BY <1>3, <1>4 DEF Cancel

LEMMA RemoveInv ==
    ASSUME PathInv, NEW j \in Jobs, Remove(j)
    PROVE  PathInv'
<1>1. Used(j) /\ requests' \in 0 .. MaxRequests
    BY AsksFacts DEF Remove
<1>2. /\ queued' \subseteq queued
      /\ SetStatus(j, "removed")
      /\ doomed' = doomed \cup {j}
      /\ UNCHANGED <<path, disk, late, crashes>>
    BY DEF Remove, Withdraw
<1>3. run' \in [Jobs -> Runs \cup {Idle}] /\ \A k \in Jobs : Busy(k)' => Busy(k)
    BY SameRuns, SignalRuns DEF Remove, Signal, Busy
<1>4. cancelling' \subseteq cancelling \cup {j}
    BY DEF Remove, Signal
<1> QED
    BY <1>1, <1>2, <1>3, <1>4, SameDisk, StatusStepInv

LEMMA CrashInv ==
    ASSUME PathInv, Crash
    PROVE  PathInv'
<1>1. PathsChosen' /\ LapsedKnown' /\ ReservedApart'
    BY RowsUnchanged DEF Crash
<1>2. OnlyUsed'
    BY DEF Crash, OnlyUsed, Busy
<1>3. TypeOK'
    BY BoundsAssumption DEF Crash, PathInv, TypeOK
<1> QED
    BY <1>1, <1>2, <1>3 DEF PathInv

LEMMA ArrivesInv ==
    ASSUME PathInv, NEW n \in Arrivals, PersonCreates(n)
    PROVE  PathInv'
<1>1. PathsChosen' /\ LapsedKnown' /\ ReservedApart'
    BY RowsUnchanged DEF PersonCreates
<1>2. OnlyUsed'
    BY DEF PersonCreates, PathInv, OnlyUsed, Used, Busy
<1>3. n \in Names /\ late' \in SUBSET Names
    BY ArrivalNames DEF PersonCreates, PathInv, TypeOK
<1>4. disk' \in [Names -> Files]
    BY <1>3, PersonsFile DEF PersonCreates, PathInv, TypeOK
<1>5. requests' \in 0 .. MaxRequests
    BY BoundsAssumption DEF PersonCreates, PathInv, TypeOK
<1>6. TypeOK'
    BY <1>3, <1>4, <1>5 DEF PersonCreates, PathInv, TypeOK
<1> QED
    BY <1>1, <1>2, <1>6 DEF PathInv

LEMMA NextPathInv == PathInv /\ [Next]_vars => PathInv'
<1> SUFFICES ASSUME PathInv, [Next]_vars PROVE PathInv'
    OBVIOUS
<1>1. CASE UNCHANGED vars
    <2>1. PathsChosen' /\ LapsedKnown' /\ ReservedApart'
        BY <1>1, RowsUnchanged DEF vars
    <2> QED
        BY <1>1, <2>1 DEF vars, PathInv, TypeOK, OnlyUsed, Used, Busy
<1>2. ASSUME NEW j \in Jobs, NEW payload \in Payloads, NEW auto \in BOOLEAN,
             queue_payload(j, payload, auto)
      PROVE  PathInv'
    BY <1>2, QueueInv
<1>3. ASSUME NEW j \in Jobs,
             \/ Start(j) \/ Open(j) \/ Write(j) \/ Stop(j) \/ Fail(j)
             \/ ClearTarget(j) \/ Rename(j) \/ Report(j)
      PROVE  PathInv'
    BY <1>3, StartInv, OpenInv, WriteInv, StopInv, ClearTargetInv, RenameInv, ReportInv
<1>4. ASSUME NEW j \in Jobs, Retry(j) \/ Resume(j) \/ Pause(j) \/ Cancel(j) \/ Remove(j)
      PROVE  PathInv'
    BY <1>4, RetryInv, ResumeInv, PauseInv, CancelInv, RemoveInv
<1>5. ASSUME NEW j \in Jobs, DeleteParts(j) PROVE PathInv'
    <2>1. /\ Unlink(Part(path[j]), run) /\ doomed' \subseteq doomed
          /\ UNCHANGED <<row, path, queued, cancelling, lapsed, requests, late, crashes>>
        BY <1>5 DEF DeleteParts
    <2> QED
        BY <2>1, DeletesInv
<1>6. ASSUME NEW n \in Names, PersonDeletes(n) PROVE PathInv'
    <2>1. /\ Unlink(n, run) /\ doomed' \subseteq doomed
          /\ UNCHANGED <<row, path, queued, cancelling, lapsed, requests, late, crashes>>
        BY <1>6 DEF PersonDeletes
    <2> QED
        BY <2>1, DeletesInv
<1>7. ASSUME NEW n \in Arrivals, PersonCreates(n) PROVE PathInv'
    BY <1>7, ArrivesInv
<1>8. CASE Crash
    BY <1>8, CrashInv
<1> QED
    BY <1>1, <1>2, <1>3, <1>4, <1>5, <1>6, <1>7, <1>8 DEF Next

LEMMA PathInvInductive == Spec => []PathInv
<1> QED
    BY InitPathInv, NextPathInv, PTL DEF Spec

(* Every step keeps the types: each path is a name in one of the folders,  *)
(* whatever the clients send.                                              *)
THEOREM TypeCorrect == Spec => []TypeOK
<1>1. PathInv => TypeOK
    BY DEF PathInv
<1> QED
    BY <1>1, PathInvInductive, PTL

(* queue_payload keeps two reserved names apart, for any number of jobs,   *)
(* through every failure, request and crash, as long as none is retried.   *)
THEOREM ReservedNamesApart == Spec => []ReservedApart
<1>1. PathInv => ReservedApart
    BY DEF PathInv
<1> QED
    BY <1>1, PathInvInductive, PTL

-----------------------------------------------------------------------------
(* Whose files are on the disk. A file belongs to the jobs whose download  *)
(* or part it is; two jobs that have one in common share it, by            *)
(* ReservedApart. Every file was written by its owner and by nobody else,  *)
(* unless the owner shares it, or it is a person's.                        *)

Mine(j) == {path[j], Part(path[j])}
Shared(j) == \E k \in Jobs : Share(j, k)

(* The file of a person: no job was given its name, or one was, before.    *)
Foreign(n) ==
    /\ n.part = 0
    /\ disk[n].done /\ disk[n].by = {Person}
    /\ n \in late \/ \A k \in Jobs : Used(k) => path[k] # n

Wrote(k, n) ==
    /\ Used(k)
    /\ Person \notin disk[n].by
    /\ n = IF disk[n].done THEN path[k] ELSE Part(path[k])
    /\ disk[n].by = {k} \/ Shared(k)

Owned(n) == Foreign(n) \/ \E k \in Jobs : Wrote(k, n)

FilesOwned == \A n \in Names : Exists(n) => Owned(n)

(* A handle is at the job's own part, or the job shares it and the handle  *)
(* has followed a rename to another name that is shared. It is never at a  *)
(* person's file.                                                          *)
Follows(j, n) ==
    \/ n = Part(path[j])
    \/ Shared(j) /\ \E k \in Jobs : Shared(k) /\ n \in Mine(k)

HandlesOwned ==
    \A j \in Jobs, n \in Names :
        Busy(j) /\ run[j].at = n => Exists(n) /\ Person \notin disk[n].by /\ Follows(j, n)

(* Between the two steps of finalize only a person and a job that shares   *)
(* the target can put a file there.                                        *)
TargetsClear ==
    \A j \in Jobs, n \in Names :
        At(j, "move") /\ n = path[j] /\ Exists(n) => Late(n) \/ Shared(j)

(* The inductive invariant of the files, on top of that of the names.      *)
FileInv == PathInv /\ FilesOwned /\ HandlesOwned /\ TargetsClear

-----------------------------------------------------------------------------
(* Names and owners.                                                       *)

LEMMA PartFacts ==
    ASSUME NEW n \in Names, NEW m \in Names
    PROVE  /\ Part(n) = [dir |-> n.dir, copy |-> n.copy, part |-> n.part + 1]
           /\ Part(n).part # 0 /\ Part(n) # n
           /\ Part(n) = Part(m) => n = m
<1>1. Part(n) = [dir |-> n.dir, copy |-> n.copy, part |-> n.part + 1]
      /\ Part(m) = [dir |-> m.dir, copy |-> m.copy, part |-> m.part + 1]
    BY DEF Part, Names
<1>2. n = [dir |-> n.dir, copy |-> n.copy, part |-> n.part]
      /\ m = [dir |-> m.dir, copy |-> m.copy, part |-> m.part]
    BY DEF Names
<1>3. n.part \in 0 .. 2 /\ m.part \in 0 .. 2
    BY DEF Names
<1>4. Part(n) = Part(m) => n.dir = m.dir /\ n.copy = m.copy /\ n.part = m.part
    BY <1>1, <1>3
<1> QED
    BY <1>1, <1>2, <1>3, <1>4

LEMMA UsedPaths ==
    ASSUME PathInv, NEW j \in Jobs, Used(j)
    PROVE  /\ path[j] \in Names /\ Part(path[j]) \in Names
           /\ Part(path[j]) # path[j] /\ Part(path[j]).part # 0
<1>1. path[j] \in Names /\ path[j].part \in {0, 1}
    BY DEF PathInv, PathsChosen
<1> QED
    BY <1>1, PartIsName, PartFacts

LEMMA NoNameIsNone == NoName \notin Names
BY DEF NoName, Names

(* Two jobs with a file in common share it.                                *)
LEMMA Overlap ==
    ASSUME PathInv, NEW j \in Jobs, NEW k \in Jobs, j # k, Used(j), Used(k),
           NEW n \in Mine(j), n \in Mine(k)
    PROVE  Share(j, k) /\ Shared(j) /\ Shared(k)
<1>1. path[j] = path[k] \/ Clash(j, k)
    BY UsedPaths, PartFacts DEF Mine, Clash
<1>2. path[j] = path[k] => j \in lapsed \/ k \in lapsed
    BY DEF PathInv, ReservedApart, LapsedKnown, Used
<1>3. Share(j, k) /\ Share(k, j)
    BY <1>1, <1>2 DEF Share, Clash, Used
<1> QED
    BY <1>3 DEF Shared

LEMMA BusyUsed ==
    ASSUME PathInv, NEW j \in Jobs, Busy(j)
    PROVE  Used(j) /\ run[j] \in Runs
BY DEF PathInv, OnlyUsed, Busy, TypeOK


-----------------------------------------------------------------------------
(* What lasts: a path is chosen once, no row is taken back to "unused",    *)
(* and a new path is that of no file.                                      *)
Lasting ==
    /\ \A k \in Jobs : Used(k) => Used(k)' /\ path'[k] = path[k]
    /\ \A k \in Jobs : Used(k)' /\ ~ Used(k) => ~ Exists(path'[k])
    /\ lapsed \subseteq lapsed'

LEMMA SetStatusLasts ==
    ASSUME PathInv, NEW j \in Jobs, NEW s \in Statuses \cup {"removed"},
           SetStatus(j, s), UNCHANGED path
    PROVE  Lasting
<1>1. \A k \in Jobs : Used(k) <=> Used(k)'
    BY SetStatusKeeps
<1>2. lapsed \subseteq lapsed'
    BY DEF SetStatus
<1> QED
    BY <1>1, <1>2 DEF Lasting

LEMMA RowsLast ==
    ASSUME UNCHANGED <<row, path, lapsed>>
    PROVE  Lasting
BY DEF Lasting, Used

LEMMA SharesLast ==
    ASSUME PathInv, Lasting
    PROVE  /\ \A j, k \in Jobs : Share(j, k) => Share(j, k)'
           /\ \A k \in Jobs : Used(k) => Mine(k)' = Mine(k)
           /\ \A k \in Jobs : Shared(k) => Used(k) /\ Shared(k)'
<1>1. \A j, k \in Jobs : Share(j, k) => Used(j) /\ Used(k)
    BY DEF Share, Used
<1>2. ASSUME NEW j \in Jobs, NEW k \in Jobs, Share(j, k) PROVE Share(j, k)'
    <2>1. path'[j] = path[j] /\ path'[k] = path[k] /\ Used(j)' /\ Used(k)'
        BY <1>1, <1>2 DEF Lasting
    <2>2. lapsed \subseteq lapsed'
        BY DEF Lasting
    <2> QED
        BY <1>2, <2>1, <2>2 DEF Share, Clash, Used
<1>3. \A k \in Jobs : Used(k) => Mine(k)' = Mine(k)
    BY DEF Lasting, Mine
<1> QED
    BY <1>1, <1>2, <1>3 DEF Shared

(* What owns a file that does not change goes on owning it.                *)
LEMMA OwnedLasts ==
    ASSUME PathInv, Lasting, NEW n \in Names, Exists(n), Owned(n), disk'[n] = disk[n],
           late \subseteq late'
    PROVE  Owned(n)'
<1>1. CASE Foreign(n)
    <2>1. n \in late' \/ \A k \in Jobs : Used(k)' => path'[k] # n
        BY <1>1 DEF Foreign, Lasting
    <2> QED
        BY <1>1, <2>1 DEF Foreign, Owned
<1>2. ASSUME NEW k \in Jobs, Wrote(k, n) PROVE Owned(n)'
    <2>1. Used(k)' /\ path'[k] = path[k]
        BY <1>2 DEF Wrote, Lasting
    <2>2. Wrote(k, n)'
        BY <1>2, <2>1, SharesLast DEF Wrote
    <2> QED
        BY <2>2 DEF Owned
<1> QED
    BY <1>1, <1>2 DEF Owned

LEMMA FollowsLasts ==
    ASSUME PathInv, Lasting, NEW j \in Jobs, Used(j), NEW n, Follows(j, n)
    PROVE  Follows(j, n)'
<1>1. path'[j] = path[j]
    BY DEF Lasting
<1> QED
    BY <1>1, SharesLast DEF Follows

(* The three parts, from what a step does to the files, the handles and    *)
(* the runs.                                                               *)
LEMMA FilesStep ==
    ASSUME FileInv, Lasting, late \subseteq late',
           \A n \in Names : Exists(n)' => (Exists(n) /\ disk'[n] = disk[n]) \/ Owned(n)'
    PROVE  FilesOwned'
BY OwnedLasts DEF FileInv, FilesOwned

LEMMA HandlesStep ==
    ASSUME FileInv, Lasting,
           \A k \in Jobs, n \in Names : Busy(k)' /\ run'[k].at = n =>
               /\ Exists(n)' /\ Person \notin disk'[n].by
               /\ (Busy(k) /\ run[k].at = n) \/ Follows(k, n)'
    PROVE  HandlesOwned'
<1> SUFFICES ASSUME NEW k \in Jobs, NEW n \in Names, Busy(k), run[k].at = n
             PROVE  Follows(k, n)'
    BY DEF HandlesOwned
<1> QED
    BY BusyUsed, FollowsLasts DEF FileInv, HandlesOwned

LEMMA TargetsStep ==
    ASSUME FileInv, Lasting, late \subseteq late',
           \A k \in Jobs, n \in Names : At(k, "move")' /\ n = path'[k] /\ Exists(n)' =>
               \/ At(k, "move") /\ n = path[k] /\ Exists(n) /\ disk'[n] = disk[n]
               \/ Late(n)' \/ Shared(k)'
    PROVE  TargetsClear'
<1>1. \A k \in Jobs, n \in Names :
         At(k, "move") /\ n = path[k] /\ Exists(n) => Late(n) \/ Shared(k)
    BY DEF FileInv, TargetsClear
<1>2. \A k \in Jobs : Shared(k) => Shared(k)'
    BY SharesLast DEF FileInv
<1>3. \A n \in Names : Late(n) /\ disk'[n] = disk[n] => Late(n)'
    BY DEF Late
<1> QED
    BY <1>1, <1>2, <1>3 DEF TargetsClear


-----------------------------------------------------------------------------
(* The steps, and the files.                                               *)

(* Steps that touch no file: a handle may only be dropped.                 *)
LEMMA QuietStep ==
    ASSUME FileInv, PathInv', Lasting, UNCHANGED <<disk, late>>,
           \A k \in Jobs, n \in Names : Busy(k)' /\ run'[k].at = n => Busy(k) /\ run[k].at = n,
           \A k \in Jobs : At(k, "move")' => At(k, "move")
    PROVE  FileInv'
<1>1. \A n : Exists(n)' <=> Exists(n)
    BY DEF Exists
<1>2. FilesOwned'
    BY <1>1, FilesStep
<1>3. HandlesOwned'
    BY <1>1, HandlesStep DEF FileInv, HandlesOwned
<1>4. TargetsClear'
    <2>1. \A k \in Jobs : At(k, "move") => Used(k) /\ path'[k] = path[k]
        BY BusyUsed DEF FileInv, At, Lasting
    <2> QED
        BY <1>1, <2>1, TargetsStep
<1> QED
    BY <1>2, <1>3, <1>4 DEF FileInv

(* Where the handles are after a file has moved or is gone.                *)
LEMMA MovedAt ==
    ASSUME NEW r \in [Jobs -> Runs \cup {Idle}], NEW n, NEW m, NEW k \in Jobs
    PROVE  /\ r[k] = Idle <=> Moved(r, n, m)[k] = Idle
           /\ r[k] # Idle => /\ Moved(r, n, m)[k].pc = r[k].pc
                             /\ Moved(r, n, m)[k].at = IF r[k].at = n THEN m ELSE r[k].at
<1>1. CASE r[k] = Idle \/ r[k].at # n
    BY <1>1 DEF Moved
<1>2. CASE r[k] # Idle /\ r[k].at = n
    <2>1. r[k] \in Runs
        BY <1>2
    <2>2. Moved(r, n, m)[k] = [r[k] EXCEPT !.at = m]
        BY <1>2 DEF Moved
    <2>3. r[k].pc # "idle" /\ [r[k] EXCEPT !.at = m].pc = r[k].pc /\ [r[k] EXCEPT !.at = m].at = m
        BY <2>1 DEF Runs, Phases
    <2> QED
        BY <1>2, <2>2, <2>3 DEF Idle
<1> QED
    BY <1>1, <1>2

LEMMA ExistsFacts ==
    ASSUME NEW n \in Names, NEW f, disk'[n] = f
    PROVE  Exists(n)' <=> f # NoFile
BY DEF Exists

(* A file is removed, with the handles to it.                              *)
LEMMA UnlinkStep ==
    ASSUME FileInv, PathInv', Lasting, NEW n \in Names,
           NEW r \in [Jobs -> Runs \cup {Idle}],
           Unlink(n, r), UNCHANGED <<path, late>>,
           \A k \in Jobs, m \in Names : r[k] # Idle /\ r[k].at = m => Busy(k) /\ run[k].at = m,
           \A k \in Jobs : r[k] # Idle /\ r[k].pc = "move" => At(k, "move") \/ path[k] = n
    PROVE  FileInv'
<1>1. run' = Moved(r, n, NoName) /\ disk' = [disk EXCEPT ![n] = NoFile]
    BY DEF Unlink
<1>2. ~ Exists(n)' /\ \A m \in Names : m # n => disk'[m] = disk[m] /\ (Exists(m)' <=> Exists(m))
    BY <1>1 DEF Exists, FileInv, PathInv, TypeOK
<1>3. FilesOwned'
    BY <1>2, FilesStep
<1>4. ASSUME NEW k \in Jobs, NEW m \in Names, Busy(k)', run'[k].at = m
      PROVE  Busy(k) /\ run[k].at = m /\ m # n
    <2>1. r[k] # Idle
        BY <1>1, <1>4, MovedAt DEF Busy
    <2>2. r[k].at = m /\ m # n
        BY <1>1, <1>4, <2>1, MovedAt, NoNameIsNone
    <2> QED
        BY <2>1, <2>2
<1>5. HandlesOwned'
    BY <1>2, <1>4, HandlesStep DEF FileInv, HandlesOwned
<1>6. ASSUME NEW k \in Jobs, At(k, "move")' PROVE At(k, "move") \/ path[k] = n
    <2>1. r[k] # Idle /\ r[k].pc = "move"
        BY <1>1, <1>6, MovedAt DEF At, Busy
    <2> QED
        BY <2>1
<1>7. TargetsClear'
    BY <1>2, <1>6, TargetsStep
<1> QED
    BY <1>3, <1>5, <1>7 DEF FileInv

LEMMA ClearTargetFiles ==
    ASSUME FileInv, PathInv', NEW j \in Jobs, ClearTarget(j)
    PROVE  FileInv'
<1> DEFINE moving == [run EXCEPT ![j].pc = "move", ![j].at = NoName]
<1>1. Busy(j) /\ run[j] \in Runs /\ path[j] \in Names
    BY BusyUsed, UsedPaths DEF ClearTarget, At, FileInv
<1>2. [run[j] EXCEPT !.pc = "move", !.at = NoName] \in Runs
    BY <1>1 DEF Runs, Phases
<1>3. moving \in [Jobs -> Runs \cup {Idle}]
    BY <1>1, <1>2 DEF FileInv, PathInv, TypeOK
<1>4. /\ moving[j].at = NoName /\ moving[j].pc = "move"
      /\ \A k \in Jobs : k # j => moving[k] = run[k]
    BY <1>1 DEF FileInv, PathInv, TypeOK, Runs
<1>5. \A k \in Jobs, m \in Names : moving[k] # Idle /\ moving[k].at = m => Busy(k) /\ run[k].at = m
    BY <1>4, NoNameIsNone DEF Busy
<1>6. \A k \in Jobs :
         moving[k] # Idle /\ moving[k].pc = "move" => At(k, "move") \/ path[k] = path[j]
    BY <1>4 DEF At, Busy
<1>7. Unlink(path[j], moving) /\ UNCHANGED <<path, late>> /\ Lasting
    BY RowsLast DEF ClearTarget
<1> HIDE DEF moving
<1> QED
    BY <1>1, <1>3, <1>5, <1>6, <1>7, UnlinkStep

LEMMA DeletesFiles ==
    ASSUME FileInv, PathInv', NEW n \in Names, Unlink(n, run), UNCHANGED <<row, path, lapsed, late>>
    PROVE  FileInv'
<1>1. run \in [Jobs -> Runs \cup {Idle}]
    BY DEF FileInv, PathInv, TypeOK
<1>2. Lasting
    BY RowsLast
<1> QED
    BY <1>1, <1>2, UnlinkStep DEF Busy, At


(* Created or appended to: a file of another job at this name means that   *)
(* the two share it.                                                       *)
LEMMA OpenFiles ==
    ASSUME FileInv, PathInv', NEW j \in Jobs, Open(j)
    PROVE  FileInv'
<1>0. Busy(j) /\ Used(j) /\ run[j] \in Runs /\ Part(path[j]) \in Names /\ path[j] \in Names
    BY BusyUsed, UsedPaths DEF Open, At, FileInv
<1>1. PICK n \in Names : n = Part(path[j])
    BY <1>0
<1>2. Lasting
    BY SetStatusLasts DEF Open, FileInv, Statuses, InFlight
<1>3. /\ run'[j].pc = "write" /\ run'[j].at = n
      /\ \A k \in Jobs : k # j => run'[k] = run[k]
      /\ \A k \in Jobs : Busy(k)' => Busy(k)
    BY <1>0, <1>1 DEF Open, FileInv, PathInv, TypeOK, Runs, Busy
<1>4. PICK kept \in {{}, disk[n].by} :
         /\ disk'[n] = [by |-> kept \cup {j}, done |-> FALSE]
         /\ \A m \in Names : m # n => disk'[m] = disk[m]
         /\ UNCHANGED <<path, late>>
    BY <1>0, <1>1 DEF Open, FileInv, PathInv, TypeOK
(* Whose bytes were there.                                                 *)
<1>5. Person \notin disk'[n].by /\ (disk'[n].by = {j} \/ Shared(j))
    <2>1. CASE ~ Exists(n)
        BY <1>4, <2>1, PersonAssumption DEF Exists, NoFile
    <2>2. CASE Exists(n)
        <3>1. ~ Foreign(n) /\ Owned(n)
            BY <1>0, <1>1, <2>2, UsedPaths DEF Foreign, FileInv, FilesOwned
        <3>2. PICK l \in Jobs : Wrote(l, n)
            BY <3>1 DEF Owned
        <3>3. Used(l) /\ n \in Mine(l) /\ n \in Mine(j)
            BY <1>1, <3>2 DEF Wrote, Mine
        <3>4. l # j => Shared(j)
            BY <1>0, <3>3, Overlap DEF FileInv
        <3> QED
            BY <1>4, <3>2, <3>4, PersonAssumption DEF Wrote
    <2> QED
        BY <2>1, <2>2
<1>6. Exists(n)' /\ \A m \in Names : Exists(m) => Exists(m)'
    BY <1>1, <1>4 DEF Exists, NoFile
<1>7. Wrote(j, n)'
    <2>1. Used(j)' /\ path'[j] = path[j] /\ (Shared(j) => Shared(j)')
        BY <1>0, <1>2, SharesLast DEF Lasting, FileInv
    <2> QED
        BY <1>1, <1>4, <1>5, <2>1 DEF Wrote
<1>8. FilesOwned'
    <2>1. \A m \in Names : m # n /\ Exists(m)' => Exists(m) /\ disk'[m] = disk[m]
        BY <1>4 DEF Exists
    <2>2. \A m \in Names : m = n => Owned(m)'
        BY <1>7 DEF Owned
    <2> QED
        BY <1>2, <1>4, <2>1, <2>2, FilesStep
<1>9. HandlesOwned'
    <2>1. Follows(j, n)'
        BY <1>1, <1>4 DEF Follows
    <2>2. \A k \in Jobs, m \in Names :
             k # j /\ Busy(k) /\ run[k].at = m => Exists(m)' /\ Person \notin disk'[m].by
        BY <1>4, <1>5, <1>6 DEF FileInv, HandlesOwned
    <2> QED
        BY <1>2, <1>3, <1>5, <1>6, <2>1, <2>2, HandlesStep
<1>10. TargetsClear'
    <2> SUFFICES ASSUME NEW k \in Jobs, NEW m \in Names, At(k, "move")', m = path'[k], Exists(m)'
                 PROVE  \/ At(k, "move") /\ m = path[k] /\ Exists(m) /\ disk'[m] = disk[m]
                        \/ Late(m)' \/ Shared(k)'
        BY <1>2, <1>4, TargetsStep
    <2>1. k # j /\ At(k, "move") /\ m = path[k] /\ Used(k)
        BY <1>3, <1>4, BusyUsed DEF At, FileInv, Busy
    <2>2. CASE m # n
        BY <1>4, <2>1, <2>2 DEF Exists
    <2>3. CASE m = n
        <3>1. Shared(k)
            BY <1>0, <1>1, <2>1, <2>3, Overlap DEF FileInv, Mine
        <3> QED
            BY <1>2, <3>1, SharesLast DEF FileInv
    <2> QED
        BY <2>2, <2>3
<1> QED
    BY <1>8, <1>9, <1>10 DEF FileInv

(* A job writes where its handle is: into a file of its own, or into one   *)
(* that is shared.                                                         *)
LEMMA WriteFiles ==
    ASSUME FileInv, PathInv', NEW j \in Jobs, Write(j)
    PROVE  FileInv'
<1>0. Busy(j) /\ Used(j) /\ run[j].at \in Names
    BY BusyUsed DEF Write, At, FileInv, Runs
<1>1. PICK n \in Names : n = run[j].at
    BY <1>0
<1>2. Lasting
    BY RowsLast DEF Write
<1>3. UNCHANGED <<run, path, late>>
    BY DEF Write
<1>4. /\ disk'[n].done = disk[n].done
      /\ disk'[n].by = disk[n].by \cup {j}
      /\ \A m \in Names : m # n => disk'[m] = disk[m]
    BY <1>0, <1>1 DEF Write, FileInv, PathInv, TypeOK, Files
<1>5. Exists(n) /\ Person \notin disk[n].by /\ Follows(j, n)
    BY <1>0, <1>1 DEF FileInv, HandlesOwned
<1>6. \A m \in Names : Exists(m)' <=> Exists(m)
    <2>1. disk'[n] # NoFile
        BY <1>4 DEF NoFile
    <2> QED
        BY <1>1, <1>4, <1>5, <2>1 DEF Exists
<1>7. Owned(n)
    BY <1>1, <1>5 DEF FileInv, FilesOwned
<1>8. ASSUME NEW k \in Jobs, Used(k), n \in Mine(k), k # j => Shared(k)
      PROVE  Owned(n)'
    <2>1. ~ Foreign(n)
        BY <1>5 DEF Foreign
    <2>2. PICK l \in Jobs : Wrote(l, n)
        BY <1>7, <2>1 DEF Owned
    <2>3. Used(l) /\ n \in Mine(l)
        BY <2>2 DEF Wrote, Mine
    <2>4. Used(l)' /\ path'[l] = path[l] /\ (Shared(l) => Shared(l)')
        BY <1>2, <2>3, SharesLast DEF Lasting, FileInv
    <2>5. l # j => Shared(l)
        <3>1. CASE l = k
            BY <1>8, <3>1
        <3>2. CASE l # k
            BY <1>8, <2>3, <3>2, Overlap DEF FileInv
        <3> QED
            BY <3>1, <3>2
    <2>6. disk[n].by = {j} => disk'[n].by = {j}
        BY <1>4
    <2>7. Wrote(l, n)'
        BY <1>4, PersonAssumption, <2>2, <2>4, <2>5, <2>6 DEF Wrote
    <2> QED
        BY <2>7 DEF Owned
<1>9. Owned(n)'
    <2>1. CASE n = Part(path[j])
        BY <1>0, <1>8, <2>1 DEF Mine
    <2>2. CASE \E k \in Jobs : Shared(k) /\ n \in Mine(k)
        BY <1>2, <1>8, <2>2, SharesLast DEF FileInv
    <2> QED
        BY <1>5, <2>1, <2>2 DEF Follows
<1>10. FilesOwned'
    BY <1>2, <1>3, <1>4, <1>6, <1>9, FilesStep
<1>11. HandlesOwned'
    <2>1. \A m \in Names : Person \notin disk[m].by => Person \notin disk'[m].by
        BY <1>4, PersonAssumption
    <2> QED
        BY <1>2, <1>3, <1>6, <2>1, HandlesStep DEF FileInv, HandlesOwned, Busy
<1>12. TargetsClear'
    <2>1. \A k \in Jobs : At(k, "move") /\ n = path[k] => Shared(k)
        <3> SUFFICES ASSUME NEW k \in Jobs, At(k, "move"), n = path[k] PROVE Shared(k)
            OBVIOUS
        <3> QED
            BY <1>5 DEF FileInv, TargetsClear, Late
    <2>2. \A k \in Jobs : Shared(k) => Shared(k)'
        BY <1>2, SharesLast DEF FileInv
    <2> QED
        BY <1>2, <1>3, <1>4, <1>6, <2>1, <2>2, TargetsStep DEF At, Busy
<1> QED
    BY <1>10, <1>11, <1>12 DEF FileInv


(* The part becomes the file, with the bytes it has and the handles to it. *)
LEMMA RenameFiles ==
    ASSUME FileInv, PathInv', NEW j \in Jobs, Rename(j)
    PROVE  FileInv'
<1> DEFINE done == End(j, "Completed")
           replaced == Moved(done, path[j], NoName)
<1>1. Busy(j) /\ Used(j) /\ run[j] \in Runs /\ path[j] \in Names /\ Part(path[j]) \in Names
      /\ Part(path[j]) # path[j]
    BY BusyUsed, UsedPaths DEF Rename, At, FileInv
<1>2. PICK n \in Names, p \in Names : n = path[j] /\ p = Part(path[j]) /\ n # p
    BY <1>1
<1>3. Lasting
    BY RowsLast DEF Rename
<1>4. /\ Exists(p) /\ UNCHANGED <<path, late>>
      /\ disk'[n] = [by |-> disk[p].by, done |-> TRUE]
      /\ disk'[p] = NoFile
      /\ \A m \in Names : m # n /\ m # p => disk'[m] = disk[m]
    BY <1>2 DEF Rename, FileInv, PathInv, TypeOK
<1>5. done \in [Jobs -> Runs \cup {Idle}] /\ replaced \in [Jobs -> Runs \cup {Idle}]
    BY <1>1, EndRuns, MovedRuns DEF FileInv, Outcomes
<1>6. /\ done[j].pc = "ended" /\ done[j].at = NoName
      /\ \A k \in Jobs : k # j => done[k] = run[k]
    BY <1>1 DEF End, FileInv, PathInv, TypeOK, Runs
<1> HIDE DEF done
<1>7. run' = Moved(replaced, p, n)
    BY <1>2 DEF Rename, done
(* Where each handle was.                                                  *)
<1>8. ASSUME NEW k \in Jobs, Busy(k)'
      PROVE  /\ k # j => Busy(k) /\ run'[k].pc = run[k].pc
             /\ k = j => run'[k].pc = "ended"
             /\ \A m \in Names : run'[k].at = m =>
                    /\ k # j /\ m # p
                    /\ (m = n /\ run[k].at = p) \/ (m # n /\ run[k].at = m)
    <2>1. replaced[k] # Idle /\ run'[k].pc = replaced[k].pc
          /\ run'[k].at = IF replaced[k].at = p THEN n ELSE replaced[k].at
        BY <1>5, <1>7, <1>8, MovedAt DEF Busy
    <2>2. done[k] # Idle /\ replaced[k].pc = done[k].pc
          /\ replaced[k].at = IF done[k].at = n THEN NoName ELSE done[k].at
        BY <1>2, <1>5, <2>1, MovedAt
    <2> HIDE DEF replaced
    <2>3. NoName \notin Names
        BY NoNameIsNone
    <2> QED
        BY <1>2, <1>6, <2>1, <2>2, <2>3 DEF Busy
<1> HIDE DEF replaced
<1>9. Exists(n)' /\ ~ Exists(p)' /\ \A m \in Names : m # n /\ m # p => (Exists(m)' <=> Exists(m))
    BY <1>4 DEF Exists, NoFile
<1>10. Owned(n)' /\ Person \notin disk'[n].by
    <2>1. ~ Foreign(p) /\ Owned(p)
        BY <1>1, <1>2, <1>4, UsedPaths DEF Foreign, FileInv, FilesOwned
    <2>2. PICK k \in Jobs : Wrote(k, p)
        BY <2>1 DEF Owned
    <2>3. Used(k) /\ p \in Mine(k) /\ p \in Mine(j)
        BY <1>2, <2>2 DEF Wrote, Mine
    <2>4. disk[p].by = {j} \/ Shared(j)
        <3>1. CASE k = j
            BY <2>2, <3>1 DEF Wrote
        <3>2. CASE k # j
            BY <1>1, <2>3, <3>2, Overlap DEF FileInv
        <3> QED
            BY <3>1, <3>2
    <2>5. Used(j)' /\ path'[j] = n /\ (Shared(j) => Shared(j)')
        BY <1>1, <1>2, <1>3, SharesLast DEF Lasting, FileInv
    <2>6. disk'[n].done /\ disk'[n].by = disk[p].by /\ Person \notin disk'[n].by
        BY <1>4, <2>2 DEF Wrote
    <2>7. Wrote(j, n)'
        BY <2>4, <2>5, <2>6 DEF Wrote
    <2> QED
        BY <2>6, <2>7 DEF Owned
<1>11. FilesOwned'
    <2>1. \A m \in Names : Exists(m)' => (Exists(m) /\ disk'[m] = disk[m]) \/ Owned(m)'
        BY <1>4, <1>9, <1>10
    <2> QED
        BY <1>3, <1>4, <2>1, FilesStep
<1>12. ASSUME NEW k \in Jobs, k # j, Used(k), n \in Mine(k) \/ p \in Mine(k)
       PROVE  Shared(k) /\ Shared(k)' /\ Shared(j)'
    BY <1>1, <1>2, <1>3, <1>12, Overlap, SharesLast DEF FileInv, Mine
<1>13. HandlesOwned'
    <2> SUFFICES ASSUME NEW k \in Jobs, NEW m \in Names, Busy(k)', run'[k].at = m
                 PROVE  /\ Exists(m)' /\ Person \notin disk'[m].by
                        /\ (Busy(k) /\ run[k].at = m) \/ Follows(k, m)'
        BY <1>3, HandlesStep
    <2>1. k # j /\ Busy(k) /\ Used(k) /\ m # p
        BY <1>8, BusyUsed DEF FileInv
    <2>2. CASE m # n
        BY <1>4, <1>8, <1>9, <2>1, <2>2 DEF FileInv, HandlesOwned
    <2>3. CASE m = n
        <3>1. Follows(k, p)
            BY <1>8, <2>1, <2>3 DEF FileInv, HandlesOwned
        <3>2. CASE p = Part(path[k])
            <4>1. Shared(k)' /\ Shared(j)'
                BY <1>12, <2>1, <3>2 DEF Mine
            <4>2. n \in Mine(j)'
                BY <1>2, <1>4 DEF Mine
            <4>3. Follows(k, n)'
                BY <4>1, <4>2 DEF Follows
            <4> QED
                BY <1>9, <1>10, <2>3, <4>3
        <3>3. ASSUME Shared(k), NEW l \in Jobs, Shared(l), p \in Mine(l) PROVE Follows(k, n)'
            <4>1. Shared(k)' /\ Shared(j)'
                BY <1>3, <1>12, <3>3, SharesLast DEF FileInv
            <4>2. n \in Mine(j)'
                BY <1>2, <1>4 DEF Mine
            <4> QED
                BY <4>1, <4>2 DEF Follows
        <3> QED
            BY <1>9, <1>10, <2>3, <3>1, <3>2, <3>3 DEF Follows
    <2> QED
        BY <2>2, <2>3
<1>14. TargetsClear'
    <2> SUFFICES ASSUME NEW k \in Jobs, NEW m \in Names, At(k, "move")', m = path'[k], Exists(m)'
                 PROVE  \/ At(k, "move") /\ m = path[k] /\ Exists(m) /\ disk'[m] = disk[m]
                        \/ Late(m)' \/ Shared(k)'
        BY <1>3, <1>4, TargetsStep
    <2>1. k # j /\ At(k, "move") /\ m = path[k] /\ Used(k)
        BY <1>4, <1>8, BusyUsed DEF At, FileInv
    <2>2. CASE m # n
        BY <1>4, <1>9, <2>1, <2>2
    <2>3. CASE m = n
        BY <1>12, <2>1, <2>3 DEF Mine
    <2> QED
        BY <2>2, <2>3
<1> QED
    BY <1>11, <1>13, <1>14 DEF FileInv


LEMMA QueueFiles ==
    ASSUME FileInv, PathInv', NEW j \in Jobs, NEW payload \in Payloads, NEW auto \in BOOLEAN,
           queue_payload(j, payload, auto)
    PROVE  FileInv'
<1>1. PICK c \in Copies :
         /\ ~ Taken(Copy(build_job(payload, auto), c))
         /\ path' = [path EXCEPT ![j] = Copy(build_job(payload, auto), c)]
    BY DEF queue_payload, unique_path
<1>2. ~ Exists(path'[j]) /\ \A k \in Jobs : k # j => path'[k] = path[k] /\ row'[k] = row[k]
    BY <1>1 DEF Taken, queue_payload, FileInv, PathInv, TypeOK
<1>3. row[j] = "unused" /\ row'[j] = "Queued" /\ UNCHANGED <<run, disk, lapsed, late>>
    BY DEF queue_payload, FileInv, PathInv, TypeOK
<1>4. Lasting
    BY <1>2, <1>3 DEF Lasting, Used
<1> QED
    BY <1>3, <1>4, QuietStep DEF Busy, At

(* A run begins, ends or is told to stop: no handle comes in.              *)
LEMMA StartFiles ==
    ASSUME FileInv, PathInv', NEW j \in Jobs, Start(j)
    PROVE  FileInv'
<1>1. /\ run'[j].at = NoName /\ run'[j].pc = "get"
      /\ \A k \in Jobs : k # j => run'[k] = run[k]
    BY DEF Start, FileInv, PathInv, TypeOK
<1>2. Lasting /\ UNCHANGED <<disk, late>>
    BY RowsLast DEF Start
<1> QED
    BY <1>1, <1>2, NoNameIsNone, QuietStep DEF Busy, At

LEMMA StopFiles ==
    ASSUME FileInv, PathInv', NEW j \in Jobs, Stop(j) \/ Fail(j)
    PROVE  FileInv'
<1>1. PICK outcome \in {"Paused", "Failed"} : run' = End(j, outcome)
    BY DEF Stop, Fail
<1>2. Busy(j) /\ run[j] \in Runs
    BY BusyUsed DEF Stop, Fail, At, FileInv
<1>3. /\ run'[j].at = NoName /\ run'[j].pc = "ended"
      /\ \A k \in Jobs : k # j => run'[k] = run[k]
    BY <1>1, <1>2 DEF End, FileInv, PathInv, TypeOK, Runs
<1>4. Lasting /\ UNCHANGED <<disk, late>>
    BY RowsLast DEF Stop, Fail
<1> QED
    BY <1>3, <1>4, NoNameIsNone, QuietStep DEF Busy, At

LEMMA SignalFiles ==
    ASSUME FileInv, PathInv', Lasting, UNCHANGED <<disk, late>>,
           NEW j \in Jobs, UNCHANGED run \/ (Busy(j) /\ run' = [run EXCEPT ![j].stop = TRUE])
    PROVE  FileInv'
<1>1. CASE UNCHANGED run
    BY <1>1, QuietStep DEF Busy, At
<1>2. CASE Busy(j) /\ run' = [run EXCEPT ![j].stop = TRUE]
    <2>1. run[j] \in Runs
        BY <1>2, BusyUsed DEF FileInv
    <2>2. /\ run'[j].at = run[j].at /\ run'[j].pc = run[j].pc
          /\ \A k \in Jobs : k # j => run'[k] = run[k]
        BY <1>2, <2>1 DEF FileInv, PathInv, TypeOK, Runs
    <2> QED
        BY <1>2, <2>2, QuietStep DEF Busy, At
<1> QED
    BY <1>1, <1>2

LEMMA ReportFiles ==
    ASSUME FileInv, PathInv', NEW j \in Jobs, Report(j)
    PROVE  FileInv'
<1>1. run[j] \in Runs /\ run[j].end \in Statuses \cup {"removed"}
    BY BusyUsed DEF Report, At, FileInv, Runs, Outcomes, Statuses, InFlight
<1>2. SetStatus(j, "Cancelled") \/ SetStatus(j, run[j].end)
    BY DEF Report
<1>3. Lasting
    BY <1>1, <1>2, SetStatusLasts DEF Report, FileInv, Statuses
<1>4. run'[j] = Idle /\ \A k \in Jobs : k # j => run'[k] = run[k]
    BY DEF Report, FileInv, PathInv, TypeOK
<1>5. UNCHANGED <<disk, late>>
    BY DEF Report
<1> QED
    BY <1>3, <1>4, <1>5, QuietStep DEF Busy, At

LEMMA RequestFiles ==
    ASSUME FileInv, PathInv', NEW j \in Jobs,
           Retry(j) \/ Resume(j) \/ Pause(j) \/ Cancel(j) \/ Remove(j)
    PROVE  FileInv'
<1>1. /\ UNCHANGED <<path, disk, late>>
      /\ UNCHANGED run \/ (Busy(j) /\ run' = [run EXCEPT ![j].stop = TRUE])
    BY DEF Retry, Resume, Pause, Cancel, Remove, Signal
<1>2. \/ UNCHANGED <<row, lapsed>>
      \/ \E s \in Statuses \cup {"removed"} : SetStatus(j, s)
    BY DEF Retry, Resume, Pause, Cancel, Remove, Statuses, InFlight
<1>3. Lasting
    BY <1>1, <1>2, RowsLast, SetStatusLasts DEF FileInv
<1> QED
    BY <1>1, <1>3, SignalFiles

LEMMA CrashFiles ==
    ASSUME FileInv, PathInv', Crash
    PROVE  FileInv'
<1>1. Lasting /\ UNCHANGED <<disk, late>>
    BY RowsLast DEF Crash
<1>2. \A k \in Jobs : ~ Busy(k)'
    BY DEF Crash, Busy
<1> QED
    BY <1>1, <1>2, QuietStep DEF At

(* Where there was no file there is a person's.                            *)
LEMMA ArrivesFiles ==
    ASSUME FileInv, PathInv', NEW n \in Arrivals, PersonCreates(n)
    PROVE  FileInv'
<1>1. n \in Names /\ n.part = 0 /\ ~ Exists(n)
    BY ArrivalNames DEF PersonCreates
<1>2. /\ disk'[n] = [by |-> {Person}, done |-> TRUE]
      /\ \A m \in Names : m # n => disk'[m] = disk[m]
      /\ UNCHANGED <<row, path, run, lapsed>>
      /\ late \subseteq late'
    BY <1>1 DEF PersonCreates, FileInv, PathInv, TypeOK
<1>3. Lasting
    BY <1>2, RowsLast
<1>4. Exists(n)' /\ \A m \in Names : m # n => (Exists(m)' <=> Exists(m))
    BY <1>1, <1>2 DEF Exists, NoFile
<1>5. ASSUME NEW k \in Jobs, Used(k), path[k] = n PROVE Late(n)'
    BY <1>2, <1>5 DEF PersonCreates, Used, Late
<1>6. Foreign(n)'
    BY <1>1, <1>2, <1>5 DEF Foreign, Used, Late
<1>7. FilesOwned'
    BY <1>2, <1>3, <1>4, <1>6, FilesStep DEF Owned
<1>8. HandlesOwned'
    <2>1. \A k \in Jobs, m \in Names : Busy(k) /\ run[k].at = m =>
             m # n /\ Exists(m) /\ Person \notin disk[m].by
        BY <1>1 DEF FileInv, HandlesOwned
    <2> QED
        BY <1>2, <1>3, <1>4, <2>1, HandlesStep DEF Busy
<1>9. TargetsClear'
    <2>1. \A k \in Jobs : At(k, "move") => Used(k)
        BY BusyUsed DEF At, FileInv
    <2> QED
        BY <1>2, <1>3, <1>4, <1>5, <2>1, TargetsStep DEF At, Busy
<1> QED
    BY <1>7, <1>8, <1>9 DEF FileInv

LEMMA InitFileInv == Init => FileInv
<1> SUFFICES ASSUME Init PROVE FileInv
    OBVIOUS
<1>1. \A j \in Jobs : ~ Used(j) /\ ~ Busy(j)
    BY DEF Init, Used, Busy
<1>2. \A n \in Names : Exists(n) => Foreign(n)
    <2>1. PICK old \in SUBSET Arrivals :
             disk = [n \in Names |-> IF n \in old THEN [by |-> {Person}, done |-> TRUE] ELSE NoFile]
        BY DEF Init
    <2> QED
        BY <1>1, <2>1, ArrivalNames DEF Exists, Foreign
<1> QED
    BY <1>1, <1>2, InitPathInv DEF FileInv, FilesOwned, HandlesOwned, TargetsClear, Owned, At

LEMMA NextFileInv == FileInv /\ [Next]_vars => FileInv'
<1> SUFFICES ASSUME FileInv, [Next]_vars PROVE FileInv'
    OBVIOUS
<1>1. PathInv'
    BY NextPathInv DEF FileInv
<1>2. CASE UNCHANGED vars
    <2>1. Lasting /\ UNCHANGED <<disk, late, run>>
        BY <1>2, RowsLast DEF vars
    <2> QED
        BY <1>1, <2>1, QuietStep DEF Busy, At
<1>3. ASSUME NEW j \in Jobs, NEW payload \in Payloads, NEW auto \in BOOLEAN,
             queue_payload(j, payload, auto)
      PROVE  FileInv'
    BY <1>1, <1>3, QueueFiles
<1>4. ASSUME NEW j \in Jobs,
             \/ Start(j) \/ Open(j) \/ Write(j) \/ Stop(j) \/ Fail(j)
             \/ ClearTarget(j) \/ Rename(j) \/ Report(j)
      PROVE  FileInv'
    BY <1>1, <1>4, StartFiles, OpenFiles, WriteFiles, StopFiles, ClearTargetFiles, RenameFiles,
       ReportFiles
<1>5. ASSUME NEW j \in Jobs, Retry(j) \/ Resume(j) \/ Pause(j) \/ Cancel(j) \/ Remove(j)
      PROVE  FileInv'
    BY <1>1, <1>5, RequestFiles
<1>6. ASSUME NEW j \in Jobs, DeleteParts(j) PROVE FileInv'
    <2>1. Part(path[j]) \in Names
        BY <1>6, UsedPaths DEF DeleteParts, FileInv, PathInv, OnlyUsed
    <2> QED
        BY <1>1, <1>6, <2>1, DeletesFiles DEF DeleteParts
<1>7. ASSUME NEW n \in Names, PersonDeletes(n) PROVE FileInv'
    BY <1>1, <1>7, DeletesFiles DEF PersonDeletes
<1>8. ASSUME NEW n \in Arrivals, PersonCreates(n) PROVE FileInv'
    BY <1>1, <1>8, ArrivesFiles
<1>9. CASE Crash
    BY <1>1, <1>9, CrashFiles
<1> QED
    BY <1>2, <1>3, <1>4, <1>5, <1>6, <1>7, <1>8, <1>9 DEF Next

LEMMA FileInvInductive == Spec => []FileInv
<1> QED
    BY InitFileInv, NextFileInv, PTL DEF Spec


-----------------------------------------------------------------------------
(* What follows for the files.                                             *)

LEMMA FileInvCompleted == FileInv => CompletedIsOwn
<1> SUFFICES ASSUME FileInv, NEW j \in Jobs, Busy(j), Exists(path[j])
             PROVE  disk[path[j]].by = {j} \/ Late(path[j]) \/ Shared(j)
    BY DEF CompletedIsOwn, Shared, At
<1>1. Used(j) /\ path[j] \in Names
    BY BusyUsed, UsedPaths DEF FileInv
<1> SUFFICES ASSUME ~ Foreign(path[j]) PROVE disk[path[j]].by = {j} \/ Shared(j)
    BY <1>1 DEF Foreign, Late
<1>2. PICK k \in Jobs : Wrote(k, path[j])
    BY <1>1 DEF FileInv, FilesOwned, Owned
<1>3. Used(k) /\ path[j] \in Mine(k) /\ path[j] \in Mine(j)
    BY <1>2 DEF Wrote, Mine
<1> QED
    BY <1>1, <1>2, <1>3, Overlap DEF FileInv, Wrote

(* The action of FinishedIsKept, for one file.                             *)
KeptOrOwned(n) ==
    \/ PersonDeletes(n)
    \/ \E j \in Jobs : n = path[j] /\ disk[n].by = {j} /\ At(j, "write")
    \/ \E j \in Jobs : n = path[j] /\ Late(n) /\ (At(j, "write") \/ At(j, "move"))
    \/ \E j, k \in Jobs : Share(j, k) /\ n \in {path[j], Part(path[j])}

(* A finished file at a job's part, or at the file of a job that does not  *)
(* own it, is shared; or it is a person's that came late.                  *)
LEMMA FinishedOwner ==
    ASSUME FileInv, NEW n \in Names, Exists(n), disk[n].done, NEW j \in Jobs, Used(j), n \in Mine(j)
    PROVE  Shared(j) \/ (n = path[j] /\ (disk[n].by = {j} \/ Late(n)))
<1>1. SUFFICES ASSUME ~ Foreign(n) PROVE Shared(j) \/ (n = path[j] /\ disk[n].by = {j})
    BY UsedPaths DEF Foreign, Late, Mine, FileInv
<1>2. PICK k \in Jobs : Wrote(k, n)
    BY <1>1 DEF FileInv, FilesOwned, Owned
<1>3. Used(k) /\ n = path[k] /\ n \in Mine(k)
    BY <1>2 DEF Wrote, Mine
<1>4. CASE k = j
    BY <1>2, <1>3, <1>4 DEF Wrote
<1>5. CASE k # j
    BY <1>3, <1>5, Overlap DEF FileInv
<1> QED
    BY <1>4, <1>5

LEMMA SharedFile ==
    ASSUME NEW j \in Jobs, Shared(j), NEW n \in Mine(j)
    PROVE  KeptOrOwned(n)
BY DEF Shared, Mine, KeptOrOwned

LEMMA FinishedStep ==
    ASSUME FileInv, Next, NEW n \in Names, disk[n].done, disk'[n] # disk[n]
    PROVE  KeptOrOwned(n)
<1>1. Exists(n)
    BY DEF Exists, NoFile
<1>2. disk \in [Names -> Files]
    BY DEF FileInv, PathInv, TypeOK
<1>3. ASSUME NEW j \in Jobs, Open(j) PROVE KeptOrOwned(n)
    <2>1. Used(j) /\ n = Part(path[j]) /\ n # path[j]
        BY <1>2, <1>3, BusyUsed, UsedPaths DEF Open, At, FileInv
    <2> QED
        BY <1>1, <2>1, FinishedOwner, SharedFile DEF Mine
<1>4. ASSUME NEW j \in Jobs, Write(j) PROVE KeptOrOwned(n)
    <2>1. Busy(j) /\ Used(j) /\ n = run[j].at
        BY <1>2, <1>4, BusyUsed DEF Write, At, FileInv
    <2>2. Follows(j, n)
        BY <2>1 DEF FileInv, HandlesOwned
    <2>3. CASE n = Part(path[j])
        <3>1. n # path[j] /\ n \in Mine(j)
            BY <2>1, <2>3, UsedPaths DEF Mine, FileInv
        <3> QED
            BY <1>1, <2>1, <3>1, FinishedOwner, SharedFile
    <2>4. CASE \E k \in Jobs : Shared(k) /\ n \in Mine(k)
        BY <2>4, SharedFile
    <2> QED
        BY <2>2, <2>3, <2>4 DEF Follows
<1>5. ASSUME NEW j \in Jobs, ClearTarget(j) PROVE KeptOrOwned(n)
    <2>1. At(j, "write") /\ Used(j) /\ n = path[j]
        BY <1>2, <1>5, BusyUsed DEF ClearTarget, Unlink, At, FileInv
    <2>2. Shared(j) \/ disk[n].by = {j} \/ Late(n)
        BY <1>1, <2>1, FinishedOwner DEF Mine
    <2> QED
        BY <2>1, <2>2, SharedFile DEF KeptOrOwned, Mine
<1>6. ASSUME NEW j \in Jobs, Rename(j) PROVE KeptOrOwned(n)
    <2>1. At(j, "move") /\ Used(j) /\ (n = path[j] \/ n = Part(path[j]))
        BY <1>2, <1>6, BusyUsed DEF Rename, At, FileInv
    <2>2. CASE n = path[j]
        <3>1. Late(n) \/ Shared(j)
            BY <1>1, <2>1, <2>2 DEF FileInv, TargetsClear
        <3> QED
            BY <2>1, <2>2, <3>1, SharedFile DEF KeptOrOwned, Mine
    <2>3. CASE n = Part(path[j])
        <3>1. n # path[j]
            BY <2>1, <2>3, UsedPaths DEF FileInv
        <3> QED
            BY <1>1, <2>1, <2>3, <3>1, FinishedOwner, SharedFile DEF Mine
    <2> QED
        BY <2>1, <2>2, <2>3
<1>7. ASSUME NEW j \in Jobs, DeleteParts(j) PROVE KeptOrOwned(n)
    <2>1. Used(j) /\ n = Part(path[j])
        BY <1>2, <1>7 DEF DeleteParts, Unlink, FileInv, PathInv, OnlyUsed
    <2>2. n # path[j]
        BY <2>1, UsedPaths DEF FileInv
    <2> QED
        BY <1>1, <2>1, <2>2, FinishedOwner, SharedFile DEF Mine
<1>8. ASSUME NEW m \in Names, PersonDeletes(m) PROVE KeptOrOwned(n)
    <2>1. m = n
        BY <1>2, <1>8 DEF PersonDeletes, Unlink
    <2> QED
        BY <1>8, <2>1 DEF KeptOrOwned
<1>9. ASSUME NEW j \in Jobs, NEW payload \in Payloads, NEW auto \in BOOLEAN,
             queue_payload(j, payload, auto)
      PROVE  FALSE
    BY <1>9 DEF queue_payload
<1>10. ASSUME NEW j \in Jobs,
              \/ Start(j) \/ Stop(j) \/ Fail(j) \/ Report(j)
              \/ Retry(j) \/ Resume(j) \/ Pause(j) \/ Cancel(j) \/ Remove(j)
       PROVE  FALSE
    BY <1>10 DEF Start, Stop, Fail, Report, Retry, Resume, Pause, Cancel, Remove
<1>11. ASSUME NEW m \in Arrivals, PersonCreates(m) PROVE FALSE
    BY <1>1, <1>2, <1>11 DEF PersonCreates
<1>12. CASE Crash
    BY <1>12 DEF Crash
<1> QED
    BY <1>3, <1>4, <1>5, <1>6, <1>7, <1>8, <1>9, <1>10, <1>11, <1>12 DEF Next

(* The action of PartIsKept, for one job.                                  *)
LosesPart(j) ==
    At(j, "write") /\ run'[j] # Idle /\ run'[j].pc = "write" /\ run'[j].at # run[j].at

LEMMA PartStep ==
    ASSUME FileInv, Next, NEW j \in Jobs, LosesPart(j)
    PROVE  j \in doomed \/ Shared(j)
<1>1. Busy(j) /\ Used(j) /\ run[j] \in Runs /\ run[j].pc = "write"
    BY BusyUsed DEF LosesPart, At, FileInv
<1>2. run \in [Jobs -> Runs \cup {Idle}]
    BY DEF FileInv, PathInv, TypeOK
<1> DEFINE n == run[j].at
(* A job that is busy with a file of this one shares it.                   *)
<1>3. ASSUME NEW k \in Jobs, k # j, Used(k), n \in Names, n \in Mine(k) PROVE Shared(j)
    <2>1. Follows(j, n)
        BY <1>1, <1>3 DEF FileInv, HandlesOwned
    <2>2. n \in Mine(j) \/ Shared(j)
        BY <2>1 DEF Follows, Mine
    <2> QED
        BY <1>1, <1>3, <2>2, Overlap DEF FileInv
<1>4. ASSUME NEW k \in Jobs, ClearTarget(k) PROVE Shared(j)
    <2> DEFINE moving == [run EXCEPT ![k].pc = "move", ![k].at = NoName]
    <2>1. /\ Busy(k) /\ Used(k) /\ run[k] \in Runs /\ path[k] \in Names
          /\ run' = Moved(moving, path[k], NoName)
        BY <1>4, BusyUsed, UsedPaths DEF ClearTarget, Unlink, At, FileInv
    <2>2. [run[k] EXCEPT !.pc = "move", !.at = NoName] \in Runs
        BY <2>1 DEF Runs, Phases
    <2>3. moving \in [Jobs -> Runs \cup {Idle}] /\ moving[k] \in Runs /\ moving[k].pc = "move"
        BY <1>2, <2>1, <2>2 DEF Runs
    <2>4. j # k => moving[j] = run[j]
        BY <1>2
    <2> HIDE DEF moving
    <2>5. k # j
        <3>1. moving[k] # Idle
            BY <2>3 DEF Idle, Runs, Phases
        <3> QED
            BY <2>1, <2>3, <3>1, MovedAt DEF LosesPart
    <2>6. n = path[k]
        BY <1>1, <2>1, <2>3, <2>4, <2>5, MovedAt DEF LosesPart, Busy
    <2> QED
        BY <1>3, <2>1, <2>5, <2>6 DEF Mine
<1>5. ASSUME NEW k \in Jobs, Rename(k) PROVE Shared(j)
    <2> DEFINE done == End(k, "Completed")
               replaced == Moved(done, path[k], NoName)
    <2>1. /\ Busy(k) /\ Used(k) /\ k # j /\ path[k] \in Names /\ Part(path[k]) \in Names
          /\ run' = Moved(replaced, Part(path[k]), path[k])
        BY <1>1, <1>5, BusyUsed, UsedPaths DEF Rename, At, FileInv
    <2>2. done \in [Jobs -> Runs \cup {Idle}] /\ replaced \in [Jobs -> Runs \cup {Idle}]
        BY <2>1, EndRuns, MovedRuns DEF FileInv, Outcomes
    <2>3. done[j] = run[j]
        BY <1>2, <2>1 DEF End
    <2> HIDE DEF done
    <2>4. replaced[j] # Idle /\ (n # path[k] => replaced[j].at = n)
        BY <1>1, <2>2, <2>3, MovedAt DEF Busy
    <2> HIDE DEF replaced
    <2>5. n = path[k] \/ n = Part(path[k])
        BY <2>1, <2>2, <2>4, MovedAt DEF LosesPart
    <2> QED
        BY <1>3, <2>1, <2>5 DEF Mine
<1>6. ASSUME NEW m, Unlink(m, run) PROVE n = m
    BY <1>1, <1>2, <1>6, MovedAt DEF LosesPart, Unlink, Busy
<1>7. ASSUME NEW k \in Jobs, DeleteParts(k) PROVE j \in doomed \/ Shared(j)
    <2>1. k \in doomed /\ Used(k) /\ n = Part(path[k])
        BY <1>6, <1>7 DEF DeleteParts, FileInv, PathInv, OnlyUsed
    <2>2. n \in Names /\ n \in Mine(k)
        BY <2>1, UsedPaths DEF FileInv, Mine
    <2> QED
        BY <1>3, <2>1, <2>2
<1>8. ASSUME NEW m \in Names, PersonDeletes(m) PROVE Shared(j)
    <2>1. n = m /\ disk[m].done
        BY <1>6, <1>8 DEF PersonDeletes
    <2>2. Exists(m) /\ Follows(j, m)
        BY <1>1, <2>1 DEF FileInv, HandlesOwned
    <2>3. m = Part(path[j]) => m \in Mine(j) /\ m # path[j]
        BY <1>1, UsedPaths DEF FileInv, Mine
    <2> QED
        BY <1>1, <2>1, <2>2, <2>3, FinishedOwner DEF Follows
<1>9. ASSUME NEW k \in Jobs, NEW payload \in Payloads, NEW auto \in BOOLEAN,
             queue_payload(k, payload, auto)
      PROVE  FALSE
    BY <1>9 DEF queue_payload, LosesPart
<1>10. ASSUME NEW k \in Jobs, Start(k) \/ Open(k) \/ Stop(k) \/ Fail(k) \/ Report(k)
       PROVE  FALSE
    <2>1. k # j => run'[j] = run[j]
        BY <1>2, <1>10 DEF Start, Open, Stop, Fail, Report, End
    <2>2. ~ Start(j) /\ ~ Open(j)
        BY <1>1 DEF Start, Open, At
    <2>3. ~ Report(j)
        BY <1>2 DEF Report, LosesPart
    <2>4. ASSUME NEW outcome, run' = End(j, outcome) PROVE FALSE
        BY <1>1, <1>2, <2>4 DEF End, LosesPart, Runs
    <2> QED
        BY <1>10, <2>1, <2>2, <2>3, <2>4 DEF LosesPart, Stop, Fail
<1>11. ASSUME NEW k \in Jobs,
              Write(k) \/ Retry(k) \/ Resume(k) \/ Pause(k) \/ Cancel(k) \/ Remove(k)
       PROVE  FALSE
    <2>1. UNCHANGED run \/ (Busy(k) /\ run' = [run EXCEPT ![k].stop = TRUE])
        BY <1>11 DEF Write, Retry, Resume, Pause, Cancel, Remove, Signal
    <2>2. ~ UNCHANGED run
        BY DEF LosesPart
    <2>3. run'[j] = run[j] \/ run'[j] = [run[j] EXCEPT !.stop = TRUE]
        BY <1>2, <2>1, <2>2
    <2> QED
        BY <1>1, <2>3 DEF LosesPart, Runs
<1>12. ASSUME NEW m \in Arrivals, PersonCreates(m) PROVE FALSE
    BY <1>12 DEF PersonCreates, LosesPart
<1>13. CASE Crash
    BY <1>13 DEF Crash, LosesPart
<1> QED
    BY <1>4, <1>5, <1>7, <1>8, <1>9, <1>10, <1>11, <1>12, <1>13 DEF Next

-----------------------------------------------------------------------------

(* A download that completes has its own bytes and no other job's, in      *)
(* whatever order downloads are added, stopped, removed and retried, files *)
(* come and go and the process dies, unless the job shares its file with   *)
(* another one or a person has put one of theirs in its place.             *)
THEOREM CompletedFilesOwn == Spec => []CompletedIsOwn
<1> QED
    BY FileInvInductive, FileInvCompleted, PTL

(* No run, request, cleanup or crash of UDM changes a finished file, other *)
(* than a new run of the download that made it, or of one that shares it,  *)
(* with one exception: finalize removes a person's file that has come to a *)
(* download's final name since that name was chosen.                       *)
THEOREM FinishedFilesKept == Spec => FinishedIsKept
<1> DEFINE Kept == \A n \in Names : disk[n].done /\ disk'[n] # disk[n] => KeptOrOwned(n)
<1>1. FileInv /\ [Next]_vars => [Kept]_vars
    BY FinishedStep
<1>2. FinishedIsKept <=> [][Kept]_vars
    BY DEF FinishedIsKept, KeptOrOwned
<1> QED
    BY <1>1, <1>2, FileInvInductive, PTL DEF Spec

(* A run loses the part it writes only to the late cleanup of its own      *)
(* cancellation, or to a job that shares its file.                         *)
THEOREM PartsKept == Spec => PartIsKept
<1> DEFINE Kept == \A j \in Jobs : LosesPart(j) =>
                      \/ j \in doomed
                      \/ \E k \in Jobs : Share(j, k)
<1>1. FileInv /\ [Next]_vars => [Kept]_vars
    BY PartStep DEF Shared
<1>2. PartIsKept <=> [][Kept]_vars
    BY DEF PartIsKept, LosesPart
<1> QED
    BY <1>1, <1>2, FileInvInductive, PTL DEF Spec
=============================================================================
