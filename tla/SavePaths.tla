----------------------------- MODULE SavePaths -----------------------------
(***************************************************************************)
(* Which file each download writes. queue_payload gives a job a path that  *)
(* neither the disk nor a row in flight has; nothing looks at the choice   *)
(* again when a job is retried, resumed, finished or removed.              *)
(*                                                                         *)
(* A name is its folder, the n of "name (n).ext" and how often ".part" was *)
(* appended to it. A file is the jobs whose bytes it holds and whether it  *)
(* is finished; the parts of a download are one part here. A run writes    *)
(* through the handle it opened: it follows the file when another task     *)
(* renames it, and writes to nothing once the file is deleted.             *)
(***************************************************************************)
EXTENDS Naturals, FiniteSets

CONSTANTS
    Jobs,
    Folders,     \* download directory, its category folders, folders a person picks
    Directory,   \* the configured download directory
    Category,    \* the folder of category_for() below it
    Payloads,    \* what clients send
    Person,      \* whoever puts files on the disk that no job wrote
    Arrivals,    \* the names they use
    MaxRequests, \* bound: requests after the ADDs
    MaxCrashes   \* bound: deaths of the process

ASSUME FoldersAssumption == {Directory, Category} \subseteq Folders
(* The folder a person picked, "none", or a relative or escaping path; a   *)
(* name of a known type or not, which may end in ".part".                  *)
ASSUME PayloadsAssumption ==
    Payloads \subseteq [pick : Folders \cup {"none", "unsafe"}, typed : BOOLEAN, part : {0, 1}]
ASSUME PersonAssumption == Person \notin Jobs
ASSUME BoundsAssumption == MaxRequests \in Nat /\ MaxCrashes \in Nat

VARIABLES
    row,         \* the status column of each job
    path,        \* save_path, chosen once
    queued,      \* jobs with a copy on its way to the dispatcher
    run,         \* the run of each job
    cancelling,  \* AppState.cancelling
    doomed,      \* jobs whose parts a task is about to delete, the lock released
    disk,        \* the files
    lapsed,      \* auxiliary: jobs whose row was once not in flight
    late,        \* auxiliary: names where a person put a file that a job already had
    requests, crashes

vars == <<row, path, queued, run, cancelling, doomed, disk, lapsed, late, requests, crashes>>

InFlight == {"Queued", "Active", "Paused"}
Statuses == InFlight \cup {"Completed", "Failed", "Cancelled"}
NoRow == {"unused", "removed"}

Copies == 0 .. Cardinality(Jobs)
Names == [dir : Folders, copy : Copies, part : 0 .. 2]
NoName == [dir |-> Directory, copy |-> 0, part |-> 3]
Copy(n, c) == [n EXCEPT !.copy = c]
Part(n) == [n EXCEPT !.part = @ + 1]

(* Nobody else gives a file a name of UDM's parts.                         *)
ASSUME ArrivalsAssumption == Arrivals \subseteq {n \in Names : n.part = 0}

NoFile == [by |-> {}, done |-> FALSE]
Files == [by : SUBSET (Jobs \cup {Person}), done : BOOLEAN]
Exists(n) == n \in Names /\ disk[n] # NoFile

(* get      awaiting headers       write  in the select loop               *)
(* move     the old target is gone ended  the event is on its way          *)
Idle == [pc |-> "idle"]
Phases == {"get", "write", "move", "ended"}
Outcomes == {"none", "Paused", "Completed", "Failed"}
Runs == {r \in [pc : Phases, stop : BOOLEAN, at : Names \cup {NoName}, end : Outcomes] :
            r.pc = "ended" => r.end # "none"}
Busy(j) == run[j] # Idle

HasRow(j) == row[j] \notin NoRow

Init ==
    /\ row = [j \in Jobs |-> "unused"]
    /\ path = [j \in Jobs |-> NoName]
    /\ queued = {}
    /\ run = [j \in Jobs |-> Idle]
    /\ cancelling = {}
    /\ doomed = {}
    /\ \E old \in SUBSET Arrivals :
           disk = [n \in Names |-> IF n \in old THEN [by |-> {Person}, done |-> TRUE] ELSE NoFile]
    /\ lapsed = {}
    /\ late = {}
    /\ requests = 0
    /\ crashes = 0

(* UPDATE jobs SET status, if the row is there.                            *)
SetStatus(j, s) ==
    /\ row' = IF HasRow(j) THEN [row EXCEPT ![j] = s] ELSE row
    /\ lapsed' = IF HasRow(j) /\ s \notin InFlight THEN lapsed \cup {j} ELSE lapsed

-----------------------------------------------------------------------------
(* Choosing a path.                                                        *)

(* Mutant: whatever path a client sends is taken.                          *)
build_job_trusting(payload, auto_categorize) ==
    [dir |-> IF payload.pick # "none" THEN payload.pick
             ELSE IF auto_categorize /\ payload.typed THEN Category
             ELSE Directory,
     copy |-> 0, part |-> payload.part]

(* A relative or escaping path counts as none.                             *)
build_job(payload, auto_categorize) ==
    [dir |-> IF payload.pick \in Folders THEN payload.pick
             ELSE IF auto_categorize /\ payload.typed THEN Category
             ELSE Directory,
     copy |-> 0, part |-> payload.part]

(* Mutant: a paused download does not keep its name.                       *)
TakenByBusy(n) == Exists(n) \/ \E k \in Jobs : row[k] \in {"Queued", "Active"} /\ path[k] = n

(* Mutant: only rows are looked at.                                        *)
TakenByRow(n) == \E k \in Jobs : row[k] \in InFlight /\ path[k] = n

(* On the disk, or in the row of an unfinished download.                   *)
Taken(n) == Exists(n) \/ \E k \in Jobs : row[k] \in InFlight /\ path[k] = n

(* The c-th copy of n is the first name from n on that is free.            *)
unique_path(n, c) ==
    /\ c >= n.copy /\ ~ Taken(Copy(n, c))
    /\ \A d \in n.copy .. c : d # c => Taken(Copy(n, d))

(* The lock is held from get_all_jobs to insert_job.                       *)
queue_payload(j, payload, auto_categorize) ==
    /\ row[j] = "unused"
    /\ \E c \in Copies :
           /\ unique_path(build_job(payload, auto_categorize), c)
           /\ path' = [path EXCEPT ![j] = Copy(build_job(payload, auto_categorize), c)]
    /\ row' = [row EXCEPT ![j] = "Queued"]
    /\ queued' = queued \cup {j}
    /\ UNCHANGED <<run, cancelling, doomed, disk, lapsed, requests, late, crashes>>

-----------------------------------------------------------------------------
(* Files and handles.                                                      *)

(* Whoever had n open now has m, or nothing.                               *)
Moved(r, n, m) ==
    [k \in Jobs |-> IF r[k] = Idle \/ r[k].at # n THEN r[k] ELSE [r[k] EXCEPT !.at = m]]

Unlink(n, r) == disk' = [disk EXCEPT ![n] = NoFile] /\ run' = Moved(r, n, NoName)

At(j, pc) == Busy(j) /\ run[j].pc = pc

End(j, outcome) == [run EXCEPT ![j] = [@ EXCEPT !.pc = "ended", !.at = NoName, !.end = outcome]]

-----------------------------------------------------------------------------
(* A run.                                                                  *)

Start(j) ==
    /\ j \in queued /\ ~ Busy(j)
    /\ queued' = queued \ {j}
    /\ run' = [run EXCEPT ![j] = [pc |-> "get", stop |-> FALSE, at |-> NoName, end |-> "none"]]
    /\ UNCHANGED <<row, path, cancelling, doomed, disk, lapsed, requests, late, crashes>>

(* Started. A segment that begins creates the part, which empties a file   *)
(* that is there; one that resumes appends to it.                          *)
Open(j) ==
    /\ At(j, "get")
    /\ SetStatus(j, "Active")
    /\ run' = [run EXCEPT ![j].pc = "write", ![j].at = Part(path[j])]
    /\ \E kept \in {{}, disk[Part(path[j])].by} :
           disk' = [disk EXCEPT ![Part(path[j])] = [by |-> kept \cup {j}, done |-> FALSE]]
    /\ UNCHANGED <<path, queued, cancelling, doomed, requests, late, crashes>>

Write(j) ==
    /\ At(j, "write") /\ run[j].at # NoName
    /\ disk' = [disk EXCEPT ![run[j].at].by = @ \cup {j}]
    /\ UNCHANGED <<row, path, queued, run, cancelling, doomed, lapsed, requests, late, crashes>>

Stop(j) ==
    /\ At(j, "write") /\ run[j].stop
    /\ run' = End(j, "Paused")
    /\ UNCHANGED <<row, path, queued, cancelling, doomed, disk, lapsed, requests, late, crashes>>

Fail(j) ==
    /\ Busy(j) /\ run[j].pc # "ended"
    /\ run' = End(j, "Failed")
    /\ UNCHANGED <<row, path, queued, cancelling, doomed, disk, lapsed, requests, late, crashes>>

(* finalize: what has the final name goes, then the part takes it.         *)
ClearTarget(j) ==
    /\ At(j, "write")
    /\ Unlink(path[j], [run EXCEPT ![j].pc = "move", ![j].at = NoName])
    /\ UNCHANGED <<row, path, queued, cancelling, doomed, lapsed, requests, late, crashes>>

Rename(j) ==
    /\ At(j, "move") /\ Exists(Part(path[j]))
    /\ disk' = [disk EXCEPT ![path[j]] = [by |-> disk[Part(path[j])].by, done |-> TRUE],
                            ![Part(path[j])] = NoFile]
    /\ run' = Moved(Moved(End(j, "Completed"), path[j], NoName), Part(path[j]), path[j])
    /\ UNCHANGED <<row, path, queued, cancelling, doomed, lapsed, requests, late, crashes>>

(* The consumer: finish_cancel if the stop was a cancellation.             *)
Report(j) ==
    /\ At(j, "ended")
    /\ run' = [run EXCEPT ![j] = Idle]
    /\ IF run[j].end = "Paused" /\ j \in cancelling
         THEN /\ SetStatus(j, "Cancelled")
              /\ cancelling' = cancelling \ {j}
              /\ doomed' = IF HasRow(j) THEN doomed \cup {j} ELSE doomed
         ELSE SetStatus(j, run[j].end) /\ UNCHANGED <<cancelling, doomed>>
    /\ UNCHANGED <<path, queued, disk, requests, late, crashes>>

-----------------------------------------------------------------------------
(* The requests the UI offers.                                             *)

Asks(j, statuses) ==
    /\ row[j] \in statuses
    /\ requests < MaxRequests
    /\ requests' = requests + 1

Retry(j) ==
    /\ Asks(j, {"Failed", "Cancelled"})
    /\ SetStatus(j, "Queued")
    /\ queued' = queued \cup {j}
    /\ UNCHANGED <<path, run, cancelling, doomed, disk, late, crashes>>

Resume(j) ==
    /\ Asks(j, {"Paused"})
    /\ queued' = queued \cup {j}
    /\ UNCHANGED <<row, path, run, cancelling, doomed, disk, lapsed, late, crashes>>

Pause(j) ==
    /\ Asks(j, {"Queued", "Active"}) /\ Busy(j)
    /\ run' = [run EXCEPT ![j].stop = TRUE]
    /\ UNCHANGED <<row, path, queued, cancelling, doomed, disk, lapsed, late, crashes>>

(* RemovePending is too late for a job the dispatcher has popped.          *)
Withdraw(j) == queued' \in {queued, queued \ {j}}
Signal(j) ==
    /\ run' = [run EXCEPT ![j].stop = TRUE]
    /\ cancelling' = cancelling \cup {j}

(* A run that has ended may still be listed, or not any more.              *)
Cancel(j) ==
    /\ Asks(j, InFlight)
    /\ Withdraw(j)
    /\ \/ Busy(j) /\ Signal(j) /\ UNCHANGED <<row, lapsed, doomed>>
       \/ /\ ~ Busy(j) \/ At(j, "ended")
          /\ SetStatus(j, "Cancelled")
          /\ doomed' = doomed \cup {j}
          /\ UNCHANGED <<run, cancelling>>
    /\ UNCHANGED <<path, disk, late, crashes>>

Remove(j) ==
    /\ Asks(j, Statuses)
    /\ Withdraw(j)
    /\ IF Busy(j) THEN Signal(j) ELSE UNCHANGED <<run, cancelling>>
    /\ SetStatus(j, "removed")
    /\ doomed' = doomed \cup {j}
    /\ UNCHANGED <<path, disk, late, crashes>>

(* The part files of the row that cancel or remove read.                   *)
DeleteParts(j) ==
    /\ j \in doomed
    /\ doomed' = doomed \ {j}
    /\ Unlink(Part(path[j]), run)
    /\ UNCHANGED <<row, path, queued, cancelling, lapsed, requests, late, crashes>>

-----------------------------------------------------------------------------
(* A person deletes, or moves away, a finished file.                       *)
PersonDeletes(n) ==
    /\ disk[n].done
    /\ Unlink(n, run)
    /\ UNCHANGED <<row, path, queued, cancelling, doomed, lapsed, requests, late, crashes>>

(* A person, or another program, puts a file where there is none.          *)
PersonCreates(n) ==
    /\ ~ Exists(n)
    /\ requests < MaxRequests
    /\ requests' = requests + 1
    /\ disk' = [disk EXCEPT ![n] = [by |-> {Person}, done |-> TRUE]]
    /\ late' = IF \E j \in Jobs : row[j] # "unused" /\ path[j] = n THEN late \cup {n} ELSE late
    /\ UNCHANGED <<row, path, queued, run, cancelling, doomed, lapsed, crashes>>

(* Rows and files survive.                                                 *)
Crash ==
    /\ crashes < MaxCrashes
    /\ crashes' = crashes + 1
    /\ run' = [j \in Jobs |-> Idle]
    /\ queued' = {}
    /\ cancelling' = {}
    /\ doomed' = {}
    /\ UNCHANGED <<row, path, disk, lapsed, late, requests>>

Next ==
    \/ \E j \in Jobs :
        \/ \E payload \in Payloads, auto \in BOOLEAN : queue_payload(j, payload, auto)
        \/ Start(j) \/ Open(j) \/ Write(j) \/ Stop(j) \/ Fail(j) \/ ClearTarget(j) \/ Rename(j)
        \/ Report(j)
        \/ Retry(j) \/ Resume(j) \/ Pause(j) \/ Cancel(j) \/ Remove(j) \/ DeleteParts(j)
    \/ \E n \in Names : PersonDeletes(n)
    \/ \E n \in Arrivals : PersonCreates(n)
    \/ Crash

Spec == Init /\ [][Next]_vars

-----------------------------------------------------------------------------
(* Type invariant.                                                         *)
TypeOK ==
    /\ row \in [Jobs -> Statuses \cup NoRow]
    /\ path \in [Jobs -> Names \cup {NoName}]
    /\ queued \in SUBSET Jobs
    /\ run \in [Jobs -> Runs \cup {Idle}]
    /\ cancelling \in SUBSET Jobs
    /\ doomed \in SUBSET Jobs
    /\ disk \in [Names -> Files]
    /\ lapsed \in SUBSET Jobs
    /\ late \in SUBSET Names
    /\ requests \in 0 .. MaxRequests
    /\ crashes \in 0 .. MaxCrashes

(* Two jobs whose rows reserve a name reserve different ones, unless one   *)
(* of them has come back from a status that reserves nothing: RETRY does   *)
(* not look at the name again.                                             *)
ReservedApart ==
    \A j, k \in Jobs :
        j # k /\ row[j] \in InFlight /\ row[k] \in InFlight /\ path[j] = path[k]
            => j \in lapsed \/ k \in lapsed

(* The part file of one is the file of the other: nothing reserves it.     *)
Clash(j, k) == path[j] = Part(path[k]) \/ path[k] = Part(path[j])

(* The ways two jobs come to share a file.                                 *)
Share(j, k) ==
    /\ j # k
    /\ row[j] # "unused" /\ row[k] # "unused"
    /\ \/ path[j] = path[k] /\ (j \in lapsed \/ k \in lapsed)
       \/ Clash(j, k)

(* The file of a person that was not there when its name was given away.   *)
Late(n) == n \in late /\ disk[n].by = {Person}

(* A finished file changes only by the hand of a person, of the job whose  *)
(* bytes it holds and that ran again, or of a job that shares it; and a    *)
(* person's file that came after a job had been given its name, by that    *)
(* job's finalize. A file that is there when a name is chosen is kept.     *)
FinishedIsKept ==
    [][\A n \in Names : disk[n].done /\ disk'[n] # disk[n] =>
            \/ PersonDeletes(n)
            \/ \E j \in Jobs : n = path[j] /\ disk[n].by = {j} /\ At(j, "write")
            \/ \E j \in Jobs : n = path[j] /\ Late(n) /\ (At(j, "write") \/ At(j, "move"))
            \/ \E j, k \in Jobs : Share(j, k) /\ n \in {path[j], Part(path[j])}]_vars

(* The part a run writes is taken from under it only by the delayed clean- *)
(* up of its own cancellation, or by a job that shares it.                 *)
PartIsKept ==
    [][\A j \in Jobs :
        At(j, "write") /\ run'[j] # Idle /\ run'[j].pc = "write" /\ run'[j].at # run[j].at =>
            \/ j \in doomed
            \/ \E k \in Jobs : Share(j, k)]_vars

(* A download that completes has its own bytes and no other job's, unless  *)
(* it shares its file. A person may have put one of theirs in its place.   *)
CompletedIsOwn ==
    \A j \in Jobs : At(j, "ended") /\ run[j].end = "Completed" /\ Exists(path[j]) =>
        disk[path[j]].by = {j} \/ Late(path[j]) \/ \E k \in Jobs : Share(j, k)

(* "Never silently overwrite": a file of a person is removed or replaced   *)
(* by nobody but them. The name is looked at when the job is added only;   *)
(* finalize removes whatever has it by then.                               *)
NeverOverwritten ==
    [][\A n \in Names : Person \in disk[n].by /\ disk'[n] # disk[n] => PersonDeletes(n)]_vars
=============================================================================
