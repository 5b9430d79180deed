------------------------------- MODULE UiSync -------------------------------
(***************************************************************************)
(* What the clients of the daemon show against what its database holds.    *)
(*                                                                         *)
(* A task that changes a row releases the lock of the database before it   *)
(* broadcasts the change, so another task may write and broadcast in       *)
(* between. The broadcast channel keeps Capacity messages: a connection    *)
(* that falls behind loses the oldest. A client that (re)connects asks for *)
(* all rows and for the settings; the replies go straight to its socket,   *)
(* past what the channel still holds for it.                               *)
(*                                                                         *)
(* A row is its status. A connection is a UI; the socket is in order and   *)
(* its far end only listens, so a message is applied to the store as it is *)
(* written. Clients may name any job that was ever added, and the engine   *)
(* may report anything about one that was handed to the scheduler.         *)
(***************************************************************************)
EXTENDS Integers, Sequences

CONSTANTS
    Jobs,
    Clients,
    Consumer,       \* the task of consume_events
    Settings,       \* the values of the settings
    Capacity,       \* EVENT_CHANNEL_CAPACITY
    MaxWrites,      \* bound on the changes of rows and settings
    MaxDrops        \* bound on the connections that close

ASSUME JobsAssumption == "settings" \notin Jobs    \* an id is a UUID
ASSUME CapacityAssumption == Capacity \in Nat \ {0}
ASSUME ConsumerAssumption == Consumer \notin Clients
ASSUME SettingsAssumption == Settings # {}
ASSUME BoundsAssumption == MaxWrites \in Nat /\ MaxDrops \in Nat

VARIABLES
    rows,           \* the status of each job in the database, or "none"
    settings,       \* the settings in the database
    used,           \* the jobs that were ever added: ids are not reused
    handed,         \* the jobs this process has handed to the scheduler
    owed,           \* what each task has written and not yet broadcast
    conn,           \* how far each connection is
    queue,          \* what the channel still holds for each connection
    lagged,         \* has the connection lost a message since its snapshot?
    shown,          \* state.jobs of each store
    shownSettings,  \* state.settings of each store
    raced,          \* auxiliary: what two tasks were changing at once last
    writes, drops

store == <<shown, shownSettings>>
link == <<conn, queue, lagged>>
database == <<rows, settings, used>>
vars == <<database, handed, owed, link, store, raced, writes, drops>>

Tasks == Clients \cup {Consumer}
Statuses == {"Queued", "Active", "Paused", "Completed", "Failed", "Cancelled"}

(* Mutant: a status spelt as no other part spells it.                      *)
StatusOfMisspelt ==
    [JOB_STARTED |-> "Active", JOB_PROGRESS |-> "Active", JOB_PAUSED |-> "Paused",
     JOB_CANCELLED |-> "Canceled", JOB_COMPLETED |-> "Completed", JOB_FAILED |-> "Failed"]

(* The messages about a job that change only its status.                   *)
StatusOf ==
    [JOB_STARTED |-> "Active", JOB_PROGRESS |-> "Active", JOB_PAUSED |-> "Paused",
     JOB_CANCELLED |-> "Cancelled", JOB_COMPLETED |-> "Completed", JOB_FAILED |-> "Failed"]

Nothing == [type |-> "none"]
About(type, j) == [type |-> type, about |-> j]
SettingsUpdated(v) == [type |-> "SETTINGS_UPDATED", about |-> "settings", value |-> v]
Messages ==
    [type : DOMAIN StatusOf \cup {"JOB_ADDED", "JOB_REMOVED"}, about : Jobs]
        \cup {SettingsUpdated(v) : v \in Settings}

Init ==
    /\ rows = [j \in Jobs |-> "none"]
    /\ settings \in Settings
    /\ used = {}
    /\ handed = {}
    /\ owed = [t \in Tasks |-> Nothing]
    /\ conn = [c \in Clients |-> "down"]
    /\ queue = [c \in Clients |-> <<>>]
    /\ lagged = [c \in Clients |-> FALSE]
    /\ shown = [c \in Clients |-> [j \in Jobs |-> "none"]]
    /\ shownSettings \in [Clients -> Settings]
    /\ raced = {}
    /\ writes = 0
    /\ drops = 0

-----------------------------------------------------------------------------
(* The tasks of the daemon: a change of the database, then its broadcast.  *)

(* The handler of a connection reads commands once the two requests of     *)
(* onopen are answered; a task finishes one operation before the next.     *)
Ready(t) == owed[t] = Nothing /\ (t \in Clients => conn[t] = "up")

(* The order of two broadcasts may differ from that of the changes if      *)
(* another task still owes its own. A later change alone settles it, but   *)
(* for a row that is gone: only JOB_REMOVED settles that.                  *)
Owe(t, m) ==
    /\ Ready(t)
    /\ writes < MaxWrites
    /\ writes' = writes + 1
    /\ owed' = [owed EXCEPT ![t] = m]
    /\ raced' =
        IF \E u \in Tasks : owed[u] # Nothing /\ owed[u].about = m.about
            THEN raced \cup {m.about}
        ELSE IF m.about \in Jobs /\ rows'[m.about] = "none" /\ m.type # "JOB_REMOVED"
            THEN raced
        ELSE raced \ {m.about}
    /\ UNCHANGED <<handed, link, store, drops>>

(* queue_payload                                                           *)
AddDownload(c, j) ==
    /\ j \notin used
    /\ used' = used \cup {j}
    /\ rows' = [rows EXCEPT ![j] = "Queued"]
    /\ Owe(c, About("JOB_ADDED", j))
    /\ UNCHANGED settings

Retry(c, j) ==
    /\ rows[j] # "none"
    /\ rows' = [rows EXCEPT ![j] = "Queued"]
    /\ Owe(c, About("JOB_ADDED", j))
    /\ UNCHANGED <<settings, used>>

(* remove                                                                  *)
Remove(c, j) ==
    /\ j \in used
    /\ rows' = [rows EXCEPT ![j] = "none"]
    /\ Owe(c, About("JOB_REMOVED", j))
    /\ UNCHANGED <<settings, used>>

(* An UPDATE of a row; the broadcast follows whether or not there is one.  *)
Update(t, j, type) ==
    /\ j \in used
    /\ rows' = [rows EXCEPT ![j] = IF @ = "none" THEN @ ELSE StatusOf[type]]
    /\ Owe(t, About(type, j))
    /\ UNCHANGED <<settings, used>>

(* finish_cancel, called for a job that is not running.                    *)
Cancel(c, j) == Update(c, j, "JOB_CANCELLED")

(* consume_events                                                          *)
ConsumeEvent(j) == j \in handed /\ \E type \in DOMAIN StatusOf : Update(Consumer, j, type)

UpdateSettings(c, v) ==
    /\ settings' = v
    /\ Owe(c, SettingsUpdated(v))
    /\ UNCHANGED <<rows, used>>

(* Mutant: events.subscribe() only once the snapshot was sent.             *)
ListeningLate(c) == conn[c] = "up"

Listening(c) == conn[c] # "down"

(* RESUME queues the row as it is and tells nobody.                        *)
Resume(c, j) ==
    /\ Ready(c)
    /\ rows[j] # "none"
    /\ handed' = handed \cup {j}
    /\ UNCHANGED <<database, owed, link, store, raced, writes, drops>>

(* The ring buffer of the channel overwrites the oldest message.           *)
Newest(q) == IF Len(q) > Capacity THEN Tail(q) ELSE q

(* JOB_ADDED is followed by Enqueue.                                       *)
Broadcast(t) ==
    /\ owed[t] # Nothing
    /\ owed' = [owed EXCEPT ![t] = Nothing]
    /\ queue' = [c \in Clients |->
            IF Listening(c) THEN Newest(Append(queue[c], owed[t])) ELSE queue[c]]
    /\ handed' = IF owed[t].type = "JOB_ADDED" THEN handed \cup {owed[t].about} ELSE handed
    /\ lagged' = [c \in Clients |-> lagged[c] \/ (Listening(c) /\ Len(queue[c]) = Capacity)]
    /\ UNCHANGED <<database, conn, store, raced, writes, drops>>

-----------------------------------------------------------------------------
(* A connection and the store at its other end.                            *)

(* Mutant: patchJob adds the row it does not find.                         *)
PatchedOrAdded(view, j, status) == [view EXCEPT ![j] = status]

(* patchJob and setStatus                                                  *)
Patched(view, j, status) ==
    IF view[j] = "none" THEN view ELSE [view EXCEPT ![j] = status]

(* applyServerMessage                                                      *)
Applied(view, m) ==
    CASE m.type = "JOB_ADDED" -> [view EXCEPT ![m.about] = "Queued"]
      [] m.type = "JOB_REMOVED" -> [view EXCEPT ![m.about] = "none"]
      [] m.type \in DOMAIN StatusOf -> Patched(view, m.about, StatusOf[m.type])
      [] OTHER -> view

(* Mutant: reconnectTimer is not reset, and a lost connection stays lost.  *)
ConnectUntilDrop(c) ==
    /\ conn[c] = "down" /\ drops = 0
    /\ conn' = [conn EXCEPT ![c] = "jobs"]
    /\ UNCHANGED <<database, handed, owed, queue, lagged, store, raced, writes, drops>>

(* connect and onopen; handle_conn subscribes before it reads a request.   *)
Connect(c) ==
    /\ conn[c] = "down"
    /\ conn' = [conn EXCEPT ![c] = "jobs"]
    /\ UNCHANGED <<database, handed, owed, queue, lagged, store, raced, writes, drops>>

(* GET_ALL_JOBS and ALL_JOBS                                               *)
AnswerJobs(c) ==
    /\ conn[c] = "jobs"
    /\ conn' = [conn EXCEPT ![c] = "settings"]
    /\ shown' = [shown EXCEPT ![c] = rows]
    /\ lagged' = [lagged EXCEPT ![c] = FALSE]
    /\ UNCHANGED <<database, handed, owed, queue, shownSettings, raced, writes, drops>>

(* Mutant: the reply to GET_SETTINGS is only asked for before a reconnect. *)
AnswerSettingsOnce(c) ==
    /\ conn[c] = "settings"
    /\ conn' = [conn EXCEPT ![c] = "up"]
    /\ shownSettings' = [shownSettings EXCEPT ![c] = IF drops = 0 THEN settings ELSE @]
    /\ UNCHANGED <<database, handed, owed, queue, lagged, shown, raced, writes, drops>>

(* GET_SETTINGS and SETTINGS_UPDATED                                       *)
AnswerSettings(c) ==
    /\ conn[c] = "settings"
    /\ conn' = [conn EXCEPT ![c] = "up"]
    /\ shownSettings' = [shownSettings EXCEPT ![c] = settings]
    /\ UNCHANGED <<database, handed, owed, queue, lagged, shown, raced, writes, drops>>

(* events.recv() in the select of the connection.                          *)
Forward(c) ==
    /\ conn[c] # "down" /\ owed[c] = Nothing
    /\ queue[c] # <<>>
    /\ LET m == Head(queue[c])
       IN  /\ shown' = [shown EXCEPT ![c] = Applied(@, m)]
           /\ shownSettings' = [shownSettings EXCEPT
                    ![c] = IF m.type = "SETTINGS_UPDATED" THEN m.value ELSE @]
    /\ queue' = [queue EXCEPT ![c] = Tail(@)]
    /\ UNCHANGED <<database, handed, owed, conn, lagged, raced, writes, drops>>

(* The socket closes; the store keeps what it shows.                       *)
Disconnect(c) ==
    /\ conn[c] # "down" /\ owed[c] = Nothing
    /\ drops < MaxDrops
    /\ drops' = drops + 1
    /\ conn' = [conn EXCEPT ![c] = "down"]
    /\ queue' = [queue EXCEPT ![c] = <<>>]
    /\ lagged' = [lagged EXCEPT ![c] = FALSE]
    /\ UNCHANGED <<database, handed, owed, store, raced, writes>>

(* The daemon dies and starts again: what was owed is never broadcast.     *)
Restart ==
    /\ drops < MaxDrops
    /\ drops' = drops + 1
    /\ owed' = [t \in Tasks |-> Nothing]
    /\ conn' = [c \in Clients |-> "down"]
    /\ queue' = [c \in Clients |-> <<>>]
    /\ lagged' = [c \in Clients |-> FALSE]
    /\ raced' = {}
    /\ handed' = {}
    /\ UNCHANGED <<database, store, writes>>

-----------------------------------------------------------------------------
Command(c) ==
    \/ \E j \in Jobs : AddDownload(c, j) \/ Retry(c, j) \/ Remove(c, j)
                     \/ Cancel(c, j) \/ Resume(c, j)
    \/ \E v \in Settings : UpdateSettings(c, v)

LinkStep(c) == Connect(c) \/ AnswerJobs(c) \/ AnswerSettings(c) \/ Forward(c)

Next ==
    \/ \E c \in Clients : Command(c) \/ LinkStep(c) \/ Disconnect(c)
    \/ \E j \in Jobs : ConsumeEvent(j)
    \/ \E t \in Tasks : Broadcast(t)
    \/ Restart

Spec == Init /\ [][Next]_vars

(* Tasks that have work go on, the client reads its socket, and its timer  *)
(* reconnects. Nobody need ask for anything, and nothing need fail.        *)
Fairness ==
    /\ \A t \in Tasks : WF_vars(Broadcast(t))
    /\ \A c \in Clients : WF_vars(LinkStep(c))

FairSpec == Spec /\ Fairness

-----------------------------------------------------------------------------
TypeOK ==
    /\ rows \in [Jobs -> Statuses \cup {"none"}]
    /\ settings \in Settings
    /\ handed \subseteq used /\ used \subseteq Jobs
    /\ owed \in [Tasks -> Messages \cup {Nothing}]
    /\ conn \in [Clients -> {"down", "jobs", "settings", "up"}]
    /\ queue \in [Clients -> Seq(Messages)]
    /\ \A c \in Clients : Len(queue[c]) <= Capacity
    /\ lagged \in [Clients -> BOOLEAN]
    /\ shown \in [Clients -> [Jobs -> Statuses \cup {"none"}]]
    /\ shownSettings \in [Clients -> Settings]
    /\ raced \subseteq Jobs \cup {"settings"}
    /\ writes \in 0..MaxWrites /\ drops \in 0..MaxDrops

(* Nothing is on its way to the client and it has missed nothing.          *)
UpToDate(c) ==
    /\ conn[c] = "up" /\ queue[c] = <<>> /\ ~ lagged[c]
    /\ \A t \in Tasks : owed[t] = Nothing

(* A client that is up to date shows exactly the rows of the database, and *)
(* each with its status, although its snapshot was followed by older       *)
(* messages; but for jobs that two tasks changed at once.                  *)
RowsShown ==
    \A c \in Clients : UpToDate(c) => \A j \in Jobs \ raced : shown[c][j] = rows[j]

(* "Echo the persisted settings to every client so they stay in sync": a   *)
(* client that is up to date shows the settings that were saved, unless    *)
(* two connections saved at once.                                          *)
SettingsShown ==
    \A c \in Clients : UpToDate(c) /\ "settings" \notin raced => shownSettings[c] = settings

(* Through lost connections and restarts every client ends connected, and  *)
(* one that has not lagged ends with the rows of the database.             *)
Converges ==
    \A c \in Clients :
        <>[](conn[c] = "up" /\ (lagged[c] \/ \A j \in Jobs \ raced : shown[c][j] = rows[j]))
=============================================================================
