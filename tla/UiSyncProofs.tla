----------------------------- MODULE UiSyncProofs -----------------------------
(***************************************************************************)
(* A client that has missed nothing shows what the database holds, for     *)
(* every number of clients, jobs and settings, and every capacity of the   *)
(* channel.                                                                *)
(***************************************************************************)
EXTENDS UiSync, SequenceTheorems, TLAPS

-----------------------------------------------------------------------------
(* The inductive invariant.                                                *)

Subjects == Jobs \cup {"settings"}
Added(j) == About("JOB_ADDED", j)
Removed(j) == About("JOB_REMOVED", j)

Owes(t, x) == owed[t] # Nothing /\ owed[t].about = x
NoneOwes(x) == \A t \in Tasks : ~ Owes(t, x)
Owed(m) == \E t \in Tasks : owed[t] = m
InQueue(c, m) == \E i \in DOMAIN queue[c] : queue[c][i] = m

(* m says what the database holds. A status finds no row that is gone.     *)
Right(m) ==
    /\ m.type = "SETTINGS_UPDATED" => m.value = settings
    /\ m.type = "JOB_ADDED" => rows[m.about] = "Queued"
    /\ m.type = "JOB_REMOVED" => rows[m.about] = "none"
    /\ m.type \in DOMAIN StatusOf => rows[m.about] \in {"none", StatusOf[m.type]}

(* A removed row never comes back, so its removal is announced of a row    *)
(* that is gone; and nothing is said of a job before it is added.          *)
KnownInv ==
    /\ \A j \in Jobs : rows[j] # "none" => j \in used
    /\ \A m \in Messages : Owed(m) \/ (\E c \in Clients : InQueue(c, m)) =>
           /\ m.about \in Jobs => m.about \in used
           /\ m.type = "JOB_REMOVED" => rows[m.about] = "none"

(* Of what no two tasks changed at once, at most one message is owed, and  *)
(* it is right.                                                            *)
OwedInv ==
    /\ \A t, u \in Tasks, x \in Subjects \ raced : Owes(t, x) /\ Owes(u, x) => t = u
    /\ \A m \in Messages : Owed(m) /\ m.about \notin raced => Right(m)

(* If nothing more is owed, the last message about it in a queue is right. *)
LastRight(c, x) ==
    \A i \in DOMAIN queue[c], m \in Messages :
        /\ queue[c][i] = m /\ m.about = x
        /\ \A k \in DOMAIN queue[c] : k > i => queue[c][k].about # x
        => Right(m)

(* The queue brings back no row that is gone.                              *)
Undone(c, j) ==
    \A i \in DOMAIN queue[c] : queue[c][i] = Added(j) =>
        \E k \in DOMAIN queue[c] : k > i /\ queue[c][k] = Removed(j)

QueueInv(c) ==
    /\ conn[c] = "down" => queue[c] = <<>>
    /\ \A x \in Subjects \ raced : NoneOwes(x) => LastRight(c, x)
    /\ \A j \in Jobs \ raced : rows[j] = "none" => Owed(Removed(j)) \/ Undone(c, j)

(* What a store shows since its snapshot, if no message was lost.          *)
Current(c) == conn[c] \in {"settings", "up"} /\ ~ lagged[c]
Silent(c, x) == NoneOwes(x) /\ \A i \in DOMAIN queue[c] : queue[c][i].about # x

(* A row that exists is shown, or will be before anything else is said of  *)
(* it; one that is gone is not shown, or the client will be told.          *)
ShownInv(c) ==
    /\ \A j \in Jobs : rows[j] # "none" =>
           shown[c][j] # "none" \/ InQueue(c, Added(j)) \/ Owed(Added(j))
    /\ \A j \in Jobs \ raced : rows[j] = "none" =>
           shown[c][j] = "none" \/ InQueue(c, Removed(j)) \/ Owed(Removed(j))
    /\ \A j \in Jobs \ raced : Silent(c, j) /\ rows[j] # "none" => shown[c][j] = rows[j]

SettingsInv(c) ==
    conn[c] = "up" /\ ~ lagged[c] /\ "settings" \notin raced /\ Silent(c, "settings") =>
        shownSettings[c] = settings

ViewInv(c) == (Current(c) => ShownInv(c)) /\ SettingsInv(c)

Inv ==
    /\ TypeOK /\ KnownInv /\ OwedInv
    /\ \A c \in Clients : QueueInv(c) /\ ViewInv(c)
-----------------------------------------------------------------------------
(* The messages.                                                           *)

LEMMA StatusTypes ==
    /\ DOMAIN StatusOf = {"JOB_STARTED", "JOB_PROGRESS", "JOB_PAUSED",
                          "JOB_CANCELLED", "JOB_COMPLETED", "JOB_FAILED"}
    /\ \A type \in DOMAIN StatusOf : StatusOf[type] \in Statuses
  BY DEF StatusOf, Statuses

LEMMA MessageKinds ==
    ASSUME NEW m \in Messages
    PROVE  /\ m # Nothing /\ m.about \in Subjects
           /\ m.about = "settings" =>
                  m.type = "SETTINGS_UPDATED" /\ m.value \in Settings /\ m = SettingsUpdated(m.value)
           /\ m.about \in Jobs =>
                  /\ m.type \in DOMAIN StatusOf \cup {"JOB_ADDED", "JOB_REMOVED"}
                  /\ m = About(m.type, m.about)
<1>1. CASE m \in {SettingsUpdated(v) : v \in Settings}
  BY <1>1, JobsAssumption DEF SettingsUpdated, Nothing, Subjects
<1>2. CASE m \in [type : DOMAIN StatusOf \cup {"JOB_ADDED", "JOB_REMOVED"}, about : Jobs]
  <2>1. /\ m = [type |-> m.type, about |-> m.about] /\ m.about \in Jobs
        /\ m.type \in DOMAIN StatusOf \cup {"JOB_ADDED", "JOB_REMOVED"}
    BY <1>2
  <2>2. m.type # "none"
    BY <2>1, StatusTypes
  <2>3. QED
    BY <2>1, <2>2, JobsAssumption DEF About, Nothing, Subjects
<1>3. QED
  BY <1>1, <1>2 DEF Messages

LEMMA AboutIs ==
    ASSUME NEW j \in Jobs, NEW type \in DOMAIN StatusOf \cup {"JOB_ADDED", "JOB_REMOVED"}
    PROVE  /\ About(type, j) \in Messages
           /\ About(type, j).type = type /\ About(type, j).about = j
  BY DEF About, Messages

LEMMA AddedRemoved ==
    ASSUME NEW j \in Jobs
    PROVE  /\ Added(j) \in Messages /\ Added(j).type = "JOB_ADDED" /\ Added(j).about = j
           /\ Removed(j) \in Messages /\ Removed(j).type = "JOB_REMOVED" /\ Removed(j).about = j
           /\ Added(j) # Removed(j)
           /\ \A m \in Messages : m.about = j /\ m.type = "JOB_ADDED" => m = Added(j)
           /\ \A m \in Messages : m.about = j /\ m.type = "JOB_REMOVED" => m = Removed(j)
<1>1. /\ Added(j) \in Messages /\ Added(j).type = "JOB_ADDED" /\ Added(j).about = j
      /\ Removed(j) \in Messages /\ Removed(j).type = "JOB_REMOVED" /\ Removed(j).about = j
  BY AboutIs DEF Added, Removed
<1>2. QED
  BY <1>1, MessageKinds DEF Added, Removed

LEMMA UpdatedIs ==
    ASSUME NEW v \in Settings
    PROVE  /\ SettingsUpdated(v) \in Messages /\ SettingsUpdated(v).type = "SETTINGS_UPDATED"
           /\ SettingsUpdated(v).about = "settings" /\ SettingsUpdated(v).value = v
  BY DEF SettingsUpdated, Messages

LEMMA OwedIs ==
    ASSUME TypeOK, NEW t \in Tasks, owed[t] # Nothing
    PROVE  owed[t] \in Messages
  BY DEF TypeOK

(* Right(m) is about the subject of m only.                                *)
LEMMA RightSame ==
    ASSUME NEW m \in Messages,
           m.about = "settings" => settings' = settings,
           m.about \in Jobs => rows'[m.about] = rows[m.about]
    PROVE  Right(m)' <=> Right(m)
<1>1. m.about \in Subjects
  BY MessageKinds
<1>2. CASE m.about = "settings"
  <2>1. m.type = "SETTINGS_UPDATED"
    BY <1>2, MessageKinds
  <2>2. QED
    BY <1>2, <2>1, StatusTypes DEF Right
<1>3. CASE m.about \in Jobs
  <2>1. m.type # "SETTINGS_UPDATED"
    BY <1>3, MessageKinds, StatusTypes
  <2>2. QED
    BY <1>3, <2>1 DEF Right
<1>4. QED
  BY <1>1, <1>2, <1>3 DEF Subjects

-----------------------------------------------------------------------------
(* The initial states.                                                     *)

LEMMA InitInv == Init => Inv
<1> SUFFICES ASSUME Init PROVE Inv
  OBVIOUS
<1>1. TypeOK
  <2>1. 0 \in 0 .. MaxWrites /\ 0 \in 0 .. MaxDrops /\ Capacity \in Nat
    BY BoundsAssumption, CapacityAssumption
  <2>2. <<>> \in Seq(Messages) /\ Len(<<>>) = 0
    OBVIOUS
  <2>3. QED
    BY <2>1, <2>2 DEF Init, TypeOK
<1>2. \A m \in Messages : ~ Owed(m) /\ \A c \in Clients : ~ InQueue(c, m)
  <2>1. \A c \in Clients : DOMAIN queue[c] = {}
    BY DEF Init
  <2>2. QED
    BY <2>1, MessageKinds DEF Init, Owed, InQueue
<1>3. KnownInv
  BY <1>2 DEF Init, KnownInv
<1>4. OwedInv
  BY <1>2 DEF Init, OwedInv, Owes
<1>5. ASSUME NEW c \in Clients PROVE QueueInv(c) /\ ViewInv(c)
  <2>1. DOMAIN queue[c] = {} /\ queue[c] = <<>> /\ conn[c] = "down"
    BY DEF Init
  <2>2. QED
    BY <2>1 DEF QueueInv, LastRight, Undone, ViewInv, Current, SettingsInv
<1>6. QED
  BY <1>1, <1>3, <1>4, <1>5 DEF Inv
-----------------------------------------------------------------------------
(* A task changes the database and owes the message that says so.          *)

(* What every change keeps to, whatever it is about.                       *)
Change(t, m) ==
    /\ Owe(t, m)
    /\ Right(m)'
    /\ rows' \in [Jobs -> Statuses \cup {"none"}] /\ settings' \in Settings
    /\ used \subseteq used' /\ used' \subseteq Jobs
    /\ \A j \in Jobs : j # m.about => rows'[j] = rows[j]
    /\ m.about # "settings" => settings' = settings
    /\ m.about \in Jobs => m.about \in used'
    /\ \A j \in Jobs : rows'[j] # "none" /\ rows[j] = "none" => j \notin used /\ m = Added(j)
    /\ \A j \in Jobs : rows'[j] = "none" =>
           \/ m = Removed(j)
           \/ rows[j] = "none" /\ (j \notin raced' => j \notin raced)

LEMMA OweFacts ==
    ASSUME TypeOK, NEW t \in Tasks, NEW m \in Messages, Owe(t, m)
    PROVE  /\ owed[t] = Nothing /\ owed' = [owed EXCEPT ![t] = m]
           /\ \A u \in Tasks : owed'[u] = IF u = t THEN m ELSE owed[u]
           /\ UNCHANGED <<conn, queue, lagged, shown, shownSettings, handed, drops>>
           /\ raced' \subseteq raced \cup {m.about}
           /\ \A x : x \notin raced' /\ x # m.about => x \notin raced
           /\ raced' \subseteq Subjects
           /\ \A u \in Tasks : m.about \notin raced' => ~ Owes(u, m.about)
           /\ (m.about \in Jobs /\ rows'[m.about] = "none" /\ m.type # "JOB_REMOVED") =>
                  (m.about \notin raced' => m.about \notin raced)
           /\ writes < MaxWrites /\ writes' = writes + 1
<1>1. m.about \in Subjects
  BY MessageKinds
<1>2. /\ owed[t] = Nothing /\ owed' = [owed EXCEPT ![t] = m]
      /\ UNCHANGED <<conn, queue, lagged, shown, shownSettings, handed, drops>>
      /\ writes < MaxWrites /\ writes' = writes + 1
  BY DEF Owe, Ready, link, store
<1>3. \A u \in Tasks : owed'[u] = IF u = t THEN m ELSE owed[u]
  BY <1>2 DEF TypeOK
<1> DEFINE Others == \E u \in Tasks : owed[u] # Nothing /\ owed[u].about = m.about
           Stays == m.about \in Jobs /\ rows'[m.about] = "none" /\ m.type # "JOB_REMOVED"
<1>4. raced' = IF Others THEN raced \cup {m.about} ELSE IF Stays THEN raced ELSE raced \ {m.about}
  BY DEF Owe
<1>5. Others <=> \E u \in Tasks : Owes(u, m.about)
  BY DEF Owes
<1> HIDE DEF Others
<1>6. raced \subseteq Subjects
  BY DEF TypeOK, Subjects
<1>7. /\ raced' \subseteq raced \cup {m.about} /\ raced' \subseteq Subjects
      /\ \A x : x \notin raced' /\ x # m.about => x \notin raced
      /\ Stays => (m.about \notin raced' => m.about \notin raced)
      /\ m.about \notin raced' => ~ Others
  BY <1>1, <1>4, <1>6
<1>8. QED
  BY <1>2, <1>3, <1>5, <1>7

LEMMA ChangeInv ==
    ASSUME Inv, NEW t \in Tasks, NEW m \in Messages, Change(t, m)
    PROVE  Inv'
<1>0. TypeOK /\ KnownInv /\ OwedInv /\ Owe(t, m)
  BY DEF Inv, Change
<1>1. /\ owed[t] = Nothing
      /\ \A u \in Tasks : owed'[u] = IF u = t THEN m ELSE owed[u]
      /\ UNCHANGED <<conn, queue, lagged, shown, shownSettings, handed, drops>>
      /\ \A x : x \notin raced' /\ x # m.about => x \notin raced
      /\ raced' \subseteq Subjects
      /\ \A u \in Tasks : m.about \notin raced' => ~ Owes(u, m.about)
  BY <1>0, OweFacts
<1>2. TypeOK'
  <2>1. owed' \in [Tasks -> Messages \cup {Nothing}] /\ writes' \in 0 .. MaxWrites
    BY <1>0, OweFacts, BoundsAssumption DEF TypeOK
  <2>2. /\ rows' \in [Jobs -> Statuses \cup {"none"}] /\ settings' \in Settings
        /\ used \subseteq used' /\ used' \subseteq Jobs
    BY DEF Change
  <2>3. QED
    BY <1>0, <1>1, <2>1, <2>2 DEF TypeOK, Subjects
<1>3. m # Nothing /\ m.about \in Subjects
  BY MessageKinds
<1>4. \A u \in Tasks : \A x : Owes(u, x)' <=> Owes(u, x) \/ (u = t /\ x = m.about)
  BY <1>1, <1>3 DEF Owes
<1>5. Owes(t, m.about)'
  BY <1>4
<1>6. \A n \in Messages : Owed(n)' <=> Owed(n) \/ n = m
  BY <1>1, MessageKinds DEF Owed
<1>7. \A c \in Clients : \A n : InQueue(c, n)' <=> InQueue(c, n)
  BY <1>1 DEF InQueue
<1>8. \A n \in Messages : n.about # m.about => (Right(n)' <=> Right(n))
  <2> TAKE n \in Messages
  <2> HAVE n.about # m.about
  <2>1. n.about = "settings" => settings' = settings
    BY DEF Change
  <2>2. n.about \in Jobs => rows'[n.about] = rows[n.about]
    BY DEF Change
  <2>3. QED
    BY <2>1, <2>2, RightSame
<1>9. /\ \A j \in Jobs : rows'[j] # "none" /\ rows[j] = "none" => j \notin used /\ m = Added(j)
      /\ \A j \in Jobs : rows'[j] = "none" =>
             m = Removed(j) \/ (rows[j] = "none" /\ (j \notin raced' => j \notin raced))
      /\ \A j \in Jobs : j # m.about => rows'[j] = rows[j]
      /\ m.about # "settings" => settings' = settings
      /\ used \subseteq used' /\ (m.about \in Jobs => m.about \in used')
      /\ Right(m)'
  BY DEF Change
<1>10. KnownInv'
  <2>1. \A j \in Jobs : rows'[j] # "none" => j \in used'
    <3>1. \A j \in Jobs : rows[j] # "none" => j \in used
      BY <1>0 DEF KnownInv
    <3>2. \A j \in Jobs : m = Added(j) => m.about = j
      BY AddedRemoved
    <3>3. QED
      BY <1>9, <3>1, <3>2
  <2>2. ASSUME NEW n \in Messages, Owed(n)' \/ \E c \in Clients : InQueue(c, n)'
        PROVE  /\ n.about \in Jobs => n.about \in used'
               /\ n.type = "JOB_REMOVED" => rows'[n.about] = "none"
    <3>1. CASE n = m
      BY <3>1, <1>9 DEF Right
    <3>2. CASE n # m
      <4>1. Owed(n) \/ \E c \in Clients : InQueue(c, n)
        BY <2>2, <3>2, <1>6, <1>7
      <4>2. /\ n.about \in Jobs => n.about \in used
            /\ n.type = "JOB_REMOVED" => rows[n.about] = "none"
        BY <4>1, <1>0 DEF KnownInv
      <4>3. n.type = "JOB_REMOVED" => n.about \in Jobs
        BY MessageKinds DEF Subjects
      <4>4. QED
        BY <4>2, <4>3, <1>9
    <3>3. QED
      BY <3>1, <3>2
  <2>3. QED
    BY <2>1, <2>2 DEF KnownInv
<1>11. OwedInv'
  <2>1. ASSUME NEW u \in Tasks, NEW v \in Tasks, NEW x \in Subjects, x \notin raced',
               Owes(u, x)', Owes(v, x)'
        PROVE  u = v
    BY <1>0, <1>1, <1>4, <2>1 DEF OwedInv
  <2>2. ASSUME NEW n \in Messages, Owed(n)', n.about \notin raced'
        PROVE  Right(n)'
    <3>1. CASE n = m
      BY <3>1, <1>9
    <3>2. CASE n # m
      <4>1. Owed(n)
        BY <2>2, <3>2, <1>6
      <4>2. PICK u \in Tasks : owed[u] = n
        BY <4>1 DEF Owed
      <4>3. Owes(u, n.about)
        BY <4>2, MessageKinds DEF Owes
      <4>4. n.about # m.about
        BY <4>3, <1>1, <2>2
      <4>5. Right(n)
        BY <1>0, <1>1, <2>2, <4>1, <4>4 DEF OwedInv
      <4>6. QED
        BY <4>4, <4>5, <1>8
    <3>3. QED
      BY <3>1, <3>2
  <2>3. QED
    BY <2>1, <2>2 DEF OwedInv
<1>12. \A x \in Subjects : NoneOwes(x)' => NoneOwes(x) /\ x # m.about
  BY <1>4 DEF NoneOwes
<1>13. ASSUME NEW c \in Clients PROVE QueueInv(c)'
  <2>0. QueueInv(c)
    BY DEF Inv
  <2>1. conn'[c] = "down" => queue'[c] = <<>>
    BY <1>1, <2>0 DEF QueueInv
  <2>2. ASSUME NEW x \in Subjects, x \notin raced', NoneOwes(x)' PROVE LastRight(c, x)'
    <3>1. x # m.about /\ LastRight(c, x)
      BY <1>1, <1>12, <2>0, <2>2 DEF QueueInv
    <3>2. \A n \in Messages : n.about = x => (Right(n)' <=> Right(n))
      BY <3>1, <1>8
    <3>3. queue' = queue
      BY <1>1
    <3>4. QED
      BY <3>1, <3>2, <3>3 DEF LastRight
  <2>3. ASSUME NEW j \in Jobs, j \notin raced', rows'[j] = "none"
        PROVE  Owed(Removed(j))' \/ Undone(c, j)'
    <3>1. CASE m = Removed(j)
      BY <3>1, <1>6, AddedRemoved
    <3>2. CASE m # Removed(j)
      <4>1. Owed(Removed(j)) \/ Undone(c, j)
        BY <3>2, <2>3, <1>9, <2>0 DEF QueueInv
      <4>2. Undone(c, j)' <=> Undone(c, j)
        BY <1>1 DEF Undone
      <4>3. QED
        BY <4>1, <4>2, <1>6, AddedRemoved
    <3>3. QED
      BY <3>1, <3>2
  <2>4. QED
    BY <2>1, <2>2, <2>3 DEF QueueInv
<1>14. ASSUME NEW c \in Clients PROVE ViewInv(c)'
  <2>0. ViewInv(c)
    BY DEF Inv
  <2>1. \A x \in Subjects : Silent(c, x)' => Silent(c, x) /\ x # m.about
    BY <1>1, <1>12 DEF Silent
  <2>2. SettingsInv(c)'
    <3>1. SUFFICES ASSUME conn'[c] = "up", ~ lagged'[c], "settings" \notin raced',
                          Silent(c, "settings")'
                   PROVE  shownSettings'[c] = settings'
      BY DEF SettingsInv
    <3>2. Silent(c, "settings") /\ "settings" # m.about
      BY <3>1, <2>1 DEF Subjects
    <3>3. QED
      BY <1>1, <1>9, <2>0, <3>1, <3>2 DEF ViewInv, SettingsInv
  <2>3. Current(c)' => ShownInv(c)'
    <3>0. SUFFICES ASSUME Current(c)' PROVE ShownInv(c)'
      OBVIOUS
    <3>1. ShownInv(c)
      BY <1>1, <2>0, <3>0 DEF Current, ViewInv
    <3>2. ASSUME NEW j \in Jobs, rows'[j] # "none"
          PROVE  shown'[c][j] # "none" \/ InQueue(c, Added(j))' \/ Owed(Added(j))'
      <4>1. CASE rows[j] = "none"
        BY <4>1, <3>2, <1>6, <1>9, AddedRemoved
      <4>2. CASE rows[j] # "none"
        BY <4>2, <3>1, <1>1, <1>6, <1>7, AddedRemoved DEF ShownInv
      <4>3. QED
        BY <4>1, <4>2
    <3>3. ASSUME NEW j \in Jobs, j \notin raced', rows'[j] = "none"
          PROVE  shown'[c][j] = "none" \/ InQueue(c, Removed(j))' \/ Owed(Removed(j))'
      <4>1. CASE m = Removed(j)
        BY <4>1, <1>6, AddedRemoved
      <4>2. CASE m # Removed(j)
        BY <4>2, <3>1, <3>3, <1>1, <1>6, <1>7, <1>9, AddedRemoved DEF ShownInv
      <4>3. QED
        BY <4>1, <4>2
    <3>4. ASSUME NEW j \in Jobs, j \notin raced', Silent(c, j)', rows'[j] # "none"
          PROVE  shown'[c][j] = rows'[j]
      <4>1. Silent(c, j) /\ j # m.about
        BY <3>4, <2>1 DEF Subjects
      <4>2. QED
        BY <4>1, <3>4, <1>1, <1>9, <3>1 DEF ShownInv
    <3>5. QED
      BY <3>2, <3>3, <3>4 DEF ShownInv
  <2>4. QED
    BY <2>2, <2>3 DEF ViewInv
<1>15. QED
  BY <1>2, <1>10, <1>11, <1>13, <1>14 DEF Inv
-----------------------------------------------------------------------------
(* Each change is one: what it owes is what it wrote.                      *)

LEMMA KnownRows ==
    ASSUME Inv
    PROVE  /\ rows \in [Jobs -> Statuses \cup {"none"}] /\ settings \in Settings
           /\ used \subseteq Jobs /\ \A j \in Jobs : rows[j] # "none" => j \in used
           /\ "none" \notin Statuses /\ "Queued" \in Statuses
  BY DEF Inv, TypeOK, KnownInv, Statuses

(* A row set to a status, or inserted with it, and the message that        *)
(* says so.                                                                *)
LEMMA RowChange ==
    ASSUME Inv, NEW t \in Tasks, NEW j \in Jobs, NEW s \in Statuses,
           NEW type \in DOMAIN StatusOf \cup {"JOB_ADDED"},
           type = "JOB_ADDED" => s = "Queued",
           type \in DOMAIN StatusOf => s = StatusOf[type] /\ rows[j] # "none",
           rows[j] # "none" \/ j \notin used,
           rows' = [rows EXCEPT ![j] = s],
           settings' = settings, used' = used \cup {j},
           Owe(t, About(type, j))
    PROVE  Change(t, About(type, j))
<1> DEFINE m == About(type, j)
<1>1. m \in Messages /\ m.type = type /\ m.about = j
  BY AboutIs
<1>2. /\ rows' \in [Jobs -> Statuses \cup {"none"}] /\ rows'[j] = s /\ s # "none"
      /\ \A k \in Jobs : k # j => rows'[k] = rows[k]
      /\ settings' \in Settings /\ used' \subseteq Jobs
  BY KnownRows
<1>3. j # "settings" /\ "JOB_ADDED" \notin DOMAIN StatusOf
  BY JobsAssumption, StatusTypes
<1>4. type # "SETTINGS_UPDATED" /\ type # "JOB_REMOVED"
  BY StatusTypes
<1>5. type = "JOB_ADDED" => m = Added(j)
  BY DEF Added
<1> HIDE DEF m
<1>6. Right(m)'
  BY <1>1, <1>2, <1>4 DEF Right
<1>7. \A k \in Jobs : rows'[k] # "none" /\ rows[k] = "none" => k \notin used /\ m = Added(k)
  BY <1>1, <1>2, <1>3, <1>5
<1>8. \A k \in Jobs : rows'[k] = "none" => rows[k] = "none" /\ (k \notin raced' => k \notin raced)
  <2>1. \A k \in Jobs : k # j => (k \notin raced' => k \notin raced)
    BY <1>1, OweFacts DEF Inv, m
  <2>2. QED
    BY <1>2, <2>1
<1>9. QED
  BY <1>1, <1>2, <1>3, <1>6, <1>7, <1>8 DEF Change, m

LEMMA RemoveChange ==
    ASSUME Inv, NEW t \in Clients, NEW j \in Jobs, Remove(t, j)
    PROVE  Change(t, Removed(j))
<1> DEFINE m == Removed(j)
<1>1. m \in Messages /\ m.type = "JOB_REMOVED" /\ m.about = j /\ t \in Tasks
  BY AddedRemoved DEF Tasks
<1>2. /\ Owe(t, m) /\ j \in used /\ settings' = settings /\ used' = used
      /\ rows' = [rows EXCEPT ![j] = "none"]
  BY DEF Remove, Removed
<1> HIDE DEF m
<1>3. /\ rows' \in [Jobs -> Statuses \cup {"none"}] /\ rows'[j] = "none"
      /\ \A k \in Jobs : k # j => rows'[k] = rows[k]
      /\ settings' \in Settings /\ used' \subseteq Jobs
  BY <1>2, KnownRows
<1>4. Right(m)'
  BY <1>1, <1>3, StatusTypes DEF Right
<1>5. \A k \in Jobs : rows'[k] = "none" =>
        k = j \/ (rows[k] = "none" /\ (k \notin raced' => k \notin raced))
  <2>1. \A k \in Jobs : k # j => (k \notin raced' => k \notin raced)
    BY <1>1, <1>2, OweFacts DEF Inv
  <2>2. QED
    BY <1>3, <2>1
<1>6. QED
  BY <1>1, <1>2, <1>3, <1>4, <1>5 DEF Change, m

(* An UPDATE of a row that is gone changes nothing; the client is told of  *)
(* a job that it does not show.                                            *)
LEMMA LateUpdate ==
    ASSUME Inv, NEW t \in Tasks, NEW j \in Jobs, NEW type \in DOMAIN StatusOf,
           Update(t, j, type), rows[j] = "none"
    PROVE  Change(t, About(type, j))
<1> DEFINE m == About(type, j)
<1>1. m \in Messages /\ m.type = type /\ m.about = j
  BY AboutIs
<1>2. /\ Owe(t, m) /\ j \in used /\ settings' = settings /\ used' = used
      /\ rows' = [rows EXCEPT ![j] = IF @ = "none" THEN @ ELSE StatusOf[type]]
  BY DEF Update
<1> HIDE DEF m
<1>3. rows' = rows
  BY <1>2, KnownRows
<1>4. type # "JOB_REMOVED" /\ type # "JOB_ADDED" /\ type # "SETTINGS_UPDATED"
  BY StatusTypes
<1>5. Right(m)'
  BY <1>1, <1>3, <1>4 DEF Right
<1>6. \A k \in Jobs : rows'[k] = "none" => rows[k] = "none" /\ (k \notin raced' => k \notin raced)
  <2>1. \A k \in Jobs : k # j => (k \notin raced' => k \notin raced)
    BY <1>1, <1>2, OweFacts DEF Inv
  <2>2. j \notin raced' => j \notin raced
    BY <1>1, <1>2, <1>3, <1>4, OweFacts DEF Inv
  <2>3. QED
    BY <1>3, <2>1, <2>2
<1>7. QED
  BY <1>1, <1>2, <1>3, <1>5, <1>6, KnownRows DEF Change, m

LEMMA UpdateChange ==
    ASSUME Inv, NEW t \in Tasks, NEW j \in Jobs, NEW type \in DOMAIN StatusOf, Update(t, j, type)
    PROVE  Change(t, About(type, j))
<1>1. CASE rows[j] = "none"
  BY <1>1, LateUpdate
<1>2. CASE rows[j] # "none"
  <2>1. /\ Owe(t, About(type, j)) /\ j \in used /\ settings' = settings /\ used' = used
        /\ rows' = [rows EXCEPT ![j] = IF @ = "none" THEN @ ELSE StatusOf[type]]
    BY DEF Update
  <2>2. rows' = [rows EXCEPT ![j] = StatusOf[type]]
    BY <1>2, <2>1, KnownRows
  <2>3. used' = used \cup {j} /\ StatusOf[type] \in Statuses /\ type # "JOB_ADDED"
    BY <2>1, StatusTypes
  <2>4. QED
    BY <1>2, <2>1, <2>2, <2>3, RowChange
<1>3. QED
  BY <1>1, <1>2

LEMMA SettingsChange ==
    ASSUME Inv, NEW t \in Clients, NEW v \in Settings, UpdateSettings(t, v)
    PROVE  Change(t, SettingsUpdated(v))
<1> DEFINE m == SettingsUpdated(v)
<1>1. /\ m \in Messages /\ m.type = "SETTINGS_UPDATED" /\ m.about = "settings" /\ m.value = v
      /\ t \in Tasks
  BY UpdatedIs DEF Tasks
<1>2. Owe(t, m) /\ settings' = v /\ rows' = rows /\ used' = used
  BY DEF UpdateSettings
<1> HIDE DEF m
<1>3. Right(m)'
  BY <1>1, <1>2, StatusTypes DEF Right
<1>4. \A k \in Jobs : k # "settings" /\ (k \notin raced' => k \notin raced)
  BY <1>1, <1>2, OweFacts, JobsAssumption DEF Inv
<1>5. QED
  BY <1>1, <1>2, <1>3, <1>4, KnownRows, JobsAssumption DEF Change, m

(* Every command and every event that changes the database.                *)
LEMMA AddDownloadInv == Inv /\ (\E c \in Clients, j \in Jobs : AddDownload(c, j)) => Inv'
<1> SUFFICES ASSUME Inv, NEW c \in Clients, NEW j \in Jobs, AddDownload(c, j) PROVE Inv'
  OBVIOUS
<1>1. c \in Tasks /\ "JOB_ADDED" \notin DOMAIN StatusOf /\ "Queued" \in Statuses
  BY StatusTypes DEF Tasks, Statuses
<1>2. Change(c, About("JOB_ADDED", j))
  BY <1>1, RowChange DEF AddDownload
<1>3. QED
  BY <1>1, <1>2, ChangeInv, AboutIs

LEMMA RetryInv == Inv /\ (\E c \in Clients, j \in Jobs : Retry(c, j)) => Inv'
<1> SUFFICES ASSUME Inv, NEW c \in Clients, NEW j \in Jobs, Retry(c, j) PROVE Inv'
  OBVIOUS
<1>1. c \in Tasks /\ "JOB_ADDED" \notin DOMAIN StatusOf /\ "Queued" \in Statuses
  BY StatusTypes DEF Tasks, Statuses
<1>2. used' = used \cup {j}
  BY KnownRows DEF Retry
<1>3. Change(c, About("JOB_ADDED", j))
  BY <1>1, <1>2, RowChange DEF Retry
<1>4. QED
  BY <1>1, <1>3, ChangeInv, AboutIs

LEMMA RemoveInv == Inv /\ (\E c \in Clients, j \in Jobs : Remove(c, j)) => Inv'
  BY RemoveChange, ChangeInv, AddedRemoved DEF Tasks

LEMMA CancelInv == Inv /\ (\E c \in Clients, j \in Jobs : Cancel(c, j)) => Inv'
<1> SUFFICES ASSUME Inv, NEW c \in Clients, NEW j \in Jobs, Cancel(c, j) PROVE Inv'
  OBVIOUS
<1>1. c \in Tasks /\ "JOB_CANCELLED" \in DOMAIN StatusOf
  BY StatusTypes DEF Tasks
<1>2. Change(c, About("JOB_CANCELLED", j))
  BY <1>1, UpdateChange DEF Cancel
<1>3. QED
  BY <1>1, <1>2, ChangeInv, AboutIs

LEMMA ConsumeEventInv == Inv /\ (\E j \in Jobs : ConsumeEvent(j)) => Inv'
<1> SUFFICES ASSUME Inv, NEW j \in Jobs, NEW type \in DOMAIN StatusOf, Update(Consumer, j, type)
             PROVE  Inv'
  BY DEF ConsumeEvent
<1>1. Change(Consumer, About(type, j))
  BY UpdateChange DEF Tasks
<1>2. QED
  BY <1>1, ChangeInv, AboutIs DEF Tasks

LEMMA UpdateSettingsInv == Inv /\ (\E c \in Clients, v \in Settings : UpdateSettings(c, v)) => Inv'
  BY SettingsChange, ChangeInv, UpdatedIs DEF Tasks
-----------------------------------------------------------------------------
(* A broadcast.                                                            *)

(* What a queue holds after it: the same without its oldest d messages,    *)
(* and m.                                                                  *)
Pushed(c, m, d) ==
    /\ Len(queue'[c]) = Len(queue[c]) + 1 - d
    /\ queue'[c][Len(queue'[c])] = m
    /\ \A i \in 1 .. Len(queue'[c]) - 1 : i + d \in 1 .. Len(queue[c]) /\ queue'[c][i] = queue[c][i + d]
    /\ \A i \in 1 .. Len(queue[c]) : i > d => i - d \in 1 .. Len(queue'[c]) - 1 /\ queue'[c][i - d] = queue[c][i]

LEMMA PushedIs ==
    ASSUME TypeOK, NEW t \in Tasks, NEW c \in Clients, Broadcast(t), Listening(c)
    PROVE  /\ queue'[c] \in Seq(Messages) /\ Len(queue'[c]) \in 1 .. Capacity
           /\ \/ Pushed(c, owed[t], 0) /\ lagged'[c] = lagged[c]
              \/ Pushed(c, owed[t], 1) /\ lagged'[c]
<1> DEFINE q == queue[c]
           m == owed[t]
           p == Append(q, m)
<1>1. q \in Seq(Messages) /\ Len(q) \in Nat /\ Len(q) <= Capacity /\ Capacity \in Nat \ {0}
  BY CapacityAssumption DEF TypeOK
<1>2. m \in Messages
  BY OwedIs DEF Broadcast
<1>3. /\ queue'[c] = IF Len(p) > Capacity THEN Tail(p) ELSE p
      /\ lagged'[c] = (lagged[c] \/ Len(q) = Capacity)
      /\ lagged[c] \in BOOLEAN
  BY DEF Broadcast, Newest, TypeOK
<1> HIDE DEF m, q
<1>4. /\ p \in Seq(Messages) /\ Len(p) = Len(q) + 1 /\ p[Len(q) + 1] = m
      /\ \A i \in 1 .. Len(q) : p[i] = q[i]
  BY <1>1, <1>2
<1>5. /\ Tail(p) \in Seq(Messages) /\ Len(Tail(p)) = Len(q)
      /\ \A i \in 1 .. Len(q) : Tail(p)[i] = p[i + 1]
  BY <1>1, <1>4
<1> HIDE DEF p
<1>6. CASE Len(q) = Capacity
  <2>0. lagged'[c] = TRUE
    BY <1>3, <1>6
  <2>1. queue'[c] = Tail(p) /\ lagged'[c]
    <3>1. Len(p) > Capacity
      BY <1>1, <1>4, <1>6
    <3>2. QED
      BY <1>3, <2>0, <3>1
  <2>2. Len(queue'[c]) = Len(q) /\ Len(q) >= 1
    BY <1>1, <1>5, <1>6, <2>1
  <2>3. queue'[c][Len(queue'[c])] = m
    BY <1>1, <1>4, <1>5, <2>1, <2>2
  <2>4. \A i \in 1 .. Len(q) - 1 : i + 1 \in 1 .. Len(q) /\ queue'[c][i] = q[i + 1]
    BY <1>1, <1>4, <1>5, <2>1
  <2>5. \A i \in 1 .. Len(q) : i > 1 => i - 1 \in 1 .. Len(q) - 1 /\ queue'[c][i - 1] = q[i]
    <3> SUFFICES ASSUME NEW i \in 1 .. Len(q), i > 1
                 PROVE  i - 1 \in 1 .. Len(q) - 1 /\ queue'[c][i - 1] = q[i]
      OBVIOUS
    <3>1. i - 1 \in 1 .. Len(q) - 1 /\ (i - 1) + 1 = i
      BY <1>1
    <3>2. QED
      BY <2>4, <3>1
  <2>6. Pushed(c, m, 1)
    BY <1>1, <2>2, <2>3, <2>4, <2>5 DEF Pushed, q
  <2>7. queue'[c] \in Seq(Messages) /\ Len(queue'[c]) \in 1 .. Capacity
    BY <1>1, <1>5, <1>6, <2>1, <2>2
  <2>8. QED
    BY <2>1, <2>6, <2>7 DEF m
<1>7. CASE Len(q) # Capacity
  <2>1. queue'[c] = p /\ lagged'[c] = lagged[c]
    BY <1>1, <1>3, <1>4, <1>7
  <2>2. Pushed(c, m, 0)
    BY <1>1, <1>4, <2>1 DEF Pushed, q
  <2>3. Len(queue'[c]) \in 1 .. Capacity
    BY <1>1, <1>4, <1>7, <2>1
  <2>4. QED
    BY <1>4, <2>1, <2>2, <2>3 DEF m
<1>8. QED
  BY <1>6, <1>7

LEMMA BroadcastFacts ==
    ASSUME TypeOK, NEW t \in Tasks, Broadcast(t)
    PROVE  /\ owed[t] \in Messages
           /\ owed' = [owed EXCEPT ![t] = Nothing]
           /\ \A u \in Tasks : owed'[u] = IF u = t THEN Nothing ELSE owed[u]
           /\ queue' \in [Clients -> Seq(Messages)] /\ lagged' \in [Clients -> BOOLEAN]
           /\ \A c \in Clients : Len(queue'[c]) <= Capacity
           /\ \A c \in Clients : ~ Listening(c) => queue'[c] = queue[c]
           /\ UNCHANGED <<database, conn, store, raced, writes, drops>>
<1>1. owed[t] \in Messages
  BY OwedIs DEF Broadcast
<1>2. /\ owed' = [owed EXCEPT ![t] = Nothing]
      /\ UNCHANGED <<database, conn, store, raced, writes, drops>>
      /\ \A c \in Clients : ~ Listening(c) => queue'[c] = queue[c]
      /\ \A u \in Tasks : owed'[u] = IF u = t THEN Nothing ELSE owed[u]
  BY DEF Broadcast, TypeOK
<1>3. lagged' \in [Clients -> BOOLEAN]
  <2>1. \A c \in Clients : (lagged[c] \/ (Listening(c) /\ Len(queue[c]) = Capacity)) \in BOOLEAN
    OBVIOUS
  <2>2. QED
    BY <2>1 DEF Broadcast
<1>4. ASSUME NEW c \in Clients
      PROVE  queue'[c] \in Seq(Messages) /\ Len(queue'[c]) <= Capacity
  <2>1. CASE Listening(c)
    BY <2>1, PushedIs, CapacityAssumption
  <2>2. CASE ~ Listening(c)
    BY <2>2, <1>2 DEF TypeOK
  <2>3. QED
    BY <2>1, <2>2
<1>5. queue' = [c \in Clients |->
            IF Listening(c) THEN Newest(Append(queue[c], owed[t])) ELSE queue[c]]
  BY DEF Broadcast
<1>6. queue' \in [Clients -> Seq(Messages)]
  BY <1>4, <1>5
<1>7. QED
  BY <1>1, <1>2, <1>3, <1>4, <1>6

LEMMA BroadcastInv == Inv /\ (\E t \in Tasks : Broadcast(t)) => Inv'
<1> SUFFICES ASSUME Inv, NEW t \in Tasks, Broadcast(t) PROVE Inv'
  OBVIOUS
<1>0. TypeOK /\ KnownInv /\ OwedInv /\ \A c \in Clients : QueueInv(c) /\ ViewInv(c)
  BY DEF Inv
<1>1. /\ owed[t] \in Messages
      /\ owed' = [owed EXCEPT ![t] = Nothing]
      /\ \A u \in Tasks : owed'[u] = IF u = t THEN Nothing ELSE owed[u]
      /\ queue' \in [Clients -> Seq(Messages)] /\ lagged' \in [Clients -> BOOLEAN]
      /\ \A c \in Clients : Len(queue'[c]) <= Capacity
      /\ \A c \in Clients : ~ Listening(c) => queue'[c] = queue[c]
      /\ UNCHANGED <<rows, settings, used, conn, shown, shownSettings, raced, writes, drops>>
  BY <1>0, BroadcastFacts DEF database, store
<1>2. PICK m \in Messages : m = owed[t]
  BY <1>1
<1>3. Owed(m) /\ Owes(t, m.about) /\ m # Nothing /\ m.about \in Subjects
  BY <1>2, MessageKinds DEF Owed, Owes
<1>4. /\ m.about \in Jobs => m.about \in used
      /\ m.type = "JOB_REMOVED" => rows[m.about] = "none"
      /\ m.about \notin raced => Right(m)
  BY <1>0, <1>3 DEF KnownInv, OwedInv
<1>5. TypeOK'
  <2>1. owed' \in [Tasks -> Messages \cup {Nothing}]
    BY <1>0, <1>1 DEF TypeOK
  <2>2. handed' \subseteq used
    <3>1. handed' = IF m.type = "JOB_ADDED" THEN handed \cup {m.about} ELSE handed
      BY <1>2 DEF Broadcast
    <3>2. m.type = "JOB_ADDED" => m.about \in Jobs
      BY <1>3, MessageKinds DEF Subjects
    <3>3. QED
      BY <1>0, <1>4, <3>1, <3>2 DEF TypeOK
  <2>3. QED
    BY <1>0, <1>1, <2>1, <2>2 DEF TypeOK
<1>6. \A u \in Tasks : \A x : Owes(u, x)' <=> Owes(u, x) /\ u # t
  BY <1>1 DEF Owes
<1>7. /\ \A n \in Messages : Owed(n)' => Owed(n)
      /\ \A n \in Messages : Owed(n) => Owed(n)' \/ n = m
  BY <1>1, <1>2, MessageKinds DEF Owed
<1>8. \A n \in Messages : Right(n)' <=> Right(n)
  BY <1>1, RightSame
<1>9. \A x \in Subjects : NoneOwes(x)' /\ x # m.about => NoneOwes(x)
  <2>1. \A x : Owes(t, x) => x = m.about
    BY <1>2 DEF Owes
  <2>2. QED
    BY <1>6, <2>1 DEF NoneOwes
<1>10. ASSUME NEW c \in Clients, Listening(c)
       PROVE  /\ Len(queue[c]) \in Nat /\ DOMAIN queue[c] = 1 .. Len(queue[c])
              /\ Len(queue'[c]) \in Nat \ {0} /\ DOMAIN queue'[c] = 1 .. Len(queue'[c])
              /\ \/ Pushed(c, m, 0) /\ lagged'[c] = lagged[c]
                 \/ Pushed(c, m, 1) /\ lagged'[c]
  <2>1. Len(queue[c]) \in Nat /\ DOMAIN queue[c] = 1 .. Len(queue[c])
    BY <1>0 DEF TypeOK
  <2>2. /\ queue'[c] \in Seq(Messages) /\ Len(queue'[c]) \in 1 .. Capacity
        /\ \/ Pushed(c, m, 0) /\ lagged'[c] = lagged[c]
           \/ Pushed(c, m, 1) /\ lagged'[c]
    BY <1>0, <1>2, <1>10, PushedIs
  <2>3. Len(queue'[c]) \in Nat \ {0} /\ DOMAIN queue'[c] = 1 .. Len(queue'[c])
    BY <2>2, CapacityAssumption
  <2>4. QED
    BY <2>1, <2>2, <2>3
<1>11. \A c \in Clients : Listening(c) => InQueue(c, m)'
  BY <1>10 DEF InQueue, Pushed
<1>12. ASSUME NEW c \in Clients, NEW n, InQueue(c, n)'
       PROVE  InQueue(c, n) \/ n = m
  <2>1. CASE ~ Listening(c)
    BY <2>1, <1>1, <1>12 DEF InQueue
  <2>2. CASE Listening(c)
    <3>1. PICK i \in 1 .. Len(queue'[c]) : queue'[c][i] = n
      BY <1>10, <1>12, <2>2 DEF InQueue
    <3>2. CASE i = Len(queue'[c])
      BY <1>10, <2>2, <3>1, <3>2 DEF Pushed
    <3>3. CASE i # Len(queue'[c])
      <4>1. i \in 1 .. Len(queue'[c]) - 1
        BY <1>10, <2>2, <3>1, <3>3
      <4>2. QED
        BY <1>10, <2>2, <3>1, <4>1 DEF Pushed, InQueue
    <3>4. QED
      BY <3>2, <3>3
  <2>3. QED
    BY <2>1, <2>2
<1>13. KnownInv'
  <2>1. ASSUME NEW n \in Messages, Owed(n)' \/ \E c \in Clients : InQueue(c, n)'
        PROVE  /\ n.about \in Jobs => n.about \in used'
               /\ n.type = "JOB_REMOVED" => rows'[n.about] = "none"
    <3>1. Owed(n) \/ \E c \in Clients : InQueue(c, n)
      BY <1>3, <1>7, <1>12, <2>1
    <3>2. QED
      BY <1>0, <1>1, <3>1 DEF KnownInv
  <2>2. QED
    BY <1>0, <1>1, <2>1 DEF KnownInv
<1>14. OwedInv'
  BY <1>0, <1>1, <1>6, <1>7, <1>8 DEF OwedInv
<1>15. ASSUME NEW c \in Clients, Listening(c), NEW x \in Subjects, x \notin raced, NoneOwes(x)'
       PROVE  LastRight(c, x)'
  <2> SUFFICES ASSUME NEW i \in DOMAIN queue'[c], NEW n \in Messages,
                      queue'[c][i] = n, n.about = x,
                      \A k \in DOMAIN queue'[c] : k > i => queue'[c][k].about # x
               PROVE  Right(n)'
    BY DEF LastRight
  <2>1. CASE i = Len(queue'[c])
    <3>1. n = m
      BY <1>10, <1>15, <2>1 DEF Pushed
    <3>2. QED
      BY <1>4, <1>8, <1>15, <3>1
  <2>2. CASE i # Len(queue'[c])
    <3>1. i \in 1 .. Len(queue'[c]) - 1 /\ Len(queue'[c]) \in DOMAIN queue'[c]
      BY <1>10, <1>15, <2>2
    <3>2. x # m.about
      BY <1>10, <1>15, <3>1 DEF Pushed
    <3>3. LastRight(c, x)
      BY <1>0, <1>9, <1>15, <3>2 DEF QueueInv
    <3>4. PICK d \in {0, 1} : Pushed(c, m, d)
      BY <1>10, <1>15
    <3>5. i + d \in DOMAIN queue[c] /\ queue[c][i + d] = n
      BY <1>10, <1>15, <3>1, <3>4 DEF Pushed
    <3>6. ASSUME NEW k \in DOMAIN queue[c], k > i + d
          PROVE  queue[c][k].about # x
      <4>1. k > d /\ k - d > i
        BY <1>10, <1>15, <3>1, <3>6
      <4>2. k - d \in 1 .. Len(queue'[c]) - 1 /\ queue'[c][k - d] = queue[c][k]
        <5>1. k \in 1 .. Len(queue[c])
          BY <1>10, <1>15
        <5>2. QED
          BY <3>4, <4>1, <5>1 DEF Pushed
      <4>3. k - d \in DOMAIN queue'[c]
        BY <1>10, <1>15, <4>2
      <4>4. QED
        BY <4>1, <4>2, <4>3
    <3>7. Right(n)
      BY <3>3, <3>5, <3>6 DEF LastRight
    <3>8. QED
      BY <1>8, <3>7
  <2>3. QED
    BY <2>1, <2>2
<1>16. ASSUME NEW c \in Clients, Listening(c), NEW j \in Jobs, j \notin raced, rows[j] = "none"
       PROVE  Owed(Removed(j))' \/ Undone(c, j)'
  <2>1. Removed(j) \in Messages /\ Added(j) \in Messages /\ Added(j) # Removed(j)
        /\ Added(j).about = j /\ Added(j).type = "JOB_ADDED"
    BY AddedRemoved
  <2>2. m # Added(j)
    BY <1>4, <1>16, <2>1 DEF Right
  <2>3. CASE m = Removed(j)
    <3>1. ASSUME NEW i \in DOMAIN queue'[c], queue'[c][i] = Added(j)
          PROVE  \E k \in DOMAIN queue'[c] : k > i /\ queue'[c][k] = Removed(j)
      <4>1. i < Len(queue'[c])
        BY <1>10, <1>16, <2>1, <2>3, <3>1 DEF Pushed
      <4>2. QED
        BY <1>10, <1>16, <2>3, <4>1 DEF Pushed
    <3>2. QED
      BY <3>1 DEF Undone
  <2>4. CASE m # Removed(j) /\ Owed(Removed(j))
    BY <1>7, <2>1, <2>4
  <2>5. CASE Undone(c, j)
    <3>1. ASSUME NEW i \in DOMAIN queue'[c], queue'[c][i] = Added(j)
          PROVE  \E k \in DOMAIN queue'[c] : k > i /\ queue'[c][k] = Removed(j)
      <4>1. i \in 1 .. Len(queue'[c]) - 1
        BY <1>10, <1>16, <2>2, <3>1 DEF Pushed
      <4>2. PICK d \in {0, 1} : Pushed(c, m, d)
        BY <1>10, <1>16
      <4>3. i + d \in DOMAIN queue[c] /\ queue[c][i + d] = Added(j)
        <5>1. i + d \in 1 .. Len(queue[c]) /\ queue'[c][i] = queue[c][i + d]
          BY <4>1, <4>2 DEF Pushed
        <5>2. QED
          BY <1>10, <1>16, <3>1, <5>1
      <4>4. PICK k \in DOMAIN queue[c] : k > i + d /\ queue[c][k] = Removed(j)
        BY <2>5, <4>3 DEF Undone
      <4>5. k > d /\ k - d > i
        BY <1>10, <1>16, <4>1, <4>4
      <4>6. k - d \in DOMAIN queue'[c] /\ queue'[c][k - d] = Removed(j)
        <5>1. k \in 1 .. Len(queue[c])
          BY <1>10, <1>16
        <5>2. k - d \in 1 .. Len(queue'[c]) - 1 /\ queue'[c][k - d] = queue[c][k]
          BY <4>2, <4>5, <5>1 DEF Pushed
        <5>3. QED
          BY <1>10, <1>16, <4>4, <5>2
      <4>7. QED
        BY <4>5, <4>6
    <3>2. QED
      BY <3>1 DEF Undone
  <2>6. QED
    BY <1>0, <1>16, <2>3, <2>4, <2>5 DEF QueueInv
<1>17. ASSUME NEW c \in Clients PROVE QueueInv(c)'
  <2>1. CASE Listening(c)
    BY <1>1, <1>15, <1>16, <2>1 DEF QueueInv, Listening
  <2>2. CASE ~ Listening(c)
    <3>1. queue'[c] = <<>> /\ DOMAIN queue'[c] = {}
      BY <1>0, <1>1, <2>2 DEF QueueInv, Listening
    <3>2. QED
      BY <3>1 DEF QueueInv, LastRight, Undone
  <2>3. QED
    BY <2>1, <2>2
<1>18. ASSUME NEW c \in Clients, Listening(c), ~ lagged'[c]
       PROVE  /\ ~ lagged[c]
              /\ \A n : InQueue(c, n) => InQueue(c, n)'
              /\ \A x \in Subjects : Silent(c, x)' => Silent(c, x)
  <2>1. Pushed(c, m, 0) /\ ~ lagged[c]
    BY <1>10, <1>18
  <2>2. \A i \in DOMAIN queue[c] : i \in DOMAIN queue'[c] /\ queue'[c][i] = queue[c][i]
    BY <1>10, <1>18, <2>1 DEF Pushed
  <2>3. \A n : InQueue(c, n) => InQueue(c, n)'
    BY <2>2 DEF InQueue
  <2>4. ASSUME NEW x \in Subjects, Silent(c, x)' PROVE Silent(c, x)
    <3>1. x # m.about
      BY <1>10, <1>18, <2>1, <2>4 DEF Silent, Pushed
    <3>2. NoneOwes(x)
      BY <1>9, <2>4, <3>1 DEF Silent
    <3>3. QED
      BY <2>2, <2>4, <3>2 DEF Silent
  <2>5. QED
    BY <2>1, <2>3, <2>4
<1>19. ASSUME NEW c \in Clients PROVE ViewInv(c)'
  <2>1. SettingsInv(c)'
    BY <1>0, <1>1, <1>18 DEF SettingsInv, ViewInv, Listening, Subjects
  <2>2. Current(c)' => ShownInv(c)'
    <3>0. SUFFICES ASSUME Current(c)' PROVE ShownInv(c)'
      OBVIOUS
    <3>1. Listening(c) /\ ~ lagged'[c]
      BY <1>1, <3>0 DEF Current, Listening
    <3>2. Current(c)
      BY <1>1, <1>18, <3>0, <3>1 DEF Current
    <3>3. ShownInv(c)
      BY <1>0, <3>2 DEF ViewInv
    <3>4. \A n \in Messages : InQueue(c, n) \/ Owed(n) => InQueue(c, n)' \/ Owed(n)'
      BY <1>7, <1>11, <1>18, <3>1
    <3>5. \A j \in Jobs : Silent(c, j)' => Silent(c, j)
      BY <1>18, <3>1 DEF Subjects
    <3>6. QED
      BY <1>1, <3>3, <3>4, <3>5, AddedRemoved DEF ShownInv
  <2>3. QED
    BY <2>1, <2>2 DEF ViewInv
<1>20. QED
  BY <1>5, <1>13, <1>14, <1>17, <1>19 DEF Inv
-----------------------------------------------------------------------------
(* Steps of a connection. They leave the database and what is owed alone,  *)
(* and every other connection.                                             *)

SameDatabase == UNCHANGED <<rows, settings, used, owed, raced>>
SameLink(c) ==
    /\ conn'[c] = conn[c] /\ queue'[c] = queue[c] /\ lagged'[c] = lagged[c]
    /\ shown'[c] = shown[c] /\ shownSettings'[c] = shownSettings[c]

LEMMA SameRight ==
    ASSUME SameDatabase
    PROVE  /\ \A n \in Messages : Right(n)' <=> Right(n)
           /\ \A n : Owed(n)' <=> Owed(n)
           /\ \A x : NoneOwes(x)' <=> NoneOwes(x)
           /\ OwedInv => OwedInv'
  BY DEF SameDatabase, Right, Owed, NoneOwes, Owes, OwedInv

LEMMA SameQueue ==
    ASSUME NEW c \in Clients, SameDatabase, queue'[c] = queue[c], QueueInv(c),
           conn'[c] = "down" => queue[c] = <<>>
    PROVE  QueueInv(c)'
<1>1. \A x : LastRight(c, x)' <=> LastRight(c, x)
  BY SameRight DEF LastRight
<1>2. \A j : Undone(c, j)' <=> Undone(c, j)
  BY DEF Undone
<1>3. QED
  BY <1>1, <1>2, SameRight DEF SameDatabase, QueueInv

LEMMA SameView ==
    ASSUME NEW c \in Clients, SameDatabase, SameLink(c), QueueInv(c), ViewInv(c)
    PROVE  QueueInv(c)' /\ ViewInv(c)'
<1>1. QueueInv(c)'
  BY SameQueue DEF SameLink, QueueInv
<1>2. /\ \A x : Silent(c, x)' <=> Silent(c, x)
      /\ \A n : InQueue(c, n)' <=> InQueue(c, n)
  BY SameRight DEF Silent, InQueue, SameLink
<1>3. ShownInv(c)' <=> ShownInv(c)
  BY <1>2, SameRight DEF ShownInv, SameDatabase, SameLink
<1>4. QED
  BY <1>1, <1>2, <1>3 DEF ViewInv, SettingsInv, Current, SameDatabase, SameLink

(* Nothing is in a queue that was not there before.                        *)
LEMMA SameKnown ==
    ASSUME KnownInv, SameDatabase,
           \A c \in Clients, n \in Messages : InQueue(c, n)' => \E d \in Clients : InQueue(d, n)
    PROVE  KnownInv'
  BY SameRight DEF KnownInv, SameDatabase

LEMMA Quiet ==
    ASSUME Inv, SameDatabase, \A c \in Clients : SameLink(c), TypeOK' PROVE Inv'
<1>1. \A c \in Clients, n \in Messages : InQueue(c, n)' => InQueue(c, n)
  BY DEF InQueue, SameLink
<1>2. QED
  BY <1>1, SameRight, SameKnown, SameView DEF Inv

LEMMA ResumeInv == Inv /\ (\E c \in Clients, j \in Jobs : Resume(c, j)) => Inv'
<1> SUFFICES ASSUME Inv, NEW c \in Clients, NEW j \in Jobs, Resume(c, j) PROVE Inv'
  OBVIOUS
<1>1. /\ UNCHANGED <<rows, settings, used, owed, raced, conn, queue, lagged, shown, shownSettings,
                    writes, drops>>
      /\ handed' = handed \cup {j} /\ rows[j] # "none"
  BY DEF Resume, database, link, store
<1>2. TypeOK'
  BY <1>1, KnownRows DEF Inv, TypeOK
<1>3. QED
  BY <1>1, <1>2, Quiet DEF SameDatabase, SameLink

(* A step of one connection: that connection apart, everything is quiet.   *)
LEMMA OneLink ==
    ASSUME Inv, NEW c \in Clients, SameDatabase, TypeOK',
           \A d \in Clients : d # c => SameLink(d),
           \A n \in Messages : InQueue(c, n)' => InQueue(c, n),
           QueueInv(c)', ViewInv(c)'
    PROVE  Inv'
<1>1. \A d \in Clients, n \in Messages : InQueue(d, n)' => InQueue(d, n)
  BY DEF InQueue, SameLink
<1>2. KnownInv'
  BY <1>1, SameKnown DEF Inv
<1>3. \A d \in Clients : QueueInv(d)' /\ ViewInv(d)'
  BY SameView DEF Inv
<1>4. QED
  BY <1>2, <1>3, SameRight DEF Inv

LEMMA ConnectInv == Inv /\ (\E c \in Clients : Connect(c)) => Inv'
<1> SUFFICES ASSUME Inv, NEW c \in Clients, Connect(c) PROVE Inv'
  OBVIOUS
<1>1. /\ UNCHANGED <<rows, settings, used, owed, raced, handed, queue, lagged, shown, shownSettings,
                    writes, drops>>
      /\ conn' = [conn EXCEPT ![c] = "jobs"]
  BY DEF Connect, database, store
<1>2. TypeOK' /\ conn'[c] = "jobs" /\ \A d \in Clients : d # c => SameLink(d)
  BY <1>1 DEF Inv, TypeOK, SameLink
<1>3. SameDatabase
  BY <1>1 DEF SameDatabase
<1>4. QueueInv(c)'
  BY <1>1, <1>2, <1>3, SameQueue DEF Inv
<1>5. ViewInv(c)'
  BY <1>2 DEF ViewInv, Current, SettingsInv
<1>6. \A n \in Messages : InQueue(c, n)' => InQueue(c, n)
  BY <1>1 DEF InQueue
<1>7. QED
  BY <1>2, <1>3, <1>4, <1>5, <1>6, OneLink

(* The snapshot is newer than all that waits in the queue.                 *)
LEMMA AnswerJobsInv == Inv /\ (\E c \in Clients : AnswerJobs(c)) => Inv'
<1> SUFFICES ASSUME Inv, NEW c \in Clients, AnswerJobs(c) PROVE Inv'
  OBVIOUS
<1>1. /\ UNCHANGED <<rows, settings, used, owed, raced, handed, queue, shownSettings, writes, drops>>
      /\ conn' = [conn EXCEPT ![c] = "settings"] /\ shown' = [shown EXCEPT ![c] = rows]
      /\ lagged' = [lagged EXCEPT ![c] = FALSE]
  BY DEF AnswerJobs, database
<1>2. TypeOK'
  BY <1>1 DEF Inv, TypeOK
<1>3. /\ conn'[c] = "settings" /\ shown'[c] = rows
      /\ \A d \in Clients : d # c => SameLink(d)
  BY <1>1 DEF Inv, TypeOK, SameLink
<1>4. SameDatabase
  BY <1>1 DEF SameDatabase
<1>5. QueueInv(c)'
  BY <1>1, <1>3, <1>4, SameQueue DEF Inv
<1>6. ViewInv(c)'
  <2>1. ShownInv(c)'
    BY <1>1, <1>3 DEF ShownInv
  <2>2. QED
    BY <1>3, <2>1 DEF ViewInv, SettingsInv
<1>7. \A n \in Messages : InQueue(c, n)' => InQueue(c, n)
  BY <1>1 DEF InQueue
<1>8. QED
  BY <1>2, <1>3, <1>4, <1>5, <1>6, <1>7, OneLink

LEMMA AnswerSettingsInv == Inv /\ (\E c \in Clients : AnswerSettings(c)) => Inv'
<1> SUFFICES ASSUME Inv, NEW c \in Clients, AnswerSettings(c) PROVE Inv'
  OBVIOUS
<1>1. /\ UNCHANGED <<rows, settings, used, owed, raced, handed, queue, lagged, shown, writes, drops>>
      /\ conn[c] = "settings" /\ conn' = [conn EXCEPT ![c] = "up"]
      /\ shownSettings' = [shownSettings EXCEPT ![c] = settings]
  BY DEF AnswerSettings, database
<1>2. TypeOK'
  BY <1>1 DEF Inv, TypeOK
<1>3. /\ conn'[c] = "up" /\ shownSettings'[c] = settings
      /\ \A d \in Clients : d # c => SameLink(d)
  BY <1>1 DEF Inv, TypeOK, SameLink
<1>4. SameDatabase
  BY <1>1 DEF SameDatabase
<1>5. QueueInv(c)'
  BY <1>1, <1>3, <1>4, SameQueue DEF Inv
<1>6. ViewInv(c)'
  <2>1. Current(c)' => Current(c)
    BY <1>1 DEF Current
  <2>2. ShownInv(c)' <=> ShownInv(c)
    <3>1. \A x : Silent(c, x)' <=> Silent(c, x)
      BY <1>1, <1>4, SameRight DEF Silent
    <3>2. \A n : InQueue(c, n)' <=> InQueue(c, n)
      BY <1>1 DEF InQueue
    <3>3. QED
      BY <1>1, <1>4, <3>1, <3>2, SameRight DEF ShownInv
  <2>3. QED
    BY <1>1, <1>3, <2>1, <2>2 DEF Inv, ViewInv, SettingsInv
<1>7. \A n \in Messages : InQueue(c, n)' => InQueue(c, n)
  BY <1>1 DEF InQueue
<1>8. QED
  BY <1>2, <1>3, <1>4, <1>5, <1>6, <1>7, OneLink

(* An empty queue says nothing, and a client that is down shows what it    *)
(* likes.                                                                  *)
LEMMA EmptyQueue ==
    ASSUME NEW c \in Clients, queue'[c] = <<>>, conn'[c] = "down"
    PROVE  QueueInv(c)' /\ ViewInv(c)' /\ \A n : ~ InQueue(c, n)'
<1>1. DOMAIN queue'[c] = {}
  OBVIOUS
<1>2. QED
  BY <1>1 DEF QueueInv, LastRight, Undone, ViewInv, Current, SettingsInv, InQueue

LEMMA DisconnectInv == Inv /\ (\E c \in Clients : Disconnect(c)) => Inv'
<1> SUFFICES ASSUME Inv, NEW c \in Clients, Disconnect(c) PROVE Inv'
  OBVIOUS
<1>1. /\ UNCHANGED <<rows, settings, used, owed, raced, handed, shown, shownSettings, writes>>
      /\ conn' = [conn EXCEPT ![c] = "down"] /\ queue' = [queue EXCEPT ![c] = <<>>]
      /\ lagged' = [lagged EXCEPT ![c] = FALSE]
      /\ drops < MaxDrops /\ drops' = drops + 1
  BY DEF Disconnect, database, store
<1>2. <<>> \in Seq(Messages) /\ Len(<<>>) = 0 /\ Capacity \in Nat
  BY CapacityAssumption
<1>3. TypeOK'
  <2>1. queue' \in [Clients -> Seq(Messages)] /\ \A d \in Clients : Len(queue'[d]) <= Capacity
    BY <1>1, <1>2 DEF Inv, TypeOK
  <2>2. drops' \in 0 .. MaxDrops
    BY <1>1, BoundsAssumption DEF Inv, TypeOK
  <2>3. QED
    BY <1>1, <2>1, <2>2 DEF Inv, TypeOK
<1>4. conn'[c] = "down" /\ queue'[c] = <<>> /\ \A d \in Clients : d # c => SameLink(d)
  BY <1>1 DEF Inv, TypeOK, SameLink
<1>5. QED
  BY <1>1, <1>3, <1>4, EmptyQueue, OneLink DEF SameDatabase

LEMMA RestartInv == Inv /\ Restart => Inv'
<1> SUFFICES ASSUME Inv, Restart PROVE Inv'
  OBVIOUS
<1>1. /\ UNCHANGED <<rows, settings, used, shown, shownSettings, writes>>
      /\ owed' = [t \in Tasks |-> Nothing] /\ conn' = [c \in Clients |-> "down"]
      /\ queue' = [c \in Clients |-> <<>>] /\ lagged' = [c \in Clients |-> FALSE]
      /\ raced' = {} /\ handed' = {}
      /\ drops < MaxDrops /\ drops' = drops + 1
  BY DEF Restart, database, store
<1>2. <<>> \in Seq(Messages) /\ Len(<<>>) = 0 /\ Capacity \in Nat
  BY CapacityAssumption
<1>3. TypeOK'
  <2>1. queue' \in [Clients -> Seq(Messages)] /\ \A d \in Clients : Len(queue'[d]) <= Capacity
    BY <1>1, <1>2
  <2>2. drops' \in 0 .. MaxDrops
    BY <1>1, BoundsAssumption DEF Inv, TypeOK
  <2>3. QED
    BY <1>1, <2>1, <2>2 DEF Inv, TypeOK
<1>4. \A c \in Clients : QueueInv(c)' /\ ViewInv(c)' /\ \A n : ~ InQueue(c, n)'
  BY <1>1, EmptyQueue
<1>5. \A n \in Messages : ~ Owed(n)'
  BY <1>1, MessageKinds DEF Owed
<1>6. KnownInv'
  BY <1>1, <1>4, <1>5 DEF Inv, KnownInv
<1>7. OwedInv'
  BY <1>1, <1>5 DEF OwedInv, Owes
<1>8. QED
  BY <1>3, <1>4, <1>6, <1>7 DEF Inv
-----------------------------------------------------------------------------
(* A message is forwarded to the store.                                    *)

LEMMA AppliedIs ==
    ASSUME NEW view \in [Jobs -> Statuses \cup {"none"}], NEW m \in Messages
    PROVE  /\ Applied(view, m) \in [Jobs -> Statuses \cup {"none"}]
           /\ \A j \in Jobs : j # m.about => Applied(view, m)[j] = view[j]
           /\ \A j \in Jobs : m = Added(j) => Applied(view, m)[j] = "Queued"
           /\ \A j \in Jobs : m = Removed(j) => Applied(view, m)[j] = "none"
           /\ m.about \in Jobs /\ m.type \in DOMAIN StatusOf =>
                  Applied(view, m)[m.about] =
                      IF view[m.about] = "none" THEN "none" ELSE StatusOf[m.type]
<1>1. "Queued" \in Statuses
  BY DEF Statuses
<1>2. CASE m.about = "settings"
  <2>1. m.type = "SETTINGS_UPDATED"
    BY <1>2, MessageKinds
  <2>2. Applied(view, m) = view
    BY <2>1, StatusTypes DEF Applied
  <2>3. \A j \in Jobs : m # Added(j) /\ m # Removed(j)
    BY <2>1, AddedRemoved
  <2>4. QED
    BY <1>2, <2>2, <2>3, JobsAssumption
<1>3. CASE m.about \in Jobs /\ m.type = "JOB_ADDED"
  <2>1. Applied(view, m) = [view EXCEPT ![m.about] = "Queued"]
    BY <1>3, StatusTypes DEF Applied
  <2>2. \A j \in Jobs : m # Removed(j) /\ (m = Added(j) => m.about = j)
    BY <1>3, AddedRemoved
  <2>3. QED
    BY <1>1, <1>3, <2>1, <2>2, StatusTypes
<1>4. CASE m.about \in Jobs /\ m.type = "JOB_REMOVED"
  <2>1. Applied(view, m) = [view EXCEPT ![m.about] = "none"]
    BY <1>4, StatusTypes DEF Applied
  <2>2. \A j \in Jobs : m # Added(j) /\ (m = Removed(j) => m.about = j)
    BY <1>4, AddedRemoved
  <2>3. QED
    BY <1>4, <2>1, <2>2, StatusTypes
<1>5. CASE m.about \in Jobs /\ m.type \in DOMAIN StatusOf
  <2>1. m.type # "JOB_ADDED" /\ m.type # "JOB_REMOVED"
    BY <1>5, StatusTypes
  <2>2. Applied(view, m) = Patched(view, m.about, StatusOf[m.type])
    BY <1>5, <2>1 DEF Applied
  <2>3. StatusOf[m.type] \in Statuses
    BY <1>5, StatusTypes
  <2>4. \A j \in Jobs : m # Added(j) /\ m # Removed(j)
    BY <2>1, AddedRemoved
  <2>5. QED
    BY <1>5, <2>2, <2>3, <2>4 DEF Patched
<1>6. QED
  BY <1>2, <1>3, <1>4, <1>5, MessageKinds DEF Subjects

LEMMA ForwardInv == Inv /\ (\E c \in Clients : Forward(c)) => Inv'
<1> SUFFICES ASSUME Inv, NEW c \in Clients, Forward(c) PROVE Inv'
  OBVIOUS
<1>0. TypeOK /\ KnownInv /\ OwedInv /\ QueueInv(c) /\ ViewInv(c)
  BY DEF Inv
<1>1. /\ queue[c] \in Seq(Messages) /\ queue[c] # <<>>
      /\ UNCHANGED <<rows, settings, used, owed, raced, handed, conn, lagged, writes, drops>>
      /\ queue' = [queue EXCEPT ![c] = Tail(@)]
  BY <1>0 DEF Forward, database, TypeOK
<1>2. SameDatabase
  BY <1>1 DEF SameDatabase
<1>3. /\ Len(queue[c]) \in Nat \ {0} /\ DOMAIN queue[c] = 1 .. Len(queue[c])
      /\ queue'[c] = Tail(queue[c]) /\ queue'[c] \in Seq(Messages)
      /\ DOMAIN queue'[c] = 1 .. Len(queue[c]) - 1
      /\ \A i \in 1 .. Len(queue[c]) - 1 : queue'[c][i] = queue[c][i + 1]
      /\ Len(queue'[c]) = Len(queue[c]) - 1
  BY <1>0, <1>1 DEF TypeOK
<1>4. PICK m \in Messages : m = Head(queue[c]) /\ m = queue[c][1] /\ 1 \in DOMAIN queue[c]
  BY <1>1, <1>3
<1>5. /\ shown' = [shown EXCEPT ![c] = Applied(shown[c], m)]
      /\ shownSettings' = [shownSettings EXCEPT
             ![c] = IF m.type = "SETTINGS_UPDATED" THEN m.value ELSE shownSettings[c]]
  BY <1>4 DEF Forward
<1>6. shown[c] \in [Jobs -> Statuses \cup {"none"}]
  BY <1>0 DEF TypeOK
<1> DEFINE after == Applied(shown[c], m)
<1>7. /\ after \in [Jobs -> Statuses \cup {"none"}]
      /\ \A j \in Jobs : j # m.about => after[j] = shown[c][j]
      /\ \A j \in Jobs : m = Added(j) => after[j] = "Queued"
      /\ \A j \in Jobs : m = Removed(j) => after[j] = "none"
      /\ m.about \in Jobs /\ m.type \in DOMAIN StatusOf =>
             after[m.about] = IF shown[c][m.about] = "none" THEN "none" ELSE StatusOf[m.type]
  BY <1>6, AppliedIs
<1>8. shown'[c] = after /\ shown' \in [Clients -> [Jobs -> Statuses \cup {"none"}]]
  BY <1>0, <1>5, <1>7 DEF TypeOK
<1> HIDE DEF after
<1>9. shownSettings' \in [Clients -> Settings]
  <2>1. m.type = "SETTINGS_UPDATED" => m.value \in Settings
    BY MessageKinds, StatusTypes DEF Subjects
  <2>2. QED
    BY <1>0, <1>5, <2>1 DEF TypeOK
<1>10. TypeOK'
  <2>1. queue' \in [Clients -> Seq(Messages)]
    BY <1>0, <1>1, <1>3 DEF TypeOK
  <2>2. \A d \in Clients : Len(queue'[d]) <= Capacity
    <3> TAKE d \in Clients
    <3>1. CASE d = c
      BY <1>0, <1>3, <3>1, CapacityAssumption DEF TypeOK
    <3>2. CASE d # c
      BY <1>0, <1>1, <3>2 DEF TypeOK
    <3>3. QED
      BY <3>1, <3>2
  <2>3. QED
    BY <1>0, <1>1, <1>8, <1>9, <2>1, <2>2 DEF TypeOK
<1>11. \A d \in Clients : d # c => SameLink(d)
  BY <1>0, <1>1, <1>5 DEF TypeOK, SameLink
<1>12. \A n : InQueue(c, n)' => InQueue(c, n)
  BY <1>3 DEF InQueue
<1>13. \A n : InQueue(c, n) => InQueue(c, n)' \/ n = m
  <2> SUFFICES ASSUME NEW i \in 1 .. Len(queue[c]), queue[c][i] # m
               PROVE  \E k \in DOMAIN queue'[c] : queue'[c][k] = queue[c][i]
    BY <1>3 DEF InQueue
  <2>1. i # 1
    BY <1>4
  <2>2. i - 1 \in 1 .. Len(queue[c]) - 1 /\ (i - 1) + 1 = i
    BY <1>3, <2>1
  <2>3. QED
    BY <1>3, <2>2
<1>14. QueueInv(c)'
  <2>1. ASSUME NEW x \in Subjects, LastRight(c, x) PROVE LastRight(c, x)'
    <3> SUFFICES ASSUME NEW i \in DOMAIN queue'[c], NEW n \in Messages,
                        queue'[c][i] = n, n.about = x,
                        \A k \in DOMAIN queue'[c] : k > i => queue'[c][k].about # x
                 PROVE  Right(n)'
      BY DEF LastRight
    <3>1. i \in Nat /\ i + 1 \in DOMAIN queue[c] /\ queue[c][i + 1] = n
      BY <1>3
    <3>2. ASSUME NEW k \in DOMAIN queue[c], k > i + 1
          PROVE  queue[c][k].about # x
      <4>1. k - 1 \in 1 .. Len(queue[c]) - 1 /\ (k - 1) + 1 = k /\ k - 1 > i
        BY <1>3, <3>1, <3>2
      <4>2. QED
        BY <1>3, <4>1
    <3>3. QED
      BY <1>2, <2>1, <3>1, <3>2, SameRight DEF LastRight
  <2>2. ASSUME NEW j \in Jobs, Undone(c, j) PROVE Undone(c, j)'
    <3> SUFFICES ASSUME NEW i \in DOMAIN queue'[c], queue'[c][i] = Added(j)
                 PROVE  \E k \in DOMAIN queue'[c] : k > i /\ queue'[c][k] = Removed(j)
      BY DEF Undone
    <3>1. i \in Nat /\ i + 1 \in DOMAIN queue[c] /\ queue[c][i + 1] = Added(j)
      BY <1>3
    <3>2. PICK k \in DOMAIN queue[c] : k > i + 1 /\ queue[c][k] = Removed(j)
      BY <2>2, <3>1 DEF Undone
    <3>3. k - 1 \in 1 .. Len(queue[c]) - 1 /\ (k - 1) + 1 = k /\ k - 1 > i
      BY <1>3, <3>1, <3>2
    <3>4. QED
      BY <1>3, <3>2, <3>3
  <2>3. conn'[c] # "down"
    BY <1>0, <1>1 DEF QueueInv
  <2>4. QED
    BY <1>0, <1>1, <1>2, <2>1, <2>2, <2>3, SameRight DEF QueueInv
(* If nothing more is to come about x, what is forwarded about it is right.*)
<1>15. ASSUME NEW x \in Subjects, Silent(c, x)'
       PROVE  /\ NoneOwes(x)
              /\ m.about # x => Silent(c, x)
              /\ m.about = x /\ x \notin raced => Right(m)
  <2>1. NoneOwes(x)
    BY <1>2, <1>15, SameRight DEF Silent
  <2>2. ASSUME NEW k \in DOMAIN queue[c], k > 1
        PROVE  queue[c][k].about # x
    <3>1. k - 1 \in 1 .. Len(queue[c]) - 1 /\ (k - 1) + 1 = k
      BY <1>3, <2>2
    <3>2. QED
      BY <1>3, <1>15, <3>1 DEF Silent
  <2>3. ASSUME m.about # x PROVE Silent(c, x)
    <3>1. \A k \in DOMAIN queue[c] : k = 1 \/ k > 1
      BY <1>3
    <3>2. QED
      BY <1>4, <2>1, <2>2, <2>3, <3>1 DEF Silent
  <2>4. ASSUME m.about = x, x \notin raced PROVE Right(m)
    <3>1. LastRight(c, x)
      BY <1>0, <2>1, <2>4 DEF QueueInv
    <3>2. QED
      BY <1>4, <2>2, <2>4, <3>1 DEF LastRight
  <2>5. QED
    BY <2>1, <2>3, <2>4
<1>16. SettingsInv(c)'
  <2>1. SUFFICES ASSUME conn'[c] = "up", ~ lagged'[c], "settings" \notin raced',
                        Silent(c, "settings")'
                 PROVE  shownSettings'[c] = settings'
    BY DEF SettingsInv
  <2>2. shownSettings'[c] = IF m.type = "SETTINGS_UPDATED" THEN m.value ELSE shownSettings[c]
    BY <1>0, <1>5 DEF TypeOK
  <2>3. CASE m.about = "settings"
    BY <1>1, <1>15, <2>1, <2>2, <2>3, MessageKinds DEF Right, Subjects
  <2>4. CASE m.about # "settings"
    <3>1. m.type # "SETTINGS_UPDATED"
      BY <2>4, MessageKinds, StatusTypes DEF Subjects
    <3>2. Silent(c, "settings")
      BY <1>15, <2>1, <2>4 DEF Subjects
    <3>3. QED
      BY <1>0, <1>1, <2>1, <2>2, <3>1, <3>2 DEF ViewInv, SettingsInv
  <2>5. QED
    BY <2>3, <2>4
<1>17. Current(c)' => ShownInv(c)'
  <2>0. SUFFICES ASSUME Current(c)' PROVE ShownInv(c)'
    OBVIOUS
  <2>1. ShownInv(c)
    BY <1>0, <1>1, <2>0 DEF Current, ViewInv
  <2>2. ASSUME NEW j \in Jobs, rows[j] # "none"
        PROVE  after[j] # "none" \/ InQueue(c, Added(j))' \/ Owed(Added(j))
    <3>1. shown[c][j] # "none" \/ InQueue(c, Added(j)) \/ Owed(Added(j))
      BY <2>1, <2>2 DEF ShownInv
    <3>2. CASE m = Added(j)
      BY <1>7, <3>2
    <3>3. CASE m # Added(j) /\ shown[c][j] # "none"
      <4>1. CASE m.about # j
        BY <1>7, <3>3, <4>1
      <4>2. CASE m.about = j
        <5>1. m # Removed(j)
          <6>1. InQueue(c, m)
            BY <1>4 DEF InQueue
          <6>2. m.type # "JOB_REMOVED"
            BY <1>0, <2>2, <4>2, <6>1 DEF KnownInv
          <6>3. QED
            BY <6>2, AddedRemoved
        <5>2. m.type \in DOMAIN StatusOf
          BY <3>3, <4>2, <5>1, MessageKinds, AddedRemoved
        <5>3. after[j] = StatusOf[m.type] /\ StatusOf[m.type] \in Statuses
          BY <1>7, <3>3, <4>2, <5>2, StatusTypes
        <5>4. QED
          BY <5>3 DEF Statuses
      <4>3. QED
        BY <4>1, <4>2
    <3>4. CASE m # Added(j) /\ InQueue(c, Added(j))
      BY <1>13, <3>4
    <3>5. QED
      BY <3>1, <3>2, <3>3, <3>4
  <2>3. ASSUME NEW j \in Jobs, j \notin raced, rows[j] = "none"
        PROVE  after[j] = "none" \/ InQueue(c, Removed(j))' \/ Owed(Removed(j))
    <3>1. shown[c][j] = "none" \/ InQueue(c, Removed(j)) \/ Owed(Removed(j))
      BY <2>1, <2>3 DEF ShownInv
    <3>2. CASE m = Removed(j)
      BY <1>7, <3>2
    <3>3. CASE m # Removed(j) /\ InQueue(c, Removed(j))
      BY <1>13, <3>3
    <3>4. CASE m = Added(j)
      <4>1. Undone(c, j) \/ Owed(Removed(j))
        BY <1>0, <2>3 DEF QueueInv
      <4>2. Undone(c, j) => InQueue(c, Removed(j))
        BY <1>4, <3>4 DEF Undone, InQueue
      <4>3. QED
        BY <1>13, <3>4, <4>1, <4>2, AddedRemoved
    <3>5. CASE m # Removed(j) /\ m # Added(j) /\ shown[c][j] = "none"
      <4>1. CASE m.about # j
        BY <1>7, <3>5, <4>1
      <4>2. CASE m.about = j
        <5>1. m.type \in DOMAIN StatusOf
          BY <3>5, <4>2, MessageKinds, AddedRemoved
        <5>2. QED
          BY <1>7, <3>5, <4>2, <5>1
      <4>3. QED
        BY <4>1, <4>2
    <3>6. QED
      BY <3>1, <3>2, <3>3, <3>4, <3>5
  <2>4. ASSUME NEW j \in Jobs, j \notin raced, Silent(c, j)', rows[j] # "none"
        PROVE  after[j] = rows[j]
    <3>1. CASE m.about # j
      <4>1. Silent(c, j)
        BY <1>15, <2>4, <3>1 DEF Subjects
      <4>2. QED
        BY <1>7, <2>1, <2>4, <3>1, <4>1 DEF ShownInv
    <3>2. CASE m.about = j
      <4>1. Right(m)
        BY <1>15, <2>4, <3>2 DEF Subjects
      <4>2. CASE m = Added(j)
        BY <1>7, <3>2, <4>1, <4>2, AddedRemoved DEF Right
      <4>3. CASE m # Added(j)
        <5>1. m.type \in DOMAIN StatusOf
          BY <2>4, <3>2, <4>1, <4>3, MessageKinds, AddedRemoved DEF Right
        <5>2. rows[j] = StatusOf[m.type]
          BY <2>4, <3>2, <4>1, <5>1 DEF Right
        <5>3. ~ InQueue(c, Added(j))'
          BY <2>4, AddedRemoved DEF Silent, InQueue
        <5>4. ~ Owed(Added(j))
          <6>1. NoneOwes(j)
            BY <1>15, <2>4 DEF Subjects
          <6>2. QED
            BY <6>1, AddedRemoved, MessageKinds DEF NoneOwes, Owes, Owed
        <5>5. after[j] # "none"
          BY <2>2, <2>4, <5>3, <5>4
        <5>6. QED
          BY <1>7, <3>2, <5>1, <5>2, <5>5
      <4>4. QED
        BY <4>2, <4>3
    <3>3. QED
      BY <3>1, <3>2
  <2>5. QED
    BY <1>1, <1>2, <1>8, <2>2, <2>3, <2>4, SameRight DEF ShownInv
<1>18. QED
  BY <1>2, <1>10, <1>11, <1>12, <1>14, <1>16, <1>17, OneLink DEF ViewInv

-----------------------------------------------------------------------------
(* The theorems.                                                           *)

LEMMA NextInv == Inv /\ [Next]_vars => Inv'
<1> SUFFICES ASSUME Inv, [Next]_vars PROVE Inv'
  OBVIOUS
<1>1. CASE \E c \in Clients : Command(c)
  BY <1>1, AddDownloadInv, RetryInv, RemoveInv, CancelInv, ResumeInv, UpdateSettingsInv DEF Command
<1>2. CASE \E c \in Clients : LinkStep(c)
  BY <1>2, ConnectInv, AnswerJobsInv, AnswerSettingsInv, ForwardInv DEF LinkStep
<1>3. CASE \E c \in Clients : Disconnect(c)
  BY <1>3, DisconnectInv
<1>4. CASE \E j \in Jobs : ConsumeEvent(j)
  BY <1>4, ConsumeEventInv
<1>5. CASE \E t \in Tasks : Broadcast(t)
  BY <1>5, BroadcastInv
<1>6. CASE Restart
  BY <1>6, RestartInv
<1>7. CASE UNCHANGED vars
  <2>1. UNCHANGED <<rows, settings, used, owed, raced, handed, conn, queue, lagged, shown,
                    shownSettings, writes, drops>>
    BY <1>7 DEF vars, database, link, store
  <2>2. TypeOK'
    BY <2>1 DEF Inv, TypeOK
  <2>3. QED
    BY <2>1, <2>2, Quiet DEF SameDatabase, SameLink
<1>8. QED
  BY <1>1, <1>2, <1>3, <1>4, <1>5, <1>6, <1>7 DEF Next

LEMMA InvAlways == Spec => []Inv
  BY InitInv, NextInv, PTL DEF Spec

(* The database, the queues and the stores keep their types: every message *)
(* is one of the protocol, about a job or the settings, and no connection  *)
(* is sent more than the channel keeps.                                    *)
THEOREM TypeCorrect == Spec => []TypeOK
<1>1. Inv => TypeOK
  BY DEF Inv
<1>2. QED
  BY <1>1, InvAlways, PTL

(* A client that has missed nothing shows every row with its status and no *)
(* row that is gone, for any number of clients, however the changes, their *)
(* broadcasts, lost connections and restarts interleave; but for jobs that *)
(* two tasks changed at once.                                              *)
THEOREM RowsAreShown == Spec => []RowsShown
<1>1. Inv => RowsShown
  <2> SUFFICES ASSUME Inv, NEW c \in Clients, UpToDate(c), NEW j \in Jobs, j \notin raced
               PROVE  shown[c][j] = rows[j]
    BY DEF RowsShown
  <2>1. /\ DOMAIN queue[c] = {} /\ Current(c)
        /\ \A t \in Tasks : owed[t] = Nothing
    BY DEF UpToDate, Current
  <2>2. ShownInv(c)
    BY <2>1 DEF Inv, ViewInv
  <2>3. CASE rows[j] # "none"
    <3>1. Silent(c, j)
      BY <2>1 DEF Silent, NoneOwes, Owes
    <3>2. QED
      BY <2>2, <2>3, <3>1 DEF ShownInv
  <2>4. CASE rows[j] = "none"
    <3>1. ~ InQueue(c, Removed(j)) /\ ~ Owed(Removed(j))
      BY <2>1, AddedRemoved, MessageKinds DEF InQueue, Owed
    <3>2. QED
      BY <2>2, <2>4, <3>1 DEF ShownInv
  <2>5. QED
    BY <2>3, <2>4
<1>2. QED
  BY <1>1, InvAlways, PTL

(* A client that has missed nothing shows the settings that were saved,    *)
(* unless two connections saved at once.                                   *)
THEOREM SettingsAreShown == Spec => []SettingsShown
<1>1. Inv => SettingsShown
  <2> SUFFICES ASSUME Inv, NEW c \in Clients, UpToDate(c), "settings" \notin raced
               PROVE  shownSettings[c] = settings
    BY DEF SettingsShown
  <2>1. DOMAIN queue[c] = {} /\ \A t \in Tasks : owed[t] = Nothing
    BY DEF UpToDate
  <2>2. Silent(c, "settings")
    BY <2>1 DEF Silent, NoneOwes, Owes
  <2>3. QED
    BY <2>2 DEF Inv, ViewInv, SettingsInv, UpToDate
<1>2. QED
  BY <1>1, InvAlways, PTL
=============================================================================
