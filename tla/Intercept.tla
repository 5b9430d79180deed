----------------------------- MODULE Intercept -----------------------------
(***************************************************************************)
(* How a download of the browser becomes a job. The worker of the exten-   *)
(* sion cancels the browser's own download and sends a prompt to the       *)
(* daemon; the daemon starts it at once or passes the prompt to the main   *)
(* window of the app; the main window stashes it in the shell for a popup; *)
(* a person presses Start there, and the popup sends an ADD_DOWNLOAD over  *)
(* a socket of its own. Nobody acknowledges anything.                      *)
(*                                                                         *)
(* A download is an item with its URL. A connection is open, broken (its   *)
(* far end is gone and its onclose has not run) or down; what is written   *)
(* to a broken one is lost. Messages on a connection are a set: no step    *)
(* depends on their order. A closed popup is only hidden (close-to-tray).  *)
(***************************************************************************)
EXTENDS Naturals, FiniteSets

CONSTANTS
    Items,
    Urls,
    Fetchable,  \* those FETCHABLE of udm-core.js accepts
    Valid,      \* http and https
    Worker,     \* the extension's end of its connection
    Main,       \* the main window's
    MaxFaults   \* bound: deaths of processes and connections

ASSUME UrlsAssumption == Fetchable \subseteq Urls /\ Valid \subseteq Urls
ASSUME EndsAssumption == Worker # Main /\ Items \cap {Worker, Main} = {}
ASSUME BoundsAssumption == MaxFaults \in Nat

VARIABLES
    url,
    browser,    \* the browser's own download of each item
    handler,    \* onCreated or onClicked, at its awaits
    link,       \* the connection of each end; a popup's is named by its item
    prompts,    \* PROMPT_DOWNLOADs on the worker's connection
    daemon,     \* "down", the app's "child" or started "alone"
    ask,        \* settings.prompt_before_download
    announced,  \* DOWNLOAD_PROMPTs on their way to the main window
    app,        \* is the app running?
    opening,    \* calls of openNewDownloadPrompt before stash_intent
    stash,      \* IntentStash
    window,     \* the popup of each item
    outbox,     \* popups whose ADD_DOWNLOAD waits for their socket
    adds,       \* ADD_DOWNLOADs on the popups' connections
    jobs,       \* the items that are rows
    told,       \* items about which a person saw an error, or said no
    unerased,   \* auxiliary: cancelled, but erase() failed
    unheard,    \* auxiliary: no main window received the prompt
    disturbed,  \* auxiliary: on a process or connection that failed
    faults

extension == <<browser, handler>>
shell == <<app, opening, stash, window, outbox>>
net == <<link, prompts, announced, adds>>
aux == <<unerased, unheard, disturbed, faults>>
vars == <<url, extension, net, daemon, ask, shell, jobs, told, aux>>

Ends == Items \cup {Worker, Main}
Popups == {"none", "loading", "prompt", "hidden", "downloading", "missing"}

Init ==
    /\ url \in [Items -> Urls]
    /\ browser = [d \in Items |-> "none"]
    /\ handler = [d \in Items |-> "idle"]
    /\ link = [c \in Ends |-> "down"]
    /\ prompts = {} /\ announced = {} /\ adds = {}
    /\ daemon \in {"down", "alone"}
    /\ ask \in BOOLEAN
    /\ app = FALSE
    /\ opening = {} /\ stash = {} /\ outbox = {}
    /\ window = [d \in Items |-> "none"]
    /\ jobs = {}
    /\ told = {}
    /\ unerased = {} /\ unheard = {} /\ disturbed = {}
    /\ faults = 0

Up == daemon # "down"

validate_url(u) == u \in Valid

-----------------------------------------------------------------------------
(* The extension.                                                          *)

connected == link[Worker] # "down"
shouldIntercept(u) == u \in Fetchable

(* Mutant: downloads are taken over whether there is a daemon or not.      *)
CreatedAnyway(d) ==
    /\ browser[d] = "none"
    /\ browser' = [browser EXCEPT ![d] = "loading"]
    /\ handler' = [handler EXCEPT ![d] = IF shouldIntercept(url[d]) THEN "cancel" ELSE "idle"]
    /\ disturbed' = IF link[Worker] = "broken" THEN disturbed \cup {d} ELSE disturbed
    /\ UNCHANGED <<url, net, daemon, ask, shell, jobs, told, unerased, unheard, faults>>

(* onCreated, up to its first await.                                       *)
Created(d) ==
    /\ browser[d] = "none"
    /\ browser' = [browser EXCEPT ![d] = "loading"]
    /\ handler' = [handler EXCEPT ![d] =
                      IF connected /\ shouldIntercept(url[d]) THEN "cancel" ELSE "idle"]
    /\ disturbed' = IF link[Worker] = "broken" THEN disturbed \cup {d} ELSE disturbed
    /\ UNCHANGED <<url, net, daemon, ask, shell, jobs, told, unerased, unheard, faults>>

BrowserFinishes(d) ==
    /\ browser[d] = "loading"
    /\ browser' = [browser EXCEPT ![d] = "done"]
    /\ UNCHANGED <<url, handler, net, daemon, ask, shell, jobs, told, aux>>

(* cancel() resolves for a download that has completed, too, and leaves    *)
(* it as it is.                                                            *)
Cancelled(d) ==
    /\ handler[d] = "cancel"
    /\ browser' = [browser EXCEPT ![d] = IF @ = "loading" THEN "cancelled" ELSE @]
    /\ handler' = [handler EXCEPT ![d] = "erase"]
    /\ UNCHANGED <<url, net, daemon, ask, shell, jobs, told, aux>>

(* cancel() rejects, for whatever reason.                                  *)
CancelFails(d) ==
    /\ handler[d] = "cancel"
    /\ handler' = [handler EXCEPT ![d] = "idle"]
    /\ UNCHANGED <<url, browser, net, daemon, ask, shell, jobs, told, aux>>

(* The entry in the browser's list goes; a file that it finished stays.    *)
Erased(d) ==
    /\ handler[d] = "erase"
    /\ handler' = [handler EXCEPT ![d] = "cookies"]
    /\ UNCHANGED <<url, browser, net, daemon, ask, shell, jobs, told, aux>>

(* The same catch takes an erase() that fails after the cancel().          *)
EraseFails(d) ==
    /\ handler[d] = "erase"
    /\ handler' = [handler EXCEPT ![d] = "idle"]
    /\ unerased' = unerased \cup {d}
    /\ UNCHANGED <<url, browser, net, daemon, ask, shell, jobs, told, unheard, disturbed, faults>>

(* The cookies are there, or not; send() drops what it cannot send.        *)
Send(d) ==
    /\ handler[d] = "cookies"
    /\ handler' = [handler EXCEPT ![d] = "idle"]
    /\ prompts' = IF link[Worker] = "open" THEN prompts \cup {d} ELSE prompts
    /\ UNCHANGED <<url, browser, link, announced, adds, daemon, ask, shell, jobs, told, aux>>

(* "Download with UDM" on a link.                                          *)
Clicked(d) ==
    /\ browser[d] = "none"
    /\ browser' = [browser EXCEPT ![d] = "link"]
    /\ IF connected
         THEN handler' = [handler EXCEPT ![d] = "cookies"] /\ UNCHANGED told
         ELSE told' = told \cup {d} /\ UNCHANGED handler
    /\ disturbed' = IF link[Worker] = "broken" THEN disturbed \cup {d} ELSE disturbed
    /\ UNCHANGED <<url, net, daemon, ask, shell, jobs, unerased, unheard, faults>>

-----------------------------------------------------------------------------
(* The daemon.                                                             *)

(* PromptDownload; a broadcast without a receiver is dropped.              *)
ReadPrompt(d) ==
    /\ Up /\ d \in prompts
    /\ prompts' = prompts \ {d}
    /\ IF ~ validate_url(url[d]) THEN UNCHANGED <<announced, jobs, unheard>>
       ELSE IF ~ ask THEN jobs' = jobs \cup {d} /\ UNCHANGED <<announced, unheard>>
       ELSE IF link[Main] = "open" THEN announced' = announced \cup {d} /\ UNCHANGED <<jobs, unheard>>
       ELSE unheard' = unheard \cup {d} /\ UNCHANGED <<announced, jobs>>
    /\ UNCHANGED <<url, extension, link, adds, daemon, ask, shell, told, unerased, disturbed, faults>>

(* The main window's receiver has lagged.                                  *)
Overrun(d) ==
    /\ Up /\ d \in announced
    /\ announced' = announced \ {d}
    /\ unheard' = unheard \cup {d}
    /\ UNCHANGED <<url, extension, link, prompts, adds, daemon, ask, shell, jobs, told, unerased, disturbed, faults>>

(* AddDownload, queue_payload.                                             *)
ReadAdd(d) ==
    /\ Up /\ d \in adds
    /\ adds' = adds \ {d}
    /\ jobs' = IF validate_url(url[d]) THEN jobs \cup {d} ELSE jobs
    /\ UNCHANGED <<url, extension, link, prompts, announced, daemon, ask, shell, told, aux>>

SetAsk ==
    /\ Up
    /\ ask' = ~ ask
    /\ UNCHANGED <<url, extension, net, daemon, shell, jobs, told, aux>>

(* Somebody starts a daemon by hand.                                       *)
DaemonStarts ==
    /\ ~ Up
    /\ daemon' = "alone"
    /\ UNCHANGED <<url, extension, net, ask, shell, jobs, told, aux>>

-----------------------------------------------------------------------------
(* The app.                                                                *)

(* spawn_daemon is best effort; a second daemon cannot bind, and exits.    *)
AppStarts ==
    /\ ~ app
    /\ app' = TRUE
    /\ daemon' \in IF Up THEN {daemon} ELSE {"child", "down"}
    /\ UNCHANGED <<url, extension, net, ask, opening, stash, window, outbox, jobs, told, aux>>

(* onDownloadPrompt.                                                       *)
Prompted(d) ==
    /\ d \in announced /\ link[Main] = "open"
    /\ announced' = announced \ {d}
    /\ opening' = opening \cup {d}
    /\ UNCHANGED <<url, extension, link, prompts, adds, daemon, ask, app, stash, window, outbox, jobs, told, aux>>

(* The clipboard watcher finds a file link, and only http or https.        *)
Copied(d) ==
    /\ app /\ browser[d] = "none" /\ url[d] \in Valid
    /\ browser' = [browser EXCEPT ![d] = "link"]
    /\ opening' = opening \cup {d}
    /\ UNCHANGED <<url, handler, net, daemon, ask, app, stash, window, outbox, jobs, told, aux>>

stash_intent(d) ==
    /\ d \in opening
    /\ opening' = opening \ {d}
    /\ stash' = stash \cup {d}
    /\ UNCHANGED <<url, extension, net, daemon, ask, app, window, outbox, jobs, told, aux>>

OpenWindow(d) ==
    /\ d \in stash \ told /\ window[d] = "none"
    /\ window' = [window EXCEPT ![d] = "loading"]
    /\ UNCHANGED <<url, extension, net, daemon, ask, app, opening, stash, outbox, jobs, told, aux>>

(* A toast; the intent stays in the stash.                                 *)
WindowFails(d) ==
    /\ d \in stash \ told /\ window[d] = "none"
    /\ told' = told \cup {d}
    /\ UNCHANGED <<url, extension, net, daemon, ask, shell, jobs, aux>>

take_intent(d) ==
    /\ window[d] = "loading"
    /\ window' = [window EXCEPT ![d] = IF d \in stash THEN "prompt" ELSE "missing"]
    /\ stash' = stash \ {d}
    /\ UNCHANGED <<url, extension, net, daemon, ask, app, opening, outbox, jobs, told, aux>>

(* Cancel, or the window is closed.                                        *)
Decline(d) ==
    /\ window[d] = "prompt"
    /\ window' = [window EXCEPT ![d] = "hidden"]
    /\ told' = told \cup {d}
    /\ UNCHANGED <<url, extension, net, daemon, ask, app, opening, stash, outbox, jobs, aux>>

(* Mutant: sendMessage without an outbox.                                  *)
StartOnline(d) ==
    /\ window[d] = "prompt"
    /\ window' = [window EXCEPT ![d] = "downloading"]
    /\ adds' = IF link[d] = "open" THEN adds \cup {d} ELSE adds
    /\ disturbed' = IF link[d] = "broken" THEN disturbed \cup {d} ELSE disturbed
    /\ UNCHANGED <<url, extension, link, prompts, announced, daemon, ask, app, opening, stash, outbox, jobs, told, unerased, unheard, faults>>

(* start(), sendMessage(); the button is gone afterwards.                  *)
Start(d) ==
    /\ window[d] = "prompt"
    /\ window' = [window EXCEPT ![d] = "downloading"]
    /\ adds' = IF link[d] = "open" THEN adds \cup {d} ELSE adds
    /\ outbox' = IF link[d] = "down" THEN outbox \cup {d} ELSE outbox
    /\ disturbed' = IF link[d] = "broken" THEN disturbed \cup {d} ELSE disturbed
    /\ UNCHANGED <<url, extension, link, prompts, announced, daemon, ask, app, opening, stash, jobs, told, unerased, unheard, faults>>

-----------------------------------------------------------------------------
(* Connections.                                                            *)

Runs(c) ==
    CASE c = Worker -> TRUE
      [] c = Main -> app
      [] OTHER -> window[c] # "none"

(* Mutant: the socket opens and nobody flushes the outbox.                 *)
ConnectOnly(c) ==
    /\ Runs(c) /\ Up /\ link[c] = "down"
    /\ link' = [link EXCEPT ![c] = "open"]
    /\ UNCHANGED <<url, extension, prompts, announced, adds, daemon, ask, shell, jobs, told, aux>>

(* onopen; a popup flushes its outbox.                                     *)
Connect(c) ==
    /\ Runs(c) /\ Up /\ link[c] = "down"
    /\ link' = [link EXCEPT ![c] = "open"]
    /\ adds' = adds \cup (outbox \cap {c})
    /\ outbox' = outbox \ {c}
    /\ UNCHANGED <<url, extension, prompts, announced, daemon, ask, app, opening, stash, window, jobs, told, aux>>

(* Mutant: the end remembers that its socket closed, and connects no more. *)
NoticeClosed(c) ==
    /\ link[c] = "broken"
    /\ link' = [link EXCEPT ![c] = "closed"]
    /\ UNCHANGED <<url, extension, prompts, announced, adds, daemon, ask, shell, jobs, told, aux>>

(* onclose, which comes late; a timer connects again.                      *)
Notice(c) ==
    /\ link[c] = "broken"
    /\ link' = [link EXCEPT ![c] = "down"]
    /\ UNCHANGED <<url, extension, prompts, announced, adds, daemon, ask, shell, jobs, told, aux>>

-----------------------------------------------------------------------------
(* Failures.                                                               *)

Fault == faults < MaxFaults /\ faults' = faults + 1

Handled == {d \in Items : handler[d] # "idle"}

Broken(C) == [c \in Ends |-> IF c \in C /\ link[c] = "open" THEN "broken" ELSE link[c]]

(* What is on the connections in C, or is about to be sent there.          *)
Carried(C) ==
    UNION {IF Worker \in C THEN prompts \cup Handled ELSE {},
           IF Main \in C THEN announced ELSE {},
           adds \cap C}

Cut(C) ==
    /\ prompts' = IF Worker \in C THEN {} ELSE prompts
    /\ announced' = IF Main \in C THEN {} ELSE announced
    /\ adds' = adds \ C

Breaks(c) ==
    /\ Fault /\ link[c] = "open"
    /\ link' = Broken({c})
    /\ Cut({c})
    /\ disturbed' = disturbed \cup Carried({c})
    /\ UNCHANGED <<url, extension, daemon, ask, shell, jobs, told, unerased, unheard>>

DaemonDies ==
    /\ Fault /\ Up
    /\ daemon' = "down"
    /\ link' = Broken(Ends)
    /\ Cut(Ends)
    /\ disturbed' = disturbed \cup Carried(Ends)
    /\ UNCHANGED <<url, extension, ask, shell, jobs, told, unerased, unheard>>

(* The browser suspends the worker, or ends.                               *)
WorkerDies ==
    /\ Fault
    /\ handler' = [d \in Items |-> "idle"]
    /\ link' = [link EXCEPT ![Worker] = "down"]
    /\ disturbed' = disturbed \cup Handled
    /\ UNCHANGED <<url, browser, prompts, announced, adds, daemon, ask, shell, jobs, told, unerased, unheard>>

(* Quit: the windows, the stash and the child go.                          *)
Quit ==
    /\ Fault /\ app
    /\ app' = FALSE
    /\ opening' = {} /\ stash' = {} /\ outbox' = {}
    /\ window' = [d \in Items |-> "none"]
    /\ LET gone == opening \cup stash \cup outbox \cup {d \in Items : window[d] = "prompt"}
           cut == IF daemon = "child" THEN Ends ELSE {Main}
       IN  /\ daemon' = IF daemon = "child" THEN "down" ELSE daemon
           /\ Cut(cut)
           /\ link' = [c \in Ends |-> IF c = Worker THEN Broken(cut)[c] ELSE "down"]
           /\ disturbed' = disturbed \cup gone \cup Carried(cut)
    /\ UNCHANGED <<url, extension, ask, jobs, told, unerased, unheard>>

-----------------------------------------------------------------------------

WorkerStep(d) == Cancelled(d) \/ CancelFails(d) \/ Erased(d) \/ EraseFails(d) \/ Send(d)
DaemonStep(d) == ReadPrompt(d) \/ ReadAdd(d)
MainStep(d) == Prompted(d) \/ stash_intent(d) \/ OpenWindow(d) \/ WindowFails(d)

Next ==
    \/ \E d \in Items :
        \/ Created(d) \/ BrowserFinishes(d) \/ Clicked(d) \/ Copied(d)
        \/ WorkerStep(d) \/ DaemonStep(d) \/ Overrun(d)
        \/ MainStep(d) \/ take_intent(d) \/ Decline(d) \/ Start(d)
    \/ \E c \in Ends : Connect(c) \/ Notice(c) \/ Breaks(c)
    \/ SetAsk \/ DaemonStarts \/ AppStarts
    \/ DaemonDies \/ WorkerDies \/ Quit

Spec == Init /\ [][Next]_vars

(* The event loops run what is ready, and timers connect again. Nobody has *)
(* to press a button, to start a process or to let the browser finish.     *)
Fairness ==
    /\ \A d \in Items :
        WF_vars(WorkerStep(d)) /\ WF_vars(DaemonStep(d)) /\ WF_vars(MainStep(d)) /\ WF_vars(take_intent(d))
    /\ \A c \in Ends : WF_vars(Connect(c)) /\ WF_vars(Notice(c))

FairSpec == Spec /\ Fairness

-----------------------------------------------------------------------------
(* Type invariant.                                                         *)
TypeOK ==
    /\ url \in [Items -> Urls]
    /\ browser \in [Items -> {"none", "loading", "done", "cancelled", "link"}]
    /\ handler \in [Items -> {"idle", "cancel", "erase", "cookies"}]
    /\ link \in [Ends -> {"down", "open", "broken"}]
    /\ daemon \in {"down", "child", "alone"}
    /\ ask \in BOOLEAN /\ app \in BOOLEAN
    /\ {prompts, announced, opening, stash, outbox, adds, jobs, told} \subseteq SUBSET Items
    /\ window \in [Items -> Popups]
    /\ {unerased, unheard, disturbed} \subseteq SUBSET Items
    /\ faults \in 0 .. MaxFaults

(* Where a download is, at each stage.                                     *)
At == [
    browser    |-> {d \in Items : browser[d] \in {"loading", "done"}},
    worker     |-> {d \in Items : handler[d] \in {"erase", "cookies"}},
    prompts    |-> prompts,
    announced  |-> announced,
    opening    |-> opening,
    stash      |-> stash \ told,
    prompt     |-> {d \in Items : window[d] = "prompt"},
    outbox     |-> outbox,
    adds       |-> adds,
    jobs       |-> jobs,
    told       |-> told]

Holders(d) == {stage \in DOMAIN At : d \in At[stage]}

(* The extension takes the URL over, or the link is sent whatever its URL  *)
(* is, and the daemon refuses it.                                          *)
Refused(d) == ~ validate_url(url[d]) /\ (url[d] \in Fetchable \/ browser[d] = "link")

(* What the code does not make good: what was on its way over a process or *)
(* connection that failed, a prompt that no main window received, an erase *)
(* that failed after the cancel, and a URL that the daemon refuses.        *)
Excused(d) == d \in disturbed \cup unheard \cup unerased \/ Refused(d)

(* A download is never in two of UDM's hands, nor in one while the browser *)
(* is still loading it, and it is in somebody's unless it is excused. One  *)
(* that the browser finished before cancel() ran is prompted for again.    *)
TakenOverIsHeld ==
    \A d \in Items : browser[d] # "none" =>
        /\ Cardinality(Holders(d) \ {"browser"}) <= 1
        /\ browser[d] = "loading" => Holders(d) = {"browser"}
        /\ Holders(d) = {} => Excused(d)

(* A download that was taken over reaches a row, a window or a person.     *)
TakenOverIsOffered ==
    \A d \in Items :
        browser[d] \in {"cancelled", "link"} \/ handler[d] = "erase" ~>
            d \in jobs \cup told \/ window[d] \in {"prompt", "downloading"} \/ Excused(d)

(* A Start that was pressed without a connection becomes a job, as soon as *)
(* a daemon stays up.                                                      *)
StartedIsQueued ==
    <>[] Up => \A d \in Items : d \in outbox ~> d \in jobs \cup disturbed
=============================================================================
