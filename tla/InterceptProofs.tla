-------------------------- MODULE InterceptProofs --------------------------
(***************************************************************************)
(* Theorems about the hand-over of downloads, for every set of items and   *)
(* any number of failures.                                                 *)
(***************************************************************************)
EXTENDS Intercept, FiniteSetTheorems, TLAPS

(* The stages of At that are in the hands of UDM.                          *)
InUdm(d) ==
    \/ handler[d] \in {"erase", "cookies"}
    \/ d \in prompts \cup announced \cup opening \cup stash \cup outbox \cup adds \cup jobs \cup told
    \/ window[d] = "prompt"

InBrowser(d) == browser[d] \in {"loading", "done"}

(* No two stages of UDM hold the item, each excludes those that follow it, *)
(* and none does before the browser has stopped loading it.                *)
OneHolder(d) ==
    /\ browser[d] = "loading" => ~ InUdm(d)
    /\ handler[d] \in {"cancel", "erase", "cookies"} =>
         /\ d \notin prompts \cup announced \cup opening \cup stash \cup outbox \cup adds \cup jobs \cup told
         /\ window[d] # "prompt"
    /\ d \in prompts =>
         /\ d \notin announced \cup opening \cup stash \cup outbox \cup adds \cup jobs \cup told
         /\ window[d] # "prompt"
    /\ d \in announced =>
         d \notin opening \cup stash \cup outbox \cup adds \cup jobs \cup told /\ window[d] # "prompt"
    /\ d \in opening => d \notin stash \cup outbox \cup adds \cup jobs \cup told /\ window[d] # "prompt"
    /\ d \in stash => d \notin outbox \cup adds \cup jobs /\ window[d] # "prompt"
    /\ window[d] = "prompt" => d \notin outbox \cup adds \cup jobs \cup told
    /\ d \in outbox => d \notin adds \cup jobs \cup told
    /\ d \in adds => d \notin jobs \cup told
    /\ d \in jobs => d \notin told

(* What UDM has was taken from the browser, or is a link; what the worker  *)
(* takes is fetchable.                                                     *)
Origin(d) ==
    /\ InUdm(d) \/ window[d] # "none" => browser[d] \in {"done", "cancelled", "link"}
    /\ handler[d] = "cancel" => InBrowser(d)
    /\ handler[d] = "cancel" \/ browser[d] = "cancelled" => url[d] \in Fetchable
    /\ window[d] = "loading" => d \in stash \ told

(* Nothing is lost silently, and what the worker handles without a working *)
(* connection is known to be disturbed.                                    *)
NotLost(d) ==
    /\ browser[d] # "none" /\ ~ InBrowser(d) /\ ~ InUdm(d) => Excused(d)
    /\ handler[d] # "idle" /\ link[Worker] # "open" => d \in disturbed

ItemInv(d) == OneHolder(d) /\ Origin(d) /\ NotLost(d)

(* The inductive invariant.                                                *)
HeldInv == TypeOK /\ \A d \in Items : ItemInv(d)

-----------------------------------------------------------------------------
(* What the invariant says of the holders.                                 *)

LEMMA HoldersOf ==
    ASSUME NEW d \in Items
    PROVE  Holders(d) =
        {stage \in {"browser", "worker", "prompts", "announced", "opening", "stash", "prompt",
                    "outbox", "adds", "jobs", "told"} :
            \/ stage = "browser" /\ InBrowser(d)
            \/ stage = "worker" /\ handler[d] \in {"erase", "cookies"}
            \/ stage = "prompts" /\ d \in prompts
            \/ stage = "announced" /\ d \in announced
            \/ stage = "opening" /\ d \in opening
            \/ stage = "stash" /\ d \in stash \ told
            \/ stage = "prompt" /\ window[d] = "prompt"
            \/ stage = "outbox" /\ d \in outbox
            \/ stage = "adds" /\ d \in adds
            \/ stage = "jobs" /\ d \in jobs
            \/ stage = "told" /\ d \in told}
BY DEF Holders, At, InBrowser

LEMMA AtMostOne ==
    ASSUME NEW S, \A x, y \in S : x = y
    PROVE  IsFiniteSet(S) /\ Cardinality(S) <= 1
<1>1. CASE S = {}
    BY <1>1, FS_EmptySet
<1>2. CASE S # {}
    <2>1. PICK x : S = {x}
        BY <1>2
    <2> QED
        <3>1. IsFiniteSet({x}) /\ Cardinality({x}) = 1
            BY FS_Singleton
        <3> QED
            BY <2>1, <3>1
<1> QED
    BY <1>1, <1>2

LEMMA HeldInvHeld == HeldInv => TakenOverIsHeld
<1> SUFFICES ASSUME HeldInv, NEW d \in Items, browser[d] # "none"
             PROVE  /\ Cardinality(Holders(d) \ {"browser"}) <= 1
                    /\ browser[d] = "loading" => Holders(d) = {"browser"}
                    /\ Holders(d) = {} => Excused(d)
    BY DEF TakenOverIsHeld
<1>1. OneHolder(d) /\ NotLost(d)
    BY DEF HeldInv, ItemInv
<1>2. \A x, y \in Holders(d) \ {"browser"} : x = y
    BY <1>1, HoldersOf DEF OneHolder, InUdm
<1>3. Holders(d) = {} => ~ InBrowser(d) /\ ~ InUdm(d)
    BY HoldersOf DEF InUdm
<1>4. browser[d] = "loading" => Holders(d) = {"browser"}
    BY <1>1, HoldersOf DEF OneHolder, InUdm, InBrowser
<1> QED
    BY <1>1, <1>2, <1>3, <1>4, AtMostOne DEF NotLost

-----------------------------------------------------------------------------
(* The types.                                                              *)

LEMMA InitType == Init => TypeOK
<1> SUFFICES ASSUME Init PROVE TypeOK
    OBVIOUS
<1>1. url \in [Items -> Urls] /\ ask \in BOOLEAN /\ app \in BOOLEAN /\ daemon \in {"down", "child", "alone"}
    BY DEF Init
<1>2. /\ browser \in [Items -> {"none", "loading", "done", "cancelled", "link"}]
      /\ handler \in [Items -> {"idle", "cancel", "erase", "cookies"}]
      /\ link \in [Ends -> {"down", "open", "broken"}]
      /\ window \in [Items -> Popups]
    BY DEF Init, Popups
<1>3. /\ {prompts, announced, opening, stash, outbox, adds, jobs, told} \subseteq SUBSET Items
      /\ {unerased, unheard, disturbed} \subseteq SUBSET Items
    BY DEF Init
<1>4. faults \in 0 .. MaxFaults
    BY BoundsAssumption DEF Init
<1> QED
    BY <1>1, <1>2, <1>3, <1>4 DEF TypeOK

LEMMA ExtensionType ==
    ASSUME TypeOK, NEW d \in Items,
           \/ Created(d) \/ BrowserFinishes(d) \/ Cancelled(d) \/ CancelFails(d)
           \/ Erased(d) \/ EraseFails(d) \/ Send(d) \/ Clicked(d)
    PROVE  TypeOK'
<1>1. UNCHANGED <<url, link, announced, adds, daemon, ask, shell, jobs, unheard, faults>>
    BY DEF Created, BrowserFinishes, Cancelled, CancelFails, Erased, EraseFails, Send, Clicked,
           net, aux, extension
<1>2. browser' \in [Items -> {"none", "loading", "done", "cancelled", "link"}]
    BY DEF TypeOK, Created, BrowserFinishes, Cancelled, CancelFails, Erased, EraseFails, Send,
           Clicked
<1>3. handler' \in [Items -> {"idle", "cancel", "erase", "cookies"}]
    BY DEF TypeOK, Created, BrowserFinishes, Cancelled, CancelFails, Erased, EraseFails, Send,
           Clicked
<1>4. {prompts', told', unerased', disturbed'} \subseteq SUBSET Items
    BY DEF TypeOK, Created, BrowserFinishes, Cancelled, CancelFails, Erased, EraseFails, Send,
           Clicked, net, aux
<1> QED
    BY <1>1, <1>2, <1>3, <1>4 DEF TypeOK, shell

LEMMA DaemonType ==
    ASSUME TypeOK,
           \/ \E d \in Items : ReadPrompt(d) \/ Overrun(d) \/ ReadAdd(d)
           \/ SetAsk \/ DaemonStarts \/ AppStarts
    PROVE  TypeOK'
<1>1. UNCHANGED <<url, browser, handler, link, opening, stash, window, outbox, told, unerased,
                  disturbed, faults>>
    BY DEF ReadPrompt, Overrun, ReadAdd, SetAsk, DaemonStarts, AppStarts, extension, shell, net, aux
<1>2. ask' \in BOOLEAN /\ app' \in BOOLEAN
    BY DEF TypeOK, ReadPrompt, Overrun, ReadAdd, SetAsk, DaemonStarts, AppStarts, shell
<1>3. daemon' \in {"down", "child", "alone"}
    BY DEF TypeOK, ReadPrompt, Overrun, ReadAdd, SetAsk, DaemonStarts, AppStarts
<1>4. {prompts', announced', adds', jobs', unheard'} \subseteq SUBSET Items
    BY DEF TypeOK, ReadPrompt, Overrun, ReadAdd, SetAsk, DaemonStarts, AppStarts, net, aux
<1> QED
    BY <1>1, <1>2, <1>3, <1>4 DEF TypeOK

LEMMA AppType ==
    ASSUME TypeOK, NEW d \in Items,
           \/ Copied(d) \/ Prompted(d) \/ stash_intent(d) \/ OpenWindow(d) \/ WindowFails(d)
           \/ take_intent(d) \/ Decline(d) \/ Start(d)
    PROVE  TypeOK'
<1>1. UNCHANGED <<url, handler, link, prompts, ask, jobs, unerased, unheard, faults>>
    BY DEF Copied, Prompted, stash_intent, OpenWindow, WindowFails, take_intent, Decline, Start,
           extension, shell, net, aux
<1>2. browser' \in [Items -> {"none", "loading", "done", "cancelled", "link"}]
      /\ daemon' \in {"down", "child", "alone"} /\ app' \in BOOLEAN
    BY DEF TypeOK, Copied, Prompted, stash_intent, OpenWindow, WindowFails, take_intent, Decline,
           Start, extension, shell
<1>3. window' \in [Items -> Popups]
    BY DEF TypeOK, Popups, Copied, Prompted, stash_intent, OpenWindow, WindowFails, take_intent,
           Decline, Start, shell
<1>4. {announced', opening', stash', outbox', adds', told', disturbed'} \subseteq SUBSET Items
    BY DEF TypeOK, Copied, Prompted, stash_intent, OpenWindow, WindowFails, take_intent, Decline,
           Start, shell, net, aux
<1> QED
    BY <1>1, <1>2, <1>3, <1>4 DEF TypeOK

LEMMA LinkType ==
    ASSUME TypeOK, NEW c \in Ends, Connect(c) \/ Notice(c)
    PROVE  TypeOK'
BY DEF TypeOK, Connect, Notice, extension, shell, net, aux

LEMMA CutType ==
    ASSUME TypeOK, NEW C, Cut(C)
    PROVE  /\ {prompts', announced', adds'} \subseteq SUBSET Items
           /\ Carried(C) \subseteq Items
           /\ Handled \subseteq Items
           /\ Broken(C) \in [Ends -> {"down", "open", "broken"}]
BY DEF TypeOK, Cut, Carried, Handled, Broken

LEMMA FaultType ==
    ASSUME TypeOK, (\E c \in Ends : Breaks(c)) \/ DaemonDies \/ WorkerDies \/ Quit
    PROVE  TypeOK'
<1>1. faults' \in 0 .. MaxFaults
    <2>1. Fault
        BY DEF Breaks, DaemonDies, WorkerDies, Quit
    <2> QED
        BY <2>1, BoundsAssumption DEF TypeOK, Fault
<1>2. ASSUME NEW c \in Ends, Breaks(c) PROVE TypeOK'
    BY <1>1, <1>2, CutType DEF TypeOK, Breaks, extension, shell
<1>3. CASE DaemonDies
    BY <1>1, <1>3, CutType DEF TypeOK, DaemonDies, extension, shell
<1>4. CASE WorkerDies
    BY <1>1, <1>4 DEF TypeOK, WorkerDies, Handled, shell
<1>5. CASE Quit
    <2>1. PICK cut \in {Ends, {Main}} :
            /\ daemon' \in {"down", daemon}
            /\ Cut(cut)
            /\ link' = [c \in Ends |-> IF c = Worker THEN Broken(cut)[c] ELSE "down"]
            /\ disturbed' = disturbed \cup opening \cup stash \cup outbox
                                \cup {d \in Items : window[d] = "prompt"} \cup Carried(cut)
        BY <1>5 DEF Quit
    <2>2. link' \in [Ends -> {"down", "open", "broken"}]
        BY <2>1, CutType
    <2>3. disturbed' \subseteq Items
        BY <2>1, CutType DEF TypeOK
    <2>4. daemon' \in {"down", "child", "alone"}
        BY <2>1 DEF TypeOK
    <2>5. /\ app' = FALSE /\ opening' = {} /\ stash' = {} /\ outbox' = {}
          /\ window' \in [Items -> Popups]
          /\ UNCHANGED <<url, browser, handler, ask, jobs, told, unerased, unheard>>
        BY <1>5 DEF Quit, Popups, extension
    <2>6. {prompts', announced', adds'} \subseteq SUBSET Items
        BY <2>1, CutType
    <2> QED
        BY <1>1, <2>2, <2>3, <2>4, <2>5, <2>6 DEF TypeOK
<1> QED
    BY <1>2, <1>3, <1>4, <1>5

LEMMA NextType == TypeOK /\ [Next]_vars => TypeOK'
<1> SUFFICES ASSUME TypeOK, [Next]_vars PROVE TypeOK'
    OBVIOUS
<1>1. CASE UNCHANGED vars
    BY <1>1 DEF vars, extension, net, shell, aux, TypeOK
<1>2. CASE Next
    BY <1>2, ExtensionType, DaemonType, AppType, LinkType, FaultType
    DEF Next, WorkerStep, DaemonStep, MainStep
<1> QED
    BY <1>1, <1>2

(* Every step keeps the types, and no connection is in a state of which it *)
(* does not recover.                                                       *)
THEOREM TypeCorrect == Spec => []TypeOK
<1> QED
    BY InitType, NextType, PTL DEF Spec

-----------------------------------------------------------------------------
(* The items. A step concerns one of them, or takes from some what was on  *)
(* its way.                                                                *)

Same(e) ==
    /\ browser'[e] = browser[e] /\ handler'[e] = handler[e] /\ window'[e] = window[e]
    /\ e \in prompts' <=> e \in prompts
    /\ e \in announced' <=> e \in announced
    /\ e \in opening' <=> e \in opening
    /\ e \in stash' <=> e \in stash
    /\ e \in outbox' <=> e \in outbox
    /\ e \in adds' <=> e \in adds
    /\ e \in jobs' <=> e \in jobs
    /\ e \in told' <=> e \in told

(* No excuse is taken back, and the worker's connection fails only with a  *)
(* trace.                                                                  *)
Excuses ==
    /\ UNCHANGED url
    /\ disturbed \subseteq disturbed' /\ unheard \subseteq unheard' /\ unerased \subseteq unerased'
    /\ link[Worker] = "open" /\ link'[Worker] # "open" =>
         \A d \in Items : handler'[d] # "idle" => d \in disturbed'

LEMMA Untouched ==
    ASSUME NEW e \in Items, ItemInv(e), Same(e), Excuses
    PROVE  ItemInv(e)'
<1>1. OneHolder(e)'
    BY DEF ItemInv, OneHolder, InBrowser, InUdm, Same
<1>2. Origin(e)'
    BY DEF ItemInv, Origin, InBrowser, InUdm, Same, Excuses
<1>3. NotLost(e)'
    BY DEF ItemInv, NotLost, InBrowser, InUdm, Excused, Refused, Same, Excuses
<1> QED
    BY <1>1, <1>2, <1>3 DEF ItemInv

LEMMA CreatedItems ==
    ASSUME HeldInv, NEW d \in Items, Created(d), NEW e \in Items
    PROVE  ItemInv(e)'
<1>1. /\ browser[d] = "none" /\ browser'[d] = "loading"
      /\ handler'[d] \in {"cancel", "idle"}
      /\ handler'[d] = "cancel" => link[Worker] # "down" /\ url[d] \in Fetchable
      /\ link[Worker] = "broken" => d \in disturbed'
      /\ \A k \in Items : k # d => browser'[k] = browser[k] /\ handler'[k] = handler[k]
    BY DEF Created, HeldInv, TypeOK, connected, shouldIntercept
<1>2. /\ UNCHANGED <<url, link, prompts, announced, opening, stash, window, outbox, adds, jobs, told,
                     unerased, unheard>>
      /\ disturbed \subseteq disturbed'
    BY DEF Created, net, shell
<1>3. ItemInv(e) /\ link[Worker] \in {"down", "open", "broken"}
    BY DEF HeldInv, TypeOK, Ends
<1>4. CASE e # d
    BY <1>1, <1>2, <1>3, <1>4, Untouched DEF Same, Excuses
<1>5. CASE e = d
    <2>1. ~ InUdm(d)' /\ window[d] = "none"
        BY <1>1, <1>2, <1>3, <1>5 DEF ItemInv, Origin, InUdm, HeldInv, TypeOK, Popups
    <2>2. InBrowser(d)'
        BY <1>1 DEF InBrowser
    <2> QED
        BY <1>1, <1>2, <1>3, <1>5, <2>1, <2>2
        DEF ItemInv, OneHolder, Origin, NotLost, InUdm, InBrowser
<1> QED
    BY <1>4, <1>5

LEMMA BrowserFinishesItems ==
    ASSUME HeldInv, NEW d \in Items, BrowserFinishes(d), NEW e \in Items
    PROVE  ItemInv(e)'
<1>1. /\ browser[d] = "loading" /\ browser'[d] = "done"
      /\ \A k \in Items : k # d => browser'[k] = browser[k]
    BY DEF BrowserFinishes, HeldInv, TypeOK
<1>2. /\ UNCHANGED <<url, link, prompts, announced, opening, stash, window, outbox, adds, jobs,
                     told, handler>>
      /\ disturbed \subseteq disturbed' /\ unheard \subseteq unheard'
      /\ unerased \subseteq unerased'
    BY DEF BrowserFinishes, extension, net, shell, aux
<1>3. ItemInv(d) /\ ItemInv(e)
    BY DEF HeldInv
<1>4. CASE e # d
    BY <1>1, <1>2, <1>3, <1>4, Untouched DEF Same, Excuses
<1>5. CASE e = d
    <2>1. OneHolder(d)'
        BY <1>1, <1>2, <1>3 DEF ItemInv, OneHolder, Origin, InUdm, InBrowser
    <2>2. Origin(d)'
        BY <1>1, <1>2, <1>3 DEF ItemInv, OneHolder, Origin, InUdm, InBrowser
    <2>3. NotLost(d)'
        BY <1>1, <1>2, <1>3
        DEF ItemInv, OneHolder, Origin, NotLost, InUdm, InBrowser, Excused, Refused
    <2> QED
        BY <1>5, <2>1, <2>2, <2>3 DEF ItemInv
<1> QED
    BY <1>4, <1>5

LEMMA CancelledItems ==
    ASSUME HeldInv, NEW d \in Items, Cancelled(d), NEW e \in Items
    PROVE  ItemInv(e)'
<1>1. /\ handler[d] = "cancel" /\ handler'[d] = "erase"
      /\ browser'[d] = IF browser[d] = "loading" THEN "cancelled" ELSE browser[d]
      /\ \A k \in Items : k # d => browser'[k] = browser[k] /\ handler'[k] = handler[k]
    BY DEF Cancelled, HeldInv, TypeOK
<1>2. /\ UNCHANGED <<url, link, prompts, announced, opening, stash, window, outbox, adds, jobs,
                     told>>
      /\ disturbed \subseteq disturbed' /\ unheard \subseteq unheard'
      /\ unerased \subseteq unerased'
    BY DEF Cancelled, extension, net, shell, aux
<1>3. ItemInv(d) /\ ItemInv(e)
    BY DEF HeldInv
<1>4. CASE e # d
    BY <1>1, <1>2, <1>3, <1>4, Untouched DEF Same, Excuses
<1>5. CASE e = d
    <2>1. OneHolder(d)'
        BY <1>1, <1>2, <1>3 DEF ItemInv, OneHolder, Origin, InUdm, InBrowser
    <2>2. Origin(d)'
        BY <1>1, <1>2, <1>3 DEF ItemInv, OneHolder, Origin, InUdm, InBrowser
    <2>3. NotLost(d)'
        BY <1>1, <1>2, <1>3
        DEF ItemInv, OneHolder, Origin, NotLost, InUdm, InBrowser, Excused, Refused
    <2> QED
        BY <1>5, <2>1, <2>2, <2>3 DEF ItemInv
<1> QED
    BY <1>4, <1>5

LEMMA HandlerEndsItems ==
    ASSUME HeldInv, NEW d \in Items, CancelFails(d) \/ EraseFails(d), NEW e \in Items
    PROVE  ItemInv(e)'
<1>1. /\ handler'[d] = "idle"
      /\ handler[d] = "cancel" \/ (handler[d] = "erase" /\ d \in unerased')
      /\ \A k \in Items : k # d => handler'[k] = handler[k]
    BY DEF CancelFails, EraseFails, HeldInv, TypeOK
<1>2. /\ UNCHANGED <<url, link, prompts, announced, opening, stash, window, outbox, adds, jobs,
                     told, browser>>
      /\ disturbed \subseteq disturbed' /\ unheard \subseteq unheard'
      /\ unerased \subseteq unerased'
    BY DEF CancelFails, EraseFails, extension, net, shell, aux
<1>3. ItemInv(d) /\ ItemInv(e)
    BY DEF HeldInv
<1>4. CASE e # d
    BY <1>1, <1>2, <1>3, <1>4, Untouched DEF Same, Excuses
<1>5. CASE e = d
    <2>1. OneHolder(d)'
        BY <1>1, <1>2, <1>3 DEF ItemInv, OneHolder, Origin, InUdm, InBrowser
    <2>2. Origin(d)'
        BY <1>1, <1>2, <1>3 DEF ItemInv, OneHolder, Origin, InUdm, InBrowser
    <2>3. NotLost(d)'
        BY <1>1, <1>2, <1>3
        DEF ItemInv, OneHolder, Origin, NotLost, InUdm, InBrowser, Excused, Refused
    <2> QED
        BY <1>5, <2>1, <2>2, <2>3 DEF ItemInv
<1> QED
    BY <1>4, <1>5

LEMMA ErasedItems ==
    ASSUME HeldInv, NEW d \in Items, Erased(d), NEW e \in Items
    PROVE  ItemInv(e)'
<1>1. /\ handler[d] = "erase" /\ handler'[d] = "cookies"
      /\ \A k \in Items : k # d => handler'[k] = handler[k]
    BY DEF Erased, HeldInv, TypeOK
<1>2. /\ UNCHANGED <<url, link, prompts, announced, opening, stash, window, outbox, adds, jobs,
                     told, browser>>
      /\ disturbed \subseteq disturbed' /\ unheard \subseteq unheard'
      /\ unerased \subseteq unerased'
    BY DEF Erased, extension, net, shell, aux
<1>3. ItemInv(d) /\ ItemInv(e)
    BY DEF HeldInv
<1>4. CASE e # d
    BY <1>1, <1>2, <1>3, <1>4, Untouched DEF Same, Excuses
<1>5. CASE e = d
    <2>1. OneHolder(d)'
        BY <1>1, <1>2, <1>3 DEF ItemInv, OneHolder, Origin, InUdm, InBrowser
    <2>2. Origin(d)'
        BY <1>1, <1>2, <1>3 DEF ItemInv, OneHolder, Origin, InUdm, InBrowser
    <2>3. NotLost(d)'
        BY <1>1, <1>2, <1>3
        DEF ItemInv, OneHolder, Origin, NotLost, InUdm, InBrowser, Excused, Refused
    <2> QED
        BY <1>5, <2>1, <2>2, <2>3 DEF ItemInv
<1> QED
    BY <1>4, <1>5

(* What a worker without a connection does not send was disturbed before.  *)
LEMMA SendItems ==
    ASSUME HeldInv, NEW d \in Items, Send(d), NEW e \in Items
    PROVE  ItemInv(e)'
<1>1. /\ handler[d] = "cookies" /\ handler'[d] = "idle"
      /\ prompts' = IF link[Worker] = "open" THEN prompts \cup {d} ELSE prompts
      /\ \A k \in Items : k # d => handler'[k] = handler[k]
    BY DEF Send, HeldInv, TypeOK
<1>2. /\ UNCHANGED <<url, link, announced, opening, stash, window, outbox, adds, jobs, told,
                     browser>>
      /\ disturbed \subseteq disturbed' /\ unheard \subseteq unheard'
      /\ unerased \subseteq unerased'
    BY DEF Send, extension, net, shell, aux
<1>3. ItemInv(d) /\ ItemInv(e)
    BY DEF HeldInv
<1>4. CASE e # d
    BY <1>1, <1>2, <1>3, <1>4, Untouched DEF Same, Excuses
<1>5. CASE e = d
    <2>1. OneHolder(d)'
        BY <1>1, <1>2, <1>3 DEF ItemInv, OneHolder, Origin, InUdm, InBrowser
    <2>2. Origin(d)'
        BY <1>1, <1>2, <1>3 DEF ItemInv, OneHolder, Origin, InUdm, InBrowser
    <2>3. NotLost(d)'
        BY <1>1, <1>2, <1>3
        DEF ItemInv, OneHolder, Origin, NotLost, InUdm, InBrowser, Excused, Refused
    <2> QED
        BY <1>5, <2>1, <2>2, <2>3 DEF ItemInv
<1> QED
    BY <1>4, <1>5

LEMMA ClickedItems ==
    ASSUME HeldInv, NEW d \in Items, Clicked(d), NEW e \in Items
    PROVE  ItemInv(e)'
<1>1. /\ browser[d] = "none" /\ browser'[d] = "link"
      /\ \/ link[Worker] # "down" /\ handler'[d] = "cookies" /\ told' = told
         \/ told' = told \cup {d} /\ handler' = handler
      /\ link[Worker] = "broken" => d \in disturbed'
      /\ link[Worker] \in {"down", "open", "broken"}
      /\ \A k \in Items : k # d => browser'[k] = browser[k] /\ handler'[k] = handler[k]
    BY DEF Clicked, connected, HeldInv, TypeOK, Ends
<1>2. /\ UNCHANGED <<url, link, prompts, announced, opening, stash, window, outbox, adds, jobs>>
      /\ disturbed \subseteq disturbed' /\ unheard \subseteq unheard'
      /\ unerased \subseteq unerased'
    BY DEF Clicked, connected, extension, net, shell, aux
<1>3. ItemInv(d) /\ ItemInv(e)
    BY DEF HeldInv
<1>4. CASE e # d
    BY <1>1, <1>2, <1>3, <1>4, Untouched DEF Same, Excuses
<1>5. CASE e = d
    <2>1. OneHolder(d)'
        BY <1>1, <1>2, <1>3 DEF ItemInv, OneHolder, Origin, InUdm, InBrowser
    <2>2. Origin(d)'
        BY <1>1, <1>2, <1>3 DEF ItemInv, OneHolder, Origin, InUdm, InBrowser
    <2>3. NotLost(d)'
        BY <1>1, <1>2, <1>3
        DEF ItemInv, OneHolder, Origin, NotLost, InUdm, InBrowser, Excused, Refused
    <2> QED
        BY <1>5, <2>1, <2>2, <2>3 DEF ItemInv
<1> QED
    BY <1>4, <1>5

LEMMA ReadPromptItems ==
    ASSUME HeldInv, NEW d \in Items, ReadPrompt(d), NEW e \in Items
    PROVE  ItemInv(e)'
<1>1. /\ d \in prompts /\ prompts' = prompts \ {d}
      /\ \/ ~ validate_url(url[d]) /\ UNCHANGED <<announced, jobs>>
         \/ jobs' = jobs \cup {d} /\ UNCHANGED announced
         \/ announced' = announced \cup {d} /\ UNCHANGED jobs
         \/ d \in unheard' /\ UNCHANGED <<announced, jobs>>
    BY DEF ReadPrompt, HeldInv, TypeOK
<1>2. /\ UNCHANGED <<url, link, opening, stash, window, outbox, adds, told, browser, handler>>
      /\ disturbed \subseteq disturbed' /\ unheard \subseteq unheard'
      /\ unerased \subseteq unerased'
    BY DEF ReadPrompt, extension, net, shell, aux
<1>3. ItemInv(d) /\ ItemInv(e)
    BY DEF HeldInv
<1>4. CASE e # d
    BY <1>1, <1>2, <1>3, <1>4, Untouched DEF Same, Excuses
<1>5. CASE e = d
    <2>1. OneHolder(d)'
        BY <1>1, <1>2, <1>3 DEF ItemInv, OneHolder, Origin, InUdm, InBrowser
    <2>2. Origin(d)'
        BY <1>1, <1>2, <1>3 DEF ItemInv, OneHolder, Origin, InUdm, InBrowser
    <2>3. NotLost(d)'
        BY <1>1, <1>2, <1>3
        DEF ItemInv, OneHolder, Origin, NotLost, InUdm, InBrowser, Excused, Refused
    <2> QED
        BY <1>5, <2>1, <2>2, <2>3 DEF ItemInv
<1> QED
    BY <1>4, <1>5

LEMMA OverrunItems ==
    ASSUME HeldInv, NEW d \in Items, Overrun(d), NEW e \in Items
    PROVE  ItemInv(e)'
<1>1. /\ d \in announced /\ announced' = announced \ {d}
      /\ d \in unheard'
    BY DEF Overrun, HeldInv, TypeOK
<1>2. /\ UNCHANGED <<url, link, prompts, opening, stash, window, outbox, adds, jobs, told,
                     browser, handler>>
      /\ disturbed \subseteq disturbed' /\ unheard \subseteq unheard'
      /\ unerased \subseteq unerased'
    BY DEF Overrun, extension, net, shell, aux
<1>3. ItemInv(d) /\ ItemInv(e)
    BY DEF HeldInv
<1>4. CASE e # d
    BY <1>1, <1>2, <1>3, <1>4, Untouched DEF Same, Excuses
<1>5. CASE e = d
    <2>1. OneHolder(d)'
        BY <1>1, <1>2, <1>3 DEF ItemInv, OneHolder, Origin, InUdm, InBrowser
    <2>2. Origin(d)'
        BY <1>1, <1>2, <1>3 DEF ItemInv, OneHolder, Origin, InUdm, InBrowser
    <2>3. NotLost(d)'
        BY <1>1, <1>2, <1>3
        DEF ItemInv, OneHolder, Origin, NotLost, InUdm, InBrowser, Excused, Refused
    <2> QED
        BY <1>5, <2>1, <2>2, <2>3 DEF ItemInv
<1> QED
    BY <1>4, <1>5

LEMMA ReadAddItems ==
    ASSUME HeldInv, NEW d \in Items, ReadAdd(d), NEW e \in Items
    PROVE  ItemInv(e)'
<1>1. /\ d \in adds /\ adds' = adds \ {d}
      /\ jobs' = IF validate_url(url[d]) THEN jobs \cup {d} ELSE jobs
    BY DEF ReadAdd, HeldInv, TypeOK
<1>2. /\ UNCHANGED <<url, link, prompts, announced, opening, stash, window, outbox, told,
                     browser, handler>>
      /\ disturbed \subseteq disturbed' /\ unheard \subseteq unheard'
      /\ unerased \subseteq unerased'
    BY DEF ReadAdd, extension, net, shell, aux
<1>3. ItemInv(d) /\ ItemInv(e)
    BY DEF HeldInv
<1>4. CASE e # d
    BY <1>1, <1>2, <1>3, <1>4, Untouched DEF Same, Excuses
<1>5. CASE e = d
    <2>1. OneHolder(d)'
        BY <1>1, <1>2, <1>3 DEF ItemInv, OneHolder, Origin, InUdm, InBrowser
    <2>2. Origin(d)'
        BY <1>1, <1>2, <1>3 DEF ItemInv, OneHolder, Origin, InUdm, InBrowser
    <2>3. NotLost(d)'
        BY <1>1, <1>2, <1>3
        DEF ItemInv, OneHolder, Origin, NotLost, InUdm, InBrowser, Excused, Refused
    <2> QED
        BY <1>5, <2>1, <2>2, <2>3 DEF ItemInv
<1> QED
    BY <1>4, <1>5

LEMMA CopiedItems ==
    ASSUME HeldInv, NEW d \in Items, Copied(d), NEW e \in Items
    PROVE  ItemInv(e)'
<1>1. /\ browser[d] = "none" /\ browser'[d] = "link"
      /\ opening' = opening \cup {d}
      /\ \A k \in Items : k # d => browser'[k] = browser[k]
    BY DEF Copied, HeldInv, TypeOK
<1>2. /\ UNCHANGED <<url, link, prompts, announced, stash, window, outbox, adds, jobs, told,
                     handler>>
      /\ disturbed \subseteq disturbed' /\ unheard \subseteq unheard'
      /\ unerased \subseteq unerased'
    BY DEF Copied, extension, net, shell, aux
<1>3. ItemInv(d) /\ ItemInv(e)
    BY DEF HeldInv
<1>4. CASE e # d
    BY <1>1, <1>2, <1>3, <1>4, Untouched DEF Same, Excuses
<1>5. CASE e = d
    <2>1. OneHolder(d)'
        BY <1>1, <1>2, <1>3 DEF ItemInv, OneHolder, Origin, InUdm, InBrowser
    <2>2. Origin(d)'
        BY <1>1, <1>2, <1>3 DEF ItemInv, OneHolder, Origin, InUdm, InBrowser
    <2>3. NotLost(d)'
        BY <1>1, <1>2, <1>3
        DEF ItemInv, OneHolder, Origin, NotLost, InUdm, InBrowser, Excused, Refused
    <2> QED
        BY <1>5, <2>1, <2>2, <2>3 DEF ItemInv
<1> QED
    BY <1>4, <1>5

LEMMA PromptedItems ==
    ASSUME HeldInv, NEW d \in Items, Prompted(d), NEW e \in Items
    PROVE  ItemInv(e)'
<1>1. /\ d \in announced /\ announced' = announced \ {d}
      /\ opening' = opening \cup {d}
    BY DEF Prompted, HeldInv, TypeOK
<1>2. /\ UNCHANGED <<url, link, prompts, stash, window, outbox, adds, jobs, told, browser, handler>>
      /\ disturbed \subseteq disturbed' /\ unheard \subseteq unheard'
      /\ unerased \subseteq unerased'
    BY DEF Prompted, extension, net, shell, aux
<1>3. ItemInv(d) /\ ItemInv(e)
    BY DEF HeldInv
<1>4. CASE e # d
    BY <1>1, <1>2, <1>3, <1>4, Untouched DEF Same, Excuses
<1>5. CASE e = d
    <2>1. OneHolder(d)'
        BY <1>1, <1>2, <1>3 DEF ItemInv, OneHolder, Origin, InUdm, InBrowser
    <2>2. Origin(d)'
        BY <1>1, <1>2, <1>3 DEF ItemInv, OneHolder, Origin, InUdm, InBrowser
    <2>3. NotLost(d)'
        BY <1>1, <1>2, <1>3
        DEF ItemInv, OneHolder, Origin, NotLost, InUdm, InBrowser, Excused, Refused
    <2> QED
        BY <1>5, <2>1, <2>2, <2>3 DEF ItemInv
<1> QED
    BY <1>4, <1>5

LEMMA StashItems ==
    ASSUME HeldInv, NEW d \in Items, stash_intent(d), NEW e \in Items
    PROVE  ItemInv(e)'
<1>1. /\ d \in opening /\ opening' = opening \ {d}
      /\ stash' = stash \cup {d}
    BY DEF stash_intent, HeldInv, TypeOK
<1>2. /\ UNCHANGED <<url, link, prompts, announced, window, outbox, adds, jobs, told, browser,
                     handler>>
      /\ disturbed \subseteq disturbed' /\ unheard \subseteq unheard'
      /\ unerased \subseteq unerased'
    BY DEF stash_intent, extension, net, shell, aux
<1>3. ItemInv(d) /\ ItemInv(e)
    BY DEF HeldInv
<1>4. CASE e # d
    BY <1>1, <1>2, <1>3, <1>4, Untouched DEF Same, Excuses
<1>5. CASE e = d
    <2>1. OneHolder(d)'
        BY <1>1, <1>2, <1>3 DEF ItemInv, OneHolder, Origin, InUdm, InBrowser
    <2>2. Origin(d)'
        BY <1>1, <1>2, <1>3 DEF ItemInv, OneHolder, Origin, InUdm, InBrowser
    <2>3. NotLost(d)'
        BY <1>1, <1>2, <1>3
        DEF ItemInv, OneHolder, Origin, NotLost, InUdm, InBrowser, Excused, Refused
    <2> QED
        BY <1>5, <2>1, <2>2, <2>3 DEF ItemInv
<1> QED
    BY <1>4, <1>5

LEMMA OpenWindowItems ==
    ASSUME HeldInv, NEW d \in Items, OpenWindow(d), NEW e \in Items
    PROVE  ItemInv(e)'
<1>1. /\ d \in stash \ told /\ window'[d] = "loading"
      /\ window[d] = "none"
      /\ \A k \in Items : k # d => window'[k] = window[k]
    BY DEF OpenWindow, HeldInv, TypeOK
<1>2. /\ UNCHANGED <<url, link, prompts, announced, opening, stash, outbox, adds, jobs, told,
                     browser, handler>>
      /\ disturbed \subseteq disturbed' /\ unheard \subseteq unheard'
      /\ unerased \subseteq unerased'
    BY DEF OpenWindow, extension, net, shell, aux
<1>3. ItemInv(d) /\ ItemInv(e)
    BY DEF HeldInv
<1>4. CASE e # d
    BY <1>1, <1>2, <1>3, <1>4, Untouched DEF Same, Excuses
<1>5. CASE e = d
    <2>1. OneHolder(d)'
        BY <1>1, <1>2, <1>3 DEF ItemInv, OneHolder, Origin, InUdm, InBrowser
    <2>2. Origin(d)'
        BY <1>1, <1>2, <1>3 DEF ItemInv, OneHolder, Origin, InUdm, InBrowser
    <2>3. NotLost(d)'
        BY <1>1, <1>2, <1>3
        DEF ItemInv, OneHolder, Origin, NotLost, InUdm, InBrowser, Excused, Refused
    <2> QED
        BY <1>5, <2>1, <2>2, <2>3 DEF ItemInv
<1> QED
    BY <1>4, <1>5

LEMMA WindowFailsItems ==
    ASSUME HeldInv, NEW d \in Items, WindowFails(d), NEW e \in Items
    PROVE  ItemInv(e)'
<1>1. /\ d \in stash \ told /\ told' = told \cup {d}
      /\ window[d] = "none"
    BY DEF WindowFails, HeldInv, TypeOK
<1>2. /\ UNCHANGED <<url, link, prompts, announced, opening, stash, window, outbox, adds, jobs,
                     browser, handler>>
      /\ disturbed \subseteq disturbed' /\ unheard \subseteq unheard'
      /\ unerased \subseteq unerased'
    BY DEF WindowFails, extension, net, shell, aux
<1>3. ItemInv(d) /\ ItemInv(e)
    BY DEF HeldInv
<1>4. CASE e # d
    BY <1>1, <1>2, <1>3, <1>4, Untouched DEF Same, Excuses
<1>5. CASE e = d
    <2>1. OneHolder(d)'
        BY <1>1, <1>2, <1>3 DEF ItemInv, OneHolder, Origin, InUdm, InBrowser
    <2>2. Origin(d)'
        BY <1>1, <1>2, <1>3 DEF ItemInv, OneHolder, Origin, InUdm, InBrowser
    <2>3. NotLost(d)'
        BY <1>1, <1>2, <1>3
        DEF ItemInv, OneHolder, Origin, NotLost, InUdm, InBrowser, Excused, Refused
    <2> QED
        BY <1>5, <2>1, <2>2, <2>3 DEF ItemInv
<1> QED
    BY <1>4, <1>5

(* The popup that loads finds its intent in the stash.                     *)
LEMMA TakeItems ==
    ASSUME HeldInv, NEW d \in Items, take_intent(d), NEW e \in Items
    PROVE  ItemInv(e)'
<1>1. /\ window[d] = "loading"
      /\ window'[d] = IF d \in stash THEN "prompt" ELSE "missing"
      /\ stash' = stash \ {d}
      /\ \A k \in Items : k # d => window'[k] = window[k]
    BY DEF take_intent, HeldInv, TypeOK
<1>2. /\ UNCHANGED <<url, link, prompts, announced, opening, outbox, adds, jobs, told, browser,
                     handler>>
      /\ disturbed \subseteq disturbed' /\ unheard \subseteq unheard'
      /\ unerased \subseteq unerased'
    BY DEF take_intent, extension, net, shell, aux
<1>3. ItemInv(d) /\ ItemInv(e)
    BY DEF HeldInv
<1>4. CASE e # d
    BY <1>1, <1>2, <1>3, <1>4, Untouched DEF Same, Excuses
<1>5. CASE e = d
    <2>1. OneHolder(d)'
        BY <1>1, <1>2, <1>3 DEF ItemInv, OneHolder, Origin, InUdm, InBrowser
    <2>2. Origin(d)'
        BY <1>1, <1>2, <1>3 DEF ItemInv, OneHolder, Origin, InUdm, InBrowser
    <2>3. NotLost(d)'
        BY <1>1, <1>2, <1>3
        DEF ItemInv, OneHolder, Origin, NotLost, InUdm, InBrowser, Excused, Refused
    <2> QED
        BY <1>5, <2>1, <2>2, <2>3 DEF ItemInv
<1> QED
    BY <1>4, <1>5

LEMMA DeclineItems ==
    ASSUME HeldInv, NEW d \in Items, Decline(d), NEW e \in Items
    PROVE  ItemInv(e)'
<1>1. /\ window[d] = "prompt" /\ window'[d] = "hidden"
      /\ told' = told \cup {d}
      /\ \A k \in Items : k # d => window'[k] = window[k]
    BY DEF Decline, HeldInv, TypeOK
<1>2. /\ UNCHANGED <<url, link, prompts, announced, opening, stash, outbox, adds, jobs, browser,
                     handler>>
      /\ disturbed \subseteq disturbed' /\ unheard \subseteq unheard'
      /\ unerased \subseteq unerased'
    BY DEF Decline, extension, net, shell, aux
<1>3. ItemInv(d) /\ ItemInv(e)
    BY DEF HeldInv
<1>4. CASE e # d
    BY <1>1, <1>2, <1>3, <1>4, Untouched DEF Same, Excuses
<1>5. CASE e = d
    <2>1. OneHolder(d)'
        BY <1>1, <1>2, <1>3 DEF ItemInv, OneHolder, Origin, InUdm, InBrowser
    <2>2. Origin(d)'
        BY <1>1, <1>2, <1>3 DEF ItemInv, OneHolder, Origin, InUdm, InBrowser
    <2>3. NotLost(d)'
        BY <1>1, <1>2, <1>3
        DEF ItemInv, OneHolder, Origin, NotLost, InUdm, InBrowser, Excused, Refused
    <2> QED
        BY <1>5, <2>1, <2>2, <2>3 DEF ItemInv
<1> QED
    BY <1>4, <1>5

LEMMA StartItems ==
    ASSUME HeldInv, NEW d \in Items, Start(d), NEW e \in Items
    PROVE  ItemInv(e)'
<1>1. /\ window[d] = "prompt" /\ window'[d] = "downloading"
      /\ \/ adds' = adds \cup {d} /\ UNCHANGED outbox
         \/ outbox' = outbox \cup {d} /\ UNCHANGED adds
         \/ d \in disturbed' /\ UNCHANGED <<adds, outbox>>
      /\ \A k \in Items : k # d => window'[k] = window[k]
    BY DEF Start, Ends, HeldInv, TypeOK
<1>2. /\ UNCHANGED <<url, link, prompts, announced, opening, stash, jobs, told, browser, handler>>
      /\ disturbed \subseteq disturbed' /\ unheard \subseteq unheard'
      /\ unerased \subseteq unerased'
    BY DEF Start, Ends, extension, net, shell, aux
<1>3. ItemInv(d) /\ ItemInv(e)
    BY DEF HeldInv
<1>4. CASE e # d
    BY <1>1, <1>2, <1>3, <1>4, Untouched DEF Same, Excuses
<1>5. CASE e = d
    <2>1. OneHolder(d)'
        BY <1>1, <1>2, <1>3 DEF ItemInv, OneHolder, Origin, InUdm, InBrowser
    <2>2. Origin(d)'
        BY <1>1, <1>2, <1>3 DEF ItemInv, OneHolder, Origin, InUdm, InBrowser
    <2>3. NotLost(d)'
        BY <1>1, <1>2, <1>3
        DEF ItemInv, OneHolder, Origin, NotLost, InUdm, InBrowser, Excused, Refused
    <2> QED
        BY <1>5, <2>1, <2>2, <2>3 DEF ItemInv
<1> QED
    BY <1>4, <1>5

(* Steps that concern no item.                                             *)
LEMMA OtherItems ==
    ASSUME HeldInv, SetAsk \/ DaemonStarts \/ AppStarts \/ UNCHANGED vars, NEW e \in Items
    PROVE  ItemInv(e)'
<1>1. UNCHANGED <<url, link, prompts, announced, opening, stash, window, outbox, adds, jobs, told,
                  browser, handler, unerased, unheard, disturbed>>
    BY DEF SetAsk, DaemonStarts, AppStarts, vars, extension, net, shell, aux
<1>2. Same(e) /\ Excuses
    BY <1>1 DEF Same, Excuses
<1> QED
    BY <1>2, Untouched DEF HeldInv

(* A popup that connects sends what waits in its outbox.                   *)
LEMMA ConnectItems ==
    ASSUME HeldInv, NEW c \in Ends, Connect(c), NEW e \in Items
    PROVE  ItemInv(e)'
<1>1. /\ outbox' = outbox \ {c} /\ adds' = adds \cup (outbox \cap {c})
      /\ link[c] = "down" /\ link' = [link EXCEPT ![c] = "open"]
      /\ UNCHANGED <<url, prompts, announced, opening, stash, window, jobs, told,
                     browser, handler, unerased, unheard, disturbed>>
    BY DEF Connect, extension, aux
<1>2. link'[Worker] # "open" => link'[Worker] = link[Worker]
    BY <1>1 DEF HeldInv, TypeOK, Ends
<1>3. ItemInv(e)
    BY DEF HeldInv
<1>4. OneHolder(e)'
    BY <1>1, <1>3 DEF ItemInv, OneHolder, InBrowser, InUdm
<1>5. Origin(e)'
    BY <1>1, <1>3 DEF ItemInv, Origin, InBrowser, InUdm
<1>6. NotLost(e)'
    BY <1>1, <1>2, <1>3 DEF ItemInv, NotLost, InBrowser, InUdm, Excused, Refused
<1> QED
    BY <1>4, <1>5, <1>6 DEF ItemInv

LEMMA NoticeItems ==
    ASSUME HeldInv, NEW c \in Ends, Notice(c), NEW e \in Items
    PROVE  ItemInv(e)'
<1>1. /\ link[c] = "broken" /\ link' = [link EXCEPT ![c] = "down"]
      /\ UNCHANGED <<url, prompts, announced, opening, stash, window, outbox, adds, jobs, told,
                     browser, handler, unerased, unheard, disturbed>>
    BY DEF Notice, extension, net, shell, aux
<1>2. link[Worker] = "open" => link'[Worker] = "open"
    BY <1>1 DEF HeldInv, TypeOK, Ends
<1>3. Same(e) /\ Excuses
    BY <1>1, <1>2 DEF Same, Excuses
<1> QED
    BY <1>3, Untouched DEF HeldInv

(* What is taken from an item by a failure is an excuse for it.            *)
Dropped(e) ==
    /\ browser'[e] = browser[e]
    /\ handler'[e] \in {handler[e], "idle"} /\ window'[e] \in {window[e], "none"}
    /\ e \in prompts' => e \in prompts
    /\ e \in announced' => e \in announced
    /\ e \in opening' => e \in opening
    /\ e \in stash' => e \in stash
    /\ e \in outbox' => e \in outbox
    /\ e \in adds' => e \in adds
    /\ e \in jobs' <=> e \in jobs
    /\ e \in told' <=> e \in told
    /\ window'[e] = "loading" => e \in stash'
    /\ InUdm(e) => InUdm(e)' \/ e \in disturbed'

LEMMA FaultItems ==
    ASSUME NEW e \in Items, ItemInv(e), Dropped(e), Excuses
    PROVE  ItemInv(e)'
<1>1. OneHolder(e)'
    BY DEF ItemInv, OneHolder, InBrowser, InUdm, Dropped
<1>2. Origin(e)'
    BY DEF ItemInv, Origin, InBrowser, InUdm, Dropped, Excuses
<1>3. ~ InUdm(e)' /\ InUdm(e) => e \in disturbed'
    BY DEF Dropped
<1>4. NotLost(e)'
    BY <1>3 DEF ItemInv, NotLost, InBrowser, Excused, Refused, Dropped, Excuses
<1> QED
    BY <1>1, <1>2, <1>4 DEF ItemInv

LEMMA CutItems ==
    ASSUME NEW e \in Items, NEW C, Cut(C)
    PROVE  /\ e \in prompts' => e \in prompts
           /\ e \in announced' => e \in announced
           /\ e \in adds' => e \in adds
           /\ e \in prompts \cup announced \cup adds =>
                e \in prompts' \cup announced' \cup adds' \cup Carried(C)
BY DEF Cut, Carried

LEMMA BreaksItems ==
    ASSUME HeldInv, (\E c \in Ends : Breaks(c)) \/ DaemonDies, NEW e \in Items
    PROVE  ItemInv(e)'
<1>1. PICK C \in SUBSET Ends :
        /\ link' = Broken(C) /\ Cut(C) /\ disturbed' = disturbed \cup Carried(C)
        /\ UNCHANGED <<url, browser, handler, opening, stash, window, outbox, jobs, told,
                       unerased, unheard>>
    BY DEF Breaks, DaemonDies, extension, shell
<1>2. link[Worker] = "open" /\ link'[Worker] # "open" => Worker \in C
    BY <1>1 DEF Broken, Ends
<1>3. Excuses
    BY <1>1, <1>2 DEF Excuses, Carried, Handled
<1>4. Dropped(e)
    BY <1>1, CutItems DEF Dropped, InUdm, HeldInv, ItemInv, Origin
<1> QED
    BY <1>3, <1>4, FaultItems DEF HeldInv

LEMMA WorkerDiesItems ==
    ASSUME HeldInv, WorkerDies, NEW e \in Items
    PROVE  ItemInv(e)'
<1>1. /\ handler' = [d \in Items |-> "idle"]
      /\ disturbed' = disturbed \cup {d \in Items : handler[d] # "idle"}
      /\ UNCHANGED <<url, browser, prompts, announced, adds, opening, stash, window, outbox, jobs, told,
                     unerased, unheard>>
    BY DEF WorkerDies, Handled, shell
<1>2. Excuses
    BY <1>1 DEF Excuses
<1>3. Dropped(e)
    BY <1>1 DEF Dropped, InUdm, HeldInv, ItemInv, Origin
<1> QED
    BY <1>2, <1>3, FaultItems DEF HeldInv

LEMMA QuitItems ==
    ASSUME HeldInv, Quit, NEW e \in Items
    PROVE  ItemInv(e)'
<1>1. PICK cut \in {Ends, {Main}} :
        /\ Cut(cut)
        /\ link' = [c \in Ends |-> IF c = Worker THEN Broken(cut)[c] ELSE "down"]
        /\ disturbed' = disturbed \cup opening \cup stash \cup outbox
                            \cup {d \in Items : window[d] = "prompt"} \cup Carried(cut)
    BY DEF Quit
<1>2. /\ opening' = {} /\ stash' = {} /\ outbox' = {} /\ window' = [d \in Items |-> "none"]
      /\ UNCHANGED <<url, browser, handler, jobs, told, unerased, unheard>>
    BY DEF Quit, extension
<1>3. link[Worker] = "open" /\ link'[Worker] # "open" => Worker \in cut
    BY <1>1 DEF Broken, Ends
<1>4. Excuses
    BY <1>1, <1>2, <1>3 DEF Excuses, Carried, Handled
<1>5. Dropped(e)
    BY <1>1, <1>2, CutItems DEF Dropped, InUdm
<1> QED
    BY <1>4, <1>5, FaultItems DEF HeldInv

LEMMA InitHeldInv == Init => HeldInv
<1> SUFFICES ASSUME Init, NEW d \in Items PROVE ItemInv(d)
    BY InitType DEF HeldInv
<1> QED
    BY DEF Init, ItemInv, OneHolder, Origin, NotLost, InUdm, InBrowser

LEMMA NextHeldInv == HeldInv /\ [Next]_vars => HeldInv'
<1> SUFFICES ASSUME HeldInv, [Next]_vars, NEW e \in Items PROVE ItemInv(e)'
    BY NextType DEF HeldInv
<1>1. ASSUME NEW d \in Items,
             Created(d) \/ BrowserFinishes(d) \/ WorkerStep(d) \/ Clicked(d)
      PROVE  ItemInv(e)'
    BY <1>1, CreatedItems, BrowserFinishesItems, CancelledItems, HandlerEndsItems, ErasedItems, SendItems,
       ClickedItems DEF WorkerStep
<1>2. ASSUME NEW d \in Items, DaemonStep(d) \/ Overrun(d) PROVE ItemInv(e)'
    BY <1>2, ReadPromptItems, OverrunItems, ReadAddItems DEF DaemonStep
<1>3. ASSUME NEW d \in Items,
             Copied(d) \/ MainStep(d) \/ take_intent(d) \/ Decline(d) \/ Start(d)
      PROVE  ItemInv(e)'
    BY <1>3, CopiedItems, PromptedItems, StashItems, OpenWindowItems, WindowFailsItems, TakeItems,
       DeclineItems, StartItems DEF MainStep
<1>4. ASSUME NEW c \in Ends, Connect(c) \/ Notice(c) PROVE ItemInv(e)'
    BY <1>4, ConnectItems, NoticeItems
<1>5. CASE (\E c \in Ends : Breaks(c)) \/ DaemonDies
    BY <1>5, BreaksItems
<1>6. CASE WorkerDies
    BY <1>6, WorkerDiesItems
<1>7. CASE Quit
    BY <1>7, QuitItems
<1>8. CASE SetAsk \/ DaemonStarts \/ AppStarts \/ UNCHANGED vars
    BY <1>8, OtherItems
<1> QED
    BY <1>1, <1>2, <1>3, <1>4, <1>5, <1>6, <1>7, <1>8 DEF Next

LEMMA HeldInvInductive == Spec => []HeldInv
<1> QED
    BY InitHeldInv, NextHeldInv, PTL DEF Spec

(* A download that the extension or the clipboard brings in is never in    *)
(* two of UDM's hands at once, nor in one while the browser loads it, and  *)
(* it goes nowhere only for one of the reasons that Excused lists: for any *)
(* number of downloads, and of failures of processes and connections at    *)
(* any point of the way. The browser's finished file is not a second hand  *)
(* that the statement excludes: the extension prompts for it again.        *)
THEOREM NeverInTwoHands == Spec => []TakenOverIsHeld
<1> QED
    BY HeldInvInductive, HeldInvHeld, PTL
=============================================================================
