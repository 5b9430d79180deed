---------------------------- MODULE TokenBucket ----------------------------
(***************************************************************************)
(* The bandwidth limiter: one bucket for every transfer. A transfer takes  *)
(* the bytes of a chunk it has read, even into debt, and sleeps until the  *)
(* debt as it is then would be paid at the rate as it is then; nothing     *)
(* shortens or prolongs that sleep. The rate may change meanwhile. Bytes   *)
(* and time are integers: a sleep is rounded up, as tokio's timer does.    *)
(***************************************************************************)
EXTENDS Integers, FiniteSets

CONSTANTS
    Transfers,  \* the tasks that write bodies
    Chunks,     \* sizes of what they read at once
    Rates,      \* bytes per unit of time; 0 is unlimited
    MaxTime,    \* bound on the clock
    MaxChanges  \* bound on the changes of the rate

ASSUME TransfersAssumption == IsFiniteSet(Transfers)
ASSUME ChunksAssumption == Chunks \subseteq Nat \ {0}
ASSUME RatesAssumption == Rates \subseteq Nat
ASSUME BoundsAssumption == MaxTime \in Nat /\ MaxChanges \in Nat

VARIABLES
    rate, tokens,  \* struct Inner
    last,          \* when tokens were last topped up
    now,
    asleep,        \* the transfers inside consume()
    wait,          \* how long each of them still has to sleep
    changes,
    since,         \* auxiliary: the start of a time of observation
    taken,         \* auxiliary: bytes taken since then
    mark,          \* auxiliary: taken, when each transfer last took its bytes
    passed         \* auxiliary: the largest mark of a transfer let through

bucket == <<rate, tokens, last>>
window == <<since, taken, mark, passed>>
vars == <<bucket, now, asleep, wait, changes, window>>

AtMost(n, limit) == IF n <= limit THEN n ELSE limit
AtLeast(n, limit) == IF n >= limit THEN n ELSE limit

(* TokenBucket::new, on any of the configured rates.                       *)
Init ==
    /\ rate \in Rates
    /\ tokens = rate
    /\ last = 0
    /\ now = 0
    /\ asleep = {}
    /\ wait = [t \in Transfers |-> 0]
    /\ changes = 0
    /\ since = 0
    /\ taken = 0
    /\ mark = [t \in Transfers |-> 0]
    /\ passed = 0

(* Mutant: a bucket without a bottom saves up what nobody uses.            *)
RefilledForever == IF rate > 0 THEN tokens + (now - last) * rate ELSE tokens

(* refill(): at most one unit of time is saved up.                         *)
Refilled == IF rate > 0 THEN AtMost(tokens + (now - last) * rate, rate) ELSE tokens

Observe ==
    /\ since' = now
    /\ taken' = 0
    /\ mark' = [t \in Transfers |-> 0]
    /\ passed' = 0

(* set_rate(): nobody who sleeps is woken.                                 *)
SetRate(r) ==
    /\ changes < MaxChanges
    /\ changes' = changes + 1
    /\ rate' = r
    /\ tokens' = IF r > 0 THEN AtMost(Refilled, r) ELSE Refilled
    /\ last' = now
    /\ Observe
    /\ UNCHANGED <<now, asleep, wait>>

(* Mutant: what was saved up is discounted from a debt that has spent it.  *)
NapDiscounted(debt) == (debt - rate) \div rate

(* Until the debt is paid at the rate of now.                              *)
Nap(debt) == (debt + rate - 1) \div rate

(* Mutant: the debt is slept off as if it were this transfer's alone.      *)
ConsumeAlone(t, n) ==
    /\ t \notin asleep /\ rate > 0
    /\ tokens' = Refilled - n
    /\ last' = now
    /\ taken' = taken + n
    /\ asleep' = asleep \cup {t}
    /\ wait' = [wait EXCEPT ![t] = IF tokens' >= 0 THEN 0 ELSE Nap(AtMost(n, - tokens'))]
    /\ mark' = [mark EXCEPT ![t] = taken']
    /\ UNCHANGED <<rate, now, changes, since, passed>>

(* consume() of a limited bucket; an unlimited one returns at once.        *)
Consume(t, n) ==
    /\ t \notin asleep /\ rate > 0
    /\ tokens' = Refilled - n
    /\ last' = now
    /\ taken' = taken + n
    /\ asleep' = asleep \cup {t}
    /\ wait' = [wait EXCEPT ![t] = IF tokens' >= 0 THEN 0 ELSE Nap(- tokens')]
    /\ mark' = [mark EXCEPT ![t] = taken']
    /\ UNCHANGED <<rate, now, changes, since, passed>>

(* The sleep is over, and the transfer writes its chunk.                   *)
Wake(t) ==
    /\ t \in asleep /\ wait[t] = 0
    /\ asleep' = asleep \ {t}
    /\ passed' = AtLeast(passed, mark[t])
    /\ UNCHANGED <<bucket, now, wait, changes, since, taken, mark>>

(* Time passes; a timer may be late.                                       *)
Tick ==
    /\ now < MaxTime
    /\ now' = now + 1
    /\ wait' = [t \in Transfers |-> AtLeast(wait[t] - 1, 0)]
    /\ UNCHANGED <<bucket, asleep, changes, window>>

(* Auxiliary: a time of observation may start whenever it likes.           *)
Look == Observe /\ UNCHANGED <<bucket, now, asleep, wait, changes>>

Next ==
    \/ \E t \in Transfers : Wake(t) \/ \E n \in Chunks : Consume(t, n)
    \/ \E r \in Rates : SetRate(r)
    \/ Tick
    \/ Look

Spec == Init /\ [][Next]_vars

-----------------------------------------------------------------------------
(* Type invariant.                                                         *)
TypeOK ==
    /\ rate \in Rates
    /\ tokens \in Int
    /\ {last, now, since} \subseteq 0 .. MaxTime
    /\ asleep \in SUBSET Transfers
    /\ wait \in [Transfers -> Nat]
    /\ changes \in 0 .. MaxChanges
    /\ taken \in Nat /\ passed \in Nat
    /\ mark \in [Transfers -> Nat]

(* Whatever the transfers do, and whenever one starts to look: while the   *)
(* rate stays what it is, the bytes taken and let through are no more than *)
(* the rate allows in that time, plus one unit of time that was saved up.  *)
(* Chunks whose transfers were asleep at the start were taken before it.   *)
RateKept == rate > 0 => passed <= rate * (now - since + 1)

(* The debt that a transfer may have to sleep off, which is how long it is *)
(* deaf to a pause, is at most a chunk for each transfer, and as much      *)
(* again for each change of the rate: a sleep computed at a higher rate    *)
(* ends before the debt is paid.                                           *)
DebtBounded ==
    \A c \in Chunks : (\A d \in Chunks : d <= c) =>
        - tokens <= Cardinality(Transfers) * c * (1 + changes)
=============================================================================
