------------------------- MODULE TokenBucketProofs -------------------------
(***************************************************************************)
(* Theorems about the bandwidth limiter, for every set of transfers, every *)
(* sizes of chunks and every rates.                                        *)
(***************************************************************************)
EXTENDS TokenBucket, FiniteSetTheorems, TLAPS

(* What the rate allows from the start of the observation up to now.       *)
Budget == rate * (now - since + 1)

(* At most one unit of time is ever saved up.                              *)
BurstCapped == rate > 0 => tokens <= rate

(* Bytes taken and tokens left together never exceed the budget.           *)
TakenPaid == rate > 0 => taken + Refilled <= Budget

(* Who sleeps took its bytes within the budget of the time it wakes.       *)
MarksPaid == rate > 0 => \A t \in Transfers : mark[t] <= Budget + rate * wait[t]

(* The inductive invariant.                                                *)
BucketInv ==
    /\ TypeOK
    /\ last <= now /\ since <= now
    /\ BurstCapped
    /\ TakenPaid
    /\ MarksPaid
    /\ RateKept

(* A nap is as long as the debt takes to be paid.                          *)
LEMMA NapPays ==
    ASSUME NEW r \in Nat, r > 0, NEW d \in Nat
    PROVE  /\ (d + r - 1) \div r \in Nat
           /\ r * ((d + r - 1) \div r) >= d
<1> DEFINE e == d + r - 1
           q == e \div r
           m == e % r
<1>1. e \in Nat
    OBVIOUS
<1>2. e = d + r - 1
    OBVIOUS
<1>3. q \in Int /\ m \in 0 .. r - 1 /\ e = r * q + m
    <2> HIDE DEF e
    <2> QED
        BY <1>1, SMT
<1> HIDE DEF q, m, e
<1>4. r * q >= d
    BY <1>2, <1>3, SMT
<1>5. q >= 0
    BY <1>3, <1>4, SMT
<1> QED
    BY <1>3, <1>4, <1>5 DEF q, e

(* A unit of time is worth the rate.                                       *)
LEMMA OneMore ==
    ASSUME NEW r \in Nat, NEW n \in Int
    PROVE  r * (n + 1) = r * n + r
    OBVIOUS

(* Every nap is worth something.                                           *)
LEMMA WorthNat ==
    ASSUME NEW r \in Nat, NEW n \in Nat
    PROVE  r * n \in Nat
    OBVIOUS

(* The refilled balance is an integer, capped by the rate.                 *)
LEMMA RefilledCapped ==
    ASSUME BucketInv
    PROVE  /\ Refilled \in Int
           /\ rate > 0 => Refilled <= rate
<1>1. rate \in Nat /\ tokens \in Int /\ now \in Nat /\ last \in Nat
    BY RatesAssumption, BoundsAssumption DEF BucketInv, TypeOK
<1>2. (now - last) * rate \in Int
    BY <1>1
<1> QED
    BY <1>1, <1>2 DEF Refilled, AtMost

LEMMA InitInv == Init => BucketInv
<1> SUFFICES ASSUME Init PROVE BucketInv
    OBVIOUS
<1> USE DEF Init
<1>1. rate \in Nat
    BY RatesAssumption
<1>2. TypeOK
    BY <1>1, BoundsAssumption DEF TypeOK
<1>3. Refilled = rate /\ Budget = rate
    BY <1>1 DEF Refilled, AtMost, Budget
<1>4. MarksPaid
    BY <1>1, <1>3, WorthNat DEF MarksPaid
<1>5. RateKept
    BY <1>1 DEF RateKept
<1> QED
    BY <1>1, <1>2, <1>3, <1>4, <1>5 DEF BucketInv, BurstCapped, TakenPaid

(* An observation starts with nothing taken and a full budget.             *)
LEMMA ObserveInv ==
    ASSUME TypeOK, Observe, now' = now, rate' \in Nat, rate' > 0 => Refilled' <= rate',
           Refilled' \in Int, wait' = wait
    PROVE  since' <= now' /\ TakenPaid' /\ MarksPaid' /\ RateKept'
<1>1. now \in Nat /\ since' = now /\ taken' = 0 /\ passed' = 0
      /\ \A t \in Transfers : mark'[t] = 0 /\ wait'[t] \in Nat
    BY BoundsAssumption DEF TypeOK, Observe
<1>2. Budget' = rate'
    BY <1>1 DEF Budget
<1>3. TakenPaid'
    BY <1>1, <1>2 DEF TakenPaid
<1>4. MarksPaid'
    BY <1>1, <1>2, WorthNat DEF MarksPaid
<1>5. RateKept'
    <2>1. Budget' = rate' * (now' - since' + 1)
        BY DEF Budget
    <2>2. rate' * (now' - since' + 1) \in Nat /\ passed' = 0
        BY <1>1, <1>2, <2>1
    <2> QED
        BY <2>2 DEF RateKept
<1> QED
    BY <1>1, <1>3, <1>4, <1>5

LEMMA SetRateInv ==
    ASSUME BucketInv, NEW r \in Rates, SetRate(r)
    PROVE  BucketInv'
<1> USE DEF SetRate
<1>1. TypeOK /\ r \in Nat /\ Refilled \in Int /\ now \in Nat
    BY RefilledCapped, RatesAssumption, BoundsAssumption DEF BucketInv, TypeOK
<1>2. tokens' \in Int /\ (r > 0 => tokens' <= r)
    BY <1>1 DEF AtMost
<1>3. TypeOK'
    BY <1>1, <1>2, BoundsAssumption DEF TypeOK, Observe
<1>4. Refilled' = tokens'
    BY <1>1, <1>2 DEF Refilled, AtMost
<1>5. since' <= now' /\ TakenPaid' /\ MarksPaid' /\ RateKept'
    BY <1>1, <1>2, <1>4, ObserveInv
<1> QED
    BY <1>1, <1>2, <1>3, <1>5 DEF BucketInv, BurstCapped

LEMMA LookInv ==
    ASSUME BucketInv, Look
    PROVE  BucketInv'
<1> USE DEF Look, bucket
<1>1. TypeOK /\ rate \in Nat /\ now \in Nat
    BY RatesAssumption, BoundsAssumption DEF BucketInv, TypeOK
<1>2. Refilled' = Refilled
    BY DEF Refilled
<1>3. TypeOK'
    BY <1>1, BoundsAssumption DEF TypeOK, Observe
<1>4. Refilled \in Int /\ (rate > 0 => Refilled <= rate)
    BY RefilledCapped
<1>5. since' <= now' /\ TakenPaid' /\ MarksPaid' /\ RateKept'
    BY <1>1, <1>2, <1>4, ObserveInv
<1> QED
    BY <1>3, <1>5 DEF BucketInv, BurstCapped

LEMMA ConsumeInv ==
    ASSUME BucketInv, NEW t \in Transfers, NEW n \in Chunks, Consume(t, n)
    PROVE  BucketInv'
<1> USE DEF Consume
<1>1. TypeOK /\ rate \in Nat /\ rate > 0 /\ now \in Nat /\ since \in Nat /\ taken \in Nat
    BY RatesAssumption, BoundsAssumption DEF BucketInv, TypeOK
<1>2. n \in Nat /\ n > 0
    BY ChunksAssumption
<1>3. Refilled \in Int /\ Refilled <= rate
    BY <1>1, RefilledCapped
<1>4. tokens' \in Int /\ tokens' <= rate' /\ taken' \in Nat /\ tokens' = Refilled - n /\ taken' = taken + n
    BY <1>1, <1>2, <1>3
<1>5. Budget' = Budget /\ Budget \in Int
    BY <1>1 DEF Budget
<1>6. wait'[t] \in Nat /\ rate * wait'[t] >= - tokens'
    <2>1. wait'[t] = IF tokens' >= 0 THEN 0 ELSE Nap(- tokens')
        BY <1>1 DEF TypeOK
    <2>2. CASE tokens' >= 0
        BY <1>1, <1>4, <2>1, <2>2
    <2>3. CASE ~(tokens' >= 0)
        <3>1. - tokens' \in Nat
            BY <1>4, <2>3
        <3>2. Nap(- tokens') \in Nat /\ rate * Nap(- tokens') >= - tokens'
            BY <1>1, <3>1, NapPays DEF Nap
        <3> QED
            BY <2>1, <2>3, <3>2
    <2> QED
        BY <2>2, <2>3
<1>7. TypeOK'
    <2>1. wait' \in [Transfers -> Nat]
        BY <1>1, <1>6 DEF TypeOK
    <2>2. mark' \in [Transfers -> Nat]
        BY <1>1, <1>4 DEF TypeOK
    <2> QED
        BY <1>1, <1>4, <2>1, <2>2 DEF TypeOK
<1>8. TakenPaid'
    <2>1. Refilled' = tokens'
        BY <1>1, <1>4 DEF Refilled, AtMost
    <2>2. taken + Refilled <= Budget
        BY <1>1 DEF BucketInv, TakenPaid
    <2> QED
        BY <1>1, <1>2, <1>3, <1>4, <1>5, <2>1, <2>2 DEF TakenPaid
<1>9. MarksPaid'
    <2> SUFFICES ASSUME NEW u \in Transfers
                 PROVE  mark'[u] <= Budget + rate * wait'[u]
        BY <1>1, <1>5 DEF MarksPaid
    <2>1. CASE u = t
        <3>1. mark'[u] = taken'
            BY <1>1, <2>1 DEF TypeOK
        <3>2. taken + Refilled <= Budget
            BY <1>1 DEF BucketInv, TakenPaid
        <3>3. rate * wait'[t] \in Nat
            BY <1>1, <1>6, WorthNat
        <3> QED
            BY <1>2, <1>3, <1>4, <1>5, <1>6, <2>1, <3>1, <3>2, <3>3, <1>1
    <2>2. CASE u # t
        <3>1. mark'[u] = mark[u] /\ wait'[u] = wait[u]
            BY <1>1, <2>2 DEF TypeOK
        <3> QED
            BY <1>1, <3>1 DEF BucketInv, MarksPaid
    <2> QED
        BY <2>1, <2>2
<1>10. RateKept'
    BY DEF BucketInv, RateKept
<1> QED
    BY <1>1, <1>4, <1>7, <1>8, <1>9, <1>10 DEF BucketInv, BurstCapped

LEMMA WakeInv ==
    ASSUME BucketInv, NEW t \in Transfers, Wake(t)
    PROVE  BucketInv'
<1> USE DEF Wake, bucket
<1>1. TypeOK /\ rate \in Nat /\ now \in Nat /\ since \in Nat /\ mark[t] \in Nat /\ passed \in Nat
    BY RatesAssumption, BoundsAssumption DEF BucketInv, TypeOK
<1>2. passed' \in {passed, mark[t]}
    BY DEF AtLeast
<1>3. TypeOK'
    BY <1>1, <1>2 DEF TypeOK
<1>4. RateKept'
    <2>1. Budget \in Int /\ Budget = rate * (now - since + 1)
        BY <1>1 DEF Budget
    <2>2. rate > 0 => mark[t] <= Budget
        <3>1. rate * wait[t] = 0
            BY <1>1
        <3> QED
            BY <1>1, <2>1, <3>1 DEF BucketInv, MarksPaid
    <2> QED
        BY <1>1, <1>2, <2>1, <2>2 DEF BucketInv, RateKept
<1>5. Refilled' = Refilled /\ Budget' = Budget
    BY DEF Refilled, Budget
<1> QED
    BY <1>3, <1>4, <1>5 DEF BucketInv, BurstCapped, TakenPaid, MarksPaid

LEMMA TickInv ==
    ASSUME BucketInv, Tick
    PROVE  BucketInv'
<1>0. /\ now' = now + 1
      /\ wait' = [t \in Transfers |-> AtLeast(wait[t] - 1, 0)]
      /\ UNCHANGED <<rate, tokens, last, asleep, changes, since, taken, mark, passed>>
    BY DEF Tick, bucket, window
<1>1. TypeOK /\ rate \in Nat /\ tokens \in Int /\ now \in Nat /\ since \in Nat /\ last \in Nat
      /\ taken \in Nat /\ last <= now /\ since <= now /\ now + 1 \in 0 .. MaxTime
    BY RatesAssumption, BoundsAssumption DEF BucketInv, TypeOK, Tick
<1>2. \A t \in Transfers : wait[t] \in Nat /\ wait'[t] \in Nat /\ wait[t] <= wait'[t] + 1 /\ mark[t] \in Nat
    BY <1>0 DEF BucketInv, TypeOK, AtLeast
<1>3. TypeOK'
    <2>1. wait' \in [Transfers -> Nat]
        BY <1>0, <1>2
    <2> QED
        BY <1>0, <1>1, <2>1 DEF TypeOK
<1>4. Budget \in Int /\ Budget' = Budget + rate
    <2>1. now + 1 - since + 1 = (now - since + 1) + 1
        BY <1>1
    <2>2. rate * ((now - since + 1) + 1) = rate * (now - since + 1) + rate
        BY <1>1, OneMore
    <2> QED
        BY <1>0, <1>1, <2>1, <2>2 DEF Budget
<1>5. Refilled \in Int /\ Refilled' \in Int /\ Refilled' <= Refilled + rate
    <2>1. now + 1 - last = (now - last) + 1
        BY <1>1
    <2>2. rate * ((now - last) + 1) = rate * (now - last) + rate
        BY <1>1, OneMore
    <2>3. (now - last) * rate \in Int /\ (now + 1 - last) * rate = (now - last) * rate + rate
        BY <1>1, <2>1, <2>2
    <2> DEFINE earned == (now - last) * rate
               more == (now + 1 - last) * rate
    <2>4. Refilled = (IF rate > 0 THEN AtMost(tokens + earned, rate) ELSE tokens)
          /\ Refilled' = (IF rate > 0 THEN AtMost(tokens + more, rate) ELSE tokens)
        <3>1. Refilled' = IF rate' > 0 THEN AtMost(tokens' + (now' - last') * rate', rate') ELSE tokens'
            BY DEF Refilled
        <3>2. tokens' = tokens /\ rate' = rate /\ (now' - last') * rate' = more
            <4>1. tokens' = tokens /\ rate' = rate /\ now' = now + 1 /\ last' = last
                BY <1>0
            <4>2. now' - last' = now + 1 - last
                BY <1>1, <4>1, SMT
            <4>3. (now' - last') * rate' = (now + 1 - last) * rate
                BY <4>1, <4>2, Zenon
            <4> QED
                BY <4>1, <4>3, Zenon
        <3>3. Refilled' = IF rate > 0 THEN AtMost(tokens + more, rate) ELSE tokens
            <4> HIDE DEF more
            <4> QED
                BY <3>1, <3>2, Zenon
        <3> QED
            BY <3>3 DEF Refilled
    <2>5. earned \in Int /\ more = earned + rate
        BY <2>3
    <2> HIDE DEF earned, more
    <2> QED
        BY <1>1, <2>4, <2>5 DEF AtMost
<1>6. TakenPaid'
    <2> SUFFICES ASSUME rate > 0
                 PROVE  taken + Refilled' <= Budget'
        BY <1>0 DEF TakenPaid
    <2>1. taken + Refilled <= Budget
        BY <1>1 DEF BucketInv, TakenPaid
    <2>2. taken \in Nat /\ rate \in Nat
        BY <1>1
    <2>3. \A e \in Int : e <= Refilled + rate => taken + e <= Budget + rate
        BY <1>4, <1>5, <2>1, <2>2
    <2> QED
        BY <1>4, <1>5, <2>3, Zenon
<1>7. MarksPaid'
    <2> SUFFICES ASSUME rate > 0, NEW t \in Transfers
                 PROVE  mark[t] <= Budget' + rate * wait'[t]
        BY <1>0 DEF MarksPaid
    <2>1. mark[t] <= Budget + rate * wait[t]
        BY <1>1 DEF BucketInv, MarksPaid
    <2>2. rate * wait[t] <= rate * (wait'[t] + 1)
        BY <1>1, <1>2
    <2>3. rate * (wait'[t] + 1) = rate * wait'[t] + rate
        BY <1>1, <1>2, OneMore
    <2>4. rate * wait[t] \in Nat /\ rate * wait'[t] \in Nat /\ mark[t] \in Nat
        BY <1>1, <1>2, WorthNat
    <2>5. rate * wait[t] <= rate * wait'[t] + rate
        BY <2>2, <2>3
    <2> HIDE DEF Budget
    <2> QED
        BY <1>1, <1>4, <2>1, <2>4, <2>5
<1>8. RateKept'
    <2>1. passed \in Nat
        BY <1>1 DEF TypeOK
    <2> QED
        BY <1>0, <1>1, <1>4, <2>1 DEF BucketInv, RateKept, Budget
<1> QED
    BY <1>0, <1>1, <1>3, <1>6, <1>7, <1>8 DEF BucketInv, BurstCapped

LEMMA NextInv == BucketInv /\ [Next]_vars => BucketInv'
<1> SUFFICES ASSUME BucketInv, [Next]_vars PROVE BucketInv'
    OBVIOUS
<1>1. CASE UNCHANGED vars
    <2> USE <1>1 DEF vars, bucket, window
    <2>1. TypeOK' /\ RateKept'
        BY DEF BucketInv, TypeOK, RateKept
    <2>2. Refilled' = Refilled /\ Budget' = Budget
        BY DEF Refilled, Budget
    <2> QED
        BY <2>1, <2>2 DEF BucketInv, BurstCapped, TakenPaid, MarksPaid
<1>2. ASSUME NEW t \in Transfers, Wake(t) PROVE BucketInv'
    BY <1>2, WakeInv
<1>3. ASSUME NEW t \in Transfers, NEW n \in Chunks, Consume(t, n) PROVE BucketInv'
    BY <1>3, ConsumeInv
<1>4. ASSUME NEW r \in Rates, SetRate(r) PROVE BucketInv'
    BY <1>4, SetRateInv
<1>5. CASE Tick
    BY <1>5, TickInv
<1>6. CASE Look
    BY <1>6, LookInv
<1> QED
    BY <1>1, <1>2, <1>3, <1>4, <1>5, <1>6 DEF Next

LEMMA BucketInductive == Spec => []BucketInv
<1>1. Init => BucketInv
    BY InitInv
<1>2. BucketInv /\ [Next]_vars => BucketInv'
    BY NextInv
<1> QED
    BY <1>1, <1>2, PTL DEF Spec

(* Every step keeps the types, whatever the rates and the chunks are.      *)
THEOREM TypeCorrect == Spec => []TypeOK
<1>1. BucketInv => TypeOK
    BY DEF BucketInv
<1> QED
    BY <1>1, BucketInductive, PTL

(* The comment on refill(): no more than one unit of time is saved up, at  *)
(* any time and after any change of the rate.                              *)
THEOREM BurstHolds == Spec => []BurstCapped
<1>1. BucketInv => BurstCapped
    BY DEF BucketInv
<1> QED
    BY <1>1, BucketInductive, PTL

(* The shared bucket caps the sum of all transfers, over every interval in *)
(* which the rate is constant.                                             *)
THEOREM RateHolds == Spec => []RateKept
<1>1. BucketInv => RateKept
    BY DEF BucketInv
<1> QED
    BY <1>1, BucketInductive, PTL

-----------------------------------------------------------------------------
(* The debt.                                                               *)

(* The transfers that still sleep when w units of time have passed.        *)
Late(w) == {t \in asleep : wait[t] > w}

(* What the changes of the rate have let through: c for each transfer, at  *)
(* each change.                                                            *)
Forgiven(c) == (Cardinality(Transfers) * c) * changes

IsLargest(c) == c \in Chunks /\ \A d \in Chunks : d <= c

(* What will be left of the debt when w units of time have passed is owed  *)
(* by those who still sleep then, a chunk each: everybody sleeps at least  *)
(* until the debt that it found and its own chunk are paid. An unlimited   *)
(* rate pays no debt and adds none.                                        *)
DebtOwed(c) ==
    /\ rate > 0 =>
           \A w \in Nat : - Refilled - rate * w <= Cardinality(Late(w)) * c + Forgiven(c)
    /\ rate = 0 => - tokens <= Forgiven(c)
    /\ - tokens <= Cardinality(Transfers) * c + Forgiven(c)

DebtInv == BucketInv /\ \A c \in Chunks : IsLargest(c) => DebtOwed(c)

LEMMA LateCounted ==
    ASSUME BucketInv, NEW w \in Nat
    PROVE  /\ IsFiniteSet(Late(w)) /\ Cardinality(Late(w)) \in Nat
           /\ Cardinality(Transfers) \in Nat
           /\ Cardinality(Late(w)) <= Cardinality(Transfers)
<1>1. Late(w) \subseteq Transfers
    BY DEF Late, BucketInv, TypeOK
<1> QED
    BY <1>1, TransfersAssumption, FS_Subset, FS_CardinalityType

(* Products of natural numbers, as the bounds need them.                   *)
LEMMA Products ==
    /\ \A a, b \in Nat : a * b \in Nat
    /\ \A a, b, c \in Nat : a <= b => a * c <= b * c
    /\ \A a, c \in Nat : (a + 1) * c = a * c + c /\ c * (a + 1) = c * a + c
<1>1. \A a, b \in Nat : a * b \in Nat
    BY SMT
<1>2. \A a, c \in Nat : (a + 1) * c = a * c + c /\ c * (a + 1) = c * a + c
    BY SMT
<1>3. ASSUME NEW a \in Nat, NEW b \in Nat, NEW c \in Nat, a <= b
      PROVE  a * c <= b * c
    <2>1. PICK d \in Nat : b = a + d
        <3>1. b - a \in Nat /\ b = a + (b - a)
            BY <1>3
        <3> QED
            BY <3>1
    <2>2. (a + d) * c = a * c + d * c /\ a * c \in Nat /\ d * c \in Nat
        BY SMT
    <2> QED
        BY <2>1, <2>2
<1> QED
    BY <1>1, <1>2, <1>3

(* The numbers of the debt, and the bound on what is owed at once.         *)
LEMMA DebtNumbers ==
    ASSUME BucketInv, NEW c \in Chunks
    PROVE  /\ c \in Nat /\ c > 0 /\ rate \in Nat /\ tokens \in Int /\ Refilled \in Int
           /\ Forgiven(c) \in Nat /\ Cardinality(Transfers) * c \in Nat
           /\ \A w \in Nat : /\ Cardinality(Late(w)) * c \in Nat
                             /\ Cardinality(Late(w)) * c <= Cardinality(Transfers) * c
<1>1. /\ c \in Nat /\ c > 0 /\ rate \in Nat /\ tokens \in Int /\ Refilled \in Int
      /\ changes \in Nat
    BY RefilledCapped, ChunksAssumption, RatesAssumption, BoundsAssumption DEF BucketInv, TypeOK
<1>2. Cardinality(Transfers) \in Nat
    BY TransfersAssumption, FS_CardinalityType
<1>3. Cardinality(Transfers) * c \in Nat /\ Forgiven(c) \in Nat
    BY <1>1, <1>2, Products DEF Forgiven
<1> QED
    BY <1>1, <1>3, LateCounted, Products

LEMMA DebtStart ==
    ASSUME Init, NEW c \in Chunks
    PROVE  DebtOwed(c)
<1>1. BucketInv
    BY InitInv
<1>2. tokens = rate /\ Refilled = rate
    BY <1>1, DebtNumbers DEF Init, Refilled, AtMost
<1>3. \A w \in Nat : rate * w \in Nat
    BY <1>1, DebtNumbers, Products
<1> QED
    BY <1>1, <1>2, <1>3, DebtNumbers DEF DebtOwed

(* After a change of the rate, all that was owed is forgiven by name.      *)
LEMMA SetRateDebt ==
    ASSUME BucketInv, NEW c \in Chunks, DebtOwed(c), NEW r \in Rates, SetRate(r)
    PROVE  DebtOwed(c)'
<1>1. BucketInv' /\ r \in Nat
    BY SetRateInv, RatesAssumption
<1> DEFINE K == Cardinality(Transfers) * c
<1>2. Forgiven(c)' = Forgiven(c) + K
    <2>1. changes \in Nat /\ changes' = changes + 1 /\ K \in Nat
        BY DebtNumbers, BoundsAssumption DEF BucketInv, TypeOK, SetRate
    <2>2. Forgiven(c)' = K * (changes + 1)
        BY <2>1 DEF Forgiven
    <2> HIDE DEF K
    <2>3. K * (changes + 1) = K * changes + K
        BY <2>1, Products
    <2> QED
        BY <2>2, <2>3 DEF Forgiven, K
<1>3. - Refilled <= K + Forgiven(c)
    <2>1. CASE rate > 0
        <3>1. - Refilled - rate * 0 <= Cardinality(Late(0)) * c + Forgiven(c)
            BY <2>1 DEF DebtOwed
        <3>2. rate * 0 = 0
            BY DebtNumbers
        <3>3. /\ Cardinality(Late(0)) * c <= K /\ Cardinality(Late(0)) * c \in Nat
              /\ K \in Nat /\ Forgiven(c) \in Nat /\ Refilled \in Int
            BY DebtNumbers
        <3> HIDE DEF K
        <3> QED
            BY <3>1, <3>2, <3>3
    <2>2. CASE rate = 0
        <3>1. Refilled = tokens
            BY <2>2 DEF Refilled
        <3> QED
            BY <2>2, <3>1, DebtNumbers DEF DebtOwed
    <2> QED
        BY <2>1, <2>2, DebtNumbers
<1>4. tokens' >= Refilled \/ tokens' >= 0
    BY <1>1, DebtNumbers DEF SetRate, AtMost
<1>5. /\ K \in Nat /\ Forgiven(c) \in Nat /\ Forgiven(c)' \in Nat /\ tokens' \in Int
      /\ Refilled \in Int /\ rate' \in Nat
    BY <1>1, <1>2, DebtNumbers DEF BucketInv, TypeOK, SetRate
<1> HIDE DEF K
<1>6. - tokens' <= Forgiven(c)'
    BY <1>2, <1>3, <1>4, <1>5
<1>7. Refilled' = tokens'
    BY <1>1, <1>5, RefilledCapped, BoundsAssumption
    DEF SetRate, Refilled, AtMost, BucketInv, TypeOK
<1>8. ASSUME NEW w \in Nat
      PROVE  - Refilled' - rate' * w <= Cardinality(Late(w)') * c + Forgiven(c)'
    <2>1. rate' * w \in Nat
        BY <1>5, Products
    <2>2. Cardinality(Late(w)') * c \in Nat
        <3>1. Cardinality(Late(w)') \in Nat
            BY <1>1, TransfersAssumption, FS_Subset, FS_CardinalityType DEF Late, BucketInv, TypeOK
        <3> QED
            BY <3>1, DebtNumbers, Products
    <2> QED
        BY <1>5, <1>6, <1>7, <2>1, <2>2
<1>9. - tokens' <= Cardinality(Transfers) * c + Forgiven(c)'
    BY <1>5, <1>6 DEF K
<1> QED
    BY <1>6, <1>8, <1>9 DEF DebtOwed

(* The transfer that takes n sleeps for all that is owed, its own included.*)
LEMMA ConsumeDebt ==
    ASSUME BucketInv, NEW c \in Chunks, IsLargest(c), DebtOwed(c),
           NEW t \in Transfers, NEW n \in Chunks, Consume(t, n)
    PROVE  DebtOwed(c)'
<1>1. /\ rate > 0 /\ rate' = rate /\ tokens' = Refilled - n /\ changes' = changes
      /\ asleep' = asleep \cup {t} /\ t \notin asleep
      /\ wait' = [wait EXCEPT ![t] = IF tokens' >= 0 THEN 0 ELSE Nap(- tokens')]
    BY DEF Consume
<1>2. n \in Nat /\ n <= c /\ c \in Nat /\ rate \in Nat /\ Refilled \in Int /\ tokens' \in Int
    BY <1>1, ChunksAssumption, DebtNumbers DEF IsLargest
<1>3. Forgiven(c)' = Forgiven(c) /\ Forgiven(c) \in Nat
    BY <1>1, DebtNumbers DEF Forgiven
<1>4. BucketInv'
    BY ConsumeInv
<1>5. Refilled' = tokens'
    BY <1>1, <1>2, RefilledCapped, ChunksAssumption, BoundsAssumption
    DEF Consume, Refilled, AtMost, BucketInv, TypeOK
<1>6. wait \in [Transfers -> Nat] /\ asleep \subseteq Transfers
    BY DEF BucketInv, TypeOK
<1>7. wait'[t] \in Nat /\ rate * wait'[t] >= - tokens'
    <2>1. wait'[t] = IF tokens' >= 0 THEN 0 ELSE Nap(- tokens')
        BY <1>1, <1>6
    <2>2. CASE tokens' >= 0
        BY <1>1, <1>2, <2>1, <2>2
    <2>3. CASE ~ (tokens' >= 0)
        <3>1. - tokens' \in Nat
            BY <1>1, <1>2, <2>3
        <3> QED
            BY <1>1, <1>2, <2>1, <2>3, <3>1, NapPays DEF Nap
    <2> QED
        BY <2>2, <2>3
<1>8. ASSUME NEW w \in Nat
      PROVE  - tokens' - rate * w <= Cardinality(Late(w)') * c + Forgiven(c)
    <2>1. IsFiniteSet(Late(w)) /\ Cardinality(Late(w)) \in Nat
        BY LateCounted
    <2>2. Cardinality(Late(w)) * c \in Nat
        BY <1>2, <2>1, Products
    <2>3. rate * w \in Nat
        BY <1>2, Products
    <2>4. CASE w < wait'[t]
        <3>1. Late(w)' = Late(w) \cup {t} /\ t \notin Late(w)
            BY <1>1, <1>6, <2>4 DEF Late
        <3>2. Cardinality(Late(w)') = Cardinality(Late(w)) + 1
            BY <2>1, <3>1, FS_AddElement
        <3>3. Cardinality(Late(w)') * c = Cardinality(Late(w)) * c + c
            BY <1>2, <2>1, <3>2, Products
        <3>4. - Refilled - rate * w <= Cardinality(Late(w)) * c + Forgiven(c)
            BY <1>1 DEF DebtOwed
        <3>5. - tokens' = - Refilled + n
            BY <1>1, <1>2
        <3> QED
            BY <1>1, <1>2, <1>3, <2>2, <2>3, <3>3, <3>4, <3>5
    <2>5. CASE ~ (w < wait'[t])
        <3>1. Late(w)' = Late(w)
            BY <1>1, <1>6, <1>7, <2>5 DEF Late
        <3>2. wait'[t] * rate <= w * rate
            BY <1>2, <1>7, <2>5, Products
        <3>3. wait'[t] * rate = rate * wait'[t] /\ w * rate = rate * w
            BY <1>2, <1>7, SMT
        <3>4. rate * wait'[t] \in Nat
            BY <1>2, <1>7, Products
        <3>5. - tokens' - rate * w <= 0
            BY <1>1, <1>2, <1>7, <2>3, <3>2, <3>3, <3>4
        <3>6. Cardinality(Late(w)') * c \in Nat
            BY <2>2, <3>1
        <3> QED
            BY <1>1, <1>2, <1>3, <2>3, <3>5, <3>6
    <2> QED
        BY <1>7, <2>4, <2>5
<1>9. - tokens' <= Cardinality(Transfers) * c + Forgiven(c)
    <2>1. - tokens' - rate * 0 <= Cardinality(Late(0)') * c + Forgiven(c)
        BY <1>8
    <2>2. rate * 0 = 0
        BY <1>2
    <2>3. Late(0)' \subseteq Transfers
        BY <1>1, <1>6 DEF Late
    <2>4. Cardinality(Late(0)') \in Nat /\ Cardinality(Transfers) \in Nat
          /\ Cardinality(Late(0)') <= Cardinality(Transfers)
        BY <2>3, TransfersAssumption, FS_Subset, FS_CardinalityType
    <2>5. Cardinality(Late(0)') * c <= Cardinality(Transfers) * c
          /\ Cardinality(Late(0)') * c \in Nat /\ Cardinality(Transfers) * c \in Nat
        BY <1>2, <2>4, Products
    <2> QED
        BY <1>2, <1>3, <2>1, <2>2, <2>5
<1> QED
    BY <1>1, <1>3, <1>5, <1>8, <1>9 DEF DebtOwed

(* A unit of time pays as much debt as the rate, or all of it.             *)
LEMMA TickDebt ==
    ASSUME BucketInv, NEW c \in Chunks, DebtOwed(c), Tick
    PROVE  DebtOwed(c)'
<1>0. /\ now' = now + 1
      /\ wait' = [t \in Transfers |-> AtLeast(wait[t] - 1, 0)]
      /\ UNCHANGED <<rate, tokens, last, asleep, changes>>
    BY DEF Tick, bucket, window
<1>1. /\ c \in Nat /\ rate \in Nat /\ tokens \in Int /\ Refilled \in Int
      /\ Forgiven(c) \in Nat /\ Forgiven(c)' = Forgiven(c)
    BY <1>0, DebtNumbers DEF Forgiven
<1>2. Refilled' \in Int /\ (rate > 0 => Refilled' >= Refilled + rate \/ Refilled' >= 0)
    <2>1. now \in Nat /\ last \in Nat /\ last <= now
        BY BoundsAssumption DEF BucketInv, TypeOK
    <2> DEFINE earned == (now - last) * rate
               more == (now' - last) * rate
    <2>2. earned \in Int /\ more = earned + rate
        <3>1. now' - last = (now - last) + 1 /\ now - last \in Nat
            BY <1>0, <2>1
        <3>2. ((now - last) + 1) * rate = (now - last) * rate + rate /\ (now - last) * rate \in Nat
            BY <1>1, <3>1, Products
        <3> QED
            BY <3>1, <3>2
    <2>3. Refilled = IF rate > 0 THEN AtMost(tokens + earned, rate) ELSE tokens
        BY DEF Refilled
    <2>4. Refilled' = IF rate > 0 THEN AtMost(tokens + more, rate) ELSE tokens
        BY <1>0 DEF Refilled
    <2> HIDE DEF earned, more
    <2> QED
        BY <1>1, <2>2, <2>3, <2>4 DEF AtMost
<1>3. ASSUME rate > 0, NEW w \in Nat
      PROVE  - Refilled' - rate * w <= Cardinality(Late(w)') * c + Forgiven(c)
    <2>1. Late(w)' = Late(w + 1)
        <3>1. \A t \in asleep : wait[t] \in Nat /\ wait'[t] = AtLeast(wait[t] - 1, 0)
            BY <1>0 DEF BucketInv, TypeOK
        <3>2. \A t \in asleep : wait'[t] > w <=> wait[t] > w + 1
            BY <3>1 DEF AtLeast
        <3> QED
            BY <1>0, <3>2 DEF Late
    <2>2. - Refilled - rate * (w + 1) <= Cardinality(Late(w + 1)) * c + Forgiven(c)
        BY <1>3 DEF DebtOwed
    <2>3. rate * (w + 1) = rate * w + rate /\ rate * w \in Nat
        BY <1>1, Products
    <2>4. Cardinality(Late(w + 1)) * c \in Nat
        BY DebtNumbers
    <2>5. - Refilled' - rate * w <= Cardinality(Late(w + 1)) * c + Forgiven(c)
        BY <1>1, <1>2, <1>3, <2>2, <2>3, <2>4
    <2> QED
        BY <2>1, <2>5
<1> QED
    BY <1>0, <1>1, <1>3 DEF DebtOwed

(* Who wakes has nothing left to sleep for, and looking changes nothing.   *)
LEMMA OtherDebt ==
    ASSUME BucketInv, NEW c \in Chunks, DebtOwed(c),
           (\E t \in Transfers : Wake(t)) \/ Look \/ UNCHANGED vars
    PROVE  DebtOwed(c)'
<1>1. UNCHANGED <<bucket, now, changes, wait>>
    BY DEF Wake, Look, vars
<1>2. ASSUME NEW w \in Nat PROVE Late(w)' = Late(w)
    <2>1. CASE asleep' = asleep
        BY <1>1, <2>1 DEF Late
    <2>2. ASSUME NEW t \in Transfers, Wake(t) PROVE Late(w)' = Late(w)
        BY <1>1, <2>2 DEF Late, Wake
    <2> QED
        BY <2>1, <2>2 DEF Look, vars
<1>3. Refilled' = Refilled /\ Forgiven(c)' = Forgiven(c) /\ rate' = rate /\ tokens' = tokens
    BY <1>1 DEF bucket, Refilled, Forgiven
<1> QED
    BY <1>2, <1>3 DEF DebtOwed

LEMMA DebtInductive == Spec => []DebtInv
<1>1. Init => DebtInv
    BY InitInv, DebtStart DEF DebtInv
<1>2. DebtInv /\ [Next]_vars => DebtInv'
    <2> SUFFICES ASSUME DebtInv, [Next]_vars, NEW c \in Chunks, IsLargest(c)
                 PROVE  DebtOwed(c)'
        BY NextInv DEF DebtInv, IsLargest
    <2>1. BucketInv /\ DebtOwed(c)
        BY DEF DebtInv
    <2>2. ASSUME NEW r \in Rates, SetRate(r) PROVE DebtOwed(c)'
        BY <2>1, <2>2, SetRateDebt
    <2>3. ASSUME NEW t \in Transfers, NEW n \in Chunks, Consume(t, n) PROVE DebtOwed(c)'
        BY <2>1, <2>3, ConsumeDebt
    <2>4. CASE Tick
        BY <2>1, <2>4, TickDebt
    <2>5. CASE (\E t \in Transfers : Wake(t)) \/ Look \/ UNCHANGED vars
        BY <2>1, <2>5, OtherDebt
    <2> QED
        BY <2>2, <2>3, <2>4, <2>5 DEF Next
<1> QED
    BY <1>1, <1>2, PTL DEF Spec

(* The debt that a transfer sleeps off, deaf to a pause, is at most a      *)
(* chunk for each transfer and as much again for each change of the rate.  *)
THEOREM DebtHolds == Spec => []DebtBounded
<1>1. DebtInv => DebtBounded
    <2> SUFFICES ASSUME DebtInv, NEW c \in Chunks, \A d \in Chunks : d <= c
                 PROVE  - tokens <= Cardinality(Transfers) * c * (1 + changes)
        BY DEF DebtBounded
    <2> DEFINE K == Cardinality(Transfers) * c
    <2>1. - tokens <= K + Forgiven(c)
        BY DEF DebtInv, DebtOwed, IsLargest
    <2>2. K \in Nat /\ changes \in Nat
        BY DebtNumbers, BoundsAssumption DEF DebtInv, BucketInv, TypeOK
    <2>3. Forgiven(c) = K * changes
        BY DEF Forgiven
    <2> HIDE DEF K
    <2>4. K * (1 + changes) = K * changes + K /\ K * changes \in Nat
        BY <2>2, SMT
    <2>5. K + K * changes = K * changes + K
        BY <2>2, <2>4
    <2>6. - tokens <= K * (1 + changes)
        BY <2>1, <2>3, <2>4, <2>5
    <2> QED
        BY <2>6 DEF K
<1> QED
    BY <1>1, DebtInductive, PTL
=============================================================================
