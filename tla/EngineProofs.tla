----------------------------- MODULE EngineProofs -----------------------------
(***************************************************************************)
(* Every plan is a partition of the file into non-empty ranges, part files *)
(* stay prefixes of their segments, and a completed download is the whole  *)
(* resource: for every size, MIN_CHUNK_SIZE, maximum of segments, number   *)
(* of attempts and crashes.                                                *)
(***************************************************************************)
EXTENDS Engine, SequenceTheorems, TLAPS

-----------------------------------------------------------------------------
(* The plan.                                                               *)

(* What integer division gives, in the form that the ranges need.          *)
LEMMA ChunkFits ==
    ASSUME NEW size \in Nat \ {0}, NEW n \in Nat \ {0}, n <= size
    PROVE  /\ size \div n \in Nat \ {0}
           /\ n * (size \div n) <= size
  BY SMT

(* A number rounded up to chunks is positive and no greater than itself.   *)
LEMMA DivCeilBounds ==
    ASSUME NEW size \in Nat \ {0}
    PROVE  DivCeil(size, MinChunk) \in 1 .. size
  BY MinChunkAssumption, SMT DEF DivCeil

(* calculate_segments never asks for more ranges than max_segments, nor    *)
(* for more than there are bytes.                                          *)
THEOREM CountBounds ==
    ASSUME NEW size \in Nat \ {0}, NEW max \in Nat \ {0}
    PROVE  /\ CalculateSegments(size, max) \in 1 .. max
           /\ CalculateSegments(size, max) <= size
<1>1. DivCeil(size, MinChunk) \in 1 .. size
  BY DivCeilBounds
<1>2. CalculateSegments(size, max) = Clamp(DivCeil(size, MinChunk), 1, max)
  BY DEF CalculateSegments
<1>3. QED
  BY <1>1, <1>2 DEF Clamp

(* The first range of consecutive ones ends where the second begins.       *)
LEMMA Multiples ==
    ASSUME NEW i \in Nat, NEW c \in Nat
    PROVE  i * c \in Nat /\ (i + 1) * c = i * c + c
  BY SMT

LEMMA LastChunk ==
    ASSUME NEW n \in Nat \ {0}, NEW c \in Nat \ {0}
    PROVE  (n - 1) * c \in Nat /\ (n - 1) * c = n * c - c
<1>1. n - 1 \in Nat /\ (n - 1) + 1 = n
  OBVIOUS
<1>2. QED
  BY <1>1, Multiples

(* split_ranges divides a file that has at least one byte per range into   *)
(* non-empty ranges that follow one another and cover it, so no byte is    *)
(* fetched twice and none is missing.                                      *)
THEOREM SplitPartitions ==
    ASSUME NEW size \in Nat \ {0}, NEW n \in Nat \ {0}, n <= size
    PROVE  Partitions(SplitRanges(size, n), size, n)
<1> DEFINE c == size \div n
           r == SplitRanges(size, n)
<1>1. c \in Nat \ {0} /\ n * c <= size
  BY ChunkFits
<1>2. \A i \in 1 .. n : r[i] = <<(i - 1) * c, IF i = n THEN size - 1 ELSE i * c - 1>>
  BY DEF SplitRanges
<1> HIDE DEF c, r
<1>3. r[1][1] = 0
  <2>1. r[1] = <<(1 - 1) * c, IF 1 = n THEN size - 1 ELSE 1 * c - 1>>
    BY <1>2
  <2>2. (1 - 1) * c = 0
    BY <1>1
  <2>3. QED
    BY <2>1, <2>2
<1>4. r[n][2] = size - 1
  BY <1>2
<1>5. \A i \in 1 .. n : r[i][1] <= r[i][2]
  <2> TAKE i \in 1 .. n
  <2>1. CASE i = n
    <3>1. (n - 1) * c = n * c - c
      BY <1>1, LastChunk
    <3>2. r[i] = <<(n - 1) * c, size - 1>>
      BY <1>2, <2>1
    <3>3. n * c \in Nat
      BY <1>1, Multiples
    <3>4. QED
      BY <1>1, <3>1, <3>2, <3>3
  <2>2. CASE i # n
    <3>1. (i - 1) * c = i * c - c /\ i * c \in Nat
      BY <1>1, LastChunk, Multiples
    <3>2. r[i] = <<(i - 1) * c, i * c - 1>>
      BY <1>2, <2>2
    <3>3. QED
      BY <1>1, <3>1, <3>2
  <2>3. QED
    BY <2>1, <2>2
<1>6. \A i \in 1 .. n - 1 : r[i + 1][1] = r[i][2] + 1
  <2> TAKE i \in 1 .. n - 1
  <2>1. i \in 1 .. n /\ i + 1 \in 1 .. n /\ i # n /\ (i + 1) - 1 = i
    OBVIOUS
  <2>2. r[i] = <<(i - 1) * c, i * c - 1>>
    BY <1>2, <2>1
  <2>3. r[i + 1][1] = i * c
    BY <1>2, <2>1
  <2>4. i * c \in Nat
    BY <1>1, Multiples
  <2>5. QED
    BY <2>2, <2>3, <2>4
<1>7. QED
  BY <1>3, <1>4, <1>5, <1>6 DEF Partitions, r

(* The plan that download() makes for any file it can size.                *)
THEOREM PlanPartitions ==
    ASSUME NEW size \in Nat \ {0}, NEW max \in Nat \ {0}
    PROVE  LET n == CalculateSegments(size, max)
           IN  Partitions(SplitRanges(size, n), size, n)
<1>1. CalculateSegments(size, max) \in Nat \ {0} /\ CalculateSegments(size, max) <= size
  BY CountBounds
<1>2. QED
  BY <1>1, SplitPartitions

-----------------------------------------------------------------------------
(* The inductive invariants.                                               *)

Count == CalculateSegments(Size, MaxSegments)
Byte == 0 .. Size - 1
Event == [ev : {"Started", "Paused", "Failed", "Completed"}, plan : {"none", "segs"}]
Get == [pc : {"get"}, at : Nat]
Body == [pc : {"body"}, at : Nat, until : Nat]
TaskState == {Off, [pc |-> "done"], [pc |-> "stopped"], [pc |-> "failed"]} \cup Get \cup Body

(* The types, and where a body may end.                                    *)
RowTyped ==
    row \in [status : {"Queued", "Active", "Paused", "Failed", "Completed", "Cancelled"},
             plan : {"none", "segs"}]
RunTyped ==
    /\ pc \in {"rest", "begin", "transfer", "copy", "delete", "erred", "backoff"}
    /\ plan \in {"none", "segs"} /\ stop \in BOOLEAN /\ tries \in 0 .. MaxTries /\ next \in Nat
TasksTyped ==
    /\ task \in [Files -> TaskState]
    /\ \A f \in Files : task[f].pc = "body" => task[f].until \in Byte
FilesTyped == disk \in [Files -> Seq(Byte)] /\ buf \in [Files -> Seq(Byte)] /\ out \in Seq(Byte)
BoundsTyped == attempts \in 0 .. MaxAttempts /\ crashes \in 0 .. MaxCrashes /\ honest \in BOOLEAN

TypeInv ==
    /\ RowTyped /\ events \in Seq(Event) /\ RunTyped
    /\ TasksTyped /\ FilesTyped /\ BoundsTyped

Finished == row.status = "Completed" \/ Announced

(* Tasks exist during a transfer only: those of all segments, or the one   *)
(* of the single stream. None stops unasked, and no run goes on after it   *)
(* has announced the completion of the download.                           *)
RunInv ==
    /\ pc # "transfer" => \A f \in Files : task[f] = Off
    /\ pc = "transfer" => \A f \in Segs : task[f] = Off <=> task[Single] # Off
    /\ \A f \in Files : task[f].pc = "stopped" => stop
    /\ pc # "rest" => ~ Finished

(* s holds consecutive bytes of the resource, the first of them at.        *)
From(s, at) == \A k \in 1 .. Len(s) : s[k] = at + k - 1

Fill(f) == Len(disk[f]) + Len(buf[f])

(* A part is a prefix of its segment, and its task asks for the byte after *)
(* it, or for the first one of a file that Open will empty.                *)
PartInv(f) ==
    /\ From(disk[f], First(f)) /\ From(buf[f], First(f) + Len(disk[f]))
    /\ Fill(f) <= Length(f)
    /\ task[f].pc = "get" =>
           /\ buf[f] = <<>>
           /\ \/ task[f].at = First(f) + Len(disk[f])
              \/ task[f].at = First(f) /\ plan = "none"
    /\ task[f].pc = "body" => task[f].at = First(f) + Fill(f) /\ task[f].until = Last(f)
    /\ task[f].pc = "done" => buf[f] = <<>> /\ Len(disk[f]) = Length(f)

Exact == From(out, 0) /\ Len(out) = Size

(* The bytes before segment n, or all of them.                             *)
Before(n) == IF n \in Segs THEN First(n) ELSE Size

(* Whole parts are copied: out holds the segments before next.             *)
OutInv ==
    /\ pc \in {"copy", "delete"} => \A f \in Segs : buf[f] = <<>>
    /\ pc = "copy" =>
           /\ \A f \in Segs : Len(disk[f]) = Length(f)
           /\ From(out, 0) /\ \A n \in Nat : next = n => Len(out) = Before(n)
    /\ pc = "delete" \/ Finished => Exact

BytesInv == honest => (\A f \in Files : PartInv(f)) /\ OutInv

Inv == TypeInv /\ RunInv /\ BytesInv

-----------------------------------------------------------------------------
(* The segments and their bounds.                                          *)

LEMMA CountPositive == Count \in Nat \ {0} /\ Count <= Size
<1>1. Size \in Nat \ {0} /\ MaxSegments \in Nat \ {0}
  BY SizeAssumption, MaxSegmentsAssumption
<1>2. Count \in 1 .. MaxSegments /\ Count <= Size
  BY <1>1, CountBounds DEF Count
<1>3. QED
  BY <1>1, <1>2

LEMMA SegsAre == Segs = 1 .. Count /\ Single \notin Segs
  BY CountPositive DEF Segs, Ranges, Count, SplitRanges, Single

LEMMA FilesAre ==
    /\ Single \in Files
    /\ \A f \in Segs : f \in Files /\ f \in Nat \ {0}
    /\ \A f \in Files : f # Single => f \in Segs
  BY CountPositive, SegsAre DEF Files, Single

LEMMA Ordered ==
    ASSUME NEW i \in Nat, NEW j \in Nat, i <= j, NEW c \in Nat
    PROVE  i * c <= j * c
<1>1. PICK d \in Nat : j = i + d
  <2>1. j - i \in Nat /\ j = i + (j - i)
    OBVIOUS
  <2>2. QED
    BY <2>1
<1>2. (i + d) * c = i * c + d * c /\ i * c \in Nat /\ d * c \in Nat
  BY SMT
<1>3. QED
  BY <1>1, <1>2

(* The bounds of segment i, as numbers.                                    *)
LEMMA SegmentBounds ==
    ASSUME NEW i \in Segs
    PROVE  First(i) \in Nat /\ Last(i) \in Byte
<1> DEFINE c == Size \div Count
<1>1. c \in Nat \ {0} /\ Count * c <= Size /\ i \in 1 .. Count /\ Count * c \in Nat
  BY CountPositive, SegsAre, SizeAssumption, ChunkFits, Multiples
<1>2. First(i) = (i - 1) * c /\ Last(i) = IF i = Count THEN Size - 1 ELSE i * c - 1
  BY SegsAre DEF First, Last, Ranges, SplitRanges, Count
<1> HIDE DEF c
<1>3. (i - 1) * c \in Nat /\ i * c \in Nat /\ (i - 1) * c = i * c - c
  BY <1>1, LastChunk, Multiples
<1>4. i * c <= Count * c
  BY <1>1, CountPositive, Ordered
<1>5. QED
  BY <1>1, <1>2, <1>3, <1>4, SizeAssumption DEF Byte

(* Every file is part of the resource and not empty.                       *)
LEMMA FileBounds ==
    ASSUME NEW f \in Files
    PROVE  /\ First(f) \in Nat /\ Last(f) \in Byte /\ First(f) <= Last(f)
           /\ Length(f) \in Nat \ {0} /\ Length(f) = Last(f) - First(f) + 1
<1>1. CASE f = Single
  BY <1>1, SizeAssumption DEF First, Last, Length, Byte
<1>2. CASE f \in Segs
  <2>1. Partitions(Ranges, Size, Count)
    BY SizeAssumption, MaxSegmentsAssumption, PlanPartitions DEF Ranges, Count
  <2>2. First(f) <= Last(f)
    BY <1>2, <2>1, SegsAre DEF Partitions, First, Last
  <2>3. First(f) \in Nat /\ Last(f) \in Byte
    BY <1>2, SegmentBounds
  <2>4. QED
    BY <2>2, <2>3, SizeAssumption DEF Length, Byte
<1>3. QED
  BY <1>1, <1>2, FilesAre

(* The segments follow one another from the first byte to the last.        *)
LEMMA Consecutive ==
    /\ 1 \in Segs /\ First(1) = 0
    /\ \A f \in Segs : First(f) + Length(f) = IF f + 1 \in Segs THEN First(f + 1) ELSE Size
<1>1. Partitions(Ranges, Size, Count)
  BY SizeAssumption, MaxSegmentsAssumption, PlanPartitions DEF Ranges, Count
<1>2. 1 \in Segs /\ First(1) = 0
  BY <1>1, CountPositive, SegsAre DEF Partitions, First, Single
<1>3. ASSUME NEW f \in Segs
      PROVE  First(f) + Length(f) = IF f + 1 \in Segs THEN First(f + 1) ELSE Size
  <2>1. First(f) \in Nat /\ Last(f) \in Byte /\ First(f) + Length(f) = Last(f) + 1
    BY <1>3, FileBounds, FilesAre DEF Byte
  <2>2. CASE f + 1 \in Segs
    <3>1. f \in 1 .. Count - 1
      BY <2>2, CountPositive, SegsAre
    <3>2. Ranges[f + 1][1] = Ranges[f][2] + 1
      BY <1>1, <3>1 DEF Partitions
    <3>3. First(f + 1) = Ranges[f + 1][1] /\ Last(f) = Ranges[f][2]
      BY <2>2, SegsAre DEF First, Last
    <3>4. QED
      BY <2>1, <2>2, <3>2, <3>3
  <2>3. CASE f + 1 \notin Segs
    <3>1. f = Count
      BY <2>3, CountPositive, SegsAre
    <3>2. Last(f) = Size - 1
      BY <1>1, <3>1, SegsAre DEF Partitions, Last
    <3>3. QED
      BY <2>1, <2>3, <3>2, SizeAssumption
  <2>4. QED
    BY <2>2, <2>3
<1>4. QED
  BY <1>2, <1>3

-----------------------------------------------------------------------------
(* Sequences of bytes.                                                     *)

LEMMA FromEmpty == \A at : From(<<>>, at)
  BY DEF From

LEMMA FromOne == ASSUME NEW b \in Byte PROVE <<b>> \in Seq(Byte) /\ Len(<<b>>) = 1 /\ From(<<b>>, b)
  BY SizeAssumption DEF From, Byte

(* Two runs of bytes, the second after the first, are one.                 *)
LEMMA FromConcat ==
    ASSUME NEW s \in Seq(Byte), NEW t \in Seq(Byte), NEW at \in Nat,
           From(s, at), From(t, at + Len(s))
    PROVE  /\ s \o t \in Seq(Byte) /\ Len(s \o t) = Len(s) + Len(t)
           /\ From(s \o t, at)
<1>1. Len(s) \in Nat /\ Len(t) \in Nat
  BY LenProperties
<1>2. s \o t \in Seq(Byte) /\ Len(s \o t) = Len(s) + Len(t)
  BY ConcatProperties
<1>3. ASSUME NEW k \in 1 .. Len(s) + Len(t)
      PROVE  (s \o t)[k] = at + k - 1
  <2>1. (s \o t)[k] = IF k <= Len(s) THEN s[k] ELSE t[k - Len(s)]
    BY ConcatProperties
  <2>2. CASE k <= Len(s)
    BY <1>1, <2>1, <2>2 DEF From
  <2>3. CASE ~ (k <= Len(s))
    <3>1. k - Len(s) \in 1 .. Len(t)
      BY <1>1, <2>3
    <3>2. t[k - Len(s)] = at + Len(s) + (k - Len(s)) - 1
      BY <3>1 DEF From
    <3>3. QED
      BY <1>1, <2>1, <2>3, <3>2
  <2>4. QED
    BY <2>2, <2>3
<1>4. QED
  BY <1>2, <1>3 DEF From

(* Consecutive bytes are what Bytes says.                                  *)
LEMMA FromIsBytes ==
    ASSUME NEW s \in Seq(Byte), NEW at \in Nat, From(s, at)
    PROVE  s = Bytes(at, at + Len(s) - 1)
<1>1. Len(s) \in Nat /\ DOMAIN s = 1 .. Len(s) /\ s \in [1 .. Len(s) -> Byte]
  BY LenProperties
<1>2. (at + Len(s) - 1) - at + 1 = Len(s)
  BY <1>1
<1>3. Bytes(at, at + Len(s) - 1) = [k \in 1 .. Len(s) |-> at + k - 1]
  BY <1>2 DEF Bytes
<1>4. \A k \in 1 .. Len(s) : s[k] = at + k - 1
  BY DEF From
<1>5. QED
  BY <1>1, <1>3, <1>4

-----------------------------------------------------------------------------
(* Types.                                                                  *)

LEMMA TypesImply == TypeInv => TypeOK
<1>1. events \in Seq(Event) => \A i \in DOMAIN events : events[i] \in Event
  BY LenProperties, ElementOfSeq
<1>2. QED
  BY <1>1 DEF TypeInv, TypeOK, RowTyped, RunTyped, TasksTyped, FilesTyped, BoundsTyped,
              TaskState, Get, Body, Byte, Event

LEMMA TaskStates ==
    ASSUME TasksTyped, NEW f \in Files
    PROVE  /\ task[f] \in TaskState
           /\ task[f].pc = "get" => task[f] \in Get /\ task[f].at \in Nat
           /\ task[f].pc = "body" =>
                  task[f] \in Body /\ task[f].at \in Nat /\ task[f].until \in Byte
  BY DEF TasksTyped, TaskState, Get, Body, Off

LEMMA EmitTyped ==
    ASSUME events \in Seq(Event), NEW e \in {"Started", "Paused", "Failed", "Completed"},
           NEW p \in {"none", "segs"}, Emit(e, p)
    PROVE  events' \in Seq(Event)
  BY AppendProperties DEF Emit, Event

(* One task changes its state.                                             *)
LEMMA TaskSet ==
    ASSUME TasksTyped, NEW f \in Files, NEW t \in TaskState, t.pc = "body" => t.until \in Byte,
           task' = [task EXCEPT ![f] = t]
    PROVE  TasksTyped'
  BY DEF TasksTyped

LEMMA AllOffTyped ==
    task' = AllOff => TasksTyped'
  BY DEF TasksTyped, AllOff, TaskState, Off

LEMMA AskTyped ==
    ASSUME NEW f \in Files, NEW n \in Nat
    PROVE  Ask(f, n) \in TaskState /\ Ask(f, n).pc = "get"
  BY FileBounds DEF Ask, TaskState, Get

LEMMA OnDiskBounds ==
    ASSUME FilesTyped, NEW f \in Files
    PROVE  /\ Len(disk[f]) \in Nat /\ Len(buf[f]) \in Nat
           /\ OnDisk(f) \in Nat /\ OnDisk(f) <= Len(disk[f])
           /\ Reconciled(f) \in Seq(Byte) /\ Len(Reconciled(f)) = OnDisk(f)
           /\ Len(disk[f]) <= Length(f) => Reconciled(f) = disk[f]
<1>1. disk[f] \in Seq(Byte) /\ buf[f] \in Seq(Byte)
  BY DEF FilesTyped
<1>2. Len(disk[f]) \in Nat /\ Len(buf[f]) \in Nat /\ Length(f) \in Nat \ {0}
  BY <1>1, LenProperties, FileBounds
<1>3. OnDisk(f) \in Nat /\ OnDisk(f) <= Len(disk[f])
  BY <1>2 DEF OnDisk
<1>4. \A i \in 1 .. OnDisk(f) : disk[f][i] \in Byte
  BY <1>1, <1>2, <1>3, ElementOfSeq
<1>5. Reconciled(f) \in Seq(Byte) /\ Len(Reconciled(f)) = OnDisk(f)
  BY <1>3, <1>4, SubSeqProperties DEF Reconciled
<1>6. Len(disk[f]) <= Length(f) => OnDisk(f) = Len(disk[f])
  BY <1>2 DEF OnDisk
<1>7. QED
  BY <1>1, <1>2, <1>3, <1>5, <1>6, SubSeqFull DEF Reconciled

(* The next-state relation keeps the types: what the tasks and the run     *)
(* write are bytes of the resource.                                        *)
LEMMA TypeKept == TypeInv /\ [Next]_vars => TypeInv'
<1> SUFFICES ASSUME TypeInv, [Next]_vars PROVE TypeInv'
  OBVIOUS
<1> USE DEF TypeInv
<1>1. CASE Launch
  <2>1. tries' \in 0 .. MaxTries /\ attempts' \in 0 .. MaxAttempts
    BY <1>1, BoundsAssumption DEF Launch, BoundsTyped
  <2>2. plan' \in {"none", "segs"}
    BY <1>1 DEF Launch, RowTyped
  <2>3. QED
    BY <1>1, <2>1, <2>2 DEF Launch, RowTyped, RunTyped, TasksTyped, FilesTyped, BoundsTyped
<1>2. CASE Stop
  BY <1>2 DEF Stop, RowTyped, RunTyped, TasksTyped, FilesTyped, BoundsTyped, run, bounds
<1>3. CASE Cancel
  <2>1. FilesTyped'
    BY <1>3, EmptySeq DEF Cancel, FilesTyped
  <2>2. QED
    BY <1>3, <2>1 DEF Cancel, RowTyped, RunTyped, TasksTyped, BoundsTyped, run, bounds
<1>4. CASE Consume
  <2>1. Head(events) \in Event /\ events' \in Seq(Event)
    BY <1>4, HeadTailProperties DEF Consume
  <2>2. RowTyped'
    BY <1>4, <2>1 DEF Consume, RowTyped, Event
  <2>3. QED
    BY <1>4, <2>1, <2>2 DEF Consume, RunTyped, TasksTyped, FilesTyped, BoundsTyped, run, bounds
<1>5. CASE BeginResume
  <2>1. events' \in Seq(Event)
    BY <1>5, EmitTyped DEF Begins, BeginResume
  <2>2. TasksTyped'
    <3>1. \A f \in Files : Off \in TaskState /\ [pc |-> "done"] \in TaskState
                          /\ Ask(f, OnDisk(f)) \in TaskState /\ Ask(f, OnDisk(f)).pc = "get"
      BY OnDiskBounds, AskTyped DEF TaskState
    <3>2. QED
      BY <1>5, <3>1 DEF Begins, BeginResume, TasksTyped, Off
  <2>3. FilesTyped'
    BY <1>5, OnDiskBounds DEF Begins, BeginResume, FilesTyped
  <2>4. QED
    BY <1>5, <2>1, <2>2, <2>3 DEF Begins, BeginResume, RowTyped, RunTyped, BoundsTyped, bounds
<1>6. CASE BeginSegments
  <2>1. events' \in Seq(Event)
    BY <1>6, EmitTyped DEF Begins, BeginSegments
  <2>2. TasksTyped'
    <3>1. \A f \in Files : Off \in TaskState
                          /\ Ask(f, 0) \in TaskState /\ Ask(f, 0).pc = "get"
      BY AskTyped DEF TaskState
    <3>2. QED
      BY <1>6, <3>1 DEF Begins, BeginSegments, TasksTyped, Off
  <2>3. QED
    BY <1>6, <2>1, <2>2 DEF Begins, BeginSegments, RowTyped, RunTyped, FilesTyped, BoundsTyped, bounds
<1>7. CASE BeginSingle
  <2>1. TasksTyped'
    <3>1. Off \in TaskState /\ Ask(Single, 0) \in TaskState /\ Ask(Single, 0).pc = "get"
      BY AskTyped, FilesAre DEF TaskState
    <3>2. QED
      BY <1>7, <3>1 DEF Begins, BeginSingle, TasksTyped, AllOff, Off
  <2>2. QED
    BY <1>7, <2>1 DEF Begins, BeginSingle, RowTyped, RunTyped, FilesTyped, BoundsTyped, bounds
<1>8. CASE JoinStopped
  <2>1. events' \in Seq(Event)
    BY <1>8, EmitTyped DEF JoinStopped, RunTyped
  <2>2. TasksTyped'
    BY <1>8, AllOffTyped DEF JoinStopped, Rest
  <2>3. QED
    BY <1>8, <2>1, <2>2 DEF JoinStopped, Rest, RowTyped, RunTyped, FilesTyped, BoundsTyped, run, bounds
<1>9. CASE JoinFailed
  <2>1. TasksTyped'
    BY <1>9, AllOffTyped DEF JoinFailed, Rest
  <2>2. QED
    BY <1>9, <2>1 DEF JoinFailed, Rest, RowTyped, RunTyped, FilesTyped, BoundsTyped, run, bounds
<1>10. CASE JoinDone
  <2>1. TasksTyped'
    BY <1>10, AllOffTyped DEF JoinDone
  <2>2. FilesTyped'
    BY <1>10, EmptySeq DEF JoinDone, FilesTyped
  <2>3. QED
    BY <1>10, <2>1, <2>2 DEF JoinDone, RowTyped, RunTyped, BoundsTyped, bounds
<1>11. CASE Finalize
  <2>1. events' \in Seq(Event)
    BY <1>11, EmitTyped DEF Finalize
  <2>2. TasksTyped'
    BY <1>11, AllOffTyped DEF Finalize, Rest
  <2>3. FilesTyped'
    BY <1>11, EmptySeq, FilesAre DEF Finalize, FilesTyped
  <2>4. QED
    BY <1>11, <2>1, <2>2, <2>3 DEF Finalize, Rest, RowTyped, RunTyped, BoundsTyped, bounds
<1>12. CASE FinalizeFails
  <2>1. TasksTyped'
    BY <1>12, AllOffTyped DEF FinalizeFails
  <2>2. FilesTyped'
    BY <1>12, EmptySeq DEF FinalizeFails, FilesTyped
  <2>3. QED
    BY <1>12, <2>1, <2>2 DEF FinalizeFails, RowTyped, RunTyped, BoundsTyped, bounds
<1>13. CASE CopyPart
  <2>1. FilesTyped'
    BY <1>13, ConcatProperties, FilesAre DEF CopyPart, FilesTyped
  <2>2. QED
    BY <1>13, <2>1 DEF CopyPart, RowTyped, RunTyped, TasksTyped, BoundsTyped, bounds
<1>14. CASE CopiesDone
  BY <1>14 DEF CopiesDone, RowTyped, RunTyped, TasksTyped, FilesTyped, BoundsTyped, run, bounds
<1>15. CASE CopyFails
  BY <1>15 DEF CopyFails, RowTyped, RunTyped, TasksTyped, FilesTyped, BoundsTyped, run, bounds
<1>16. CASE DeletePart
  <2>1. FilesTyped'
    BY <1>16, EmptySeq DEF DeletePart, FilesTyped
  <2>2. QED
    BY <1>16, <2>1 DEF DeletePart, RowTyped, RunTyped, TasksTyped, BoundsTyped, bounds
<1>17. CASE DeletesDone
  <2>1. events' \in Seq(Event)
    BY <1>17, EmitTyped DEF DeletesDone, RunTyped
  <2>2. TasksTyped'
    BY <1>17, AllOffTyped DEF DeletesDone, Rest
  <2>3. QED
    BY <1>17, <2>1, <2>2 DEF DeletesDone, Rest, RowTyped, RunTyped, FilesTyped, BoundsTyped, run, bounds
<1>18. CASE GiveUp
  <2>1. events' \in Seq(Event)
    BY <1>18, EmitTyped DEF GiveUp, RunTyped
  <2>2. TasksTyped'
    BY <1>18, AllOffTyped DEF GiveUp, Rest
  <2>3. QED
    BY <1>18, <2>1, <2>2 DEF GiveUp, Rest, RowTyped, RunTyped, FilesTyped, BoundsTyped, run, bounds
<1>19. CASE Backoff
  <2>1. tries' \in 0 .. MaxTries /\ attempts' \in 0 .. MaxAttempts
    BY <1>19, BoundsAssumption DEF Backoff, RunTyped, BoundsTyped
  <2>2. QED
    BY <1>19, <2>1 DEF Backoff, RowTyped, RunTyped, TasksTyped, FilesTyped, BoundsTyped
<1>20. CASE BackoffStops
  <2>1. events' \in Seq(Event)
    BY <1>20, EmitTyped DEF BackoffStops, RunTyped
  <2>2. TasksTyped'
    BY <1>20, AllOffTyped DEF BackoffStops, Rest
  <2>3. QED
    BY <1>20, <2>1, <2>2 DEF BackoffStops, Rest, RowTyped, RunTyped, FilesTyped, BoundsTyped, run, bounds
<1>21. CASE BackoffOver
  BY <1>21 DEF BackoffOver, RowTyped, RunTyped, TasksTyped, FilesTyped, BoundsTyped, bounds
<1>22. ASSUME NEW f \in Files, Answer(f) \/ AnswerWhole(f)
      PROVE  TypeInv'
  <2>0. honest' \in BOOLEAN
    BY <1>22 DEF Answer, AnswerWhole, BoundsTyped
  <2>1. PICK at \in Nat, until \in Byte : Answers(f, at, until)
    <3>1. CASE Answer(f)
      <4>1. task[f].at \in Nat /\ Last(f) \in Byte
        BY <3>1, TaskStates, FileBounds DEF Answer, Answers
      <4>2. QED
        BY <3>1, <4>1 DEF Answer
    <3>2. CASE AnswerWhole(f)
      <4>1. 0 \in Nat /\ Size - 1 \in Byte
        BY SizeAssumption DEF Byte
      <4>2. QED
        BY <3>2, <4>1 DEF AnswerWhole
    <3>3. QED
      BY <1>22, <3>1, <3>2
  <2>2. TasksTyped'
    <3>1. [pc |-> "body", at |-> at, until |-> until] \in TaskState
      BY SizeAssumption DEF TaskState, Body, Byte
    <3>2. QED
      BY <2>1, <3>1, TaskSet DEF Answers
  <2>3. FilesTyped'
    <3>1. Open(f) \in Seq(Byte)
      BY EmptySeq DEF Open, FilesTyped
    <3>2. QED
      BY <2>1, <3>1 DEF Answers, FilesTyped
  <2>4. events' \in Seq(Event)
    BY <2>1, EmitTyped DEF Answers
  <2>5. QED
    BY <2>0, <2>1, <2>2, <2>3, <2>4 DEF Answers, RowTyped, RunTyped, BoundsTyped, run, bounds
<1>23. ASSUME NEW f \in Files, Receive(f)
      PROVE  TypeInv'
  <2>1. task[f].at \in Byte /\ [task[f] EXCEPT !.at = @ + 1] \in Body
    BY <1>23, TaskStates, SizeAssumption DEF Receive, Body, Byte
  <2>2. TasksTyped'
    <3>1. [task[f] EXCEPT !.at = @ + 1].until = task[f].until
      BY <1>23, TaskStates DEF Receive, Body
    <3>2. QED
      BY <1>23, <2>1, <3>1, TaskSet, TaskStates DEF Receive, TaskState
  <2>3. disk[f] \o buf[f] \in Seq(Byte) /\ <<task[f].at>> \in Seq(Byte)
    BY <2>1, ConcatProperties, FromOne DEF FilesTyped
  <2>4. FilesTyped'
    BY <1>23, <2>3 DEF Receive, FilesTyped
  <2>5. QED
    BY <1>23, <2>2, <2>4 DEF Receive, RowTyped, RunTyped, BoundsTyped, run, bounds
<1>24. ASSUME NEW f \in Files, Settle(f)
      PROVE  TypeInv'
  <2>1. disk[f] \o buf[f] \in Seq(Byte) /\ <<>> \in Seq(Byte)
    BY ConcatProperties, EmptySeq DEF FilesTyped
  <2>2. FilesTyped'
    BY <1>24, <2>1 DEF Settle, FilesTyped
  <2>3. QED
    BY <1>24, <2>2 DEF Settle, RowTyped, RunTyped, TasksTyped, BoundsTyped, run, bounds
<1>25. ASSUME NEW f \in Files, BodyEnds(f) \/ BodyEndsShort(f) \/ TaskStops(f)
      PROVE  TypeInv'
  <2>1. PICK how \in {"done", "stopped"} : Leave(f, how) /\ honest' \in BOOLEAN
    BY <1>25 DEF BodyEnds, BodyEndsShort, TaskStops, BoundsTyped
  <2>2. TasksTyped'
    BY <2>1, TaskSet DEF Leave, TaskState
  <2>3. disk[f] \o buf[f] \in Seq(Byte) /\ <<>> \in Seq(Byte)
    BY ConcatProperties, EmptySeq DEF FilesTyped
  <2>4. FilesTyped'
    BY <2>1, <2>3 DEF Leave, FilesTyped
  <2>5. QED
    BY <2>1, <2>2, <2>4 DEF Leave, RowTyped, RunTyped, BoundsTyped, run, bounds
<1>26. ASSUME NEW f \in Files, TaskFails(f)
      PROVE  TypeInv'
  <2>1. TasksTyped'
    BY <1>26, TaskSet DEF TaskFails, TaskState
  <2>2. QED
    BY <1>26, <2>1 DEF TaskFails, RowTyped, RunTyped, FilesTyped, BoundsTyped, run, bounds
<1>27. CASE Crash
  <2>1. FilesTyped'
    BY <1>27, ConcatProperties, EmptySeq DEF Crash, FilesTyped
  <2>2. TasksTyped' /\ events' \in Seq(Event)
    BY <1>27, AllOffTyped, EmptySeq DEF Crash
  <2>3. crashes' \in 0 .. MaxCrashes
    BY <1>27, BoundsAssumption DEF Crash, BoundsTyped
  <2>4. QED
    BY <1>27, <2>1, <2>2, <2>3 DEF Crash, RowTyped, RunTyped, BoundsTyped
<1>28. CASE UNCHANGED vars
  BY <1>28 DEF vars, RowTyped, RunTyped, TasksTyped, FilesTyped, BoundsTyped, run, bounds
<1>29. QED
  BY <1>1, <1>2, <1>3, <1>4, <1>5, <1>6, <1>7, <1>8, <1>9, <1>10, <1>11, <1>12, <1>13, <1>14, <1>15, <1>16, <1>17, <1>18, <1>19, <1>20, <1>21, <1>22, <1>23, <1>24, <1>25, <1>26, <1>27, <1>28
     DEF Next, RunStep, TaskStep

LEMMA TypeStart == Init => TypeInv
<1> SUFFICES ASSUME Init PROVE TypeInv
  OBVIOUS
<1>1. TasksTyped
  BY DEF Init, AllOff, TasksTyped, TaskState, Off
<1>2. FilesTyped /\ events \in Seq(Event)
  BY EmptySeq DEF Init, FilesTyped
<1>3. tries \in 0 .. MaxTries /\ attempts \in 0 .. MaxAttempts /\ crashes \in 0 .. MaxCrashes
  BY BoundsAssumption DEF Init
<1>4. QED
  BY <1>1, <1>2, <1>3 DEF Init, TypeInv, RowTyped, RunTyped, BoundsTyped

(* Type correctness, for every size, plan and bound.                       *)
THEOREM TypeCorrect == Spec => []TypeOK
  BY TypeStart, TypeKept, TypesImply, PTL DEF Spec

-----------------------------------------------------------------------------
(* The run and its tasks.                                                  *)

LEMMA EmitAnnounces ==
    ASSUME events \in Seq(Event), NEW e \in {"Started", "Paused", "Failed", "Completed"},
           NEW p \in {"none", "segs"}, Emit(e, p)
    PROVE  Announced' => Announced \/ e = "Completed"
<1> DEFINE m == [ev |-> e, plan |-> p]
<1>1. m \in Event
  BY DEF Event
<1>2. /\ events' \in Seq(Event) /\ Len(events') = Len(events) + 1 /\ Len(events) \in Nat
      /\ \A i \in 1 .. Len(events) : events'[i] = events[i]
      /\ events'[Len(events) + 1] = m
  BY <1>1, AppendProperties, LenProperties DEF Emit
<1>3. DOMAIN events = 1 .. Len(events) /\ DOMAIN events' = 1 .. Len(events) + 1
  BY <1>2, LenProperties
<1>4. ASSUME NEW i \in DOMAIN events', events'[i].ev = "Completed"
      PROVE  Announced \/ e = "Completed"
  <2>1. CASE i \in 1 .. Len(events)
    BY <1>2, <1>3, <1>4, <2>1 DEF Announced
  <2>2. CASE i = Len(events) + 1
    BY <1>2, <1>4, <2>2
  <2>3. QED
    BY <1>2, <1>3, <2>1, <2>2
<1>5. QED
  BY <1>4 DEF Announced

LEMMA ConsumeFinishes ==
    ASSUME TypeInv, Consume
    PROVE  Finished' => Finished
<1>1. events \in Seq(Event) /\ events # <<>> /\ events' = Tail(events)
  BY DEF Consume, TypeInv
<1>2. /\ DOMAIN events = 1 .. Len(events) /\ Len(events) \in Nat \ {0}
      /\ DOMAIN events' = 1 .. Len(events) - 1
      /\ \A i \in 1 .. Len(events) - 1 : events'[i] = events[i + 1]
      /\ Head(events) = events[1]
  BY <1>1, LenProperties, EmptySeq, HeadTailProperties
<1>3. Announced' => Announced
  BY <1>2 DEF Announced
<1>4. row'.status = "Completed" => Finished
  <2>1. Head(events) \in Event /\ (Head(events).ev = "Completed" => Announced)
    BY <1>1, <1>2, ElementOfSeq DEF Announced
  <2>2. QED
    BY <2>1 DEF Consume, TypeInv, RowTyped, Finished, Event
<1>5. QED
  BY <1>3, <1>4 DEF Finished

(* Only the ends of assemble_parts and of finalize make a download one     *)
(* that is, or is about to be, completed.                                  *)
LEMMA FinishedBy ==
    ASSUME TypeInv, [Next]_vars
    PROVE  Finished' => Finished \/ DeletesDone \/ Finalize
<1>0. events \in Seq(Event) /\ RowTyped /\ RunTyped
  BY DEF TypeInv
<1>1. CASE Launch \/ Stop
  BY <1>1 DEF Launch, Stop, Finished, Announced
<1>2. CASE Cancel
  BY <1>0, <1>2 DEF Cancel, Finished, Announced, RowTyped
<1>3. CASE Consume
  BY <1>3, ConsumeFinishes
<1>4. CASE RunStep
  <2>1. CASE JoinFailed \/ JoinDone \/ FinalizeFails \/ BeginSingle
    BY <2>1 DEF JoinFailed, JoinDone, FinalizeFails, Begins, BeginSingle, Finished, Announced
  <2>2. CASE CopyPart \/ CopiesDone \/ CopyFails \/ DeletePart \/ Backoff \/ BackoffOver
    BY <2>2 DEF CopyPart, CopiesDone, CopyFails, DeletePart, Backoff, BackoffOver,
                Finished, Announced
  <2>3. CASE BeginResume \/ BeginSegments \/ JoinStopped \/ GiveUp \/ BackoffStops
    <3>1. PICK e \in {"Started", "Paused", "Failed"}, p \in {"none", "segs"} :
              Emit(e, p) /\ row' = row
      BY <1>0, <2>3 DEF Begins, BeginResume, BeginSegments, JoinStopped, GiveUp, BackoffStops, RunTyped
    <3>2. QED
      BY <1>0, <3>1, EmitAnnounces DEF Finished
  <2>4. QED
    BY <1>4, <2>1, <2>2, <2>3 DEF RunStep
<1>5. ASSUME NEW f \in Files, TaskStep(f) \/ Settle(f)
      PROVE  Finished' => Finished
  <2>1. CASE Answer(f) \/ AnswerWhole(f)
    <3>1. row' = row /\ (Emit("Started", "none") \/ events' = events)
      BY <2>1 DEF Answer, AnswerWhole, Answers
    <3>2. QED
      BY <1>0, <3>1, EmitAnnounces DEF Finished, Announced
  <2>2. CASE ~ (Answer(f) \/ AnswerWhole(f))
    BY <1>5, <2>2 DEF TaskStep, Receive, BodyEnds, BodyEndsShort, TaskStops, Leave, TaskFails,
                      Settle, Finished, Announced
  <2>3. QED
    BY <2>1, <2>2
<1>6. CASE Crash
  BY <1>6, EmptySeq, LenProperties DEF Crash, Finished, Announced
<1>7. CASE UNCHANGED vars
  BY <1>7 DEF vars, Finished, Announced
<1>8. QED
  BY <1>1, <1>2, <1>3, <1>4, <1>5, <1>6, <1>7 DEF Next

(* A step of a task leaves every other file alone, and ends no task.       *)
LEMMA TaskStepIs ==
    ASSUME TypeInv, NEW f \in Files, TaskStep(f)
    PROVE  /\ task[f].pc \in {"get", "body"}
           /\ task'[f] # Off
           /\ task'[f].pc = "stopped" => stop
           /\ \A g \in Files : g # f => task'[g] = task[g]
           /\ UNCHANGED <<row, pc, plan, stop, out>>
<1>0. task \in [Files -> TaskState]
  BY DEF TypeInv, TasksTyped
<1>1. CASE Answer(f) \/ AnswerWhole(f)
  BY <1>0, <1>1 DEF Answer, AnswerWhole, Answers, Off, run
<1>2. CASE Receive(f)
  <2>1. task[f] \in Body
    BY <1>2, TaskStates DEF TypeInv, Receive
  <2>2. [task[f] EXCEPT !.at = @ + 1].pc = "body"
    BY <2>1 DEF Body
  <2>3. QED
    BY <1>0, <1>2, <2>2 DEF Receive, Off, run
<1>3. CASE BodyEnds(f) \/ BodyEndsShort(f) \/ TaskStops(f)
  <2>1. PICK how \in {"done", "stopped"} : Leave(f, how) /\ (how = "stopped" => stop)
    BY <1>3, Zenon DEF BodyEnds, BodyEndsShort, TaskStops
  <2>2. task[f].pc = "body"
    BY <1>3 DEF BodyEnds, BodyEndsShort, TaskStops
  <2>3. /\ task'[f] = [pc |-> how] /\ \A g \in Files : g # f => task'[g] = task[g]
        /\ UNCHANGED <<row, pc, plan, stop, out>>
    BY <1>0, <2>1 DEF Leave, run
  <2>4. task'[f].pc = how /\ task'[f] # Off
    BY <2>3 DEF Off
  <2>5. task'[f].pc = "stopped" => stop
    BY <2>1, <2>4
  <2>6. QED
    BY <2>2, <2>3, <2>4, <2>5
<1>4. CASE TaskFails(f)
  BY <1>0, <1>4 DEF TaskFails, Working, Off, run
<1>5. QED
  BY <1>1, <1>2, <1>3, <1>4 DEF TaskStep

LEMMA RunKept == TypeInv /\ RunInv /\ [Next]_vars => RunInv'
<1> SUFFICES ASSUME TypeInv, RunInv, [Next]_vars PROVE RunInv'
  OBVIOUS
<1>0. Finished' => Finished \/ DeletesDone \/ Finalize
  BY FinishedBy
<1>1. (\A f \in Files : task'[f] = Off) /\ pc' # "transfer" /\ (pc' # "rest" => pc # "rest") => RunInv'
  BY <1>0 DEF RunInv, Off, DeletesDone, Finalize, Rest
<1>2. CASE Launch
  <2>1. ~ Finished
    BY <1>2, EmptySeq, LenProperties DEF Launch, Finished, Announced
  <2>2. ~ Finished'
    BY <1>0, <1>2, <2>1 DEF Launch, DeletesDone, Finalize, Rest
  <2>3. QED
    BY <1>2, <2>2 DEF Launch, RunInv, Off
<1>3. CASE Stop
  BY <1>0, <1>3 DEF Stop, RunInv, Finished, Announced
<1>4. CASE Cancel \/ Consume
  BY <1>0, <1>4 DEF Cancel, Consume, RunInv, run, DeletesDone, Finalize, Rest
<1>5. CASE BeginResume \/ BeginSegments
  <2>1. /\ task'[Single] = Off /\ \A f \in Segs : task'[f] # Off
        /\ \A f \in Files : task'[f].pc \in {"off", "get", "done"}
    <3>1. \A f \in Files, n \in Nat : Ask(f, n).pc = "get"
      BY DEF Ask
    <3>2. \A f \in Files : OnDisk(f) \in Nat
      BY OnDiskBounds DEF TypeInv
    <3>3. QED
      BY <1>5, <3>1, <3>2, FilesAre, SegsAre DEF Begins, BeginResume, BeginSegments, Off
  <2>2. ~ Finished'
    BY <1>0, <1>5 DEF Begins, BeginResume, BeginSegments, RunInv, DeletesDone, Finalize, Rest
  <2>3. QED
    BY <1>5, <2>1, <2>2 DEF Begins, BeginResume, BeginSegments, RunInv
<1>6. CASE BeginSingle
  <2>1. /\ task'[Single] # Off /\ \A f \in Segs : task'[f] = Off
        /\ \A f \in Files : task'[f].pc \in {"off", "get"}
    BY <1>6, FilesAre, SegsAre DEF Begins, BeginSingle, AllOff, Off, Ask
  <2>2. ~ Finished'
    BY <1>0, <1>6 DEF Begins, BeginSingle, RunInv, DeletesDone, Finalize, Rest
  <2>3. QED
    BY <1>6, <2>1, <2>2 DEF Begins, BeginSingle, RunInv
<1>7. CASE JoinStopped \/ JoinFailed \/ JoinDone \/ Finalize \/ FinalizeFails
           \/ DeletesDone \/ GiveUp \/ BackoffStops
  <2>1. task' = AllOff /\ pc' # "transfer" /\ pc # "rest"
    BY <1>7 DEF JoinStopped, JoinFailed, JoinDone, Finalize, FinalizeFails, Joined,
                DeletesDone, GiveUp, BackoffStops, Rest
  <2>2. QED
    BY <1>1, <2>1 DEF AllOff
<1>8. CASE CopyPart \/ CopiesDone \/ CopyFails \/ DeletePart \/ Backoff \/ BackoffOver
  <2>1. UNCHANGED task /\ pc # "rest" /\ pc # "transfer" /\ pc' # "transfer"
    BY <1>8 DEF CopyPart, CopiesDone, CopyFails, DeletePart, Backoff, BackoffOver
  <2>2. QED
    BY <1>1, <2>1 DEF RunInv
<1>9. ASSUME NEW f \in Files, TaskStep(f) PROVE RunInv'
  <2>1. /\ task[f].pc \in {"get", "body"} /\ task'[f] # Off
        /\ (task'[f].pc = "stopped" => stop)
        /\ \A g \in Files : g # f => task'[g] = task[g]
        /\ UNCHANGED <<row, pc, plan, stop, out>>
    BY <1>9, TaskStepIs
  <2>2. pc = "transfer" /\ task[f] # Off
    BY <2>1 DEF RunInv, Off
  <2>3. \A g \in Files : task'[g] = Off <=> task[g] = Off
    BY <2>1, <2>2
  <2>4. ~ Finished'
    BY <1>0, <2>1, <2>2 DEF RunInv, DeletesDone, Finalize, Rest
  <2>5. \A g \in Files : task'[g].pc = "stopped" => stop'
    BY <2>1 DEF RunInv
  <2>6. QED
    BY <2>1, <2>2, <2>3, <2>4, <2>5, FilesAre DEF RunInv
<1>10. ASSUME NEW f \in Files, Settle(f) PROVE RunInv'
  BY <1>0, <1>10 DEF Settle, RunInv, run, DeletesDone, Finalize, Rest
<1>11. CASE Crash
  <2>1. task' = AllOff /\ pc' = "rest"
    BY <1>11 DEF Crash
  <2>2. QED
    BY <1>1, <2>1 DEF AllOff
<1>12. CASE UNCHANGED vars
  BY <1>12 DEF vars, run, RunInv, Finished, Announced
<1>13. QED
  BY <1>2, <1>3, <1>4, <1>5, <1>6, <1>7, <1>8, <1>9, <1>10, <1>11, <1>12 DEF Next, RunStep

-----------------------------------------------------------------------------
(* The parts.                                                              *)

(* What PartInv says, with the types of its terms.                         *)
LEMMA PartFacts ==
    ASSUME TypeInv, NEW f \in Files
    PROVE  /\ disk[f] \in Seq(Byte) /\ buf[f] \in Seq(Byte)
           /\ Len(disk[f]) \in Nat /\ Len(buf[f]) \in Nat
           /\ First(f) \in Nat /\ Last(f) \in Byte /\ Length(f) \in Nat \ {0}
           /\ Length(f) = Last(f) - First(f) + 1
  BY FileBounds, LenProperties DEF TypeInv, FilesTyped

LEMMA PartUntouched ==
    ASSUME NEW f \in Files, PartInv(f), disk'[f] = disk[f], buf'[f] = buf[f],
           \/ task'[f] = task[f] /\ plan' = plan
           \/ task'[f].pc \notin {"get", "body", "done"}
    PROVE  PartInv(f)'
  BY DEF PartInv, Fill

LEMMA PartEmptied ==
    ASSUME NEW f \in Files, disk'[f] = <<>>, buf'[f] = <<>>,
           task'[f].pc \notin {"get", "body", "done"}
    PROVE  PartInv(f)'
<1>1. Length(f) \in Nat
  BY FileBounds
<1>2. Len(<<>>) = 0
  BY EmptySeq
<1>3. QED
  BY <1>1, <1>2, FromEmpty DEF PartInv, Fill

(* The chunk on its way reaches the file, and the file is as full as it    *)
(* was going to be.                                                        *)
LEMMA Landed ==
    ASSUME TypeInv, NEW f \in Files, PartInv(f)
    PROVE  /\ disk[f] \o buf[f] \in Seq(Byte)
           /\ Len(disk[f] \o buf[f]) = Fill(f) /\ Fill(f) \in Nat
           /\ From(disk[f] \o buf[f], First(f))
<1>1. /\ disk[f] \in Seq(Byte) /\ buf[f] \in Seq(Byte) /\ First(f) \in Nat
      /\ Len(disk[f]) \in Nat /\ Len(buf[f]) \in Nat
  BY PartFacts
<1>2. From(disk[f], First(f)) /\ From(buf[f], First(f) + Len(disk[f]))
  BY DEF PartInv
<1> DEFINE d == disk[f]
           b == buf[f]
           at == First(f)
<1> HIDE DEF d, b, at
<1>3. /\ d \in Seq(Byte) /\ b \in Seq(Byte) /\ at \in Nat
      /\ From(d, at) /\ From(b, at + Len(d))
  BY <1>1, <1>2 DEF d, b, at
<1>4. d \o b \in Seq(Byte) /\ Len(d \o b) = Len(d) + Len(b) /\ From(d \o b, at)
  BY ONLY <1>3, FromConcat
<1>5. Fill(f) = Len(d) + Len(b) /\ Fill(f) \in Nat
  <2>1. Fill(f) = Len(d) + Len(b)
    BY Zenon DEF Fill, d, b
  <2>2. Len(d) \in Nat /\ Len(b) \in Nat
    BY <1>3, LenProperties
  <2>3. QED
    BY ONLY <2>1, <2>2
<1>6. QED
  BY <1>4, <1>5, Zenon DEF d, b, at

LEMMA PartLanded ==
    ASSUME TypeInv, NEW f \in Files, PartInv(f), disk'[f] = disk[f] \o buf[f], buf'[f] = <<>>,
           \/ task'[f] = task[f] /\ plan' = plan /\ task[f].pc = "body"
           \/ task'[f].pc = "done" /\ Fill(f) = Length(f)
           \/ task'[f].pc \notin {"get", "body", "done"}
    PROVE  PartInv(f)'
<1>1. /\ Len(disk'[f]) = Fill(f) /\ Fill(f) \in Nat /\ From(disk'[f], First(f))
  BY Landed
<1>2. Len(buf'[f]) = 0 /\ \A at : From(buf'[f], at)
  BY EmptySeq, FromEmpty
<1>3. Fill(f) <= Length(f)
      /\ (task[f].pc = "body" => task[f].at = First(f) + Fill(f) /\ task[f].until = Last(f))
  BY DEF PartInv
<1> DEFINE d == disk'[f]
           b == buf'[f]
<1>4. /\ From(d, First(f)) /\ From(b, First(f) + Len(d)) /\ Len(d) + Len(b) = Fill(f)
      /\ Len(d) = Fill(f) /\ b = <<>>
  BY <1>1, <1>2
<1>5. /\ task'[f].pc # "get"
      /\ task'[f].pc = "body" =>
             task'[f].at = First(f) + Fill(f) /\ task'[f].until = Last(f)
      /\ task'[f].pc = "done" => Fill(f) = Length(f)
  BY <1>3
<1>6. QED
  BY <1>3, <1>4, <1>5 DEF PartInv, Fill

(* Where a file is opened, what stays in it is what comes before the first *)
(* byte that was asked for.                                                *)
LEMMA Opened ==
    ASSUME TypeInv, NEW f \in Files, PartInv(f), task[f].pc = "get"
    PROVE  /\ Open(f) \in Seq(Byte) /\ From(Open(f), First(f)) /\ buf[f] = <<>>
           /\ task[f].at = First(f) + Len(Open(f)) /\ Len(Open(f)) <= Length(f)
           /\ plan # "none" => Open(f) = disk[f]
<1>1. /\ disk[f] \in Seq(Byte) /\ First(f) \in Nat /\ Length(f) \in Nat \ {0}
      /\ Len(disk[f]) \in Nat
  BY PartFacts
<1>2. /\ From(disk[f], First(f)) /\ buf[f] = <<>>
      /\ \/ task[f].at = First(f) + Len(disk[f])
         \/ task[f].at = First(f) /\ plan = "none"
  BY DEF PartInv
<1>3. Len(disk[f]) <= Length(f)
  <2>1. Len(buf[f]) = 0
    BY <1>2, EmptySeq
  <2>2. QED
    BY <1>1, <2>1 DEF PartInv, Fill
<1>4. Len(<<>>) = 0 /\ <<>> \in Seq(Byte) /\ (Len(disk[f]) = 0 => disk[f] = <<>>)
  BY <1>1, EmptySeq
<1>5. CASE task[f].at > First(f)
  BY <1>1, <1>2, <1>3, <1>5 DEF Open
<1>6. CASE ~ (task[f].at > First(f))
  <2>1. Open(f) = <<>> /\ task[f].at = First(f)
    BY <1>1, <1>2, <1>6 DEF Open
  <2>2. plan # "none" => Len(disk[f]) = 0
    BY <1>1, <1>2, <2>1
  <2>3. QED
    BY <1>1, <1>2, <1>4, <2>1, <2>2, FromEmpty
<1>7. QED
  BY <1>5, <1>6

LEMMA AnswerPart ==
    ASSUME TypeInv, NEW f \in Files, PartInv(f), Answer(f)
    PROVE  PartInv(f)'
<1>1. task[f].pc = "get" /\ task \in [Files -> TaskState] /\ disk \in [Files -> Seq(Byte)]
  BY DEF Answer, Answers, TypeInv, TasksTyped, FilesTyped
<1>2. /\ task'[f] = [pc |-> "body", at |-> task[f].at, until |-> Last(f)]
      /\ disk'[f] = Open(f) /\ buf'[f] = buf[f]
  BY <1>1 DEF Answer, Answers
<1> DEFINE d == Open(f)
<1>3. /\ d \in Seq(Byte) /\ From(d, First(f)) /\ buf[f] = <<>>
      /\ task[f].at = First(f) + Len(d) /\ Len(d) <= Length(f)
  BY <1>1, Opened
<1>4. Len(d) \in Nat /\ Len(<<>>) = 0 /\ \A at : From(<<>>, at)
  BY <1>3, LenProperties, EmptySeq, FromEmpty
<1> HIDE DEF d
<1>5. disk'[f] = d /\ buf'[f] = <<>>
  BY <1>2, <1>3 DEF d
<1>6. task'[f].pc = "body" /\ task'[f].at = First(f) + Len(d) /\ task'[f].until = Last(f)
  BY <1>2, <1>3
<1>7. Len(d) + 0 = Len(d)
  BY <1>4
<1>8. QED
  BY <1>3, <1>4, <1>5, <1>6, <1>7 DEF PartInv, Fill

LEMMA ReceivePart ==
    ASSUME TypeInv, NEW f \in Files, PartInv(f), Receive(f)
    PROVE  PartInv(f)'
<1>1. /\ task[f].pc = "body" /\ task \in [Files -> TaskState] /\ task[f] \in Body
      /\ disk \in [Files -> Seq(Byte)] /\ buf \in [Files -> Seq(Byte)]
      /\ task[f].at \in Nat /\ task[f].until \in Byte
  BY TaskStates DEF Receive, TypeInv, TasksTyped, FilesTyped
<1> DEFINE b == task[f].at
           d == disk[f] \o buf[f]
<1>2. /\ task'[f] = [task[f] EXCEPT !.at = @ + 1]
      /\ disk'[f] = d /\ buf'[f] = <<b>> /\ b <= task[f].until
  BY <1>1 DEF Receive
<1>3. b = First(f) + Fill(f) /\ task[f].until = Last(f)
  BY <1>1 DEF PartInv
<1>4. d \in Seq(Byte) /\ Len(d) = Fill(f) /\ Fill(f) \in Nat /\ From(d, First(f))
  BY Landed
<1>5. b \in Byte /\ Len(<<b>>) = 1 /\ From(<<b>>, b)
  BY <1>1, <1>2, SizeAssumption, FromOne DEF Byte
<1>6. task'[f].pc = "body" /\ task'[f].at = b + 1 /\ task'[f].until = Last(f)
  BY <1>1, <1>2, <1>3 DEF Body
<1>7. First(f) \in Nat /\ Last(f) \in Byte /\ Length(f) = Last(f) - First(f) + 1
  BY PartFacts
<1> HIDE DEF b, d
<1>8. Fill(f) + 1 <= Length(f) /\ b + 1 = First(f) + (Fill(f) + 1)
  BY <1>2, <1>3, <1>4, <1>7, SizeAssumption DEF Byte
<1>9. Len(disk'[f]) = Fill(f) /\ Len(buf'[f]) = 1
  BY <1>2, <1>4, <1>5
<1>10. Fill(f)' = Fill(f) + 1
  BY <1>9 DEF Fill
<1>11. From(disk'[f], First(f)) /\ From(buf'[f], First(f) + Len(disk'[f]))
  BY <1>2, <1>3, <1>4, <1>5, <1>9
<1>12. QED
  BY <1>6, <1>8, <1>10, <1>11 DEF PartInv

(* A response that broke the protocol is not forgotten.                    *)
LEMMA HonestBefore ==
    ASSUME [Next]_vars, honest'
    PROVE  honest
<1>1. CASE Launch \/ Stop \/ Cancel \/ Consume \/ Crash
  BY <1>1 DEF Launch, Stop, Cancel, Consume, Crash
<1>2. CASE RunStep
  BY <1>2 DEF RunStep, Begins, BeginResume, BeginSegments, BeginSingle, JoinStopped, JoinFailed, JoinDone,
              Finalize, FinalizeFails, CopyPart, CopiesDone, CopyFails, DeletePart, DeletesDone,
              GiveUp, Backoff, BackoffStops, BackoffOver
<1>3. ASSUME NEW f \in Files, TaskStep(f) \/ Settle(f)
      PROVE  honest
  BY <1>3 DEF TaskStep, Answer, AnswerWhole, Receive, BodyEnds, BodyEndsShort, TaskStops,
              TaskFails, Settle
<1>4. CASE UNCHANGED vars
  BY <1>4 DEF vars
<1>5. QED
  BY <1>1, <1>2, <1>3, <1>4 DEF Next

(* An attempt that stays honest begins with parts that are settled.        *)
LEMMA BeginPart ==
    ASSUME TypeInv, NEW f \in Files, PartInv(f), honest', BeginResume \/ BeginSegments \/ BeginSingle
    PROVE  PartInv(f)'
<1>1. buf[f] = <<>> /\ buf' = buf /\ plan' = plan
  BY DEF Begins, BeginResume, BeginSegments, BeginSingle, Settled
<1>2. /\ First(f) \in Nat /\ Length(f) \in Nat \ {0} /\ Len(disk[f]) \in Nat
  BY PartFacts
<1>3. Len(disk[f]) <= Length(f)
  <2>1. Len(buf[f]) = 0
    BY <1>1, EmptySeq
  <2>2. QED
    BY <1>2, <2>1 DEF PartInv, Fill
<1>4. Reconciled(f) = disk[f] /\ OnDisk(f) = Len(disk[f])
  BY <1>2, <1>3, OnDiskBounds DEF TypeInv, OnDisk
<1>5. disk'[f] = disk[f]
  BY <1>4 DEF Begins, BeginResume, BeginSegments, BeginSingle
<1>6. \/ task'[f].pc = "off"
      \/ task'[f].pc = "done" /\ Len(disk[f]) = Length(f)
      \/ task'[f].pc = "get" /\ task'[f].at = First(f) + Len(disk[f])
      \/ task'[f].pc = "get" /\ task'[f].at = First(f) /\ plan = "none"
  <2>1. CASE BeginResume
    BY <1>4, <2>1 DEF Begins, BeginResume, Ask, Off
  <2>2. CASE BeginSegments
    BY <1>2, <2>2 DEF Begins, BeginSegments, Ask, Off
  <2>3. CASE BeginSingle
    BY <1>2, <2>3 DEF Begins, BeginSingle, Ask, AllOff, Off
  <2>4. QED
    BY <2>1, <2>2, <2>3
<1>7. From(disk[f], First(f)) /\ From(buf[f], First(f) + Len(disk[f])) /\ Fill(f) <= Length(f)
  BY DEF PartInv
<1>8. disk'[f] = disk[f] /\ buf'[f] = buf[f] /\ Fill(f)' = Fill(f)
  BY <1>1, <1>5 DEF Fill
<1>9. QED
  BY <1>1, <1>6, <1>7, <1>8 DEF PartInv

LEMMA PartKept ==
    ASSUME TypeInv, RunInv, BytesInv, [Next]_vars, honest', NEW f \in Files
    PROVE  PartInv(f)'
<1>1. PartInv(f) /\ OutInv
  BY HonestBefore DEF BytesInv
<1>2. /\ task \in [Files -> TaskState] /\ disk \in [Files -> Seq(Byte)]
      /\ buf \in [Files -> Seq(Byte)]
  BY DEF TypeInv, TasksTyped, FilesTyped
<1>3. CASE Launch \/ BackoffOver
  <2>1. UNCHANGED <<task, disk, buf>> /\ task[f] = Off
    BY <1>3 DEF Launch, BackoffOver, RunInv
  <2>2. QED
    BY <1>1, <2>1, PartUntouched DEF Off
<1>4. CASE Stop \/ Consume \/ CopyPart \/ CopiesDone \/ CopyFails \/ Backoff \/ UNCHANGED vars
  <2>1. UNCHANGED <<task, disk, buf, plan>>
    BY <1>4 DEF Stop, Consume, CopyPart, CopiesDone, CopyFails, Backoff, vars, run
  <2>2. QED
    BY <1>1, <2>1, PartUntouched
<1>5. CASE Cancel
  <2>1. task'[f] = Off /\ task[f] = Off /\ plan' = plan
    BY <1>5 DEF Cancel, RunInv, run
  <2>2. \/ disk'[f] = disk[f] /\ buf'[f] = buf[f]
        \/ disk'[f] = <<>> /\ buf'[f] = <<>>
    BY <1>5 DEF Cancel
  <2>3. QED
    BY <1>1, <2>1, <2>2, PartUntouched, PartEmptied DEF Off
<1>6. CASE BeginResume \/ BeginSegments \/ BeginSingle
  BY <1>1, <1>6, BeginPart
<1>7. CASE JoinStopped \/ JoinFailed \/ JoinDone \/ FinalizeFails \/ DeletesDone \/ GiveUp
           \/ BackoffStops
  <2>1. UNCHANGED <<disk, buf>> /\ task' = AllOff
    BY <1>7 DEF JoinStopped, JoinFailed, JoinDone, FinalizeFails, DeletesDone, GiveUp,
                BackoffStops, Rest
  <2>2. task'[f].pc = "off"
    BY <2>1 DEF AllOff, Off
  <2>3. QED
    BY <1>1, <2>1, <2>2, PartUntouched
<1>8. CASE Finalize
  <2>1. task'[f].pc = "off" /\ buf' = buf
    BY <1>8 DEF Finalize, Rest, AllOff, Off
  <2>2. CASE f = Single
    <3>1. buf[f] = <<>>
      BY <1>1, <1>8, <2>2 DEF Finalize, PartInv
    <3>2. disk'[f] = <<>>
      BY <1>2, <1>8, <2>2 DEF Finalize
    <3>3. QED
      BY <2>1, <3>1, <3>2, PartEmptied
  <2>3. CASE f # Single
    <3>1. disk'[f] = disk[f]
      BY <1>2, <1>8, <2>3 DEF Finalize
    <3>2. QED
      BY <1>1, <2>1, <3>1, PartUntouched
  <2>4. QED
    BY <2>2, <2>3
<1>9. CASE DeletePart
  <2>1. task' = task /\ buf' = buf /\ plan' = plan /\ next \in Segs /\ task[f] = Off
    BY <1>9 DEF DeletePart, RunInv
  <2>2. CASE f = next
    <3>1. buf[f] = <<>>
      BY <1>1, <1>9, <2>1, <2>2 DEF DeletePart, OutInv
    <3>2. disk'[f] = <<>>
      BY <1>2, <1>9, <2>2 DEF DeletePart
    <3>3. QED
      BY <2>1, <3>1, <3>2, PartEmptied DEF Off
  <2>3. CASE f # next
    <3>1. disk'[f] = disk[f]
      BY <1>2, <1>9, <2>3 DEF DeletePart
    <3>2. QED
      BY <1>1, <2>1, <3>1, PartUntouched
  <2>4. QED
    BY <2>2, <2>3
<1>10. ASSUME NEW g \in Files, TaskStep(g) \/ Settle(g), g # f
       PROVE  PartInv(f)'
  <2>1. task'[f] = task[f] /\ plan' = plan
    BY <1>10, TaskStepIs DEF Settle, run
  <2>2. disk'[f] = disk[f] /\ buf'[f] = buf[f]
    BY <1>2, <1>10 DEF TaskStep, Answer, AnswerWhole, Answers, Receive, BodyEnds, BodyEndsShort,
                       TaskStops, Leave, TaskFails, Settle
  <2>3. QED
    BY <1>1, <2>1, <2>2, PartUntouched
<1>11. CASE Answer(f)
  BY <1>1, <1>11, AnswerPart
<1>12. CASE Receive(f)
  BY <1>1, <1>12, ReceivePart
<1>13. CASE BodyEnds(f)
  <2>1. /\ task'[f].pc = "done" /\ disk'[f] = disk[f] \o buf[f] /\ buf'[f] = <<>>
        /\ task[f].pc = "body" /\ task[f].at > task[f].until
    BY <1>2, <1>13 DEF BodyEnds, Leave
  <2>2. Fill(f) = Length(f)
    <3>1. /\ task[f].at = First(f) + Fill(f) /\ task[f].until = Last(f) /\ Fill(f) <= Length(f)
      BY <1>1, <2>1 DEF PartInv
    <3>2. /\ First(f) \in Nat /\ Last(f) \in Nat /\ Length(f) = Last(f) - First(f) + 1
      BY FileBounds DEF Byte
    <3>3. Fill(f) \in Nat
      BY <1>1, Landed
    <3>4. QED
      BY <2>1, <3>1, <3>2, <3>3
  <2>3. QED
    BY <1>1, <2>1, <2>2, PartLanded
<1>14. CASE TaskStops(f)
  <2>1. task'[f].pc = "stopped" /\ disk'[f] = disk[f] \o buf[f] /\ buf'[f] = <<>>
    BY <1>2, <1>14 DEF TaskStops, Leave
  <2>2. QED
    BY <1>1, <2>1, PartLanded
<1>15. CASE TaskFails(f)
  <2>1. task'[f].pc = "failed" /\ disk' = disk /\ buf' = buf
    BY <1>2, <1>15 DEF TaskFails
  <2>2. QED
    BY <1>1, <2>1, PartUntouched
<1>16. CASE AnswerWhole(f) \/ BodyEndsShort(f)
  BY <1>16 DEF AnswerWhole, BodyEndsShort
<1>17. CASE Settle(f)
  <2>1. /\ disk'[f] = disk[f] \o buf[f] /\ buf'[f] = <<>> /\ buf[f] # <<>>
        /\ task' = task /\ plan' = plan
    BY <1>2, <1>17 DEF Settle, run
  <2>2. task[f].pc \notin {"get", "done"}
    BY <1>1, <2>1 DEF PartInv
  <2>3. QED
    BY <1>1, <2>1, <2>2, PartLanded
<1>18. CASE Crash
  <2>1. task'[f].pc = "off" /\ buf'[f] = <<>>
    BY <1>18 DEF Crash, AllOff, Off
  <2>2. CASE disk'[f] = disk[f] \o buf[f]
    BY <1>1, <2>1, <2>2, PartLanded
  <2>3. CASE disk'[f] = disk[f]
    <3>1. From(disk[f], First(f)) /\ Len(disk[f]) + Len(buf[f]) <= Length(f)
      BY <1>1 DEF PartInv, Fill
    <3>2. Len(disk[f]) \in Nat /\ Len(buf[f]) \in Nat /\ Length(f) \in Nat
      BY PartFacts
    <3>3. Len(<<>>) = 0 /\ \A at : From(<<>>, at)
      BY EmptySeq, FromEmpty
    <3>4. Fill(f)' <= Length(f)
      <4>1. Fill(f)' = Len(disk[f]) + 0
        BY <2>1, <2>3, <3>3, Zenon DEF Fill
      <4>2. \A a, b, c \in Nat : a + b <= c => a + 0 <= c
        OBVIOUS
      <4>3. Len(disk[f]) + 0 <= Length(f)
        BY <3>1, <3>2, <4>2, Zenon
      <4>4. QED
        BY <4>1, <4>3, Zenon
    <3>5. QED
      BY <2>1, <2>3, <3>1, <3>3, <3>4 DEF PartInv
  <2>4. QED
    BY <1>18, <2>2, <2>3 DEF Crash
<1>19. QED
  BY <1>3, <1>4, <1>5, <1>6, <1>7, <1>8, <1>9, <1>10, <1>11, <1>12, <1>13, <1>14, <1>15, <1>16,
     <1>17, <1>18 DEF Next, RunStep, TaskStep

-----------------------------------------------------------------------------
(* The file.                                                               *)

(* A transfer of segments that was not stopped and has no failed task has  *)
(* every segment whole.                                                    *)
LEMMA AllWhole ==
    ASSUME TypeInv, RunInv, \A f \in Files : PartInv(f), JoinDone
    PROVE  \A f \in Segs : buf[f] = <<>> /\ Len(disk[f]) = Length(f)
<1>1. \A f \in Segs : task[f] # Off
  <2>1. PICK g \in Segs : task[g] # Off
    BY DEF JoinDone, Multi
  <2>2. pc = "transfer"
    BY DEF JoinDone, Joined
  <2>3. QED
    BY <2>1, <2>2 DEF RunInv
<1>2. ASSUME NEW f \in Segs
      PROVE  task[f].pc = "done"
  <2>1. f \in Files /\ task[f] \in TaskState /\ task[f] # Off
    BY <1>1, FilesAre, TaskStates DEF TypeInv
  <2>2. task[f].pc \notin {"get", "body"}
    BY <2>1 DEF JoinDone, Joined, Working
  <2>3. task[f].pc # "failed"
    BY <2>1 DEF JoinDone, Ended
  <2>4. task[f].pc # "stopped"
    BY <2>1 DEF JoinDone, RunInv
  <2>5. QED
    BY <2>1, <2>2, <2>3, <2>4 DEF TaskState, Get, Body
<1>3. QED
  BY <1>2, FilesAre DEF PartInv

(* A whole part is put after the parts before it.                          *)
LEMMA PartCopied ==
    ASSUME TypeInv, \A f \in Files : PartInv(f), OutInv, CopyPart
    PROVE  From(out, 0)' /\ \A n \in Nat : next' = n => Len(out') = Before(n)
<1>1. PICK i \in Segs : next = i
  BY DEF CopyPart
<1>2. pc = "copy" /\ i \in Files /\ i \in Nat /\ next' = i + 1 /\ out' = out \o disk[i]
  BY <1>1, FilesAre DEF CopyPart
<1>3. From(out, 0) /\ Len(out) = First(i) /\ Len(disk[i]) = Length(i)
  BY <1>1, <1>2 DEF OutInv, Before
<1>4. From(disk[i], First(i)) /\ out \in Seq(Byte) /\ disk[i] \in Seq(Byte) /\ First(i) \in Nat
  BY <1>2, PartFacts DEF PartInv, TypeInv, FilesTyped
<1> DEFINE d == disk[i]
           o == out
<1>5. From(d, 0 + Len(o)) /\ From(o, 0) /\ o \in Seq(Byte) /\ d \in Seq(Byte)
  BY <1>3, <1>4
<1> HIDE DEF d, o
<1>6. Len(o \o d) = Len(o) + Len(d) /\ From(o \o d, 0)
  BY <1>5, FromConcat
<1>7. From(out', 0) /\ Len(out') = First(i) + Length(i)
  BY <1>2, <1>3, <1>6 DEF o, d
<1>8. First(i) + Length(i) = Before(i + 1)
  BY Consecutive DEF Before
<1>9. QED
  BY <1>2, <1>7, <1>8

LEMMA OutKept ==
    ASSUME TypeInv, RunInv, BytesInv, [Next]_vars, honest'
    PROVE  OutInv'
<1>1. (\A f \in Files : PartInv(f)) /\ OutInv
  BY HonestBefore DEF BytesInv
<1>2. Finished' => Finished \/ DeletesDone \/ Finalize
  BY FinishedBy
<1>3. CASE DeletesDone
  BY <1>1, <1>3 DEF DeletesDone, Rest, OutInv, Exact
<1>4. CASE Finalize
  <2>1. pc' = "rest" /\ out' = disk[Single] /\ task[Single].pc = "done"
    BY <1>4 DEF Finalize, Rest
  <2>2. Single \in Files /\ First(Single) = 0 /\ Length(Single) = Size
    BY FilesAre, SizeAssumption DEF First, Last, Length
  <2>3. From(disk[Single], 0) /\ Len(disk[Single]) = Size
    BY <1>1, <2>1, <2>2 DEF PartInv
  <2>4. QED
    BY <2>1, <2>3 DEF OutInv, Exact
<1>5. ASSUME ~ DeletesDone, ~ Finalize
      PROVE  OutInv'
  <2>1. Finished' => Finished
    BY <1>2, <1>5
  <2>2. pc' \notin {"copy", "delete"} /\ out' = out => OutInv'
    BY <1>1, <2>1 DEF OutInv, Exact
  <2>3. UNCHANGED <<pc, next, out, disk, buf>> => OutInv'
    BY <1>1, <2>1 DEF OutInv, Exact
  <2>4. CASE Launch \/ Cancel \/ Crash \/ BeginResume \/ BeginSegments \/ BeginSingle \/ JoinStopped
             \/ JoinFailed \/ CopyFails \/ GiveUp \/ Backoff \/ BackoffStops \/ BackoffOver
    <3>1. pc' \notin {"copy", "delete"} /\ out' = out
      BY <2>4 DEF Launch, Cancel, Crash, Begins, BeginResume, BeginSegments, BeginSingle, JoinStopped,
                  JoinFailed, CopyFails, GiveUp, Backoff, BackoffStops, BackoffOver, Rest, run
    <3>2. QED
      BY <2>2, <3>1
  <2>5. CASE Stop \/ Consume \/ UNCHANGED vars
    BY <2>3, <2>5 DEF Stop, Consume, vars, run
  <2>6. CASE JoinDone
    <3>1. pc' = "copy" /\ next' = 1 /\ out' = <<>> /\ buf' = buf /\ disk' = disk /\ ~ Finished
      BY <2>6 DEF JoinDone, Joined, RunInv
    <3>2. \A f \in Segs : buf[f] = <<>> /\ Len(disk[f]) = Length(f)
      BY <1>1, <2>6, AllWhole
    <3>3. 1 \in Segs /\ First(1) = 0 /\ Len(<<>>) = 0 /\ From(<<>>, 0)
      BY Consecutive, EmptySeq, FromEmpty
    <3>4. From(out', 0) /\ \A n \in Nat : next' = n => Len(out') = Before(n)
      BY <3>1, <3>3 DEF Before
    <3>5. QED
      BY <2>1, <3>1, <3>2, <3>4 DEF OutInv
  <2>7. CASE FinalizeFails
    <3>1. pc' = "erred" /\ ~ Finished
      BY <2>7 DEF FinalizeFails, Joined, RunInv
    <3>2. QED
      BY <2>1, <3>1 DEF OutInv
  <2>8. CASE CopyPart
    <3>1. pc = "copy" /\ UNCHANGED <<pc, disk, buf>> /\ ~ Finished
      BY <2>8 DEF CopyPart, RunInv
    <3>2. From(out', 0) /\ \A n \in Nat : next' = n => Len(out') = Before(n)
      BY <1>1, <2>8, PartCopied
    <3>3. QED
      BY <1>1, <2>1, <3>1, <3>2 DEF OutInv
  <2>9. CASE CopiesDone
    <3>1. next \in Nat /\ Before(next) = Size
      BY <2>9 DEF CopiesDone, Before, TypeInv, RunTyped
    <3>2. Exact
      BY <1>1, <2>9, <3>1 DEF CopiesDone, OutInv, Exact
    <3>3. QED
      BY <1>1, <2>9, <3>2 DEF CopiesDone, OutInv, Exact
  <2>10. CASE DeletePart
    BY <1>1, <2>1, <2>10 DEF DeletePart, OutInv, Exact
  <2>11. ASSUME NEW f \in Files, TaskStep(f) PROVE OutInv'
    <3>1. task[f].pc \in {"get", "body"} /\ pc' = pc /\ out' = out
      BY <2>11, TaskStepIs
    <3>2. pc = "transfer"
      BY <3>1 DEF RunInv, Off
    <3>3. QED
      BY <2>2, <3>1, <3>2
  <2>12. ASSUME NEW f \in Files, Settle(f) PROVE OutInv'
    <3>1. UNCHANGED <<pc, next, out>> /\ buf[f] # <<>>
          /\ \A g \in Files : g # f => disk'[g] = disk[g] /\ buf'[g] = buf[g]
      BY <2>12 DEF Settle, run, TypeInv, FilesTyped
    <3>2. CASE pc \in {"copy", "delete"}
      <4>1. \A g \in Segs : buf[g] = <<>> /\ disk'[g] = disk[g] /\ buf'[g] = buf[g]
        BY <1>1, <3>1, <3>2, FilesAre DEF OutInv
      <4>2. QED
        BY <1>1, <2>1, <3>1, <4>1 DEF OutInv, Exact
    <3>3. CASE pc \notin {"copy", "delete"}
      BY <2>2, <3>1, <3>3
    <3>4. QED
      BY <3>2, <3>3
  <2>13. QED
    BY <1>5, <2>4, <2>5, <2>6, <2>7, <2>8, <2>9, <2>10, <2>11, <2>12 DEF Next, RunStep
<1>6. QED
  BY <1>3, <1>4, <1>5

-----------------------------------------------------------------------------
(* The theorems.                                                           *)

LEMMA InvStart == Init => Inv
<1> SUFFICES ASSUME Init PROVE Inv
  OBVIOUS
<1>1. TypeInv
  BY TypeStart
<1>2. \A f \in Files : task[f] = Off /\ disk[f] = <<>> /\ buf[f] = <<>>
  BY DEF Init, AllOff
<1>3. ~ Finished
  BY EmptySeq, LenProperties DEF Init, Finished, Announced
<1>4. RunInv
  BY <1>2, <1>3 DEF Init, RunInv, Off
<1>5. ASSUME NEW f \in Files PROVE PartInv(f)
  <2>1. Length(f) \in Nat /\ First(f) \in Nat /\ Len(<<>>) = 0 /\ \A at : From(<<>>, at)
    BY FileBounds, EmptySeq, FromEmpty
  <2>2. QED
    <3>1. Fill(f) <= Length(f)
      <4>1. Fill(f) = 0 + 0
        BY <1>2, <2>1, Zenon DEF Fill
      <4>2. \A n \in Nat : 0 + 0 <= n
        OBVIOUS
      <4>3. QED
        BY <2>1, <4>1, <4>2, Zenon
    <3>2. task[f].pc = "off"
      BY <1>2 DEF Off
    <3>3. QED
      BY <1>2, <2>1, <3>1, <3>2 DEF PartInv
<1>6. OutInv
  BY <1>3 DEF Init, OutInv
<1>7. QED
  BY <1>1, <1>4, <1>5, <1>6 DEF Inv, BytesInv

LEMMA InvKept == Inv /\ [Next]_vars => Inv'
<1> SUFFICES ASSUME Inv, [Next]_vars PROVE Inv'
  OBVIOUS
<1>1. TypeInv' /\ RunInv'
  BY TypeKept, RunKept DEF Inv
<1>2. ASSUME honest' PROVE (\A f \in Files : PartInv(f)') /\ OutInv'
  BY <1>2, PartKept, OutKept DEF Inv
<1>3. QED
  BY <1>1, <1>2 DEF Inv, BytesInv

(* The inductive invariant holds in every behaviour.                       *)
LEMMA InvHolds == Spec => []Inv
  BY InvStart, InvKept, PTL DEF Spec

(* A part file with the chunk on its way to it is a prefix of its segment, *)
(* whatever was paused, dropped, retried or lost in a crash, unless a      *)
(* response broke the protocol or an attempt overtook a write.             *)
THEOREM PartFilesArePrefixes == Spec => []PartsArePrefixes
<1>1. Inv => PartsArePrefixes
  <2> SUFFICES ASSUME Inv, honest, NEW f \in Files
               PROVE  Prefix(f) /\ Len(disk[f]) + Len(buf[f]) <= Length(f)
    BY DEF PartsArePrefixes
  <2>1. TypeInv /\ PartInv(f)
    BY DEF Inv, BytesInv
  <2>2. /\ disk[f] \o buf[f] \in Seq(Byte)
        /\ Len(disk[f] \o buf[f]) = Fill(f) /\ Fill(f) \in Nat
        /\ From(disk[f] \o buf[f], First(f))
    BY <2>1, Landed
  <2>3. First(f) \in Nat /\ Len(disk[f]) \in Nat /\ Len(buf[f]) \in Nat
    BY <2>1, PartFacts
  <2>4. disk[f] \o buf[f] = Bytes(First(f), First(f) + Fill(f) - 1)
    BY <2>2, <2>3, FromIsBytes
  <2>5. First(f) + Fill(f) - 1 = First(f) + Len(disk[f]) + Len(buf[f]) - 1
    <3>1. \A a, b, c \in Nat : a + (b + c) - 1 = a + b + c - 1
      OBVIOUS
    <3>2. QED
      BY <2>3, <3>1, Zenon DEF Fill
  <2>6. Fill(f) <= Length(f)
    BY <2>1 DEF PartInv
  <2>7. QED
    BY <2>4, <2>5, <2>6, Zenon DEF Prefix, Fill
<1>2. QED
  BY <1>1, InvHolds, PTL

(* A download that has announced its completion has the whole resource at  *)
(* save_path, byte for byte, unless a response broke the protocol or an    *)
(* attempt overtook a write.                                               *)
THEOREM CompletedFileIsExact == Spec => []CompletedIsExact
<1>1. Inv => CompletedIsExact
  <2> SUFFICES ASSUME Inv, honest, row.status = "Completed" \/ Announced
               PROVE  out = Bytes(0, Size - 1)
    BY DEF CompletedIsExact
  <2>1. From(out, 0) /\ Len(out) = Size /\ out \in Seq(Byte)
    BY DEF Inv, BytesInv, OutInv, Exact, Finished, TypeInv, FilesTyped
  <2>2. out = Bytes(0, 0 + Len(out) - 1)
    BY <2>1, FromIsBytes
  <2>3. QED
    BY <2>1, <2>2, SizeAssumption
<1>2. QED
  BY <1>1, InvHolds, PTL

(* An attempt that knows its segments never gives up a byte of a part file *)
(* before assembly: it resumes each where it ends, and appends to it. The  *)
(* exceptions are the same two.                                            *)
THEOREM BytesKept == Spec => KeepsBytes
<1> DEFINE Kept == \A f \in Segs : honest /\ plan = "segs" /\ pc \in {"begin", "transfer"}
                       => Len(disk'[f]) >= Len(disk[f])
<1>1. Inv /\ [Next]_vars => Kept
  <2> SUFFICES ASSUME Inv, [Next]_vars, NEW f \in Segs,
                      honest, plan = "segs", pc \in {"begin", "transfer"}
               PROVE  Len(disk'[f]) >= Len(disk[f])
    OBVIOUS
  <2>1. f \in Files /\ f # Single /\ TypeInv /\ PartInv(f)
    BY FilesAre, SegsAre DEF Inv, BytesInv
  <2>2. disk \in [Files -> Seq(Byte)] /\ Len(disk[f]) \in Nat /\ Len(buf[f]) \in Nat
    BY <2>1, PartFacts DEF TypeInv, FilesTyped
  <2>3. disk'[f] = disk[f] => Len(disk'[f]) >= Len(disk[f])
    BY <2>2
  <2>4. disk'[f] = disk[f] \o buf[f] => Len(disk'[f]) >= Len(disk[f])
    <3>1. Len(disk[f] \o buf[f]) = Fill(f)
      BY <2>1, Landed
    <3>2. \A a, b \in Nat : a + b >= a
      OBVIOUS
    <3>3. Fill(f) >= Len(disk[f])
      BY <2>2, <3>2, Zenon DEF Fill
    <3>4. QED
      BY <3>1, <3>3
  <2>5. CASE Launch \/ Stop \/ Cancel \/ Consume \/ UNCHANGED vars
    BY <2>3, <2>5 DEF Launch, Stop, Cancel, Consume, vars, run
  <2>6. CASE BeginResume
    <3>1. disk'[f] = Reconciled(f)
      BY <2>1, <2>6 DEF BeginResume
    <3>2. Len(disk[f]) <= Length(f)
      <4>1. Fill(f) <= Length(f) /\ Fill(f) = Len(disk[f]) + Len(buf[f])
        BY <2>1, Zenon DEF PartInv, Fill
      <4>2. Length(f) \in Nat
        BY <2>1, PartFacts
      <4>3. \A a, b, c \in Nat : a + b <= c => a <= c
        OBVIOUS
      <4>4. QED
        BY <2>2, <4>1, <4>2, <4>3, Zenon
    <3>3. Reconciled(f) = disk[f]
      BY <2>1, <3>2, OnDiskBounds DEF TypeInv
    <3>4. QED
      BY <2>3, <3>1, <3>3
  <2>7. CASE RunStep /\ ~ BeginResume
    <3>1. disk'[f] = disk[f]
      BY <2>1, <2>2, <2>7
      DEF RunStep, Begins, BeginSegments, BeginSingle, JoinStopped, JoinFailed, JoinDone, Finalize,
          FinalizeFails, CopyPart, CopiesDone, CopyFails, DeletePart, DeletesDone, GiveUp,
          Backoff, BackoffStops, BackoffOver
    <3>2. QED
      BY <2>3, <3>1
  <2>8. ASSUME NEW g \in Files, Answer(g) \/ AnswerWhole(g)
        PROVE  Len(disk'[f]) >= Len(disk[f])
    <3>1. task[g].pc = "get" /\ disk' = [disk EXCEPT ![g] = Open(g)]
      BY <2>8 DEF Answer, AnswerWhole, Answers
    <3>2. CASE g = f
      <4>1. Open(f) = disk[f]
        BY <2>1, <3>1, <3>2, Opened
      <4>2. QED
        BY <2>1, <2>2, <2>3, <3>1, <3>2, <4>1
    <3>3. CASE g # f
      BY <2>2, <2>3, <3>1, <3>3
    <3>4. QED
      BY <3>2, <3>3
  <2>9. ASSUME NEW g \in Files, TaskStep(g) \/ Settle(g), ~ (Answer(g) \/ AnswerWhole(g))
        PROVE  Len(disk'[f]) >= Len(disk[f])
    <3>1. disk' = disk \/ disk' = [disk EXCEPT ![g] = @ \o buf[g]]
      BY <2>9 DEF TaskStep, Receive, BodyEnds, BodyEndsShort, TaskStops, Leave, TaskFails, Settle
    <3>2. disk'[f] = disk[f] \/ disk'[f] = disk[f] \o buf[f]
      BY <2>1, <2>2, <3>1
    <3>3. QED
      BY <2>3, <2>4, <3>2
  <2>10. CASE Crash
    <3>1. disk'[f] = disk[f] \/ disk'[f] = disk[f] \o buf[f]
      BY <2>1, <2>10 DEF Crash
    <3>2. QED
      BY <2>3, <2>4, <3>1
  <2>11. QED
    BY <2>5, <2>6, <2>7, <2>8, <2>9, <2>10 DEF Next
<1>2. KeepsBytes <=> [][Kept]_vars
  BY DEF KeepsBytes
<1>3. QED
  BY <1>1, <1>2, InvHolds, PTL DEF Spec
=============================================================================
