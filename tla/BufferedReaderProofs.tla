------------------------ MODULE BufferedReaderProofs ------------------------
(***************************************************************************)
(* Proofs about BufferedReader, for every set of readers, every list of    *)
(* files and every size of block and queue.                                *)
(***************************************************************************)
EXTENDS BufferedReader, FiniteSetTheorems, TLAPS

\* The positions of an element in a sequence form a finite set.
LEMMA OccurrencesFinite ==
  ASSUME NEW S, NEW s \in Seq(S), NEW e
  PROVE  /\ IsFiniteSet(Occurrences(s, e))
         /\ Cardinality(Occurrences(s, e)) \in Nat
<1>1. IsFiniteSet(1..Len(s))
  BY FS_Interval, Len(s) \in Nat
<1>2. Occurrences(s, e) \subseteq 1..Len(s)
  BY DEF Occurrences
<1>. QED BY <1>1, <1>2, FS_Subset, FS_CardinalityType

\* Appending an element adds one to its count and leaves the other counts.
LEMMA CountAppend ==
  ASSUME NEW S, NEW s \in Seq(S), NEW x \in S, NEW e
  PROVE  Cardinality(Occurrences(Append(s, x), e)) =
           Cardinality(Occurrences(s, e)) + (IF x = e THEN 1 ELSE 0)
<1>. DEFINE t == Append(s, x)
<1>1. /\ Len(s) \in Nat /\ Len(t) = Len(s) + 1 /\ t[Len(s) + 1] = x
      /\ \A i \in 1..Len(s) : t[i] = s[i]
  OBVIOUS
<1>2. IsFiniteSet(Occurrences(s, e)) /\ Cardinality(Occurrences(s, e)) \in Nat
  BY OccurrencesFinite
<1>3. CASE x = e
  <2>1. Occurrences(t, e) = Occurrences(s, e) \cup {Len(s) + 1}
    BY <1>1, <1>3 DEF Occurrences
  <2>2. Len(s) + 1 \notin Occurrences(s, e)
    BY <1>1 DEF Occurrences
  <2>. QED BY <1>2, <1>3, <2>1, <2>2, FS_AddElement
<1>4. CASE x # e
  <2>1. Occurrences(t, e) = Occurrences(s, e)
    BY <1>1, <1>4 DEF Occurrences
  <2>. QED BY <1>2, <1>4, <2>1
<1>. QED BY <1>3, <1>4

\* Taking the head off a sequence takes one off its count.
LEMMA CountTail ==
  ASSUME NEW S, NEW s \in Seq(S), s # <<>>, NEW e
  PROVE  Cardinality(Occurrences(s, e)) =
           Cardinality(Occurrences(Tail(s), e)) + (IF Head(s) = e THEN 1 ELSE 0)
<1>. DEFINE t == Tail(s)
            Shifted == {i + 1 : i \in Occurrences(t, e)}
<1>1. /\ t \in Seq(S) /\ Len(s) \in Nat \ {0} /\ Len(t) = Len(s) - 1
      /\ Head(s) = s[1] /\ \A i \in 1..Len(t) : t[i] = s[i + 1]
  OBVIOUS
<1>2. /\ IsFiniteSet(Occurrences(t, e)) /\ Cardinality(Occurrences(t, e)) \in Nat
      /\ Occurrences(t, e) \subseteq Nat \ {0}
  <2>1. t \in Seq(S)
    BY <1>1
  <2>2. IsFiniteSet(Occurrences(t, e)) /\ Cardinality(Occurrences(t, e)) \in Nat
    BY <2>1, OccurrencesFinite
  <2>3. Occurrences(t, e) \subseteq Nat \ {0}
    BY <1>1 DEF Occurrences
  <2>. QED BY <2>2, <2>3
<1>3. IsFiniteSet(Shifted) /\ Cardinality(Shifted) = Cardinality(Occurrences(t, e))
  <2>. DEFINE f == [i \in Occurrences(t, e) |-> i + 1]
  <2>1. f \in Bijection(Occurrences(t, e), Shifted)
    BY <1>2 DEF Bijection, Injection, Surjection, IsInjective
  <2>. QED BY <1>2, <2>1, FS_Bijection DEF ExistsBijection
<1>4. 1 \notin Shifted
  BY <1>2
<1>5. \A i \in 1..Len(s) : i # 1 => i - 1 \in 1..Len(t) /\ (i - 1) + 1 = i
  BY <1>1
<1>6. CASE Head(s) = e
  <2>1. ASSUME NEW i \in Occurrences(s, e) PROVE i \in Shifted \cup {1}
    <3>1. i \in 1..Len(s) /\ s[i] = e
      BY DEF Occurrences
    <3>2. CASE i # 1
      <4>1. i - 1 \in Occurrences(t, e) /\ i = (i - 1) + 1
        BY <1>1, <1>5, <3>1, <3>2 DEF Occurrences
      <4>. QED BY <4>1
    <3>. QED BY <3>2
  <2>2. ASSUME NEW i \in Shifted \cup {1} PROVE i \in Occurrences(s, e)
    BY <1>1, <1>6 DEF Occurrences
  <2>3. Occurrences(s, e) = Shifted \cup {1}
    BY <2>1, <2>2
  <2>. QED BY <1>2, <1>3, <1>4, <1>6, <2>3, FS_AddElement
<1>7. CASE Head(s) # e
  <2>1. ASSUME NEW i \in Occurrences(s, e) PROVE i \in Shifted
    <3>1. i \in 1..Len(s) /\ s[i] = e /\ i # 1
      BY <1>1, <1>7 DEF Occurrences
    <3>2. i - 1 \in Occurrences(t, e) /\ i = (i - 1) + 1
      BY <1>1, <1>5, <3>1 DEF Occurrences
    <3>. QED BY <3>2
  <2>2. ASSUME NEW i \in Shifted PROVE i \in Occurrences(s, e)
    BY <1>1 DEF Occurrences
  <2>3. Occurrences(s, e) = Shifted
    BY <2>1, <2>2
  <2>. QED BY <1>2, <1>3, <1>7, <2>3
<1>. QED BY <1>6, <1>7

-----------------------------------------------------------------------------
(* The invariant behind type correctness and NoUseAfterFree.  m_atQueue is *)
(* at least the number of requests queued or in service: a push that the   *)
(* full queue refused, or a request the stopping thread drops, leaves it   *)
(* above that number, and then the reader is freed later or not at all.    *)

Counted == \A r \in Readers : atQueue[r] >= Queued(r) + InService(r)
Kept == cpc # "end" => \A r \in Readers : atQueue[r] > 0 => r \in registered
ThreadServes == tpc \in Serving => tid \in Readers
CallerReads == cpc \in {"wait", "take", "reset"} => cid \in Readers
StopIsLast == /\ cpc \in {"ending", "join"} => terminated
              /\ ~terminated => \A i \in 1..Len(readQueue) : readQueue[i] # StopId

Bookkeeping == /\ TypeOK /\ Counted /\ Kept
               /\ ThreadServes /\ CallerReads /\ StopIsLast

\* The counts in Bookkeeping are natural numbers.
LEMMA CountsAreNat ==
  ASSUME TypeOK, NEW r \in Readers
  PROVE  Queued(r) \in Nat /\ InService(r) \in 0..1 /\ atQueue[r] \in Nat
<1>1. Queued(r) \in Nat
  BY OccurrencesFinite DEF TypeOK, QueueType, Queued
<1>. QED BY <1>1 DEF TypeOK, QueueType, InService

\* Readers start with nothing queued.
LEMMA InitBookkeeping == Init => Bookkeeping
<1>. SUFFICES ASSUME Init PROVE Bookkeeping
  OBVIOUS
<1>1. TypeOK
  <2>0. BlockSize \in Nat \ {0}
    BY ReaderAssumption
  <2>1. QueueType
    <3>1. readQueue \in Seq(Readers \cup {StopId})
      BY DEF Init
    <3>2. atQueue \in [Readers -> Nat] /\ deleted \in [Readers -> BOOLEAN]
      BY DEF Init
    <3>. QED BY <3>1, <3>2 DEF Init, QueueType
  <2>2. HandType
    BY <2>0 DEF Init, HandType
  <2>3. StreamType
    BY <2>0 DEF Init, StreamType
  <2>4. ThreadType
    BY <2>0 DEF Init, ThreadType, ThreadPcs
  <2>5. CallType
    BY <2>0 DEF Init, CallType, CallerPcs
  <2>6. ClientType
    BY ReaderAssumption DEF Init, ClientType, NoBuf
  <2>7. DataType
    BY <2>0 DEF Init, DataType, Junk, Unit
  <2>. QED BY <2>1, <2>2, <2>3, <2>4, <2>5, <2>6, <2>7 DEF TypeOK
<1>3. Counted
  <2>. SUFFICES ASSUME NEW r \in Readers PROVE atQueue[r] >= Queued(r) + InService(r)
    BY DEF Counted
  <2>1. Occurrences(readQueue, r) = {}
    BY DEF Init, Occurrences
  <2>2. Queued(r) = 0
    BY <2>1, FS_EmptySet DEF Queued
  <2>. QED BY <2>2 DEF Init, InService, Serving
<1>. QED BY <1>1, <1>3 DEF Init, Bookkeeping, Kept, ThreadServes, CallerReads,
            StopIsLast, Serving

\* File::read returns at most what was asked for.
LEMMA ReadCountBound ==
  ASSUME TypeOK, NEW name, NEW p \in Int, NEW n \in 1..BlockSize
  PROVE  ReadCount(name, p, n) \in -1..BlockSize /\ ReadCount(name, p, n) <= n
BY ReaderAssumption DEF ReadCount

\* The first block after a seek is not empty and not too large.
LEMMA FirstSizeBound ==
  ASSUME NEW p \in Nat
  PROVE  FirstSizeAt(p) \in 1..BlockSize
<1>1. BlockSize \in Nat /\ BlockSize > 0
  BY ReaderAssumption
<1>2. p % BlockSize \in 0..(BlockSize - 1)
  BY <1>1
<1>. QED BY <1>1, <1>2 DEF FirstSizeAt

\* The types survive a step that leaves their variables alone.
LEMMA TypeUnchanged ==
  /\ QueueType  /\ UNCHANGED queueVars  => QueueType'
  /\ HandType   /\ UNCHANGED handVars   => HandType'
  /\ StreamType /\ UNCHANGED streamVars => StreamType'
  /\ ThreadType /\ UNCHANGED threadVars => ThreadType'
  /\ CallType   /\ UNCHANGED callVars   => CallType'
  /\ ClientType /\ UNCHANGED clientVars => ClientType'
  /\ DataType   /\ UNCHANGED <<nextBlock, clientVars>> => DataType'
  /\ DataType   /\ UNCHANGED <<nextBlock, delivered>> => DataType'
<1>1. QueueType  /\ UNCHANGED queueVars  => QueueType'
  BY DEF QueueType, queueVars
<1>2. HandType   /\ UNCHANGED handVars   => HandType'
  BY DEF HandType, handVars
<1>3. StreamType /\ UNCHANGED streamVars => StreamType'
  BY DEF StreamType, streamVars
<1>4. ThreadType /\ UNCHANGED threadVars => ThreadType'
  BY DEF ThreadType, threadVars
<1>5. CallType   /\ UNCHANGED callVars   => CallType'
  BY DEF CallType, callVars
<1>6. ClientType /\ UNCHANGED clientVars => ClientType'
  BY DEF ClientType, clientVars
<1>7. DataType /\ UNCHANGED <<nextBlock, clientVars>> => DataType'
  BY DEF DataType, clientVars
<1>8. DataType /\ UNCHANGED <<nextBlock, delivered>> => DataType'
  BY DEF DataType
<1>. QED BY <1>1, <1>2, <1>3, <1>4, <1>5, <1>6, <1>7, <1>8

\* A push keeps the queue a sequence of identifiers.
LEMMA PushType ==
  ASSUME QueueType, NEW id \in Readers \cup {StopId}, Push(id)
  PROVE  readQueue' \in Seq(Readers \cup {StopId})
BY DEF QueueType, Push

\* A request keeps the types of what it changes.
LEMMA RequestType ==
  ASSUME TypeOK, NEW r \in Readers, Request(r)
  PROVE  /\ readQueue' \in Seq(Readers \cup {StopId})
         /\ atQueue' \in [Readers -> Nat]
         /\ notified' \in [Readers -> BOOLEAN]
<1>1. readQueue' \in Seq(Readers \cup {StopId})
  BY PushType DEF TypeOK, Request
<1>2. atQueue' \in [Readers -> Nat]
  BY DEF TypeOK, QueueType, Request
<1>3. notified' \in [Readers -> BOOLEAN]
  BY DEF TypeOK, HandType, Request
<1>. QED BY <1>1, <1>2, <1>3

\* A read moves the file offset forward and returns at most a block.
LEMMA ReadIntoType ==
  ASSUME TypeOK, tid \in Readers, NEW n \in 1..BlockSize, ReadInto(n)
  PROVE  /\ tbytes' \in -1..BlockSize
         /\ filePos' \in [Readers -> Int]
         /\ nextBlock' \in [Readers -> [0..1 -> [1..BlockSize -> Unit]]]
<1>. DEFINE count == ReadCount(streamName[tid], filePos[tid], n)
<1>1. filePos[tid] \in Int
  BY DEF TypeOK, StreamType
<1>2. count \in -1..BlockSize
  BY <1>1, ReadCountBound
<1>. HIDE DEF count
<1>3. filePos' = [filePos EXCEPT ![tid] = IF count > 0 THEN @ + count ELSE @]
  BY DEF ReadInto, count
<1>4. tbytes' = count
  BY DEF ReadInto, count
<1>5. filePos' \in [Readers -> Int]
  BY <1>1, <1>2, <1>3, ReaderAssumption DEF TypeOK, StreamType
<1>. DEFINE old == nextBlock[tid][tbuf]
            new == [i \in 1..BlockSize |->
                      IF i <= count THEN <<streamName[tid], filePos[tid] + i>>
                                    ELSE old[i]]
<1>6. nextBlock' = [nextBlock EXCEPT ![tid][tbuf] = new]
  BY DEF ReadInto, count
<1>7. tbuf \in 0..1 /\ old \in [1..BlockSize -> Unit]
      /\ nextBlock \in [Readers -> [0..1 -> [1..BlockSize -> Unit]]]
  BY DEF TypeOK, ThreadType, DataType
<1>8. streamName[tid] \in Names \cup {NoName}
  BY DEF TypeOK, StreamType
<1>9. \A i \in 1..BlockSize : <<streamName[tid], filePos[tid] + i>> \in Unit
  BY <1>1, <1>8, ReaderAssumption DEF Unit
<1>10. new \in [1..BlockSize -> Unit]
  BY <1>7, <1>9
<1>. HIDE DEF new
<1>11. nextBlock' \in [Readers -> [0..1 -> [1..BlockSize -> Unit]]]
  BY <1>6, <1>7, <1>10
<1>. QED BY <1>2, <1>4, <1>5, <1>11

\* The list iterator only moves forward.
LEMMA NextIndexType ==
  ASSUME StreamType, NEW r \in Readers
  PROVE  NextIndex(r) \in {NoItr} \cup Nat
BY DEF StreamType, NextIndex, NoItr

\* What it moves to is a name of the list or the empty one.
LEMMA NextNameType ==
  ASSUME StreamType, NEW r \in Readers, itr[r] # NoItr
  PROVE  NextName(r) \in Names \cup {NoName}
<1>1. FileList[r] \in Seq(Names)
  BY ReaderAssumption
<1>2. itr[r] \in Nat
  BY DEF StreamType
<1>3. NextIndex(r) \in Nat
  BY <1>2 DEF NextIndex
<1>. QED BY <1>1, <1>3 DEF NextName

\* The end of a request sets flags only.
LEMMA GoPublishType ==
  ASSUME TypeOK, NEW finished \in BOOLEAN, GoPublish(finished)
  PROVE  /\ eof' \in [Readers -> BOOLEAN]
         /\ blockSize' \in [Readers -> 1..BlockSize]
         /\ tpc' \in ThreadPcs
<1>1. BlockSize \in Nat \ {0}
  BY ReaderAssumption
<1>2. eof' \in [Readers -> BOOLEAN]
  BY DEF TypeOK, HandType, GoPublish
<1>3. blockSize' \in [Readers -> 1..BlockSize]
  <2>1. blockSize \in [Readers -> 1..BlockSize] /\ BlockSize \in 1..BlockSize
    BY <1>1 DEF TypeOK, StreamType
  <2>2. blockSize' = [blockSize EXCEPT ![tid] = BlockSize]
    BY DEF GoPublish
  <2>. QED BY <2>1, <2>2
<1>. QED BY <1>2, <1>3 DEF GoPublish, ThreadPcs

\* Every step of the thread keeps the types.
LEMMA ThreadTypeStep ==
  ASSUME Bookkeeping, Thread
  PROVE  TypeOK'
<1>. USE DEF Bookkeeping
<1>1. /\ QueueType /\ HandType /\ StreamType
      /\ ThreadType /\ CallType /\ ClientType /\ DataType
  BY DEF TypeOK
<1>2. BlockSize \in Nat \ {0}
  BY ReaderAssumption
<1>3. tpc \in Serving => tid \in Readers
  BY DEF ThreadServes
<1>a. CASE ThreadPop
  <2>1. readQueue' \in Seq(Readers \cup {StopId}) /\ tid' \in Readers \cup {StopId}
    BY <1>a, <1>1 DEF ThreadPop, QueueType
  <2>2. QueueType'
    BY <1>a, <1>1, <2>1 DEF ThreadPop, QueueType
  <2>3. ThreadType'
    BY <1>a, <1>1, <2>1 DEF ThreadPop, ThreadType, ThreadPcs
  <2>. QED BY <1>a, <1>1, <2>2, <2>3, TypeUnchanged DEF ThreadPop, TypeOK
<1>b. CASE ThreadGet
  <2>1. tid \in Readers
    BY <1>b, <1>3 DEF ThreadGet, Serving
  <2>2. tbuf' \in 0..1
    BY <1>b, <1>1, <2>1 DEF ThreadGet, HandType, ThreadType
  <2>3. ThreadType'
    BY <1>b, <1>1, <2>2 DEF ThreadGet, ThreadType, ThreadPcs
  <2>. QED BY <1>b, <1>1, <2>3, TypeUnchanged DEF ThreadGet, TypeOK
<1>c. CASE ThreadRead
  <2>1. tid \in Readers
    BY <1>c, <1>3 DEF ThreadRead, Serving
  <2>2. /\ tbytes' \in -1..BlockSize /\ filePos' \in [Readers -> Int]
        /\ nextBlock' \in [Readers -> [0..1 -> [1..BlockSize -> Unit]]]
    <3>1. blockSize[tid] \in 1..BlockSize
      BY <1>1, <2>1 DEF StreamType
    <3>. QED BY <1>c, <2>1, <3>1, ReadIntoType DEF ThreadRead
  <2>3. StreamType'
    BY <1>c, <1>1, <2>2 DEF ThreadRead, StreamType
  <2>4. ThreadType'
    BY <1>c, <1>1, <2>2 DEF ThreadRead, ThreadType, ThreadPcs
  <2>5. DataType'
    BY <1>c, <1>1, <2>2 DEF ThreadRead, DataType, clientVars
  <2>. QED BY <1>c, <1>1, <2>3, <2>4, <2>5, TypeUnchanged DEF ThreadRead, TypeOK
<1>d. CASE ThreadStay
  <2>1. tid \in Readers
    BY <1>d, <1>3 DEF ThreadStay, Serving
  <2>2. itr' \in [Readers -> {NoItr} \cup Nat]
    BY <1>d, <1>1, <2>1, NextIndexType DEF ThreadStay, StreamType
  <2>3. eof' \in [Readers -> BOOLEAN] /\ blockSize' \in [Readers -> 1..BlockSize]
        /\ tpc' \in ThreadPcs
    BY <1>d, GoPublishType DEF ThreadStay, AtFileEnd
  <2>4. firstBlock' \in [Readers -> BOOLEAN] /\ lastBlock' \in [Readers -> BOOLEAN]
    BY <1>d, <1>1, <2>1 DEF ThreadStay, StreamType, FirstAfterRead
  <2>5. StreamType'
    BY <1>d, <1>1, <2>2, <2>3, <2>4 DEF ThreadStay, StreamType
  <2>6. HandType' /\ ThreadType'
    BY <1>d, <1>1, <2>3 DEF ThreadStay, HandType, ThreadType
  <2>. QED BY <1>d, <1>1, <2>5, <2>6, TypeUnchanged DEF ThreadStay, TypeOK
<1>e. CASE ThreadSwitch
  <2>1. tid \in Readers
    BY <1>e, <1>3 DEF ThreadSwitch, Serving
  <2>2. itr' \in [Readers -> {NoItr} \cup Nat]
    BY <1>e, <1>1, <2>1, NextIndexType DEF ThreadSwitch, StreamType
  <2>3. streamName' \in [Readers -> Names \cup {NoName}]
    BY <1>e, <1>1, <2>1, NextNameType DEF ThreadSwitch, StreamType
  <2>4. /\ eof' \in [Readers -> BOOLEAN] /\ blockSize' \in [Readers -> 1..BlockSize]
        /\ tpc' \in ThreadPcs
    BY <1>e, <1>1, GoPublishType DEF ThreadSwitch, HandType, StreamType, ThreadPcs
  <2>5. firstBlock' \in [Readers -> BOOLEAN] /\ lastBlock' \in [Readers -> BOOLEAN]
    BY <1>e, <1>1, <2>1 DEF ThreadSwitch, StreamType, FirstAfterRead
  <2>6. filePos' \in [Readers -> Int]
    BY <1>e, <1>1, <2>1 DEF ThreadSwitch, StreamType
  <2>7. StreamType'
    BY <1>e, <1>1, <2>2, <2>3, <2>4, <2>5, <2>6 DEF StreamType
  <2>8. HandType' /\ ThreadType'
    BY <1>e, <1>1, <2>4 DEF ThreadSwitch, HandType, ThreadType
  <2>. QED BY <1>e, <1>1, <2>7, <2>8, TypeUnchanged DEF ThreadSwitch, TypeOK
<1>f. CASE ThreadReadNext
  <2>1. tid \in Readers
    BY <1>f, <1>3 DEF ThreadReadNext, Serving
  <2>2. /\ tbytes' \in -1..BlockSize /\ filePos' \in [Readers -> Int]
        /\ nextBlock' \in [Readers -> [0..1 -> [1..BlockSize -> Unit]]]
    BY <1>f, <1>2, <2>1, ReadIntoType DEF ThreadReadNext
  <2>3. eof' \in [Readers -> BOOLEAN] /\ lastBlock' \in [Readers -> BOOLEAN]
        /\ blockSize' \in [Readers -> 1..BlockSize]
    BY <1>f, <1>1, <1>2, <2>1 DEF ThreadReadNext, HandType, StreamType, Short
  <2>4. StreamType'
    BY <1>f, <1>1, <2>2, <2>3 DEF ThreadReadNext, StreamType
  <2>5. HandType'
    BY <1>f, <1>1, <2>3 DEF ThreadReadNext, HandType
  <2>6. ThreadType'
    BY <1>f, <1>1, <2>2 DEF ThreadReadNext, ThreadType, ThreadPcs
  <2>7. DataType'
    BY <1>f, <1>1, <2>2 DEF ThreadReadNext, DataType, clientVars
  <2>. QED BY <1>f, <1>1, <2>4, <2>5, <2>6, <2>7, TypeUnchanged
           DEF ThreadReadNext, TypeOK
<1>g. CASE ThreadPublish
  <2>1. nextBlockSize' \in [Readers -> -1..BlockSize]
    BY <1>g, <1>1 DEF ThreadPublish, HandType, ThreadType
  <2>2. HandType'
    BY <1>g, <1>1, <2>1 DEF ThreadPublish, HandType
  <2>3. ThreadType'
    BY <1>g, <1>1 DEF ThreadPublish, ThreadType, ThreadPcs
  <2>. QED BY <1>g, <1>1, <2>2, <2>3, TypeUnchanged DEF ThreadPublish, TypeOK
<1>h. CASE ThreadRelease
  <2>1. tid \in Readers /\ InService(tid) = 1
    BY <1>h, <1>3 DEF ThreadRelease, Serving, InService
  <2>2. atQueue[tid] \in Nat /\ atQueue[tid] >= 1
    BY <2>1, CountsAreNat DEF Counted
  <2>3. atQueue' \in [Readers -> Nat]
    <3>1. atQueue \in [Readers -> Nat] /\ atQueue[tid] - 1 \in Nat
      BY <1>1, <2>2 DEF QueueType
    <3>2. atQueue' = [atQueue EXCEPT ![tid] = @ - 1]
      BY <1>h DEF ThreadRelease
    <3>. QED BY <3>1, <3>2
  <2>4. QueueType'
    BY <1>h, <1>1, <2>3 DEF ThreadRelease, QueueType
  <2>5. ThreadType'
    BY <1>h, <1>1 DEF ThreadRelease, ThreadType, ThreadPcs
  <2>. QED BY <1>h, <1>1, <2>4, <2>5, TypeUnchanged DEF ThreadRelease, TypeOK
<1>i. CASE ThreadLoop
  <2>1. ThreadType'
    BY <1>i, <1>1 DEF ThreadLoop, ThreadType, ThreadPcs
  <2>. QED BY <1>i, <1>1, <2>1, TypeUnchanged DEF ThreadLoop, TypeOK
<1>. QED BY <1>a, <1>b, <1>c, <1>d, <1>e, <1>f, <1>g, <1>h, <1>i DEF Thread

\* Every step of the caller keeps the types.
LEMMA CallerTypeStep ==
  ASSUME Bookkeeping, Caller
  PROVE  TypeOK'
<1>1. /\ TypeOK /\ QueueType /\ HandType /\ StreamType
      /\ ThreadType /\ CallType /\ ClientType /\ DataType
  BY DEF Bookkeeping, TypeOK
<1>2. BlockSize \in Nat \ {0} /\ NoBuf = 2
  BY ReaderAssumption DEF NoBuf
<1>3. cpc \in {"wait", "take", "reset"} => cid \in Readers
  BY DEF Bookkeeping, CallerReads
<1>a. ASSUME NEW r \in Readers, CreateReader(r) PROVE TypeOK'
  <2>1. QueueType'
    BY <1>a, <1>1 DEF CreateReader, QueueType
  <2>2. ThreadType'
    BY <1>a, <1>1 DEF CreateReader, ThreadType, ThreadPcs
  <2>. QED BY <1>a, <1>1, <2>1, <2>2, TypeUnchanged DEF CreateReader, TypeOK
<1>b. ASSUME NEW r \in Readers, OpenStream(r) PROVE TypeOK'
  <2>1. FileList[r][1] \in Names
    BY ReaderAssumption
  <2>2. streamName' \in [Readers -> Names \cup {NoName}]
    BY <1>b, <1>1, <2>1 DEF OpenStream, StreamType
  <2>3. itr' \in [Readers -> {NoItr} \cup Nat] /\ filePos' \in [Readers -> Int]
    BY <1>b, <1>1 DEF OpenStream, StreamType
  <2>4. firstBlock' \in [Readers -> BOOLEAN] /\ lastBlock' \in [Readers -> BOOLEAN]
    BY <1>b, <1>1 DEF OpenStream, StreamType
  <2>5. StreamType'
    BY <1>b, <1>1, <2>2, <2>3, <2>4 DEF OpenStream, StreamType
  <2>6. ClientType'
    BY <1>b, <1>1 DEF OpenStream, ClientType
  <2>. QED BY <1>b, <1>1, <2>5, <2>6, TypeUnchanged DEF OpenStream, TypeOK
<1>c. ASSUME NEW r \in Readers, ReadRequest(r) PROVE TypeOK'
  <2>1. /\ readQueue' \in Seq(Readers \cup {StopId})
        /\ atQueue' \in [Readers -> Nat] /\ notified' \in [Readers -> BOOLEAN]
    <3>1. CASE Request(r)
      BY <1>1, <3>1, RequestType
    <3>2. CASE UNCHANGED <<notified, atQueue, readQueue>>
      BY <1>1, <3>2 DEF QueueType, HandType
    <3>. QED BY <1>c, <3>1, <3>2 DEF ReadRequest
  <2>2. QueueType'
    BY <1>c, <1>1, <2>1 DEF ReadRequest, QueueType
  <2>3. HandType'
    BY <1>c, <1>1, <2>1 DEF ReadRequest, HandType
  <2>4. CallType'
    BY <1>c, <1>1 DEF ReadRequest, CallType, CallerPcs
  <2>5. pastEof' \in [Readers -> Nat] /\ held' \in [Readers -> 0..NoBuf]
    BY <1>c, <1>1, <1>2 DEF ReadRequest, ClientType
  <2>6. ClientType'
    BY <1>c, <1>1, <2>5 DEF ReadRequest, ClientType
  <2>. QED BY <1>c, <1>1, <2>2, <2>3, <2>4, <2>6, TypeUnchanged
           DEF ReadRequest, TypeOK
<1>d. CASE ReadWait
  <2>1. CallType'
    BY <1>d, <1>1 DEF ReadWait, CallType, CallerPcs
  <2>. QED BY <1>d, <1>1, <2>1, TypeUnchanged DEF ReadWait, TypeOK
<1>e. CASE ReadTake
  <2>1. nextBlockSize[cid] \in -1..BlockSize
    BY <1>e, <1>1, <1>3 DEF ReadTake, HandType
  <2>2. CallType'
    BY <1>e, <1>1, <1>2, <2>1 DEF ReadTake, CallType, CallerPcs
  <2>. QED BY <1>e, <1>1, <2>2, TypeUnchanged DEF ReadTake, TypeOK
<1>f. CASE ReadReset
  <2>. DEFINE b == bufferIndex[cid]
  <2>1. /\ bufferIndex' = [bufferIndex EXCEPT ![cid] = OtherBuffer(b)]
        /\ nextBlockSize' = [nextBlockSize EXCEPT ![cid] = 0]
        /\ notified' = [notified EXCEPT ![cid] = FALSE] /\ eof' = eof
    BY <1>f DEF ReadReset
  <2>2. /\ held' = [held EXCEPT ![cid] = IF ccnt > 0 THEN b ELSE NoBuf]
        /\ lastRez' = [lastRez EXCEPT ![cid] = crez]
        /\ lastFirst' = [lastFirst EXCEPT ![cid] = firstBlock[cid]]
        /\ UNCHANGED <<opened, pastEof, detecting, base>>
    BY <1>f DEF ReadReset
  <2>3. /\ cpc' = "idle" /\ UNCHANGED <<cid, ccnt, crez>>
        /\ UNCHANGED <<queueVars, streamVars, threadVars, nextBlock>>
        /\ delivered' = [delivered EXCEPT ![cid] =
                            @ \o SubSeq(nextBlock[cid][b], 1, ccnt)]
    BY <1>f DEF ReadReset
  <2>4. cid \in Readers
    BY <1>f, <1>3 DEF ReadReset
  <2>5. b \in 0..1 /\ OtherBuffer(b) \in 0..1
    BY <1>1, <2>4 DEF HandType, OtherBuffer
  <2>. HIDE DEF b
  <2>6. HandType'
    <3>1. bufferIndex' \in [Readers -> 0..1]
      BY <1>1, <2>1, <2>5 DEF HandType
    <3>2. nextBlockSize' \in [Readers -> -1..BlockSize]
      <4>1. nextBlockSize' = [nextBlockSize EXCEPT ![cid] = 0]
        BY <2>1
      <4>2. 0 \in -1..BlockSize
        BY <1>2
      <4>. QED BY <1>1, <4>1, <4>2 DEF HandType
    <3>3. notified' \in [Readers -> BOOLEAN] /\ eof' \in [Readers -> BOOLEAN]
      BY <1>1, <2>1 DEF HandType
    <3>. QED BY <3>1, <3>2, <3>3 DEF HandType
  <2>7. CallType'
    BY <1>1, <2>3 DEF CallType, CallerPcs
  <2>8. firstBlock[cid] \in BOOLEAN /\ crez \in {"ok", "eof"}
    BY <1>1, <2>4 DEF StreamType, CallType
  <2>9. ClientType'
    <3>1. held' \in [Readers -> 0..NoBuf]
      <4>. DEFINE h == IF ccnt > 0 THEN b ELSE NoBuf
      <4>1. held' = [held EXCEPT ![cid] = h]
        BY <2>2
      <4>2. h \in 0..NoBuf
        BY <1>2, <2>5
      <4>. QED BY <1>1, <4>1, <4>2 DEF ClientType
    <3>2. /\ lastRez' \in [Readers -> {"ok", "eof"}]
          /\ lastFirst' \in [Readers -> BOOLEAN]
      BY <1>1, <2>2, <2>8 DEF ClientType
    <3>. QED BY <1>1, <2>2, <3>1, <3>2 DEF ClientType
  <2>10. DataType'
    <3>1. /\ nextBlock[cid][b] \in [1..BlockSize -> Unit] /\ ccnt \in 0..BlockSize
          /\ delivered[cid] \in Seq(Unit) /\ delivered \in [Readers -> Seq(Unit)]
      BY <1>1, <2>4, <2>5 DEF DataType, CallType
    <3>2. SubSeq(nextBlock[cid][b], 1, ccnt) \in Seq(Unit)
      BY <1>2, <3>1
    <3>3. delivered[cid] \o SubSeq(nextBlock[cid][b], 1, ccnt) \in Seq(Unit)
      BY <3>1, <3>2
    <3>4. delivered' \in [Readers -> Seq(Unit)]
      BY <2>3, <3>1, <3>3
    <3>. QED BY <1>1, <2>3, <3>4 DEF DataType
  <2>. QED BY <1>1, <2>3, <2>6, <2>7, <2>9, <2>10, TypeUnchanged DEF TypeOK
<1>g. ASSUME NEW r \in Readers, Notify(r) PROVE TypeOK'
  <2>1. /\ readQueue' \in Seq(Readers \cup {StopId})
        /\ atQueue' \in [Readers -> Nat] /\ notified' \in [Readers -> BOOLEAN]
    BY <1>g, <1>1, RequestType DEF Notify
  <2>2. QueueType'
    BY <1>g, <1>1, <2>1 DEF Notify, QueueType
  <2>3. HandType'
    BY <1>g, <1>1, <2>1 DEF Notify, HandType
  <2>. QED BY <1>g, <1>1, <2>2, <2>3, TypeUnchanged DEF Notify, TypeOK
<1>j. ASSUME NEW r \in Readers, DeleteReader(r) PROVE TypeOK'
  <2>1. deleted' \in [Readers -> BOOLEAN] /\ registered' \subseteq Readers
    BY <1>j, <1>1 DEF DeleteReader, QueueType
  <2>2. QueueType'
    BY <1>j, <1>1, <2>1 DEF DeleteReader, QueueType
  <2>3. opened' \subseteq Readers /\ held' \in [Readers -> 0..NoBuf]
    BY <1>j, <1>1, <1>2 DEF DeleteReader, ClientType
  <2>4. ClientType'
    BY <1>j, <1>1, <2>3 DEF DeleteReader, ClientType
  <2>. QED BY <1>j, <1>1, <2>2, <2>4, TypeUnchanged DEF DeleteReader, TypeOK
<1>k. CASE Terminate
  <2>1. QueueType' /\ CallType'
    BY <1>k, <1>1 DEF Terminate, QueueType, CallType, CallerPcs
  <2>. QED BY <1>k, <1>1, <2>1, TypeUnchanged DEF Terminate, TypeOK
<1>l. CASE PushStop
  <2>1. readQueue' \in Seq(Readers \cup {StopId})
    BY <1>l, <1>1, PushType DEF PushStop, WakeThread
  <2>2. QueueType' /\ CallType'
    BY <1>l, <1>1, <2>1 DEF PushStop, QueueType, CallType, CallerPcs
  <2>. QED BY <1>l, <1>1, <2>2, TypeUnchanged DEF PushStop, TypeOK
<1>m. CASE Join
  <2>1. QueueType' /\ CallType'
    BY <1>m, <1>1 DEF Join, QueueType, CallType, CallerPcs
  <2>. QED BY <1>m, <1>1, <2>1, TypeUnchanged DEF Join, TypeOK
<1>n. ASSUME NEW r \in Readers, NEW p \in GotoTargets, GotoByte(r, p)
      PROVE  TypeOK'
  <2>1. p \in Nat /\ FirstSizeAt(p) \in 1..BlockSize
    BY ReaderAssumption, FirstSizeBound
  <2>. HIDE DEF FirstSizeAt
  <2>2. blockSize' \in [Readers -> 1..BlockSize] /\ filePos' \in [Readers -> Int]
    BY <1>n, <1>1, <2>1 DEF GotoByte, StreamType
  <2>3. StreamType'
    BY <1>n, <1>1, <2>2 DEF GotoByte, StreamType
  <2>4. eof' \in [Readers -> BOOLEAN] /\ notified' \in [Readers -> BOOLEAN]
    BY <1>n, <1>1 DEF GotoByte, HandType
  <2>5. HandType'
    BY <1>n, <1>1, <2>4 DEF GotoByte, HandType
  <2>6. /\ held' \in [Readers -> 0..NoBuf] /\ lastRez' \in [Readers -> {"ok", "eof"}]
        /\ base' \in [Readers -> Nat]
    BY <1>n, <1>1, <1>2, <2>1 DEF GotoByte, ClientType
  <2>7. ClientType'
    BY <1>n, <1>1, <2>6 DEF GotoByte, ClientType
  <2>8. DataType'
    BY <1>n, <1>1 DEF GotoByte, DataType
  <2>. QED BY <1>n, <1>1, <2>3, <2>5, <2>7, <2>8, TypeUnchanged
           DEF GotoByte, TypeOK
<1>o. ASSUME NEW r \in Readers, IncSeek(r) PROVE TypeOK'
  <2>1. filePos' \in [Readers -> Int]
    <3>1. filePos[r] \in Int /\ Len(delivered[r]) \in Nat
      BY <1>1 DEF StreamType, DataType
    <3>2. filePos[r] - Len(delivered[r]) \in Int
      BY <3>1
    <3>3. filePos' = [filePos EXCEPT ![r] = @ - Len(delivered[r])]
      BY <1>o DEF IncSeek
    <3>. QED BY <1>1, <3>2, <3>3 DEF StreamType
  <2>3. StreamType'
    BY <1>o, <1>1, <2>1 DEF IncSeek, StreamType
  <2>4. eof' \in [Readers -> BOOLEAN] /\ notified' \in [Readers -> BOOLEAN]
    BY <1>o, <1>1 DEF IncSeek, HandType
  <2>5. HandType'
    BY <1>o, <1>1, <2>4 DEF IncSeek, HandType
  <2>6. /\ held' \in [Readers -> 0..NoBuf] /\ lastRez' \in [Readers -> {"ok", "eof"}]
        /\ detecting' \subseteq Readers
    BY <1>o, <1>1, <1>2 DEF IncSeek, ClientType
  <2>7. ClientType'
    BY <1>o, <1>1, <2>6 DEF IncSeek, ClientType
  <2>8. DataType'
    BY <1>o, <1>1 DEF IncSeek, DataType
  <2>. QED BY <1>o, <1>1, <2>3, <2>5, <2>7, <2>8, TypeUnchanged
           DEF IncSeek, TypeOK
<1>. QED BY <1>a, <1>b, <1>c, <1>d, <1>e, <1>f, <1>g, <1>j, <1>k, <1>l, <1>m,
            <1>n, <1>o DEF Caller, ReadReturn, End

-----------------------------------------------------------------------------
(* How each kind of step moves the two sides of Counted.                   *)

\* A push adds at most one occurrence, and only of what is pushed.
LEMMA PushCount ==
  ASSUME QueueType, NEW id \in Readers \cup {StopId}, Push(id), NEW r \in Readers
  PROVE  Queued(r)' <= Queued(r) + (IF id = r THEN 1 ELSE 0)
<1>1. readQueue \in Seq(Readers \cup {StopId})
  BY DEF QueueType
<1>2. Cardinality(Occurrences(readQueue, r)) \in Nat
  BY <1>1, OccurrencesFinite
<1>3. CASE readQueue' = readQueue
  BY <1>2, <1>3 DEF Queued
<1>4. CASE readQueue' = Append(readQueue, id)
  BY <1>1, <1>2, <1>4, CountAppend DEF Queued
<1>. QED BY <1>3, <1>4 DEF Push

\* A request is counted before it is queued.
LEMMA RequestCounted ==
  ASSUME TypeOK, Counted, NEW q \in Readers, Request(q), UNCHANGED <<tpc, tid>>
  PROVE  Counted'
<1>. SUFFICES ASSUME NEW r \in Readers
              PROVE  atQueue'[r] >= Queued(r)' + InService(r)'
  BY DEF Counted
<1>1. /\ Queued(r) \in Nat /\ InService(r) \in 0..1 /\ atQueue[r] \in Nat
      /\ atQueue[r] >= Queued(r) + InService(r)
  BY CountsAreNat DEF Counted
<1>2. InService(r)' = InService(r)
  BY DEF InService
<1>3. Queued(r)' <= Queued(r) + (IF q = r THEN 1 ELSE 0)
  BY PushCount DEF TypeOK, Request
<1>4. atQueue'[r] = atQueue[r] + (IF q = r THEN 1 ELSE 0)
  BY DEF Request, TypeOK, QueueType
<1>5. Queued(r)' \in Nat
  <2>1. readQueue' \in Seq(Readers \cup {StopId})
    BY RequestType
  <2>. QED BY <2>1, OccurrencesFinite DEF Queued
<1>. QED BY <1>1, <1>2, <1>3, <1>4, <1>5

\* A step that leaves the queue and the counters alone, and no reader newly in
\* service, keeps Counted.
LEMMA QuietCounted ==
  ASSUME TypeOK, Counted, UNCHANGED <<readQueue, atQueue>>,
         \A r \in Readers : InService(r)' <= InService(r),
         \A r \in Readers : InService(r)' \in 0..1
  PROVE  Counted'
<1>. SUFFICES ASSUME NEW r \in Readers
              PROVE  atQueue'[r] >= Queued(r)' + InService(r)'
  BY DEF Counted
<1>1. /\ Queued(r) \in Nat /\ InService(r) \in 0..1 /\ atQueue[r] \in Nat
      /\ atQueue[r] >= Queued(r) + InService(r)
  BY CountsAreNat DEF Counted
<1>2. Queued(r)' = Queued(r)
  BY DEF Queued
<1>. QED BY <1>1, <1>2

\* Taking a request off the queue puts its reader in service, if anything.
LEMMA PopCounted ==
  ASSUME TypeOK, Counted, ThreadPop
  PROVE  Counted'
<1>. SUFFICES ASSUME NEW r \in Readers
              PROVE  atQueue'[r] >= Queued(r)' + InService(r)'
  BY DEF Counted
<1>1. /\ Queued(r) \in Nat /\ InService(r) \in 0..1 /\ atQueue[r] \in Nat
      /\ atQueue[r] >= Queued(r) + InService(r)
  BY CountsAreNat DEF Counted
<1>2. Queued(r) = Queued(r)' + (IF Head(readQueue) = r THEN 1 ELSE 0)
  BY CountTail DEF ThreadPop, TypeOK, QueueType, Queued
<1>3. InService(r)' <= (IF Head(readQueue) = r THEN 1 ELSE 0) /\ InService(r)' \in 0..1
  BY DEF ThreadPop, InService, Serving
<1>4. readQueue' \in Seq(Readers \cup {StopId})
  BY DEF ThreadPop, TypeOK, QueueType
<1>5. Queued(r)' \in Nat
  BY <1>4, OccurrencesFinite DEF Queued
<1>. QED BY <1>1, <1>2, <1>3, <1>5 DEF ThreadPop

\* The request served last leaves both sides.
LEMMA ReleaseCounted ==
  ASSUME TypeOK, Counted, ThreadRelease, tid \in Readers
  PROVE  Counted'
<1>. SUFFICES ASSUME NEW r \in Readers
              PROVE  atQueue'[r] >= Queued(r)' + InService(r)'
  BY DEF Counted
<1>1. /\ Queued(r) \in Nat /\ InService(r) \in 0..1 /\ atQueue[r] \in Nat
      /\ atQueue[r] >= Queued(r) + InService(r)
  BY CountsAreNat DEF Counted
<1>2. Queued(r)' = Queued(r)
  BY DEF ThreadRelease, Queued
<1>3. InService(r)' = 0 /\ InService(r) = (IF r = tid THEN 1 ELSE 0)
  BY DEF ThreadRelease, InService, Serving
<1>4. atQueue'[r] = atQueue[r] - (IF r = tid THEN 1 ELSE 0)
  BY DEF ThreadRelease, TypeOK, QueueType
<1>. QED BY <1>1, <1>2, <1>3, <1>4

\* Every step keeps m_atQueue above the requests it stands for.
LEMMA CountedStep ==
  ASSUME Bookkeeping, Next
  PROVE  Counted'
<1>1. TypeOK /\ Counted /\ (tpc \in Serving => tid \in Readers)
  BY DEF Bookkeeping, ThreadServes
<1>2. CASE ThreadPop
  BY <1>1, <1>2, PopCounted
<1>3. CASE ThreadRelease
  <2>1. tid \in Readers
    BY <1>1, <1>3 DEF ThreadRelease, Serving
  <2>. QED BY <1>1, <1>3, <2>1, ReleaseCounted
<1>4. CASE \/ ThreadGet \/ ThreadRead \/ ThreadStay \/ ThreadSwitch
           \/ ThreadReadNext \/ ThreadPublish \/ ThreadLoop
  <2>1. UNCHANGED <<readQueue, atQueue, tid>>
    BY <1>4 DEF ThreadGet, ThreadRead, ThreadStay, ThreadSwitch, ThreadReadNext,
                ThreadPublish, ThreadLoop, queueVars
  <2>2. tpc' \in Serving => tpc \in Serving
    BY <1>4 DEF ThreadGet, ThreadRead, ThreadStay, ThreadSwitch, ThreadReadNext,
                ThreadPublish, ThreadLoop, GoPublish, Serving
  <2>3. \A r \in Readers : InService(r)' <= InService(r) /\ InService(r)' \in 0..1
    BY <2>1, <2>2 DEF InService
  <2>. QED BY <1>1, <2>1, <2>3, QuietCounted
<1>5. ASSUME NEW r \in Readers, Request(r), UNCHANGED threadVars PROVE Counted'
  BY <1>1, <1>5, RequestCounted DEF threadVars
<1>6. ASSUME UNCHANGED <<readQueue, atQueue, tid>>,
             tpc' = tpc \/ (tpc' = "loop" /\ tpc = "none")
      PROVE  Counted'
  <2>1. \A r \in Readers : InService(r)' <= InService(r) /\ InService(r)' \in 0..1
    BY <1>6 DEF InService, Serving
  <2>. QED BY <1>1, <1>6, <2>1, QuietCounted
<1>7. ASSUME NEW r \in Readers, ReadRequest(r) PROVE Counted'
  <2>1. CASE Request(r)
    BY <1>5, <1>7, <2>1 DEF ReadRequest
  <2>2. CASE UNCHANGED <<notified, atQueue, readQueue>>
    BY <1>6, <1>7, <2>2 DEF ReadRequest, threadVars
  <2>. QED BY <1>7, <2>1, <2>2 DEF ReadRequest
<1>8. ASSUME NEW r \in Readers, Notify(r) PROVE Counted'
  BY <1>5, <1>8 DEF Notify
<1>9. ASSUME NEW r \in Readers,
             \/ CreateReader(r) \/ OpenStream(r) \/ IncSeek(r) \/ DeleteReader(r)
             \/ \E p \in GotoTargets : GotoByte(r, p)
      PROVE  Counted'
  BY <1>6, <1>9 DEF CreateReader, OpenStream, IncSeek, DeleteReader, GotoByte,
                    queueVars, threadVars
<1>10. CASE ReadReturn
  BY <1>6, <1>10 DEF ReadReturn, ReadWait, ReadTake, ReadReset, queueVars, threadVars
<1>11. CASE Terminate \/ Join
  BY <1>6, <1>11 DEF Terminate, Join, threadVars
<1>12. CASE PushStop
  <2>. SUFFICES ASSUME NEW r \in Readers
                PROVE  atQueue'[r] >= Queued(r)' + InService(r)'
    BY DEF Counted
  <2>1. /\ Queued(r) \in Nat /\ InService(r) \in 0..1 /\ atQueue[r] \in Nat
        /\ atQueue[r] >= Queued(r) + InService(r)
    BY <1>1, CountsAreNat DEF Counted
  <2>2. Queued(r)' <= Queued(r)
    <3>1. StopId # r
      BY ReaderAssumption
    <3>2. Queued(r)' <= Queued(r) + 0
      BY <1>1, <1>12, <3>1, PushCount DEF PushStop, WakeThread, TypeOK
    <3>. QED BY <2>1, <3>2
  <2>3. Queued(r)' \in Nat
    <3>1. readQueue' \in Seq(Readers \cup {StopId})
      BY <1>1, <1>12, PushType DEF PushStop, WakeThread, TypeOK
    <3>. QED BY <3>1, OccurrencesFinite DEF Queued
  <2>4. UNCHANGED atQueue /\ InService(r)' = InService(r)
    BY <1>12 DEF PushStop, InService, threadVars
  <2>. QED BY <2>1, <2>2, <2>3, <2>4
<1>. QED BY <1>2, <1>3, <1>4, <1>7, <1>8, <1>9, <1>10, <1>11, <1>12
         DEF Next, Thread, Caller, End

\* A reader with requests is not freed before the destructor frees them all.
LEMMA KeptStep ==
  ASSUME Bookkeeping, Next
  PROVE  Kept'
<1>. SUFFICES ASSUME cpc' # "end", NEW r \in Readers, atQueue'[r] > 0
              PROVE  r \in registered'
  BY DEF Kept
<1>1. /\ TypeOK /\ QueueType
      /\ cpc # "end" /\ atQueue[r] > 0 => r \in registered
      /\ tpc \in Serving => tid \in Readers
  BY DEF Bookkeeping, TypeOK, Kept, ThreadServes
<1>2. cpc # "end"
  <2>1. CASE Thread
    <3>1. UNCHANGED cpc
      BY <2>1 DEF Thread, ThreadPop, ThreadGet, ThreadRead, ThreadStay,
         ThreadSwitch, ThreadReadNext, ThreadPublish, ThreadRelease, ThreadLoop,
         callVars
    <3>. QED BY <3>1
  <2>2. CASE Caller
    <3>1. ASSUME NEW q \in Readers,
                 \/ CreateReader(q) \/ OpenStream(q) \/ ReadRequest(q) \/ Notify(q)
                 \/ IncSeek(q) \/ DeleteReader(q)
                 \/ \E p \in GotoTargets : GotoByte(q, p)
          PROVE  cpc = "idle"
      BY <3>1 DEF CreateReader, OpenStream, ReadRequest, Notify, IncSeek,
         DeleteReader, GotoByte, Reading
    <3>2. CASE ReadReturn \/ Terminate \/ End
      BY <3>2 DEF ReadReturn, ReadWait, ReadTake, ReadReset, Terminate, End,
         PushStop, Join
    <3>. QED BY <2>2, <3>1, <3>2 DEF Caller
  <2>. QED BY <2>1, <2>2 DEF Next
<1>3. CASE ThreadRelease
  <2>1. tid \in Readers
    BY <1>1, <1>3 DEF ThreadRelease, Serving
  <2>2. atQueue'[r] = atQueue[r] - (IF r = tid THEN 1 ELSE 0)
    BY <1>1, <1>3, <2>1 DEF ThreadRelease, QueueType
  <2>3. atQueue[r] \in Nat
    BY <1>1 DEF QueueType
  <2>4. r \in registered /\ ~(r = tid /\ ServedLast(tid))
    BY <1>1, <1>2, <2>2, <2>3 DEF ServedLast
  <2>. QED BY <1>3, <2>4 DEF ThreadRelease
<1>4. CASE Thread /\ ~ThreadRelease
  <2>1. UNCHANGED <<registered, atQueue>>
    BY <1>4 DEF Thread, ThreadPop, ThreadGet, ThreadRead, ThreadStay, ThreadSwitch,
                ThreadReadNext, ThreadPublish, ThreadLoop, queueVars
  <2>. QED BY <1>1, <1>2, <2>1
<1>5. ASSUME NEW q \in Readers, Request(q), Reading(q), UNCHANGED registered
      PROVE  r \in registered'
  <2>1. CASE q = r
    BY <1>5, <2>1 DEF Reading
  <2>2. CASE q # r
    BY <1>1, <1>2, <1>5, <2>2 DEF Request, QueueType
  <2>. QED BY <2>1, <2>2
<1>6. ASSUME NEW q \in Readers, ReadRequest(q) \/ Notify(q)
      PROVE  r \in registered'
  <2>1. CASE Request(q)
    BY <1>5, <1>6, <2>1 DEF ReadRequest, Notify
  <2>2. CASE ~Request(q)
    BY <1>1, <1>2, <1>6, <2>2 DEF ReadRequest, Notify
  <2>. QED BY <2>1, <2>2
<1>7. ASSUME NEW q \in Readers,
             \/ CreateReader(q) \/ OpenStream(q) \/ IncSeek(q)
             \/ \E p \in GotoTargets : GotoByte(q, p)
      PROVE  r \in registered'
  BY <1>1, <1>2, <1>7 DEF CreateReader, OpenStream, IncSeek, GotoByte, queueVars
<1>8. ASSUME NEW q \in Readers, DeleteReader(q) PROVE r \in registered'
  <2>1. UNCHANGED atQueue /\ r \in registered
    BY <1>1, <1>2, <1>8 DEF DeleteReader
  <2>2. CASE Outstanding(q)
    BY <1>8, <2>1, <2>2 DEF DeleteReader
  <2>3. CASE ~Outstanding(q)
    <3>1. q # r
      BY <2>1, <2>3 DEF Outstanding
    <3>. QED BY <1>8, <2>1, <2>3, <3>1 DEF DeleteReader
  <2>. QED BY <2>2, <2>3
<1>9. CASE ReadReturn \/ Terminate \/ PushStop
  BY <1>1, <1>2, <1>9 DEF ReadReturn, ReadWait, ReadTake, ReadReset, Terminate,
                          PushStop, queueVars
<1>10. CASE Join
  BY <1>10 DEF Join
<1>. QED BY <1>3, <1>4, <1>6, <1>7, <1>8, <1>9, <1>10 DEF Next, Caller, End

\* Only readers get served, and only registered ones are read from.
LEMMA PlacesStep ==
  ASSUME Bookkeeping, Next
  PROVE  ThreadServes' /\ CallerReads' /\ StopIsLast'
<1>1. /\ TypeOK /\ QueueType /\ ThreadServes /\ CallerReads /\ StopIsLast
      /\ readQueue \in Seq(Readers \cup {StopId})
  BY DEF Bookkeeping, TypeOK, QueueType
<1>2. ThreadServes'
  <2>1. CASE ThreadPop
    BY <1>1, <2>1 DEF ThreadPop, ThreadServes, StopIsLast, Serving
  <2>2. CASE Thread /\ ~ThreadPop
    BY <1>1, <2>2 DEF Thread, ThreadGet, ThreadRead, ThreadStay, ThreadSwitch,
         ThreadReadNext, ThreadPublish, ThreadRelease, ThreadLoop, GoPublish,
         ThreadServes, Serving
  <2>3. CASE Caller
    BY <1>1, <2>3 DEF Caller, CreateReader, OpenStream, ReadRequest, Notify, IncSeek,
         DeleteReader, GotoByte, ReadReturn, ReadWait, ReadTake, ReadReset,
         Terminate, End, PushStop, Join, threadVars, ThreadServes, Serving
  <2>. QED BY <2>1, <2>2, <2>3 DEF Next
<1>3. CallerReads'
  <2>1. CASE Thread
    BY <1>1, <2>1 DEF Thread, ThreadPop, ThreadGet, ThreadRead, ThreadStay,
         ThreadSwitch, ThreadReadNext, ThreadPublish, ThreadRelease, ThreadLoop,
         callVars, CallerReads
  <2>2. CASE Caller
    BY <1>1, <2>2 DEF Caller, CreateReader, OpenStream, ReadRequest, Notify, IncSeek,
         DeleteReader, GotoByte, ReadReturn, ReadWait, ReadTake, ReadReset,
         Terminate, End, PushStop, Join, callVars, CallerReads
  <2>. QED BY <2>1, <2>2 DEF Next
<1>4. (cpc \in {"ending", "join"} => terminated)'
  BY <1>1 DEF Next, Thread, ThreadPop, ThreadGet, ThreadRead, ThreadStay,
         ThreadSwitch, ThreadReadNext, ThreadPublish, ThreadRelease, ThreadLoop,
         Caller, CreateReader, OpenStream, ReadRequest, Notify, IncSeek,
         DeleteReader, GotoByte, ReadReturn, ReadWait, ReadTake, ReadReset,
         Terminate, End, PushStop, Join, callVars, queueVars, StopIsLast
<1>5. ASSUME NEW q \in Readers, Push(q), ~terminated
      PROVE  \A i \in 1..Len(readQueue') : readQueue'[i] # StopId
  BY <1>1, <1>5, ReaderAssumption DEF Push, StopIsLast
<1>6. ASSUME ~terminated' PROVE \A i \in 1..Len(readQueue') : readQueue'[i] # StopId
  <2>0. ~terminated /\ \A i \in 1..Len(readQueue) : readQueue[i] # StopId
    BY <1>1, <1>6 DEF Next, Thread, ThreadPop, ThreadGet, ThreadRead, ThreadStay,
         ThreadSwitch, ThreadReadNext, ThreadPublish, ThreadRelease, ThreadLoop,
         Caller, CreateReader, OpenStream, ReadRequest, Notify, IncSeek,
         DeleteReader, GotoByte, ReadReturn, ReadWait, ReadTake, ReadReset,
         Terminate, End, PushStop, Join, queueVars, StopIsLast
  <2>1. CASE ThreadPop
    BY <1>1, <2>0, <2>1 DEF ThreadPop
  <2>2. CASE UNCHANGED readQueue
    BY <2>0, <2>2
  <2>3. ASSUME NEW q \in Readers, Request(q)
        PROVE  \A i \in 1..Len(readQueue') : readQueue'[i] # StopId
    BY <1>5, <2>0, <2>3 DEF Request
  <2>4. CASE PushStop
    BY <1>1, <2>0, <2>4 DEF PushStop, StopIsLast
  <2>5. \/ ThreadPop \/ UNCHANGED readQueue \/ PushStop
        \/ \E q \in Readers : Request(q)
    BY DEF Next, Thread, ThreadGet, ThreadRead, ThreadStay,
         ThreadSwitch, ThreadReadNext, ThreadPublish, ThreadRelease, ThreadLoop,
         Caller, CreateReader, OpenStream, ReadRequest, Notify, IncSeek,
         DeleteReader, GotoByte, ReadReturn, ReadWait, ReadTake, ReadReset,
         Terminate, End, Join, queueVars
  <2>. QED BY <2>1, <2>2, <2>3, <2>4, <2>5
<1>. QED BY <1>2, <1>3, <1>4, <1>6 DEF StopIsLast

\* Bookkeeping is an invariant of the read-ahead.
LEMMA BookkeepingHolds == Spec => []Bookkeeping
<1>1. Bookkeeping /\ [Next]_vars => Bookkeeping'
  <2>. SUFFICES ASSUME Bookkeeping, [Next]_vars PROVE Bookkeeping'
    OBVIOUS
  <2>1. CASE Next
    <3>1. TypeOK'
      BY <2>1, ThreadTypeStep, CallerTypeStep DEF Next
    <3>. QED BY <2>1, <3>1, CountedStep, KeptStep, PlacesStep DEF Bookkeeping
  <2>2. CASE UNCHANGED vars
    <3>1. TypeOK'
      BY <2>2, TypeUnchanged DEF vars, Bookkeeping, TypeOK
    <3>2. Counted'
      BY <2>2 DEF vars, queueVars, threadVars, Bookkeeping, Counted, Queued, InService
    <3>. QED BY <2>2, <3>1, <3>2 DEF vars, queueVars, threadVars, callVars,
             Bookkeeping, Kept, ThreadServes, CallerReads, StopIsLast
  <2>. QED BY <2>1, <2>2
<1>. QED BY <1>1, InitBookkeeping, PTL DEF Spec

-----------------------------------------------------------------------------
\* Every field of the readers, of the thread and of a call keeps its type;
\* m_atQueue never becomes negative and no published size exceeds a block.
THEOREM TypeCorrect == Spec => []TypeOK
<1>1. Bookkeeping => TypeOK
  BY DEF Bookkeeping
<1>. QED BY <1>1, BookkeepingHolds, PTL

\* The thread never touches a reader that deleteReader freed, however the
\* calls and the thread interleave and even if the queue refuses requests.
THEOREM FreedIsUntouched == Spec => []NoUseAfterFree
<1>1. Bookkeeping => NoUseAfterFree
  <2>. SUFFICES ASSUME Bookkeeping, cpc # "end"
                PROVE  /\ tpc \in Serving => tid \in registered
                       /\ \A i \in 1..Len(readQueue) :
                            readQueue[i] # StopId => readQueue[i] \in registered
    BY DEF NoUseAfterFree
  <2>1. \A r \in Readers : Queued(r) \in Nat /\ InService(r) \in 0..1
    BY CountsAreNat DEF Bookkeeping
  <2>2. \A r \in Readers : atQueue[r] \in Nat /\ atQueue[r] >= Queued(r) + InService(r)
    BY CountsAreNat DEF Bookkeeping, Counted
  <2>3. \A r \in Readers : Queued(r) + InService(r) > 0 => r \in registered
    BY <2>1, <2>2 DEF Bookkeeping, Kept
  <2>4. tpc \in Serving => tid \in registered
    <3>. SUFFICES ASSUME tpc \in Serving PROVE tid \in registered
      OBVIOUS
    <3>1. tid \in Readers /\ InService(tid) = 1
      BY DEF Bookkeeping, ThreadServes, InService
    <3>. QED BY <2>1, <2>3, <3>1
  <2>5. ASSUME NEW i \in 1..Len(readQueue), readQueue[i] # StopId
        PROVE  readQueue[i] \in registered
    <3>1. readQueue \in Seq(Readers \cup {StopId})
      BY DEF Bookkeeping, TypeOK, QueueType
    <3>2. readQueue[i] \in Readers
      BY <2>5, <3>1
    <3>3. i \in Occurrences(readQueue, readQueue[i])
      BY DEF Occurrences
    <3>4. IsFiniteSet(Occurrences(readQueue, readQueue[i]))
      BY <3>1, OccurrencesFinite
    <3>5. Queued(readQueue[i]) # 0
      BY <3>3, <3>4, FS_EmptySet DEF Queued
    <3>. QED BY <2>1, <2>3, <3>2, <3>5
  <2>. QED BY <2>4, <2>5
<1>. QED BY <1>1, BookkeepingHolds, PTL
=============================================================================
