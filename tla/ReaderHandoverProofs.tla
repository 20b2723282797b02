------------------------- MODULE ReaderHandoverProofs -------------------------
(***************************************************************************)
(* The hand-over of blocks between the thread and the caller: a reader has *)
(* at most one block asked for, being read or waiting to be taken.  This   *)
(* is what QueueAccounting and BuffersDisjoint rest on.                    *)
(*                                                                         *)
(* It holds for callers that are Calm: they seek only when no read-ahead   *)
(* is under way, and call readBlock again after DATA_EOF at most once, and *)
(* then on readers of one file that did not run getTrackList.  In the      *)
(* other cases the code gives it up: a call after DATA_EOF returns while   *)
(* the request it made is outstanding, and the call after it, or after a   *)
(* seek, makes another.                                                    *)
(***************************************************************************)
EXTENDS BufferedReaderProofs

OneFile(r) == Len(FileList[r]) = 1

Calm == /\ ~GotoAnyTime
        /\ \/ MaxPastEof = 0
           \/ MaxPastEof = 1 /\ DetectReaders = {} /\ \A r \in Readers : OneFile(r)

\* Where the thread is with a request of r, and where the caller's call on r.
Place(r) == IF tid = r /\ tpc \in Serving THEN tpc ELSE "away"
Calling(r) == IF cid = r /\ cpc \in {"wait", "take", "reset"} THEN cpc ELSE "out"

\* The requests of r that no block was read for yet.
Fetching(r) == Place(r) \in {"get", "read", "switch", "readNext"}
Asked(r) == Queued(r) + (IF Fetching(r) THEN 1 ELSE 0)
\* A block was read for r and not published; one waits to be taken.
Filled(r) == Place(r) = "publish" /\ tbytes # 0
Ready(r)  == nextBlockSize[r] # 0
Loaded(r) == Asked(r) > 0 \/ Filled(r) \/ Ready(r)

Done(r)  == lastRez[r] = "eof"
\* The caller makes no further request for r before it moves r elsewhere.
Spent(r) == Done(r) /\ held[r] = NoBuf /\ pastEof[r] = MaxPastEof

\* At most one block is under way.
OneUnderWay(r) ==
    /\ Asked(r) <= 1
    /\ Asked(r) = 1 => ~Filled(r) /\ ~Ready(r)
    /\ Place(r) = "publish" => ~Ready(r)

\* m_notified stands for it, but after the last call.
Notified(r) ==
    /\ Loaded(r) => notified[r] \/ Spent(r)
    /\ eof[r] /\ ~Done(r) => notified[r] /\ Asked(r) = 0
    /\ Done(r) => eof[r]
    /\ pastEof[r] <= MaxPastEof

\* What readBlock saw when it woke is still true when it resets the reader.
InCall(r) ==
    /\ Calling(r) # "out" => /\ r \in opened /\ held[r] = NoBuf
                             /\ Done(r) => pastEof[r] > 0
    /\ Calling(r) \in {"take", "reset"} => Ready(r) \/ eof[r]
    /\ Calling(r) = "reset" =>
          /\ crez = "eof" <=> eof[r]
          /\ ccnt # 0 => ccnt = nextBlockSize[r]
          /\ ~eof[r] /\ nextBlockSize[r] > 0 => ccnt = nextBlockSize[r]

\* The buffer the thread fills is the one the caller takes next.
Buffers(r) ==
    /\ held[r] \in {NoBuf, 1 - bufferIndex[r]}
    /\ Place(r) \in {"read", "switch", "readNext"} =>
          tbuf = bufferIndex[r] \/ (held[r] = NoBuf /\ Done(r))

\* A reader of one file reads that file, and ends with it.
ReadsName(r) ==
    (r \in opened /\ r \in registered /\ ~deleted[r]) \/ Asked(r) > 0 =>
        streamName[r] = FileList[r][1] /\ FileList[r][1] \in Names \ Unopenable
OfOne(r) ==
    OneFile(r) =>
        /\ itr[r] = NoItr /\ ReadsName(r)
        /\ Place(r) # "readNext" /\ nextBlockSize[r] >= 0
        /\ Place(r) \in {"switch", "publish"} => tbytes >= 0
        /\ Place(r) = "switch" /\ tbytes = 0 => filePos[r] >= FileSize[FileList[r][1]]
        /\ eof[r] => /\ ~Ready(r) /\ ~Filled(r)
                     /\ filePos[r] >= FileSize[FileList[r][1]]
        /\ eof[r] /\ Place(r) = "switch" => tbytes = 0
OfList(r) ==
    ~OneFile(r) /\ r \in opened /\ r \in registered /\ ~deleted[r] => itr[r] # NoItr

\* Before getTrackList is through nothing is read ahead between two calls.
Detecting(r) ==
    r \in detecting /\ OneFile(r) /\ Calling(r) = "out" => ~Loaded(r) /\ ~notified[r]

\* Nothing happens to a reader before its stream is opened.
Untouched(r) ==
    r \notin opened => /\ ~Loaded(r) /\ Place(r) = "away" /\ ~notified[r]
                       /\ ~eof[r] /\ ~Done(r) /\ held[r] = NoBuf

Handover(r) == /\ OneUnderWay(r) /\ Notified(r) /\ InCall(r) /\ Buffers(r)
               /\ OfOne(r) /\ OfList(r) /\ Detecting(r) /\ Untouched(r)

Stopping == terminated <=> cpc \in {"ending", "join", "end"}

HandoverInv == /\ Bookkeeping /\ Stopping /\ detecting \subseteq DetectReaders
               /\ \A r \in Readers : Handover(r)

-----------------------------------------------------------------------------
\* A step that does not concern a reader keeps what holds of it.
LEMMA HandoverFrame ==
  ASSUME NEW r \in Readers, Handover(r),
         Queued(r)' = Queued(r), Place(r)' = Place(r), Calling(r)' = Calling(r),
         Place(r) # "away" => UNCHANGED <<tbuf, tbytes>>,
         Calling(r) # "out" => UNCHANGED <<ccnt, crez>>,
         UNCHANGED <<notified[r], nextBlockSize[r], eof[r], lastRez[r], held[r],
                     pastEof[r], bufferIndex[r], filePos[r], itr[r],
                     streamName[r], deleted[r]>>,
         r \in opened' <=> r \in opened, r \in registered' => r \in registered,
         r \in detecting' => r \in detecting
  PROVE  Handover(r)'
<1>1. Fetching(r)' = Fetching(r)
  BY DEF Fetching
<1>2. Asked(r)' = Asked(r)
  BY <1>1 DEF Asked
<1>3. Filled(r)' = Filled(r) /\ Ready(r)' = Ready(r)
  BY DEF Filled, Ready
<1>4. Loaded(r)' = Loaded(r) /\ Done(r)' = Done(r) /\ Spent(r)' = Spent(r)
  BY <1>2, <1>3 DEF Loaded, Done, Spent
<1>5. OneUnderWay(r)' /\ Notified(r)'
  BY <1>2, <1>3, <1>4 DEF Handover, OneUnderWay, Notified
<1>6. InCall(r)'
  BY <1>3, <1>4 DEF Handover, InCall
<1>7. Buffers(r)'
  BY <1>4 DEF Handover, Buffers
<1>8. OfOne(r)' /\ OfList(r)'
  BY <1>2, <1>3 DEF Handover, OfOne, OfList, ReadsName, OneFile
<1>9. Detecting(r)' /\ Untouched(r)'
  BY <1>3, <1>4 DEF Handover, Detecting, Untouched, OneFile
<1>. QED BY <1>5, <1>6, <1>7, <1>8, <1>9 DEF Handover

\* The types of what a reader's invariant speaks of.
LEMMA FieldTypes ==
  ASSUME Bookkeeping, NEW r \in Readers
  PROVE  /\ Queued(r) \in Nat /\ Asked(r) \in Nat /\ atQueue[r] \in Nat
         /\ nextBlockSize[r] \in -1..BlockSize /\ tbytes \in -1..BlockSize
         /\ ccnt \in 0..BlockSize /\ tbuf \in 0..1 /\ bufferIndex[r] \in 0..1
         /\ filePos[r] \in Int /\ blockSize[r] \in 1..BlockSize
         /\ pastEof[r] \in Nat /\ held[r] \in 0..NoBuf
         /\ notified[r] \in BOOLEAN /\ eof[r] \in BOOLEAN
         /\ BlockSize \in Nat \ {0} /\ MaxPastEof \in Nat
         /\ Fetching(r) => Asked(r) >= 1
<1>1. Queued(r) \in Nat /\ atQueue[r] \in Nat
  BY CountsAreNat DEF Bookkeeping
<1>2. Asked(r) \in Nat /\ (Fetching(r) => Asked(r) >= 1)
  BY <1>1 DEF Asked
<1>3. nextBlockSize[r] \in -1..BlockSize /\ bufferIndex[r] \in 0..1
      /\ notified[r] \in BOOLEAN /\ eof[r] \in BOOLEAN
  BY DEF Bookkeeping, TypeOK, HandType
<1>4. filePos[r] \in Int /\ blockSize[r] \in 1..BlockSize
  BY DEF Bookkeeping, TypeOK, StreamType
<1>5. ccnt \in 0..BlockSize /\ tbuf \in 0..1 /\ tbytes \in -1..BlockSize
  BY DEF Bookkeeping, TypeOK, CallType, ThreadType
<1>6. pastEof[r] \in Nat /\ held[r] \in 0..NoBuf
  BY DEF Bookkeeping, TypeOK, ClientType
<1>. QED BY <1>1, <1>2, <1>3, <1>4, <1>5, <1>6, ReaderAssumption

\* The earlier invariant is kept, and the counts stay natural numbers.
LEMMA BookkeepingStep ==
  ASSUME Bookkeeping, Next
  PROVE  Bookkeeping' /\ \A r \in Readers : Queued(r)' \in Nat /\ Asked(r)' \in Nat
<1>1. Bookkeeping'
  BY ThreadTypeStep, CallerTypeStep, CountedStep, KeptStep, PlacesStep
     DEF Next, Bookkeeping
<1>2. readQueue' \in Seq(Readers \cup {StopId})
  BY <1>1 DEF Bookkeeping, TypeOK, QueueType
<1>3. ASSUME NEW r \in Readers PROVE Queued(r)' \in Nat /\ Asked(r)' \in Nat
  BY <1>2, OccurrencesFinite DEF Queued, Asked
<1>. QED BY <1>1, <1>3

\* Taking a request off the queue: it is served, or dropped by the thread that
\* stops.
LEMMA PopHandover ==
  ASSUME HandoverInv, ThreadPop, NEW r \in Readers
  PROVE  Handover(r)'
<1>1. Bookkeeping /\ Handover(r)
  BY DEF HandoverInv
<1>2. Queued(r) = Queued(r)' + (IF Head(readQueue) = r THEN 1 ELSE 0)
  BY <1>1, CountTail DEF ThreadPop, Bookkeeping, TypeOK, QueueType, Queued
<1>3. Queued(r) \in Nat /\ Queued(r)' \in Nat
  BY <1>1, FieldTypes, BookkeepingStep DEF Next, Thread
<1>4. Place(r) = "away" /\ Place(r)' \in {"away", "get"} /\ Calling(r)' = Calling(r)
      /\ (Place(r)' = "get" => Head(readQueue) = r)
  BY DEF ThreadPop, Place, Calling, Serving, callVars
<1>5. Asked(r)' <= Asked(r) /\ Asked(r)' \in Nat /\ Asked(r) \in Nat
  BY <1>2, <1>3, <1>4 DEF Asked, Fetching
<1>6. ~Filled(r) /\ ~Filled(r)' /\ Ready(r)' = Ready(r) /\ Spent(r)' = Spent(r)
      /\ Done(r)' = Done(r)
  BY <1>4 DEF ThreadPop, Filled, Ready, Spent, Done, handVars, clientVars
<1>7. OneUnderWay(r)'
  BY <1>1, <1>4, <1>5, <1>6 DEF Handover, OneUnderWay
<1>8. Notified(r)'
  BY <1>1, <1>5, <1>6 DEF ThreadPop, Handover, Notified, Loaded, handVars, clientVars
<1>9. InCall(r)'
  BY <1>1, <1>4, <1>6 DEF ThreadPop, Handover, InCall, handVars, clientVars, callVars
<1>10. Buffers(r)'
  BY <1>1, <1>4, <1>6 DEF ThreadPop, Handover, Buffers, handVars, clientVars
<1>11. OfOne(r)' /\ OfList(r)'
  BY <1>1, <1>4, <1>5, <1>6 DEF ThreadPop, Handover, OfOne, OfList, ReadsName, OneFile,
     handVars, streamVars, clientVars
<1>12. Detecting(r)' /\ Untouched(r)'
  BY <1>1, <1>2, <1>3, <1>4, <1>5, <1>6 DEF ThreadPop, Handover, Detecting, Untouched,
     Loaded, Asked, OneFile, handVars, clientVars
<1>. QED BY <1>7, <1>8, <1>9, <1>10, <1>11, <1>12 DEF Handover

\* The thread at the reader it serves.  Looking up the reader:
LEMMA GetHandover ==
  ASSUME HandoverInv, ThreadGet, NEW r \in Readers, r = tid
  PROVE  Handover(r)'
<1>1. Bookkeeping /\ Handover(r)
  BY DEF HandoverInv
<1>2. Place(r) = "get" /\ Place(r)' \in {"away", "read", "release"}
      /\ Calling(r)' = Calling(r) /\ Queued(r)' = Queued(r)
  BY DEF ThreadGet, Place, Calling, Serving, callVars, queueVars, Queued
<1>3. Asked(r)' <= Asked(r) /\ Asked(r) \in Nat /\ Asked(r)' \in Nat /\ Asked(r) >= 1
  BY <1>1, <1>2, FieldTypes DEF Asked, Fetching
<1>4. ~Filled(r) /\ ~Filled(r)' /\ Ready(r)' = Ready(r) /\ Spent(r)' = Spent(r)
      /\ Done(r)' = Done(r)
  BY <1>2 DEF ThreadGet, Filled, Ready, Spent, Done, handVars, clientVars
<1>5. OneUnderWay(r)' /\ Notified(r)'
  BY <1>1, <1>2, <1>3, <1>4 DEF ThreadGet, Handover, OneUnderWay, Notified, Loaded,
     handVars, clientVars
<1>6. InCall(r)' /\ Detecting(r)' /\ Untouched(r)'
  BY <1>1, <1>2, <1>3, <1>4 DEF ThreadGet, Handover, InCall, Detecting, Untouched,
     Loaded, OneFile, handVars, clientVars, callVars
<1>7. Place(r)' = "read" => tbuf' = bufferIndex[r]
  BY <1>2 DEF ThreadGet, Place, Serving
<1>8. Buffers(r)'
  BY <1>1, <1>2, <1>4, <1>7 DEF ThreadGet, Handover, Buffers, handVars, clientVars
<1>9. OfOne(r)' /\ OfList(r)'
  BY <1>1, <1>2, <1>3, <1>4 DEF ThreadGet, Handover, OfOne, OfList, ReadsName,
     OneFile, handVars, streamVars, clientVars, queueVars
<1>. QED BY <1>5, <1>6, <1>8, <1>9 DEF Handover

\* What a read of the thread returns in a file that is open.
LEMMA ReadCountOpen ==
  ASSUME Bookkeeping, NEW name \in Names \ Unopenable, NEW p \in Int,
         NEW n \in 1..BlockSize
  PROVE  /\ ReadCount(name, p, n) \in 0..n
         /\ ReadCount(name, p, n) = 0 <=> p >= FileSize[name]
BY ReaderAssumption DEF ReadCount

LEMMA ReadHandover ==
  ASSUME HandoverInv, ThreadRead, NEW r \in Readers, r = tid
  PROVE  Handover(r)'
<1>1. Bookkeeping /\ Handover(r)
  BY DEF HandoverInv
<1>. DEFINE count == ReadCount(streamName[r], filePos[r], blockSize[r])
<1>2. Place(r) = "read" /\ Place(r)' = "switch"
      /\ Calling(r)' = Calling(r) /\ Queued(r)' = Queued(r)
  BY DEF ThreadRead, Place, Calling, Serving, callVars, queueVars, Queued
<1>3. Asked(r)' = Asked(r) /\ Asked(r) \in Nat /\ Asked(r) >= 1
  BY <1>1, <1>2, FieldTypes DEF Asked, Fetching
<1>4. ~Filled(r) /\ ~Filled(r)' /\ Ready(r)' = Ready(r) /\ Spent(r)' = Spent(r)
      /\ Done(r)' = Done(r)
  BY <1>2 DEF ThreadRead, Filled, Ready, Spent, Done, handVars, clientVars
<1>5. OneUnderWay(r)' /\ Notified(r)'
  BY <1>1, <1>2, <1>3, <1>4 DEF ThreadRead, Handover, OneUnderWay, Notified, Loaded,
     handVars, clientVars
<1>6. InCall(r)' /\ Detecting(r)' /\ Untouched(r)'
  BY <1>1, <1>2, <1>3, <1>4 DEF ThreadRead, Handover, InCall, Detecting, Untouched,
     Loaded, OneFile, handVars, clientVars, callVars
<1>7. Buffers(r)'
  BY <1>1, <1>2, <1>4 DEF ThreadRead, Handover, Buffers, handVars, clientVars
<1>8. tbytes' = count /\ filePos'[r] = filePos[r] + (IF count > 0 THEN count ELSE 0)
  BY <1>1 DEF ThreadRead, ReadInto, Bookkeeping, TypeOK, StreamType
<1>. HIDE DEF count
<1>9. OfOne(r)'
  <2>. SUFFICES ASSUME OneFile(r) PROVE OfOne(r)'
    BY DEF OfOne, OneFile
  <2>1. streamName[r] = FileList[r][1] /\ FileList[r][1] \in Names \ Unopenable
        /\ (eof[r] => filePos[r] >= FileSize[FileList[r][1]] /\ ~Ready(r))
    BY <1>1, <1>3 DEF Handover, OfOne, ReadsName
  <2>2. filePos[r] \in Int /\ blockSize[r] \in 1..BlockSize
    BY <1>1, FieldTypes
  <2>3. count \in 0..blockSize[r] /\ (count = 0 <=> filePos[r] >= FileSize[FileList[r][1]])
    BY <1>1, <2>1, <2>2, ReadCountOpen DEF count
  <2>4. count \in Nat /\ FileSize[FileList[r][1]] \in Nat
    BY <2>1, <2>2, <2>3, ReaderAssumption
  <2>5. tbytes' >= 0 /\ (tbytes' = 0 => filePos'[r] >= FileSize[FileList[r][1]])
        /\ (eof[r] => tbytes' = 0 /\ filePos'[r] >= FileSize[FileList[r][1]])
    BY <1>8, <2>1, <2>2, <2>3, <2>4
  <2>. QED BY <1>1, <1>2, <1>3, <1>4, <2>5 DEF ThreadRead, Handover, OfOne, ReadsName,
           OneFile, handVars, streamVars, clientVars, queueVars
<1>10. OfList(r)'
  BY <1>1 DEF ThreadRead, Handover, OfList, OneFile, streamVars, clientVars, queueVars
<1>. QED BY <1>5, <1>6, <1>7, <1>9, <1>10 DEF Handover

\* The end of a file: m_eof may be set, and the block is about to be published.
\* What is common to the steps that lead there.
LEMMA SwitchHandover ==
  ASSUME HandoverInv, Next, NEW r \in Readers, r = tid,
         tpc \in {"switch", "readNext"}, tpc' \in {"readNext", "publish"},
         UNCHANGED <<tid, callVars, queueVars, clientVars, bufferIndex, notified,
                     nextBlockSize>>,
         eof[r] => eof'[r],
         tpc' = "readNext" => UNCHANGED eof,
         tpc' = "readNext" => UNCHANGED tbuf,
         OfOne(r)' /\ OfList(r)'
  PROVE  Handover(r)'
<1>1. Bookkeeping /\ Handover(r)
  BY DEF HandoverInv
<1>2. Place(r) \in {"switch", "readNext"} /\ Place(r)' \in {"readNext", "publish"}
      /\ Place(r)' = tpc' /\ Calling(r)' = Calling(r) /\ Queued(r)' = Queued(r)
  BY DEF Place, Calling, Serving, callVars, queueVars, Queued
<1>3. Queued(r) = 0 /\ Asked(r) = 1 /\ Asked(r)' = (IF Place(r)' = "publish" THEN 0 ELSE 1)
  <2>1. Queued(r) \in Nat /\ Asked(r) <= 1
    BY <1>1, FieldTypes DEF Handover, OneUnderWay
  <2>. QED BY <1>2, <2>1 DEF Asked, Fetching
<1>4. ~Filled(r) /\ ~Ready(r) /\ Ready(r)' = Ready(r) /\ Spent(r)' = Spent(r)
      /\ Done(r)' = Done(r) /\ (Filled(r)' => Place(r)' = "publish")
  BY <1>1, <1>2, <1>3 DEF Handover, OneUnderWay, Filled, Ready, Spent, Done, clientVars
<1>5. OneUnderWay(r)'
  BY <1>2, <1>3, <1>4 DEF OneUnderWay
<1>6. notified[r] \/ Spent(r)
  BY <1>1, <1>3 DEF Handover, Notified, Loaded
<1>7. eof[r] => Done(r)
  BY <1>1, <1>3 DEF Handover, Notified
<1>8. Notified(r)'
  BY <1>1, <1>2, <1>3, <1>4, <1>6, <1>7 DEF Handover, Notified, Spent, clientVars
<1>9. InCall(r)'
  BY <1>1, <1>2, <1>4, <1>7 DEF Handover, InCall, Notified, clientVars, callVars
<1>10. Detecting(r)' /\ Untouched(r)'
  BY <1>1, <1>2, <1>3, <1>4 DEF Handover, Detecting, Untouched, Loaded, OneFile,
     clientVars, callVars
<1>11. Buffers(r)'
  BY <1>1, <1>2, <1>4 DEF Handover, Buffers, clientVars
<1>. QED BY <1>5, <1>8, <1>9, <1>10, <1>11 DEF Handover

LEMMA StayHandover ==
  ASSUME HandoverInv, ThreadStay, NEW r \in Readers, r = tid
  PROVE  Handover(r)'
<1>1. Bookkeeping /\ Handover(r)
  BY DEF HandoverInv
<1>2. Place(r) = "switch" /\ Place(r)' = "publish" /\ Asked(r) > 0
  <2>1. Place(r) = "switch" /\ Place(r)' = "publish"
    BY DEF ThreadStay, GoPublish, Place, Serving
  <2>. QED BY <1>1, <2>1, FieldTypes DEF Fetching
<1>3. eof \in [Readers -> BOOLEAN]
  BY <1>1 DEF Bookkeeping, TypeOK, HandType
<1>4. OfOne(r)'
  <2>. SUFFICES ASSUME OneFile(r) PROVE OfOne(r)'
    BY DEF OfOne, OneFile
  <2>1. itr[r] = NoItr /\ tbytes >= 0 /\ ReadsName(r) /\ UNCHANGED filePos
        /\ (tbytes = 0 => filePos[r] >= FileSize[FileList[r][1]])
        /\ (eof[r] => tbytes = 0) /\ ~Ready(r)
    BY <1>1, <1>2, FieldTypes DEF ThreadStay, Handover, OfOne, OneUnderWay
  <2>2. tbytes \in Int /\ UNCHANGED <<tbytes, itr>> /\ eof'[r] = (eof[r] \/ AtFileEnd)
    BY <1>1, <1>3, <2>1, FieldTypes DEF ThreadStay, GoPublish, AtFileEnd
  <2>3. AtFileEnd <=> tbytes = 0
    BY <2>1, <2>2 DEF AtFileEnd
  <2>4. ReadsName(r)'
    BY <1>1, <1>2, <2>1 DEF ThreadStay, ReadsName, clientVars, queueVars
  <2>. QED BY <1>1, <1>2, <2>1, <2>2, <2>3, <2>4
           DEF ThreadStay, Handover, OfOne, OneFile, Filled, Ready
<1>5. OfList(r)'
  <2>1. itr[r] # NoItr => itr'[r] # NoItr
    BY <1>1, ReaderAssumption
       DEF ThreadStay, NextIndex, Bookkeeping, TypeOK, StreamType, NoItr
  <2>. QED BY <1>1, <2>1 DEF ThreadStay, Handover, OfList, OneFile, clientVars, queueVars
<1>6. eof[r] => eof'[r]
  BY <1>3 DEF ThreadStay, GoPublish
<1>. QED BY <1>4, <1>5, <1>6, SwitchHandover
         DEF ThreadStay, GoPublish, Next, Thread, handVars

LEMMA NextFileHandover ==
  ASSUME HandoverInv, ThreadSwitch, NEW r \in Readers, r = tid
  PROVE  Handover(r)'
<1>1. Bookkeeping /\ Handover(r)
  BY DEF HandoverInv
<1>2. eof \in [Readers -> BOOLEAN]
  BY <1>1 DEF Bookkeeping, TypeOK, HandType
<1>3. ~OneFile(r)
  BY <1>1 DEF ThreadSwitch, Handover, OfOne
<1>4. OfOne(r)' /\ OfList(r)'
  <2>1. itr'[r] # NoItr
    BY <1>1, ReaderAssumption
       DEF ThreadSwitch, NextIndex, Bookkeeping, TypeOK, StreamType, NoItr
  <2>. QED BY <1>3, <2>1 DEF OfOne, OfList, OneFile
<1>5. eof[r] => eof'[r]
  BY <1>2 DEF ThreadSwitch, GoPublish
<1>. QED BY <1>4, <1>5, SwitchHandover
         DEF ThreadSwitch, GoPublish, Next, Thread, handVars

LEMMA ReadNextHandover ==
  ASSUME HandoverInv, ThreadReadNext, NEW r \in Readers, r = tid
  PROVE  Handover(r)'
<1>1. Bookkeeping /\ Handover(r)
  BY DEF HandoverInv
<1>2. eof \in [Readers -> BOOLEAN]
  BY <1>1 DEF Bookkeeping, TypeOK, HandType
<1>3. ~OneFile(r)
  BY <1>1 DEF ThreadReadNext, Handover, OfOne, Place, Serving
<1>4. OfOne(r)' /\ OfList(r)'
  BY <1>1, <1>3 DEF ThreadReadNext, Handover, OfOne, OfList, OneFile, clientVars, queueVars
<1>5. eof[r] => eof'[r]
  BY <1>2 DEF ThreadReadNext
<1>. QED BY <1>4, <1>5, SwitchHandover DEF ThreadReadNext, Next, Thread

\* The block is handed to the caller.
LEMMA PublishHandover ==
  ASSUME HandoverInv, ThreadPublish, NEW r \in Readers, r = tid
  PROVE  Handover(r)'
<1>1. Bookkeeping /\ Handover(r)
  BY DEF HandoverInv
<1>2. Place(r) = "publish" /\ Place(r)' = "release"
      /\ Calling(r)' = Calling(r) /\ Queued(r)' = Queued(r)
  BY DEF ThreadPublish, Place, Calling, Serving, callVars, queueVars, Queued
<1>3. Asked(r)' = Asked(r) /\ Asked(r) \in Nat
  BY <1>1, <1>2, FieldTypes DEF Asked, Fetching
<1>4. nextBlockSize'[r] = tbytes
  BY <1>1 DEF ThreadPublish, Bookkeeping, TypeOK, HandType
<1>5. ~Ready(r) /\ (Ready(r)' <=> Filled(r)) /\ ~Filled(r)' /\ Spent(r)' = Spent(r)
      /\ Done(r)' = Done(r)
  BY <1>1, <1>2, <1>4 DEF ThreadPublish, Handover, OneUnderWay, Filled, Ready, Spent,
     Done, clientVars
<1>6. OneUnderWay(r)' /\ Notified(r)'
  BY <1>1, <1>2, <1>3, <1>4, <1>5 DEF ThreadPublish, Handover, OneUnderWay, Notified,
     Loaded, clientVars
<1>7. InCall(r)'
  <2>1. Calling(r) = "reset" => eof[r] /\ ccnt = 0
    BY <1>1, <1>5, FieldTypes DEF Handover, InCall, Ready
  <2>. QED BY <1>1, <1>2, <1>5, <2>1 DEF ThreadPublish, Handover, InCall, clientVars, callVars
<1>8. Buffers(r)' /\ Detecting(r)' /\ Untouched(r)'
  BY <1>1, <1>2, <1>3, <1>5 DEF ThreadPublish, Handover, Buffers, Detecting, Untouched,
     Loaded, OneFile, clientVars, callVars
<1>9. OfOne(r)' /\ OfList(r)'
  BY <1>1, <1>2, <1>3, <1>4, <1>5 DEF ThreadPublish, Handover, OfOne, OfList, ReadsName,
     OneFile, streamVars, clientVars, queueVars
<1>. QED BY <1>6, <1>7, <1>8, <1>9 DEF Handover

\* The request is served.
LEMMA ReleaseHandover ==
  ASSUME HandoverInv, ThreadRelease, NEW r \in Readers, r = tid
  PROVE  Handover(r)'
<1>1. Bookkeeping /\ Handover(r)
  BY DEF HandoverInv
<1>2. Place(r) = "release" /\ Place(r)' = "away"
      /\ Calling(r)' = Calling(r) /\ Queued(r)' = Queued(r)
  BY DEF ThreadRelease, Place, Calling, Serving, callVars, Queued
<1>3. Asked(r)' = Asked(r)
  BY <1>2 DEF Asked, Fetching
<1>4. ~Filled(r) /\ ~Filled(r)' /\ Ready(r)' = Ready(r) /\ Spent(r)' = Spent(r)
      /\ Done(r)' = Done(r)
  BY <1>2 DEF ThreadRelease, Filled, Ready, Spent, Done, handVars, clientVars
<1>5. registered' \subseteq registered
  BY DEF ThreadRelease
<1>6. OneUnderWay(r)' /\ Notified(r)' /\ InCall(r)' /\ Buffers(r)'
  BY <1>1, <1>2, <1>3, <1>4 DEF ThreadRelease, Handover, OneUnderWay, Notified, InCall,
     Buffers, Loaded, handVars, clientVars, callVars
<1>7. Detecting(r)' /\ Untouched(r)' /\ OfOne(r)' /\ OfList(r)'
  BY <1>1, <1>2, <1>3, <1>4, <1>5 DEF ThreadRelease, Handover, Detecting, Untouched,
     Loaded, OfOne, OfList, ReadsName, OneFile, handVars, streamVars, clientVars
<1>. QED BY <1>6, <1>7 DEF Handover

\* Every step of the thread, for the reader it serves and for the others.
LEMMA ThreadHandover ==
  ASSUME HandoverInv, Thread, NEW r \in Readers
  PROVE  Handover(r)'
<1>1. Handover(r)
  BY DEF HandoverInv
<1>2. CASE ThreadPop
  BY <1>2, PopHandover
<1>3. CASE ThreadLoop
  BY <1>1, <1>3, HandoverFrame DEF ThreadLoop, Queued, Place, Calling, Serving,
     queueVars, handVars, streamVars, callVars, clientVars
<1>4. CASE Thread /\ ~ThreadPop /\ ~ThreadLoop
  <2>1. CASE r = tid
    BY <1>4, <2>1, GetHandover, ReadHandover, StayHandover, NextFileHandover,
       ReadNextHandover, PublishHandover, ReleaseHandover DEF Thread
  <2>2. CASE r # tid
    <3>1. /\ UNCHANGED <<tid, readQueue, callVars, clientVars, bufferIndex, notified, deleted>>
          /\ registered' = registered \/ registered' = registered \ {tid}
      BY <1>4 DEF Thread, ThreadGet, ThreadRead, ThreadStay, ThreadSwitch, ThreadReadNext,
         ThreadPublish, ThreadRelease, queueVars, handVars
    <3>2. UNCHANGED <<nextBlockSize[r], eof[r], filePos[r], itr[r], streamName[r]>>
      BY <1>4, <2>2 DEF Thread, ThreadGet, ThreadRead, ThreadStay, ThreadSwitch,
         ThreadReadNext, ThreadPublish, ThreadRelease, ReadInto, GoPublish, handVars,
         streamVars, HandoverInv, Bookkeeping, TypeOK, HandType, StreamType
    <3>3. Place(r) = "away" /\ Place(r)' = "away" /\ Calling(r)' = Calling(r)
          /\ Queued(r)' = Queued(r)
      BY <2>2, <3>1 DEF Place, Calling, Queued, callVars
    <3>4. r \in registered' => r \in registered
      BY <3>1
    <3>. QED BY <1>1, <3>1, <3>2, <3>3, <3>4, HandoverFrame DEF callVars, clientVars
  <2>. QED BY <2>1, <2>2
<1>. QED BY <1>2, <1>3, <1>4

-----------------------------------------------------------------------------
\* A push leaves the count of every other identifier.
LEMMA PushOther ==
  ASSUME QueueType, NEW id \in Readers \cup {StopId}, Push(id), NEW r \in Readers, r # id
  PROVE  Queued(r)' = Queued(r)
<1>1. readQueue \in Seq(Readers \cup {StopId})
  BY DEF QueueType
<1>2. Cardinality(Occurrences(readQueue, r)) \in Nat
  BY <1>1, OccurrencesFinite
<1>3. CASE readQueue' = Append(readQueue, id)
  BY <1>1, <1>2, <1>3, CountAppend DEF Queued
<1>. QED BY <1>3 DEF Push, Queued

\* A call on one reader leaves the others alone.
LEMMA OtherReaders ==
  ASSUME HandoverInv, NEW q \in Readers, NEW r \in Readers, r # q,
         \/ CreateReader(q) \/ OpenStream(q) \/ ReadRequest(q) \/ Notify(q)
         \/ IncSeek(q) \/ DeleteReader(q)
         \/ \E p \in GotoTargets : GotoByte(q, p)
  PROVE  Handover(r)'
<1>1. /\ Handover(r) /\ Bookkeeping
      /\ QueueType /\ HandType /\ StreamType /\ ClientType
  BY DEF HandoverInv, Bookkeeping, TypeOK
<1>2. Queued(r)' = Queued(r)
  <2>1. CASE UNCHANGED readQueue
    BY <2>1 DEF Queued
  <2>2. CASE Push(q)
    BY <1>1, <2>2, PushOther
  <2>. QED BY <2>1, <2>2 DEF CreateReader, OpenStream, ReadRequest, Notify, IncSeek,
           DeleteReader, GotoByte, Request, queueVars
<1>3. cpc = "idle" /\ (UNCHANGED <<cpc, cid>> \/ (cpc' = "wait" /\ cid' = q))
      /\ UNCHANGED <<tid, tbuf, tbytes, ccnt, crez>>
      /\ (UNCHANGED tpc \/ (tpc = "none" /\ tpc' = "loop"))
  BY DEF CreateReader, OpenStream, ReadRequest, Notify, IncSeek, DeleteReader, GotoByte,
     Reading, threadVars, callVars
<1>4. Place(r)' = Place(r) /\ Calling(r)' = Calling(r)
  BY <1>3 DEF Place, Calling, Serving
<1>5. UNCHANGED <<notified[r], nextBlockSize[r], eof[r], bufferIndex[r], deleted[r]>>
  BY <1>1 DEF HandType, QueueType, CreateReader, OpenStream, ReadRequest, Notify,
     IncSeek, DeleteReader, GotoByte, Request, queueVars, handVars
<1>6. UNCHANGED <<filePos[r], itr[r], streamName[r]>>
  BY <1>1 DEF StreamType, CreateReader, OpenStream, ReadRequest, Notify, IncSeek,
     DeleteReader, GotoByte, streamVars
<1>7. UNCHANGED <<lastRez[r], held[r], pastEof[r]>>
  BY <1>1 DEF ClientType, CreateReader, OpenStream, ReadRequest, Notify, IncSeek,
     DeleteReader, GotoByte, clientVars
<1>8. /\ r \in opened' <=> r \in opened
      /\ r \in registered' => r \in registered
      /\ r \in detecting' => r \in detecting
  BY DEF CreateReader, OpenStream, ReadRequest, Notify, IncSeek, DeleteReader, GotoByte,
     queueVars, clientVars
<1>. QED BY <1>1, <1>2, <1>3, <1>4, <1>5, <1>6, <1>7, <1>8, HandoverFrame

LEMMA CreateHandover ==
  ASSUME HandoverInv, NEW r \in Readers, CreateReader(r)
  PROVE  Handover(r)'
<1>1. Handover(r) /\ r \notin opened
  BY DEF HandoverInv, CreateReader
<1>2. Place(r)' = Place(r) /\ Calling(r)' = Calling(r) /\ Queued(r)' = Queued(r)
  BY DEF CreateReader, Place, Calling, Serving, Queued, callVars
<1>3. /\ Asked(r)' = Asked(r) /\ Filled(r)' = Filled(r) /\ Ready(r)' = Ready(r)
      /\ Done(r)' = Done(r) /\ Spent(r)' = Spent(r)
  BY <1>2 DEF CreateReader, Asked, Fetching, Filled, Ready, Done, Spent, handVars, clientVars
<1>4. OneUnderWay(r)' /\ Notified(r)' /\ InCall(r)' /\ Buffers(r)'
  BY <1>1, <1>2, <1>3 DEF CreateReader, Handover, OneUnderWay, Notified, InCall, Buffers,
     Loaded, handVars, clientVars, callVars
<1>5. Detecting(r)' /\ Untouched(r)' /\ OfOne(r)' /\ OfList(r)'
  BY <1>1, <1>2, <1>3 DEF CreateReader, Handover, Detecting, Untouched, Loaded, OfOne,
     OfList, ReadsName, OneFile, handVars, streamVars, clientVars
<1>. QED BY <1>4, <1>5 DEF Handover

LEMMA OpenHandover ==
  ASSUME HandoverInv, NEW r \in Readers, OpenStream(r)
  PROVE  Handover(r)'
<1>1. Handover(r) /\ r \notin opened /\ Untouched(r)
      /\ r \in registered /\ StreamType
  BY DEF HandoverInv, OpenStream, Handover, Bookkeeping, TypeOK
<1>2. Place(r)' = Place(r) /\ Calling(r)' = Calling(r) /\ Queued(r)' = Queued(r)
  BY DEF OpenStream, Place, Calling, Queued, callVars, threadVars, queueVars
<1>3. /\ Asked(r)' = Asked(r) /\ Filled(r)' = Filled(r) /\ Ready(r)' = Ready(r)
      /\ Done(r)' = Done(r) /\ Spent(r)' = Spent(r) /\ Place(r)' = "away" /\ ~eof'[r]
  BY <1>1, <1>2 DEF OpenStream, Asked, Fetching, Filled, Ready, Done, Spent, Untouched,
     handVars, threadVars
<1>4. OneUnderWay(r)' /\ Notified(r)' /\ InCall(r)' /\ Buffers(r)'
  BY <1>1, <1>2, <1>3 DEF OpenStream, Handover, OneUnderWay, Notified, InCall, Buffers,
     Loaded, handVars, callVars
<1>5. Detecting(r)' /\ Untouched(r)'
  BY <1>1, <1>2, <1>3 DEF OpenStream, Handover, Detecting, Untouched, Loaded, OneFile,
     handVars
<1>6. /\ streamName'[r] = FileList[r][1] /\ FileList[r][1] \in Names \ Unopenable
      /\ itr'[r] = IF Len(FileList[r]) > 1 THEN 0 ELSE NoItr
      /\ Len(FileList[r]) \in Nat /\ Len(FileList[r]) >= 1
  BY <1>1, ReaderAssumption DEF OpenStream, StreamType
<1>7. OfList(r)'
  <2>0. ~OneFile(r) => Len(FileList[r]) > 1
    <3>1. \A n \in Nat : n >= 1 /\ n # 1 => n > 1
      OBVIOUS
    <3>. QED BY <1>6, <3>1 DEF OneFile
  <2>1. ~OneFile(r) => itr'[r] = 0
    BY <1>6, <2>0
  <2>2. NoItr # 0
    BY DEF NoItr
  <2>. QED BY <2>1, <2>2 DEF OfList, OneFile
<1>8. OfOne(r)'
  <2>1. OneFile(r) => itr'[r] = NoItr /\ nextBlockSize'[r] >= 0
    BY <1>1, <1>6 DEF OpenStream, Handover, OfOne, OneFile, handVars
  <2>2. ReadsName(r)'
    BY <1>6 DEF ReadsName
  <2>. QED BY <1>3, <2>1, <2>2 DEF OfOne, OneFile
<1>. QED BY <1>4, <1>5, <1>7, <1>8 DEF Handover

\* A request is made only when nothing is under way.
LEMMA RequestHandover ==
  ASSUME HandoverInv, NEW r \in Readers, Request(r), Reading(r), ~Loaded(r),
         UNCHANGED <<threadVars, bufferIndex, nextBlockSize, eof, lastRez,
                     itr, streamName, filePos, registered, deleted, opened, detecting>>,
         Next,
         held'[r] = held[r] \/ held'[r] = NoBuf,
         pastEof'[r] \in Nat, pastEof'[r] <= MaxPastEof,
         ~notified[r],
         Calling(r)' \in {"out", "wait"},
         r \in detecting => Calling(r)' = "wait",
         Calling(r)' = "wait" => held'[r] = NoBuf /\ (Done(r) => pastEof'[r] > 0)
  PROVE  Handover(r)'
<1>1. Handover(r) /\ QueueType /\ HandType /\ Bookkeeping
  BY DEF HandoverInv, Bookkeeping, TypeOK
<1>2. Place(r)' = Place(r)
  BY DEF Place, threadVars
<1>3. Asked(r)' \in Nat /\ Asked(r)' <= 1 /\ ~Fetching(r) /\ Asked(r) = 0
  <2>1. Queued(r)' <= Queued(r) + 1 /\ Queued(r) \in Nat /\ Queued(r)' \in Nat
    BY <1>1, PushCount, FieldTypes, BookkeepingStep DEF Request
  <2>2. ~Fetching(r) /\ Queued(r) = 0
    BY <1>1, <2>1, FieldTypes DEF Loaded, Asked
  <2>. QED BY <1>2, <2>1, <2>2 DEF Asked, Fetching
<1>4. ~Filled(r) /\ ~Filled(r)' /\ ~Ready(r) /\ ~Ready(r)' /\ Done(r)' = Done(r)
  BY <1>2 DEF Loaded, Filled, Ready, Done, threadVars
<1>5. notified'[r] = TRUE /\ r \in opened /\ r \in registered /\ ~deleted[r]
  BY <1>1 DEF Request, HandType, Reading
<1>6. OneUnderWay(r)' /\ Notified(r)'
  BY <1>1, <1>3, <1>4, <1>5 DEF Handover, OneUnderWay, Notified
<1>7. InCall(r)' /\ Buffers(r)' /\ Untouched(r)'
  BY <1>1, <1>2, <1>3, <1>4, <1>5 DEF Handover, InCall, Buffers, Untouched, Fetching,
     threadVars
<1>8. Detecting(r)'
  BY DEF Detecting
<1>9. OfOne(r)' /\ OfList(r)'
  BY <1>1, <1>2, <1>3, <1>4, <1>5 DEF Handover, OfOne, OfList, ReadsName, OneFile,
     threadVars
<1>. QED BY <1>6, <1>7, <1>8, <1>9 DEF Handover

LEMMA ReadRequestHandover ==
  ASSUME HandoverInv, Calm, NEW r \in Readers, ReadRequest(r)
  PROVE  Handover(r)'
<1>1. /\ Handover(r) /\ Bookkeeping /\ HandType /\ ClientType
      /\ pastEof[r] \in Nat /\ MaxPastEof \in Nat
  BY FieldTypes DEF HandoverInv, Bookkeeping, TypeOK
<1>2. /\ held'[r] = NoBuf /\ pastEof'[r] = IF Done(r) THEN pastEof[r] + 1 ELSE pastEof[r]
      /\ pastEof'[r] <= MaxPastEof /\ Calling(r) = "out" /\ Calling(r)' = "wait"
      /\ Reading(r) /\ r \in opened /\ ~Spent(r)
  BY <1>1 DEF ReadRequest, Reading, Done, Calling, ClientType, Handover, Notified, Spent
<1>3. CASE NeedsRequest(r)
  <2>1. Request(r) /\ ~notified[r] /\ ~Loaded(r)
    BY <1>1, <1>2, <1>3 DEF ReadRequest, NeedsRequest, Handover, Notified
  <2>2. Next
    BY DEF Next, Caller
  <2>3. UNCHANGED <<threadVars, bufferIndex, nextBlockSize, eof, lastRez, itr, streamName,
                    filePos, registered, deleted, opened, detecting>>
    BY DEF ReadRequest, streamVars
  <2>4. pastEof'[r] \in Nat /\ (Done(r) => pastEof'[r] > 0)
    BY <1>1, <1>2
  <2>. QED BY <1>2, <2>1, <2>2, <2>3, <2>4, RequestHandover
<1>4. CASE ~NeedsRequest(r)
  <2>1. UNCHANGED <<notified, atQueue, readQueue, nextBlockSize, eof, threadVars,
                    bufferIndex, lastRez, streamVars, registered, deleted, opened,
                    detecting, ccnt, crez>>
    BY <1>4 DEF ReadRequest
  <2>2. Place(r)' = Place(r) /\ Queued(r)' = Queued(r) /\ Done(r)' = Done(r)
    BY <2>1 DEF Place, Queued, Done, threadVars
  <2>3. Asked(r)' = Asked(r) /\ Filled(r)' = Filled(r) /\ Ready(r)' = Ready(r)
        /\ Fetching(r)' = Fetching(r)
    BY <2>1, <2>2 DEF Asked, Fetching, Filled, Ready, threadVars
  <2>4. OneUnderWay(r)' /\ Notified(r)'
    BY <1>1, <1>2, <2>1, <2>2, <2>3 DEF Handover, OneUnderWay, Notified, Loaded
  <2>5. InCall(r)' /\ Buffers(r)' /\ Detecting(r)' /\ Untouched(r)'
    BY <1>1, <1>2, <2>1, <2>2, <2>3 DEF Handover, InCall, Buffers, Detecting, Untouched,
       Loaded, threadVars
  <2>6. OfOne(r)' /\ OfList(r)'
    BY <1>1, <1>2, <2>1, <2>2, <2>3 DEF Handover, OfOne, OfList, ReadsName, OneFile,
       threadVars, streamVars
  <2>. QED BY <2>4, <2>5, <2>6 DEF Handover
<1>. QED BY <1>3, <1>4

LEMMA NotifyHandover ==
  ASSUME HandoverInv, NEW r \in Readers, Notify(r)
  PROVE  Handover(r)'
<1>1. /\ Handover(r) /\ Bookkeeping /\ pastEof[r] \in Nat
  BY FieldTypes DEF HandoverInv
<1>2. ~notified[r] /\ ~Spent(r) /\ Request(r) /\ Reading(r) /\ r \notin detecting
  BY DEF Notify, MayNotify, Spent, Done
<1>3. ~Loaded(r)
  BY <1>1, <1>2 DEF Handover, Notified
<1>4. Calling(r)' = "out"
  BY <1>2 DEF Notify, Reading, Calling, callVars
<1>5. pastEof'[r] <= MaxPastEof /\ pastEof'[r] \in Nat
  BY <1>1 DEF Notify, clientVars, Handover, Notified
<1>. QED BY <1>1, <1>2, <1>3, <1>4, <1>5, RequestHandover
         DEF Notify, Next, Caller, streamVars, clientVars

\* A seek, with nothing under way.
LEMMA SeekHandover ==
  ASSUME HandoverInv, NEW r \in Readers, Reading(r), itr[r] = NoItr, ~Loaded(r),
         UNCHANGED <<readQueue, threadVars, callVars, bufferIndex, nextBlockSize, itr,
                     streamName, registered, deleted, opened, pastEof>>,
         ~notified'[r], ~eof'[r], held'[r] = NoBuf, lastRez'[r] = "ok",
         detecting' \subseteq detecting
  PROVE  Handover(r)'
<1>1. Handover(r) /\ Asked(r) \in Nat
  BY FieldTypes DEF HandoverInv
<1>2. Place(r)' = Place(r) /\ Calling(r)' = "out" /\ Queued(r)' = Queued(r) /\ ~Done(r)'
  BY DEF Place, Queued, Calling, Done, Reading, threadVars, callVars
<1>3. Asked(r) = 0 /\ ~Fetching(r) /\ ~Filled(r) /\ ~Ready(r)
  BY <1>1, FieldTypes DEF Loaded, HandoverInv
<1>4. Asked(r)' = 0 /\ ~Fetching(r)' /\ ~Filled(r)' /\ ~Ready(r)'
  BY <1>2, <1>3 DEF Asked, Fetching, Filled, Ready, threadVars
<1>5. OneUnderWay(r)' /\ Notified(r)' /\ InCall(r)'
  BY <1>1, <1>2, <1>4 DEF Handover, OneUnderWay, Notified, InCall, Loaded
<1>6. Buffers(r)' /\ Detecting(r)' /\ Untouched(r)'
  BY <1>1, <1>2, <1>4 DEF Handover, Buffers, Detecting, Untouched, Fetching, Loaded,
     Reading
<1>7. OfOne(r)' /\ OfList(r)'
  BY <1>1, <1>2, <1>3, <1>4 DEF Handover, OfOne, OfList, ReadsName, OneFile, Fetching,
     threadVars
<1>. QED BY <1>5, <1>6, <1>7 DEF Handover

LEMMA IncSeekHandover ==
  ASSUME HandoverInv, NEW r \in Readers, IncSeek(r)
  PROVE  Handover(r)'
<1>1. /\ Handover(r) /\ HandType /\ ClientType
  BY DEF HandoverInv, Bookkeeping, TypeOK
<1>2. Reading(r) /\ itr[r] = NoItr /\ r \in detecting /\ Calling(r) = "out" /\ OneFile(r)
  BY <1>1 DEF IncSeek, Reading, Calling, Handover, OfList
<1>3. ~Loaded(r)
  BY <1>1, <1>2 DEF Handover, Detecting
<1>4. ~notified'[r] /\ ~eof'[r] /\ held'[r] = NoBuf /\ lastRez'[r] = "ok"
  BY <1>1 DEF IncSeek, HandType, ClientType
<1>. QED BY <1>2, <1>3, <1>4, SeekHandover DEF IncSeek, queueVars

LEMMA GotoHandover ==
  ASSUME HandoverInv, Calm, NEW r \in Readers, NEW p \in GotoTargets, GotoByte(r, p)
  PROVE  Handover(r)'
<1>1. /\ Handover(r) /\ HandType /\ ClientType /\ Bookkeeping
  BY DEF HandoverInv, Bookkeeping, TypeOK
<1>2. atQueue[r] = 0 /\ nextBlockSize[r] = 0
  BY DEF GotoByte, Calm
<1>3. Queued(r) = 0 /\ Place(r) = "away"
  <2>1. atQueue[r] >= Queued(r) + InService(r) /\ Queued(r) \in Nat /\ InService(r) \in 0..1
    BY <1>1, CountsAreNat DEF Bookkeeping, Counted
  <2>. QED BY <1>2, <2>1 DEF InService, Place
<1>4. ~Loaded(r)
  BY <1>2, <1>3 DEF Loaded, Asked, Fetching, Filled, Ready
<1>5. ~notified'[r] /\ ~eof'[r] /\ held'[r] = NoBuf /\ lastRez'[r] = "ok"
  BY <1>1 DEF GotoByte, HandType, ClientType
<1>. QED BY <1>4, <1>5, SeekHandover DEF GotoByte, queueVars

LEMMA DeleteHandover ==
  ASSUME HandoverInv, NEW r \in Readers, DeleteReader(r)
  PROVE  Handover(r)'
<1>1. /\ Handover(r) /\ Bookkeeping /\ QueueType /\ ClientType
  BY DEF HandoverInv, Bookkeeping, TypeOK
<1>2. Place(r)' = Place(r) /\ Calling(r)' = "out" /\ Queued(r)' = Queued(r)
  BY DEF DeleteReader, Place, Calling, Queued, callVars, threadVars
<1>3. Asked(r)' = Asked(r) /\ Filled(r)' = Filled(r) /\ Ready(r)' = Ready(r)
      /\ Done(r)' = Done(r) /\ Fetching(r)' = Fetching(r)
  BY <1>2 DEF DeleteReader, Asked, Fetching, Filled, Ready, Done, handVars, threadVars
<1>4. held'[r] = NoBuf /\ r \in opened' /\ (deleted'[r] \/ r \notin registered')
  BY <1>1 DEF DeleteReader, QueueType, ClientType
<1>5. OneUnderWay(r)' /\ Notified(r)' /\ InCall(r)'
  BY <1>1, <1>2, <1>3, <1>4 DEF DeleteReader, Handover, OneUnderWay, Notified, InCall,
     Loaded, Spent, Done, handVars
<1>6. Buffers(r)' /\ Untouched(r)'
  BY <1>1, <1>2, <1>3, <1>4 DEF DeleteReader, Handover, Buffers, Untouched, handVars,
     threadVars
<1>7. Detecting(r)'
  BY <1>1, <1>3 DEF DeleteReader, Handover, Detecting, Loaded, OneFile, handVars,
     Calling
<1>8. OfList(r)' /\ OfOne(r)'
  BY <1>1, <1>2, <1>3, <1>4 DEF DeleteReader, Handover, OfOne, OfList, ReadsName,
     OneFile, handVars, streamVars, threadVars
<1>. QED BY <1>5, <1>6, <1>7, <1>8 DEF Handover

\* The end of the wait in readBlock, and what it reads of the reader.
LEMMA WaitTakeHandover ==
  ASSUME HandoverInv, ReadWait \/ ReadTake, NEW r \in Readers
  PROVE  Handover(r)'
<1>1. Handover(r) /\ Bookkeeping
  BY DEF HandoverInv
<1>2. /\ Place(r)' = Place(r) /\ Queued(r)' = Queued(r)
      /\ UNCHANGED <<queueVars, handVars, streamVars, threadVars, clientVars, cid>>
  BY DEF ReadWait, ReadTake, Place, Queued, queueVars, threadVars
<1>3. CASE cid # r
  <2>1. Calling(r) = "out" /\ Calling(r)' = "out"
    BY <1>2, <1>3 DEF Calling
  <2>. QED BY <1>1, <1>2, <2>1, HandoverFrame
           DEF queueVars, handVars, streamVars, threadVars, clientVars
<1>4. CASE cid = r
  <2>1. /\ Asked(r)' = Asked(r) /\ Filled(r)' = Filled(r) /\ Ready(r)' = Ready(r)
        /\ Done(r)' = Done(r) /\ Spent(r)' = Spent(r) /\ Fetching(r)' = Fetching(r)
    BY <1>2 DEF Asked, Fetching, Filled, Ready, Done, Spent, handVars, threadVars,
       clientVars
  <2>2. OneUnderWay(r)' /\ Notified(r)' /\ Buffers(r)'
    BY <1>1, <1>2, <2>1 DEF Handover, OneUnderWay, Notified, Buffers, Loaded, handVars,
       threadVars, clientVars
  <2>3. Calling(r) \in {"wait", "take"} /\ Calling(r)' \in {"take", "reset"}
    BY <1>2, <1>4 DEF ReadWait, ReadTake, Calling
  <2>4. Detecting(r)' /\ Untouched(r)' /\ OfOne(r)' /\ OfList(r)'
    BY <1>1, <1>2, <2>1, <2>3 DEF Handover, Detecting, Untouched, OfOne, OfList,
       ReadsName, OneFile, Loaded, queueVars, handVars, streamVars, threadVars, clientVars
  <2>5. CASE ReadWait
    <3>1. Calling(r)' = "take" /\ (Ready(r) \/ eof[r])
      BY <1>2, <1>4, <2>5 DEF ReadWait, Calling, Ready
    <3>2. InCall(r)'
      BY <1>1, <1>2, <2>1, <2>3, <3>1 DEF Handover, InCall, handVars, clientVars
    <3>. QED BY <2>2, <2>4, <3>2 DEF Handover
  <2>6. CASE ReadTake
    <3>1. Calling(r) = "take" /\ (Ready(r) \/ eof[r])
          /\ ccnt' = (IF nextBlockSize[r] >= 0 THEN nextBlockSize[r] ELSE 0)
          /\ crez' = IF eof[r] THEN "eof" ELSE "ok"
      BY <1>1, <1>2, <1>4, <2>6 DEF ReadTake, Calling, Handover, InCall
    <3>2. InCall(r)'
      BY <1>1, <1>2, <2>1, <2>3, <3>1, FieldTypes DEF Handover, InCall, handVars, clientVars
    <3>. QED BY <2>2, <2>4, <3>2 DEF Handover
  <2>. QED BY <2>5, <2>6
<1>. QED BY <1>3, <1>4

\* The rest of readBlock: a block was taken, or the stream ended.
LEMMA ResetHandover ==
  ASSUME HandoverInv, Calm, ReadReset, NEW r \in Readers
  PROVE  Handover(r)'
<1>1. /\ Handover(r) /\ Bookkeeping /\ HandType /\ ClientType
      /\ detecting \subseteq DetectReaders
  BY DEF HandoverInv, Bookkeeping, TypeOK
<1>2. /\ Place(r)' = Place(r) /\ Queued(r)' = Queued(r) /\ Calling(r)' = "out"
      /\ UNCHANGED <<queueVars, eof, streamVars, threadVars, cid, opened, pastEof,
                     detecting>>
  BY DEF ReadReset, Place, Queued, Calling, queueVars, threadVars
<1>3. CASE cid # r
  <2>1. Calling(r) = "out"
    BY <1>3 DEF Calling
  <2>2. UNCHANGED <<notified[r], nextBlockSize[r], bufferIndex[r], held[r], lastRez[r]>>
    BY <1>1, <1>3 DEF ReadReset, HandType, ClientType
  <2>. QED BY <1>1, <1>2, <2>1, <2>2, HandoverFrame DEF queueVars, streamVars, threadVars
<1>4. CASE cid = r
  <2>1. Calling(r) = "reset"
    BY <1>4 DEF ReadReset, Calling
  <2>2. /\ ~notified'[r] /\ nextBlockSize'[r] = 0 /\ lastRez'[r] = crez
        /\ bufferIndex'[r] = 1 - bufferIndex[r]
        /\ held'[r] = IF ccnt > 0 THEN bufferIndex[r] ELSE NoBuf
    BY <1>1, <1>4 DEF ReadReset, HandType, ClientType, OtherBuffer
  <2>3. /\ r \in opened /\ held[r] = NoBuf /\ (Done(r) => pastEof[r] > 0)
        /\ Ready(r) \/ eof[r]
        /\ crez = "eof" <=> eof[r]
        /\ ccnt # 0 => ccnt = nextBlockSize[r]
    BY <1>1, <2>1 DEF Handover, InCall
  <2>4. /\ Asked(r)' = Asked(r) /\ Filled(r)' = Filled(r) /\ ~Ready(r)'
        /\ Done(r)' = eof[r] /\ Fetching(r)' = Fetching(r)
    BY <1>1, <1>2, <2>2, <2>3 DEF Asked, Fetching, Filled, Ready, Done, threadVars, HandType
  <2>5. /\ ccnt \in Nat /\ pastEof[r] \in Nat /\ pastEof[r] <= MaxPastEof
        /\ MaxPastEof \in 0..1 /\ Asked(r) \in Nat /\ bufferIndex[r] \in 0..1
        /\ ~OneFile(r) \/ r \in detecting => MaxPastEof = 0
    BY <1>1, FieldTypes DEF Calm, Handover, Notified
  <2>6. Ready(r) => ~Loaded(r)'
    BY <1>1, <2>4, <2>5 DEF Handover, OneUnderWay, Loaded, Filled
  <2>7. eof[r] /\ ~Done(r) => Asked(r) = 0
    BY <1>1 DEF Handover, Notified
  <2>8. ~Ready(r) => ccnt = 0 /\ held'[r] = NoBuf /\ eof[r]
    BY <2>2, <2>3, <2>5 DEF Ready
  <2>9. ~Ready(r) /\ Done(r) => Spent(r)'
    BY <1>2, <2>3, <2>4, <2>5, <2>8 DEF Spent
  <2>10. ~Ready(r) /\ ~Done(r) => ~Loaded(r)' \/ Spent(r)'
    <3>. SUFFICES ASSUME ~Ready(r), ~Done(r) PROVE ~Loaded(r)' \/ Spent(r)'
      OBVIOUS
    <3>1. CASE OneFile(r)
      BY <1>1, <2>4, <2>7, <2>8, <3>1 DEF Handover, OfOne, Loaded
    <3>2. CASE ~OneFile(r)
      <4>1. pastEof'[r] = MaxPastEof
        BY <1>2, <2>5, <3>2
      <4>. QED BY <2>4, <2>8, <4>1 DEF Spent
    <3>. QED BY <3>1, <3>2
  <2>11. OneUnderWay(r)'
    BY <1>1, <2>4 DEF Handover, OneUnderWay
  <2>12. Notified(r)'
    BY <1>2, <2>4, <2>5, <2>6, <2>9, <2>10 DEF Notified
  <2>13. InCall(r)' /\ Untouched(r)'
    BY <1>2, <2>3 DEF InCall, Untouched
  <2>14. Place(r) \in {"read", "switch", "readNext"} =>
            ~Ready(r) /\ (tbuf = bufferIndex[r] \/ Done(r))
    <3>1. Fetching(r) => Asked(r) = 1
      BY <1>1, FieldTypes DEF Handover, OneUnderWay
    <3>. QED BY <1>1, <3>1 DEF Handover, OneUnderWay, Buffers, Fetching
  <2>15. Buffers(r)'
    <3>1. held'[r] \in {NoBuf, 1 - bufferIndex'[r]}
      BY <2>2, <2>5
    <3>2. Place(r) \in {"read", "switch", "readNext"} => held'[r] = NoBuf /\ Done(r)'
      BY <2>4, <2>8, <2>14
    <3>. QED BY <1>2, <3>1, <3>2 DEF Buffers, threadVars
  <2>16. Detecting(r)'
    <3>. SUFFICES ASSUME r \in detecting, OneFile(r) PROVE ~Loaded(r)' /\ ~notified'[r]
      BY <1>2 DEF Detecting, OneFile
    <3>1. ~Done(r)
      BY <2>3, <2>5
    <3>2. CASE ~Ready(r)
      BY <1>1, <2>2, <2>4, <2>7, <2>8, <3>1, <3>2 DEF Handover, OfOne, Loaded
    <3>. QED BY <2>2, <2>6, <3>2
  <2>17. OfOne(r)' /\ OfList(r)'
    BY <1>1, <1>2, <2>2, <2>4 DEF Handover, OfOne, OfList, ReadsName, OneFile, streamVars,
       threadVars, queueVars
  <2>. QED BY <2>11, <2>12, <2>13, <2>15, <2>16, <2>17 DEF Handover
<1>. QED BY <1>3, <1>4

\* The destructor touches no reader.
LEMMA StopHandover ==
  ASSUME HandoverInv, Terminate \/ PushStop \/ Join, NEW r \in Readers
  PROVE  Handover(r)'
<1>1. Handover(r) /\ QueueType
  BY DEF HandoverInv, Bookkeeping, TypeOK
<1>2. Queued(r)' = Queued(r)
  <2>1. CASE PushStop
    BY <1>1, <2>1, PushOther, ReaderAssumption DEF PushStop, WakeThread
  <2>2. CASE Terminate \/ Join
    BY <2>2 DEF Terminate, Join, Queued
  <2>. QED BY <2>1, <2>2
<1>3. Place(r)' = Place(r) /\ Calling(r)' = Calling(r) /\ Calling(r) = "out"
  BY DEF Terminate, PushStop, Join, Place, Calling, threadVars
<1>. QED BY <1>1, <1>2, <1>3, HandoverFrame DEF Terminate, PushStop, Join, handVars,
         streamVars, threadVars, clientVars

\* Every step of the program keeps the hand-over in order.
LEMMA HandoverStep ==
  ASSUME HandoverInv, Calm, Next, NEW r \in Readers
  PROVE  Handover(r)'
<1>1. CASE Thread
  BY <1>1, ThreadHandover
<1>2. ASSUME NEW q \in Readers,
             \/ CreateReader(q) \/ OpenStream(q) \/ ReadRequest(q) \/ Notify(q)
             \/ IncSeek(q) \/ DeleteReader(q)
             \/ \E p \in GotoTargets : GotoByte(q, p)
      PROVE  Handover(r)'
  <2>1. CASE q # r
    BY <1>2, <2>1, OtherReaders
  <2>2. CASE q = r
    BY <1>2, <2>2, CreateHandover, OpenHandover, ReadRequestHandover, NotifyHandover,
       IncSeekHandover, DeleteHandover, GotoHandover
  <2>. QED BY <2>1, <2>2
<1>3. CASE ReadReturn
  BY <1>3, WaitTakeHandover, ResetHandover DEF ReadReturn
<1>4. CASE Terminate \/ End
  BY <1>4, StopHandover DEF End
<1>. QED BY <1>1, <1>2, <1>3, <1>4 DEF Next, Caller

LEMMA InitHandover == Calm /\ Init => HandoverInv
<1>. SUFFICES ASSUME Init PROVE HandoverInv
  OBVIOUS
<1>1. Bookkeeping /\ Stopping /\ detecting \subseteq DetectReaders
  BY InitBookkeeping DEF Init, Stopping
<1>2. ASSUME NEW r \in Readers PROVE Handover(r)
  <2>1. Queued(r) = 0
    <3>1. Occurrences(readQueue, r) = {}
      BY DEF Init, Occurrences
    <3>. QED BY <3>1, FS_EmptySet DEF Queued
  <2>2. Place(r) = "away" /\ Calling(r) = "out"
    BY DEF Init, Place, Calling, Serving
  <2>3. Asked(r) = 0 /\ ~Filled(r) /\ ~Ready(r) /\ ~Done(r)
    BY <2>1, <2>2 DEF Init, Asked, Fetching, Filled, Ready, Done
  <2>4. OneUnderWay(r) /\ Notified(r) /\ InCall(r)
    BY <2>2, <2>3, ReaderAssumption DEF Init, OneUnderWay, Notified, InCall, Loaded
  <2>5. Buffers(r) /\ Detecting(r) /\ Untouched(r)
    BY <2>2, <2>3 DEF Init, Buffers, Detecting, Untouched, Loaded
  <2>6. OfOne(r) /\ OfList(r)
    BY <2>2, <2>3 DEF Init, OfOne, OfList, ReadsName
  <2>. QED BY <2>4, <2>5, <2>6 DEF Handover
<1>. QED BY <1>1, <1>2 DEF HandoverInv

\* The hand-over invariant, for every calm use of the readers.
LEMMA HandoverHolds == ASSUME Calm PROVE Spec => []HandoverInv
<1>1. HandoverInv /\ [Next]_vars => HandoverInv'
  <2>. SUFFICES ASSUME HandoverInv, [Next]_vars PROVE HandoverInv'
    OBVIOUS
  <2>1. CASE Next
    <3>1. Bookkeeping'
      BY <2>1, BookkeepingStep DEF HandoverInv
    <3>2. Stopping'
      <4>1. CASE Thread
        BY <4>1 DEF HandoverInv, Stopping, Thread, ThreadPop, ThreadGet, ThreadRead, ThreadStay,
           ThreadSwitch, ThreadReadNext, ThreadPublish, ThreadRelease, ThreadLoop, queueVars,
           callVars
      <4>2. CASE \E r \in Readers :
                   \/ CreateReader(r) \/ OpenStream(r) \/ ReadRequest(r) \/ Notify(r)
                   \/ IncSeek(r) \/ DeleteReader(r) \/ \E p \in GotoTargets : GotoByte(r, p)
        <5>1. terminated' = terminated /\ cpc \in {"idle", "wait"} /\ cpc' \in {"idle", "wait"}
          <6>. PICK r \in Readers :
                   \/ CreateReader(r) \/ OpenStream(r) \/ ReadRequest(r) \/ Notify(r)
                   \/ IncSeek(r) \/ DeleteReader(r) \/ \E p \in GotoTargets : GotoByte(r, p)
            BY <4>2
          <6>1. CASE CreateReader(r) \/ OpenStream(r) \/ IncSeek(r)
            BY <6>1 DEF CreateReader, OpenStream, IncSeek, Reading, queueVars, callVars
          <6>2. CASE ReadRequest(r)
            BY <6>2 DEF ReadRequest, Reading
          <6>3. CASE Notify(r) \/ DeleteReader(r)
            BY <6>3 DEF Notify, DeleteReader, Reading, callVars
          <6>4. CASE \E p \in GotoTargets : GotoByte(r, p)
            BY <6>4 DEF GotoByte, Reading, queueVars, callVars
          <6>. QED BY <6>1, <6>2, <6>3, <6>4
        <5>. QED BY <5>1 DEF HandoverInv, Stopping
      <4>3. CASE ReadReturn
        BY <4>3 DEF HandoverInv, Stopping, Reading, ReadReturn, ReadWait, ReadTake, ReadReset,
           queueVars, callVars
      <4>4. CASE Terminate \/ End
        BY <4>4 DEF HandoverInv, Stopping, Terminate, End, PushStop, Join
      <4>. QED BY <2>1, <4>1, <4>2, <4>3, <4>4 DEF Next, Caller
    <3>3. detecting' \subseteq DetectReaders
      BY <2>1 DEF HandoverInv, Next, Thread, ThreadPop, ThreadGet, ThreadRead,
         ThreadStay, ThreadSwitch, ThreadReadNext, ThreadPublish, ThreadRelease,
         ThreadLoop, Caller, CreateReader, OpenStream, ReadRequest, Notify, IncSeek,
         DeleteReader, GotoByte, ReadReturn, ReadWait, ReadTake, ReadReset,
         Terminate, End, PushStop, Join, clientVars
    <3>. QED BY <2>1, <3>1, <3>2, <3>3, HandoverStep DEF HandoverInv
  <2>2. CASE UNCHANGED vars
    <3>1. Bookkeeping'
      BY <2>2, TypeUnchanged DEF HandoverInv, vars, queueVars, threadVars, callVars,
         Bookkeeping, TypeOK, Counted, Queued, InService, Kept, ThreadServes,
         CallerReads, StopIsLast
    <3>2. ASSUME NEW r \in Readers PROVE Handover(r)'
      <4>1. Queued(r)' = Queued(r) /\ Place(r)' = Place(r) /\ Calling(r)' = Calling(r)
        BY <2>2 DEF Queued, Place, Calling, vars, queueVars, threadVars, callVars
      <4>. QED BY <2>2, <4>1, HandoverFrame DEF HandoverInv, vars, queueVars, handVars,
               streamVars, threadVars, callVars, clientVars
    <3>. QED BY <2>2, <3>1, <3>2 DEF HandoverInv, Stopping, vars, queueVars, callVars,
             clientVars
  <2>. QED BY <2>1, <2>2
<1>. QED BY <1>1, InitHandover, PTL DEF Spec

-----------------------------------------------------------------------------
\* The thread never reads into the block the caller parses nor over one that
\* waits to be taken, however the two interleave.
THEOREM BuffersApart == ASSUME Calm PROVE Spec => []BuffersDisjoint
<1>1. HandoverInv => BuffersDisjoint
  <2>. SUFFICES ASSUME HandoverInv, tpc \in {"read", "readNext"}
                PROVE  held[tid] # tbuf /\ nextBlockSize[tid] <= 0
    BY DEF BuffersDisjoint
  <2>1. tid \in Readers /\ Place(tid) = tpc /\ Bookkeeping
    BY DEF HandoverInv, Bookkeeping, ThreadServes, Serving, Place
  <2>2. Handover(tid) /\ Fetching(tid)
    BY <2>1 DEF HandoverInv, Fetching
  <2>3. Asked(tid) = 1
    BY <2>1, <2>2, FieldTypes DEF Handover, OneUnderWay
  <2>4. ~Ready(tid)
    BY <2>2, <2>3 DEF Handover, OneUnderWay
  <2>5. tbuf \in 0..1 /\ bufferIndex[tid] \in 0..1
    BY <2>1, FieldTypes
  <2>6. held[tid] # tbuf
    BY <2>1, <2>2, <2>5 DEF Handover, Buffers, NoBuf
  <2>. QED BY <2>4, <2>6 DEF Ready
<1>. QED BY <1>1, HandoverHolds, PTL

-----------------------------------------------------------------------------
(* The queue has room for one request of every reader: QUEUE_MAX_SIZE is   *)
(* 4096 and a mux has a few dozen inputs.  Then no push is refused.        *)

Roomy == Cardinality(Readers) <= QueueMaxSize

\* Elements counted at most once each are at most as many as there are.
LEMMA DistinctFit ==
  ASSUME NEW S, IsFiniteSet(S), NEW s \in Seq(S),
         \A e \in S : Cardinality(Occurrences(s, e)) <= 1
  PROVE  Len(s) <= Cardinality(S)
<1>1. Len(s) \in Nat /\ IsFiniteSet(1..Len(s)) /\ Cardinality(1..Len(s)) = Len(s)
  <2>1. Len(s) \in Nat
    OBVIOUS
  <2>. QED BY <2>1, FS_Interval
<1>. DEFINE f == [i \in 1..Len(s) |-> s[i]]
<1>2. f \in [1..Len(s) -> S]
  OBVIOUS
<1>3. ASSUME NEW i \in 1..Len(s), NEW j \in 1..Len(s), f[i] = f[j] PROVE i = j
  <2>. DEFINE O == Occurrences(s, s[i])
  <2>1. s[i] \in S /\ i \in O /\ j \in O
    BY <1>3 DEF Occurrences
  <2>2. IsFiniteSet(O) /\ Cardinality(O) \in Nat /\ Cardinality(O) <= 1
    BY <2>1, OccurrencesFinite
  <2>3. Cardinality(O) = 1
    BY <2>1, <2>2, FS_EmptySet
  <2>. QED BY <2>1, <2>2, <2>3, FS_Singleton
<1>4. f \in Injection(1..Len(s), S)
  BY <1>2, <1>3 DEF Injection, IsInjective
<1>. QED BY <1>1, <1>4, FS_Injection

\* A queue with at most one request of each reader and none of r has room.
LEMMA QueueHasRoom ==
  ASSUME HandoverInv, Roomy, ~terminated, NEW r \in Readers, Queued(r) = 0
  PROVE  Len(readQueue) < QueueMaxSize
<1>1. /\ readQueue \in Seq(Readers \cup {StopId})
      /\ \A i \in 1..Len(readQueue) : readQueue[i] # StopId
  BY DEF HandoverInv, Bookkeeping, TypeOK, QueueType, StopIsLast
<1>2. Occurrences(readQueue, r) = {}
  BY <1>1, OccurrencesFinite, FS_EmptySet DEF Queued
<1>. DEFINE Others == Readers \ {r}
<1>3. \A i \in 1..Len(readQueue) : readQueue[i] \in Others
  BY <1>1, <1>2 DEF Occurrences
<1>4. readQueue \in Seq(Others)
  BY <1>1, <1>3
<1>5. ASSUME NEW q \in Others PROVE Cardinality(Occurrences(readQueue, q)) <= 1
  <2>1. Bookkeeping /\ Asked(q) <= 1
    BY DEF HandoverInv, Handover, OneUnderWay
  <2>. QED BY <2>1, FieldTypes DEF Asked, Queued
<1>6. IsFiniteSet(Readers) /\ IsFiniteSet(Others)
      /\ Cardinality(Others) = Cardinality(Readers) - 1 /\ Cardinality(Readers) \in Nat
  BY ReaderAssumption, FS_RemoveElement, FS_CardinalityType
<1>7. Len(readQueue) <= Cardinality(Others)
  BY <1>4, <1>5, <1>6, DistinctFit
<1>8. Len(readQueue) \in Nat /\ QueueMaxSize \in Nat
  BY <1>1, ReaderAssumption
<1>. QED BY <1>6, <1>7, <1>8 DEF Roomy

Exact == ~terminated => \A r \in Readers : atQueue[r] = Queued(r) + InService(r)

\* Each request is counted once, from the push to the end of its service.
LEMMA ExactStep ==
  ASSUME HandoverInv, HandoverInv', Roomy, Calm, Exact, Next
  PROVE  Exact'
<1>. SUFFICES ASSUME ~terminated', NEW r \in Readers
              PROVE  atQueue'[r] = Queued(r)' + InService(r)'
  BY DEF Exact
<1>1. /\ TypeOK /\ QueueType /\ Bookkeeping /\ Stopping
      /\ Queued(r) \in Nat /\ InService(r) \in 0..1 /\ Queued(r)' \in Nat
  BY CountsAreNat, BookkeepingStep DEF HandoverInv, Bookkeeping, TypeOK
<1>2. ~terminated
  BY DEF Next, Thread, ThreadPop, ThreadGet, ThreadRead, ThreadStay, ThreadSwitch,
     ThreadReadNext, ThreadPublish, ThreadRelease, ThreadLoop, Caller, CreateReader,
     OpenStream, ReadRequest, Notify, IncSeek, DeleteReader, GotoByte, ReadReturn,
     ReadWait, ReadTake, ReadReset, Terminate, End, PushStop, Join, queueVars
<1>3. atQueue[r] = Queued(r) + InService(r)
  BY <1>2 DEF Exact
<1>4. CASE UNCHANGED <<readQueue, atQueue>> /\ InService(r)' = InService(r)
  BY <1>3, <1>4 DEF Queued
<1>5. CASE ThreadPop
  <2>1. Queued(r) = Queued(r)' + (IF Head(readQueue) = r THEN 1 ELSE 0)
    BY <1>1, <1>5, CountTail DEF ThreadPop, QueueType, Queued
  <2>2. InService(r) = 0 /\ InService(r)' = (IF Head(readQueue) = r THEN 1 ELSE 0)
    BY <1>2, <1>5 DEF ThreadPop, InService, Serving
  <2>. QED BY <1>1, <1>3, <1>5, <2>1, <2>2 DEF ThreadPop
<1>6. CASE ThreadGet
  <2>1. tid \in Readers /\ InService(tid) = 1
    BY <1>1, <1>6 DEF ThreadGet, Bookkeeping, ThreadServes, Serving, InService
  <2>2. atQueue[tid] > 0
    <3>1. atQueue[tid] >= Queued(tid) + 1 /\ Queued(tid) \in Nat /\ atQueue[tid] \in Nat
      BY <1>1, <2>1, CountsAreNat DEF Bookkeeping, Counted
    <3>. QED BY <3>1
  <2>3. tid \in registered
    BY <1>1, <1>2, <2>1, <2>2 DEF Bookkeeping, Kept, Stopping
  <2>. QED BY <1>4, <1>6, <2>3 DEF ThreadGet, InService, Serving, queueVars
<1>7. CASE ThreadRelease
  <2>1. tid \in Readers
    BY <1>1, <1>7 DEF ThreadRelease, Bookkeeping, ThreadServes, Serving
  <2>2. InService(r)' = 0 /\ InService(r) = (IF r = tid THEN 1 ELSE 0)
    BY <1>7 DEF ThreadRelease, InService, Serving
  <2>3. Queued(r)' = Queued(r) /\ atQueue'[r] = atQueue[r] - (IF r = tid THEN 1 ELSE 0)
    BY <1>1, <1>7, <2>1 DEF ThreadRelease, QueueType, Queued
  <2>. QED BY <1>1, <1>3, <2>2, <2>3
<1>8. CASE Thread /\ ~ThreadPop /\ ~ThreadGet /\ ~ThreadRelease
  <2>1. InService(r)' = InService(r) /\ UNCHANGED <<readQueue, atQueue>>
    BY <1>8 DEF Thread, ThreadRead, ThreadStay, ThreadSwitch, ThreadReadNext,
       ThreadPublish, ThreadLoop, GoPublish, InService, Serving, queueVars
  <2>. QED BY <1>4, <2>1
<1>9. ASSUME NEW q \in Readers, Request(q), Reading(q), ~Loaded(q), UNCHANGED threadVars
      PROVE  atQueue'[r] = Queued(r)' + InService(r)'
  <2>1. Queued(q) = 0
    BY <1>1, <1>9, FieldTypes DEF Loaded, Asked
  <2>2. readQueue' = Append(readQueue, q) /\ readQueue \in Seq(Readers \cup {StopId})
    BY <1>1, <1>2, <1>9, <2>1, QueueHasRoom DEF Request, Push, QueueType
  <2>3. Queued(r)' = Queued(r) + (IF q = r THEN 1 ELSE 0)
    BY <2>2, CountAppend DEF Queued
  <2>4. atQueue'[r] = atQueue[r] + (IF q = r THEN 1 ELSE 0) /\ InService(r)' = InService(r)
    BY <1>1, <1>9 DEF Request, QueueType, InService, threadVars
  <2>. QED BY <1>1, <1>3, <2>3, <2>4
<1>10. ASSUME NEW q \in Readers, ReadRequest(q)
       PROVE  atQueue'[r] = Queued(r)' + InService(r)'
  <2>1. CASE NeedsRequest(q)
    <3>1. Handover(q) /\ ClientType /\ pastEof[q] \in Nat /\ MaxPastEof \in Nat
      BY <1>1, FieldTypes DEF HandoverInv, TypeOK
    <3>2. ~notified[q] /\ ~Spent(q)
      BY <1>10, <2>1, <3>1 DEF ReadRequest, NeedsRequest, Spent, Done
    <3>3. ~Loaded(q)
      BY <3>1, <3>2 DEF Handover, Notified
    <3>. QED BY <1>9, <1>10, <2>1, <3>3 DEF ReadRequest
  <2>2. CASE ~NeedsRequest(q)
    BY <1>4, <1>10, <2>2 DEF ReadRequest, InService, threadVars
  <2>. QED BY <2>1, <2>2
<1>11. ASSUME NEW q \in Readers, Notify(q)
       PROVE  atQueue'[r] = Queued(r)' + InService(r)'
  <2>1. Handover(q) /\ ~notified[q] /\ ~Spent(q)
    BY <1>11 DEF HandoverInv, Notify, MayNotify, Spent, Done
  <2>2. ~Loaded(q)
    BY <2>1 DEF Handover, Notified
  <2>. QED BY <1>9, <1>11, <2>2 DEF Notify
<1>12. ASSUME NEW q \in Readers,
              \/ CreateReader(q) \/ OpenStream(q) \/ IncSeek(q) \/ DeleteReader(q)
              \/ \E p \in GotoTargets : GotoByte(q, p)
       PROVE  atQueue'[r] = Queued(r)' + InService(r)'
  BY <1>4, <1>12 DEF CreateReader, OpenStream, IncSeek, DeleteReader, GotoByte,
     InService, Serving, queueVars, threadVars
<1>13. CASE ReadReturn
  BY <1>4, <1>13 DEF ReadReturn, ReadWait, ReadTake, ReadReset, InService, queueVars,
     threadVars
<1>14. ~Terminate /\ ~PushStop /\ ~Join
  <2>1. ~terminated' => cpc' \notin {"ending", "join", "end"}
    BY DEF HandoverInv, Stopping
  <2>. QED BY <2>1 DEF Terminate, PushStop, Join
<1>15. Thread => \/ ThreadPop \/ ThreadGet \/ ThreadRelease
                 \/ Thread /\ ~ThreadPop /\ ~ThreadGet /\ ~ThreadRelease
  OBVIOUS
<1>. QED BY <1>5, <1>6, <1>7, <1>8, <1>10, <1>11, <1>12, <1>13, <1>14, <1>15
         DEF Next, Caller, End

\* m_atQueue counts exactly the requests queued or in service, which is what
\* deleteReader decides on, and a reader has at most one in the queue, so the
\* queue never refuses the request a caller will wait for.
THEOREM QueueIsCounted == ASSUME Calm, Roomy PROVE Spec => []QueueAccounting
<1>1. Init => Exact
  <2>. SUFFICES ASSUME Init, NEW r \in Readers PROVE atQueue[r] = Queued(r) + InService(r)
    BY DEF Exact
  <2>1. Occurrences(readQueue, r) = {}
    BY DEF Init, Occurrences
  <2>2. Queued(r) = 0
    BY <2>1, FS_EmptySet DEF Queued
  <2>. QED BY <2>2 DEF Init, InService, Serving
<1>2. HandoverInv /\ HandoverInv' /\ Exact /\ [Next]_vars => Exact'
  <2>. SUFFICES ASSUME HandoverInv, HandoverInv', Exact, [Next]_vars PROVE Exact'
    OBVIOUS
  <2>1. CASE UNCHANGED vars
    BY <2>1 DEF Exact, Queued, InService, vars, queueVars, threadVars
  <2>. QED BY <2>1, ExactStep
<1>3. HandoverInv /\ Exact => QueueAccounting
  <2>. SUFFICES ASSUME HandoverInv, Exact, NEW r \in Readers PROVE Queued(r) <= 1
    BY DEF QueueAccounting, Exact
  <2>1. Bookkeeping /\ Asked(r) <= 1
    BY DEF HandoverInv, Handover, OneUnderWay
  <2>. QED BY <2>1, FieldTypes DEF Asked
<1>4. Spec => []HandoverInv
  BY HandoverHolds
<1>. QED BY <1>1, <1>2, <1>3, <1>4, PTL DEF Spec

=============================================================================
