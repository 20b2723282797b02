--------------------------- MODULE BufferedReader ---------------------------
(***************************************************************************)
(* The read-ahead of tsMuxer (tsMuxer/bufferedReader.cpp, .h and           *)
(* bufferedFileReader.cpp, .h): one thread serves read requests for several *)
(* readers, each with two block buffers.  The muxing thread (the "caller"  *)
(* below) takes the finished block of a reader with readBlock and asks for *)
(* the next one with notify, while it still parses the one it holds.       *)
(*                                                                         *)
(* Every field of ReaderData is a function of the reader identifier.  The  *)
(* fields m_eof, m_nextBlockSize, m_bufferIndex and m_notified are touched *)
(* by both threads, mostly outside the two mutexes, so a call is cut where *)
(* a step of the other thread can change what comes of it.  File data is a *)
(* sequence of units; a block holds at most BlockSize of them.             *)
(***************************************************************************)
EXTENDS Integers, Sequences, FiniteSets, SequencesExt

CONSTANTS
    Readers,        \* identifiers createReader hands out
    Names,          \* names of the input files
    NoName,         \* the empty string
    FileList,       \* reader -> the files joined into its stream
    FileSize,       \* file name -> its size in units
    Unopenable,     \* files of a list that openStream fails on
    BlockSize,      \* m_blockSize of the BufferedReader
    QueueMaxSize,   \* QUEUE_MAX_SIZE
    DetectReaders,  \* readers that first run TSDemuxer::getTrackList
    GotoTargets,    \* positions IOContextDemuxer::url_fseek may ask for
    GotoAnyTime,    \* FALSE: url_fseek only when no read-ahead is under way
    MaxPastEof      \* readBlock calls a caller makes after DATA_EOF

StopId == 0         \* what the destructor pushes to wake the thread
NoItr  == -1        \* a null FileNameIterator
NoBuf  == 2         \* the caller holds no block of the reader

ASSUME ReaderAssumption ==
    /\ IsFiniteSet(Readers) /\ Readers \subseteq Nat \ {StopId}
    /\ NoName \notin Names /\ Unopenable \subseteq Names
    /\ FileList \in [Readers -> Seq(Names) \ {<<>>}]
    /\ FileSize \in [Names -> Nat]
    /\ BlockSize \in Nat \ {0} /\ QueueMaxSize \in Nat \ {0}
    /\ DetectReaders \subseteq Readers
    /\ GotoTargets \subseteq Nat /\ GotoAnyTime \in BOOLEAN
    /\ MaxPastEof \in Nat

VARIABLES
    readQueue, terminated,              \* m_readQueue, m_terminated
    registered,                         \* the keys of m_readers
    bufferIndex, notified, nextBlockSize, deleted, firstBlock, lastBlock,
    eof, atQueue, itr, streamName, blockSize, \* the fields of ReaderData
    filePos,                            \* the file offset of m_file
    nextBlock,                          \* what the two buffers contain
    tpc, tid, tbuf, tbytes,             \* the thread and its locals
    cpc, cid, ccnt, crez, opened,       \* the caller and its locals
    held, lastRez, lastFirst, pastEof, detecting,
    delivered, base                     \* history of what the caller got

queueVars  == <<readQueue, terminated, registered, atQueue, deleted>>
handVars   == <<bufferIndex, notified, nextBlockSize, eof>>
streamVars == <<firstBlock, lastBlock, itr, streamName, blockSize, filePos>>
threadVars == <<tpc, tid, tbuf, tbytes>>
callVars   == <<cpc, cid, ccnt, crez>>
clientVars == <<opened, held, lastRez, lastFirst, pastEof, detecting,
                delivered, base>>
vars == <<queueVars, handVars, streamVars, nextBlock, threadVars, callVars,
          clientVars>>

-----------------------------------------------------------------------------
Units(name) == [i \in 1..FileSize[name] |-> <<name, i>>]

\* The stream a reader stands for: its files one after the other.
Joined(r) == FlattenSeq([k \in 1..Len(FileList[r]) |-> Units(FileList[r][k])])

\* Mutant: the count asked for is taken for the count read.
ReadCount_AsAsked(name, p, n) == n

\* File::read of n units at offset p: the count it returns (-1: not open).
ReadCount(name, p, n) ==
    IF name \notin Names \ Unopenable THEN -1
    ELSE IF p + n <= FileSize[name] THEN n
    ELSE IF p < FileSize[name] THEN FileSize[name] - p ELSE 0

\* A buffer before anything was read into it.
Junk == [i \in 1..BlockSize |-> <<NoName, i>>]

\* FileListIterator::getNextName, as the index it moves to and the name there.
\* The index saturates at the size of the list, where every name is empty.
NextIndex(r) == IF itr[r] < Len(FileList[r]) THEN itr[r] + 1 ELSE itr[r]
NextName(r) ==
    IF NextIndex(r) < Len(FileList[r]) THEN FileList[r][NextIndex(r) + 1]
                                       ELSE NoName

Init ==
    /\ readQueue = <<>> /\ terminated = FALSE /\ registered = {}
    /\ bufferIndex = [r \in Readers |-> 0]
    /\ notified = [r \in Readers |-> FALSE]
    /\ nextBlockSize = [r \in Readers |-> 0]
    /\ deleted = [r \in Readers |-> FALSE]
    /\ firstBlock = [r \in Readers |-> TRUE]
    /\ lastBlock = [r \in Readers |-> FALSE]
    /\ eof = [r \in Readers |-> FALSE]
    /\ atQueue = [r \in Readers |-> 0]
    /\ itr = [r \in Readers |-> NoItr]
    /\ streamName = [r \in Readers |-> NoName]
    /\ blockSize = [r \in Readers |-> BlockSize]
    /\ filePos = [r \in Readers |-> 0]
    /\ nextBlock = [r \in Readers |-> [b \in 0..1 |-> Junk]]
    /\ tpc = "none" /\ tid = StopId /\ tbuf = 0 /\ tbytes = 0
    /\ cpc = "idle" /\ cid = StopId /\ ccnt = 0 /\ crez = "ok"
    /\ opened = {}
    /\ held = [r \in Readers |-> NoBuf]
    /\ lastRez = [r \in Readers |-> "ok"]
    /\ lastFirst = [r \in Readers |-> FALSE]
    /\ pastEof = [r \in Readers |-> 0]
    /\ detecting = DetectReaders
    /\ delivered = [r \in Readers |-> <<>>]
    /\ base = [r \in Readers |-> 0]

-----------------------------------------------------------------------------
(* The thread: BufferedReader::thread_main.                                *)

\* m_readQueue.pop() and the test of m_terminated behind it.
ThreadPop ==
    /\ tpc = "pop" /\ readQueue # <<>>
    /\ readQueue' = Tail(readQueue)
    /\ tid' = Head(readQueue)
    /\ tpc' = IF terminated THEN "done" ELSE "get"
    /\ UNCHANGED <<terminated, registered, atQueue, deleted, handVars,
                   streamVars, nextBlock, tbuf, tbytes, callVars, clientVars>>

\* getReader, then the reads of m_bufferIndex and m_deleted.
ThreadGet ==
    /\ tpc = "get"
    /\ IF tid \notin registered
       THEN /\ tpc' = "loop" /\ UNCHANGED tbuf
       ELSE /\ tbuf' = bufferIndex[tid]
            /\ tpc' = IF deleted[tid] THEN "release" ELSE "read"
    /\ UNCHANGED <<queueVars, handVars, streamVars, nextBlock, tid, tbytes,
                   callVars, clientVars>>

\* data->readBlock(buffer, n): the file offset moves by what was read.
ReadInto(n) ==
    LET count == ReadCount(streamName[tid], filePos[tid], n)
    IN  /\ tbytes' = count
        /\ filePos' = [filePos EXCEPT ![tid] = IF count > 0 THEN @ + count ELSE @]
        /\ nextBlock' = [nextBlock EXCEPT ![tid][tbuf] =
                [i \in 1..BlockSize |->
                    IF i <= count THEN <<streamName[tid], filePos[tid] + i>>
                                  ELSE @[i]]]

ThreadRead ==
    /\ tpc = "read" /\ tpc' = "switch"
    /\ ReadInto(blockSize[tid])
    /\ UNCHANGED <<queueVars, handVars, firstBlock, lastBlock, itr, streamName,
                   blockSize, tid, tbuf, callVars, clientVars>>

\* The block ends a file: the read failed, returned nothing, or, in a stream
\* joined from several files, returned less than was asked for.
AtFileEnd ==
    tbytes <= 0 \/ (tbytes < blockSize[tid] /\ itr[tid] # NoItr)

\* m_firstBlock once a block was read: it starts a file iff the one before it
\* was the last of its file.
FirstAfterRead == lastBlock[tid]

\* To the publication of the block, with m_eof set when finished holds.
GoPublish(finished) ==
    /\ tpc' = "publish"
    /\ eof' = [eof EXCEPT ![tid] = @ \/ finished]
    /\ blockSize' = [blockSize EXCEPT ![tid] = BlockSize]

\* No switch: inside a file, at the end of a lone file, or at the end of the
\* list when getNextName repeats the current (empty) name.
ThreadStay ==
    /\ tpc = "switch"
    /\ firstBlock' = [firstBlock EXCEPT ![tid] = FirstAfterRead]
    /\ lastBlock' = [lastBlock EXCEPT ![tid] = FALSE]
    /\ IF AtFileEnd /\ itr[tid] # NoItr
       THEN /\ NextName(tid) = streamName[tid]
            /\ itr' = [itr EXCEPT ![tid] = NextIndex(tid)]
            /\ GoPublish(tbytes = 0)
       ELSE /\ UNCHANGED itr
            /\ GoPublish(AtFileEnd)
    /\ UNCHANGED <<queueVars, bufferIndex, notified, nextBlockSize, streamName,
                   filePos, nextBlock, tid, tbuf, tbytes, callVars, clientVars>>

\* closeStream, the next name, and openStream when there is one.
ThreadSwitch ==
    LET next == NextName(tid)
        opens == next # NoName /\ next \notin Unopenable
    IN  /\ tpc = "switch" /\ AtFileEnd /\ itr[tid] # NoItr
        /\ next # streamName[tid]
        /\ itr' = [itr EXCEPT ![tid] = NextIndex(tid)]
        /\ streamName' = [streamName EXCEPT ![tid] = next]
        /\ filePos' = [filePos EXCEPT ![tid] = 0]
        /\ IF opens /\ tbytes = 0
           THEN /\ tpc' = "readNext"
                /\ firstBlock' = [firstBlock EXCEPT ![tid] = TRUE]
                /\ lastBlock' = [lastBlock EXCEPT ![tid] = FALSE]
                /\ UNCHANGED <<eof, blockSize>>
           ELSE /\ firstBlock' = [firstBlock EXCEPT ![tid] = FirstAfterRead]
                /\ lastBlock' = [lastBlock EXCEPT ![tid] = opens]
                /\ GoPublish(~opens)
        /\ UNCHANGED <<queueVars, bufferIndex, notified, nextBlockSize,
                       nextBlock, tid, tbuf, tbytes, callVars, clientVars>>

\* Mutant: off by one.
Short_OrFull(n) == n <= BlockSize
Short(n) == n < BlockSize

\* The read that replaces an empty last block by the first of the next file.
ThreadReadNext ==
    /\ tpc = "readNext" /\ tpc' = "publish"
    /\ ReadInto(BlockSize)
    /\ blockSize' = [blockSize EXCEPT ![tid] = BlockSize]
    /\ eof' = [eof EXCEPT ![tid] = @ \/ Short(tbytes')]
    /\ lastBlock' = [lastBlock EXCEPT ![tid] = @ \/ Short(tbytes')]
    /\ UNCHANGED <<queueVars, bufferIndex, notified, nextBlockSize, firstBlock,
                   itr, streamName, tid, tbuf, callVars, clientVars>>

\* m_nextBlockSize and notify_one under m_readMtx.
ThreadPublish ==
    /\ tpc = "publish" /\ tpc' = "release"
    /\ nextBlockSize' = [nextBlockSize EXCEPT ![tid] = tbytes]
    /\ UNCHANGED <<queueVars, bufferIndex, notified, eof, streamVars,
                   nextBlock, tid, tbuf, tbytes, callVars, clientVars>>

\* Mutant: the count is tested before it is decremented.
ServedLast_Early(r) == deleted[r] /\ atQueue[r] = 0
ServedLast(r) == deleted[r] /\ atQueue[r] = 1

\* m_atQueue-- and the deferred deletion under m_readersMtx.
ThreadRelease ==
    /\ tpc = "release" /\ tpc' = "loop"
    /\ atQueue' = [atQueue EXCEPT ![tid] = @ - 1]
    /\ registered' = IF ServedLast(tid)
                     THEN registered \ {tid} ELSE registered
    /\ UNCHANGED <<readQueue, terminated, deleted, handVars, streamVars,
                   nextBlock, tid, tbuf, tbytes, callVars, clientVars>>

\* while (!m_terminated)
ThreadLoop ==
    /\ tpc = "loop"
    /\ tpc' = IF terminated THEN "done" ELSE "pop"
    /\ UNCHANGED <<queueVars, handVars, streamVars, nextBlock, tid, tbuf,
                   tbytes, callVars, clientVars>>

Thread == \/ ThreadPop \/ ThreadGet \/ ThreadRead \/ ThreadStay
          \/ ThreadSwitch \/ ThreadReadNext \/ ThreadPublish
          \/ ThreadRelease \/ ThreadLoop

-----------------------------------------------------------------------------
(* The caller: the muxing thread, in the calls it makes on the readers.    *)

\* m_readQueue.push: refused when the queue is full, and the refusal ignored.
Push(id) == readQueue' = IF Len(readQueue) < QueueMaxSize
                         THEN Append(readQueue, id) ELSE readQueue

\* Mutant: the request is not counted.
Request_Uncounted(r) ==
    /\ notified' = [notified EXCEPT ![r] = TRUE]
    /\ Push(r) /\ UNCHANGED atQueue

\* The three statements readBlock and notify share.
Request(r) ==
    /\ notified' = [notified EXCEPT ![r] = TRUE]
    /\ atQueue' = [atQueue EXCEPT ![r] = @ + 1]
    /\ Push(r)

\* createReader; the first one starts the thread.  Identifiers are not reused.
CreateReader(r) ==
    /\ cpc = "idle" /\ r \notin opened /\ r \notin registered
    /\ registered' = registered \cup {r}
    /\ tpc' = IF tpc = "none" THEN "loop" ELSE tpc
    /\ UNCHANGED <<readQueue, terminated, atQueue, deleted, handVars,
                   streamVars, nextBlock, tid, tbuf, tbytes, callVars,
                   clientVars>>

\* BufferedFileReader::openStream on the first file, and setFileIterator when
\* the stream has more than one: both before the first readBlock.
OpenStream(r) ==
    /\ cpc = "idle" /\ r \in registered \ opened
    /\ FileList[r][1] \notin Unopenable
    /\ opened' = opened \cup {r}
    /\ firstBlock' = [firstBlock EXCEPT ![r] = TRUE]
    /\ lastBlock' = [lastBlock EXCEPT ![r] = FALSE]
    /\ streamName' = [streamName EXCEPT ![r] = FileList[r][1]]
    /\ filePos' = [filePos EXCEPT ![r] = 0]
    /\ itr' = [itr EXCEPT ![r] = IF Len(FileList[r]) > 1 THEN 0 ELSE NoItr]
    /\ UNCHANGED <<queueVars, handVars, blockSize, nextBlock, threadVars,
                   callVars, held, lastRez, lastFirst, pastEof, detecting,
                   delivered, base>>

Reading(r) == cpc = "idle" /\ r \in opened \cap registered /\ ~deleted[r]

NeedsRequest(r) == nextBlockSize[r] = 0 /\ ~notified[r]

\* readBlock up to the release of m_readersMtx: ask for a block when none is
\* ready and none was asked for.  The block held so far is given up.
ReadRequest(r) ==
    /\ Reading(r)
    /\ lastRez[r] = "eof" => pastEof[r] < MaxPastEof
    /\ pastEof' = [pastEof EXCEPT ![r] = IF lastRez[r] = "eof"
                                         THEN @ + 1 ELSE @]
    /\ cpc' = "wait" /\ cid' = r
    /\ held' = [held EXCEPT ![r] = NoBuf]
    /\ IF NeedsRequest(r)
       THEN Request(r)
       ELSE UNCHANGED <<notified, atQueue, readQueue>>
    /\ UNCHANGED <<terminated, registered, deleted, bufferIndex, nextBlockSize,
                   eof, streamVars, nextBlock, threadVars, ccnt, crez, opened,
                   lastRez, lastFirst, detecting, delivered, base>>

\* The wait on m_readCond: it ends once a size is published or m_eof is set.
ReadWait ==
    /\ cpc = "wait" /\ cpc' = "take"
    /\ nextBlockSize[cid] # 0 \/ eof[cid]
    /\ UNCHANGED <<queueVars, handVars, streamVars, nextBlock, threadVars,
                   cid, ccnt, crez, clientVars>>

\* readCnt and rez.
ReadTake ==
    /\ cpc = "take" /\ cpc' = "reset"
    /\ ccnt' = IF nextBlockSize[cid] >= 0 THEN nextBlockSize[cid] ELSE 0
    /\ crez' = IF eof[cid] THEN "eof" ELSE "ok"
    /\ UNCHANGED <<queueVars, handVars, streamVars, nextBlock, threadVars,
                   cid, clientVars>>

\* Mutants: the index is not flipped; it is counted up.
OtherBuffer_Same(b) == b
OtherBuffer_Next(b) == b + 1
OtherBuffer(b) == 1 - b

\* The rest of readBlock: the buffers change places and the caller returns
\* with the one the thread filled.
ReadReset ==
    LET b == bufferIndex[cid]
    IN  /\ cpc = "reset" /\ cpc' = "idle"
        /\ bufferIndex' = [bufferIndex EXCEPT ![cid] = OtherBuffer(b)]
        /\ nextBlockSize' = [nextBlockSize EXCEPT ![cid] = 0]
        /\ notified' = [notified EXCEPT ![cid] = FALSE]
        /\ held' = [held EXCEPT ![cid] = IF ccnt > 0 THEN b ELSE NoBuf]
        /\ lastRez' = [lastRez EXCEPT ![cid] = crez]
        /\ lastFirst' = [lastFirst EXCEPT ![cid] = firstBlock[cid]]
        /\ delivered' = [delivered EXCEPT ![cid] =
                            @ \o SubSeq(nextBlock[cid][b], 1, ccnt)]
        /\ UNCHANGED <<queueVars, eof, streamVars, nextBlock, threadVars, cid,
                       ccnt, crez, opened, pastEof, detecting, base>>

MayNotify(r) == ~notified[r]

\* notify with at least m_prereadThreshold bytes handled (a smaller count does
\* nothing): the next block is read while the caller parses the one it holds.
\* Stream readers also call it before their first readBlock.
Notify(r) ==
    /\ Reading(r) /\ r \notin detecting /\ MayNotify(r)
    /\ held[r] # NoBuf \/ (delivered[r] = <<>> /\ lastRez[r] # "eof")
    /\ Request(r)
    /\ UNCHANGED <<terminated, registered, deleted, bufferIndex, nextBlockSize,
                   eof, streamVars, nextBlock, threadVars, callVars,
                   clientVars>>

\* TSDemuxer::getTrackList ends with incSeek(-totalReadedBytes): back to the
\* start of the file.  Until then the demuxer reads without notify.
IncSeek(r) ==
    /\ Reading(r) /\ r \in detecting /\ itr[r] = NoItr
    /\ detecting' = detecting \ {r}
    /\ filePos' = [filePos EXCEPT ![r] = @ - Len(delivered[r])]
    /\ eof' = [eof EXCEPT ![r] = FALSE]
    /\ notified' = [notified EXCEPT ![r] = FALSE]
    /\ held' = [held EXCEPT ![r] = NoBuf]
    /\ lastRez' = [lastRez EXCEPT ![r] = "ok"]
    /\ delivered' = [delivered EXCEPT ![r] = <<>>]
    /\ UNCHANGED <<queueVars, bufferIndex, nextBlockSize, firstBlock,
                   lastBlock, itr, streamName, blockSize, nextBlock,
                   threadVars, callVars, opened, lastFirst, pastEof, base>>

\* Mutant: the blocks are no longer aligned after a seek.
FirstSizeAt_Full(p) == BlockSize
FirstSizeAt(p) == BlockSize - (p % BlockSize)

\* IOContextDemuxer::url_fseek, which is gotoByte: the offset moves and the
\* next block is cut short so that the ones behind it are aligned again.  A
\* block read ahead, or being read, stays what it is.
GotoByte(r, p) ==
    /\ Reading(r) /\ r \notin detecting /\ itr[r] = NoItr
    /\ GotoAnyTime \/ (atQueue[r] = 0 /\ nextBlockSize[r] = 0)
    /\ base[r] # p
    /\ blockSize' = [blockSize EXCEPT ![r] = FirstSizeAt(p)]
    /\ filePos' = [filePos EXCEPT ![r] = p]
    /\ eof' = [eof EXCEPT ![r] = FALSE]
    /\ notified' = [notified EXCEPT ![r] = FALSE]
    /\ held' = [held EXCEPT ![r] = NoBuf]
    /\ lastRez' = [lastRez EXCEPT ![r] = "ok"]
    /\ delivered' = [delivered EXCEPT ![r] = <<>>]
    /\ base' = [base EXCEPT ![r] = p]
    /\ UNCHANGED <<queueVars, bufferIndex, nextBlockSize, firstBlock,
                   lastBlock, itr, streamName, nextBlock, threadVars,
                   callVars, opened, lastFirst, pastEof, detecting>>

\* Mutant: the reader is freed whatever is outstanding.
Outstanding_Ignored(r) == FALSE
Outstanding(r) == atQueue[r] > 0

\* deleteReader: at once when no request is outstanding, else left to the
\* thread.
DeleteReader(r) ==
    /\ cpc = "idle" /\ r \in registered /\ ~deleted[r]
    /\ opened' = opened \cup {r}
    /\ held' = [held EXCEPT ![r] = NoBuf]
    /\ IF Outstanding(r)
       THEN /\ deleted' = [deleted EXCEPT ![r] = TRUE]
            /\ UNCHANGED registered
       ELSE /\ registered' = registered \ {r}
            /\ UNCHANGED deleted
    /\ UNCHANGED <<readQueue, terminated, atQueue, handVars, streamVars,
                   nextBlock, threadVars, callVars, lastRez, lastFirst,
                   pastEof, detecting, delivered, base>>

\* The destructor: terminate(), the wake-up push, join(), then every reader
\* left in the map is freed.
Terminate ==
    /\ cpc = "idle" /\ cpc' = "ending"
    /\ terminated' = TRUE
    /\ UNCHANGED <<readQueue, registered, atQueue, deleted, handVars,
                   streamVars, nextBlock, threadVars, cid, ccnt, crez,
                   clientVars>>

\* Mutant: the thread is not woken.
WakeThread_Not == UNCHANGED readQueue
WakeThread == Push(StopId)

PushStop ==
    /\ cpc = "ending" /\ cpc' = "join"
    /\ WakeThread
    /\ UNCHANGED <<terminated, registered, atQueue, deleted, handVars,
                   streamVars, nextBlock, threadVars, cid, ccnt, crez,
                   clientVars>>

Join ==
    /\ cpc = "join" /\ cpc' = "end"
    /\ tpc \in {"none", "done"}
    /\ registered' = {}
    /\ UNCHANGED <<readQueue, terminated, atQueue, deleted, handVars,
                   streamVars, nextBlock, threadVars, cid, ccnt, crez,
                   clientVars>>

ReadReturn == ReadWait \/ ReadTake \/ ReadReset
End == PushStop \/ Join

Caller ==
    \/ \E r \in Readers :
        \/ CreateReader(r) \/ OpenStream(r) \/ ReadRequest(r) \/ Notify(r)
        \/ IncSeek(r) \/ DeleteReader(r)
        \/ \E p \in GotoTargets : GotoByte(r, p)
    \/ ReadReturn \/ Terminate \/ End

Next == Thread \/ Caller

\* Both threads are scheduled by the operating system; what the caller does
\* next between two calls is its own choice.
Spec == /\ Init /\ [][Next]_vars
        /\ WF_vars(Thread) /\ WF_vars(ReadReturn) /\ WF_vars(End)

-----------------------------------------------------------------------------
(* What must hold.                                                         *)

ThreadPcs == {"none", "loop", "pop", "get", "read", "switch", "readNext",
              "publish", "release", "done"}
CallerPcs == {"idle", "wait", "take", "reset", "ending", "join", "end"}

QueueType ==
    /\ readQueue \in Seq(Readers \cup {StopId}) /\ terminated \in BOOLEAN
    /\ registered \subseteq Readers /\ atQueue \in [Readers -> Nat]
    /\ deleted \in [Readers -> BOOLEAN]
HandType ==
    /\ bufferIndex \in [Readers -> 0..1] /\ notified \in [Readers -> BOOLEAN]
    /\ nextBlockSize \in [Readers -> -1..BlockSize]
    /\ eof \in [Readers -> BOOLEAN]
StreamType ==
    /\ firstBlock \in [Readers -> BOOLEAN] /\ lastBlock \in [Readers -> BOOLEAN]
    /\ itr \in [Readers -> {NoItr} \cup Nat]
    /\ streamName \in [Readers -> Names \cup {NoName}]
    /\ blockSize \in [Readers -> 1..BlockSize]
    /\ filePos \in [Readers -> Int]     \* Int: incSeek is a relative seek
ThreadType ==
    /\ tpc \in ThreadPcs /\ tid \in Readers \cup {StopId} /\ tbuf \in 0..1
    /\ tbytes \in -1..BlockSize
CallType ==
    /\ cpc \in CallerPcs /\ cid \in Readers \cup {StopId}
    /\ ccnt \in 0..BlockSize /\ crez \in {"ok", "eof"}
ClientType ==
    /\ opened \subseteq Readers /\ held \in [Readers -> 0..NoBuf]
    /\ lastRez \in [Readers -> {"ok", "eof"}]
    /\ lastFirst \in [Readers -> BOOLEAN] /\ pastEof \in [Readers -> Nat]
    /\ detecting \subseteq Readers /\ base \in [Readers -> Nat]

Unit == (Names \cup {NoName}) \X Int
DataType ==
    /\ nextBlock \in [Readers -> [0..1 -> [1..BlockSize -> Unit]]]
    /\ delivered \in [Readers -> Seq(Unit)]

\* Every field keeps its type; a published size is at most a block.
TypeOK == /\ QueueType /\ HandType /\ StreamType
          /\ ThreadType /\ CallType /\ ClientType /\ DataType

Serving == {"get", "read", "switch", "readNext", "publish", "release"}
Occurrences(s, e) == {i \in 1..Len(s) : s[i] = e}
Queued(r) == Cardinality(Occurrences(readQueue, r))
InService(r) == IF tpc \in Serving /\ tid = r THEN 1 ELSE 0

\* m_atQueue is exactly the number of requests queued or being served, which
\* is what deleteReader relies on to leave the freeing to the thread, until the
\* destructor stops it; and a reader has at most one request in the queue, so the
\* queue never refuses one (push's result is ignored, and the caller would wait
\* forever).
QueueAccounting ==
    \A r \in Readers :
        /\ ~terminated => atQueue[r] = Queued(r) + InService(r)
        /\ Queued(r) <= 1

\* The thread never looks up, fills or publishes a reader that was freed, and
\* no freed reader is left in the queue.
NoUseAfterFree ==
    cpc # "end" =>
        /\ tpc \in Serving => tid \in registered
        /\ \A i \in 1..Len(readQueue) :
               readQueue[i] # StopId => readQueue[i] \in registered

\* The thread does not read into the block the caller still parses, nor over a
\* block it published and the caller has not taken.
BuffersDisjoint ==
    tpc \in {"read", "readNext"} /\ ~deleted[tid] =>
        held[tid] # tbuf /\ nextBlockSize[tid] <= 0

\* What the caller got is, in order and without a gap, the start of its
\* stream, from the position it last moved to.
DeliveredInOrder ==
    \A r \in Readers :
        IsPrefix(delivered[r],
                 SubSeq(Joined(r), base[r] + 1, Len(Joined(r))))

\* DATA_EOF comes with the end of the whole stream and not before.
EofIsTheEnd ==
    \A r \in Readers :
        lastRez[r] = "eof" => base[r] + Len(delivered[r]) >= Len(Joined(r))

\* In a joined stream DATA_EOF is not returned while the list of files still
\* holds one that was not opened (a weaker promise than EofIsTheEnd).
EofAfterLastFile ==
    \A r \in Readers :
        lastRez[r] = "eof" /\ itr[r] # NoItr => itr[r] >= Len(FileList[r])

\* firstBlockVar is set on exactly the blocks that begin the second or a later
\* file of the list: TSDemuxer shifts its time stamps on it.
FirstBlockFlag ==
    \A r \in Readers :
        held[r] # NoBuf => LET u == nextBlock[r][held[r]][1] IN
            lastFirst[r] <=> (u[2] = 1 /\ u[1] # FileList[r][1])

\* Both promises to the reader of a list of files.
JoinedFiles == EofAfterLastFile /\ FirstBlockFlag

\* To the caller the reader of one file is a BlockStream.
OfOneFile == {r \in Readers : Len(FileList[r]) = 1}
Blocks == INSTANCE BlockStream WITH
    Readers <- OfOneFile,
    Size  <- [r \in OfOneFile |-> Len(Joined(r))],
    from  <- [r \in OfOneFile |-> base[r]],
    got   <- [r \in OfOneFile |-> Len(delivered[r])],
    ended <- [r \in OfOneFile |-> lastRez[r] = "eof"]
IsBlockStream == Blocks!Spec


\* A reader deleted while a request was outstanding is freed in the end.
DeletedIsFreed ==
    \A r \in Readers : (deleted[r] ~> r \notin registered)

\* A call of readBlock returns, and so does the destructor: the thread sees the
\* flag or the wake-up request.
CallsReturn == /\ cpc = "wait" ~> cpc = "idle"
               /\ cpc = "ending" ~> cpc = "end"

=============================================================================
