------------------------ MODULE BufferedFileWriter ------------------------
(***************************************************************************)
(* The write-behind of tsMuxer (tsMuxer/bufferedFileWriter.cpp, .h): the   *)
(* muxing thread (the "caller") pushes finished blocks on a bounded queue  *)
(* and one thread writes them.  The back-pressure and the wait for an      *)
(* empty queue are the caller's own loops in MuxerManager                  *)
(* (asyncWriteBlock, waitForWriting), the only users of the class.         *)
(*                                                                         *)
(* The queue has its own lock, so push, peek, pop, size and empty are one  *)
(* step each; everything between two of them can interleave.               *)
(***************************************************************************)
EXTENDS Integers, Sequences

CONSTANTS
    Files,          \* output streams
    Blocks,         \* what can be written: records with a field "file"
    Stop,           \* the command wdNone of the destructor
    Outcomes,       \* what File::write may come to: "ok", "short" (fewer
                    \* bytes or -1, which execute ignores), "throws"
    QueueMaxSize,   \* WRITE_QUEUE_MAX_SIZE
    MaxQueueSize,   \* nMaxWriteQueueSize of asyncWriteBlock
    MaxBlocks       \* bound on the blocks handed over

ASSUME WriterAssumption ==
    /\ Stop \notin Blocks /\ \A b \in Blocks : b.file \in Files
    /\ Outcomes \subseteq {"ok", "short", "throws"} /\ "ok" \in Outcomes
    /\ MaxQueueSize \in Nat /\ QueueMaxSize \in Nat
    /\ MaxQueueSize + 2 <= QueueMaxSize
    /\ MaxBlocks \in Nat

VARIABLES
    queue, terminated, lastErrorCode,   \* the fields of the class
    tpc, tcmd,                          \* the thread, its writerData
    cpc, cblock,                        \* the caller, its block
    accepted, done, contents            \* history: what OrderedWriter shows

fieldVars == <<queue, terminated, lastErrorCode>>
threadVars == <<tpc, tcmd>>
callerVars == <<cpc, cblock>>
writeVars == <<done, contents>>
vars == <<fieldVars, threadVars, callerVars, accepted, writeVars>>

Init == /\ queue = <<>> /\ terminated = FALSE /\ lastErrorCode = 0
        /\ tpc = "test" /\ tcmd = Stop
        /\ cpc = "idle" /\ cblock = Stop
        /\ accepted = <<>> /\ done = 0
        /\ contents = [f \in Files |-> <<>>]

-----------------------------------------------------------------------------
(* SafeQueue and WriterData.                                               *)

\* SafeQueue::push: refuses what does not fit; the caller ignores the result.
Push(cmd) == queue' = IF Len(queue) < QueueMaxSize THEN Append(queue, cmd)
                                                   ELSE queue

\* WriterData::execute with the outcome o of the write.
Execute(cmd, o) ==
    IF cmd = Stop THEN o = "ok" /\ UNCHANGED writeVars
    ELSE /\ done' = done + 1
         /\ contents' = IF o # "ok" THEN contents
                        ELSE [contents EXCEPT ![cmd.file] = Append(@, cmd)]

-----------------------------------------------------------------------------
(* The thread: BufferedFileWriter::thread_main.                            *)

ThreadTest == /\ tpc = "test"
              /\ tpc' = IF terminated THEN "done" ELSE "peek"
              /\ UNCHANGED <<fieldVars, tcmd, callerVars, accepted, writeVars>>

\* Mutant: the command is taken off the queue before it is carried out.
ThreadPeek_Takes == /\ tpc = "peek" /\ queue # <<>>
                    /\ tcmd' = Head(queue) /\ tpc' = "execute"
                    /\ queue' = Tail(queue)
                    /\ UNCHANGED <<terminated, lastErrorCode, callerVars,
                                   accepted, writeVars>>

ThreadPeek == /\ tpc = "peek" /\ queue # <<>>
              /\ tcmd' = Head(queue) /\ tpc' = "execute"
              /\ UNCHANGED <<fieldVars, callerVars, accepted, writeVars>>

ThreadExecute == /\ tpc = "execute"
                 /\ \E o \in Outcomes :
                      /\ Execute(tcmd, o)
                      /\ lastErrorCode' = IF o = "throws" THEN -1
                                                          ELSE lastErrorCode
                 /\ tpc' = "pop"
                 /\ UNCHANGED <<queue, terminated, tcmd, callerVars, accepted>>

\* Mutant: an error ends the loop without the block being popped.
ThreadPop_StopsOnError ==
    /\ tpc = "pop" /\ queue # <<>>
    /\ IF lastErrorCode = 0 THEN queue' = Tail(queue) /\ tpc' = "test"
                            ELSE tpc' = "done" /\ UNCHANGED queue
    /\ UNCHANGED <<terminated, lastErrorCode, tcmd, callerVars, accepted,
                   writeVars>>

ThreadPop == /\ tpc = "pop" /\ queue # <<>>
             /\ queue' = Tail(queue) /\ tpc' = "test"
             /\ UNCHANGED <<terminated, lastErrorCode, tcmd, callerVars,
                            accepted, writeVars>>

Thread == ThreadTest \/ ThreadPeek \/ ThreadExecute \/ ThreadPop

-----------------------------------------------------------------------------
(* The caller.                                                             *)

\* Mutant: the block is queued without its fields being set.
Submit_Unset(b) == /\ cpc = "idle" /\ Len(accepted) < MaxBlocks
                   /\ cpc' = "add"
                   /\ UNCHANGED <<fieldVars, threadVars, cblock, accepted,
                                  writeVars>>

\* MuxerManager::asyncWriteBlock is called with block b.
Submit(b) == /\ cpc = "idle" /\ Len(accepted) < MaxBlocks
             /\ cblock' = b /\ cpc' = "add"
             /\ UNCHANGED <<fieldVars, threadVars, accepted, writeVars>>

\* Mutant: the queue's length is not waited for.
AddWriterData_Unchecked == /\ cpc = "add" /\ lastErrorCode = 0
                           /\ Push(cblock)
                           /\ accepted' = Append(accepted, cblock)
                           /\ cpc' = "idle"
                           /\ UNCHANGED <<terminated, lastErrorCode,
                                          threadVars, cblock, writeVars>>

\* Its loop ends once the queue is short enough; then addWriterData.
AddWriterData == /\ cpc = "add" /\ Len(queue) <= MaxQueueSize
                 /\ lastErrorCode = 0
                 /\ Push(cblock)
                 /\ accepted' = Append(accepted, cblock)
                 /\ cpc' = "idle"
                 /\ UNCHANGED <<terminated, lastErrorCode, threadVars, cblock,
                                writeVars>>

\* addWriterData throws: doMux is left and the destructors run.
AddThrows == /\ cpc = "add" /\ Len(queue) <= MaxQueueSize
             /\ lastErrorCode # 0
             /\ cpc' = "flag"
             /\ UNCHANGED <<fieldVars, threadVars, cblock, accepted, writeVars>>

\* MuxerManager::waitForWriting: polls isQueueEmpty.
StartWaiting == /\ cpc = "idle" /\ cpc' = "wait"
                /\ UNCHANGED <<fieldVars, threadVars, cblock, accepted,
                               writeVars>>
WaitEnds == /\ cpc = "wait" /\ queue = <<>> /\ cpc' = "idle"
            /\ UNCHANGED <<fieldVars, threadVars, cblock, accepted, writeVars>>

\* ~BufferedFileWriter: terminate() ...
Destroy == /\ cpc = "idle" /\ cpc' = "flag"
           /\ UNCHANGED <<fieldVars, threadVars, cblock, accepted, writeVars>>
SetTerminated == /\ cpc = "flag" /\ terminated' = TRUE /\ cpc' = "push"
                 /\ UNCHANGED <<queue, lastErrorCode, threadVars, cblock,
                                accepted, writeVars>>
\* Mutant: terminate only sets the flag and joins.
PushStop_Missing == /\ cpc = "push" /\ cpc' = "join"
                    /\ UNCHANGED <<fieldVars, threadVars, cblock, accepted,
                                   writeVars>>

PushStop == /\ cpc = "push" /\ Push(Stop) /\ cpc' = "join"
            /\ UNCHANGED <<terminated, lastErrorCode, threadVars, cblock,
                           accepted, writeVars>>
Join == /\ cpc = "join" /\ tpc = "done" /\ cpc' = "drain"
        /\ UNCHANGED <<fieldVars, threadVars, cblock, accepted, writeVars>>
\* ... then what the thread left is written; a throw here ends the program.
Drain == /\ cpc = "drain" /\ queue # <<>>
         /\ queue' = Tail(queue)
         /\ \E o \in Outcomes :
              /\ Execute(Head(queue), o)
              /\ cpc' = IF o = "throws" THEN "aborted" ELSE "drain"
         /\ UNCHANGED <<terminated, lastErrorCode, threadVars, cblock, accepted>>
\* Mutant: the destructor does not write what the thread left.
DrainEnds_AtOnce == /\ cpc = "drain" /\ cpc' = "gone"
                    /\ UNCHANGED <<fieldVars, threadVars, cblock, accepted,
                                   writeVars>>

DrainEnds == /\ cpc = "drain" /\ queue = <<>> /\ cpc' = "gone"
             /\ UNCHANGED <<fieldVars, threadVars, cblock, accepted, writeVars>>

\* What the caller does without being asked: the rest follows.
CallerChoice == StartWaiting \/ Destroy \/ \E b \in Blocks : Submit(b)
CallerGoesOn == \/ AddWriterData \/ AddThrows \/ WaitEnds
                \/ SetTerminated \/ PushStop \/ Join \/ Drain \/ DrainEnds

Next == Thread \/ CallerChoice \/ CallerGoesOn

\* The thread runs, and a call that can go on does; the caller need not call.
Spec == Init /\ [][Next]_vars /\ WF_vars(Thread) /\ WF_vars(CallerGoesOn)
-----------------------------------------------------------------------------
(* Properties.                                                             *)

TypeOK ==
    /\ queue \in Seq(Blocks \cup {Stop}) /\ terminated \in BOOLEAN
    /\ lastErrorCode \in {0, -1}
    /\ tpc \in {"test", "peek", "execute", "pop", "done"}
    /\ tcmd \in Blocks \cup {Stop}
    /\ cpc \in {"idle", "add", "wait", "flag", "push", "join", "drain",
                "gone", "aborted"}
    /\ cblock \in Blocks \cup {Stop} /\ (cpc = "add" => cblock # Stop)
    /\ accepted \in Seq(Blocks) /\ done \in Nat
    /\ contents \in [Files -> Seq(Blocks)]

\* An empty queue means that no block is left and none is being written: what
\* waitForWriting relies on before a file is closed, renamed or measured.
EmptyMeansWritten == queue = <<>> => done = Len(accepted)

\* The queue never gets so long that push refuses a block or the stop command,
\* whose results addWriterData's caller and terminate ignore.
QueueBound == Len(queue) <= MaxQueueSize + 2

\* The writer writes every block it was given once, in order, whichever of the
\* two threads does it, and leaves none: it implements OrderedWriter.
Abstract == INSTANCE OrderedWriter WITH over <- cpc \in {"gone", "aborted"}
IsOrderedWriter == Abstract!SafeSpec

\* Every block handed over is written or fails in the end, even if the caller
\* makes no further call.
EventuallyWritten == \A n \in 1..MaxBlocks :
                        Len(accepted) >= n ~> done >= n \/ cpc = "aborted"

\* A caller goes on that waits for the queue to become empty, or short enough
\* for another block, and the destructor returns: the thread sees the flag or the
\* stop command.
CallsReturn == /\ cpc = "wait" ~> cpc # "wait"
               /\ cpc = "add" ~> cpc # "add"
               /\ cpc = "flag" ~> cpc \in {"gone", "aborted"}
=============================================================================
