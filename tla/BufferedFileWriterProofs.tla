--------------------- MODULE BufferedFileWriterProofs ---------------------
(***************************************************************************)
(* For every set of blocks, every limit and every outcome of the writes:   *)
(* the queue holds exactly what is not written yet, in order, so an empty  *)
(* queue means that everything is written, push never refuses, and the     *)
(* writer implements OrderedWriter.                                        *)
(***************************************************************************)
EXTENDS BufferedFileWriter, TLAPS

\* The block at the head of the queue is written but not yet popped.
Unpopped == IF tpc = "pop" /\ tcmd # Stop THEN 1 ELSE 0

\* How many stop commands are queued.
StopsQueued == IF queue # <<>> /\ queue[Len(queue)] = Stop THEN 1 ELSE 0

\* The queue is the blocks not yet written (and the one just written until it
\* is popped), in the order they were accepted, then perhaps the stop command.
QueueIsRest ==
    /\ done <= Len(accepted) /\ Unpopped <= done
    /\ Len(queue) = Len(accepted) - done + Unpopped
                    + StopsQueued
    /\ \A i \in 1..(Len(accepted) - done + Unpopped) :
         queue[i] = accepted[done - Unpopped + i]

\* What the thread works on is still at the head of the queue.
ThreadHolds == tpc \in {"execute", "pop"} => queue # <<>> /\ tcmd = Head(queue)

\* The stop command comes last, and the destructor goes on without the thread.
CallerPhases ==
    /\ StopsQueued = 1 => cpc \notin {"idle", "add", "wait", "flag", "push"}
    /\ cpc \in {"drain", "gone", "aborted"} => tpc = "done"
    /\ cpc = "gone" => queue = <<>>

BlocksBound == Len(queue) <= MaxQueueSize + 1 + StopsQueued

Bookkeeping == TypeOK /\ QueueIsRest /\ ThreadHolds /\ CallerPhases
               /\ BlocksBound

-----------------------------------------------------------------------------
LEMMA Counts == /\ StopsQueued \in {0, 1} /\ StopsQueued' \in {0, 1}
                /\ Unpopped \in {0, 1} /\ Unpopped' \in {0, 1}
BY DEF StopsQueued, Unpopped

\* What the conditions say of the head of the queue.
LEMMA HeadOfQueue ==
    ASSUME Bookkeeping, queue # <<>>
    PROVE  /\ Head(queue) = queue[1] /\ Head(queue) \in Blocks \cup {Stop}
           /\ Len(queue) \in Nat \ {0}
           /\ Head(queue) = Stop =>
                Len(queue) = 1 /\ StopsQueued = 1
                /\ Len(accepted) - done + Unpopped = 0
           /\ Head(queue) # Stop =>
                /\ Len(accepted) - done + Unpopped > 0
                /\ Head(queue) = accepted[done - Unpopped + 1]
<1>1. /\ queue \in Seq(Blocks \cup {Stop}) /\ accepted \in Seq(Blocks)
      /\ done \in Nat /\ Unpopped \in {0, 1} /\ Len(accepted) \in Nat
  BY DEF Bookkeeping, TypeOK, Unpopped
<1>2. /\ Head(queue) = queue[1] /\ Len(queue) \in Nat \ {0}
      /\ queue[1] \in Blocks \cup {Stop}
  BY <1>1
<1>3. CASE Len(accepted) - done + Unpopped > 0
  <2>1. queue[1] = accepted[done - Unpopped + 1]
    BY <1>1, <1>3 DEF Bookkeeping, QueueIsRest
  <2>2. done - Unpopped + 1 \in 1..Len(accepted)
    BY <1>1, <1>3 DEF Bookkeeping, QueueIsRest
  <2>3. queue[1] \in Blocks
    BY <1>1, <2>1, <2>2
  <2> QED BY <1>2, <1>3, <2>1, <2>3, WriterAssumption DEF WriterAssumption
<1>4. CASE ~(Len(accepted) - done + Unpopped > 0)
  <2>0. /\ Len(accepted) - done + Unpopped >= 0
        /\ Len(queue) = (Len(accepted) - done + Unpopped) + StopsQueued
    BY <1>1 DEF Bookkeeping, QueueIsRest
  <2>a. Len(accepted) - done + Unpopped = 0
    BY <1>1, <1>4, <2>0
  <2>b. Len(queue) = StopsQueued
    BY <2>0, <2>a, Counts
  <2>1. Len(queue) = 1 /\ StopsQueued = 1
    BY <1>2, <2>b, Counts
  <2>2. queue[1] = Stop
    BY <2>1 DEF StopsQueued
  <2> QED BY <1>2, <2>a, <2>1, <2>2
<1> QED BY <1>3, <1>4

LEMMA TestStep == ASSUME Bookkeeping, ThreadTest PROVE Bookkeeping'
<1> USE DEF ThreadTest, fieldVars, callerVars, writeVars
<1>1. TypeOK' BY DEF Bookkeeping, TypeOK
<1>2. Unpopped' = Unpopped /\ StopsQueued' = StopsQueued
  BY DEF Unpopped, StopsQueued
<1>3. QueueIsRest' BY <1>2 DEF Bookkeeping, QueueIsRest
<1>4. ThreadHolds' BY DEF ThreadHolds
<1>5. CallerPhases' BY <1>2 DEF Bookkeeping, CallerPhases
<1>6. BlocksBound' BY <1>2 DEF Bookkeeping, BlocksBound
<1> QED BY <1>1, <1>3, <1>4, <1>5, <1>6 DEF Bookkeeping

LEMMA PeekStep == ASSUME Bookkeeping, ThreadPeek PROVE Bookkeeping'
<1> USE DEF ThreadPeek, fieldVars, callerVars, writeVars
<1>1. TypeOK' BY HeadOfQueue DEF Bookkeeping, TypeOK
<1>2. Unpopped' = Unpopped /\ StopsQueued' = StopsQueued
  BY DEF Unpopped, StopsQueued
<1>3. QueueIsRest' BY <1>2 DEF Bookkeeping, QueueIsRest
<1>4. ThreadHolds' BY DEF ThreadHolds
<1>5. CallerPhases' BY <1>2 DEF Bookkeeping, CallerPhases
<1>6. BlocksBound' BY <1>2 DEF Bookkeeping, BlocksBound
<1> QED BY <1>1, <1>3, <1>4, <1>5, <1>6 DEF Bookkeeping

\* What writing a command changes.
LEMMA ExecuteType ==
    ASSUME Bookkeeping, NEW cmd \in Blocks \cup {Stop}, NEW o, Execute(cmd, o)
    PROVE  done' \in Nat /\ contents' \in [Files -> Seq(Blocks)]
<1>1. CASE cmd = Stop BY <1>1 DEF Execute, writeVars, Bookkeeping, TypeOK
<1>2. CASE cmd # Stop
  <2>1. cmd \in Blocks /\ cmd.file \in Files BY <1>2, WriterAssumption DEF WriterAssumption
  <2>2. done' = done + 1 BY <1>2 DEF Execute
  <2>3. CASE o # "ok"
    BY <1>2, <2>2, <2>3 DEF Execute, Bookkeeping, TypeOK
  <2>4. CASE o = "ok"
    <3>1. contents' = [contents EXCEPT ![cmd.file] = Append(@, cmd)]
      BY <1>2, <2>4 DEF Execute
    <3>2. contents[cmd.file] \in Seq(Blocks)
      BY <2>1 DEF Bookkeeping, TypeOK
    <3>3. Append(contents[cmd.file], cmd) \in Seq(Blocks)
      BY <2>1, <3>2
    <3>4. done \in Nat /\ contents \in [Files -> Seq(Blocks)]
      BY DEF Bookkeeping, TypeOK
    <3>5. contents' \in [Files -> Seq(Blocks)]
      BY <2>1, <3>1, <3>3, <3>4
    <3> QED BY <2>2, <3>4, <3>5
  <2> QED BY <2>3, <2>4
<1> QED BY <1>1, <1>2

LEMMA ExecuteStep == ASSUME Bookkeeping, ThreadExecute PROVE Bookkeeping'
<1>1. PICK o \in Outcomes : /\ Execute(tcmd, o)
                            /\ lastErrorCode' = IF o = "throws" THEN -1
                                                         ELSE lastErrorCode
  BY DEF ThreadExecute
<1>2. /\ tpc = "execute" /\ tpc' = "pop" /\ queue' = queue /\ tcmd' = tcmd
      /\ terminated' = terminated /\ cpc' = cpc /\ cblock' = cblock
      /\ accepted' = accepted
  BY DEF ThreadExecute, callerVars
<1>3. queue # <<>> /\ tcmd = Head(queue)
  BY <1>2 DEF Bookkeeping, ThreadHolds
<1>4. TypeOK'
  <2>1. tcmd \in Blocks \cup {Stop} BY DEF Bookkeeping, TypeOK
  <2>2. done' \in Nat /\ contents' \in [Files -> Seq(Blocks)]
    BY <1>1, <2>1, ExecuteType
  <2>3. lastErrorCode' \in {0, -1} BY <1>1 DEF Bookkeeping, TypeOK
  <2> QED BY <1>2, <2>2, <2>3 DEF Bookkeeping, TypeOK
<1>5. Unpopped = 0 /\ StopsQueued' = StopsQueued
      /\ \/ done' = done /\ Unpopped' = 0
         \/ done' = done + 1 /\ Unpopped' = 1
      /\ Unpopped' <= done' /\ done' <= Len(accepted)
  <2>1. Unpopped = 0 /\ StopsQueued' = StopsQueued
    BY <1>2 DEF Unpopped, StopsQueued
  <2>2. done \in Nat /\ Len(accepted) \in Nat /\ done <= Len(accepted)
    BY DEF Bookkeeping, TypeOK, QueueIsRest
  <2>3. CASE tcmd = Stop
    BY <1>1, <1>2, <2>1, <2>2, <2>3 DEF Execute, writeVars, Unpopped
  <2>4. CASE tcmd # Stop
    <3>1. done' = done + 1 /\ Unpopped' = 1
      BY <1>1, <1>2, <2>4 DEF Execute, Unpopped
    <3>2. Len(accepted) - done + Unpopped > 0
      BY <1>3, <2>4, HeadOfQueue
    <3> QED BY <2>1, <2>2, <3>1, <3>2
  <2> QED BY <2>3, <2>4
<1>6. QueueIsRest'
  <2>1. /\ done \in Nat /\ done' \in Nat /\ Unpopped' \in Int
        /\ Len(accepted) \in Nat /\ Unpopped \in Int
    BY <1>4, <1>5 DEF Bookkeeping, TypeOK, Unpopped
  <2>2. CASE Unpopped' = 0
    <3>1. done' = done /\ Unpopped' = Unpopped BY <1>5, <2>2
    <3> QED BY <1>2, <1>5, <3>1 DEF Bookkeeping, QueueIsRest
  <2>3. CASE Unpopped' = 1
    <3>1. done' = done + 1 BY <1>5, <2>3
    <3>2. Unpopped = 0 BY <1>5
    <3>3. /\ Len(accepted) - (done + 1) + 1 = Len(accepted) - done + 0
          /\ (done + 1) - 1 = done - 0
      BY <2>1
    <3>4. /\ Len(accepted') - done' + Unpopped' = Len(accepted) - done + Unpopped
          /\ done' - Unpopped' = done - Unpopped
      BY <1>2, <2>3, <3>1, <3>2, <3>3
    <3> QED BY <1>2, <1>5, <3>4 DEF Bookkeeping, QueueIsRest
  <2> QED BY <1>5, <2>2, <2>3
<1>7. ThreadHolds' BY <1>2, <1>3 DEF ThreadHolds
<1>8. CallerPhases' BY <1>2, <1>5 DEF Bookkeeping, CallerPhases
<1>9. BlocksBound' BY <1>2, <1>5 DEF Bookkeeping, BlocksBound
<1> QED BY <1>4, <1>6, <1>7, <1>8, <1>9 DEF Bookkeeping

LEMMA PopStep == ASSUME Bookkeeping, ThreadPop PROVE Bookkeeping'
<1>1. /\ tpc = "pop" /\ tpc' = "test" /\ queue # <<>> /\ queue' = Tail(queue)
      /\ tcmd' = tcmd /\ terminated' = terminated /\ cpc' = cpc
      /\ lastErrorCode' = lastErrorCode /\ cblock' = cblock
      /\ accepted' = accepted /\ done' = done /\ contents' = contents
  BY DEF ThreadPop, callerVars, writeVars
<1>2. TypeOK
  BY DEF Bookkeeping
<1>3. TypeOK'
  BY <1>1, <1>2 DEF TypeOK
<1>4. /\ tcmd = Head(queue) /\ Unpopped' = 0
      /\ Unpopped = IF tcmd # Stop THEN 1 ELSE 0
  BY <1>1 DEF Bookkeeping, ThreadHolds, Unpopped
<1>5. /\ Len(queue) \in Nat \ {0} /\ Len(queue') = Len(queue) - 1
      /\ \A i \in 1..Len(queue') : queue'[i] = queue[i + 1]
      /\ done \in Nat /\ Len(accepted) \in Nat
  BY <1>1, <1>2 DEF TypeOK
<1>6. CASE tcmd = Stop
  <2>1. Len(queue) = 1 /\ StopsQueued = 1 /\ Unpopped = 0
    BY <1>1, <1>4, <1>6, HeadOfQueue
  <2>2. queue' = <<>> /\ StopsQueued' = 0 /\ Len(queue') = 0
    BY <1>1, <1>2, <1>5, <2>1 DEF TypeOK, StopsQueued
  <2>3. Len(accepted) = done
    <3>1. Len(accepted) - done + Unpopped = 0 BY <1>1, <1>4, <1>6, HeadOfQueue
    <3> QED BY <1>5, <2>1, <3>1
  <2>4. QueueIsRest'
    <3>1. Len(accepted') - done' + Unpopped' = 0
      BY <1>1, <1>4, <1>5, <2>3
    <3>2. 1..(Len(accepted') - done' + Unpopped') = {} BY <3>1
    <3>3. done' <= Len(accepted') /\ Unpopped' <= done'
      BY <1>1, <1>4, <1>5, <2>3
    <3>4. Len(queue') = (Len(accepted') - done' + Unpopped') + StopsQueued'
      BY <2>2, <3>1
    <3> QED BY <3>2, <3>3, <3>4 DEF QueueIsRest
  <2>5. BlocksBound'
    BY <2>2, WriterAssumption DEF BlocksBound, WriterAssumption
  <2>6. CallerPhases'
    BY <1>1, <2>2 DEF Bookkeeping, CallerPhases
  <2> QED BY <1>1, <1>3, <2>4, <2>5, <2>6 DEF Bookkeeping, ThreadHolds
<1>7. CASE tcmd # Stop
  <2>1. Unpopped = 1 BY <1>4, <1>7
  <2>2. StopsQueued' = StopsQueued
    <3>1. CASE Len(queue) = 1
      <4>1. Len(queue') = 0 BY <1>5, <3>1
      <4>2. queue' = <<>> BY <1>1, <1>2, <4>1 DEF TypeOK
      <4>3. queue[1] # Stop BY <1>1, <1>2, <1>4, <1>7 DEF TypeOK
      <4> QED BY <3>1, <4>2, <4>3 DEF StopsQueued
    <3>2. CASE Len(queue) # 1
      <4>1. Len(queue') \in 1..Len(queue') /\ queue' # <<>>
        BY <1>5, <3>2
      <4>2. queue'[Len(queue')] = queue[Len(queue)]
        BY <1>5, <4>1
      <4> QED BY <1>1, <4>1, <4>2 DEF StopsQueued
    <3> QED BY <3>1, <3>2
  <2>3. QueueIsRest'
    <3>1. /\ done <= Len(accepted) /\ 1 <= done
          /\ Len(queue) = Len(accepted) - done + 1
                          + StopsQueued
          /\ \A i \in 1..(Len(accepted) - done + 1) :
               queue[i] = accepted[done - 1 + i]
      BY <2>1 DEF Bookkeeping, QueueIsRest
    <3>2. ASSUME NEW i \in 1..(Len(accepted) - done)
          PROVE  queue'[i] = accepted[done + i]
      <4>1. i \in 1..Len(queue') /\ i + 1 \in 1..(Len(accepted) - done + 1)
        BY Counts, <1>5, <3>1
      <4>2. queue'[i] = queue[i + 1] BY <1>5, <4>1
      <4>3. queue[i + 1] = accepted[done - 1 + (i + 1)] BY <3>1, <4>1
      <4>4. done - 1 + (i + 1) = done + i BY <1>5
      <4> QED BY <4>2, <4>3, <4>4
    <3>3. Len(queue') = Len(accepted) - done + StopsQueued'
      BY Counts, <1>5, <2>2, <3>1
    <3> QED BY Counts, <1>1, <1>4, <1>5, <3>1, <3>2, <3>3 DEF QueueIsRest
  <2>4. BlocksBound'
    BY Counts, <1>5, <2>2, WriterAssumption DEF Bookkeeping, BlocksBound,
       WriterAssumption
  <2>5. CallerPhases'
    BY <1>1, <2>2 DEF Bookkeeping, CallerPhases
  <2> QED BY <1>1, <1>3, <2>3, <2>4, <2>5 DEF Bookkeeping, ThreadHolds
<1> QED BY <1>6, <1>7

\* Steps of the caller that leave the queue and the thread alone.
LEMMA QuietStep ==
    ASSUME Bookkeeping,
           UNCHANGED <<queue, lastErrorCode, threadVars, accepted, writeVars>>,
           terminated' \in BOOLEAN,
           cblock' \in Blocks \cup {Stop}, cpc' = "add" => cblock' # Stop,
           \/ /\ cpc' \in {"idle", "add", "wait", "flag", "push"}
              /\ cpc \in {"idle", "add", "wait", "flag"}
           \/ cpc' = "drain" /\ tpc = "done"
           \/ cpc' = "gone" /\ cpc = "drain" /\ queue = <<>>
    PROVE  Bookkeeping'
<1>1. TypeOK' BY DEF Bookkeeping, TypeOK, threadVars, writeVars
<1>2. Unpopped' = Unpopped /\ StopsQueued' = StopsQueued
  BY DEF Unpopped, StopsQueued, threadVars
<1>3. QueueIsRest' BY <1>2 DEF Bookkeeping, QueueIsRest, writeVars
<1>4. ThreadHolds' BY DEF Bookkeeping, ThreadHolds, threadVars
<1>5. CallerPhases' BY <1>2 DEF Bookkeeping, CallerPhases, threadVars
<1>6. BlocksBound' BY <1>2 DEF Bookkeeping, BlocksBound
<1> QED BY <1>1, <1>3, <1>4, <1>5, <1>6 DEF Bookkeeping

\* push has room for the block: the caller waited for the queue to be short.
LEMMA AddStep == ASSUME Bookkeeping, AddWriterData PROVE Bookkeeping'
<1>1. /\ cpc = "add" /\ cpc' = "idle" /\ Len(queue) <= MaxQueueSize
      /\ accepted' = Append(accepted, cblock)
      /\ terminated' = terminated /\ lastErrorCode' = lastErrorCode
      /\ tpc' = tpc /\ tcmd' = tcmd /\ cblock' = cblock
      /\ done' = done /\ contents' = contents
  BY DEF AddWriterData, threadVars, writeVars
<1>2. TypeOK BY DEF Bookkeeping
<1>3. /\ cblock \in Blocks /\ queue \in Seq(Blocks \cup {Stop})
      /\ accepted \in Seq(Blocks) /\ Len(queue) \in Nat
      /\ Len(accepted) \in Nat /\ done \in Nat /\ Unpopped \in {0, 1}
  BY <1>1, <1>2 DEF TypeOK, Unpopped
<1>4. queue' = Append(queue, cblock)
  BY <1>1, <1>3, WriterAssumption DEF AddWriterData, Push, WriterAssumption
<1>5. TypeOK' BY <1>1, <1>2, <1>3, <1>4 DEF TypeOK
<1>6. StopsQueued = 0 /\ Unpopped' = Unpopped
  BY <1>1 DEF Bookkeeping, CallerPhases, Unpopped, StopsQueued
<1>7. /\ Len(queue') = Len(queue) + 1 /\ queue' # <<>>
      /\ Len(accepted') = Len(accepted) + 1
      /\ queue'[Len(queue) + 1] = cblock
      /\ accepted'[Len(accepted) + 1] = cblock
      /\ \A i \in 1..Len(queue) : queue'[i] = queue[i]
      /\ \A i \in 1..Len(accepted) : accepted'[i] = accepted[i]
  BY <1>1, <1>3, <1>4
<1>8. StopsQueued' = 0
  BY <1>3, <1>7, WriterAssumption DEF StopsQueued, WriterAssumption
<1>9. QueueIsRest'
  <2>1. /\ done <= Len(accepted) /\ Unpopped <= done
        /\ Len(queue) = Len(accepted) - done + Unpopped
        /\ \A i \in 1..(Len(accepted) - done + Unpopped) :
             queue[i] = accepted[done - Unpopped + i]
    BY <1>3, <1>6 DEF Bookkeeping, QueueIsRest
  <2>2. ASSUME NEW i \in 1..(Len(accepted') - done + Unpopped)
        PROVE  queue'[i] = accepted'[done - Unpopped + i]
    <3>1. CASE i <= Len(queue)
      <4>1. /\ i \in 1..Len(queue)
            /\ done - Unpopped + i \in 1..Len(accepted)
        BY <1>3, <2>1, <3>1
      <4> QED BY <1>7, <2>1, <4>1
    <3>2. CASE ~(i <= Len(queue))
      <4>1. /\ i = Len(queue) + 1
            /\ done - Unpopped + i = Len(accepted) + 1
        BY <1>3, <1>7, <2>1, <3>2
      <4> QED BY <1>7, <4>1
    <3> QED BY <3>1, <3>2
  <2>3. /\ done <= Len(accepted')
        /\ Len(queue') = Len(accepted') - done + Unpopped
    BY <1>3, <1>7, <2>1
  <2> QED BY <1>1, <1>3, <1>6, <1>8, <2>1, <2>2, <2>3 DEF QueueIsRest, Unpopped
<1>10. ThreadHolds'
  <2>1. queue # <<>> => Head(queue') = Head(queue)
    BY <1>3, <1>4
  <2> QED BY <1>1, <1>7, <2>1 DEF Bookkeeping, ThreadHolds
<1>11. CallerPhases' BY <1>1, <1>8 DEF CallerPhases
<1>12. BlocksBound'
  BY <1>1, <1>3, <1>7, <1>8, WriterAssumption DEF BlocksBound, WriterAssumption
<1> QED BY <1>5, <1>9, <1>10, <1>11, <1>12 DEF Bookkeeping

\* Nor is the stop command refused.
LEMMA PushStopStep == ASSUME Bookkeeping, PushStop PROVE Bookkeeping'
<1>1. /\ cpc = "push" /\ cpc' = "join"
      /\ accepted' = accepted
      /\ terminated' = terminated /\ lastErrorCode' = lastErrorCode
      /\ tpc' = tpc /\ tcmd' = tcmd /\ cblock' = cblock
      /\ done' = done /\ contents' = contents
  BY DEF PushStop, threadVars, writeVars
<1>2. TypeOK BY DEF Bookkeeping
<1>3. /\ queue \in Seq(Blocks \cup {Stop})
      /\ accepted \in Seq(Blocks) /\ Len(queue) \in Nat
      /\ Len(accepted) \in Nat /\ done \in Nat /\ Unpopped \in {0, 1}
  BY <1>2 DEF TypeOK, Unpopped
<1>4. StopsQueued = 0 /\ Unpopped' = Unpopped
  BY <1>1 DEF Bookkeeping, CallerPhases, Unpopped, StopsQueued
<1>5. Len(queue) <= MaxQueueSize + 1
  BY <1>3, <1>4, WriterAssumption DEF Bookkeeping, BlocksBound, WriterAssumption
<1>6. queue' = Append(queue, Stop)
  BY <1>3, <1>5, WriterAssumption DEF PushStop, Push, WriterAssumption
<1>7. TypeOK' BY <1>1, <1>2, <1>3, <1>6 DEF TypeOK
<1>8. /\ Len(queue') = Len(queue) + 1 /\ queue' # <<>>
      /\ queue'[Len(queue) + 1] = Stop
      /\ \A i \in 1..Len(queue) : queue'[i] = queue[i]
  BY <1>3, <1>6
<1>9. StopsQueued' = 1 BY <1>8 DEF StopsQueued
<1>10. QueueIsRest'
  <2>1. /\ done <= Len(accepted) /\ Unpopped <= done
        /\ Len(queue) = Len(accepted) - done + Unpopped
        /\ \A i \in 1..(Len(accepted) - done + Unpopped) :
             queue[i] = accepted[done - Unpopped + i]
    BY <1>3, <1>4 DEF Bookkeeping, QueueIsRest
  <2>2. \A i \in 1..(Len(accepted) - done + Unpopped) :
          queue'[i] = accepted[done - Unpopped + i]
    BY <1>8, <2>1
  <2> QED BY <1>1, <1>3, <1>4, <1>8, <1>9, <2>1, <2>2 DEF QueueIsRest
<1>11. ThreadHolds'
  <2>1. queue # <<>> => Head(queue') = Head(queue)
    BY <1>3, <1>6
  <2> QED BY <1>1, <1>8, <2>1 DEF Bookkeeping, ThreadHolds
<1>12. CallerPhases' BY <1>1 DEF CallerPhases
<1>13. BlocksBound'
  BY <1>3, <1>5, <1>8, <1>9, WriterAssumption DEF BlocksBound, WriterAssumption
<1> QED BY <1>7, <1>10, <1>11, <1>12, <1>13 DEF Bookkeeping

\* The destructor takes the next command as the thread would have.
LEMMA DrainStep == ASSUME Bookkeeping, Drain PROVE Bookkeeping'
<1>1. PICK o \in Outcomes : /\ Execute(Head(queue), o)
                            /\ cpc' = IF o = "throws" THEN "aborted"
                                                      ELSE "drain"
  BY DEF Drain
<1>2. /\ cpc = "drain" /\ queue # <<>> /\ queue' = Tail(queue)
      /\ terminated' = terminated /\ lastErrorCode' = lastErrorCode
      /\ tpc' = tpc /\ tcmd' = tcmd /\ cblock' = cblock
      /\ accepted' = accepted
  BY DEF Drain, threadVars
<1>3. TypeOK /\ tpc = "done" /\ tpc' = "done"
  BY <1>2 DEF Bookkeeping, CallerPhases
<1>4. /\ queue \in Seq(Blocks \cup {Stop}) /\ accepted \in Seq(Blocks)
      /\ Len(queue) \in Nat \ {0} /\ Len(queue') = Len(queue) - 1
      /\ \A i \in 1..Len(queue') : queue'[i] = queue[i + 1]
      /\ Len(accepted) \in Nat /\ done \in Nat
      /\ Unpopped = 0 /\ Unpopped' = 0
  BY <1>2, <1>3 DEF TypeOK, Unpopped
<1>5. TypeOK'
  <2>1. Head(queue) \in Blocks \cup {Stop} BY <1>2, HeadOfQueue
  <2>2. done' \in Nat /\ contents' \in [Files -> Seq(Blocks)]
    BY <1>1, <2>1, ExecuteType
  <2>3. queue' \in Seq(Blocks \cup {Stop}) BY <1>2, <1>4
  <2> QED BY <1>1, <1>2, <1>3, <2>2, <2>3 DEF TypeOK
<1>6. CASE Head(queue) = Stop
  <2>1. Len(queue) = 1 /\ StopsQueued = 1 BY <1>2, <1>6, HeadOfQueue
  <2>2. done' = done BY <1>1, <1>6 DEF Execute, writeVars
  <2>3. queue' = <<>> /\ Len(queue') = 0 /\ StopsQueued' = 0
    BY <1>2, <1>4, <2>1 DEF StopsQueued
  <2>4. Len(accepted) = done
    <3>1. Len(accepted) - done + Unpopped = 0 BY <1>2, <1>6, HeadOfQueue
    <3> QED BY <1>4, <3>1
  <2>5. QueueIsRest'
    <3>1. Len(accepted') - done' + Unpopped' = 0
      BY <1>2, <1>4, <2>2, <2>4
    <3>2. 1..(Len(accepted') - done' + Unpopped') = {} BY <3>1
    <3>3. done' <= Len(accepted') /\ Unpopped' <= done'
      BY <1>2, <1>4, <2>2, <2>4
    <3>4. Len(queue') = (Len(accepted') - done' + Unpopped') + StopsQueued'
      BY <2>3, <3>1
    <3> QED BY <3>2, <3>3, <3>4 DEF QueueIsRest
  <2>6. BlocksBound'
    BY <2>3, WriterAssumption DEF BlocksBound, WriterAssumption
  <2>7. CallerPhases' BY <1>1, <1>3, <2>3 DEF CallerPhases
  <2>8. ThreadHolds' BY <1>3 DEF ThreadHolds
  <2> QED BY <1>5, <2>5, <2>6, <2>7, <2>8 DEF Bookkeeping
<1>7. CASE Head(queue) # Stop
  <2>1. done' = done + 1 BY <1>1, <1>7 DEF Execute
  <2>2. Len(accepted) - done > 0 /\ Head(queue) = queue[1]
    BY <1>2, <1>4, <1>7, HeadOfQueue
  <2>3. StopsQueued' = StopsQueued
    <3>1. CASE Len(queue) = 1
      BY <1>2, <1>4, <1>7, <2>2, <3>1 DEF StopsQueued
    <3>2. CASE Len(queue) # 1
      <4>1. Len(queue') \in 1..Len(queue') /\ queue' # <<>>
        BY <1>4, <3>2
      <4>2. queue'[Len(queue')] = queue[Len(queue)]
        BY <1>4, <4>1
      <4> QED BY <1>2, <4>1, <4>2 DEF StopsQueued
    <3> QED BY <3>1, <3>2
  <2>4. QueueIsRest'
    <3>1. /\ Len(queue) = Len(accepted) - done
                          + StopsQueued
          /\ \A i \in 1..(Len(accepted) - done) :
               queue[i] = accepted[done + i]
      BY <1>4 DEF Bookkeeping, QueueIsRest
    <3>2. ASSUME NEW i \in 1..(Len(accepted) - (done + 1))
          PROVE  queue'[i] = accepted[done + 1 + i]
      <4>1. i \in 1..Len(queue') /\ i + 1 \in 1..(Len(accepted) - done)
        BY Counts, <1>4, <3>1
      <4>2. queue'[i] = queue[i + 1] BY <1>4, <4>1
      <4>3. queue[i + 1] = accepted[done + (i + 1)] BY <3>1, <4>1
      <4>4. done + (i + 1) = done + 1 + i BY <1>4
      <4> QED BY <4>2, <4>3, <4>4
    <3>3. /\ done + 1 <= Len(accepted)
          /\ Len(queue') = Len(accepted) - (done + 1)
                           + StopsQueued'
      BY Counts, <1>4, <2>2, <2>3, <3>1
    <3> QED BY Counts, <1>2, <1>4, <2>1, <3>2, <3>3 DEF QueueIsRest
  <2>5. BlocksBound'
    BY Counts, <1>4, <2>3, WriterAssumption DEF Bookkeeping, BlocksBound,
       WriterAssumption
  <2>6. CallerPhases' BY <1>1, <1>3, <2>3 DEF Bookkeeping, CallerPhases
  <2>7. ThreadHolds' BY <1>3 DEF ThreadHolds
  <2> QED BY <1>5, <2>4, <2>5, <2>6, <2>7 DEF Bookkeeping
<1> QED BY <1>6, <1>7

LEMMA QuietActions ==
    ASSUME Bookkeeping,
           \/ CallerChoice \/ AddThrows \/ WaitEnds
           \/ SetTerminated \/ Join \/ DrainEnds
    PROVE  Bookkeeping'
<1>0. TypeOK BY DEF Bookkeeping
<1> USE DEF fieldVars
<1>1. CASE StartWaiting BY <1>0, <1>1, QuietStep DEF StartWaiting, TypeOK
<1>2. CASE Destroy BY <1>0, <1>2, QuietStep DEF Destroy, TypeOK
<1>3. CASE \E b \in Blocks : Submit(b)
  <2>1. PICK b \in Blocks : Submit(b) BY <1>3
  <2>2. b # Stop BY WriterAssumption DEF WriterAssumption
  <2> QED BY <1>0, <2>1, <2>2, QuietStep DEF Submit, TypeOK
<1>4. CASE AddThrows BY <1>0, <1>4, QuietStep DEF AddThrows, TypeOK
<1>5. CASE WaitEnds BY <1>0, <1>5, QuietStep DEF WaitEnds, TypeOK
<1>6. CASE SetTerminated
  BY <1>0, <1>6, QuietStep DEF SetTerminated, TypeOK
<1>7. CASE Join BY <1>0, <1>7, QuietStep DEF Join, TypeOK
<1>8. CASE DrainEnds BY <1>0, <1>8, QuietStep DEF DrainEnds, TypeOK
<1> QED BY <1>1, <1>2, <1>3, <1>4, <1>5, <1>6, <1>7, <1>8 DEF CallerChoice

\* The conditions hold in every reachable state.
LEMMA BookkeepingHolds == Spec => []Bookkeeping
<1>1. Init => Bookkeeping
  <2> SUFFICES ASSUME Init PROVE Bookkeeping OBVIOUS
  <2>1. queue = <<>> /\ accepted = <<>> /\ done = 0 /\ tpc = "test"
        /\ cpc = "idle"
    BY DEF Init
  <2>2. TypeOK
    <3>1. contents = [f \in Files |-> <<>>] BY DEF Init
    <3>2. contents \in [Files -> Seq(Blocks)] BY <3>1
    <3>3. queue \in Seq(Blocks \cup {Stop}) /\ accepted \in Seq(Blocks)
      BY <2>1
    <3> QED BY <3>2, <3>3 DEF Init, TypeOK
  <2>3. Unpopped = 0 /\ StopsQueued = 0 BY <2>1 DEF Unpopped, StopsQueued
  <2>4. QueueIsRest BY <2>1, <2>3 DEF QueueIsRest
  <2>5. BlocksBound
    BY <2>1, <2>3, WriterAssumption DEF BlocksBound, WriterAssumption
  <2> QED BY <2>1, <2>2, <2>3, <2>4, <2>5
          DEF Bookkeeping, ThreadHolds, CallerPhases
<1>2. Bookkeeping /\ [Next]_vars => Bookkeeping'
  <2> SUFFICES ASSUME Bookkeeping, [Next]_vars PROVE Bookkeeping' OBVIOUS
  <2>1. CASE Thread
    BY <2>1, TestStep, PeekStep, ExecuteStep, PopStep DEF Thread
  <2>2. CASE CallerChoice BY <2>2, QuietActions
  <2>3. CASE CallerGoesOn
    BY <2>3, QuietActions, AddStep, PushStopStep, DrainStep DEF CallerGoesOn
  <2>4. CASE UNCHANGED vars
    BY ZenonT(60), <2>4 DEF vars, fieldVars, threadVars, callerVars, writeVars,
       Bookkeeping, TypeOK, QueueIsRest, Unpopped, StopsQueued, ThreadHolds,
       CallerPhases, BlocksBound
  <2> QED BY <2>1, <2>2, <2>3, <2>4 DEF Next
<1> QED BY <1>1, <1>2, PTL DEF Spec

-----------------------------------------------------------------------------
\* The fields of the writer, its thread and its caller keep their types.
THEOREM TypeCorrect == Spec => []TypeOK
<1>1. Bookkeeping => TypeOK BY DEF Bookkeeping
<1> QED BY <1>1, BookkeepingHolds, PTL

\* isQueueEmpty tells the muxing thread that every block it handed over was
\* carried out, however the two threads interleave.
THEOREM EmptyQueueMeansWritten == Spec => []EmptyMeansWritten
<1>1. Bookkeeping => EmptyMeansWritten
  <2> SUFFICES ASSUME Bookkeeping, queue = <<>> PROVE done = Len(accepted)
    BY DEF EmptyMeansWritten
  <2>1. StopsQueued = 0 BY DEF StopsQueued
  <2>2. Unpopped = 0 BY DEF Bookkeeping, ThreadHolds, Unpopped
  <2>3. Len(queue) = 0 OBVIOUS
  <2>4. /\ done \in Nat /\ Len(accepted) \in Nat
    BY DEF Bookkeeping, TypeOK
  <2>5. 0 = Len(accepted) - done + 0 + 0
    BY <2>1, <2>2, <2>3 DEF Bookkeeping, QueueIsRest
  <2> QED BY <2>4, <2>5
<1> QED BY <1>1, BookkeepingHolds, PTL

\* addWriterData and terminate never meet a full queue.
THEOREM NothingRefused == Spec => []QueueBound
<1>1. Bookkeeping => QueueBound
  <2> SUFFICES ASSUME Bookkeeping PROVE QueueBound OBVIOUS
  <2>1. /\ Len(queue) \in Nat /\ Len(queue) <= MaxQueueSize + 1 + StopsQueued
        /\ MaxQueueSize \in Nat
    BY WriterAssumption DEF Bookkeeping, TypeOK, BlocksBound, WriterAssumption
  <2> QED BY <2>1, Counts DEF QueueBound
<1> QED BY <1>1, BookkeepingHolds, PTL

-----------------------------------------------------------------------------
(* The writer implements OrderedWriter.                                    *)

\* Carrying out the next block is a step of OrderedWriter.
LEMMA ExecuteCompletes ==
    ASSUME Bookkeeping, queue # <<>>, Unpopped = 0,
           NEW o \in Outcomes, Execute(Head(queue), o),
           accepted' = accepted, cpc' = cpc, cpc \notin {"gone", "aborted"}
    PROVE  Abstract!Complete \/ UNCHANGED Abstract!vars
<1>1. CASE Head(queue) = Stop
  BY <1>1 DEF Execute, writeVars, Abstract!vars
<1>2. CASE Head(queue) # Stop
  <2>1. /\ done \in Nat /\ Len(accepted) \in Nat
        /\ Len(accepted) - done + Unpopped > 0
        /\ Head(queue) = accepted[done - Unpopped + 1]
    BY <1>2, HeadOfQueue DEF Bookkeeping, TypeOK
  <2>2. done < Len(accepted) /\ done - Unpopped + 1 = done + 1 BY <2>1
  <2>3. Head(queue) = accepted[done + 1] BY <2>1, <2>2
  <2>4. done' = done + 1 BY <1>2 DEF Execute
  <2>5. contents' = IF o # "ok" THEN contents
                    ELSE [contents EXCEPT ![Head(queue).file] =
                            Append(@, Head(queue))]
    BY <1>2 DEF Execute
  <2>6. o # "ok" => Outcomes # {"ok"} OBVIOUS
  <2> QED BY <2>2, <2>3, <2>4, <2>5, <2>6 DEF Abstract!Complete
<1> QED BY <1>1, <1>2

LEMMA StepImplements ==
    ASSUME Bookkeeping, [Next]_vars PROVE [Abstract!Next]_(Abstract!vars)
<1> USE DEF Abstract!vars, Abstract!Next
<1>1. CASE ThreadTest \/ ThreadPeek \/ ThreadPop
  BY <1>1 DEF ThreadTest, ThreadPeek, ThreadPop, callerVars, writeVars
<1>2. CASE ThreadExecute
  <2>1. PICK o \in Outcomes : Execute(tcmd, o) BY <1>2 DEF ThreadExecute
  <2>2. /\ tpc = "execute" /\ accepted' = accepted /\ cpc' = cpc
    BY <1>2 DEF ThreadExecute, callerVars
  <2>3. queue # <<>> /\ tcmd = Head(queue) /\ Unpopped = 0
    BY <2>2 DEF Bookkeeping, ThreadHolds, Unpopped
  <2>4. cpc \notin {"gone", "aborted"}
    BY <2>2 DEF Bookkeeping, CallerPhases
  <2> QED BY <2>1, <2>2, <2>3, <2>4, ExecuteCompletes
<1>3. CASE CallerChoice \/ AddThrows \/ WaitEnds \/ SetTerminated
           \/ PushStop \/ Join
  <2> USE DEF fieldVars, threadVars, writeVars
  <2>1. CASE StartWaiting BY <2>1 DEF StartWaiting
  <2>2. CASE Destroy BY <2>2 DEF Destroy
  <2>3. CASE \E b \in Blocks : Submit(b) BY <2>3 DEF Submit
  <2>4. CASE AddThrows BY <2>4 DEF AddThrows
  <2>5. CASE WaitEnds BY <2>5 DEF WaitEnds
  <2>6. CASE SetTerminated BY <2>6 DEF SetTerminated
  <2>7. CASE PushStop BY <2>7 DEF PushStop
  <2>8. CASE Join BY <2>8 DEF Join
  <2> QED BY <1>3, <2>1, <2>2, <2>3, <2>4, <2>5, <2>6, <2>7, <2>8
          DEF CallerChoice
<1>4. CASE AddWriterData
  <2>1. cblock \in Blocks BY <1>4 DEF AddWriterData, Bookkeeping, TypeOK
  <2> QED BY <1>4, <2>1 DEF AddWriterData, writeVars, Abstract!Accept
<1>5. CASE Drain
  <2>1. PICK o \in Outcomes : /\ Execute(Head(queue), o)
                              /\ cpc' = IF o = "throws" THEN "aborted"
                                                        ELSE "drain"
    BY <1>5 DEF Drain
  <2>2. /\ cpc = "drain" /\ queue # <<>> /\ accepted' = accepted
    BY <1>5 DEF Drain
  <2>3. Unpopped = 0 BY <2>2 DEF Bookkeeping, CallerPhases, Unpopped
  <2>4. CASE o # "throws"
    BY <2>1, <2>2, <2>3, <2>4, ExecuteCompletes
  <2>5. CASE o = "throws"
    <3>1. Head(queue) # Stop BY <2>1, <2>5 DEF Execute
    <3>2. done' = done + 1 /\ contents' = contents
      BY <2>1, <2>5, <3>1 DEF Execute
    <3>3. done \in Nat /\ Len(accepted) - done + Unpopped > 0
      BY <2>2, <3>1, HeadOfQueue DEF Bookkeeping, TypeOK
    <3>4. done < Len(accepted)
      BY <2>3, <3>3 DEF Bookkeeping, TypeOK
    <3> QED BY <2>1, <2>2, <2>5, <3>2, <3>4 DEF Abstract!Abort
  <2> QED BY <2>4, <2>5
<1>6. CASE DrainEnds
  <2>1. cpc = "drain" /\ queue = <<>> /\ cpc' = "gone"
        /\ accepted' = accepted /\ done' = done /\ contents' = contents
    BY <1>6 DEF DrainEnds, writeVars
  <2>2. done = Len(accepted)
    <3>1. StopsQueued = 0 /\ Unpopped = 0 /\ Len(queue) = 0
      BY <2>1 DEF StopsQueued, Bookkeeping, CallerPhases, Unpopped
    <3>2. 0 = Len(accepted) - done + 0 + 0
      BY <3>1 DEF Bookkeeping, QueueIsRest
    <3> QED BY <3>2 DEF Bookkeeping, TypeOK
  <2> QED BY <2>1, <2>2 DEF Abstract!End
<1>7. CASE UNCHANGED vars
  BY <1>7 DEF vars, callerVars, writeVars
<1> QED BY <1>1, <1>2, <1>3, <1>4, <1>5, <1>6, <1>7
        DEF Next, Thread, CallerGoesOn

\* Whatever the two threads do, the blocks are written in the order they were
\* handed over, each once, and the writer ends with none left.
THEOREM WritesInOrder == Spec => IsOrderedWriter
<1>1. Init => Abstract!Init
  BY DEF Init, Abstract!Init
<1>2. Bookkeeping /\ [Next]_vars => [Abstract!Next]_(Abstract!vars)
  BY StepImplements
<1> QED BY <1>1, <1>2, BookkeepingHolds, PTL
        DEF Spec, IsOrderedWriter, Abstract!SafeSpec
=============================================================================
