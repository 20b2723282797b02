-------------------------- MODULE MetaDemuxerProofs --------------------------
(***************************************************************************)
(* For every set of inputs: between the demuxers and the readers no unit   *)
(* is lost or handed over twice, no reader gets more than its stream has,  *)
(* no stream is taken further than its demuxer has come, everything is in  *)
(* a packet at the end, and packets come in the order of decoding.         *)
(***************************************************************************)
EXTENDS MetaDemuxer, WellFoundedInduction, TLAPS

\* What has been read of stream i: of a file everything may be.
Limit(i) == IF S(i).src = File THEN Total(i) ELSE Upto(i, calls[S(i).src])

CountsAreNat ==
    /\ calls \in [Containers -> Nat]
    /\ taken \in [Streams -> Nat]
    /\ lastReadCnt \in [Streams -> Nat]
    /\ given \in [Streams -> Nat]

WithinCalls == \A c \in Containers : calls[c] <= LastCall(c)
WithinLimit == \A i \in Streams : Taken(i) <= Limit(i)

Transfer == input \in Inputs /\ CountsAreNat /\ WithinCalls /\ WithinLimit
            /\ HandedOverOnce

-----------------------------------------------------------------------------
\* A set of natural numbers that is not empty has a least member.
LEMMA MinimumIn ==
    ASSUME NEW K \in SUBSET Nat, K # {}
    PROVE  Minimum(K) \in K /\ \A l \in K : Minimum(K) <= l
<1> DEFINE R == {p \in Nat \X Nat : p[1] < p[2]}
<1>1. R = OpToRel(<, Nat)
  BY Zenon DEF OpToRel
<1>2. IsWellFoundedOn(R, Nat)
  BY <1>1, NatLessThanWellFounded, Zenon
<1> HIDE DEF R
<1>3. PICK k \in K : \A l \in K : <<l, k>> \notin R
  BY <1>2, WFMin
<1>4. ASSUME NEW l \in K PROVE k <= l
  <2>1. k \in Nat /\ l \in Nat /\ <<l, k>> \in Nat \X Nat
    OBVIOUS
  <2>2. ~(<<l, k>>[1] < <<l, k>>[2])
    BY <1>3, <2>1 DEF R
  <2> QED BY <2>1, <2>2
<1> QED BY <1>3, <1>4 DEF Minimum

LEMMA InputFacts ==
    ASSUME input \in Inputs
    PROVE  /\ \A i \in Streams : StreamSpace(S(i))
           /\ \A c \in Containers : LastCall(c) \in Nat \ {0}
           /\ \A i \in Streams : S(i).src # File =>
                S(i).src \in Containers
           /\ MaxBlock \in Nat \ {0} /\ FileBlock \in Nat \ {0}
BY InputAssumption DEF InputSpace, Streams, S, Containers, LastCall

LEMMA UptoIsNat ==
    ASSUME input \in Inputs, NEW i \in Streams, NEW k \in Nat
    PROVE  Upto(i, k) \in Nat /\ Total(i) \in Nat
<1>1. /\ S(i).upto \in Seq(Nat) /\ Len(S(i).upto) \in Nat \ {0}
  BY InputFacts DEF StreamSpace
<1>2. \A l \in Nat \ {0} : Least(l, Len(S(i).upto)) \in 1..Len(S(i).upto)
  BY <1>1 DEF Least
<1>3. \A l \in Nat : Upto(i, l) \in Nat
  BY <1>1, <1>2 DEF Upto
<1> QED BY <1>1, <1>3 DEF Total

\* More calls of a demuxer deliver no less of a stream.
LEMMA UptoGrows ==
    ASSUME input \in Inputs, NEW i \in Streams, NEW k \in Nat, NEW l \in Nat, k <= l
    PROVE  Upto(i, k) <= Upto(i, l)
<1>1. /\ S(i).upto \in Seq(Nat) /\ Len(S(i).upto) \in Nat \ {0}
      /\ \A m, n \in DOMAIN S(i).upto : m <= n => S(i).upto[m] <= S(i).upto[n]
  BY InputFacts DEF StreamSpace
<1>2. CASE k = 0
  BY <1>2, UptoIsNat DEF Upto
<1>3. CASE k # 0
  <2>1. /\ Least(k, Len(S(i).upto)) \in DOMAIN S(i).upto
        /\ Least(l, Len(S(i).upto)) \in DOMAIN S(i).upto
        /\ Least(k, Len(S(i).upto)) <= Least(l, Len(S(i).upto))
    BY <1>1, <1>3 DEF Least
  <2> QED BY <1>1, <1>3, <2>1 DEF Upto
<1> QED BY <1>2, <1>3

LEMMA CallsGrow ==
    ASSUME Transfer, NEW i \in Streams, S(i).src # File
    PROVE  /\ CallsAfter(i) \in Nat
           /\ calls[S(i).src] <= CallsAfter(i)
           /\ CallsAfter(i) <= LastCall(S(i).src)
<1> DEFINE c == S(i).src
           K == {k \in Least(calls[c] + 1, LastCall(c))..LastCall(c) :
                   k = LastCall(c) \/ Fragmented(i) \/ BlockAfter(i, k) >= MinReadBlock}
<1>1. /\ c \in Containers /\ LastCall(c) \in Nat /\ calls[c] \in Nat
      /\ calls[c] <= LastCall(c)
  BY InputFacts DEF Transfer, CountsAreNat, WithinCalls
<1>2. /\ Least(calls[c] + 1, LastCall(c)) \in Nat
      /\ calls[c] <= Least(calls[c] + 1, LastCall(c))
      /\ Least(calls[c] + 1, LastCall(c)) <= LastCall(c)
  BY <1>1 DEF Least
<1>3. K \in SUBSET Nat /\ LastCall(c) \in K
  BY <1>1, <1>2
<1>4. Minimum(K) \in K
  <2> HIDE DEF K
  <2> QED BY <1>3, MinimumIn
<1>5. CallsAfter(i) = Minimum(K)
  BY DEF CallsAfter
<1> QED BY <1>1, <1>2, <1>4, <1>5

\* A block is part of what has been read and not been removed, and one that
\* its caller is going to drop is empty.
BlockFits(i, b) ==
    /\ b.calls \in Nat /\ calls[S(i).src] <= b.calls
    /\ b.calls <= LastCall(S(i).src)
    /\ b.cnt \in Nat /\ Taken(i) + b.cnt <= Upto(i, b.calls)
    /\ b.rez \in {"notReady", "delayed"} => b.cnt = 0

LEMMA ContainerBlockFits ==
    ASSUME Transfer, NEW i \in Streams, S(i).src # File
    PROVE  BlockFits(i, ContainerBlock(i))
<1> DEFINE now == calls[S(i).src]
<1>1. /\ now \in Nat /\ now <= LastCall(S(i).src) /\ LastCall(S(i).src) \in Nat
      /\ Taken(i) \in Nat /\ MaxBlock \in Nat /\ Taken(i) <= Upto(i, now)
  BY InputFacts DEF Transfer, CountsAreNat, WithinCalls, WithinLimit, Limit, Taken
<1>2. \A k \in Nat : now <= k =>
        /\ BlockAfter(i, k) \in Nat
        /\ Taken(i) + BlockAfter(i, k) <= Upto(i, k)
  <2> TAKE k \in Nat
  <2> HAVE now <= k
  <2>1. Upto(i, k) \in Nat /\ Upto(i, now) <= Upto(i, k) /\ Upto(i, now) \in Nat
    BY <1>1, UptoGrows, UptoIsNat DEF Transfer
  <2> QED BY <1>1, <2>1 DEF BlockAfter, Least
<1>3. CASE Enough(i)
  BY <1>1, <1>2, <1>3 DEF BlockFits, ContainerBlock
<1>4. CASE ~Enough(i) /\ Waits(i)
  BY <1>1, <1>4 DEF BlockFits, ContainerBlock
<1>5. CASE ~Enough(i) /\ ~Waits(i)
  <2>1. CallsAfter(i) \in Nat /\ now <= CallsAfter(i) /\ CallsAfter(i) <= LastCall(S(i).src)
    BY CallsGrow
  <2>2. /\ Demuxed(i).calls = CallsAfter(i)
        /\ Demuxed(i).cnt = BlockAfter(i, CallsAfter(i))
        /\ Demuxed(i).rez \in {"notReady", "delayed"} =>
             ~(BlockAfter(i, CallsAfter(i)) > 0)
    BY DEF Demuxed, GetLastReadRez
  <2>3. ContainerBlock(i) = Demuxed(i)
    BY <1>5 DEF ContainerBlock
  <2>4. /\ BlockAfter(i, CallsAfter(i)) \in Nat
        /\ Taken(i) + BlockAfter(i, CallsAfter(i)) <= Upto(i, CallsAfter(i))
    BY <1>2, <2>1
  <2> HIDE DEF now
  <2>5. Demuxed(i).rez \in {"notReady", "delayed"} => Demuxed(i).cnt = 0
    BY <2>2, <2>4
  <2> QED BY <2>1, <2>2, <2>3, <2>4, <2>5 DEF BlockFits, now
<1> QED BY <1>3, <1>4, <1>5

LEMMA HandedOver ==
    ASSUME Transfer, NEW i \in Streams, NEW b, Hand(i, b), b.cnt \in Nat,
           b.rez \in {"notReady", "delayed"} => b.cnt = 0
    PROVE  given' = [given EXCEPT ![i] = @ + b.cnt]
<1>1. CASE b.rez \in {"notReady", "delayed"}
  <2>1. given' = given /\ b.cnt = 0 BY <1>1 DEF Hand
  <2>2. given[i] + b.cnt = given[i] BY <2>1 DEF Transfer, CountsAreNat
  <2> QED BY <2>1, <2>2 DEF Transfer, CountsAreNat
<1>2. CASE b.rez \notin {"notReady", "delayed"}
  BY <1>2 DEF Hand
<1> QED BY <1>1, <1>2

LEMMA ReadContainerStep ==
    ASSUME Transfer, NEW i \in Streams, ReadContainer(i)
    PROVE  Transfer'
<1> DEFINE b == ContainerBlock(i)
           c == S(i).src
<1>0. c # File /\ c \in Containers
  BY InputFacts DEF ReadContainer, Transfer
<1>1. BlockFits(i, b)
  BY <1>0, ContainerBlockFits
<1>2. /\ input' = input
      /\ calls' = [calls EXCEPT ![c] = b.calls]
      /\ taken' = [taken EXCEPT ![i] = Taken(i)]
      /\ lastReadCnt' = [lastReadCnt EXCEPT ![i] = b.cnt]
      /\ Hand(i, b)
  BY DEF ReadContainer
<1> HIDE DEF b
<1>3. b.cnt \in Nat /\ b.calls \in Nat
  BY <1>1 DEF BlockFits
<1>4. given' = [given EXCEPT ![i] = @ + b.cnt]
  BY <1>1, <1>2, <1>3, HandedOver DEF BlockFits
<1>5. /\ Streams' = Streams /\ Containers' = Containers
      /\ \A j : S(j)' = S(j)
      /\ \A j, k : Upto(j, k)' = Upto(j, k)
      /\ \A j : Total(j)' = Total(j)
      /\ \A d : LastCall(d)' = LastCall(d)
  BY <1>2 DEF Streams, Containers, S, Upto, Total, LastCall
<1>6. /\ Taken(i) \in Nat /\ Taken(i)' = Taken(i) + b.cnt
      /\ \A j \in Streams : j # i => Taken(j)' = Taken(j)
  BY <1>2, <1>3 DEF Transfer, CountsAreNat, Taken
<1>7. CountsAreNat'
  <2>1. /\ calls \in [Containers -> Nat] /\ taken \in [Streams -> Nat]
        /\ lastReadCnt \in [Streams -> Nat] /\ given \in [Streams -> Nat]
    BY DEF Transfer, CountsAreNat
  <2>2. calls' \in [Containers -> Nat]
    BY <1>2, <1>3, <2>1
  <2>3. /\ taken' \in [Streams -> Nat] /\ lastReadCnt' \in [Streams -> Nat]
        /\ given' \in [Streams -> Nat]
    BY <1>2, <1>3, <1>4, <1>6, <2>1
  <2> QED BY <1>5, <2>2, <2>3 DEF CountsAreNat
<1>8. WithinCalls'
  BY <1>0, <1>1, <1>2, <1>5 DEF Transfer, WithinCalls, CountsAreNat, BlockFits
<1>9. WithinLimit'
  <2> SUFFICES ASSUME NEW j \in Streams PROVE Taken(j)' <= Limit(j)'
    BY <1>5 DEF WithinLimit
  <2>1. CASE j = i
    BY <1>0, <1>1, <1>2, <1>5, <1>6, <2>1
    DEF Limit, BlockFits, Transfer, CountsAreNat
  <2>2. CASE j # i /\ S(j).src = c
    <3>1. Limit(j) = Upto(j, calls[c]) /\ Limit(j)' = Upto(j, b.calls)
      BY <1>0, <1>2, <1>5, <2>2 DEF Limit, Transfer, CountsAreNat
    <3>2. /\ calls[c] \in Nat /\ Upto(j, calls[c]) \in Nat
          /\ Upto(j, b.calls) \in Nat /\ Upto(j, calls[c]) <= Upto(j, b.calls)
      BY <1>0, <1>1, <1>3, UptoGrows, UptoIsNat
      DEF BlockFits, Transfer, CountsAreNat
    <3>3. Taken(j) \in Nat /\ Taken(j) <= Limit(j) /\ Taken(j)' = Taken(j)
      BY <1>6, <2>2 DEF Transfer, WithinLimit, CountsAreNat, Taken
    <3> QED BY <3>1, <3>2, <3>3
  <2>3. CASE j # i /\ S(j).src # c
    BY <1>2, <1>5, <1>6, <2>3, InputFacts
    DEF Limit, Transfer, WithinLimit, CountsAreNat
  <2> QED BY <2>1, <2>2, <2>3
<1>10. HandedOverOnce'
  BY <1>4, <1>5, <1>6 DEF Transfer, HandedOverOnce, CountsAreNat
<1> QED BY <1>2, <1>7, <1>8, <1>9, <1>10 DEF Transfer

LEMMA ReadFileStep ==
    ASSUME Transfer, NEW i \in Streams, ReadFile(i)
    PROVE  Transfer'
<1> DEFINE b == FileBlockOf(i)
<1>1. Taken(i) \in Nat /\ Total(i) \in Nat /\ Taken(i) <= Total(i)
  BY UptoIsNat DEF ReadFile, Transfer, CountsAreNat, WithinLimit, Limit, Taken
<1>2. /\ b.cnt \in Nat /\ Taken(i) + b.cnt <= Total(i)
      /\ b.rez \notin {"notReady", "delayed"}
  BY <1>1, InputFacts DEF FileBlockOf, Least, Transfer
<1>3. /\ input' = input /\ calls' = calls /\ lastReadCnt' = lastReadCnt
      /\ taken' = [taken EXCEPT ![i] = @ + b.cnt]
      /\ Hand(i, b) /\ S(i).src = File
  BY DEF ReadFile
<1> HIDE DEF b
<1>4. given' = [given EXCEPT ![i] = @ + b.cnt]
  BY <1>2, <1>3, HandedOver
<1>5. /\ Streams' = Streams /\ Containers' = Containers
      /\ \A j : Limit(j)' = Limit(j)
      /\ \A d : LastCall(d)' = LastCall(d)
  BY <1>3 DEF Streams, Containers, S, Upto, Total, LastCall, Limit
<1>6. /\ Taken(i)' = Taken(i) + b.cnt
      /\ \A j \in Streams : j # i => Taken(j)' = Taken(j)
  BY <1>2, <1>3 DEF Transfer, CountsAreNat, Taken
<1>7. CountsAreNat'
  BY <1>2, <1>3, <1>4, <1>5 DEF Transfer, CountsAreNat
<1>8. WithinCalls'
  BY <1>3, <1>5 DEF Transfer, WithinCalls
<1>9. WithinLimit'
  BY <1>2, <1>3, <1>5, <1>6 DEF Transfer, WithinLimit, Limit
<1>10. HandedOverOnce'
  BY <1>2, <1>4, <1>5, <1>6 DEF Transfer, HandedOverOnce, CountsAreNat
<1> QED BY <1>3, <1>7, <1>8, <1>9, <1>10 DEF Transfer

\* The counts that every other step leaves alone.
transferVars == <<input, calls, taken, lastReadCnt, given>>

LEMMA OtherStep ==
    ASSUME Transfer, UNCHANGED transferVars PROVE Transfer'
BY DEF Transfer, transferVars, CountsAreNat, WithinCalls, WithinLimit,
       HandedOverOnce, Streams, Containers, S, Upto, Total, LastCall, Limit, Taken

-----------------------------------------------------------------------------
LEMMA InitTransfer == Init => Transfer
<1> SUFFICES ASSUME Init PROVE Transfer
  OBVIOUS
<1>1. /\ input \in Inputs /\ CountsAreNat
      /\ \A i \in Streams : Taken(i) = 0 /\ given[i] = 0
      /\ \A c \in Containers : calls[c] = 0
  BY DEF Init, CountsAreNat, Taken
<1>2. WithinCalls
  BY <1>1, InputFacts DEF WithinCalls
<1>3. WithinLimit
  <2> SUFFICES ASSUME NEW i \in Streams PROVE Taken(i) <= Limit(i)
    BY DEF WithinLimit
  <2>1. Total(i) \in Nat /\ Upto(i, 0) \in Nat
    BY <1>1, UptoIsNat
  <2>2. S(i).src # File => calls[S(i).src] = 0
    BY <1>1, InputFacts
  <2> QED BY <1>1, <2>1, <2>2 DEF Limit
<1> QED BY <1>1, <1>2, <1>3 DEF Transfer, HandedOverOnce

LEMMA NextTransfer == Transfer /\ [Next]_vars => Transfer'
<1> SUFFICES ASSUME Transfer, [Next]_vars PROVE Transfer'
  OBVIOUS
<1>1. ASSUME NEW i \in Streams, ReadContainer(i) PROVE Transfer'
  BY <1>1, ReadContainerStep
<1>2. ASSUME NEW i \in Streams, ReadFile(i) PROVE Transfer'
  BY <1>2, ReadFileStep
<1>3. ASSUME NEW i \in Streams,
             ReadNothing(i) \/ ReadThrows(i) \/ ScanForFlush(i)
      PROVE  Transfer'
  BY <1>3, OtherStep
  DEF ReadNothing, ReadThrows, ScanForFlush, transferVars, containerVars, readerVars
<1>4. CASE ResetDelayedMark
  BY <1>4, OtherStep DEF ResetDelayedMark, transferVars, readerVars
<1>5. CASE SendPacket \/ FlushStream \/ FlushRest
  BY <1>5, OtherStep
  DEF SendPacket, FlushStream, FlushRest, Return, transferVars, containerVars
<1>6. CASE EnterFlushMode \/ ReturnEof
  BY <1>6, OtherStep
  DEF EnterFlushMode, ReturnEof, transferVars, containerVars, readerVars
<1>7. CASE UNCHANGED vars
  BY <1>7, OtherStep DEF vars, transferVars, containerVars, readerVars
<1> QED BY <1>1, <1>2, <1>3, <1>4, <1>5, <1>6, <1>7 DEF Next, Work, Read, Stopped

\* No reader gets more than its stream has, nor more of a container's track
\* than the demuxer has delivered of it.
THEOREM WithinDelivered == Spec => [](WithinCalls /\ WithinLimit)
<1>1. Transfer => WithinCalls /\ WithinLimit
  BY DEF Transfer
<1> QED BY <1>1, InitTransfer, NextTransfer, PTL DEF Spec

\* Between the buffer of a container and the reader, for every input, no unit
\* is lost or handed over twice.
THEOREM HandsOverOnce == Spec => []HandedOverOnce
<1>1. Transfer => HandedOverOnce
  BY DEF Transfer
<1> QED BY <1>1, InitTransfer, NextTransfer, PTL DEF Spec

-----------------------------------------------------------------------------
(* The types: no packet is larger than what its reader has, and the loop   *)
(* over the streams stays among them.                                      *)

Marks == {"ok", "eof", "delayed", "notReady"}
BlockRez == {"ok", "eof", "eof2", "delayed", "notReady"}
PacketRez == {"ok", "more", "delayed", "notReady"}

LoopTypes ==
    /\ pc \in {"scan", "decide", "ended", "thrown"}
    /\ at \in Streams /\ minIndex \in Streams \cup {None}
    /\ allDelayed \in BOOLEAN /\ flushMode \in BOOLEAN
BlockTypes ==
    mark \in [Streams -> Marks] /\ lastReadCnt \in [Streams -> 0..MaxBlock]
InfoTypes ==
    /\ lastAVRez \in [Streams -> PacketRez] /\ isEOF \in [Streams -> BOOLEAN]
    /\ flushed \in [Streams -> BOOLEAN] /\ lastDTS \in [Streams -> Int]
    /\ readRez \in [Streams -> BlockRez]
ReaderTypes ==
    /\ sent \in [Streams -> Nat] /\ frameNo \in [Streams -> Int]
    /\ \A i \in Streams : sent[i] <= given[i]
PacketTypes ==
    /\ packet.stream \in Streams \cup {None} /\ packet.dts \in Int /\ packet.size \in Nat
    /\ lastProcessed.stream \in Streams \cup {None} /\ lastProcessed.dts \in Int

Typed == Transfer /\ LoopTypes /\ BlockTypes /\ InfoTypes /\ ReaderTypes /\ PacketTypes

\* No more is given than a stream has, as a demuxer delivers no more.
LEMMA TypedIsTypeOK == Typed => TypeOK
<1>. SUFFICES ASSUME Typed PROVE TypeOK
  OBVIOUS
<1>1. \A c \in Containers : calls[c] \in 0..LastCall(c)
  BY InputFacts DEF Typed, Transfer, CountsAreNat, WithinCalls
<1>2. ASSUME NEW i \in Streams PROVE given[i] \in 0..Total(i)
  <2>1. /\ given[i] \in Nat /\ given[i] <= Limit(i) /\ Total(i) \in Nat
        /\ S(i).src # File => /\ calls[S(i).src] \in Nat
                              /\ Upto(i, calls[S(i).src]) \in Nat
    BY InputFacts, UptoIsNat
    DEF Typed, Transfer, CountsAreNat, HandedOverOnce, WithinLimit
  <2>2. ASSUME NEW k \in Nat PROVE Upto(i, k) <= Total(i)
    <3>. DEFINE n == Len(S(i).upto)
    <3>1. n \in Nat \ {0}
      BY InputFacts DEF StreamSpace, Typed, Transfer
    <3>2. CASE k <= n
      BY <3>1, <3>2, UptoGrows DEF Total, n, Typed, Transfer
    <3>3. CASE k > n
      <4>1. Least(k, n) = n /\ Least(n, n) = n /\ k # 0 /\ n # 0
        BY <3>1, <3>3 DEF Least
      <4>2. Upto(i, k) = Upto(i, n)
        BY <4>1 DEF Upto, n
      <4>. QED BY <2>1, <4>2 DEF Total, n
    <3>. QED BY <3>1, <3>2, <3>3
  <2>. QED BY <2>1, <2>2 DEF Limit
<1>3. \A i \in Streams : sent[i] \in 0..given[i] /\ taken[i] \in Nat
  BY DEF Typed, Transfer, CountsAreNat, ReaderTypes
<1>. QED BY <1>1, <1>2, <1>3 DEF Typed, TypeOK, LoopTypes, BlockTypes, InfoTypes, ReaderTypes,
     PacketTypes, Marks, BlockRez, PacketRez

LEMMA InitTyped == Init => Typed
<1>. SUFFICES ASSUME Init PROVE Typed
  OBVIOUS
<1>1. Transfer
  BY InitTransfer
<1>2. \A i \in Streams : S(i).shift \in Int
  BY InputFacts DEF Init, StreamSpace
<1>3. 1 \in Streams
  <2>1. InputSpace(input)
    BY InputAssumption DEF Init
  <2>. QED BY <2>1 DEF InputSpace, Streams
<1>4. LoopTypes /\ PacketTypes
  <2>1. /\ pc = "scan" /\ at = 1 /\ minIndex = None /\ allDelayed = TRUE /\ flushMode = FALSE
        /\ packet = [stream |-> None, dts |-> 0, size |-> 0]
        /\ lastProcessed = [stream |-> None, dts |-> 0]
    BY DEF Init
  <2>2. LoopTypes
    BY <1>3, <2>1 DEF LoopTypes
  <2>. QED BY <2>1, <2>2 DEF PacketTypes
<1>5. BlockTypes /\ ReaderTypes
  BY InputAssumption DEF Init, BlockTypes, Marks, ReaderTypes
<1>6. InfoTypes
  BY <1>2 DEF Init, InfoTypes, PacketRez, BlockRez
<1>. QED BY <1>1, <1>4, <1>5, <1>6 DEF Typed

\* The end of a round: the loop goes on with a stream, or all of them are done.
LEMMA RoundTypes ==
    ASSUME Typed, pc = "scan", NextStream
    PROVE  pc' \in {"scan", "decide"} /\ at' \in Streams
<1>. DEFINE n == Len(input.streams)
<1>1. Streams = 1..n /\ n \in Nat /\ n # 0
  <2>1. InputSpace(input)
    BY InputAssumption DEF Typed, Transfer
  <2>2. at \in Streams
    BY DEF Typed, LoopTypes
  <2>. QED BY <2>1, <2>2 DEF Streams, InputSpace
<1>. QED BY <1>1 DEF NextStream, Typed, LoopTypes

LEMMA ConsiderTypes ==
    ASSUME Typed, NEW i \in Streams, Scanning(i), NEW rez \in BlockRez, Consider(i, rez)
    PROVE  /\ readRez' \in [Streams -> BlockRez]
           /\ pc' \in {"scan", "decide"} /\ at' \in Streams
           /\ minIndex' \in Streams \cup {None} /\ allDelayed' \in BOOLEAN
<1>1. readRez' \in [Streams -> BlockRez] /\ pc = "scan"
  BY DEF Consider, Scanning, Typed, InfoTypes
<1>2. CASE rez = "delayed"
  BY <1>1, <1>2, RoundTypes DEF Consider, Typed, LoopTypes
<1>3. CASE rez = "notReady"
  <2>1. /\ at' = 1 /\ minIndex' = None /\ allDelayed' = TRUE /\ pc' = pc
    BY <1>3 DEF Consider
  <2>2. 1 \in Streams
    <3>1. InputSpace(input)
      BY InputAssumption DEF Typed, Transfer
    <3>. QED BY <3>1 DEF InputSpace, Streams
  <2>. QED BY <1>1, <2>1, <2>2
<1>4. CASE rez \notin {"delayed", "notReady"}
  <2>1. /\ NextStream /\ allDelayed' = FALSE /\ minIndex' \in {i, minIndex}
    BY <1>4 DEF Consider
  <2>. QED BY <1>1, <2>1, RoundTypes DEF Typed, LoopTypes
<1>. QED BY <1>2, <1>3, <1>4

LEMMA HandTypes ==
    ASSUME Typed, NEW i \in Streams, Hungry(i), NEW b, b.rez \in Marks, Hand(i, b),
           UNCHANGED <<flushed, lastDTS, flushMode, input>>
    PROVE  LoopTypes' /\ InfoTypes'
<1>1. Scanning(i) /\ Consider(i, b.rez) /\ b.rez \in BlockRez
  BY DEF Hungry, Hand, Marks, BlockRez
<1>2. Streams' = Streams
  BY DEF Streams
<1>3. LoopTypes'
  BY <1>1, <1>2, ConsiderTypes DEF LoopTypes, Typed
<1>4. lastAVRez' \in [Streams -> PacketRez] /\ isEOF' \in [Streams -> BOOLEAN]
  BY DEF Hand, Typed, InfoTypes, PacketRez, Marks
<1>. QED BY <1>1, <1>2, <1>3, <1>4, ConsiderTypes DEF Typed, InfoTypes

\* A block of a container has the type of its result and is not too large.
LEMMA ContainerBlockTypes ==
    ASSUME Typed, NEW i \in Streams, S(i).src # File
    PROVE  LET b == ContainerBlock(i) IN
           b.rez \in Marks /\ b.mark \in Marks /\ b.cnt \in 0..MaxBlock
<1>. DEFINE b == ContainerBlock(i)
<1>1. BlockFits(i, b) /\ MaxBlock \in Nat /\ mark[i] \in Marks
  BY ContainerBlockFits, InputFacts DEF Typed, Transfer, BlockTypes
<1>2. \A k : BlockAfter(i, k) \in Int => BlockAfter(i, k) <= MaxBlock
  BY <1>1 DEF BlockAfter, Least
<1>3. CASE Enough(i)
  BY <1>1, <1>2, <1>3 DEF BlockFits, ContainerBlock, Marks
<1>4. CASE ~Enough(i) /\ Waits(i)
  BY <1>1, <1>4 DEF ContainerBlock, Marks
<1>5. CASE ~Enough(i) /\ ~Waits(i)
  <2>1. b = Demuxed(i)
    BY <1>5 DEF ContainerBlock
  <2>2. /\ Demuxed(i).cnt = BlockAfter(i, CallsAfter(i))
        /\ Demuxed(i).rez \in Marks /\ Demuxed(i).mark \in Marks
    BY DEF Demuxed, GetLastReadRez, Marks
  <2>. QED BY <1>1, <1>2, <2>1, <2>2 DEF BlockFits
<1>. QED BY <1>3, <1>4, <1>5

LEMMA ReadContainerTypes ==
    ASSUME Typed, NEW i \in Streams, ReadContainer(i) PROVE Typed'
<1>. DEFINE b == ContainerBlock(i)
<1>1. /\ S(i).src # File /\ b.rez \in Marks /\ b.mark \in Marks /\ b.cnt \in 0..MaxBlock
      /\ BlockFits(i, b)
  BY ContainerBlockTypes, ContainerBlockFits DEF ReadContainer, Typed
<1>2. /\ lastReadCnt' = [lastReadCnt EXCEPT ![i] = b.cnt]
      /\ mark' = [mark EXCEPT ![i] = b.mark]
      /\ Hungry(i) /\ Hand(i, b)
      /\ UNCHANGED <<input, sent, frameNo, flushed, lastDTS, flushMode, packet, lastProcessed>>
  BY DEF ReadContainer
<1>. HIDE DEF b
<1>3. LoopTypes' /\ InfoTypes'
  BY <1>1, <1>2, HandTypes
<1>4. Streams' = Streams
  BY <1>2 DEF Streams
<1>5. BlockTypes' /\ PacketTypes'
  BY <1>1, <1>2, <1>4 DEF Typed, BlockTypes, PacketTypes
<1>6. ReaderTypes'
  <2>1. given' = [given EXCEPT ![i] = @ + b.cnt] /\ b.cnt \in Nat
    BY <1>1, <1>2, HandedOver DEF BlockFits, Typed
  <2>. QED BY <1>2, <1>4, <2>1 DEF Typed, ReaderTypes, Transfer, CountsAreNat
<1>7. Transfer'
  BY ReadContainerStep DEF Typed
<1>. QED BY <1>3, <1>5, <1>6, <1>7 DEF Typed

LEMMA ReadFileTypes ==
    ASSUME Typed, NEW i \in Streams, ReadFile(i) PROVE Typed'
<1>. DEFINE b == FileBlockOf(i)
<1>1. Taken(i) \in Nat /\ Total(i) \in Nat /\ Taken(i) <= Total(i) /\ FileBlock \in Nat
  BY UptoIsNat, InputFacts
  DEF ReadFile, Typed, Transfer, CountsAreNat, WithinLimit, Limit, Taken
<1>2. b.cnt \in Nat /\ b.rez \in Marks /\ b.rez \notin {"notReady", "delayed"}
  BY <1>1 DEF FileBlockOf, Least, Marks
<1>3. /\ Hungry(i) /\ Hand(i, b)
      /\ UNCHANGED <<input, lastReadCnt, mark, sent, frameNo, flushed, lastDTS,
                     flushMode, packet, lastProcessed>>
  BY DEF ReadFile
<1>. HIDE DEF b
<1>4. LoopTypes' /\ InfoTypes'
  BY <1>2, <1>3, HandTypes
<1>5. Streams' = Streams
  BY <1>3 DEF Streams
<1>6. BlockTypes' /\ PacketTypes'
  BY <1>3, <1>5 DEF Typed, BlockTypes, PacketTypes
<1>7. ReaderTypes'
  <2>1. given' = [given EXCEPT ![i] = @ + b.cnt]
    BY <1>2, <1>3, HandedOver DEF Typed
  <2>. QED BY <1>2, <1>3, <1>5, <2>1 DEF Typed, ReaderTypes, Transfer, CountsAreNat
<1>8. Transfer'
  BY ReadFileStep DEF Typed
<1>. QED BY <1>4, <1>6, <1>7, <1>8 DEF Typed

\* A packet has the type of one and is no larger than what the reader has.
PacketFits(i, pkt) == /\ pkt.size \in Nat /\ pkt.size <= Rest(i)
                      /\ pkt.dts \in Int /\ pkt.duration \in Int /\ pkt.frame \in Int

LEMMA ReaderFacts ==
    ASSUME Typed, NEW i \in Streams
    PROVE  /\ Rest(i) \in Nat /\ sent[i] \in Nat /\ frameNo[i] \in Int
           /\ packet.dts \in Int /\ FrameOf(i) \in Int
           /\ S(i).frame \in Nat \ {0} /\ S(i).shift \in Int /\ S(i).step \in Int
           /\ S(i).kind \in {"packets", "nals", "pgs"}
           /\ \A f \in Int : Time(i, f) \in Int
<1>1. /\ S(i).frame \in Nat \ {0} /\ S(i).shift \in Int /\ S(i).step \in Int
      /\ S(i).kind \in {"packets", "nals", "pgs"} /\ S(i).first \in Int
  BY InputFacts DEF StreamSpace, Typed, Transfer
<1>2. /\ sent[i] \in Nat /\ given[i] \in Nat /\ sent[i] <= given[i]
      /\ frameNo[i] \in Int /\ packet.dts \in Int
  BY DEF Typed, ReaderTypes, PacketTypes, Transfer, CountsAreNat
<1>3. FrameOf(i) \in Int
  BY <1>1, <1>2 DEF FrameOf
<1>4. \A f \in Int : Time(i, f) \in Int
  BY <1>1 DEF Time
<1>. QED BY <1>1, <1>2, <1>3, <1>4 DEF Rest

LEMMA ReaderPacketFits ==
    ASSUME Typed, NEW i \in Streams
    PROVE  PacketFits(i, ReaderPacket(i).pkt) /\ ReaderPacket(i).rez \in {"ok", "more"}
<1>1. Rest(i) \in Nat /\ FrameOf(i) \in Int /\ frameNo[i] \in Int /\ packet.dts \in Int
      /\ S(i).frame \in Nat /\ S(i).step \in Int
      /\ Time(i, FrameOf(i)) \in Int /\ Time(i, frameNo[i]) \in Int
  BY ReaderFacts
<1>2. CASE S(i).kind = "packets"
  <2>1. ReaderPacket(i) = ReadFrame(i)
    BY <1>2 DEF ReaderPacket
  <2>2. CASE Rest(i) < S(i).frame
    BY <1>1, <2>1, <2>2 DEF ReadFrame, More, Pkt, PacketFits
  <2>3. CASE ~(Rest(i) < S(i).frame)
    BY <1>1, <2>1, <2>3 DEF ReadFrame, Got, Pkt, PacketFits
  <2>. QED BY <2>2, <2>3
<1>3. CASE S(i).kind = "nals"
  <2>1. ReaderPacket(i) = ReadNal(i)
    BY <1>3 DEF ReaderPacket
  <2>2. CASE Rest(i) < 2
    BY <1>1, <2>1, <2>2 DEF ReadNal, More, Pkt, PacketFits
  <2>3. CASE ~(Rest(i) < 2)
    BY <1>1, <2>1, <2>3 DEF ReadNal, Got, Pkt, PacketFits
  <2>. QED BY <2>2, <2>3
<1>4. CASE S(i).kind = "pgs"
  <2>1. ReaderPacket(i) = ReadPgs(i)
    BY <1>4 DEF ReaderPacket
  <2>2. CASE Rest(i) = 0
    BY <1>1, <2>1, <2>2 DEF ReadPgs, More, Pkt, PacketFits
  <2>3. CASE Rest(i) # 0
    BY <1>1, <2>1, <2>3 DEF ReadPgs, Got, Pkt, PacketFits
  <2>. QED BY <2>2, <2>3
<1>. QED BY <1>2, <1>3, <1>4, ReaderFacts

LEMMA FlushPacketFits ==
    ASSUME Typed, NEW i \in Streams PROVE PacketFits(i, FlushPacket(i))
<1>1. ASSUME NEW n \in Nat, n <= Rest(i), NEW d \in Int, NEW f \in Int
      PROVE  PacketFits(i, Pkt(n, d, 0, f))
  BY <1>1 DEF Pkt, PacketFits
<1>2. Rest(i) \in Nat /\ frameNo[i] \in Int /\ FrameOf(i) \in Int /\ packet.dts \in Int
      /\ S(i).kind \in {"packets", "nals", "pgs"}
      /\ Time(i, FrameOf(i)) \in Int /\ Time(i, frameNo[i]) \in Int
  BY ReaderFacts
<1>3. S(i).kind = "packets" => PacketFits(i, FlushPacket(i))
  BY <1>1, <1>2 DEF FlushPacket
<1>4. S(i).kind = "nals" => PacketFits(i, FlushPacket(i))
  BY <1>1, <1>2 DEF FlushPacket
<1>5. S(i).kind = "pgs" => PacketFits(i, FlushPacket(i))
  BY <1>1, <1>2 DEF FlushPacket
<1>. QED BY <1>2, <1>3, <1>4, <1>5

LEMMA ReturnTypes ==
    ASSUME Typed, pc = "decide", NEW i \in Streams, NEW pkt, NEW dts \in Int,
           PacketFits(i, pkt), Return(i, pkt, dts)
    PROVE  /\ Transfer' /\ LoopTypes' /\ BlockTypes' /\ ReaderTypes' /\ PacketTypes'
           /\ Streams' = Streams /\ UNCHANGED <<input, isEOF, readRez>>
<1>1. /\ packet' = [stream |-> i, dts |-> dts, size |-> pkt.size]
      /\ lastProcessed' \in {lastProcessed, [stream |-> i, dts |-> dts]}
      /\ sent' = [sent EXCEPT ![i] = @ + pkt.size]
      /\ frameNo' = [frameNo EXCEPT ![i] = pkt.frame]
      /\ Rescan
      /\ UNCHANGED <<input, containerVars, given, isEOF, readRez, flushMode>>
  BY DEF Return, MuxPacket
<1>2. Streams' = Streams
  BY <1>1 DEF Streams
<1>3. Transfer'
  BY <1>1, OtherStep DEF Typed, transferVars, containerVars
<1>4. LoopTypes'
  BY <1>1, <1>2 DEF Rescan, Typed, LoopTypes
<1>5. BlockTypes' /\ PacketTypes'
  BY <1>1, <1>2 DEF Typed, BlockTypes, PacketTypes, PacketFits, containerVars
<1>6. ReaderTypes'
  BY <1>1, <1>2 DEF Typed, ReaderTypes, PacketFits, Rest, Transfer, CountsAreNat
<1>. QED BY <1>1, <1>2, <1>3, <1>4, <1>5, <1>6

LEMMA SendTypes ==
    ASSUME Typed, SendPacket \/ FlushStream \/ FlushRest PROVE Typed'
<1>1. PICK i \in Streams : i = minIndex
  BY DEF Typed, LoopTypes, SendPacket, FlushStream, FlushRest
<1>2. pc = "decide"
  BY DEF SendPacket, FlushStream, FlushRest
<1>3. S(i).shift \in Int /\ \A f \in Int : Time(i, f) \in Int
  BY ReaderFacts
<1>4. ASSUME NEW pkt, PacketFits(i, pkt), Advance(i, pkt), Streams' = Streams
      PROVE  lastDTS' \in [Streams' -> Int]
  <2>1. pkt.dts + S(i).shift + pkt.duration \in Int
    BY <1>3, <1>4 DEF PacketFits
  <2>. QED BY <1>4, <2>1 DEF Advance, Typed, InfoTypes
<1>5. CASE SendPacket
  <2>. DEFINE r == ReaderPacket(i)
  <2>1. /\ PacketFits(i, r.pkt) /\ r.rez \in {"ok", "more"}
        /\ Return(i, r.pkt, r.pkt.dts + S(i).shift) /\ Advance(i, r.pkt)
        /\ lastAVRez' = [lastAVRez EXCEPT ![i] = r.rez] /\ UNCHANGED flushed
    BY <1>1, <1>5, ReaderPacketFits DEF SendPacket
  <2>. HIDE DEF r
  <2>2. r.pkt.dts + S(i).shift \in Int
    BY <1>3, <2>1 DEF PacketFits
  <2>3. /\ Transfer' /\ LoopTypes' /\ BlockTypes' /\ ReaderTypes' /\ PacketTypes'
        /\ Streams' = Streams /\ UNCHANGED <<isEOF, readRez>>
    BY <1>2, <2>1, <2>2, ReturnTypes
  <2>4. InfoTypes'
    BY <1>4, <2>1, <2>3 DEF Typed, InfoTypes, PacketRez
  <2>. QED BY <2>3, <2>4 DEF Typed
<1>6. CASE FlushStream
  <2>. DEFINE pkt == FlushPacket(i)
  <2>1. /\ PacketFits(i, pkt)
        /\ Return(i, pkt, pkt.dts + S(i).shift) /\ Advance(i, pkt)
        /\ flushed' = [flushed EXCEPT ![i] = TRUE] /\ UNCHANGED lastAVRez
    BY <1>1, <1>6, FlushPacketFits DEF FlushStream
  <2>. HIDE DEF pkt
  <2>2. pkt.dts + S(i).shift \in Int
    BY <1>3, <2>1 DEF PacketFits
  <2>3. /\ Transfer' /\ LoopTypes' /\ BlockTypes' /\ ReaderTypes' /\ PacketTypes'
        /\ Streams' = Streams /\ UNCHANGED <<isEOF, readRez>>
    BY <1>2, <2>1, <2>2, ReturnTypes
  <2>4. InfoTypes'
    BY <1>4, <2>1, <2>3 DEF Typed, InfoTypes
  <2>. QED BY <2>3, <2>4 DEF Typed
<1>7. CASE FlushRest
  <2>. DEFINE pkt == FlushPacket(i)
  <2>1. /\ PacketFits(i, pkt) /\ Return(i, pkt, pkt.dts)
        /\ flushed' = [flushed EXCEPT ![i] = TRUE] /\ UNCHANGED <<lastAVRez, lastDTS>>
    BY <1>1, <1>7, FlushPacketFits DEF FlushRest
  <2>. HIDE DEF pkt
  <2>2. pkt.dts \in Int
    BY <2>1 DEF PacketFits
  <2>3. /\ Transfer' /\ LoopTypes' /\ BlockTypes' /\ ReaderTypes' /\ PacketTypes'
        /\ Streams' = Streams /\ UNCHANGED <<isEOF, readRez>>
    BY <1>2, <2>1, <2>2, ReturnTypes
  <2>4. InfoTypes'
    BY <2>1, <2>3 DEF Typed, InfoTypes
  <2>. QED BY <2>3, <2>4 DEF Typed
<1>. QED BY <1>5, <1>6, <1>7

LEMMA NextTyped == Typed /\ [Next]_vars => Typed'
<1>. SUFFICES ASSUME Typed, [Next]_vars PROVE Typed'
  OBVIOUS
<1>0. Transfer'
  BY NextTransfer DEF Typed
<1>1. ASSUME NEW i \in Streams, ReadNothing(i) PROVE Typed'
  <2>. DEFINE rez == IF lastAVRez[i] = "ok" THEN "ok" ELSE "eof2"
  <2>1. /\ Scanning(i) /\ Consider(i, rez) /\ rez \in BlockRez
        /\ UNCHANGED <<input, containerVars, readerVars, lastAVRez, isEOF, flushed,
                       lastDTS, flushMode, packet, lastProcessed>>
    BY <1>1 DEF ReadNothing, BlockRez
  <2>. HIDE DEF rez
  <2>2. /\ readRez' \in [Streams -> BlockRez] /\ Streams' = Streams
        /\ pc' \in {"scan", "decide"} /\ at' \in Streams
        /\ minIndex' \in Streams \cup {None} /\ allDelayed' \in BOOLEAN
    BY <2>1, ConsiderTypes DEF Streams
  <2>. QED BY <1>0, <2>1, <2>2 DEF Typed, LoopTypes, BlockTypes, InfoTypes, ReaderTypes,
           PacketTypes, containerVars, readerVars
<1>2. ASSUME NEW i \in Streams, ReadThrows(i) PROVE Typed'
  BY <1>0, <1>2 DEF ReadThrows, Typed, LoopTypes, BlockTypes, InfoTypes, ReaderTypes,
     PacketTypes, containerVars, readerVars, infoVars, Streams
<1>3. ASSUME NEW i \in Streams, ScanForFlush(i) PROVE Typed'
  <2>1. pc' \in {"scan", "decide"} /\ at' \in Streams
    BY <1>3, RoundTypes DEF ScanForFlush, Scanning
  <2>2. /\ minIndex' \in {i, minIndex} /\ allDelayed' = FALSE
        /\ UNCHANGED <<input, containerVars, readerVars, infoVars, flushMode, packet,
                       lastProcessed>>
    BY <1>3 DEF ScanForFlush
  <2>. QED BY <1>0, <2>1, <2>2 DEF Typed, LoopTypes, BlockTypes, InfoTypes, ReaderTypes,
           PacketTypes, containerVars, readerVars, infoVars, Streams
<1>4. CASE ResetDelayedMark
  <2>1. mark' \in [Streams -> Marks]
    BY <1>4 DEF ResetDelayedMark, Typed, BlockTypes, Marks
  <2>2. /\ Rescan /\ UNCHANGED <<input, lastReadCnt, readerVars, infoVars, flushMode,
                                 packet, lastProcessed>>
    BY <1>4 DEF ResetDelayedMark
  <2>. QED BY <1>0, <2>1, <2>2 DEF Rescan, Typed, LoopTypes, BlockTypes, InfoTypes,
           ReaderTypes, PacketTypes, readerVars, infoVars, Streams
<1>5. CASE EnterFlushMode \/ ReturnEof \/ UNCHANGED vars
  BY <1>0, <1>5 DEF EnterFlushMode, ReturnEof, Rescan, vars, Typed, LoopTypes, BlockTypes,
     InfoTypes, ReaderTypes, PacketTypes, containerVars, readerVars, infoVars, Streams
<1>. QED BY <1>1, <1>2, <1>3, <1>4, <1>5, ReadContainerTypes, ReadFileTypes, SendTypes
     DEF Next, Work, Read, Stopped

\* The merge keeps to its types, for every set of inputs: in particular no
\* reader makes a packet of more units than it was handed.
THEOREM TypesHold == Spec => []TypeOK
BY InitTyped, NextTyped, TypedIsTypeOK, PTL DEF Spec
-----------------------------------------------------------------------------
(* Blocks at the end of a stream.                                          *)

\* The calls after the last one with data deliver nothing.
LEMMA AllDelivered ==
    ASSUME input \in Inputs, NEW i \in Streams, S(i).src # File,
           NEW k \in Nat, k >= input.calls[S(i).src]
    PROVE  Upto(i, k) = Total(i)
<1>. DEFINE n == Len(S(i).upto)
<1>1. n \in Nat \ {0} /\ n = input.calls[S(i).src]
  BY InputAssumption, InputFacts DEF InputSpace, StreamSpace, Streams, S
<1>. HIDE DEF n
<1>2. Least(k, n) = n /\ Least(n, n) = n /\ k # 0 /\ n # 0
  BY <1>1 DEF Least
<1>. QED BY <1>2 DEF Upto, Total, n

LEMMA EndFacts ==
    ASSUME input \in Inputs, NEW i \in Streams, S(i).src # File
    PROVE  /\ input.calls[S(i).src] \in Nat \ {0}
           /\ LastCall(S(i).src) = input.calls[S(i).src] + 1
           /\ input.eofFrom[S(i).src] \in Nat
           /\ EndsWithData(i) => input.eofFrom[S(i).src] >= input.calls[S(i).src]
           /\ MinReadBlock \in Nat \ {0} /\ MaxBlock \in Nat /\ MinReadBlock <= MaxBlock
<1>1. S(i).src \in Containers
  BY InputFacts
<1>2. /\ input.calls[S(i).src] \in Nat \ {0}
      /\ input.eofFrom[S(i).src] \in 1..input.calls[S(i).src] + 1
  BY <1>1, InputAssumption DEF InputSpace, Containers
<1>. QED BY <1>2, InputAssumption DEF LastCall, EndsWithData

\* The loop over simpleDemuxBlock goes on only while there is no block.
LEMMA CallsNeeded ==
    ASSUME Transfer, NEW i \in Streams, S(i).src # File,
           NEW k \in Nat, calls[S(i).src] < k, k < CallsAfter(i)
    PROVE  BlockAfter(i, k) < MinReadBlock
<1>. DEFINE c == S(i).src
            K == {l \in Least(calls[c] + 1, LastCall(c))..LastCall(c) :
                    l = LastCall(c) \/ Fragmented(i) \/ BlockAfter(i, l) >= MinReadBlock}
<1>1. /\ c \in Containers /\ LastCall(c) \in Nat /\ calls[c] \in Nat
      /\ calls[c] <= LastCall(c)
  BY InputFacts DEF Transfer, CountsAreNat, WithinCalls
<1>2. CallsAfter(i) \in Nat /\ CallsAfter(i) <= LastCall(c)
  BY CallsGrow
<1>3. /\ Least(calls[c] + 1, LastCall(c)) = calls[c] + 1
      /\ k \in (calls[c] + 1)..LastCall(c) /\ LastCall(c) \in (calls[c] + 1)..LastCall(c)
  BY <1>1, <1>2 DEF Least
<1>4. K \in SUBSET Nat /\ LastCall(c) \in K
  BY <1>1, <1>3
<1>5. \A l \in K : Minimum(K) <= l
  <2>. HIDE DEF K
  <2>. QED BY <1>4, MinimumIn
<1>6. CallsAfter(i) = Minimum(K)
  BY DEF CallsAfter
<1>7. k \notin K
  <2>. HIDE DEF K
  <2>. QED BY <1>2, <1>5, <1>6
<1>8. BlockAfter(i, k) \in Int
  <2>1. Upto(i, k) \in Nat /\ Taken(i) \in Nat /\ MaxBlock \in Nat
    BY UptoIsNat, InputFacts DEF Transfer, CountsAreNat, Taken
  <2>. QED BY <2>1 DEF BlockAfter, Least
<1>9. MinReadBlock \in Nat
  BY InputAssumption
<1>. QED BY <1>3, <1>7, <1>8, <1>9

\* What a container's demuxer announces as the end comes with the rest.
LEMMA LastBlock ==
    ASSUME Transfer, NEW i \in Streams, S(i).src # File, ~Enough(i), EndsWithData(i),
           CallsAfter(i) >= input.eofFrom[S(i).src]
    PROVE  Taken(i) + BlockAfter(i, CallsAfter(i)) = Total(i)
<1>. DEFINE c == S(i).src
            now == calls[c]
            k == CallsAfter(i)
            N == input.calls[c]
<1>1. /\ now \in Nat /\ k \in Nat /\ now <= k /\ k <= N + 1 /\ N \in Nat \ {0}
      /\ input.eofFrom[c] \in Nat /\ input.eofFrom[c] >= N /\ k >= N
      /\ MinReadBlock \in Nat \ {0} /\ MaxBlock \in Nat /\ MinReadBlock <= MaxBlock
  BY CallsGrow, EndFacts, InputFacts DEF Transfer, CountsAreNat
<1>2. \A l \in Nat : Upto(i, l) \in Nat
  BY UptoIsNat DEF Transfer
<1>3. Taken(i) \in Nat /\ Total(i) \in Nat
  BY UptoIsNat DEF Transfer, CountsAreNat, Taken
<1>4. Upto(i, k) = Total(i)
  BY <1>1, AllDelivered DEF Transfer
<1>5. BlockAfter(i, now) < MinReadBlock
  BY <1>1, <1>2, <1>3 DEF Enough, BlockAfter, Least
<1>6. ASSUME NEW l \in Nat, now <= l, l < k \/ l = now PROVE Upto(i, l) - Taken(i) < MinReadBlock
  <2>1. BlockAfter(i, l) < MinReadBlock
    <3>1. CASE l = now
      BY <1>5, <3>1
    <3>2. CASE now < l /\ l < k
      BY <3>2, CallsNeeded
    <3>. QED BY <1>1, <1>6, <3>1, <3>2
  <2>. QED BY <1>1, <1>2, <1>3, <2>1 DEF BlockAfter, Least
<1>7. Total(i) - Taken(i) <= MaxBlock
  <2>1. CASE k = now
    <3>1. Upto(i, k) - Taken(i) < MinReadBlock
      BY <1>1, <1>6, <2>1
    <3>. QED BY <1>1, <1>3, <1>4, <3>1
  <2>2. CASE k # now
    <3>. DEFINE p == k - 1
    <3>1. p \in Nat /\ now <= p /\ p < k
      BY <1>1, <2>2
    <3>2. Upto(i, p) - Taken(i) < MinReadBlock /\ Upto(i, p) \in Nat
      BY <1>2, <1>6, <3>1
    <3>3. CASE k = N + 1
      <4>1. Upto(i, p) = Total(i)
        BY <1>1, <3>1, <3>3, AllDelivered DEF Transfer
      <4>. QED BY <1>1, <1>3, <3>2, <4>1
    <3>4. CASE k # N + 1
      <4>1. k = N /\ N \in 1..N
        BY <1>1, <3>4
      <4>2. input.eofFrom[c] # LastCall(c)
        BY <1>1, <4>1, EndFacts DEF Transfer
      <4>3. Upto(i, N) - Upto(i, N - 1) + MinReadBlock - 1 <= MaxBlock
        BY <4>1, <4>2 DEF EndsWithData
      <4>. QED BY <1>1, <1>2, <1>3, <1>4, <3>2, <4>1, <4>3
    <3>. QED BY <3>3, <3>4
  <2>. QED BY <2>1, <2>2
<1>8. BlockAfter(i, k) = Total(i) - Taken(i)
  BY <1>1, <1>3, <1>4, <1>7 DEF BlockAfter, Least
<1>. QED BY <1>3, <1>8

\* What readBlock says of a track when it has no more: at the end, or later.
LEMMA ContainerEnds ==
    ASSUME Typed, NEW i \in Streams, S(i).src # File, mark[i] = "delayed" => Fragmented(i)
    PROVE  LET b == ContainerBlock(i)
               c == S(i).src
           IN
           /\ "delayed" \in {b.rez, b.mark} => Fragmented(i)
           /\ b.rez = "delayed" =>
                \/ b.calls = calls[c] /\ Taken(i) = Upto(i, calls[c])
                \/ b.calls < input.eofFrom[c]
           /\ b.rez = "eof" =>
                /\ b.calls >= input.eofFrom[c]
                /\ EndsWithData(i) => Taken(i) + b.cnt = Total(i)
<1>. DEFINE c == S(i).src
            now == calls[c]
            b == ContainerBlock(i)
<1>1. /\ now \in Nat /\ Taken(i) \in Nat /\ Taken(i) <= Upto(i, now) /\ Upto(i, now) \in Nat
      /\ MinReadBlock \in Nat \ {0} /\ MaxBlock \in Nat \ {0} /\ input.eofFrom[c] \in Nat
  BY InputFacts, EndFacts, UptoIsNat, InputAssumption
  DEF Typed, Transfer, CountsAreNat, WithinLimit, Limit, Taken
<1>2. CASE Enough(i)
  BY <1>2 DEF ContainerBlock
<1>3. CASE ~Enough(i) /\ Waits(i)
  <2>1. b.rez = "delayed" /\ b.mark = "delayed" /\ b.calls = now
    BY <1>3 DEF ContainerBlock, Waits
  <2>2. Fragmented(i)
    BY <1>3 DEF Waits
  <2>3. ~(BlockAfter(i, now) > 0)
    BY <1>3, <2>2 DEF Enough
  <2>4. Taken(i) = Upto(i, now)
    BY <1>1, <2>3 DEF BlockAfter, Least
  <2>. QED BY <2>1, <2>2, <2>4
<1>4. CASE ~Enough(i) /\ ~Waits(i)
  <2>. DEFINE k == CallsAfter(i)
  <2>1. b = Demuxed(i) /\ k \in Nat
    BY <1>4, CallsGrow DEF ContainerBlock, Typed
  <2>2. Demuxed(i).calls = k /\ Demuxed(i).cnt = BlockAfter(i, k) /\ Demuxed(i).mark = Demuxed(i).rez
    BY DEF Demuxed
  <2>3. Demuxed(i).rez = "delayed" => Fragmented(i) /\ k < input.eofFrom[c]
    BY <1>1, <2>1 DEF Demuxed, GetLastReadRez
  <2>4. Demuxed(i).rez = "eof" => k >= input.eofFrom[c]
    BY <1>1, <2>1 DEF Demuxed, GetLastReadRez
  <2>5. Demuxed(i).rez = "eof" /\ EndsWithData(i) => Taken(i) + BlockAfter(i, k) = Total(i)
    BY <1>4, <2>4, LastBlock DEF Typed
  <2>. QED BY <2>1, <2>2, <2>3, <2>4, <2>5
<1>. QED BY <1>2, <1>3, <1>4

-----------------------------------------------------------------------------
(* Nothing is left behind: when the merge ends, every unit of every stream *)
(* is in a packet.                                                         *)

\* A stream at its end: its demuxer has announced the end, and with it came
\* the rest of the data.
Finished(i) ==
    isEOF[i] => /\ S(i).src # File => calls[S(i).src] >= input.eofFrom[S(i).src]
                /\ EndsWithData(i) => given[i] = Total(i)

\* Only subtitles are delayed, and their reader has no data left then.
OutOfData(i) ==
    /\ "delayed" \in {mark[i], readRez[i]} => Fragmented(i)
    /\ Fragmented(i) /\ lastAVRez[i] # "ok" => sent[i] = given[i]
    /\ readRez[i] \in {"delayed", "eof2"} => lastAVRez[i] # "ok"
    /\ readRez[i] = "eof2" => isEOF[i]

\* A flushed stream has sent what it was given, and is given no more.
FlushedOut(i) == flushed[i] => /\ sent[i] = given[i]
                               /\ flushMode \/ readRez[i] = "eof2"

\* The streams that this round of readPacket has asked, and how one is passed
\* over: at its end, or delayed, without data if its demuxer has announced the
\* end since.
Asked == IF pc = "decide" THEN Streams ELSE {j \in Streams : j < at}
PassedOver(i) ==
    \/ readRez[i] = "eof2" /\ flushed[i]
    \/ /\ readRez[i] = "delayed"
       /\ (EndsWithData(i) /\ calls[S(i).src] >= input.eofFrom[S(i).src])
            => given[i] = Total(i)

ReadRound ==
    /\ minIndex = None => \A j \in Asked : PassedOver(j)
    /\ minIndex # None => minIndex \in Asked /\ readRez[minIndex] # "delayed"
    /\ ~allDelayed => \E j \in Asked : readRez[j] # "delayed"
FlushRound == minIndex = None => \A j \in Asked : flushed[j]

Promised(i) == EndsWithData(i) /\ ~SubtitlesAlone(i)
Drained == \A i \in Streams : /\ Promised(i) => given[i] = Total(i)
                              /\ lastAVRez[i] # "ok"

SentInv ==
    /\ \A i \in Streams : Finished(i) /\ OutOfData(i) /\ FlushedOut(i)
    /\ pc \in {"scan", "decide"} => IF flushMode THEN FlushRound ELSE ReadRound
    /\ pc = "decide" => at = 1
    /\ flushMode => Drained
    /\ pc = "ended" => flushMode /\ \A i \in Streams : flushed[i]

LEMMA AtFacts ==
    ASSUME Typed
    PROVE  /\ Streams = 1..Len(input.streams) /\ Len(input.streams) \in Nat \ {0}
           /\ at \in Streams /\ None \notin Streams /\ 1 \in Streams
<1>1. InputSpace(input)
  BY InputAssumption DEF Typed, Transfer
<1>. QED BY <1>1 DEF InputSpace, Streams, None, Typed, LoopTypes

\* A round adds its stream to those that were asked; a new loop starts with none.
LEMMA OneMoreAsked ==
    ASSUME Typed, NEW i \in Streams, Scanning(i), NextStream, input' = input
    PROVE  /\ Asked' = Asked \cup {i} /\ i \notin Asked
           /\ pc' \in {"scan", "decide"} /\ (pc' = "decide" => at' = 1)
<1>. DEFINE n == Len(input.streams)
<1>1. Streams = 1..n /\ n \in Nat \ {0} /\ i \in 1..n /\ at = i /\ pc = "scan" /\ Streams' = Streams
  BY AtFacts DEF Scanning, Streams
<1>2. Asked = {j \in 1..n : j < i}
  BY <1>1 DEF Asked
<1>. HIDE DEF n
<1>3. CASE i = n
  <2>1. pc' = "decide" /\ at' = 1
    BY <1>1, <1>3 DEF NextStream, n
  <2>. QED BY <1>1, <1>2, <1>3, <2>1 DEF Asked
<1>4. CASE i # n
  <2>1. pc' = "scan" /\ at' = i + 1
    BY <1>1, <1>4 DEF NextStream, n
  <2>. QED BY <1>1, <1>2, <1>4, <2>1 DEF Asked
<1>. QED BY <1>3, <1>4

LEMMA NoneAsked ==
    ASSUME Typed, input' = input, pc' = "scan", at' = 1 PROVE Asked' = {}
BY AtFacts DEF Asked, Streams

\* The loop over the streams ends a round: only one in which every stream is
\* passed over leaves no stream to take a packet from.
LEMMA ConsiderRound ==
    ASSUME Typed, NEW i \in Streams, Scanning(i), NEW rez \in BlockRez, Consider(i, rez),
           input' = input, flushMode' = flushMode, ReadRound
    PROVE  /\ pc' \in {"scan", "decide"} /\ (pc' = "decide" => at' = 1)
           /\ minIndex' # None => minIndex' \in Asked' /\ readRez'[minIndex'] # "delayed"
           /\ ~allDelayed' => \E j \in Asked' : readRez'[j] # "delayed"
           /\ minIndex' = None =>
                \/ Asked' = {}
                \/ /\ Asked' = Asked \cup {i} /\ minIndex = None /\ i \notin Asked
                   /\ rez = "delayed" \/ (rez = "eof2" /\ flushed[i])
<1>1. /\ readRez' = [readRez EXCEPT ![i] = rez]
      /\ readRez'[i] = rez /\ \A j \in Streams : j # i => readRez'[j] = readRez[j]
  BY DEF Consider, Typed, InfoTypes
<1>2. Asked \subseteq Streams
  BY DEF Asked
<1>3. i # None /\ pc = "scan"
  BY AtFacts DEF Scanning
<1>4. CASE rez = "notReady"
  <2>1. at' = 1 /\ minIndex' = None /\ allDelayed' = TRUE /\ pc' = pc
    BY <1>4 DEF Consider
  <2>. QED BY <1>3, <2>1, NoneAsked
<1>5. CASE rez = "delayed"
  <2>1. NextStream /\ minIndex' = minIndex /\ allDelayed' = allDelayed
    BY <1>5 DEF Consider
  <2>2. /\ Asked' = Asked \cup {i} /\ i \notin Asked
        /\ pc' \in {"scan", "decide"} /\ (pc' = "decide" => at' = 1)
    BY <2>1, OneMoreAsked
  <2>. QED BY <1>1, <1>2, <1>5, <2>1, <2>2 DEF ReadRound
<1>6. CASE rez \notin {"delayed", "notReady"}
  <2>1. /\ NextStream /\ allDelayed' = FALSE
        /\ minIndex' = IF Earlier(i) /\ (rez = "eof2" => ~flushed[i]) THEN i ELSE minIndex
    BY <1>6 DEF Consider
  <2>2. /\ Asked' = Asked \cup {i} /\ i \notin Asked
        /\ pc' \in {"scan", "decide"} /\ (pc' = "decide" => at' = 1)
    BY <2>1, OneMoreAsked
  <2>3. minIndex' = None => minIndex = None /\ rez = "eof2" /\ flushed[i]
    BY <1>3, <2>1 DEF Earlier
  <2>4. minIndex' \in {i, minIndex}
    BY <2>1
  <2>. QED BY <1>1, <1>2, <1>6, <2>1, <2>2, <2>3, <2>4 DEF ReadRound
<1>. QED BY <1>4, <1>5, <1>6

\* A step on which a stream is handed a block.
LEMMA HandSent ==
    ASSUME Typed, Typed', SentInv, NEW i \in Streams, Hungry(i), NEW b, Hand(i, b),
           b.rez \in Marks, b.cnt \in Nat, b.rez \in {"notReady", "delayed"} => b.cnt = 0,
           UNCHANGED <<input, sent, flushed, flushMode>>,
           \A j \in Streams : S(j).src # File => calls[S(j).src] <= calls'[S(j).src],
           \A j \in Streams : mark'[j] = "delayed" => Fragmented(j),
           b.rez = "delayed" =>
             /\ Fragmented(i)
             /\ (EndsWithData(i) /\ calls'[S(i).src] >= input.eofFrom[S(i).src])
                  => given[i] = Total(i)
             /\ \A j \in Streams :
                  S(j).src # File => \/ calls'[S(j).src] = calls[S(j).src]
                                     \/ calls'[S(j).src] < input.eofFrom[S(j).src],
           b.rez = "eof" =>
             /\ S(i).src # File => calls'[S(i).src] >= input.eofFrom[S(i).src]
             /\ EndsWithData(i) => given[i] + b.cnt = Total(i)
    PROVE  SentInv'
<1>1. /\ Streams' = Streams /\ \A j : S(j)' = S(j) /\ Total(j)' = Total(j)
      /\ \A j : Fragmented(j)' = Fragmented(j) /\ EndsWithData(j)' = EndsWithData(j)
  BY DEF Streams, S, Upto, Total, Fragmented, EndsWithData, LastCall
<1>2. /\ Scanning(i) /\ ~flushMode /\ lastAVRez[i] # "ok" /\ ~isEOF[i] /\ pc = "scan"
      /\ Consider(i, b.rez) /\ b.rez \in BlockRez /\ b.rez # "eof2"
  BY DEF Hungry, Scanning, Hand, Marks, BlockRez
<1>3. given' = [given EXCEPT ![i] = @ + b.cnt]
  BY HandedOver DEF Typed
<1>4. given'[i] = given[i] + b.cnt /\ \A j \in Streams : j # i => given'[j] = given[j]
  BY <1>3 DEF Typed, Transfer, CountsAreNat
<1>5. /\ readRez'[i] = b.rez
      /\ isEOF'[i] => b.rez = "eof"
      /\ lastAVRez'[i] # "ok" => b.rez \in {"notReady", "delayed"}
      /\ b.rez \in {"notReady", "delayed"} => lastAVRez'[i] = b.rez
      /\ \A j \in Streams : j # i =>
           /\ readRez'[j] = readRez[j] /\ isEOF'[j] = isEOF[j] /\ lastAVRez'[j] = lastAVRez[j]
  BY <1>2 DEF Hand, Consider, Typed, InfoTypes
<1>6. \A j \in Streams : Finished(j) /\ OutOfData(j) /\ FlushedOut(j)
  BY DEF SentInv
<1>7. ~flushed[i]
  BY <1>2, <1>6 DEF FlushedOut, OutOfData
<1>8. /\ \A j \in Streams : S(j).src # File =>
           /\ calls[S(j).src] \in Nat /\ calls'[S(j).src] \in Nat /\ input.eofFrom[S(j).src] \in Nat
      /\ \A j \in Streams : given[j] \in Nat
  <2>1. \A j \in Streams : S(j).src # File => S(j).src \in Containers /\ Containers' = Containers
    BY InputFacts DEF Typed, Transfer, Containers
  <2>2. input \in Inputs
    BY DEF Typed, Transfer
  <2>3. \A j \in Streams : S(j).src # File => input.eofFrom[S(j).src] \in Nat
    BY <2>2, EndFacts
  <2>. QED BY <2>1, <2>3 DEF Typed, Transfer, CountsAreNat
<1>9. ASSUME NEW j \in Streams PROVE Finished(j)'
  <2>1. CASE j = i
    BY <1>1, <1>4, <1>5, <2>1 DEF Finished
  <2>2. CASE j # i
    BY <1>1, <1>4, <1>5, <1>6, <1>8, <2>2 DEF Finished
  <2>. QED BY <2>1, <2>2
<1>10. ASSUME NEW j \in Streams PROVE OutOfData(j)'
  <2>1. CASE j = i
    <3>1. Fragmented(i) /\ lastAVRez'[i] # "ok" => sent'[i] = given'[i]
      BY <1>2, <1>4, <1>5, <1>6, <1>8 DEF OutOfData
    <3>. QED BY <1>1, <1>2, <1>5, <2>1, <3>1 DEF OutOfData
  <2>2. CASE j # i
    BY <1>1, <1>4, <1>5, <1>6, <2>2 DEF OutOfData
  <2>. QED BY <2>1, <2>2
<1>11. ASSUME NEW j \in Streams PROVE FlushedOut(j)'
  BY <1>4, <1>5, <1>6, <1>7 DEF FlushedOut
<1>12. ReadRound
  BY <1>2 DEF SentInv
<1>13. /\ pc' \in {"scan", "decide"} /\ (pc' = "decide" => at' = 1)
       /\ minIndex' # None => minIndex' \in Asked' /\ readRez'[minIndex'] # "delayed"
       /\ ~allDelayed' => \E j \in Asked' : readRez'[j] # "delayed"
       /\ minIndex' = None =>
            \/ Asked' = {}
            \/ /\ Asked' = Asked \cup {i} /\ minIndex = None /\ i \notin Asked
               /\ b.rez = "delayed" \/ (b.rez = "eof2" /\ flushed[i])
  BY <1>2, <1>12, ConsiderRound
<1>14. ASSUME minIndex' = None, NEW j \in Asked' PROVE PassedOver(j)'
  <2>1. Asked' = Asked \cup {i} /\ minIndex = None /\ i \notin Asked /\ b.rez = "delayed"
    BY <1>2, <1>13, <1>14
  <2>2. b.cnt = 0 /\ j \in Streams
    BY <2>1 DEF Asked
  <2>3. CASE j = i
    BY <1>1, <1>4, <1>5, <1>8, <2>1, <2>2, <2>3 DEF PassedOver
  <2>4. CASE j # i
    <3>1. PassedOver(j) /\ j \in Asked
      BY <1>12, <2>1, <2>4 DEF ReadRound
    <3>2. readRez[j] = "delayed" => S(j).src # File
      <4>1. readRez[j] = "delayed" => Fragmented(j)
        BY <1>6, <2>2 DEF OutOfData
      <4>2. StreamSpace(S(j))
        BY <2>2, InputFacts DEF Typed, Transfer
      <4>. QED BY <4>1, <4>2 DEF StreamSpace, Fragmented
    <3>. QED BY <1>1, <1>4, <1>5, <1>8, <2>1, <2>2, <2>4, <3>1, <3>2 DEF PassedOver
  <2>. QED BY <2>3, <2>4
<1>15. ReadRound'
  BY <1>13, <1>14 DEF ReadRound
<1>. QED BY <1>1, <1>2, <1>9, <1>10, <1>11, <1>13, <1>15 DEF SentInv

LEMMA ReadContainerSent ==
    ASSUME Typed, Typed', SentInv, NEW i \in Streams, ReadContainer(i) PROVE SentInv'
<1>. DEFINE b == ContainerBlock(i)
            c == S(i).src
<1>1. c # File /\ c \in Containers /\ Hungry(i)
  BY InputFacts DEF ReadContainer, Typed, Transfer
<1>2. /\ calls' = [calls EXCEPT ![c] = b.calls] /\ mark' = [mark EXCEPT ![i] = b.mark]
      /\ Hand(i, b) /\ UNCHANGED <<input, sent, flushed, flushMode>>
  BY DEF ReadContainer
<1>3. \A j \in Streams : mark[j] = "delayed" => Fragmented(j)
  BY DEF SentInv, OutOfData
<1>4. /\ "delayed" \in {b.rez, b.mark} => Fragmented(i)
      /\ b.rez = "delayed" =>
           \/ b.calls = calls[c] /\ Taken(i) = Upto(i, calls[c])
           \/ b.calls < input.eofFrom[c]
      /\ b.rez = "eof" =>
           /\ b.calls >= input.eofFrom[c]
           /\ EndsWithData(i) => Taken(i) + b.cnt = Total(i)
  BY <1>1, <1>3, ContainerEnds
<1>5. BlockFits(i, b) /\ b.rez \in Marks
  BY <1>1, ContainerBlockFits, ContainerBlockTypes DEF Typed
<1>. HIDE DEF b
<1>6. /\ calls[c] \in Nat /\ b.calls \in Nat /\ calls[c] <= b.calls /\ calls'[c] = b.calls
      /\ \A d \in Containers : d # c => calls'[d] = calls[d]
      /\ \A d \in Containers : calls[d] \in Nat
      /\ given[i] = Taken(i) /\ input.eofFrom[c] \in Nat
  BY <1>1, <1>2, <1>5, EndFacts DEF BlockFits, Typed, Transfer, CountsAreNat, HandedOverOnce
<1>7. \A j \in Streams : S(j).src # File => S(j).src \in Containers
  BY InputFacts DEF Typed, Transfer
<1>8. \A j \in Streams : S(j).src # File => calls[S(j).src] <= calls'[S(j).src]
  BY <1>6, <1>7
<1>9. \A j \in Streams : mark'[j] = "delayed" => Fragmented(j)
  BY <1>2, <1>3, <1>4 DEF Typed, BlockTypes
<1>10. ASSUME b.rez = "delayed"
       PROVE  /\ (EndsWithData(i) /\ calls'[c] >= input.eofFrom[c]) => given[i] = Total(i)
              /\ \A j \in Streams :
                   S(j).src # File => \/ calls'[S(j).src] = calls[S(j).src]
                                      \/ calls'[S(j).src] < input.eofFrom[S(j).src]
  <2>1. CASE b.calls = calls[c] /\ Taken(i) = Upto(i, calls[c])
    <3>1. ASSUME EndsWithData(i), calls[c] >= input.eofFrom[c] PROVE Upto(i, calls[c]) = Total(i)
      <4>1. input.calls[c] \in Nat /\ input.eofFrom[c] >= input.calls[c]
        BY <1>1, <3>1, EndFacts DEF Typed, Transfer
      <4>2. calls[c] >= input.calls[c]
        BY <1>6, <3>1, <4>1
      <4>. QED BY <1>1, <1>6, <4>2, AllDelivered DEF Typed, Transfer
    <3>2. \A d \in Containers : calls'[d] = calls[d]
      BY <1>6, <2>1
    <3>. QED BY <1>6, <1>7, <2>1, <3>1, <3>2
  <2>2. CASE b.calls < input.eofFrom[c]
    BY <1>6, <1>7, <2>2
  <2>. QED BY <1>4, <1>10, <2>1, <2>2
<1>11. b.cnt \in Nat /\ (b.rez \in {"notReady", "delayed"} => b.cnt = 0)
  BY <1>5 DEF BlockFits
<1>12. b.rez = "delayed" =>
         /\ Fragmented(i)
         /\ (EndsWithData(i) /\ calls'[c] >= input.eofFrom[c]) => given[i] = Total(i)
         /\ \A j \in Streams :
              S(j).src # File => \/ calls'[S(j).src] = calls[S(j).src]
                                 \/ calls'[S(j).src] < input.eofFrom[S(j).src]
  BY <1>4, <1>10
<1>13. b.rez = "eof" =>
         /\ S(i).src # File => calls'[c] >= input.eofFrom[c]
         /\ EndsWithData(i) => given[i] + b.cnt = Total(i)
  BY <1>4, <1>6
<1>. QED BY <1>1, <1>2, <1>5, <1>8, <1>9, <1>11, <1>12, <1>13, HandSent

LEMMA ReadFileSent ==
    ASSUME Typed, Typed', SentInv, NEW i \in Streams, ReadFile(i) PROVE SentInv'
<1>. DEFINE b == FileBlockOf(i)
<1>1. /\ S(i).src = File /\ Hungry(i) /\ Hand(i, b)
      /\ UNCHANGED <<input, calls, mark, sent, flushed, flushMode>>
  BY DEF ReadFile
<1>2. /\ Taken(i) \in Nat /\ Total(i) \in Nat /\ Taken(i) <= Total(i) /\ FileBlock \in Nat \ {0}
      /\ given[i] = Taken(i)
  BY <1>1, UptoIsNat, InputFacts
  DEF Typed, Transfer, CountsAreNat, WithinLimit, Limit, Taken, HandedOverOnce
<1>3. /\ b.cnt \in Nat /\ b.rez \in {"ok", "eof"}
      /\ b.rez = "eof" => Taken(i) + b.cnt = Total(i)
  BY <1>2 DEF FileBlockOf, Least
<1>. HIDE DEF b
<1>4. \A j \in Streams : mark'[j] = "delayed" => Fragmented(j)
  BY <1>1 DEF SentInv, OutOfData
<1>5. \A j \in Streams : S(j).src # File => calls[S(j).src] <= calls'[S(j).src]
  BY <1>1, InputFacts DEF Typed, Transfer, CountsAreNat
<1>. QED BY <1>1, <1>2, <1>3, <1>4, <1>5, HandSent DEF Marks

LEMMA ReadNothingSent ==
    ASSUME Typed, SentInv, NEW i \in Streams, ReadNothing(i) PROVE SentInv'
<1>. DEFINE rez == IF lastAVRez[i] = "ok" THEN "ok" ELSE "eof2"
<1>1. /\ Scanning(i) /\ ~flushMode /\ pc = "scan" /\ Consider(i, rez)
      /\ rez \in BlockRez /\ rez \in {"ok", "eof2"}
      /\ rez = "eof2" => lastAVRez[i] # "ok" /\ isEOF[i]
      /\ UNCHANGED <<input, containerVars, readerVars, lastAVRez, isEOF, flushed, flushMode>>
  BY DEF ReadNothing, Scanning, BlockRez
<1>2. rez = "ok" => lastAVRez[i] = "ok"
  OBVIOUS
<1>. HIDE DEF rez
<1>3. /\ readRez'[i] = rez /\ \A j \in Streams : j # i => readRez'[j] = readRez[j]
  BY <1>1 DEF Consider, Typed, InfoTypes
<1>4. /\ UNCHANGED <<input, calls, mark, given, sent, lastAVRez, isEOF, flushed, flushMode>>
      /\ Streams' = Streams /\ \A j : S(j)' = S(j) /\ Total(j)' = Total(j)
      /\ \A j : Fragmented(j)' = Fragmented(j) /\ EndsWithData(j)' = EndsWithData(j)
  BY <1>1 DEF containerVars, readerVars, Streams, S, Upto, Total, Fragmented, EndsWithData, LastCall
<1>5. \A j \in Streams : Finished(j) /\ OutOfData(j) /\ FlushedOut(j)
  BY DEF SentInv
<1>6. ASSUME NEW j \in Streams PROVE Finished(j)' /\ OutOfData(j)' /\ FlushedOut(j)'
  <2>1. Finished(j)'
    BY <1>4, <1>5 DEF Finished
  <2>2. OutOfData(j)' /\ FlushedOut(j)'
    BY <1>1, <1>2, <1>3, <1>4, <1>5 DEF OutOfData, FlushedOut
  <2>. QED BY <2>1, <2>2
<1>7. ReadRound
  BY <1>1 DEF SentInv
<1>8. /\ pc' \in {"scan", "decide"} /\ (pc' = "decide" => at' = 1)
      /\ minIndex' # None => minIndex' \in Asked' /\ readRez'[minIndex'] # "delayed"
      /\ ~allDelayed' => \E j \in Asked' : readRez'[j] # "delayed"
      /\ minIndex' = None =>
           \/ Asked' = {}
           \/ /\ Asked' = Asked \cup {i} /\ minIndex = None /\ i \notin Asked
              /\ rez = "delayed" \/ (rez = "eof2" /\ flushed[i])
  BY <1>1, <1>7, ConsiderRound
<1>9. ASSUME minIndex' = None, NEW j \in Asked' PROVE PassedOver(j)'
  <2>1. /\ Asked' = Asked \cup {i} /\ minIndex = None /\ i \notin Asked
        /\ rez = "eof2" /\ flushed[i]
    BY <1>1, <1>8, <1>9
  <2>2. CASE j = i
    BY <1>3, <1>4, <2>1, <2>2 DEF PassedOver
  <2>3. CASE j # i
    <3>1. PassedOver(j) /\ j \in Streams
      BY <1>7, <2>1, <2>3 DEF ReadRound, Asked
    <3>. QED BY <1>3, <1>4, <2>3, <3>1 DEF PassedOver
  <2>. QED BY <2>2, <2>3
<1>10. ReadRound'
  BY <1>8, <1>9 DEF ReadRound
<1>. QED BY <1>1, <1>4, <1>6, <1>8, <1>10 DEF SentInv

\* The parts of the invariant about the streams, where nothing they are about
\* changes.
LEMMA StreamsStay ==
    ASSUME SentInv, UNCHANGED <<input, calls, given, sent, isEOF, readRez, lastAVRez, flushed>>,
           flushMode => flushMode',
           \A j \in Streams : mark'[j] = "delayed" => mark[j] = "delayed"
    PROVE  \A j \in Streams' : Finished(j)' /\ OutOfData(j)' /\ FlushedOut(j)'
<1>1. /\ Streams' = Streams /\ \A j : S(j)' = S(j) /\ Total(j)' = Total(j)
      /\ \A j : Fragmented(j)' = Fragmented(j) /\ EndsWithData(j)' = EndsWithData(j)
  BY DEF Streams, S, Upto, Total, Fragmented, EndsWithData, LastCall
<1>2. ASSUME NEW j \in Streams PROVE Finished(j)' /\ OutOfData(j)' /\ FlushedOut(j)'
  <2>1. Finished(j) /\ OutOfData(j) /\ FlushedOut(j)
    BY DEF SentInv
  <2>2. Finished(j)'
    BY <1>1, <2>1 DEF Finished
  <2>3. OutOfData(j)'
    BY <1>1, <2>1 DEF OutOfData
  <2>4. FlushedOut(j)'
    BY <2>1 DEF FlushedOut
  <2>. QED BY <2>2, <2>3, <2>4
<1>. QED BY <1>1, <1>2

LEMMA DrainedStays ==
    ASSUME UNCHANGED <<input, given, lastAVRez>>, Drained PROVE Drained'
BY DEF Drained, Streams, S, Upto, Total, Fragmented, EndsWithData, LastCall, Promised,
       SubtitlesAlone, AllFragmented

LEMMA ScanSent ==
    ASSUME Typed, SentInv, NEW i \in Streams, ScanForFlush(i) PROVE SentInv'
<1>1. /\ Scanning(i) /\ flushMode /\ pc = "scan" /\ NextStream
      /\ minIndex' = IF Earlier(i) /\ ~flushed[i] THEN i ELSE minIndex
      /\ UNCHANGED <<input, containerVars, readerVars, infoVars, flushMode>>
  BY DEF ScanForFlush, Scanning
<1>2. UNCHANGED <<input, calls, mark, given, sent, isEOF, readRez, lastAVRez, flushed, flushMode>>
  BY <1>1 DEF containerVars, readerVars, infoVars
<1>3. /\ Asked' = Asked \cup {i}
      /\ pc' \in {"scan", "decide"} /\ (pc' = "decide" => at' = 1)
  BY <1>1, OneMoreAsked
<1>4. minIndex' = None => minIndex = None /\ flushed[i]
  BY <1>1, AtFacts DEF Earlier
<1>5. FlushRound'
  BY <1>1, <1>2, <1>3, <1>4 DEF SentInv, FlushRound
<1>6. Drained'
  BY <1>1, <1>2, DrainedStays DEF SentInv
<1>. QED BY <1>1, <1>2, <1>3, <1>5, <1>6, StreamsStay DEF SentInv

\* A new loop over the streams.
LEMMA RescanRounds ==
    ASSUME Typed, SentInv, pc = "decide", Rescan, input' = input
    PROVE  pc' = "scan" /\ ReadRound' /\ FlushRound'
<1>1. pc' = "scan" /\ minIndex' = None /\ allDelayed' = TRUE /\ at' = 1
  BY DEF Rescan, SentInv
<1>2. Asked' = {}
  BY <1>1, NoneAsked
<1>. QED BY <1>1, <1>2 DEF ReadRound, FlushRound

LEMMA ResetSent ==
    ASSUME Typed, SentInv, ResetDelayedMark PROVE SentInv'
<1>1. /\ pc = "decide" /\ Rescan
      /\ UNCHANGED <<input, calls, given, sent, isEOF, readRez, lastAVRez, flushed, flushMode>>
  BY DEF ResetDelayedMark, readerVars, infoVars
<1>2. \A j \in Streams : mark'[j] = "delayed" => mark[j] = "delayed"
  BY DEF ResetDelayedMark
<1>3. pc' = "scan" /\ ReadRound' /\ FlushRound'
  BY <1>1, RescanRounds
<1>4. flushMode' => Drained'
  BY <1>1, DrainedStays DEF SentInv
<1>. QED BY <1>1, <1>2, <1>3, <1>4, StreamsStay DEF SentInv

\* A reader of subtitles asks for more when it has nothing left, and then
\* makes an empty packet.
LEMMA SubtitlesMore ==
    ASSUME Typed, NEW i \in Streams, Fragmented(i), ReaderPacket(i).rez = "more"
    PROVE  sent[i] = given[i] /\ ReaderPacket(i).pkt.size = 0
<1>1. ReaderPacket(i) = ReadPgs(i)
  BY DEF Fragmented, ReaderPacket
<1>2. Rest(i) = 0
  BY <1>1 DEF ReadPgs, Got
<1>3. ReaderPacket(i).pkt.size = 0
  BY <1>1, <1>2 DEF ReadPgs, More, Pkt
<1>. QED BY <1>2, <1>3 DEF Rest, Typed, Transfer, CountsAreNat, ReaderTypes

\* flushPacket leaves nothing in the reader: PGS, which has none, has nothing
\* left by then.
LEMMA FlushedRest ==
    ASSUME Typed, NEW i \in Streams, OutOfData(i), lastAVRez[i] # "ok"
    PROVE  FlushPacket(i).size \in Nat /\ sent[i] + FlushPacket(i).size = given[i]
<1>1. S(i).kind \in {"packets", "nals", "pgs"}
  BY ReaderFacts
<1>2. sent[i] \in Nat /\ given[i] \in Nat /\ Rest(i) \in Nat /\ Rest(i) = given[i] - sent[i]
  BY ReaderFacts DEF Rest, Typed, Transfer, CountsAreNat
<1>3. \A n, d, f : Pkt(n, d, 0, f).size = n
  BY DEF Pkt
<1>4. CASE S(i).kind = "pgs"
  <2>1. FlushPacket(i).size = 0
    BY <1>3, <1>4 DEF FlushPacket
  <2>2. sent[i] = given[i]
    BY <1>4 DEF OutOfData, Fragmented
  <2>. QED BY <1>2, <2>1, <2>2
<1>5. CASE S(i).kind # "pgs"
  <2>1. FlushPacket(i).size = Rest(i)
    BY <1>1, <1>3, <1>5 DEF FlushPacket
  <2>. QED BY <1>2, <2>1
<1>. QED BY <1>4, <1>5

\* What Return leaves of a packet of stream i.
LEMMA Returned ==
    ASSUME Typed, SentInv, pc = "decide", NEW i \in Streams, NEW pkt, pkt.size \in Nat, NEW dts,
           Return(i, pkt, dts)
    PROVE  /\ UNCHANGED <<input, calls, mark, given, isEOF, readRez, flushMode>>
           /\ sent'[i] = sent[i] + pkt.size /\ \A j \in Streams : j # i => sent'[j] = sent[j]
           /\ pc' = "scan" /\ ReadRound' /\ FlushRound'
           /\ Streams' = Streams
           /\ \A j \in Streams : Finished(j)' = Finished(j) /\ Fragmented(j)' = Fragmented(j)
<1>1. /\ UNCHANGED <<input, calls, mark, given, isEOF, readRez, flushMode>> /\ Rescan
      /\ sent' = [sent EXCEPT ![i] = @ + pkt.size]
  BY DEF Return, containerVars
<1>2. pc' = "scan" /\ ReadRound' /\ FlushRound'
  BY <1>1, RescanRounds
<1>3. sent'[i] = sent[i] + pkt.size /\ \A j \in Streams : j # i => sent'[j] = sent[j]
  BY <1>1 DEF Typed, ReaderTypes
<1>4. \A j \in Streams : Finished(j)' = Finished(j) /\ Fragmented(j)' = Fragmented(j)
  BY <1>1 DEF Finished, Streams, S, Upto, Total, Fragmented, EndsWithData, LastCall
<1>. QED BY <1>1, <1>2, <1>3, <1>4 DEF Streams

LEMMA SendSent ==
    ASSUME Typed, SentInv, SendPacket PROVE SentInv'
<1>1. PICK i \in Streams : i = minIndex
  BY DEF Typed, LoopTypes, SendPacket
<1>. DEFINE r == ReaderPacket(i)
<1>2. /\ pc = "decide" /\ ~flushMode /\ readRez[i] # "eof2" /\ i # None
      /\ Return(i, r.pkt, r.pkt.dts + S(i).shift)
      /\ lastAVRez' = [lastAVRez EXCEPT ![i] = r.rez] /\ UNCHANGED flushed
  BY <1>1 DEF SendPacket
<1>3. r.pkt.size \in Nat /\ r.rez \in {"ok", "more"}
  BY ReaderPacketFits DEF PacketFits
<1>4. Fragmented(i) /\ r.rez = "more" => sent[i] = given[i] /\ r.pkt.size = 0
  BY SubtitlesMore
<1>. HIDE DEF r
<1>5. /\ UNCHANGED <<input, calls, mark, given, isEOF, readRez, flushMode>>
      /\ sent'[i] = sent[i] + r.pkt.size /\ \A j \in Streams : j # i => sent'[j] = sent[j]
      /\ pc' = "scan" /\ ReadRound' /\ Streams' = Streams
      /\ \A j \in Streams : Finished(j)' = Finished(j) /\ Fragmented(j)' = Fragmented(j)
  BY <1>2, <1>3, Returned
<1>6. /\ lastAVRez'[i] = r.rez /\ \A j \in Streams : j # i => lastAVRez'[j] = lastAVRez[j]
      /\ sent[i] \in Nat
  BY <1>2 DEF Typed, InfoTypes, ReaderTypes
<1>7. \A j \in Streams : Finished(j) /\ OutOfData(j) /\ FlushedOut(j)
  BY DEF SentInv
<1>8. readRez[i] # "delayed" /\ ~flushed[i]
  BY <1>1, <1>2, <1>7 DEF SentInv, ReadRound, FlushedOut
<1>9. ASSUME NEW j \in Streams PROVE OutOfData(j)' /\ FlushedOut(j)'
  <2>1. CASE j = i
    <3>1. Fragmented(i) /\ lastAVRez'[i] # "ok" => sent'[i] = given'[i]
      BY <1>3, <1>4, <1>5, <1>6
    <3>. QED BY <1>2, <1>5, <1>7, <1>8, <2>1, <3>1 DEF OutOfData, FlushedOut
  <2>2. CASE j # i
    BY <1>2, <1>5, <1>6, <1>7, <2>2 DEF OutOfData, FlushedOut
  <2>. QED BY <2>1, <2>2
<1>. QED BY <1>2, <1>5, <1>7, <1>9 DEF SentInv

LEMMA FlushSent ==
    ASSUME Typed, SentInv, FlushStream \/ FlushRest PROVE SentInv'
<1>1. PICK i \in Streams : i = minIndex
  BY DEF Typed, LoopTypes, FlushStream, FlushRest
<1>. DEFINE pkt == FlushPacket(i)
<1>2. /\ pc = "decide" /\ \E dts : Return(i, pkt, dts)
      /\ flushed' = [flushed EXCEPT ![i] = TRUE] /\ lastAVRez' = lastAVRez
      /\ flushMode \/ readRez[i] = "eof2"
  BY <1>1 DEF FlushStream, FlushRest
<1>3. \A j \in Streams : Finished(j) /\ OutOfData(j) /\ FlushedOut(j)
  BY DEF SentInv
<1>4. lastAVRez[i] # "ok"
  BY <1>2, <1>3 DEF SentInv, Drained, OutOfData
<1>5. pkt.size \in Nat /\ sent[i] + pkt.size = given[i]
  BY <1>3, <1>4, FlushedRest
<1>. HIDE DEF pkt
<1>6. /\ UNCHANGED <<input, calls, mark, given, isEOF, readRez, flushMode>>
      /\ sent'[i] = sent[i] + pkt.size /\ \A j \in Streams : j # i => sent'[j] = sent[j]
      /\ pc' = "scan" /\ ReadRound' /\ FlushRound' /\ Streams' = Streams
      /\ \A j \in Streams : Finished(j)' = Finished(j) /\ Fragmented(j)' = Fragmented(j)
  BY <1>2, <1>5, Returned
<1>7. flushed'[i] /\ \A j \in Streams : j # i => flushed'[j] = flushed[j]
  BY <1>2 DEF Typed, InfoTypes
<1>8. ASSUME NEW j \in Streams PROVE OutOfData(j)' /\ FlushedOut(j)'
  <2>1. CASE j = i
    BY <1>2, <1>3, <1>5, <1>6, <2>1 DEF OutOfData, FlushedOut
  <2>2. CASE j # i
    BY <1>2, <1>3, <1>6, <1>7, <2>2 DEF OutOfData, FlushedOut
  <2>. QED BY <2>1, <2>2
<1>9. flushMode' => Drained'
  BY <1>2, <1>6, DrainedStays DEF SentInv
<1>. QED BY <1>3, <1>6, <1>8, <1>9 DEF SentInv

\* When everything is to be flushed, every stream has been given what there
\* is of it: one at its end with it, and one that is delayed since another
\* track of its container is at its end.
LEMMA EnterDrained ==
    ASSUME Typed, SentInv, EnterFlushMode PROVE Drained
<1>1. pc = "decide" /\ minIndex = None /\ ~allDelayed /\ ~flushMode
  BY DEF EnterFlushMode
<1>2. \A j \in Streams : PassedOver(j) /\ Finished(j) /\ OutOfData(j)
  BY <1>1 DEF SentInv, ReadRound, Asked
<1>3. PICK e \in Streams : readRez[e] # "delayed"
  BY <1>1 DEF SentInv, ReadRound, Asked
<1>4. \A j \in Streams : readRez[j] # "delayed" => readRez[j] = "eof2" /\ isEOF[j]
  BY <1>2 DEF PassedOver, OutOfData
<1>5. ASSUME NEW i \in Streams PROVE lastAVRez[i] # "ok"
  BY <1>2 DEF PassedOver, OutOfData
<1>6. ASSUME NEW i \in Streams, Promised(i) PROVE given[i] = Total(i)
  <2>1. CASE readRez[i] # "delayed"
    BY <1>2, <1>4, <1>6, <2>1 DEF Finished, Promised
  <2>2. CASE readRez[i] = "delayed"
    <3>1. Fragmented(i) /\ S(i).src # File
      <4>1. Fragmented(i)
        BY <1>2, <2>2 DEF OutOfData
      <4>2. StreamSpace(S(i))
        BY InputFacts DEF Typed, Transfer
      <4>. QED BY <4>1, <4>2 DEF StreamSpace, Fragmented
    <3>2. PICK j \in Streams : S(j).src = S(i).src /\ readRez[j] # "delayed"
      <4>1. CASE AllFragmented(S(i).src)
        BY <1>3, <1>6, <3>1, <4>1 DEF Promised, SubtitlesAlone
      <4>2. CASE ~AllFragmented(S(i).src)
        <5>1. PICK j \in Streams : S(j).src = S(i).src /\ ~Fragmented(j)
          BY <4>2 DEF AllFragmented
        <5>. QED BY <1>2, <5>1 DEF OutOfData
      <4>. QED BY <4>1, <4>2
    <3>3. calls[S(i).src] >= input.eofFrom[S(i).src]
      BY <1>2, <1>4, <3>1, <3>2 DEF Finished
    <3>. QED BY <1>2, <1>6, <2>2, <3>3 DEF PassedOver, Promised
  <2>. QED BY <2>1, <2>2
<1>. QED BY <1>5, <1>6 DEF Drained

LEMMA EnterSent ==
    ASSUME Typed, SentInv, EnterFlushMode PROVE SentInv'
<1>1. /\ pc = "decide" /\ Rescan /\ flushMode' = TRUE
      /\ UNCHANGED <<input, calls, mark, given, sent, isEOF, readRez, lastAVRez, flushed>>
  BY DEF EnterFlushMode, containerVars, readerVars, infoVars
<1>2. pc' = "scan" /\ ReadRound' /\ FlushRound'
  BY <1>1, RescanRounds
<1>3. Drained'
  BY <1>1, EnterDrained, DrainedStays
<1>. QED BY <1>1, <1>2, <1>3, StreamsStay DEF SentInv

LEMMA EndSent ==
    ASSUME Typed, SentInv, ReturnEof \/ \E i \in Streams : ReadThrows(i) PROVE SentInv'
<1>1. UNCHANGED <<input, calls, mark, given, sent, isEOF, readRez, lastAVRez, flushed, flushMode>>
  BY DEF ReturnEof, ReadThrows, containerVars, readerVars, infoVars
<1>2. flushMode' => Drained'
  BY <1>1, DrainedStays DEF SentInv
<1>3. CASE ReturnEof
  <2>1. pc = "decide" /\ minIndex = None /\ flushMode /\ pc' = "ended"
    BY <1>3 DEF ReturnEof
  <2>2. \A i \in Streams : flushed[i]
    BY <2>1 DEF SentInv, FlushRound, Asked
  <2>. QED BY <1>1, <1>2, <2>1, <2>2, StreamsStay DEF SentInv, Streams
<1>4. CASE \E i \in Streams : ReadThrows(i)
  <2>1. pc' = "thrown"
    BY <1>4 DEF ReadThrows
  <2>. QED BY <1>1, <1>2, <2>1, StreamsStay DEF SentInv
<1>. QED BY <1>3, <1>4

LEMMA SentStarts == Init => SentInv
<1>. SUFFICES ASSUME Init PROVE SentInv
  OBVIOUS
<1>1. Typed
  BY InitTyped
<1>2. /\ pc = "scan" /\ at = 1 /\ minIndex = None /\ allDelayed = TRUE /\ flushMode = FALSE
      /\ \A i \in Streams : /\ ~isEOF[i] /\ ~flushed[i] /\ mark[i] = "ok" /\ readRez[i] = "ok"
                            /\ sent[i] = given[i]
  BY DEF Init
<1>3. Asked = {}
  BY <1>1, <1>2, AtFacts DEF Asked
<1>4. ReadRound
  BY <1>2, <1>3 DEF ReadRound
<1>5. \A i \in Streams : Finished(i) /\ OutOfData(i) /\ FlushedOut(i)
  BY <1>2 DEF Finished, OutOfData, FlushedOut
<1>. QED BY <1>2, <1>4, <1>5 DEF SentInv

LEMMA SentGoesOn == Typed /\ SentInv /\ [Next]_vars => SentInv'
<1>. SUFFICES ASSUME Typed, SentInv, [Next]_vars PROVE SentInv'
  OBVIOUS
<1>1. Typed'
  BY NextTyped
<1>2. ASSUME NEW i \in Streams, ReadNothing(i) \/ ScanForFlush(i) PROVE SentInv'
  BY <1>2, ReadNothingSent, ScanSent
<1>3. ASSUME NEW i \in Streams, ReadContainer(i) \/ ReadFile(i) PROVE SentInv'
  BY <1>1, <1>3, ReadContainerSent, ReadFileSent
<1>4. CASE UNCHANGED vars
  <2>1. /\ UNCHANGED <<input, calls, mark, given, sent, isEOF, readRez, lastAVRez, flushed,
                       flushMode, pc, at, minIndex, allDelayed>>
    BY <1>4 DEF vars, containerVars, readerVars, infoVars
  <2>2. flushMode' => Drained'
    BY <2>1, DrainedStays DEF SentInv
  <2>3. Streams' = Streams /\ Asked' = Asked
    BY <2>1 DEF Streams, Asked
  <2>4. \A j \in Streams : PassedOver(j)' = PassedOver(j)
    BY <2>1 DEF PassedOver, S, Upto, Total, EndsWithData, LastCall
  <2>5. Asked \subseteq Streams
    BY DEF Asked
  <2>6. ReadRound' = ReadRound /\ FlushRound' = FlushRound
    BY <2>1, <2>3, <2>4, <2>5 DEF ReadRound, FlushRound
  <2>. QED BY <2>1, <2>2, <2>3, <2>6, StreamsStay DEF SentInv
<1>. QED BY <1>2, <1>3, <1>4, ResetSent, SendSent, FlushSent, EnterSent, EndSent
     DEF Next, Work, Read, Stopped

\* Whatever the demuxers deliver and when: once readPacket has returned its
\* end, every unit of every stream is in a packet, although readBlock removes
\* a block a call late, streams are delayed and passed over, and flushPacket
\* is called for each stream once.  What is excepted is lost by the code.
THEOREM EverythingSent == Spec => []AllSent
<1>1. Typed /\ SentInv => AllSent
  BY DEF SentInv, Drained, FlushedOut, Promised, AllSent
<1>. QED BY <1>1, InitTyped, NextTyped, SentStarts, SentGoesOn, PTL DEF Spec

-----------------------------------------------------------------------------
(* The order of decoding.                                                  *)

\* The time of the next packet of a stream of sound or video, and what the
\* merge knows of it.
Due(i) == Time(i, IF S(i).kind = "nals" THEN frameNo[i] ELSE FrameOf(i)) + S(i).shift
InTime(i) ==
    /\ Due(i) <= lastDTS[i]
    /\ Known(i) => /\ Due(i) = lastDTS[i]
                   /\ Clocked(lastProcessed.stream) => lastProcessed.dts <= lastDTS[i]
    /\ S(i).kind = "packets" => sent[i] % S(i).frame = 0
    /\ S(i).kind = "nals" => frameNo[i] <= FrameOf(i)

Running(i) == ~Fragmented(i) /\ ~flushed[i]

\* Of the streams asked in a round the one with the least time is found.
Leading == \A i \in Asked : Running(i) => minIndex # None /\ lastDTS[minIndex] <= lastDTS[i]

OrderInv ==
    /\ \A i \in Streams : Running(i) => InTime(i) /\ ~flushMode
    /\ pc \in {"scan", "decide"} => /\ minIndex # None => ~flushed[minIndex]
                                    /\ ~flushMode => Leading

LEMMA StepGrows ==
    ASSUME NEW s \in Nat, NEW f \in Nat \ {0}
    PROVE  /\ (s + f) \div f = s \div f + 1
           /\ s % f = 0 => (s + f) % f = 0
<1>1. /\ s \div f \in Nat /\ s % f \in 0..(f - 1) /\ s = f * (s \div f) + (s % f)
  OBVIOUS
<1>2. /\ (s + f) % f \in 0..(f - 1) /\ s + f = f * ((s + f) \div f) + ((s + f) % f)
  OBVIOUS
<1>3. (s + f) \div f = s \div f + 1
  OBVIOUS
<1>4. f * (s \div f + 1) = f * (s \div f) + f
  BY <1>1
<1>. QED BY <1>1, <1>2, <1>3, <1>4

\* The times of a stream's frames.
LEMMA TimesGrow ==
    ASSUME Typed, NEW i \in Streams
    PROVE  /\ \A f \in Int : Time(i, f) \in Int /\ Time(i, f + 1) = Time(i, f) + S(i).step
           /\ \A f, g \in Int : f <= g => Time(i, f) <= Time(i, g)
<1>1. S(i).first \in Int /\ S(i).step \in Nat \ {0}
  BY InputFacts DEF StreamSpace, Typed, Transfer
<1>2. ASSUME NEW f \in Int
      PROVE  Time(i, f) \in Int /\ Time(i, f + 1) = Time(i, f) + S(i).step
  BY <1>1 DEF Time
<1>3. ASSUME NEW x \in Int, NEW y \in Int, NEW n \in Nat \ {0}, x <= y PROVE x * n <= y * n
  BY <1>3
<1>4. ASSUME NEW f \in Int, NEW g \in Int, f <= g PROVE Time(i, f) <= Time(i, g)
  <2>1. f * S(i).step <= g * S(i).step
    BY <1>1, <1>3, <1>4
  <2>. QED BY <1>1, <2>1 DEF Time
<1>. QED BY <1>2, <1>4

\* A packet of sound or video: its time is that of the next frame, unless it
\* is empty, and it leaves the clock where its time and duration say.
LEMMA PacketClock ==
    ASSUME Typed, NEW i \in Streams, ~Fragmented(i), InTime(i)
    PROVE  LET pkt == ReaderPacket(i).pkt
               n == sent[i] + pkt.size
               f == IF S(i).kind = "nals" THEN pkt.frame ELSE n \div S(i).frame
           IN  /\ Due(i) <= pkt.dts + S(i).shift /\ pkt.duration >= 0
               /\ pkt.size > 0 => pkt.dts + S(i).shift = Due(i)
               /\ Time(i, f) = pkt.dts + pkt.duration
               /\ S(i).kind = "packets" => n % S(i).frame = 0
               /\ S(i).kind = "nals" => f <= n \div S(i).frame
<1>. DEFINE pkt == ReaderPacket(i).pkt
            n == sent[i] + pkt.size
<1>1. /\ sent[i] \in Nat /\ frameNo[i] \in Int /\ FrameOf(i) \in Int /\ Rest(i) \in Nat
      /\ S(i).frame \in Nat \ {0} /\ S(i).shift \in Int /\ S(i).step \in Int
      /\ S(i).kind \in {"packets", "nals"}
      /\ FrameOf(i) = sent[i] \div S(i).frame
  BY ReaderFacts DEF Fragmented, FrameOf
<1>2. S(i).step \in Nat \ {0}
  BY InputFacts DEF StreamSpace, Typed, Transfer
<1>3. CASE S(i).kind = "packets"
  <2>1. ReaderPacket(i) = ReadFrame(i) /\ Due(i) = Time(i, FrameOf(i)) + S(i).shift
    BY <1>3 DEF ReaderPacket, Due
  <2>2. Time(i, FrameOf(i)) \in Int /\ sent[i] % S(i).frame = 0
    BY <1>1, <1>3, TimesGrow DEF InTime
  <2>3. CASE Rest(i) < S(i).frame
    <3>1. pkt.size = 0 /\ pkt.dts = Time(i, FrameOf(i)) /\ pkt.duration = 0
      BY <2>1, <2>3 DEF ReadFrame, More, Pkt
    <3>2. n = sent[i]
      BY <1>1, <3>1
    <3>3. n \div S(i).frame = FrameOf(i) /\ n % S(i).frame = 0
      BY <1>1, <2>2, <3>2
    <3>. QED BY <1>1, <1>3, <2>1, <2>2, <3>1, <3>3
  <2>4. CASE ~(Rest(i) < S(i).frame)
    <3>1. pkt.size = S(i).frame /\ pkt.dts = Time(i, FrameOf(i)) /\ pkt.duration = S(i).step
      BY <2>1, <2>4 DEF ReadFrame, Got, Pkt
    <3>2. n \div S(i).frame = FrameOf(i) + 1 /\ n % S(i).frame = 0
      BY <1>1, <2>2, <3>1, StepGrows
    <3>3. Time(i, FrameOf(i) + 1) = Time(i, FrameOf(i)) + S(i).step
      BY <1>1, TimesGrow
    <3>4. pkt.size > 0 /\ pkt.duration >= 0
      BY <1>1, <1>2, <3>1
    <3>5. Time(i, n \div S(i).frame) = pkt.dts + pkt.duration /\ pkt.dts + S(i).shift = Due(i)
      BY <2>1, <3>1, <3>2, <3>3
    <3>6. Due(i) <= pkt.dts + S(i).shift
      BY <1>1, <2>1, <2>2, <3>1
    <3>. QED BY <1>3, <3>2, <3>4, <3>5, <3>6
  <2>. QED BY <2>3, <2>4
<1>4. CASE S(i).kind = "nals"
  <2>1. ReaderPacket(i) = ReadNal(i) /\ Due(i) = Time(i, frameNo[i]) + S(i).shift
    BY <1>4 DEF ReaderPacket, Due
  <2>2. /\ frameNo[i] <= FrameOf(i) /\ Time(i, frameNo[i]) \in Int /\ Time(i, FrameOf(i)) \in Int
        /\ Time(i, frameNo[i]) <= Time(i, FrameOf(i))
    BY <1>1, <1>4, TimesGrow DEF InTime
  <2>3. CASE Rest(i) < 2
    <3>1. pkt.size = 0 /\ pkt.dts = Time(i, frameNo[i]) /\ pkt.duration = 0 /\ pkt.frame = frameNo[i]
      BY <2>1, <2>3 DEF ReadNal, More, Pkt
    <3>2. n = sent[i]
      BY <1>1, <3>1
    <3>. QED BY <1>1, <1>4, <2>1, <2>2, <3>1, <3>2
  <2>4. CASE ~(Rest(i) < 2) /\ frameNo[i] # FrameOf(i)
    <3>1. pkt.size = 0 /\ pkt.dts = Time(i, FrameOf(i)) /\ pkt.duration = 0 /\ pkt.frame = FrameOf(i)
      BY <2>1, <2>4 DEF ReadNal, Got, Pkt
    <3>2. n = sent[i]
      BY <1>1, <3>1
    <3>. QED BY <1>1, <1>4, <2>1, <2>2, <3>1, <3>2
  <2>5. CASE ~(Rest(i) < 2) /\ frameNo[i] = FrameOf(i)
    <3>1. pkt.size = 1 /\ pkt.dts = Time(i, frameNo[i]) /\ pkt.duration = 0 /\ pkt.frame = frameNo[i]
      BY <2>1, <2>5 DEF ReadNal, Got, Pkt
    <3>2. n = sent[i] + 1
      BY <3>1
    <3>3. sent[i] \div S(i).frame <= (sent[i] + 1) \div S(i).frame
      BY <1>1
    <3>. QED BY <1>1, <1>4, <2>1, <2>2, <2>5, <3>1, <3>2, <3>3
  <2>. QED BY <2>3, <2>4, <2>5
<1>. QED BY <1>1, <1>3, <1>4

LEMMA FlushClock ==
    ASSUME Typed, NEW i \in Streams
    PROVE  /\ ~Fragmented(i) => FlushPacket(i).dts + S(i).shift = Due(i)
           /\ Fragmented(i) => FlushPacket(i).size = 0
<1>1. S(i).kind \in {"packets", "nals", "pgs"}
  BY ReaderFacts
<1>. QED BY <1>1 DEF FlushPacket, Pkt, Due, Fragmented

LEMMA DueFacts ==
    ASSUME Typed, NEW i \in Streams
    PROVE  Due(i) \in Int /\ lastDTS[i] \in Int /\ lastProcessed.dts \in Int /\ sent[i] \in Nat
<1>1. /\ frameNo[i] \in Int /\ FrameOf(i) \in Int /\ S(i).shift \in Int
      /\ \A f \in Int : Time(i, f) \in Int
  BY ReaderFacts
<1>. QED BY <1>1 DEF Due, Typed, InfoTypes, PacketTypes, ReaderTypes

\* What a step of a reader's clock is about, elsewhere.
LEMMA ClocksStay ==
    ASSUME UNCHANGED <<input, sent, frameNo, lastDTS, lastProcessed, flushed>>
    PROVE  /\ Streams' = Streams
           /\ \A i : Running(i)' = Running(i) /\ InTime(i)' = InTime(i)
<1>1. \A i : S(i)' = S(i) /\ FrameOf(i)' = FrameOf(i) /\ Fragmented(i)' = Fragmented(i)
  BY DEF S, FrameOf, Fragmented
<1>2. \A i : Due(i)' = Due(i) /\ Known(i)' = Known(i) /\ Clocked(i)' = Clocked(i)
  BY <1>1 DEF Due, Time, Known, Clocked
<1>3. Clocked(lastProcessed.stream)' = Clocked(lastProcessed.stream)
  BY <1>1 DEF Clocked
<1>. QED BY <1>1, <1>2, <1>3 DEF Running, InTime, Streams

LEMMA SameIsOrdered ==
    ASSUME Typed, lastProcessed' = lastProcessed PROVE NotEarlier
BY DEF NotEarlier, Typed, PacketTypes

\* A round finds the stream with the least time.
LEMMA ConsiderOrder ==
    ASSUME Typed, SentInv', OrderInv, NEW i \in Streams, Scanning(i), ~flushMode,
           NEW rez \in BlockRez, Consider(i, rez), rez \in {"ok", "eof"} => ~flushed[i],
           UNCHANGED <<input, sent, frameNo, lastDTS, lastProcessed, flushed, flushMode>>
    PROVE  OrderInv'
<1>1. /\ Streams' = Streams
      /\ \A k : Running(k)' = Running(k) /\ InTime(k)' = InTime(k)
  BY ClocksStay
<1>2. readRez'[i] = rez /\ pc = "scan" /\ i # None /\ lastDTS \in [Streams -> Int]
  BY AtFacts DEF Consider, Scanning, Typed, InfoTypes
<1>3. (minIndex # None => ~flushed[minIndex] /\ minIndex \in Streams) /\ Leading
  BY <1>2 DEF OrderInv, Typed, LoopTypes
<1>4. rez = "delayed" => ~Running(i)
  <2>1. OutOfData(i)'
    BY <1>1 DEF SentInv
  <2>2. Fragmented(i)' = Fragmented(i)
    BY DEF Fragmented, S
  <2>. QED BY <1>2, <2>1, <2>2 DEF OutOfData, Running
<1>5. (minIndex' # None => ~flushed[minIndex']) /\ Leading'
  <2>1. CASE rez = "notReady"
    <3>1. at' = 1 /\ minIndex' = None /\ pc' = "scan"
      BY <1>2, <2>1 DEF Consider
    <3>2. Asked' = {}
      BY <3>1, NoneAsked
    <3>. QED BY <3>1, <3>2 DEF Leading
  <2>2. CASE rez = "delayed"
    <3>1. NextStream /\ minIndex' = minIndex
      BY <2>2 DEF Consider
    <3>2. Asked' = Asked \cup {i}
      BY <3>1, OneMoreAsked
    <3>3. ASSUME NEW k \in Asked', Running(k)'
          PROVE  minIndex' # None /\ lastDTS'[minIndex'] <= lastDTS'[k]
      <4>1. k \in Asked /\ Running(k)
        BY <1>1, <1>4, <2>2, <3>2, <3>3
      <4>. QED BY <1>3, <3>1, <4>1 DEF Leading
    <3>. QED BY <1>3, <3>1, <3>3 DEF Leading
  <2>3. CASE rez \notin {"notReady", "delayed"}
    <3>1. /\ NextStream
          /\ minIndex' = IF Earlier(i) /\ (rez = "eof2" => ~flushed[i]) THEN i ELSE minIndex
      BY <2>3 DEF Consider
    <3>2. Asked' = Asked \cup {i} /\ Asked \subseteq Streams
      BY <3>1, OneMoreAsked DEF Asked
    <3>3. rez # "eof2" => ~flushed[i]
      BY <2>3 DEF BlockRez
    <3>4. ASSUME NEW k \in Asked', Running(k)'
          PROVE  minIndex' # None /\ lastDTS'[minIndex'] <= lastDTS'[k]
      <4>1. Running(k) /\ (k = i \/ k \in Asked) /\ k \in Streams
        BY <1>1, <3>2, <3>4
      <4>2. k \in Asked => minIndex # None /\ lastDTS[minIndex] <= lastDTS[k]
        BY <1>3, <4>1 DEF Leading
      <4>3. k = i => ~flushed[i]
        BY <4>1 DEF Running
      <4>4. CASE minIndex' = i
        <5>1. lastDTS[i] <= lastDTS[k]
          <6>1. CASE k = i
            BY <1>2, <6>1
          <6>2. CASE k # i
            <7>1. lastDTS[minIndex] <= lastDTS[k] /\ minIndex # None
              BY <4>1, <4>2, <6>2
            <7>2. minIndex = i \/ Earlier(i)
              BY <3>1, <4>4
            <7>. QED BY <1>2, <1>3, <4>1, <7>1, <7>2 DEF Earlier
          <6>. QED BY <6>1, <6>2
        <5>. QED BY <1>2, <4>4, <5>1
      <4>5. CASE minIndex' # i
        <5>1. minIndex' = minIndex /\ ~(Earlier(i) /\ (rez = "eof2" => ~flushed[i]))
          BY <3>1, <4>5
        <5>2. CASE k \in Asked
          BY <4>2, <5>1, <5>2
        <5>3. CASE k = i
          <6>1. ~Earlier(i)
            BY <4>3, <5>1, <5>3
          <6>. QED BY <1>2, <1>3, <5>1, <5>3, <6>1 DEF Earlier
        <5>. QED BY <4>1, <5>2, <5>3
      <4>. QED BY <4>4, <4>5
    <3>5. minIndex' # None => ~flushed[minIndex']
      <4>1. CASE minIndex' = minIndex
        BY <1>3, <4>1
      <4>2. CASE minIndex' # minIndex
        <5>1. minIndex' = i /\ (rez = "eof2" => ~flushed[i])
          BY <3>1, <4>2
        <5>. QED BY <3>3, <5>1
      <4>. QED BY <4>1, <4>2
    <3>. QED BY <3>4, <3>5 DEF Leading
  <2>. QED BY <2>1, <2>2, <2>3
<1>. QED BY <1>1, <1>5 DEF OrderInv

\* A packet is returned that is not earlier than the one before it, and not
\* later than what is next of the other streams.
LEMMA ReturnOrder ==
    ASSUME Typed, OrderInv, pc = "decide", ~flushMode, NEW i \in Streams, i = minIndex,
           NEW pkt, PacketFits(i, pkt), Return(i, pkt, pkt.dts + S(i).shift), Advance(i, pkt),
           ~Fragmented(i) /\ pkt.size > 0 => pkt.dts + S(i).shift = Due(i)
    PROVE  /\ NotEarlier
           /\ \A k \in Streams : k # i /\ Running(k) => InTime(k)'
<1>1. /\ lastProcessed' = IF pkt.size = 0 THEN lastProcessed
                          ELSE [stream |-> i, dts |-> pkt.dts + S(i).shift]
      /\ sent' = [sent EXCEPT ![i] = @ + pkt.size]
      /\ frameNo' = [frameNo EXCEPT ![i] = pkt.frame]
      /\ lastDTS' = [lastDTS EXCEPT ![i] = pkt.dts + S(i).shift + pkt.duration]
      /\ input' = input
  BY DEF Return, MuxPacket, Advance
<1>2. /\ ~flushed[i] /\ i # None
      /\ \A k \in Streams : Running(k) => InTime(k) /\ lastDTS[i] <= lastDTS[k]
  BY AtFacts DEF OrderInv, Leading, Asked
<1>3. /\ \A k \in Streams : k # i => /\ sent'[k] = sent[k] /\ frameNo'[k] = frameNo[k]
                                     /\ lastDTS'[k] = lastDTS[k]
      /\ lastDTS \in [Streams -> Int] /\ pkt.size \in Nat
  BY <1>1 DEF Typed, ReaderTypes, InfoTypes, PacketFits
<1>4. \A k : S(k)' = S(k) /\ Fragmented(k)' = Fragmented(k)
  BY <1>1 DEF S, Fragmented
<1>5. CASE pkt.size = 0
  <2>1. lastProcessed' = lastProcessed
    BY <1>1, <1>5
  <2>2. Clocked(lastProcessed.stream)' = Clocked(lastProcessed.stream)
    BY <1>4, <2>1 DEF Clocked
  <2>3. ASSUME NEW k \in Streams, k # i, Running(k) PROVE InTime(k)'
    <3>1. Due(k)' = Due(k) /\ Known(k)' = Known(k) /\ FrameOf(k)' = FrameOf(k)
      BY <1>3, <1>4, <2>3 DEF Due, Time, FrameOf, Known
    <3>. QED BY <1>2, <1>3, <1>4, <2>1, <2>2, <2>3, <3>1 DEF InTime
  <2>. QED BY <2>1, <2>3, SameIsOrdered
<1>6. CASE pkt.size # 0
  <2>1. lastProcessed'.stream = i /\ lastProcessed'.dts = pkt.dts + S(i).shift
    BY <1>1, <1>6
  <2>2. Clocked(lastProcessed.stream)' = ~Fragmented(i)
    BY <1>2, <1>4, <2>1 DEF Clocked
  <2>3. ~Fragmented(i) => /\ lastProcessed'.dts = Due(i) /\ InTime(i)
                          /\ Due(i) \in Int /\ Due(i) <= lastDTS[i]
    BY <1>2, <1>3, <1>6, <2>1, DueFacts DEF Running, InTime
  <2>4. NotEarlier
    <3>. SUFFICES ASSUME Clocked(lastProcessed.stream), ~Fragmented(i), Known(i)
                  PROVE  lastProcessed'.dts >= lastProcessed.dts
      BY <2>1 DEF NotEarlier, Clocked
    <3>1. Due(i) = lastDTS[i] /\ lastProcessed.dts <= lastDTS[i] /\ lastProcessed.dts \in Int
      BY <2>3, DueFacts DEF InTime
    <3>. QED BY <1>3, <2>3, <3>1
  <2>5. ASSUME NEW k \in Streams, k # i, Running(k) PROVE InTime(k)'
    <3>1. Due(k)' = Due(k) /\ Known(k)' = Known(k) /\ FrameOf(k)' = FrameOf(k)
      BY <1>3, <1>4, <2>5 DEF Due, Time, FrameOf, Known
    <3>2. ~Fragmented(i) => lastProcessed'.dts <= lastDTS'[k]
      BY <1>2, <1>3, <2>3, <2>5
    <3>. QED BY <1>2, <1>3, <1>4, <2>2, <2>5, <3>1, <3>2 DEF InTime
  <2>. QED BY <2>4, <2>5
<1>. QED BY <1>5, <1>6

\* After a packet the loop over the streams starts anew.
LEMMA NewLoop ==
    ASSUME Typed, SentInv, pc = "decide", Rescan, input' = input
    PROVE  minIndex' = None /\ Leading'
<1>1. pc' = "scan" /\ minIndex' = None /\ at' = 1
  BY DEF Rescan, SentInv
<1>. QED BY <1>1, NoneAsked DEF Leading

LEMMA SendOrder ==
    ASSUME Typed, SentInv, OrderInv, SendPacket PROVE OrderInv' /\ NotEarlier
<1>1. PICK i \in Streams : i = minIndex
  BY DEF Typed, LoopTypes, SendPacket
<1>. DEFINE pkt == ReaderPacket(i).pkt
            n == sent[i] + pkt.size
            f == IF S(i).kind = "nals" THEN pkt.frame ELSE n \div S(i).frame
<1>2. /\ pc = "decide" /\ ~flushMode
      /\ Return(i, pkt, pkt.dts + S(i).shift) /\ Advance(i, pkt) /\ UNCHANGED flushed
  BY <1>1 DEF SendPacket
<1>3. PacketFits(i, pkt)
  BY ReaderPacketFits
<1>4. ~flushed[i] /\ i # None
  BY <1>1, <1>2, AtFacts DEF OrderInv
<1>5. ~Fragmented(i) =>
        /\ InTime(i)
        /\ Due(i) <= pkt.dts + S(i).shift /\ pkt.duration >= 0
        /\ pkt.size > 0 => pkt.dts + S(i).shift = Due(i)
        /\ Time(i, f) = pkt.dts + pkt.duration
        /\ S(i).kind = "packets" => n % S(i).frame = 0
        /\ S(i).kind = "nals" => f <= n \div S(i).frame
  BY <1>4, PacketClock DEF OrderInv, Running
<1>. HIDE DEF pkt
<1>6. /\ NotEarlier
      /\ \A k \in Streams : k # i /\ Running(k) => InTime(k)'
  BY <1>1, <1>2, <1>3, <1>5, ReturnOrder
<1>7. /\ input' = input /\ flushMode' = flushMode /\ Rescan
      /\ lastProcessed' = IF pkt.size = 0 THEN lastProcessed
                          ELSE [stream |-> i, dts |-> pkt.dts + S(i).shift]
      /\ sent'[i] = n /\ frameNo'[i] = pkt.frame
      /\ lastDTS'[i] = pkt.dts + S(i).shift + pkt.duration
  BY <1>2 DEF Return, MuxPacket, Advance, Typed, ReaderTypes, InfoTypes
<1>8. /\ Streams' = Streams
      /\ \A k : S(k)' = S(k) /\ Fragmented(k)' = Fragmented(k) /\ Running(k)' = Running(k)
  BY <1>2, <1>7 DEF Streams, S, Fragmented, Running
<1>9. pkt.size \in Nat /\ pkt.dts \in Int /\ pkt.duration \in Int /\ pkt.frame \in Int
  BY <1>3 DEF PacketFits
<1>10. /\ sent[i] \in Nat /\ S(i).shift \in Int /\ lastProcessed.dts \in Int
       /\ Due(i) \in Int /\ lastDTS[i] \in Int
  BY ReaderFacts, DueFacts
<1>11. ASSUME ~Fragmented(i) PROVE InTime(i)'
  <2>1. Due(i)' = Time(i, f) + S(i).shift
    BY <1>7, <1>8 DEF Due, Time, FrameOf
  <2>2. Due(i)' = lastDTS'[i]
    BY <1>5, <1>7, <1>9, <1>10, <1>11, <2>1
  <2>3. ASSUME Known(i)', Clocked(lastProcessed.stream)'
        PROVE  lastProcessed'.dts <= lastDTS'[i]
    <3>1. CASE pkt.size = 0
      <4>1. lastProcessed' = lastProcessed /\ sent'[i] = sent[i]
        BY <1>7, <1>10, <3>1
      <4>2. Clocked(lastProcessed.stream) /\ Known(i)
        BY <1>8, <2>3, <4>1 DEF Clocked, Known
      <4>3. lastProcessed.dts <= lastDTS[i] /\ lastDTS[i] = Due(i)
        BY <1>5, <1>11, <4>2 DEF InTime
      <4>. QED BY <1>5, <1>7, <1>9, <1>10, <1>11, <4>1, <4>3
    <3>2. CASE pkt.size # 0
      <4>1. lastProcessed'.dts = pkt.dts + S(i).shift
        BY <1>7, <3>2
      <4>. QED BY <1>5, <1>7, <1>9, <1>10, <1>11, <4>1
    <3>. QED BY <3>1, <3>2
  <2>4. lastDTS'[i] \in Int
    BY <1>7, <1>9, <1>10
  <2>5. S(i).kind = "packets" => sent'[i] % S(i).frame = 0
    BY <1>5, <1>7, <1>11
  <2>6. S(i).kind = "nals" => frameNo'[i] <= FrameOf(i)'
    BY <1>5, <1>7, <1>8, <1>11 DEF FrameOf
  <2>. QED BY <1>8, <2>2, <2>3, <2>4, <2>5, <2>6 DEF InTime
<1>12. \A k \in Streams : Running(k) => InTime(k)'
  BY <1>6, <1>11 DEF Running
<1>13. minIndex' = None /\ Leading'
  BY <1>2, <1>7, NewLoop
<1>. QED BY <1>2, <1>6, <1>7, <1>8, <1>12, <1>13 DEF OrderInv

LEMMA FlushOrder ==
    ASSUME Typed, SentInv, OrderInv, FlushStream PROVE OrderInv' /\ NotEarlier
<1>1. PICK i \in Streams : i = minIndex
  BY DEF Typed, LoopTypes, FlushStream
<1>. DEFINE pkt == FlushPacket(i)
<1>2. /\ pc = "decide" /\ ~flushMode
      /\ Return(i, pkt, pkt.dts + S(i).shift) /\ Advance(i, pkt)
      /\ flushed' = [flushed EXCEPT ![i] = TRUE]
  BY <1>1 DEF FlushStream
<1>3. PacketFits(i, pkt) /\ (~Fragmented(i) => pkt.dts + S(i).shift = Due(i))
  BY FlushPacketFits, FlushClock
<1>. HIDE DEF pkt
<1>4. /\ NotEarlier
      /\ \A k \in Streams : k # i /\ Running(k) => InTime(k)'
  BY <1>1, <1>2, <1>3, ReturnOrder
<1>5. input' = input /\ flushMode' = flushMode /\ Rescan
  BY <1>2 DEF Return
<1>6. Streams' = Streams /\ \A k \in Streams : Running(k)' => Running(k) /\ k # i
  BY <1>2, <1>5 DEF Streams, S, Fragmented, Running, Typed, InfoTypes
<1>7. minIndex' = None /\ Leading'
  BY <1>2, <1>5, NewLoop
<1>. QED BY <1>2, <1>4, <1>5, <1>6, <1>7 DEF OrderInv

\* Flushing everything, without the time shift, is about subtitles only.
LEMMA RestOrder ==
    ASSUME Typed, SentInv, OrderInv, FlushRest PROVE OrderInv' /\ NotEarlier
<1>1. PICK i \in Streams : i = minIndex
  BY DEF Typed, LoopTypes, FlushRest
<1>2. /\ pc = "decide" /\ flushMode /\ Return(i, FlushPacket(i), FlushPacket(i).dts)
      /\ flushed' = [flushed EXCEPT ![i] = TRUE]
  BY <1>1 DEF FlushRest
<1>3. /\ \A k \in Streams : ~Running(k)
      /\ ~flushed[i]
  BY <1>1, <1>2, AtFacts DEF OrderInv
<1>4. FlushPacket(i).size = 0
  BY <1>3, FlushClock DEF Running
<1>5. input' = input /\ flushMode' = flushMode /\ Rescan /\ lastProcessed' = lastProcessed
  BY <1>2, <1>4 DEF Return, MuxPacket
<1>6. Streams' = Streams /\ \A k \in Streams : ~Running(k)'
  BY <1>2, <1>3, <1>5 DEF Streams, S, Fragmented, Running, Typed, InfoTypes
<1>7. minIndex' = None /\ Leading'
  BY <1>2, <1>5, NewLoop
<1>. QED BY <1>2, <1>5, <1>6, <1>7, SameIsOrdered DEF OrderInv

LEMMA ReadOrder ==
    ASSUME Typed, SentInv, SentInv', OrderInv, NEW i \in Streams,
           ReadNothing(i) \/ ReadContainer(i) \/ ReadFile(i)
    PROVE  OrderInv' /\ NotEarlier
<1>1. FlushedOut(i) /\ OutOfData(i)
  BY DEF SentInv
<1>2. UNCHANGED <<input, sent, frameNo, lastDTS, lastProcessed, flushed, flushMode>>
  BY DEF ReadNothing, ReadContainer, ReadFile, readerVars
<1>3. \E rez \in BlockRez : /\ Scanning(i) /\ ~flushMode /\ Consider(i, rez)
                            /\ rez \in {"ok", "eof"} => ~flushed[i]
  <2>1. CASE ReadNothing(i)
    BY <1>1, <2>1 DEF ReadNothing, FlushedOut, OutOfData, BlockRez
  <2>2. CASE ReadContainer(i)
    <3>1. /\ Hungry(i) /\ Hand(i, ContainerBlock(i)) /\ ContainerBlock(i).rez \in Marks
      BY <2>2, ContainerBlockTypes DEF ReadContainer
    <3>. QED BY <1>1, <3>1 DEF Hungry, Hand, FlushedOut, OutOfData, BlockRez, Marks
  <2>3. CASE ReadFile(i)
    <3>1. /\ Hungry(i) /\ Hand(i, FileBlockOf(i)) /\ FileBlockOf(i).rez \in Marks
      BY <2>3 DEF ReadFile, FileBlockOf, Marks
    <3>. QED BY <1>1, <3>1 DEF Hungry, Hand, FlushedOut, OutOfData, BlockRez, Marks
  <2>. QED BY <2>1, <2>2, <2>3
<1>. QED BY <1>2, <1>3, ConsiderOrder, SameIsOrdered

LEMMA ScanOrder ==
    ASSUME Typed, OrderInv, NEW i \in Streams, ScanForFlush(i) PROVE OrderInv' /\ NotEarlier
<1>1. /\ Scanning(i) /\ flushMode /\ pc = "scan"
      /\ minIndex' = IF Earlier(i) /\ ~flushed[i] THEN i ELSE minIndex
      /\ UNCHANGED <<input, readerVars, infoVars, flushMode, lastProcessed>>
  BY DEF ScanForFlush, Scanning
<1>2. /\ Streams' = Streams
      /\ \A k : Running(k)' = Running(k) /\ InTime(k)' = InTime(k)
  BY <1>1, ClocksStay DEF readerVars, infoVars
<1>3. minIndex' # None => ~flushed'[minIndex']
  BY <1>1 DEF OrderInv, infoVars
<1>. QED BY <1>1, <1>2, <1>3, SameIsOrdered DEF OrderInv

LEMMA LoopOrder ==
    ASSUME Typed, SentInv, OrderInv,
           \/ ResetDelayedMark \/ EnterFlushMode \/ ReturnEof
           \/ \E i \in Streams : ReadThrows(i)
    PROVE  OrderInv' /\ NotEarlier
<1>1. UNCHANGED <<input, sent, frameNo, lastDTS, lastProcessed, flushed>>
  BY DEF ResetDelayedMark, EnterFlushMode, ReturnEof, ReadThrows, readerVars, infoVars
<1>2. /\ Streams' = Streams
      /\ \A k : Running(k)' = Running(k) /\ InTime(k)' = InTime(k)
  BY <1>1, ClocksStay
<1>3. CASE ResetDelayedMark
  <2>1. pc = "decide" /\ Rescan /\ flushMode' = flushMode
    BY <1>3 DEF ResetDelayedMark
  <2>2. minIndex' = None /\ Leading'
    BY <1>1, <2>1, NewLoop
  <2>. QED BY <1>1, <1>2, <2>1, <2>2, SameIsOrdered DEF OrderInv
<1>4. CASE EnterFlushMode
  <2>1. pc = "decide" /\ Rescan /\ flushMode' = TRUE /\ ~flushMode /\ minIndex = None
    BY <1>4 DEF EnterFlushMode
  <2>2. \A k \in Streams : ~Running(k)
    BY <2>1 DEF OrderInv, Leading, Asked
  <2>3. minIndex' = None /\ Leading'
    BY <1>1, <2>1, NewLoop
  <2>. QED BY <1>1, <1>2, <2>2, <2>3, SameIsOrdered DEF OrderInv
<1>5. CASE ReturnEof \/ \E i \in Streams : ReadThrows(i)
  <2>1. flushMode' = flushMode /\ pc' \in {"ended", "thrown"}
    BY <1>5 DEF ReturnEof, ReadThrows
  <2>. QED BY <1>1, <1>2, <2>1, SameIsOrdered DEF OrderInv
<1>. QED BY <1>3, <1>4, <1>5

LEMMA OrderStarts == Init => OrderInv
<1>. SUFFICES ASSUME Init PROVE OrderInv
  OBVIOUS
<1>1. Typed
  BY InitTyped
<1>2. /\ pc = "scan" /\ at = 1 /\ minIndex = None /\ flushMode = FALSE
      /\ lastProcessed.stream = None
      /\ \A i \in Streams : /\ sent[i] = 0 /\ (~Fragmented(i) => frameNo[i] = 0)
                            /\ lastDTS[i] = IF S(i).shift > 0 THEN S(i).shift ELSE 0
  BY DEF Init
<1>3. Leading
  <2>1. Asked = {}
    BY <1>1, <1>2, AtFacts DEF Asked
  <2>. QED BY <2>1 DEF Leading
<1>4. ASSUME NEW i \in Streams, Running(i) PROVE InTime(i)
  <2>1. /\ S(i).frame \in Nat \ {0} /\ S(i).shift \in Int /\ S(i).step \in Int
        /\ S(i).first \in Int /\ S(i).first <= 0
    BY <1>1, <1>4, InputFacts DEF StreamSpace, Running, Fragmented, Typed, Transfer
  <2>2. FrameOf(i) = 0 /\ sent[i] % S(i).frame = 0
    BY <1>2, <2>1 DEF FrameOf
  <2>3. Due(i) = S(i).first + S(i).shift
    BY <1>2, <1>4, <2>1, <2>2 DEF Due, Time, Running
  <2>4. ~Clocked(lastProcessed.stream)
    BY <1>2 DEF Clocked
  <2>5. Known(i) => S(i).first = 0 /\ S(i).shift >= 0
    BY <1>2 DEF Known
  <2>. QED BY <1>2, <1>4, <2>1, <2>2, <2>3, <2>4, <2>5 DEF InTime, Running
<1>. QED BY <1>2, <1>3, <1>4 DEF OrderInv

LEMMA OrderGoesOn ==
    Typed /\ SentInv /\ OrderInv /\ [Next]_vars => OrderInv' /\ NotEarlier
<1>. SUFFICES ASSUME Typed, SentInv, OrderInv, [Next]_vars PROVE OrderInv' /\ NotEarlier
  OBVIOUS
<1>1. SentInv'
  BY SentGoesOn
<1>2. ASSUME NEW i \in Streams, ReadNothing(i) \/ ReadContainer(i) \/ ReadFile(i)
      PROVE  OrderInv' /\ NotEarlier
  BY <1>1, <1>2, ReadOrder
<1>3. ASSUME NEW i \in Streams, ScanForFlush(i) PROVE OrderInv' /\ NotEarlier
  BY <1>3, ScanOrder
<1>4. CASE UNCHANGED vars
  <2>1. UNCHANGED <<input, sent, frameNo, lastDTS, lastProcessed, flushed, flushMode, pc, at,
                    minIndex>>
    BY <1>4 DEF vars, readerVars, infoVars
  <2>2. /\ Streams' = Streams /\ Asked' = Asked
        /\ \A k : Running(k)' = Running(k) /\ InTime(k)' = InTime(k)
    BY <2>1, ClocksStay DEF Asked, Streams
  <2>. QED BY <2>1, <2>2, SameIsOrdered DEF OrderInv, Leading
<1>. QED BY <1>2, <1>3, <1>4, SendOrder, FlushOrder, RestOrder, LoopOrder
     DEF Next, Work, Read, Stopped

\* Whatever the demuxers deliver and when, the packets of sound and video reach
\* the muxer in the order of their decoding times, the first of a stream
\* excepted: readPacket takes the stream with the least m_lastDTS, which is no
\* later than what any other stream will send.
THEOREM PacketsInOrder == Spec => InDtsOrder
<1>1. Typed /\ SentInv /\ OrderInv /\ [Next]_vars => [NotEarlier]_lastProcessed
  BY OrderGoesOn
<1>. QED BY <1>1, InitTyped, NextTyped, SentStarts, SentGoesOn, OrderStarts, OrderGoesOn, PTL
     DEF Spec, InDtsOrder
=============================================================================
