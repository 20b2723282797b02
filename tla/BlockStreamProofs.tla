--------------------------- MODULE BlockStreamProofs ---------------------------
(***************************************************************************)
(* What the caller of a calm reader gets: the units of its file in order   *)
(* and without a gap, in the blocks of BlockStream; and of a list of files *)
(* one file behind the other.  The proof follows a block through the       *)
(* hand-over: what is in flight is in the buffer the caller takes next and *)
(* continues what the caller has.                                          *)
(***************************************************************************)
EXTENDS ReaderHandoverProofs, WellFoundedInduction

Name(r) == FileList[r][1]
SizeOf(r) == FileSize[Name(r)]

\* The units read and not taken: of a block not yet published, or published.
Carried(r) == IF Place(r) \in {"switch", "publish"} THEN tbytes ELSE 0
InFlight(r) == nextBlockSize[r] + Carried(r)
Got(r) == base[r] + Len(delivered[r])

\* Where a block that starts at p ends.
Edge(p) == p + FirstSizeAt(p)
BlockEnd(r, p) == IF Edge(p) < SizeOf(r) THEN Edge(p) ELSE SizeOf(r)

Position(r) == filePos[r] = Got(r) + InFlight(r)
Contents(r) == \A i \in 1..InFlight(r) :
                  nextBlock[r][bufferIndex[r]][i] = <<Name(r), Got(r) + i>>
InOrder(r) == \A i \in 1..Len(delivered[r]) : delivered[r][i] = <<Name(r), base[r] + i>>
Within(r) == /\ delivered[r] = <<>> \/ Got(r) <= SizeOf(r)
             /\ InFlight(r) > 0 => Got(r) < SizeOf(r)
                                   /\ Got(r) + InFlight(r) = BlockEnd(r, Got(r))
Aligned(r) == \/ Place(r) = "switch" \/ filePos[r] >= SizeOf(r)
              \/ blockSize[r] = FirstSizeAt(filePos[r])
FromStart(r) ==
    /\ r \in detecting => base[r] = 0 /\ blockSize[r] = BlockSize
    /\ r \notin opened => /\ base[r] = 0 /\ delivered[r] = <<>>
                          /\ filePos[r] = 0 /\ blockSize[r] = BlockSize

Streaming(r) == /\ Position(r) /\ Contents(r) /\ InOrder(r) /\ Within(r)
                /\ Aligned(r) /\ FromStart(r)

StreamInv == \A r \in Readers : OneFile(r) => Streaming(r)

-----------------------------------------------------------------------------
\* Blocks end at a multiple of the block size, where a whole block follows.
LEMMA EdgeFacts ==
  ASSUME NEW p \in Nat
  PROVE  /\ Edge(p) \in Nat /\ Edge(p) > p
         /\ FirstSizeAt(Edge(p)) = BlockSize
         /\ Edge(p) = (p \div BlockSize + 1) * BlockSize
<1>1. BlockSize \in Nat /\ BlockSize > 0
  BY ReaderAssumption
<1>. DEFINE B == BlockSize
            q == p \div B
            m == p % B
<1>2. q \in Nat /\ m \in 0..(B - 1) /\ p = B * q + m
  BY <1>1
<1>3. B * q \in Nat /\ (q + 1) * B = B * q + B
  BY <1>1, <1>2
<1>4. Edge(p) = p + (B - m)
  BY DEF Edge, FirstSizeAt
<1>. HIDE DEF q, m
<1>5. Edge(p) = B * q + B
  BY <1>1, <1>2, <1>3, <1>4
<1>6. Edge(p) \in Nat /\ Edge(p) > p /\ Edge(p) = (q + 1) * B
  BY <1>1, <1>2, <1>3, <1>4, <1>5
<1>7. ((q + 1) * B) % B = 0
  BY <1>1, <1>2
<1>8. FirstSizeAt(Edge(p)) = B
  BY <1>1, <1>6, <1>7 DEF FirstSizeAt
<1>. QED BY <1>6, <1>8 DEF q

\* Joining one sequence gives that sequence.
LEMMA FlattenOne ==
  ASSUME NEW s, Len(s) = 1
  PROVE  FlattenSeq(s) = s[1]
<1>. DEFINE Rec(g) == [i \in 1..Len(s) |-> IF i = 1 THEN s[i] ELSE g[i - 1] \o s[i]]
            flatten == CHOOSE g : g = Rec(g)
            one == [i \in 1..1 |-> s[1]]
<1>1. FlattenSeq(s) = flatten[Len(s)]
  BY DEF FlattenSeq
<1>2. \A g : Rec(g) = one
  <2>1. ASSUME NEW g, NEW i \in 1..1
        PROVE  (IF i = 1 THEN s[i] ELSE g[i - 1] \o s[i]) = s[1]
    OBVIOUS
  <2>. QED BY <2>1
<1>3. flatten = one
  <2>. HIDE DEF Rec, one
  <2>1. one = Rec(one)
    BY <1>2
  <2>2. flatten = Rec(flatten)
    BY <2>1
  <2>. QED BY <1>2, <2>2
<1>4. one[1] = s[1]
  OBVIOUS
<1>. QED BY <1>1, <1>3, <1>4

\* The stream of a reader of one file is that file.
LEMMA JoinedOne ==
  ASSUME NEW r \in Readers, OneFile(r)
  PROVE  /\ Joined(r) = Units(Name(r)) /\ Name(r) \in Names /\ SizeOf(r) \in Nat
         /\ Len(Joined(r)) = SizeOf(r)
         /\ \A i \in 1..SizeOf(r) : Joined(r)[i] = <<Name(r), i>>
<1>1. FileList[r] \in Seq(Names) /\ Len(FileList[r]) = 1
  BY ReaderAssumption DEF OneFile
<1>2. Name(r) \in Names /\ SizeOf(r) \in Nat
  BY <1>1, ReaderAssumption DEF Name, SizeOf
<1>3. Joined(r) = Units(Name(r))
  <2>. DEFINE s == [k \in 1..Len(FileList[r]) |-> Units(FileList[r][k])]
  <2>1. Len(s) = 1 /\ s[1] = Units(Name(r))
    BY <1>1 DEF Name
  <2>2. Joined(r) = FlattenSeq(s)
    BY DEF Joined
  <2>. HIDE DEF s
  <2>. QED BY <2>1, <2>2, FlattenOne
<1>4. Len(Units(Name(r))) = SizeOf(r) /\ \A i \in 1..SizeOf(r) : Units(Name(r))[i] = <<Name(r), i>>
  BY <1>2 DEF Units, SizeOf
<1>. QED BY <1>2, <1>3, <1>4

-----------------------------------------------------------------------------
\* A step that moves no data of a reader keeps what holds of them.
LEMMA StreamFrame ==
  ASSUME NEW r \in Readers, Streaming(r), Carried(r)' = Carried(r),
         Place(r) = "switch" => Place(r)' = "switch",
         UNCHANGED <<filePos[r], nextBlockSize[r], base[r], delivered[r], nextBlock[r],
                     bufferIndex[r], blockSize[r]>>,
         r \in opened => r \in opened', r \in detecting' => r \in detecting
  PROVE  Streaming(r)'
<1>1. InFlight(r)' = InFlight(r) /\ Got(r)' = Got(r) /\ Name(r)' = Name(r)
      /\ SizeOf(r)' = SizeOf(r) /\ \A p : BlockEnd(r, p)' = BlockEnd(r, p)
  BY DEF InFlight, Got, Name, SizeOf, BlockEnd, Edge, FirstSizeAt
<1>2. Position(r)' /\ Contents(r)' /\ InOrder(r)'
  BY <1>1 DEF Streaming, Position, Contents, InOrder
<1>3. Within(r)'
  BY <1>1 DEF Streaming, Within, BlockEnd, Edge, FirstSizeAt
<1>4. Aligned(r)' /\ FromStart(r)'
  BY <1>1 DEF Streaming, Aligned, FromStart, FirstSizeAt
<1>. QED BY <1>2, <1>3, <1>4 DEF Streaming

\* The types of what Streaming speaks of.
LEMMA StreamTypes ==
  ASSUME HandoverInv, StreamInv, NEW r \in Readers, OneFile(r)
  PROVE  /\ Bookkeeping /\ Handover(r) /\ Streaming(r)
         /\ Got(r) \in Nat /\ base[r] \in Nat /\ Len(delivered[r]) \in Nat
         /\ delivered[r] \in Seq(Unit)
         /\ SizeOf(r) \in Nat /\ Name(r) \in Names
         /\ filePos[r] \in Int /\ blockSize[r] \in 1..BlockSize
         /\ nextBlockSize[r] \in 0..BlockSize /\ BlockSize \in Nat \ {0}
         /\ Carried(r) \in 0..BlockSize /\ InFlight(r) \in Nat
         /\ filePos[r] \in Nat
         /\ nextBlock[r] \in [0..1 -> [1..BlockSize -> Unit]]
<1>1. Bookkeeping /\ Handover(r) /\ Streaming(r)
  BY DEF HandoverInv, StreamInv
<1>2. base[r] \in Nat /\ delivered[r] \in Seq(Unit)
      /\ nextBlock[r] \in [0..1 -> [1..BlockSize -> Unit]]
  BY <1>1 DEF Bookkeeping, TypeOK, ClientType, DataType
<1>3. Len(delivered[r]) \in Nat
  BY <1>2
<1>4. Got(r) \in Nat
  BY <1>2, <1>3 DEF Got
<1>5. nextBlockSize[r] \in 0..BlockSize /\ Carried(r) \in 0..BlockSize
  <2>1. nextBlockSize[r] \in -1..BlockSize /\ tbytes \in -1..BlockSize
        /\ BlockSize \in Nat \ {0}
    BY <1>1, FieldTypes
  <2>2. nextBlockSize[r] >= 0 /\ (Place(r) \in {"switch", "publish"} => tbytes >= 0)
    BY <1>1 DEF Handover, OfOne
  <2>. QED BY <2>1, <2>2 DEF Carried
<1>6. InFlight(r) \in Nat /\ BlockSize \in Nat \ {0}
  BY <1>1, <1>5, FieldTypes DEF InFlight
<1>7. filePos[r] \in Nat
  BY <1>1, <1>4, <1>6 DEF Streaming, Position
<1>. QED BY <1>1, <1>2, <1>3, <1>4, <1>5, <1>6, <1>7, FieldTypes, JoinedOne

\* A read continues what the caller has, to the end of a block or of the file.
LEMMA ReadStream ==
  ASSUME HandoverInv, StreamInv, ThreadRead, NEW r \in Readers, OneFile(r), r = tid
  PROVE  Streaming(r)'
<1>1. /\ Bookkeeping /\ Handover(r) /\ Streaming(r) /\ Got(r) \in Nat
      /\ SizeOf(r) \in Nat /\ filePos[r] \in Nat /\ blockSize[r] \in 1..BlockSize
      /\ BlockSize \in Nat \ {0} /\ nextBlock[r] \in [0..1 -> [1..BlockSize -> Unit]]
      /\ nextBlockSize[r] \in 0..BlockSize
  BY StreamTypes
<1>2. Place(r) = "read" /\ Place(r)' = "switch" /\ Fetching(r)
  BY DEF ThreadRead, Place, Serving, Fetching
<1>3. Asked(r) = 1
  BY <1>1, <1>2, FieldTypes DEF Handover, OneUnderWay
<1>4. nextBlockSize[r] = 0 /\ nextBlockSize'[r] = 0 /\ InFlight(r) = 0 /\ filePos[r] = Got(r)
  BY <1>1, <1>2, <1>3 DEF ThreadRead, Handover, OneUnderWay, Ready, InFlight, Carried,
     handVars, Streaming, Position
<1>5. streamName[r] = Name(r) /\ Name(r) \in Names \ Unopenable
  BY <1>1, <1>3 DEF Handover, OfOne, ReadsName, Name
<1>6. tbuf = bufferIndex[r] \/ eof[r]
  BY <1>1, <1>2 DEF Handover, Buffers, Notified
<1>. DEFINE p == filePos[r]
            count == ReadCount(Name(r), p, blockSize[r])
<1>7. count \in 0..blockSize[r] /\ (count = 0 <=> p >= SizeOf(r))
  BY <1>1, <1>5, ReadCountOpen DEF SizeOf
<1>8. p < SizeOf(r) => p + count = BlockEnd(r, p)
  <2>. SUFFICES ASSUME p < SizeOf(r) PROVE p + count = BlockEnd(r, p)
    OBVIOUS
  <2>1. blockSize[r] = FirstSizeAt(p)
    BY <1>1, <1>2 DEF Streaming, Aligned
  <2>2. count = IF p + blockSize[r] <= SizeOf(r) THEN blockSize[r] ELSE SizeOf(r) - p
    BY <1>5 DEF ReadCount, SizeOf
  <2>3. Edge(p) = p + blockSize[r]
    BY <2>1 DEF Edge
  <2>. HIDE DEF count
  <2>4. CASE p + blockSize[r] < SizeOf(r)
    BY <1>1, <2>2, <2>3, <2>4 DEF BlockEnd
  <2>5. CASE ~(p + blockSize[r] < SizeOf(r))
    <3>0. \A n, q, s \in Nat : ~(q + n < s) => (IF q + n <= s THEN n ELSE s - q) = s - q
      OBVIOUS
    <3>1. count = SizeOf(r) - p
      <4>1. p \in Nat /\ blockSize[r] \in Nat /\ SizeOf(r) \in Nat
        BY <1>1
      <4>. QED BY <2>2, <2>5, <3>0, <4>1
    <3>. QED BY <1>1, <2>3, <2>5, <3>1 DEF BlockEnd
  <2>. QED BY <2>4, <2>5
<1>9. /\ tbytes' = count /\ filePos'[r] = p + count
      /\ \A i \in 1..count : nextBlock'[r][tbuf][i] = <<Name(r), p + i>>
  <2>1. filePos \in [Readers -> Int] /\ tbuf \in 0..1
        /\ nextBlock \in [Readers -> [0..1 -> [1..BlockSize -> Unit]]]
    BY <1>1 DEF Bookkeeping, TypeOK, StreamType, DataType, ThreadType
  <2>2. /\ tbytes' = count
        /\ filePos' = [filePos EXCEPT ![r] = IF count > 0 THEN @ + count ELSE @]
        /\ nextBlock' = [nextBlock EXCEPT ![r][tbuf] = [i \in 1..BlockSize |->
                            IF i <= count THEN <<streamName[r], p + i>> ELSE @[i]]]
    BY <1>5 DEF ThreadRead, ReadInto
  <2>3. count \in Nat /\ count <= BlockSize
    BY <1>1, <1>7
  <2>. HIDE DEF count
  <2>4. filePos'[r] = p + count
    BY <1>1, <2>1, <2>2, <2>3
  <2>5. nextBlock'[r][tbuf] = [i \in 1..BlockSize |->
            IF i <= count THEN <<streamName[r], p + i>> ELSE nextBlock[r][tbuf][i]]
    BY <2>1, <2>2
  <2>. QED BY <1>1, <1>5, <2>2, <2>3, <2>4, <2>5
<1>. HIDE DEF count
<1>10. Got(r)' = Got(r) /\ InFlight(r)' = count /\ count \in Nat
  BY <1>1, <1>2, <1>4, <1>7, <1>9 DEF ThreadRead, Got, InFlight, Carried, clientVars
<1>11. Position(r)'
  BY <1>4, <1>9, <1>10 DEF Position
<1>12. Contents(r)'
  <2>1. eof[r] => count = 0
    BY <1>1, <1>7 DEF Handover, OfOne, SizeOf, Name
  <2>2. bufferIndex'[r] = bufferIndex[r]
    BY DEF ThreadRead, handVars
  <2>. QED BY <1>4, <1>6, <1>9, <1>10, <2>1, <2>2 DEF Contents, Name
<1>13. InOrder(r)' /\ FromStart(r)' /\ Aligned(r)'
  <2>1. r \in opened
    BY <1>1, <1>2 DEF Handover, Untouched
  <2>. QED BY <1>1, <1>2, <2>1 DEF ThreadRead, Streaming, InOrder, FromStart, Aligned, Name,
           clientVars
<1>14. Within(r)'
  <2>1. SizeOf(r)' = SizeOf(r) /\ BlockEnd(r, Got(r))' = BlockEnd(r, Got(r))
        /\ delivered'[r] = delivered[r]
    BY <1>10 DEF ThreadRead, SizeOf, Name, BlockEnd, Edge, FirstSizeAt, clientVars
  <2>2. count > 0 => Got(r) < SizeOf(r) /\ Got(r) + count = BlockEnd(r, Got(r))
    BY <1>1, <1>4, <1>7, <1>8, <1>10
  <2>. QED BY <1>1, <1>10, <2>1, <2>2 DEF Streaming, Within
<1>. QED BY <1>11, <1>12, <1>13, <1>14 DEF Streaming

\* After a block the next read is aligned again.
LEMMA StayStream ==
  ASSUME HandoverInv, StreamInv, ThreadStay, NEW r \in Readers, OneFile(r), r = tid
  PROVE  Streaming(r)'
<1>1. /\ Bookkeeping /\ Handover(r) /\ Streaming(r) /\ Got(r) \in Nat
      /\ SizeOf(r) \in Nat /\ filePos[r] \in Nat /\ blockSize[r] \in 1..BlockSize
      /\ nextBlockSize[r] \in 0..BlockSize /\ InFlight(r) \in Nat
  BY StreamTypes
<1>2. Place(r) = "switch" /\ Place(r)' = "publish" /\ Fetching(r)
  BY DEF ThreadStay, GoPublish, Place, Serving, Fetching
<1>3. blockSize'[r] = BlockSize
  BY <1>1 DEF ThreadStay, GoPublish, Bookkeeping, TypeOK, StreamType
<1>4. /\ UNCHANGED <<filePos, nextBlockSize, base, delivered, nextBlock, bufferIndex,
                     tbytes, opened, detecting>>
      /\ Got(r)' = Got(r) /\ InFlight(r)' = InFlight(r) /\ Name(r)' = Name(r)
      /\ SizeOf(r)' = SizeOf(r)
  BY <1>2 DEF ThreadStay, Got, InFlight, Carried, Name, SizeOf, clientVars
<1>5. Position(r)' /\ Contents(r)' /\ InOrder(r)'
  BY <1>1, <1>4 DEF Streaming, Position, Contents, InOrder
<1>6. BlockEnd(r, Got(r))' = BlockEnd(r, Got(r))
  BY <1>4 DEF BlockEnd, Edge, FirstSizeAt
<1>7. Within(r)'
  BY <1>1, <1>4, <1>6 DEF Streaming, Within
<1>8. Aligned(r)'
  <2>. SUFFICES ASSUME filePos[r] < SizeOf(r) PROVE BlockSize = FirstSizeAt(filePos[r])
    BY <1>1, <1>3, <1>4 DEF Aligned, FirstSizeAt
  <2>1. nextBlockSize[r] = 0 /\ tbytes # 0 /\ InFlight(r) = tbytes
    <3>1. Asked(r) = 1
      BY <1>1, <1>2, FieldTypes DEF Handover, OneUnderWay
    <3>2. nextBlockSize[r] = 0
      BY <1>1, <3>1 DEF Handover, OneUnderWay, Ready
    <3>3. tbytes \in Int
      BY <1>1, FieldTypes
    <3>. QED BY <1>1, <1>2, <3>2, <3>3 DEF Handover, OfOne, SizeOf, Name, InFlight, Carried
  <2>2. filePos[r] = BlockEnd(r, Got(r)) /\ Got(r) < SizeOf(r)
    BY <1>1, <2>1 DEF Streaming, Position, Within
  <2>3. filePos[r] = Edge(Got(r))
    BY <1>1, <2>2 DEF BlockEnd
  <2>. QED BY <1>1, <2>3, EdgeFacts
<1>9. FromStart(r)'
  BY <1>1, <1>3, <1>4 DEF Streaming, FromStart
<1>. QED BY <1>5, <1>7, <1>8, <1>9 DEF Streaming

\* Publishing changes where the block in flight is noted, and nothing else.
LEMMA PublishStream ==
  ASSUME HandoverInv, StreamInv, ThreadPublish, NEW r \in Readers, OneFile(r), r = tid
  PROVE  Streaming(r)'
<1>1. /\ Bookkeeping /\ Handover(r) /\ Streaming(r)
      /\ nextBlockSize[r] \in 0..BlockSize
  BY StreamTypes
<1>2. Place(r) = "publish" /\ Place(r)' = "release"
  BY DEF ThreadPublish, Place, Serving
<1>3. nextBlockSize'[r] = tbytes /\ nextBlockSize[r] = 0 /\ tbytes \in Int
  BY <1>1, <1>2, FieldTypes DEF ThreadPublish, Bookkeeping, TypeOK, HandType, Handover,
     OneUnderWay, Ready
<1>4. /\ UNCHANGED <<filePos, blockSize, base, delivered, nextBlock, bufferIndex,
                     opened, detecting>>
      /\ Got(r)' = Got(r) /\ InFlight(r)' = InFlight(r) /\ Name(r)' = Name(r)
      /\ SizeOf(r)' = SizeOf(r)
  BY <1>2, <1>3 DEF ThreadPublish, Got, InFlight, Carried, Name, SizeOf, streamVars,
     clientVars
<1>5. BlockEnd(r, Got(r))' = BlockEnd(r, Got(r)) /\ FirstSizeAt(filePos[r])' = FirstSizeAt(filePos[r])
  BY <1>4 DEF BlockEnd, Edge, FirstSizeAt
<1>6. Position(r)' /\ Contents(r)' /\ InOrder(r)' /\ Within(r)'
  BY <1>1, <1>4, <1>5 DEF Streaming, Position, Contents, InOrder, Within
<1>7. Aligned(r)' /\ FromStart(r)'
  BY <1>1, <1>2, <1>4, <1>5 DEF Streaming, Aligned, FromStart
<1>. QED BY <1>6, <1>7 DEF Streaming

\* What concatenation is made of.
LEMMA ConcatParts ==
  ASSUME NEW S, NEW s \in Seq(S), NEW t \in Seq(S)
  PROVE  /\ Len(s \o t) = Len(s) + Len(t)
         /\ \A i \in 1..Len(s) : (s \o t)[i] = s[i]
         /\ \A i \in 1..Len(t) : (s \o t)[Len(s) + i] = t[i]
OBVIOUS

\* What readBlock hands over continues what the caller has.
LEMMA ResetStream ==
  ASSUME HandoverInv, StreamInv, ReadReset, NEW r \in Readers, OneFile(r), r = cid
  PROVE  /\ Streaming(r)'
         /\ crez = "ok" /\ ~Done(r) /\ Got(r) < SizeOf(r)
               => Got(r)' = BlockEnd(r, Got(r))
         /\ crez = "ok" => ~Done(r) /\ Got(r) < SizeOf(r)
         /\ crez = "eof" => Got(r) >= SizeOf(r) /\ delivered'[r] = delivered[r]
<1>1. /\ Bookkeeping /\ Handover(r) /\ Streaming(r) /\ Got(r) \in Nat
      /\ base[r] \in Nat /\ Len(delivered[r]) \in Nat /\ delivered[r] \in Seq(Unit)
      /\ SizeOf(r) \in Nat /\ filePos[r] \in Nat /\ Carried(r) \in 0..BlockSize
      /\ nextBlockSize[r] \in 0..BlockSize /\ InFlight(r) \in Nat /\ BlockSize \in Nat
      /\ nextBlock[r] \in [0..1 -> [1..BlockSize -> Unit]] /\ bufferIndex[r] \in 0..1
  BY StreamTypes, FieldTypes
<1>2. Calling(r) = "reset" /\ r \in opened /\ ccnt \in 0..BlockSize
  BY <1>1, FieldTypes DEF ReadReset, Calling, Handover, InCall
<1>3. /\ Ready(r) \/ eof[r]
      /\ crez = "eof" <=> eof[r]
      /\ crez \in {"ok", "eof"}
      /\ ccnt # 0 => ccnt = nextBlockSize[r]
      /\ ~eof[r] /\ nextBlockSize[r] > 0 => ccnt = nextBlockSize[r]
      /\ Done(r) => eof[r]
      /\ eof[r] => ~Ready(r) /\ ~Filled(r) /\ filePos[r] >= SizeOf(r)
      /\ eof[r] /\ Place(r) = "switch" => tbytes = 0
  BY <1>1, <1>2 DEF Handover, InCall, Notified, OfOne, SizeOf, Name, Bookkeeping, TypeOK,
     CallType
<1>4. ccnt = nextBlockSize[r] /\ Carried(r) = 0
  <2>1. CASE eof[r]
    BY <1>1, <1>2, <1>3, <2>1 DEF Ready, Filled, Carried
  <2>2. CASE ~eof[r]
    <3>1. ccnt = nextBlockSize[r] /\ Ready(r)
      BY <1>1, <1>3, <2>2 DEF Ready
    <3>2. ~Fetching(r) /\ Place(r) # "publish"
      BY <1>1, <3>1, FieldTypes DEF Handover, OneUnderWay
    <3>. QED BY <3>1, <3>2 DEF Fetching, Carried
  <2>. QED BY <2>1, <2>2
<1>5. ccnt = InFlight(r)
  BY <1>1, <1>4 DEF InFlight
<1>6. /\ UNCHANGED <<filePos, blockSize, base, nextBlock, opened, detecting, tid, tpc,
                     tbytes>>
      /\ Place(r)' = Place(r) /\ Name(r)' = Name(r) /\ SizeOf(r)' = SizeOf(r)
      /\ nextBlockSize'[r] = 0
  BY <1>1 DEF ReadReset, Place, Name, SizeOf, streamVars, threadVars, Bookkeeping, TypeOK,
     HandType
<1>7. InFlight(r)' = 0
  BY <1>4, <1>6 DEF InFlight, Carried
<1>. DEFINE block == SubSeq(nextBlock[r][bufferIndex[r]], 1, ccnt)
<1>8. /\ block \in Seq(Unit) /\ Len(block) = ccnt
      /\ \A i \in 1..ccnt : block[i] = nextBlock[r][bufferIndex[r]][i]
  <2>. DEFINE b == nextBlock[r][bufferIndex[r]]
  <2>1. b \in [1..BlockSize -> Unit]
    BY <1>1
  <2>2. b \in Seq(Unit) /\ Len(b) = BlockSize
    BY <1>1, <2>1
  <2>. HIDE DEF b
  <2>3. block = SubSeq(b, 1, ccnt)
    BY DEF b
  <2>4. \A i \in 1..ccnt : b[i] \in Unit
    BY <1>1, <1>2, <2>1
  <2>. QED BY <1>1, <1>2, <2>2, <2>3, <2>4 DEF b
<1>. HIDE DEF block
<1>9. delivered'[r] = delivered[r] \o block
  <2>1. delivered \in [Readers -> Seq(Unit)]
    BY <1>1 DEF Bookkeeping, TypeOK, DataType
  <2>. QED BY <2>1 DEF ReadReset, block
<1>10. /\ Len(delivered'[r]) = Len(delivered[r]) + ccnt
       /\ \A i \in 1..Len(delivered[r]) : delivered'[r][i] = delivered[r][i]
       /\ \A i \in 1..ccnt : delivered'[r][Len(delivered[r]) + i] = block[i]
  <2>1. delivered[r] \in Seq(Unit)
    BY <1>1
  <2>. DEFINE d == delivered[r]
  <2>2. /\ Len(d \o block) = Len(d) + Len(block)
        /\ \A i \in 1..Len(d) : (d \o block)[i] = d[i]
        /\ \A i \in 1..Len(block) : (d \o block)[Len(d) + i] = block[i]
    <3>1. \A s, t \in Seq(Unit) :
             /\ Len(s \o t) = Len(s) + Len(t)
             /\ \A i \in 1..Len(s) : (s \o t)[i] = s[i]
             /\ \A i \in 1..Len(t) : (s \o t)[Len(s) + i] = t[i]
      BY ConcatParts
    <3>. HIDE DEF d
    <3>2. d \in Seq(Unit) /\ block \in Seq(Unit)
      BY <1>8, <2>1 DEF d
    <3>. QED BY <3>1, <3>2
  <2>. QED BY <1>8, <1>9, <2>2
<1>11. Got(r)' = Got(r) + ccnt
  BY <1>1, <1>2, <1>6, <1>10 DEF Got
<1>12. Position(r)'
  BY <1>1, <1>5, <1>6, <1>7, <1>11 DEF Streaming, Position
<1>13. Contents(r)'
  BY <1>7 DEF Contents
<1>14. InOrder(r)'
  <2>. SUFFICES ASSUME NEW i \in 1..(Len(delivered[r]) + ccnt)
                PROVE  delivered'[r][i] = <<Name(r), base[r] + i>>
    BY <1>6, <1>10 DEF InOrder
  <2>1. CASE i <= Len(delivered[r])
    <3>1. i \in 1..Len(delivered[r])
      <4>1. Len(delivered[r]) \in Nat /\ ccnt \in Nat
        BY <1>1, <1>2
      <4>. QED BY <2>1, <4>1
    <3>2. InOrder(r)
      BY <1>1 DEF Streaming
    <3>3. delivered[r][i] = <<Name(r), base[r] + i>>
      BY <3>1, <3>2 DEF InOrder
    <3>4. delivered'[r][i] = delivered[r][i]
      BY <1>10, <3>1
    <3>. QED BY <3>3, <3>4
  <2>2. CASE i > Len(delivered[r])
    <3>0. Len(delivered[r]) \in Nat /\ ccnt \in Nat
      BY <1>1, <1>2
    <3>. DEFINE j == i - Len(delivered[r])
    <3>1. j \in 1..ccnt /\ i = Len(delivered[r]) + j
      BY <2>2, <3>0
    <3>. HIDE DEF j
    <3>2. delivered'[r][i] = nextBlock[r][bufferIndex[r]][j]
      BY <1>8, <1>10, <3>1
    <3>3. nextBlock[r][bufferIndex[r]][j] = <<Name(r), Got(r) + j>>
      BY <1>1, <1>5, <3>1 DEF Streaming, Contents
    <3>4. Got(r) + j = base[r] + i
      BY <1>1, <3>1 DEF Got
    <3>. QED BY <3>2, <3>3, <3>4
  <2>. QED BY <1>1, <1>2, <2>1, <2>2
<1>15. ccnt > 0 => Got(r) < SizeOf(r) /\ Got(r)' = BlockEnd(r, Got(r))
  BY <1>1, <1>5, <1>11 DEF Streaming, Within
<1>16. Within(r)'
  <2>1. CASE ccnt = 0
    <3>1. block = <<>>
      BY <1>8, <2>1
    <3>2. delivered'[r] = delivered[r]
      BY <1>1, <1>9, <3>1
    <3>. QED BY <1>1, <1>6, <1>7, <1>11, <2>1, <3>2 DEF Streaming, Within
  <2>2. CASE ccnt > 0
    <3>1. BlockEnd(r, Got(r)) <= SizeOf(r)
      <4>1. Edge(Got(r)) \in Nat
        BY <1>1, EdgeFacts
      <4>. QED BY <1>1, <4>1 DEF BlockEnd
    <3>. QED BY <1>6, <1>7, <1>15, <2>2, <3>1 DEF Within
  <2>. QED BY <1>2, <2>1, <2>2
<1>17. Aligned(r)' /\ FromStart(r)'
  BY <1>1, <1>2, <1>6 DEF Streaming, Aligned, FromStart, FirstSizeAt
<1>18. crez = "ok" => ccnt > 0 /\ ~Done(r)
  BY <1>2, <1>3, <1>4 DEF Ready
<1>19. crez = "eof" => Got(r) >= SizeOf(r) /\ delivered'[r] = delivered[r]
  <2>. SUFFICES ASSUME eof[r] PROVE Got(r) >= SizeOf(r) /\ delivered'[r] = delivered[r]
    BY <1>3
  <2>1. ccnt = 0 /\ InFlight(r) = 0
    BY <1>3, <1>4, <1>5 DEF Ready
  <2>2. block = <<>>
    BY <1>8, <2>1
  <2>. QED BY <1>1, <1>3, <1>9, <2>1, <2>2 DEF Streaming, Position
<1>20. Streaming(r)'
  BY <1>12, <1>13, <1>14, <1>16, <1>17 DEF Streaming
<1>. QED BY <1>15, <1>18, <1>19, <1>20

\* A stream starts, or is moved, with nothing in flight.
LEMMA MoveStream ==
  ASSUME NEW r \in Readers, OneFile(r), HandoverInv,
         nextBlockSize'[r] = 0, Place(r)' = "away", delivered'[r] = <<>>,
         filePos'[r] = base'[r], base'[r] \in Nat,
         blockSize'[r] = FirstSizeAt(base'[r]),
         r \in detecting' => base'[r] = 0 /\ blockSize'[r] = BlockSize,
         r \in opened'
  PROVE  Streaming(r)'
<1>1. InFlight(r)' = 0 /\ Got(r)' = base'[r]
  BY DEF InFlight, Carried, Got
<1>2. Position(r)' /\ Contents(r)' /\ InOrder(r)' /\ Within(r)'
  BY <1>1 DEF Position, Contents, InOrder, Within
<1>3. Aligned(r)' /\ FromStart(r)'
  BY DEF Aligned, FromStart, FirstSizeAt
<1>. QED BY <1>2, <1>3 DEF Streaming

\* A block starts at 0.
LEMMA FirstSizeAtZero == FirstSizeAt(0) = BlockSize
<1>1. BlockSize \in Nat /\ BlockSize > 0
  BY ReaderAssumption
<1>2. 0 % BlockSize = 0
  BY <1>1
<1>. QED BY <1>1, <1>2 DEF FirstSizeAt

LEMMA OpenMoves ==
  ASSUME HandoverInv, StreamInv, NEW r \in Readers, OneFile(r), OpenStream(r)
  PROVE  Streaming(r)'
<1>1. /\ Handover(r) /\ Streaming(r) /\ StreamType /\ r \notin opened /\ Bookkeeping
      /\ nextBlockSize[r] \in 0..BlockSize
  BY StreamTypes DEF OpenStream, Bookkeeping, TypeOK
<1>2. nextBlockSize[r] = 0 /\ Place(r) = "away"
  BY <1>1 DEF Handover, Untouched, Loaded, Ready
<1>3. /\ delivered'[r] = <<>> /\ filePos'[r] = 0 /\ base'[r] = 0
      /\ blockSize'[r] = BlockSize /\ r \in opened'
      /\ nextBlockSize'[r] = 0 /\ Place(r)' = "away"
  BY <1>1, <1>2 DEF OpenStream, Streaming, FromStart, StreamType, Place, handVars,
     threadVars
<1>. QED BY <1>3, FirstSizeAtZero, MoveStream

LEMMA IncSeekMoves ==
  ASSUME HandoverInv, StreamInv, NEW r \in Readers, OneFile(r), IncSeek(r)
  PROVE  /\ Streaming(r)'
         /\ delivered'[r] = <<>> /\ lastRez'[r] = "ok" /\ base'[r] = base[r]
<1>1. /\ Handover(r) /\ Streaming(r) /\ Bookkeeping /\ TypeOK
      /\ nextBlockSize[r] \in 0..BlockSize /\ base[r] \in Nat /\ Got(r) \in Nat
      /\ Len(delivered[r]) \in Nat /\ InFlight(r) \in Nat /\ Carried(r) \in 0..BlockSize
  BY StreamTypes DEF Bookkeeping
<1>2. r \in detecting /\ Calling(r) = "out" /\ r \in opened
  BY DEF IncSeek, Reading, Calling
<1>3. ~Loaded(r) /\ Asked(r) = 0
  BY <1>1, <1>2, FieldTypes DEF Handover, Detecting, Loaded
<1>4. nextBlockSize[r] = 0 /\ Carried(r) = 0
  BY <1>1, <1>3, FieldTypes DEF Loaded, Ready, Filled, Carried, Fetching
<1>5. base[r] = 0 /\ blockSize[r] = BlockSize /\ filePos[r] = Len(delivered[r])
  BY <1>1, <1>2, <1>4 DEF Streaming, FromStart, Position, Got, InFlight
<1>6. /\ filePos'[r] = 0 /\ delivered'[r] = <<>> /\ lastRez'[r] = "ok"
      /\ UNCHANGED <<base, blockSize, nextBlockSize, opened, tid, tpc, tbytes>>
  BY <1>1, <1>5 DEF IncSeek, TypeOK, StreamType, ClientType, DataType, threadVars
<1>7. Place(r)' = Place(r) /\ Carried(r)' = 0 /\ InFlight(r)' = 0 /\ Got(r)' = 0
  BY <1>4, <1>5, <1>6 DEF Place, Carried, InFlight, Got
<1>8. Position(r)' /\ Contents(r)' /\ InOrder(r)' /\ Within(r)'
  BY <1>6, <1>7 DEF Position, Contents, InOrder, Within
<1>9. Aligned(r)' /\ FromStart(r)'
  BY <1>2, <1>5, <1>6, FirstSizeAtZero DEF Aligned, FromStart, FirstSizeAt
<1>. QED BY <1>6, <1>8, <1>9 DEF Streaming

LEMMA GotoMoves ==
  ASSUME HandoverInv, StreamInv, Calm, NEW r \in Readers, OneFile(r),
         NEW p \in GotoTargets, GotoByte(r, p)
  PROVE  /\ Streaming(r)'
         /\ delivered'[r] = <<>> /\ lastRez'[r] = "ok"
         /\ base' = [base EXCEPT ![r] = p] /\ p \in Nat
<1>1. /\ Bookkeeping /\ TypeOK /\ Queued(r) \in Nat /\ InService(r) \in 0..1
      /\ atQueue[r] >= Queued(r) + InService(r)
  BY CountsAreNat DEF HandoverInv, Bookkeeping, Counted
<1>2. atQueue[r] = 0 /\ nextBlockSize[r] = 0 /\ p \in Nat /\ r \in opened
      /\ r \notin detecting
  BY ReaderAssumption DEF GotoByte, Calm, Reading
<1>3. Place(r) = "away"
  BY <1>1, <1>2 DEF InService, Place
<1>4. /\ filePos'[r] = p /\ base'[r] = p /\ delivered'[r] = <<>> /\ lastRez'[r] = "ok"
      /\ blockSize'[r] = FirstSizeAt(p) /\ base' = [base EXCEPT ![r] = p]
      /\ UNCHANGED <<nextBlockSize, opened, detecting, tid, tpc>>
  BY <1>1 DEF GotoByte, TypeOK, StreamType, ClientType, DataType, threadVars
<1>5. Place(r)' = "away"
  BY <1>3, <1>4 DEF Place
<1>6. Streaming(r)'
  BY <1>2, <1>4, <1>5, MoveStream
<1>. QED BY <1>2, <1>4, <1>6

\* Every other step leaves the data of the reader alone.
StreamAt(r) == <<filePos[r], nextBlockSize[r], base[r], delivered[r], nextBlock[r],
                 bufferIndex[r], blockSize[r]>>

LEMMA ThreadStream ==
  ASSUME HandoverInv, StreamInv, Thread, NEW r \in Readers, OneFile(r)
  PROVE  Streaming(r)' /\ UNCHANGED <<base[r], delivered[r], lastRez[r]>>
<1>1. /\ TypeOK /\ Handover(r) /\ Streaming(r)
      /\ UNCHANGED clientVars
  <2>1. UNCHANGED clientVars
    BY DEF Thread, ThreadPop, ThreadGet, ThreadRead, ThreadStay, ThreadSwitch,
       ThreadReadNext, ThreadPublish, ThreadRelease, ThreadLoop
  <2>. QED BY <2>1, StreamTypes DEF Bookkeeping
<1>2. CASE ThreadPop \/ ThreadGet \/ ThreadRelease \/ ThreadLoop
  <2>1. UNCHANGED StreamAt(r)
    BY <1>1, <1>2 DEF ThreadPop, ThreadGet, ThreadRelease, ThreadLoop, StreamAt, handVars,
       streamVars, clientVars
  <2>2. Carried(r)' = Carried(r) /\ Place(r) # "switch"
    BY <1>2 DEF ThreadPop, ThreadGet, ThreadRelease, ThreadLoop, Carried, Place, Serving
  <2>. QED BY <1>1, <2>1, <2>2, StreamFrame DEF StreamAt, clientVars
<1>3. CASE /\ ThreadRead \/ ThreadStay \/ ThreadSwitch \/ ThreadReadNext \/ ThreadPublish
           /\ r # tid
  <2>1. UNCHANGED StreamAt(r)
    BY <1>1, <1>3 DEF ThreadRead, ThreadStay, ThreadSwitch, ThreadReadNext, ThreadPublish,
       ReadInto, GoPublish, StreamAt, handVars, streamVars, clientVars, TypeOK, HandType,
       StreamType, DataType
  <2>2. Carried(r)' = Carried(r) /\ Place(r) # "switch"
    BY <1>3 DEF ThreadRead, ThreadStay, ThreadSwitch, ThreadReadNext, ThreadPublish,
       Carried, Place
  <2>. QED BY <1>1, <2>1, <2>2, StreamFrame DEF StreamAt, clientVars
<1>4. CASE (ThreadRead \/ ThreadStay \/ ThreadPublish) /\ r = tid
  BY <1>1, <1>4, ReadStream, StayStream, PublishStream DEF clientVars
<1>5. CASE ThreadSwitch /\ r = tid
  BY <1>1, <1>5 DEF ThreadSwitch, Handover, OfOne
<1>6. CASE ThreadReadNext /\ r = tid
  BY <1>1, <1>6 DEF ThreadReadNext, Handover, OfOne, Place, Serving
<1>. QED BY <1>2, <1>3, <1>4, <1>5, <1>6 DEF Thread

\* The calls on r that read or move nothing, and the calls on other readers.
LEMMA CallerStream ==
  ASSUME HandoverInv, StreamInv, Caller, NEW r \in Readers, OneFile(r),
         ~OpenStream(r), ~IncSeek(r), \A p \in GotoTargets : ~GotoByte(r, p),
         ~(ReadReset /\ r = cid)
  PROVE  Streaming(r)' /\ UNCHANGED <<base[r], delivered[r], lastRez[r]>>
<1>1. TypeOK /\ Handover(r) /\ Streaming(r)
  BY StreamTypes DEF Bookkeeping
<1>2. ASSUME NEW q \in Readers,
             \/ CreateReader(q) \/ ReadRequest(q) \/ Notify(q) \/ DeleteReader(q)
      PROVE  UNCHANGED <<StreamAt(r), tid, tbytes, lastRez[r], detecting>>
             /\ opened \subseteq opened'
  BY <1>1, <1>2 DEF CreateReader, ReadRequest, Notify, DeleteReader, Request, StreamAt,
     handVars, streamVars, threadVars, clientVars
<1>3. ASSUME NEW q \in Readers, q # r,
             OpenStream(q) \/ IncSeek(q) \/ \E p \in GotoTargets : GotoByte(q, p)
      PROVE  UNCHANGED <<StreamAt(r), tid, tbytes, lastRez[r]>>
             /\ opened \subseteq opened' /\ detecting' \subseteq detecting
  BY <1>1, <1>3 DEF OpenStream, IncSeek, GotoByte, StreamAt, handVars, streamVars,
     threadVars, clientVars, TypeOK, HandType, StreamType, DataType, ClientType
<1>4. ASSUME ReadWait \/ ReadTake \/ (ReadReset /\ cid # r) \/ Terminate \/ PushStop \/ Join
      PROVE  UNCHANGED <<StreamAt(r), tid, tbytes, lastRez[r], opened, detecting>>
  BY <1>1, <1>4 DEF ReadWait, ReadTake, ReadReset, Terminate, PushStop, Join, StreamAt,
     handVars, streamVars, threadVars, clientVars, TypeOK, HandType, StreamType, DataType,
     ClientType
<1>5. UNCHANGED <<StreamAt(r), tid, tbytes, lastRez[r]>>
      /\ opened \subseteq opened' /\ detecting' \subseteq detecting
  BY <1>2, <1>3, <1>4 DEF Caller, ReadReturn, End
<1>6. UNCHANGED tpc \/ (tpc = "none" /\ tpc' = "loop")
  BY DEF Caller, ReadReturn, End, CreateReader, OpenStream, ReadRequest, Notify, IncSeek,
     DeleteReader, GotoByte, ReadWait, ReadTake, ReadReset, Terminate, PushStop, Join,
     threadVars
<1>7. Place(r)' = Place(r) /\ Carried(r)' = Carried(r)
  BY <1>5, <1>6 DEF Place, Carried, Serving
<1>. QED BY <1>1, <1>5, <1>7, StreamFrame DEF StreamAt

-----------------------------------------------------------------------------
\* Every step keeps the data of every reader of one file in order.
LEMMA StreamStep ==
  ASSUME HandoverInv, StreamInv, Calm, Next
  PROVE  StreamInv'
<1>. SUFFICES ASSUME NEW r \in Readers, OneFile(r) PROVE Streaming(r)'
  BY DEF StreamInv, OneFile
<1>1. CASE Thread
  BY <1>1, ThreadStream
<1>2. CASE OpenStream(r) \/ IncSeek(r) \/ \E p \in GotoTargets : GotoByte(r, p)
  BY <1>2, OpenMoves, IncSeekMoves, GotoMoves
<1>3. CASE ReadReset /\ r = cid
  BY <1>3, ResetStream
<1>. QED BY <1>1, <1>2, <1>3, CallerStream DEF Next

LEMMA InitStream == Init => StreamInv
<1>. SUFFICES ASSUME Init, NEW r \in Readers, OneFile(r) PROVE Streaming(r)
  BY DEF StreamInv
<1>1. Place(r) = "away" /\ nextBlockSize[r] = 0 /\ delivered[r] = <<>> /\ base[r] = 0
      /\ filePos[r] = 0 /\ blockSize[r] = BlockSize
  BY DEF Init, Place, Serving
<1>2. InFlight(r) = 0 /\ Got(r) = 0
  BY <1>1 DEF InFlight, Carried, Got
<1>3. Position(r) /\ Contents(r) /\ InOrder(r) /\ Within(r) /\ FromStart(r)
  BY <1>1, <1>2 DEF Position, Contents, InOrder, Within, FromStart
<1>4. Aligned(r)
  BY <1>1, FirstSizeAtZero DEF Aligned
<1>. QED BY <1>3, <1>4 DEF Streaming

LEMMA StreamHolds == ASSUME Calm PROVE Spec => [](HandoverInv /\ StreamInv)
<1>1. HandoverInv /\ StreamInv /\ [Next]_vars => StreamInv'
  <2>. SUFFICES ASSUME HandoverInv, StreamInv, [Next]_vars PROVE StreamInv'
    OBVIOUS
  <2>1. CASE UNCHANGED vars
    <3>. SUFFICES ASSUME NEW r \in Readers, OneFile(r) PROVE Streaming(r)'
      BY DEF StreamInv, OneFile
    <3>1. Place(r)' = Place(r) /\ Carried(r)' = Carried(r)
      BY <2>1 DEF Place, Carried, vars, threadVars
    <3>. QED BY <2>1, <3>1, StreamFrame DEF StreamInv, vars, handVars, streamVars,
             clientVars
  <2>. QED BY <2>1, StreamStep
<1>2. Spec => []HandoverInv
  BY HandoverHolds
<1>. QED BY <1>1, <1>2, InitStream, PTL DEF Spec

-----------------------------------------------------------------------------
\* A sequence that continues another at position b is a prefix of what follows b.
LEMMA PrefixParts ==
  ASSUME NEW U, NEW V, NEW d \in Seq(V), NEW file \in Seq(U), NEW b \in Nat,
         Len(d) = 0 \/ b + Len(d) <= Len(file),
         \A i \in 1..Len(d) : d[i] = file[b + i]
  PROVE  IsPrefix(d, SubSeq(file, b + 1, Len(file)))
<1>. DEFINE rest == SubSeq(file, b + 1, Len(file))
            n == Len(d)
            m == Len(file)
<1>1. n \in Nat /\ m \in Nat
  OBVIOUS
<1>2. rest \in Seq(U)
  BY <1>1
<1>3. Len(rest) = IF b + 1 <= m THEN m - b ELSE 0
  BY <1>1
<1>4. \A i \in 1..Len(rest) : rest[i] = file[b + i]
  <2>1. CASE b + 1 <= m
    BY <1>1, <1>3, <2>1
  <2>2. CASE ~(b + 1 <= m)
    BY <1>1, <1>3, <2>2
  <2>. QED BY <2>1, <2>2
<1>5. n <= Len(rest)
  BY <1>1, <1>3
<1>. HIDE DEF rest
<1>6. SubSeq(rest, 1, n) = [i \in 1..n |-> rest[i]]
  BY <1>1, <1>2, <1>5
<1>7. SubSeq(d, 1, n) = [i \in 1..n |-> d[i]]
  BY <1>1
<1>8. \A i \in 1..n : rest[i] = d[i]
  <2>1. \A i \in 1..n : i \in 1..Len(rest)
    BY <1>1, <1>2, <1>5
  <2>. QED BY <1>4, <2>1
<1>9. SubSeq(d, 1, n) = SubSeq(rest, 1, n)
  <2>. HIDE DEF n
  <2>. QED BY <1>6, <1>7, <1>8
<1>10. IsPrefix(d, rest)
  BY <1>5, <1>9 DEF IsPrefix
<1>. QED BY <1>10 DEF rest

\* A reader of one file that returned DATA_EOF has nothing in flight, and the
\* caller got the file to its end.
LEMMA DoneAtEnd ==
  ASSUME HandoverInv, StreamInv, NEW r \in Readers, OneFile(r), Done(r)
  PROVE  Got(r) >= SizeOf(r)
<1>1. Handover(r) /\ Streaming(r) /\ Got(r) \in Nat /\ SizeOf(r) \in Nat
      /\ nextBlockSize[r] \in 0..BlockSize /\ Bookkeeping
  BY StreamTypes
<1>2. eof[r] /\ nextBlockSize[r] = 0 /\ filePos[r] >= SizeOf(r)
  BY <1>1 DEF Handover, Notified, OfOne, Ready, SizeOf, Name
<1>3. Carried(r) = 0
  BY <1>1, <1>2 DEF Handover, OfOne, Filled, Carried
<1>. QED BY <1>1, <1>2, <1>3 DEF Streaming, Position, InFlight

\* DATA_EOF comes with the end of the file and not before.
THEOREM EofAtTheEnd ==
  ASSUME Calm, \A r \in Readers : OneFile(r)
  PROVE  Spec => []EofIsTheEnd
<1>1. HandoverInv /\ StreamInv => EofIsTheEnd
  BY DoneAtEnd, JoinedOne DEF EofIsTheEnd, Done, Got
<1>. QED BY <1>1, StreamHolds, PTL

-----------------------------------------------------------------------------
(* The readers of one file implement BlockStream: a call of readBlock that *)
(* returns is a Block or an Eof, a seek is a Move, the rest is stuttering. *)

LEMMA StreamInitMaps == Init => Blocks!Init
<1>. SUFFICES ASSUME Init PROVE Blocks!Init
  OBVIOUS
<1>1. \A r \in OfOneFile : base[r] = 0 /\ delivered[r] = <<>> /\ lastRez[r] # "eof"
  BY DEF Init, OfOneFile
<1>2. [r \in OfOneFile |-> base[r]] = [r \in OfOneFile |-> 0]
  BY <1>1
<1>3. [r \in OfOneFile |-> Len(delivered[r])] = [r \in OfOneFile |-> 0]
  <2>1. \A r \in OfOneFile : Len(delivered[r]) = 0
    BY <1>1
  <2>. QED BY <2>1
<1>4. [r \in OfOneFile |-> lastRez[r] = "eof"] = [r \in OfOneFile |-> FALSE]
  BY <1>1
<1>. QED BY <1>2, <1>3, <1>4 DEF Blocks!Init

\* Nothing shows when no reader of one file gets data, ends or moves.
LEMMA StreamStutters ==
  ASSUME \A r \in OfOneFile : UNCHANGED <<base[r], delivered[r], lastRez[r]>>
  PROVE  UNCHANGED Blocks!vars
BY DEF Blocks!vars

\* The call that returned gave the reader a block, or the end.
LEMMA ResetMaps ==
  ASSUME HandoverInv, StreamInv, ReadReset, NEW r \in OfOneFile, r = cid
  PROVE  Blocks!Block(r) \/ Blocks!Eof(r)
<1>1. r \in Readers /\ OneFile(r) /\ OfOneFile \subseteq Readers
  BY DEF OfOneFile, OneFile
<1>2. /\ crez = "ok" => ~Done(r) /\ Got(r) < SizeOf(r) /\ Got(r)' = BlockEnd(r, Got(r))
      /\ crez = "eof" => Got(r) >= SizeOf(r) /\ delivered'[r] = delivered[r]
  BY <1>1, ResetStream
<1>3. /\ TypeOK /\ Got(r) \in Nat /\ SizeOf(r) \in Nat /\ base[r] \in Nat
      /\ Len(Joined(r)) = SizeOf(r) /\ Len(delivered[r]) \in Nat /\ crez \in {"ok", "eof"}
  BY <1>1, StreamTypes, JoinedOne DEF Bookkeeping, TypeOK, CallType
<1>4. /\ UNCHANGED base
      /\ \A q \in Readers \ {r} : UNCHANGED <<delivered[q], lastRez[q]>>
      /\ lastRez'[r] = crez
  BY <1>1, <1>3 DEF ReadReset, TypeOK, DataType, ClientType
<1>5. CASE crez = "ok"
  <2>1. Blocks!EndOfBlock(r, Got(r)) = BlockEnd(r, Got(r))
    <3>1. Edge(Got(r)) = Blocks!Boundary(Got(r))
      BY <1>3, EdgeFacts DEF Blocks!Boundary
    <3>2. [q \in OfOneFile |-> Len(Joined(q))][r] = SizeOf(r)
      BY <1>1, <1>3
    <3>. QED BY <3>1, <3>2 DEF Blocks!EndOfBlock, BlockEnd
  <2>2. Len(delivered'[r]) = BlockEnd(r, Got(r)) - base[r]
    <3>1. base[r] + Len(delivered'[r]) = BlockEnd(r, Got(r))
      BY <1>2, <1>4, <1>5 DEF Got
    <3>2. Len(delivered'[r]) \in Nat
      <4>1. Bookkeeping /\ Next
        BY DEF HandoverInv, Next, Caller, ReadReturn
      <4>2. delivered' \in [Readers -> Seq(Unit)]
        BY <4>1, BookkeepingStep DEF Bookkeeping, TypeOK, DataType
      <4>. QED BY <1>1, <4>2
    <3>. QED BY <1>3, <3>1, <3>2
  <2>. QED BY <1>1, <1>2, <1>3, <1>4, <1>5, <2>1, <2>2 DEF Blocks!Block, Done, Got
<1>6. CASE crez = "eof"
  BY <1>1, <1>2, <1>3, <1>4, <1>6 DEF Blocks!Eof, Got
<1>. QED BY <1>3, <1>5, <1>6

\* A seek of one reader moves that reader and no other.
LEMMA MoveMaps ==
  ASSUME HandoverInv, NEW r \in OfOneFile, base'[r] \in Nat,
         delivered'[r] = <<>>, lastRez'[r] = "ok",
         \A q \in OfOneFile \ {r} : UNCHANGED <<base[q], delivered[q], lastRez[q]>>
  PROVE  Blocks!Move(r)
<1>1. /\ Len(delivered'[r]) = 0 /\ (lastRez'[r] = "eof") = FALSE
  OBVIOUS
<1>2. [q \in OfOneFile |-> base'[q]] = [[q \in OfOneFile |-> base[q]] EXCEPT ![r] = base'[r]]
  OBVIOUS
<1>3. [q \in OfOneFile |-> Len(delivered'[q])]
        = [[q \in OfOneFile |-> Len(delivered[q])] EXCEPT ![r] = 0]
  BY <1>1
<1>4. [q \in OfOneFile |-> lastRez'[q] = "eof"]
        = [[q \in OfOneFile |-> lastRez[q] = "eof"] EXCEPT ![r] = FALSE]
  BY <1>1
<1>5. [q \in OfOneFile |-> base'[q]][r] = base'[r]
  OBVIOUS
<1>. QED BY <1>2, <1>3, <1>4, <1>5 DEF Blocks!Move

LEMMA SeekMaps ==
  ASSUME HandoverInv, StreamInv, Calm, NEW r \in Readers,
         IncSeek(r) \/ \E p \in GotoTargets : GotoByte(r, p)
  PROVE  Blocks!Next \/ UNCHANGED Blocks!vars
<1>1. OfOneFile \subseteq Readers /\ \A q \in OfOneFile : OneFile(q)
      /\ (r \in OfOneFile <=> OneFile(r))
  BY DEF OfOneFile, OneFile
<1>2. TypeOK
  BY DEF HandoverInv, Bookkeeping
<1>3. \A q \in Readers \ {r} : UNCHANGED <<base[q], delivered[q], lastRez[q]>>
  BY <1>2 DEF IncSeek, GotoByte, TypeOK, DataType, ClientType
<1>4. CASE r \in OfOneFile
  <2>1. base[r] \in Nat
    BY <1>1, <1>4, StreamTypes
  <2>2. base'[r] \in Nat /\ delivered'[r] = <<>> /\ lastRez'[r] = "ok"
    <3>1. CASE IncSeek(r)
      BY <1>1, <1>4, <2>1, <3>1, IncSeekMoves
    <3>2. CASE \E p \in GotoTargets : GotoByte(r, p)
      <4>1. PICK p \in GotoTargets : GotoByte(r, p)
        BY <3>2
      <4>2. base \in [Readers -> Nat]
        BY <1>2 DEF TypeOK, DataType, ClientType
      <4>. QED BY <1>1, <1>4, <4>1, <4>2, GotoMoves
    <3>. QED BY <3>1, <3>2
  <2>3. Blocks!Move(r)
    BY <1>1, <1>3, <1>4, <2>2, MoveMaps
  <2>. QED BY <1>4, <2>3 DEF Blocks!Next
<1>5. CASE r \notin OfOneFile
  <2>1. \A q \in OfOneFile : UNCHANGED <<base[q], delivered[q], lastRez[q]>>
    BY <1>1, <1>3, <1>5
  <2>. QED BY <2>1, StreamStutters
<1>. QED BY <1>4, <1>5

LEMMA OpenMaps ==
  ASSUME HandoverInv, StreamInv, NEW r \in Readers, OpenStream(r)
  PROVE  UNCHANGED Blocks!vars
<1>1. OfOneFile \subseteq Readers
  BY DEF OfOneFile
<1>2. UNCHANGED <<base, delivered, lastRez>>
  BY DEF OpenStream, clientVars
<1>. QED BY <1>1, <1>2, StreamStutters

\* Every step is a step of BlockStream or shows nothing.
LEMMA StreamMaps ==
  ASSUME HandoverInv, StreamInv, Calm, Next
  PROVE  Blocks!Next \/ UNCHANGED Blocks!vars
<1>1. OfOneFile \subseteq Readers /\ \A q \in OfOneFile : OneFile(q)
  BY DEF OfOneFile, OneFile
<1>2. CASE \E r \in Readers : IncSeek(r) \/ \E p \in GotoTargets : GotoByte(r, p)
  BY <1>2, SeekMaps
<1>3. CASE \E r \in Readers : OpenStream(r)
  BY <1>3, OpenMaps
<1>4. CASE ReadReset /\ cid \in OfOneFile
  <2>1. PICK r \in OfOneFile : r = cid
    BY <1>4
  <2>2. Blocks!Block(r) \/ Blocks!Eof(r)
    BY <1>4, <2>1, ResetMaps
  <2>. QED BY <2>2 DEF Blocks!Next
<1>5. CASE /\ ~\E r \in Readers : IncSeek(r) \/ \E p \in GotoTargets : GotoByte(r, p)
           /\ ~\E r \in Readers : OpenStream(r)
           /\ ~(ReadReset /\ cid \in OfOneFile)
  <2>1. ASSUME NEW q \in OfOneFile
        PROVE  UNCHANGED <<base[q], delivered[q], lastRez[q]>>
    <3>1. Thread \/ Caller
      BY DEF Next
    <3>2. ~OpenStream(q) /\ ~IncSeek(q) /\ ~(ReadReset /\ q = cid)
          /\ \A p \in GotoTargets : ~GotoByte(q, p)
      BY <1>1, <1>5
    <3>. QED BY <1>1, <3>1, <3>2, ThreadStream, CallerStream
  <2>. QED BY <2>1, StreamStutters
<1>. QED BY <1>2, <1>3, <1>4, <1>5

\* What readBlock gives the readers of one file is what BlockStream promises:
\* whole blocks in order from where the caller moved, then the end; how far the
\* thread read ahead, and when, never shows.
THEOREM ImplementsBlockStream ==
  ASSUME Calm
  PROVE  Spec => IsBlockStream
<1>1. HandoverInv /\ StreamInv /\ [Next]_vars => [Blocks!Next]_(Blocks!vars)
  <2>1. ASSUME UNCHANGED vars PROVE UNCHANGED Blocks!vars
    BY <2>1, StreamStutters DEF vars, streamVars, clientVars
  <2>. QED BY <2>1, StreamMaps
<1>. QED BY <1>1, StreamHolds, StreamInitMaps, PTL DEF Spec, IsBlockStream, Blocks!Spec

-----------------------------------------------------------------------------
(* Joined files.  The thread goes from one file of a list to the next when *)
(* a block ends the file, and the block that begins a file is flagged.     *)

File(r, k) == FileList[r][k]
FileLen(r, k) == FileSize[File(r, k)]
Files(r) == Len(FileList[r])

\* Lists that can be joined: every file opens, none is the first one again or
\* the one before it, and behind a file that ends with a whole block comes one
\* that has at least a block (what else happens is shown by reader_join_short).
Joinable(r) ==
    /\ \A k \in 1..Files(r) : File(r, k) \notin Unopenable
    /\ \A k \in 1..(Files(r) - 1) :
          /\ File(r, k + 1) \notin {File(r, 1), File(r, k)}
          /\ FileLen(r, k) % BlockSize = 0 => FileLen(r, k + 1) >= BlockSize

\* The block beginning with u begins a later file.
Begins(r, u) == u[2] = 1 /\ u[1] # File(r, 1)

\* Before its stream is opened a reader has no iterator and no data.
NotStarted(r) ==
    /\ r \notin opened => itr[r] = NoItr
    /\ itr[r] = NoItr => /\ Asked(r) = 0 /\ Place(r) = "away" /\ ~Ready(r) /\ ~eof[r]
                         /\ ~Done(r) /\ held[r] = NoBuf /\ delivered[r] = <<>>
                         /\ filePos[r] = 0

\* Where the thread is in file k + 1 of the list: at the end of a block, but
\* when it has just read the last one.
InFile(r, k) ==
    /\ streamName[r] = File(r, k + 1)
    /\ filePos[r] \in 0..FileLen(r, k + 1)
    /\ Place(r) = "switch" =>
          /\ tbytes \in 0..filePos[r]
          /\ tbytes < BlockSize => filePos[r] = FileLen(r, k + 1)
          /\ (filePos[r] - tbytes) % BlockSize = 0
          /\ lastBlock[r] <=> (filePos[r] = tbytes /\ k > 0)
    /\ Place(r) = "readNext" =>
          /\ k > 0 /\ filePos[r] = 0 /\ FileLen(r, k + 1) >= BlockSize
          /\ firstBlock[r] /\ ~lastBlock[r]
    /\ Place(r) \notin {"switch", "readNext"} =>
          /\ filePos[r] % BlockSize = 0
          /\ lastBlock[r] <=> (filePos[r] = 0 /\ k > 0)
OnFile(r) == \A k \in 0..(Files(r) - 1) : itr[r] = k => InFile(r, k)

\* Behind the last file there is nothing to read.
PastFiles(r) ==
    itr[r] = Files(r) => /\ streamName[r] = NoName /\ filePos[r] = 0
                         /\ Place(r) = "switch" => tbytes = -1
                         /\ Place(r) # "readNext"

\* The end is announced when the list is through.
EndsWithList(r) == eof[r] <=> itr[r] = Files(r)

\* The flag of the block on its way to the caller, and of the one it holds.
Flagged(r) ==
    /\ ~Done(r) /\ (nextBlockSize[r] > 0 \/ (Place(r) = "publish" /\ tbytes > 0)) =>
          (firstBlock[r] <=> Begins(r, nextBlock[r][bufferIndex[r]][1]))
    /\ held[r] # NoBuf => (lastFirst[r] <=> Begins(r, nextBlock[r][held[r]][1]))

\* Where file k + 1 begins in the joined stream, and where the thread is.
JoinedTo(r, k) == FlattenSeq([j \in 1..k |-> Units(File(r, j))])
Before(r, k) == Len(JoinedTo(r, k))
ReadSoFar(r) == IF itr[r] \in 0..(Files(r) - 1) THEN Before(r, itr[r]) + filePos[r]
                ELSE IF itr[r] = NoItr THEN 0 ELSE Before(r, Files(r))

\* What the caller has, and what is in flight behind it, is the joined stream.
JoinedSoFar(r) ==
    /\ base[r] = 0 /\ Len(delivered[r]) <= Len(Joined(r))
    /\ \A i \in 1..Len(delivered[r]) : delivered[r][i] = Joined(r)[i]
    /\ ~Done(r) =>
          /\ nextBlockSize[r] >= 0
          /\ Place(r) \in {"switch", "publish"} => tbytes >= 0
          /\ Len(delivered[r]) + InFlight(r) = ReadSoFar(r)
          /\ \A i \in 1..InFlight(r) :
                nextBlock[r][bufferIndex[r]][i] = Joined(r)[Len(delivered[r]) + i]

Joining(r) ==
    /\ itr[r] \in {NoItr} \cup 0..Files(r) /\ blockSize[r] = BlockSize
    /\ NotStarted(r) /\ OnFile(r) /\ PastFiles(r) /\ EndsWithList(r)
    /\ Flagged(r) /\ JoinedSoFar(r)

JoinInv == \A r \in Readers : OneFile(r) \/ Joining(r)

-----------------------------------------------------------------------------
\* What holds of 0, and of the next number wherever it holds, holds of all.
LEMMA AllNumbers ==
  ASSUME NEW S \in SUBSET Nat, 0 \in S, \A n \in S : n + 1 \in S
  PROVE  \A n \in Nat : n \in S
<1>. DEFINE R == {p \in Nat \X Nat : p[1] < p[2]}
<1>1. R = OpToRel(<, Nat)
  BY Zenon DEF OpToRel
<1>2. IsWellFoundedOn(R, Nat)
  BY <1>1, NatLessThanWellFounded, Zenon
<1>. HIDE DEF R
<1>. SUFFICES ASSUME Nat \ S # {} PROVE FALSE
  OBVIOUS
<1>3. PICK l \in Nat \ S : \A k \in Nat \ S : <<k, l>> \notin R
  BY <1>2, WFMin
<1>4. l - 1 \in Nat /\ <<l - 1, l>> \in Nat \X Nat
  BY <1>3
<1>5. <<l - 1, l>> \in R
  BY <1>4 DEF R
<1>6. l - 1 \in S /\ (l - 1) + 1 = l
  BY <1>3, <1>4, <1>5
<1>. QED BY <1>3, <1>6

\* FlattenSeq is computed by a function of the number of sequences joined.
Sums(s, n, g) == g = [i \in 1..n |-> IF i = 1 THEN s[i] ELSE g[i - 1] \o s[i]]

LEMMA SumsShorter ==
  ASSUME NEW s, NEW n \in Nat, NEW g, Sums(s, n + 1, g)
  PROVE  /\ Sums(s, n, [i \in 1..n |-> g[i]])
         /\ g[n + 1] = IF n = 0 THEN s[1] ELSE g[n] \o s[n + 1]
<1>1. \A i \in 1..(n + 1) : g[i] = IF i = 1 THEN s[i] ELSE g[i - 1] \o s[i]
  BY DEF Sums
<1>. DEFINE h == [i \in 1..n |-> g[i]]
<1>2. \A i \in 1..n : h[i] = IF i = 1 THEN s[i] ELSE h[i - 1] \o s[i]
  BY <1>1
<1>3. h = [i \in 1..n |-> IF i = 1 THEN s[i] ELSE h[i - 1] \o s[i]]
  BY <1>2
<1>4. n + 1 \in 1..(n + 1) /\ (n + 1 = 1 <=> n = 0) /\ (n + 1) - 1 = n
  OBVIOUS
<1>5. g[n + 1] = IF n = 0 THEN s[1] ELSE g[n] \o s[n + 1]
  BY <1>1, <1>4
<1>. QED BY <1>3, <1>5 DEF Sums

LEMMA SumsExist ==
  ASSUME NEW s
  PROVE  \A n \in Nat : \E g : Sums(s, n, g)
<1>. DEFINE S == {n \in Nat : \E g : Sums(s, n, g)}
<1>1. 0 \in S
  <2>. DEFINE g == [i \in 1..0 |-> s[i]]
  <2>1. g = [i \in 1..0 |-> IF i = 1 THEN s[i] ELSE g[i - 1] \o s[i]]
    OBVIOUS
  <2>. QED BY <2>1 DEF Sums
<1>2. ASSUME NEW n \in S PROVE n + 1 \in S
  <2>1. n \in Nat /\ \E g : Sums(s, n, g)
    BY <1>2
  <2>2. PICK g : Sums(s, n, g)
    BY <2>1
  <2>. DEFINE h == [i \in 1..(n + 1) |-> IF i \in 1..n THEN g[i]
                                         ELSE IF n = 0 THEN s[1] ELSE g[n] \o s[n + 1]]
  <2>3. \A i \in 1..n : g[i] = IF i = 1 THEN s[i] ELSE g[i - 1] \o s[i]
    BY <2>2 DEF Sums
  <2>4. \A i \in 1..(n + 1) : h[i] = IF i = 1 THEN s[i] ELSE h[i - 1] \o s[i]
    <3>. SUFFICES ASSUME NEW i \in 1..(n + 1)
                  PROVE  h[i] = IF i = 1 THEN s[i] ELSE h[i - 1] \o s[i]
      OBVIOUS
    <3>1. CASE i \in 1..n
      <4>1. h[i] = g[i] /\ (i # 1 => i - 1 \in 1..n /\ i - 1 \in 1..(n + 1))
        BY <2>1, <3>1
      <4>2. i # 1 => h[i - 1] = g[i - 1]
        BY <4>1
      <4>. QED BY <2>3, <3>1, <4>1, <4>2
    <3>2. CASE i = n + 1
      <4>1. i \notin 1..n /\ (i = 1 <=> n = 0) /\ (i # 1 => n \in 1..n /\ n \in 1..(n + 1))
        BY <2>1, <3>2
      <4>2. h[i] = (IF n = 0 THEN s[1] ELSE g[n] \o s[n + 1])
        BY <4>1
      <4>3. i # 1 => h[n] = g[n] /\ i - 1 = n
        BY <2>1, <3>2, <4>1
      <4>. QED BY <3>2, <4>1, <4>2, <4>3
    <3>. QED BY <2>1, <3>1, <3>2
  <2>5. h = [i \in 1..(n + 1) |-> IF i = 1 THEN s[i] ELSE h[i - 1] \o s[i]]
    <3>. DEFINE k == [i \in 1..(n + 1) |-> IF i = 1 THEN s[i] ELSE h[i - 1] \o s[i]]
    <3>1. \A i \in 1..(n + 1) : k[i] = h[i]
      BY <2>4
    <3>2. h = [i \in 1..(n + 1) |-> h[i]] /\ k = [i \in 1..(n + 1) |-> k[i]]
      OBVIOUS
    <3>. HIDE DEF h, k
    <3>3. h = k
      BY <3>1, <3>2
    <3>. QED BY <3>3 DEF k
  <2>6. \E g2 : Sums(s, n + 1, g2)
    BY <2>5 DEF Sums
  <2>. QED BY <2>1, <2>6
<1>3. S \in SUBSET Nat
  OBVIOUS
<1>. HIDE DEF S
<1>4. \A n \in Nat : n \in S
  BY <1>1, <1>2, <1>3, AllNumbers
<1>. QED BY <1>4 DEF S

LEMMA SumsUnique ==
  ASSUME NEW s
  PROVE  \A n \in Nat : \A g, h : Sums(s, n, g) /\ Sums(s, n, h) => g = h
<1>. DEFINE S == {n \in Nat : \A g, h : Sums(s, n, g) /\ Sums(s, n, h) => g = h}
<1>1. 0 \in S
  <2>. SUFFICES ASSUME NEW g, NEW h, Sums(s, 0, g), Sums(s, 0, h) PROVE g = h
    OBVIOUS
  <2>1. g = [i \in {} |-> 0] /\ h = [i \in {} |-> 0]
    BY DEF Sums
  <2>. QED BY <2>1
<1>2. ASSUME NEW n \in S PROVE n + 1 \in S
  <2>1. n \in Nat /\ \A g, h : Sums(s, n, g) /\ Sums(s, n, h) => g = h
    BY <1>2
  <2>. SUFFICES ASSUME NEW g, NEW h, Sums(s, n + 1, g), Sums(s, n + 1, h) PROVE g = h
    BY <2>1
  <2>. DEFINE gn == [i \in 1..n |-> g[i]]
              hn == [i \in 1..n |-> h[i]]
  <2>2. gn = hn
    <3>1. Sums(s, n, gn) /\ Sums(s, n, hn)
      BY <2>1, SumsShorter
    <3>. HIDE DEF gn, hn
    <3>. QED BY <2>1, <3>1
  <2>3. \A i \in 1..n : g[i] = h[i]
    <3>. SUFFICES ASSUME NEW i \in 1..n PROVE g[i] = h[i]
      OBVIOUS
    <3>1. gn[i] = g[i] /\ hn[i] = h[i]
      OBVIOUS
    <3>. QED BY <2>2, <3>1
  <2>4. g[n + 1] = h[n + 1]
    <3>1. /\ g[n + 1] = (IF n = 0 THEN s[1] ELSE g[n] \o s[n + 1])
          /\ h[n + 1] = (IF n = 0 THEN s[1] ELSE h[n] \o s[n + 1])
      BY <2>1, SumsShorter
    <3>2. n # 0 => g[n] = h[n]
      BY <2>1, <2>3
    <3>. QED BY <3>1, <3>2
  <2>5. g = [i \in 1..(n + 1) |-> g[i]] /\ h = [i \in 1..(n + 1) |-> h[i]]
    BY DEF Sums
  <2>6. \A i \in 1..(n + 1) : g[i] = h[i]
    BY <2>1, <2>3, <2>4
  <2>. QED BY <2>5, <2>6
<1>3. S \in SUBSET Nat
  OBVIOUS
<1>. HIDE DEF S
<1>4. \A n \in Nat : n \in S
  BY <1>1, <1>2, <1>3, AllNumbers
<1>. QED BY <1>4 DEF S

\* Joining one sequence more appends it.
LEMMA FlattenAppends ==
  ASSUME NEW s, NEW n \in Nat
  PROVE  FlattenSeq([j \in 1..(n + 1) |-> s[j]])
           = IF n = 0 THEN s[1] ELSE FlattenSeq([j \in 1..n |-> s[j]]) \o s[n + 1]
<1>1. ASSUME NEW k \in Nat \ {0}, NEW g, Sums(s, k, g)
      PROVE  FlattenSeq([j \in 1..k |-> s[j]]) = g[k]
  <2>. DEFINE t == [j \in 1..k |-> s[j]]
              Rec(f) == [i \in 1..Len(t) |-> IF i = 1 THEN t[i] ELSE f[i - 1] \o t[i]]
              flatten == CHOOSE f : f = Rec(f)
  <2>1. Len(t) = k /\ \A i \in 1..k : t[i] = s[i]
    OBVIOUS
  <2>2. FlattenSeq(t) = flatten[k]
    BY <2>1 DEF FlattenSeq
  <2>3. ASSUME NEW f PROVE Rec(f) = [i \in 1..k |-> IF i = 1 THEN s[i] ELSE f[i - 1] \o s[i]]
    BY <2>1
  <2>. HIDE DEF Rec, t
  <2>4. \A f : f = Rec(f) <=> Sums(s, k, f)
    BY <2>3 DEF Sums
  <2>5. flatten = Rec(flatten)
    BY <1>1, <2>4
  <2>6. flatten = g
    BY <1>1, <2>4, <2>5, SumsUnique
  <2>. QED BY <2>2, <2>6 DEF t
<1>2. PICK g : Sums(s, n + 1, g)
  BY SumsExist
<1>. DEFINE h == [i \in 1..n |-> g[i]]
<1>3. Sums(s, n, h) /\ g[n + 1] = IF n = 0 THEN s[1] ELSE g[n] \o s[n + 1]
  BY <1>2, SumsShorter
<1>4. FlattenSeq([j \in 1..(n + 1) |-> s[j]]) = g[n + 1]
  BY <1>1, <1>2
<1>5. n # 0 => h[n] = g[n] /\ FlattenSeq([j \in 1..n |-> s[j]]) = h[n]
  <2>. SUFFICES ASSUME n # 0
                PROVE  h[n] = g[n] /\ FlattenSeq([j \in 1..n |-> s[j]]) = h[n]
    OBVIOUS
  <2>1. h[n] = g[n]
    OBVIOUS
  <2>. HIDE DEF h
  <2>. QED BY <1>1, <1>3, <2>1
<1>. QED BY <1>3, <1>4, <1>5

-----------------------------------------------------------------------------
(* The joined stream of a list.                                            *)

ListTypes(r) == /\ FileList[r] \in Seq(Names) /\ Files(r) \in Nat \ {0}
                /\ \A k \in 1..Files(r) : File(r, k) \in Names /\ FileLen(r, k) \in Nat

LEMMA ListFacts == ASSUME NEW r \in Readers PROVE ListTypes(r)
<1>1. FileList[r] \in Seq(Names) /\ FileList[r] # <<>>
  BY ReaderAssumption
<1>2. Files(r) \in Nat \ {0}
  BY <1>1 DEF Files
<1>3. ASSUME NEW k \in 1..Files(r) PROVE File(r, k) \in Names /\ FileLen(r, k) \in Nat
  BY <1>1, <1>3, ReaderAssumption DEF Files, File, FileLen
<1>. QED BY <1>1, <1>2, <1>3 DEF ListTypes

\* One file more is that file behind the others.
LEMMA JoinedAppends ==
  ASSUME NEW r \in Readers, NEW k \in 0..(Files(r) - 1), JoinedTo(r, k) \in Seq(Unit)
  PROVE  /\ JoinedTo(r, k + 1) \in Seq(Unit)
         /\ Before(r, k + 1) = Before(r, k) + FileLen(r, k + 1)
         /\ \A i \in 1..Before(r, k) : JoinedTo(r, k + 1)[i] = JoinedTo(r, k)[i]
         /\ \A i \in 1..FileLen(r, k + 1) :
               JoinedTo(r, k + 1)[Before(r, k) + i] = <<File(r, k + 1), i>>
<1>1. k \in Nat /\ k + 1 \in 1..Files(r) /\ ListTypes(r)
  BY ListFacts DEF ListTypes
<1>2. File(r, k + 1) \in Names /\ FileLen(r, k + 1) \in Nat
  BY <1>1 DEF ListTypes
<1>. DEFINE s == [j \in Nat |-> Units(File(r, j))]
            m == FileLen(r, k + 1)
            u == Units(File(r, k + 1))
<1>3. u \in Seq(Unit) /\ Len(u) = m /\ \A i \in 1..m : u[i] = <<File(r, k + 1), i>>
  <2>1. \A i \in 1..m : <<File(r, k + 1), i>> \in Unit
    BY <1>2 DEF Unit
  <2>2. u = [i \in 1..m |-> <<File(r, k + 1), i>>]
    BY DEF Units, FileLen
  <2>. HIDE DEF m, u
  <2>. QED BY <1>2, <2>1, <2>2 DEF m
<1>4. \A l \in Nat : JoinedTo(r, l) = FlattenSeq([j \in 1..l |-> s[j]])
  <2>. SUFFICES ASSUME NEW l \in Nat
                PROVE  [j \in 1..l |-> Units(File(r, j))] = [j \in 1..l |-> s[j]]
    BY DEF JoinedTo
  <2>. QED OBVIOUS
<1>5. s[k + 1] = u
  BY <1>1
<1>. HIDE DEF s, u, m
<1>6. JoinedTo(r, k + 1) = IF k = 0 THEN s[1] ELSE JoinedTo(r, k) \o s[k + 1]
  <2>1. FlattenSeq([j \in 1..(k + 1) |-> s[j]])
          = IF k = 0 THEN s[1] ELSE FlattenSeq([j \in 1..k |-> s[j]]) \o s[k + 1]
    BY <1>1, FlattenAppends
  <2>2. /\ JoinedTo(r, k + 1) = FlattenSeq([j \in 1..(k + 1) |-> s[j]])
        /\ JoinedTo(r, k) = FlattenSeq([j \in 1..k |-> s[j]])
    BY <1>1, <1>4
  <2>. QED BY <2>1, <2>2
<1>7. CASE k = 0
  <2>1. JoinedTo(r, k + 1) = u
    BY <1>5, <1>6, <1>7
  <2>2. Before(r, k) = 0
    <3>1. [j \in 1..0 |-> s[j]] = <<>>
      OBVIOUS
    <3>2. JoinedTo(r, k) = <<>>
      BY <1>4, <1>7, <3>1 DEF FlattenSeq
    <3>. QED BY <3>2 DEF Before
  <2>. QED BY <1>2, <1>3, <2>1, <2>2 DEF Before, m
<1>8. CASE k # 0
  <2>1. JoinedTo(r, k + 1) = JoinedTo(r, k) \o u
    BY <1>5, <1>6, <1>8
  <2>. DEFINE a == JoinedTo(r, k)
  <2>2. a \in Seq(Unit) /\ Before(r, k) = Len(a)
    BY DEF Before
  <2>. HIDE DEF a
  <2>3. a \o u \in Seq(Unit)
    BY <1>3, <2>2
  <2>4. /\ Len(a \o u) = Len(a) + Len(u)
        /\ \A i \in 1..Len(a) : (a \o u)[i] = a[i]
        /\ \A i \in 1..Len(u) : (a \o u)[Len(a) + i] = u[i]
    <3>1. \A x, y \in Seq(Unit) :
             /\ Len(x \o y) = Len(x) + Len(y)
             /\ \A i \in 1..Len(x) : (x \o y)[i] = x[i]
             /\ \A i \in 1..Len(y) : (x \o y)[Len(x) + i] = y[i]
      BY ConcatParts
    <3>. QED BY <1>3, <2>2, <3>1
  <2>. QED BY <1>3, <2>1, <2>2, <2>3, <2>4 DEF Before, a, m
<1>. QED BY <1>7, <1>8

LEMMA JoinedSeq ==
  ASSUME NEW r \in Readers
  PROVE  \A k \in 0..Files(r) : JoinedTo(r, k) \in Seq(Unit) /\ Before(r, k) \in Nat
<1>. DEFINE S == {k \in Nat : k <= Files(r) => JoinedTo(r, k) \in Seq(Unit)}
<1>1. Files(r) \in Nat
  BY ListFacts DEF ListTypes
<1>2. 0 \in S
  <2>1. [j \in 1..0 |-> Units(File(r, j))] = <<>>
    OBVIOUS
  <2>2. JoinedTo(r, 0) = <<>>
    BY <2>1 DEF JoinedTo, FlattenSeq
  <2>3. <<>> \in Seq(Unit)
    OBVIOUS
  <2>. QED BY <2>2, <2>3, Zenon
<1>3. ASSUME NEW k \in S PROVE k + 1 \in S
  <2>1. k \in Nat /\ (k <= Files(r) => JoinedTo(r, k) \in Seq(Unit))
    BY <1>3
  <2>2. k + 1 <= Files(r) => JoinedTo(r, k + 1) \in Seq(Unit)
    BY <1>1, <2>1, JoinedAppends
  <2>. QED BY <2>1, <2>2
<1>4. S \in SUBSET Nat
  OBVIOUS
<1>. HIDE DEF S
<1>5. \A k \in Nat : k \in S
  BY <1>2, <1>3, <1>4, AllNumbers
<1>6. \A k \in 0..Files(r) : JoinedTo(r, k) \in Seq(Unit)
  BY <1>1, <1>5 DEF S
<1>. QED BY <1>6 DEF Before

\* The first files are the beginning of the joined stream.
LEMMA JoinedStarts ==
  ASSUME NEW r \in Readers, NEW k \in 0..Files(r)
  PROVE  /\ Before(r, k) <= Len(Joined(r))
         /\ \A i \in 1..Before(r, k) : Joined(r)[i] = JoinedTo(r, k)[i]
<1>1. Files(r) \in Nat /\ k \in Nat
  BY ListFacts DEF ListTypes
<1>. DEFINE Starts(m) == /\ Before(r, k) <= Before(r, m)
                         /\ \A i \in 1..Before(r, k) : JoinedTo(r, m)[i] = JoinedTo(r, k)[i]
            S == {d \in Nat : k + d <= Files(r) => Starts(k + d)}
<1>2. 0 \in S
  BY <1>1, JoinedSeq
<1>3. ASSUME NEW d \in S PROVE d + 1 \in S
  <2>. SUFFICES ASSUME d \in Nat, k + (d + 1) <= Files(r) PROVE Starts(k + (d + 1))
    BY <1>3
  <2>. DEFINE m == k + d
  <2>1. /\ m \in 0..(Files(r) - 1) /\ k + (d + 1) = m + 1 /\ m + 1 \in 1..Files(r)
        /\ m \in 0..Files(r) /\ m <= Files(r)
    BY <1>1
  <2>2. Starts(m)
    BY <1>3, <2>1
  <2>. HIDE DEF m
  <2>3. /\ JoinedTo(r, m) \in Seq(Unit) /\ Before(r, m) \in Nat /\ Before(r, k) \in Nat
        /\ FileLen(r, m + 1) \in Nat
    BY <2>1, JoinedSeq, ListFacts DEF ListTypes
  <2>4. /\ Before(r, m + 1) = Before(r, m) + FileLen(r, m + 1)
        /\ \A i \in 1..Before(r, m) : JoinedTo(r, m + 1)[i] = JoinedTo(r, m)[i]
    BY <2>1, <2>3, JoinedAppends
  <2>5. Starts(m + 1)
    BY <2>2, <2>3, <2>4
  <2>. QED BY <2>1, <2>5
<1>4. S \in SUBSET Nat
  OBVIOUS
<1>. HIDE DEF S
<1>5. \A d \in Nat : d \in S
  BY <1>2, <1>3, <1>4, AllNumbers
<1>6. Files(r) - k \in Nat /\ k + (Files(r) - k) = Files(r)
  BY <1>1
<1>7. Starts(Files(r))
  <2>1. Files(r) - k \in S
    BY <1>5, <1>6
  <2>. QED BY <1>1, <1>6, <2>1 DEF S
<1>8. Joined(r) = JoinedTo(r, Files(r))
  BY DEF Joined, JoinedTo, Files, File
<1>. QED BY <1>7, <1>8 DEF Before

\* Where the units of a file are in the joined stream.
LEMMA JoinedParts ==
  ASSUME NEW r \in Readers
  PROVE  /\ Joined(r) \in Seq(Unit) /\ Before(r, 0) = 0
         /\ Before(r, Files(r)) = Len(Joined(r))
         /\ \A k \in 0..Files(r) : Before(r, k) \in Nat
         /\ \A k \in 0..(Files(r) - 1) :
               /\ Before(r, k + 1) = Before(r, k) + FileLen(r, k + 1)
               /\ Before(r, k + 1) <= Len(Joined(r))
               /\ \A i \in 1..FileLen(r, k + 1) :
                     Joined(r)[Before(r, k) + i] = <<File(r, k + 1), i>>
<1>1. Files(r) \in Nat /\ Joined(r) = JoinedTo(r, Files(r))
  BY ListFacts DEF ListTypes, Joined, JoinedTo, Files, File
<1>2. Joined(r) \in Seq(Unit) /\ Before(r, Files(r)) = Len(Joined(r))
  BY <1>1, JoinedSeq DEF Before
<1>3. Before(r, 0) = 0
  <2>1. [j \in 1..0 |-> Units(File(r, j))] = <<>>
    OBVIOUS
  <2>. QED BY <2>1 DEF Before, JoinedTo, FlattenSeq
<1>4. ASSUME NEW k \in 0..(Files(r) - 1)
      PROVE  /\ Before(r, k + 1) = Before(r, k) + FileLen(r, k + 1)
             /\ Before(r, k + 1) <= Len(Joined(r))
             /\ \A i \in 1..FileLen(r, k + 1) :
                   Joined(r)[Before(r, k) + i] = <<File(r, k + 1), i>>
  <2>1. k \in 0..Files(r) /\ k + 1 \in 0..Files(r) /\ k + 1 \in 1..Files(r)
    BY <1>1
  <2>2. /\ JoinedTo(r, k) \in Seq(Unit) /\ Before(r, k) \in Nat /\ Before(r, k + 1) \in Nat
        /\ FileLen(r, k + 1) \in Nat
    BY <2>1, JoinedSeq, ListFacts DEF ListTypes
  <2>3. /\ Before(r, k + 1) = Before(r, k) + FileLen(r, k + 1)
        /\ \A i \in 1..FileLen(r, k + 1) :
              JoinedTo(r, k + 1)[Before(r, k) + i] = <<File(r, k + 1), i>>
    BY <2>2, JoinedAppends
  <2>4. /\ Before(r, k + 1) <= Len(Joined(r))
        /\ \A i \in 1..Before(r, k + 1) : Joined(r)[i] = JoinedTo(r, k + 1)[i]
    BY <2>1, JoinedStarts
  <2>5. ASSUME NEW i \in 1..FileLen(r, k + 1) PROVE Before(r, k) + i \in 1..Before(r, k + 1)
    BY <2>2, <2>3
  <2>. QED BY <2>3, <2>4, <2>5
<1>. QED BY <1>2, <1>3, <1>4, JoinedSeq

-----------------------------------------------------------------------------
\* What is said of a list does not change with the state.
LEMMA ListStays ==
  ASSUME NEW r \in Readers
  PROVE  /\ Files(r)' = Files(r) /\ Joined(r)' = Joined(r)
         /\ \A k : /\ File(r, k)' = File(r, k) /\ FileLen(r, k)' = FileLen(r, k)
                   /\ Before(r, k)' = Before(r, k)
         /\ \A u : Begins(r, u)' = Begins(r, u)
BY DEF Files, Joined, File, FileLen, Before, JoinedTo, Units, Begins

\* A step that moves no data of a list keeps what holds of it.
LEMMA JoinFrame ==
  ASSUME NEW r \in Readers, Joining(r),
         UNCHANGED <<itr[r], streamName[r], filePos[r], blockSize[r], firstBlock[r],
                     lastBlock[r], nextBlock[r], bufferIndex[r], nextBlockSize[r], eof[r],
                     lastRez[r], lastFirst[r], delivered[r], base[r]>>,
         held'[r] \in {held[r], NoBuf}, r \in opened => r \in opened',
         \/ Place(r)' = Place(r) /\ (Place(r) # "away" => UNCHANGED tbytes)
         \/ {Place(r), Place(r)'} \subseteq {"away", "get", "read", "release"},
         itr[r] = NoItr => Asked(r)' = Asked(r) /\ Place(r)' = "away"
  PROVE  Joining(r)'
<1>1. NotStarted(r)'
  BY DEF Joining, NotStarted, Ready, Done
<1>2. OnFile(r)'
  BY ListStays DEF Joining, OnFile, InFile
<1>3. PastFiles(r)' /\ EndsWithList(r)'
  BY ListStays DEF Joining, PastFiles, EndsWithList
<1>4. Flagged(r)'
  BY ListStays DEF Joining, Flagged, Done
<1>5. JoinedSoFar(r)'
  <2>1. InFlight(r)' = InFlight(r) /\ Done(r)' = Done(r)
    BY DEF InFlight, Carried, Done
  <2>2. ReadSoFar(r)' = ReadSoFar(r)
    BY ListStays DEF ReadSoFar
  <2>. QED BY <2>1, <2>2, ListStays DEF Joining, JoinedSoFar
<1>. QED BY <1>1, <1>2, <1>3, <1>4, <1>5, ListStays DEF Joining

\* The types of what Joining speaks of.
LEMMA JoiningTypes ==
  ASSUME HandoverInv, Calm, NEW r \in Readers, ~OneFile(r), Joining(r)
  PROVE  /\ Bookkeeping /\ TypeOK /\ Handover(r) /\ ListTypes(r) /\ MaxPastEof = 0
         /\ BlockSize \in Nat \ {0} /\ blockSize[r] = BlockSize
         /\ nextBlockSize[r] \in -1..BlockSize /\ tbytes \in -1..BlockSize
         /\ filePos[r] \in Nat /\ bufferIndex[r] \in 0..1 /\ tbuf \in 0..1
         /\ nextBlock[r] \in [0..1 -> [1..BlockSize -> Unit]]
         /\ delivered[r] \in Seq(Unit) /\ Len(delivered[r]) \in Nat
         /\ Joined(r) \in Seq(Unit) /\ Len(Joined(r)) \in Nat
         /\ InFlight(r) \in Int /\ ReadSoFar(r) \in Nat
<1>1. Bookkeeping /\ Handover(r) /\ TypeOK
  BY DEF HandoverInv, Bookkeeping
<1>2. MaxPastEof = 0
  BY DEF Calm
<1>3. delivered[r] \in Seq(Unit) /\ nextBlock[r] \in [0..1 -> [1..BlockSize -> Unit]]
  BY <1>1 DEF TypeOK, DataType
<1>4. /\ nextBlockSize[r] \in -1..BlockSize /\ tbytes \in -1..BlockSize
      /\ bufferIndex[r] \in 0..1 /\ tbuf \in 0..1 /\ BlockSize \in Nat \ {0}
  BY <1>1, FieldTypes
<1>5. /\ ListTypes(r) /\ blockSize[r] = BlockSize
      /\ itr[r] = NoItr \/ itr[r] \in 0..(Files(r) - 1) \/ itr[r] = Files(r)
  BY ListFacts DEF Joining, ListTypes
<1>6. filePos[r] \in Nat
  BY <1>5 DEF Joining, NotStarted, OnFile, InFile, PastFiles, ListTypes
<1>7. InFlight(r) \in Int
  BY <1>4 DEF InFlight, Carried
<1>8. ReadSoFar(r) \in Nat
  <2>1. Files(r) \in 0..Files(r) /\ (itr[r] \in 0..(Files(r) - 1) => itr[r] \in 0..Files(r))
    BY <1>5 DEF ListTypes
  <2>2. /\ Before(r, Files(r)) \in Nat
        /\ itr[r] \in 0..(Files(r) - 1) => Before(r, itr[r]) \in Nat
    BY <2>1, JoinedParts
  <2>. QED BY <1>6, <2>2 DEF ReadSoFar
<1>9. Joined(r) \in Seq(Unit) /\ Len(Joined(r)) \in Nat /\ Len(delivered[r]) \in Nat
  BY <1>3, JoinedParts
<1>. QED BY <1>1, <1>2, <1>3, <1>4, <1>5, <1>6, <1>7, <1>8, <1>9

\* Where the thread is when it reads: in a file, and then the end was not
\* announced and the caller goes on; or behind the last, and then it does not.
LEMMA ReadingWhere ==
  ASSUME HandoverInv, Calm, NEW r \in Readers, ~OneFile(r), Joining(r), Fetching(r)
  PROVE  /\ nextBlockSize[r] = 0 /\ Asked(r) = 1
         /\ \/ itr[r] \in 0..(Files(r) - 1) /\ ~eof[r] /\ ~Done(r)
            \/ itr[r] = Files(r) /\ eof[r] /\ Done(r)
         /\ itr[r] \in 0..(Files(r) - 1) /\ Place(r) \in {"read", "switch", "readNext"}
               => tbuf = bufferIndex[r]
         /\ Place(r) \in {"read", "switch", "readNext"} => held[r] # tbuf
<1>1. /\ Handover(r) /\ ListTypes(r) /\ Bookkeeping
      /\ bufferIndex[r] \in 0..1 /\ tbuf \in 0..1
  BY JoiningTypes
<1>2. Asked(r) = 1
  BY <1>1, FieldTypes DEF Handover, OneUnderWay
<1>3. nextBlockSize[r] = 0
  BY <1>1, <1>2 DEF Handover, OneUnderWay, Ready
<1>4. itr[r] # NoItr
  BY <1>2 DEF Joining, NotStarted
<1>5. itr[r] \in 0..(Files(r) - 1) \/ itr[r] = Files(r)
  BY <1>1, <1>4 DEF Joining, ListTypes
<1>6. /\ eof[r] => Done(r)
      /\ Done(r) => eof[r]
  BY <1>1, <1>2 DEF Handover, Notified
<1>7. itr[r] \in 0..(Files(r) - 1) => ~eof[r]
  BY <1>1 DEF Joining, EndsWithList, ListTypes
<1>8. Place(r) \in {"read", "switch", "readNext"} =>
        /\ tbuf = bufferIndex[r] \/ (held[r] = NoBuf /\ Done(r))
        /\ held[r] \in {NoBuf, 1 - bufferIndex[r]}
  BY <1>1 DEF Handover, Buffers
<1>9. Place(r) \in {"read", "switch", "readNext"} => held[r] # tbuf
  BY <1>1, <1>8 DEF NoBuf
<1>10. itr[r] = Files(r) => eof[r]
  BY DEF Joining, EndsWithList
<1>. QED BY <1>2, <1>3, <1>5, <1>6, <1>7, <1>8, <1>9, <1>10

\* How far the thread has read, once it is in file k + 1.
LEMMA SoFarInFile ==
  ASSUME NEW r \in Readers, NEW k \in 0..(Files(r) - 1)
  PROVE  /\ itr[r] = k => ReadSoFar(r) = Before(r, k) + filePos[r]
         /\ itr'[r] = k => ReadSoFar(r)' = Before(r, k) + filePos'[r]
<1>1. itr[r] = k => ReadSoFar(r) = Before(r, k) + filePos[r]
  BY DEF ReadSoFar
<1>2. ASSUME itr'[r] = k PROVE ReadSoFar(r)' = Before(r, k) + filePos'[r]
  <2>1. Files(r)' = Files(r) /\ Before(r, k)' = Before(r, k)
    BY ListStays
  <2>. QED BY <1>2, <2>1 DEF ReadSoFar
<1>. QED BY <1>1, <1>2

\* What a read of the thread does to the buffer it fills.
LEMMA ReadIntoFacts ==
  ASSUME TypeOK, NEW r \in Readers, r = tid, NEW n \in 1..BlockSize, ReadInto(n),
         filePos[r] \in Nat
  PROVE  LET count == ReadCount(streamName[r], filePos[r], n) IN
         /\ tbytes' = count
         /\ filePos'[r] = filePos[r] + (IF count > 0 THEN count ELSE 0)
         /\ \A i \in 1..BlockSize : i <= count =>
               nextBlock'[r][tbuf][i] = <<streamName[r], filePos[r] + i>>
         /\ nextBlock'[r][1 - tbuf] = nextBlock[r][1 - tbuf]
         /\ count <= 0 => nextBlock'[r] = nextBlock[r]
<1>. DEFINE count == ReadCount(streamName[r], filePos[r], n)
            b == nextBlock[r]
            new == [i \in 1..BlockSize |-> IF i <= count THEN <<streamName[r], filePos[r] + i>>
                                                         ELSE b[tbuf][i]]
<1>1. /\ filePos \in [Readers -> Int] /\ tbuf \in 0..1 /\ BlockSize \in Nat
      /\ nextBlock \in [Readers -> [0..1 -> [1..BlockSize -> Unit]]]
  BY ReaderAssumption DEF TypeOK, StreamType, DataType, ThreadType
<1>2. /\ tbytes' = count
      /\ filePos' = [filePos EXCEPT ![r] = IF count > 0 THEN @ + count ELSE @]
      /\ nextBlock' = [nextBlock EXCEPT ![r][tbuf] = [i \in 1..BlockSize |->
                          IF i <= count THEN <<streamName[r], filePos[r] + i>> ELSE @[i]]]
  BY DEF ReadInto
<1>. HIDE DEF count
<1>3. filePos'[r] = filePos[r] + (IF count > 0 THEN count ELSE 0)
  BY <1>1, <1>2
<1>4. nextBlock'[r] = [b EXCEPT ![tbuf] = new]
  BY <1>1, <1>2
<1>5. b \in [0..1 -> [1..BlockSize -> Unit]]
  BY <1>1
<1>. HIDE DEF b
<1>6. nextBlock'[r][tbuf] = new /\ nextBlock'[r][1 - tbuf] = b[1 - tbuf]
  <2>. HIDE DEF new
  <2>1. tbuf \in 0..1 /\ 1 - tbuf \in 0..1 /\ 1 - tbuf # tbuf
    BY <1>1
  <2>. QED BY <1>4, <1>5, <2>1
<1>7. ASSUME count <= 0, count \in Int PROVE nextBlock'[r] = b
  <2>1. new = b[tbuf]
    <3>1. \A i \in 1..BlockSize : new[i] = b[tbuf][i]
      BY <1>7
    <3>2. b[tbuf] = [i \in 1..BlockSize |-> b[tbuf][i]]
      BY <1>1, <1>5
    <3>. QED BY <3>1, <3>2
  <2>. QED BY <1>1, <1>4, <1>5, <2>1
<1>8. count \in Int
  BY <1>1, ReaderAssumption DEF count, ReadCount
<1>. QED BY <1>2, <1>3, <1>6, <1>7, <1>8 DEF b, count

\* The block the thread has read: its first unit begins a later file just when
\* m_lastBlock was set.
LEMMA BlockBegins ==
  ASSUME HandoverInv, Calm, NEW r \in Readers, ~OneFile(r), Joinable(r), Joining(r),
         Place(r) = "switch", itr[r] \in 0..(Files(r) - 1), tbytes > 0
  PROVE  lastBlock[r] <=> Begins(r, nextBlock[r][bufferIndex[r]][1])
<1>. DEFINE k == itr[r] + 1
            p == filePos[r] - tbytes
<1>1. /\ ListTypes(r) /\ nextBlockSize[r] = 0 /\ ~Done(r) /\ tbytes \in Int
      /\ filePos[r] \in Nat /\ ReadSoFar(r) \in Nat /\ Len(delivered[r]) \in Nat
      /\ ReadSoFar(r) = Before(r, itr[r]) + filePos[r]
  BY JoiningTypes, ReadingWhere DEF Fetching, ReadSoFar
<1>2. /\ filePos[r] \in 0..FileLen(r, k) /\ tbytes \in 0..filePos[r]
      /\ lastBlock[r] <=> (filePos[r] = tbytes /\ itr[r] > 0)
      /\ k \in 1..Files(r) /\ FileLen(r, k) \in Nat /\ itr[r] \in 0..Files(r)
  BY <1>1 DEF Joining, OnFile, InFile, ListTypes
<1>3. InFlight(r) = tbytes
  BY <1>1 DEF InFlight, Carried
<1>4. Before(r, itr[r]) \in Nat
  BY <1>2, JoinedParts
<1>5. Len(delivered[r]) = Before(r, itr[r]) + p
  <2>1. Len(delivered[r]) + InFlight(r) = ReadSoFar(r)
    BY <1>1 DEF Joining, JoinedSoFar
  <2>. QED BY <1>1, <1>2, <1>3, <1>4, <2>1
<1>6. nextBlock[r][bufferIndex[r]][1] = Joined(r)[Len(delivered[r]) + 1]
  BY <1>1, <1>2, <1>3 DEF Joining, JoinedSoFar
<1>7. p + 1 \in 1..FileLen(r, k) /\ Len(delivered[r]) + 1 = Before(r, itr[r]) + (p + 1)
  BY <1>2, <1>4, <1>5
<1>8. nextBlock[r][bufferIndex[r]][1] = <<File(r, k), p + 1>>
  BY <1>6, <1>7, JoinedParts
<1>9. File(r, k) # File(r, 1) <=> itr[r] > 0
  <2>1. itr[r] > 0 => itr[r] \in 1..(Files(r) - 1)
    BY <1>1 DEF ListTypes
  <2>. QED BY <1>2, <2>1 DEF Joinable
<1>10. Begins(r, <<File(r, k), p + 1>>) <=> (p + 1 = 1 /\ File(r, k) # File(r, 1))
  BY DEF Begins
<1>. QED BY <1>1, <1>2, <1>8, <1>9, <1>10

\* A read in an openable file returns a block, or what is left of the file.
LEMMA ReadCountWhole ==
  ASSUME NEW r \in Readers, NEW k \in 1..Files(r), File(r, k) \notin Unopenable,
         NEW p \in 0..FileLen(r, k)
  PROVE  LET c == ReadCount(File(r, k), p, BlockSize) IN
         /\ c \in 0..BlockSize /\ p + c \in 0..FileLen(r, k)
         /\ c < BlockSize => p + c = FileLen(r, k)
<1>1. ListTypes(r) /\ BlockSize \in Nat \ {0}
  BY ListFacts, ReaderAssumption
<1>2. File(r, k) \in Names /\ FileLen(r, k) \in Nat
  BY <1>1 DEF ListTypes
<1>. QED BY <1>1, <1>2 DEF ReadCount, FileLen

\* The first read of a request, in a file of the list or behind the last.
LEMMA ReadJoin ==
  ASSUME HandoverInv, Calm, NEW r \in Readers, ~OneFile(r), Joinable(r), Joining(r),
         ThreadRead, r = tid
  PROVE  Joining(r)'
<1>1. /\ Place(r) = "read" /\ Place(r)' = "switch" /\ Fetching(r)
      /\ UNCHANGED <<itr, streamName, blockSize, firstBlock, lastBlock, eof, nextBlockSize,
                     bufferIndex, held, delivered, lastRez, lastFirst, base, opened, tbuf>>
  BY DEF ThreadRead, Place, Fetching, Serving, queueVars, handVars, clientVars
<1>2. /\ ListTypes(r) /\ TypeOK /\ BlockSize \in Nat \ {0} /\ blockSize[r] = BlockSize
      /\ filePos[r] \in Nat /\ tbuf \in 0..1 /\ bufferIndex[r] \in 0..1
      /\ Len(delivered[r]) \in Nat /\ nextBlock[r] \in [0..1 -> [1..BlockSize -> Unit]]
  BY JoiningTypes
<1>3. /\ nextBlockSize[r] = 0 /\ held[r] # tbuf
      /\ \/ itr[r] \in 0..(Files(r) - 1) /\ ~eof[r] /\ ~Done(r) /\ tbuf = bufferIndex[r]
         \/ itr[r] = Files(r) /\ eof[r] /\ Done(r)
  BY <1>1, ReadingWhere
<1>4. Done(r)' = Done(r) /\ itr[r] # NoItr
  BY <1>1, <1>2, <1>3 DEF Done, ListTypes, NoItr
<1>. DEFINE count == ReadCount(streamName[r], filePos[r], BlockSize)
<1>5. /\ tbytes' = count
      /\ filePos'[r] = filePos[r] + (IF count > 0 THEN count ELSE 0)
      /\ \A i \in 1..BlockSize : i <= count =>
            nextBlock'[r][tbuf][i] = <<streamName[r], filePos[r] + i>>
      /\ nextBlock'[r][1 - tbuf] = nextBlock[r][1 - tbuf]
      /\ count <= 0 => nextBlock'[r] = nextBlock[r]
  <2>1. BlockSize \in 1..BlockSize /\ ReadInto(BlockSize)
    BY <1>2 DEF ThreadRead
  <2>. QED BY <1>2, <2>1, ReadIntoFacts
<1>6. NotStarted(r)' /\ EndsWithList(r)'
  BY <1>1, <1>4, ListStays DEF Joining, NotStarted, EndsWithList
<1>7. Flagged(r)'
  <2>1. held[r] \in {NoBuf, 1 - tbuf}
    <3>1. held[r] \in 0..2
      BY <1>2 DEF TypeOK, ClientType, NoBuf
    <3>. QED BY <1>2, <1>3, <3>1 DEF NoBuf
  <2>. QED BY <1>1, <1>3, <1>5, <2>1, ListStays DEF Joining, Flagged
<1>. HIDE DEF count
<1>8. CASE itr[r] \in 0..(Files(r) - 1) /\ ~Done(r) /\ tbuf = bufferIndex[r]
  <2>. PICK k \in 0..(Files(r) - 1) : itr[r] = k
    BY <1>8
  <2>1. /\ streamName[r] = File(r, k + 1) /\ filePos[r] \in 0..FileLen(r, k + 1)
        /\ filePos[r] % BlockSize = 0
        /\ lastBlock[r] <=> (filePos[r] = 0 /\ k > 0)
    BY <1>1 DEF Joining, OnFile, InFile
  <2>2. /\ k + 1 \in 1..Files(r) /\ k \in 0..Files(r) /\ k # Files(r)
        /\ FileLen(r, k + 1) \in Nat
    BY <1>2 DEF ListTypes
  <2>3. /\ count \in 0..BlockSize /\ filePos[r] + count \in 0..FileLen(r, k + 1)
        /\ count < BlockSize => filePos[r] + count = FileLen(r, k + 1)
    BY <2>1, <2>2, ReadCountWhole DEF Joinable, count
  <2>4. filePos'[r] = filePos[r] + count /\ tbytes' = count
    BY <1>2, <1>5, <2>3
  <2>5. OnFile(r)'
    <3>1. filePos'[r] - tbytes' = filePos[r] /\ tbytes' \in 0..filePos'[r]
      BY <1>2, <2>3, <2>4
    <3>2. filePos'[r] = tbytes' <=> filePos[r] = 0
      BY <1>2, <2>3, <2>4
    <3>3. InFile(r, k)'
      BY <1>1, <2>1, <2>3, <2>4, <3>1, <3>2, ListStays DEF InFile
    <3>. QED BY <1>1, <3>3, ListStays DEF OnFile
  <2>6. PastFiles(r)'
    BY <1>1, <2>2, ListStays DEF PastFiles
  <2>7. JoinedSoFar(r)'
    <3>1. InFlight(r) = 0 /\ InFlight(r)' = count
      BY <1>1, <1>3, <2>3, <2>4 DEF InFlight, Carried
    <3>2. Before(r, k) \in Nat
      BY <2>2, JoinedParts
    <3>3. /\ ReadSoFar(r) = Before(r, k) + filePos[r]
          /\ ReadSoFar(r)' = Before(r, k) + filePos'[r]
      BY <1>1, SoFarInFile
    <3>4. Len(delivered[r]) = Before(r, k) + filePos[r]
      <4>1. Len(delivered[r]) + InFlight(r) = ReadSoFar(r)
        BY <1>8 DEF Joining, JoinedSoFar
      <4>. QED BY <1>2, <3>1, <3>2, <3>3, <4>1
    <3>5. ASSUME NEW i \in 1..count
          PROVE  nextBlock'[r][tbuf][i] = Joined(r)[Len(delivered[r]) + i]
      <4>1. i \in 1..BlockSize /\ i <= count /\ filePos[r] + i \in 1..FileLen(r, k + 1)
        BY <1>2, <2>2, <2>3
      <4>2. nextBlock'[r][tbuf][i] = <<File(r, k + 1), filePos[r] + i>>
        BY <1>5, <2>1, <4>1
      <4>3. Len(delivered[r]) + i = Before(r, k) + (filePos[r] + i)
        BY <1>2, <3>2, <3>4, <2>3
      <4>4. Joined(r)[Before(r, k) + (filePos[r] + i)] = <<File(r, k + 1), filePos[r] + i>>
        BY <4>1, JoinedParts
      <4>. QED BY <4>2, <4>3, <4>4
    <3>6. Len(delivered[r]) + count = ReadSoFar(r)'
      BY <1>2, <2>3, <2>4, <3>2, <3>3, <3>4
    <3>. QED BY <1>1, <1>3, <1>4, <1>8, <2>3, <2>4, <3>1, <3>5, <3>6, ListStays
             DEF Joining, JoinedSoFar
  <2>. QED BY <1>1, <1>6, <1>7, <2>5, <2>6, <2>7, ListStays DEF Joining
<1>9. CASE itr[r] = Files(r) /\ Done(r)
  <2>1. streamName[r] = NoName /\ filePos[r] = 0 /\ itr[r] \notin 0..(Files(r) - 1)
    BY <1>2, <1>9 DEF Joining, PastFiles, ListTypes
  <2>2. count = -1
    BY <2>1, ReaderAssumption DEF ReadCount, count
  <2>3. filePos'[r] = 0
    BY <1>5, <2>1, <2>2
  <2>4. OnFile(r)' /\ PastFiles(r)'
    BY <1>1, <1>5, <2>1, <2>2, <2>3, ListStays DEF OnFile, PastFiles
  <2>5. JoinedSoFar(r)'
    BY <1>1, <1>4, <1>9, ListStays DEF Joining, JoinedSoFar
  <2>. QED BY <1>1, <1>6, <1>7, <2>4, <2>5, ListStays DEF Joining
<1>. QED BY <1>3, <1>8, <1>9

\* A block behind the end of a block ends at the end of one.
LEMMA BlockEnds ==
  ASSUME NEW p \in Nat, p >= BlockSize, (p - BlockSize) % BlockSize = 0
  PROVE  p % BlockSize = 0 /\ p # 0
<1>1. BlockSize \in Nat /\ BlockSize > 0
  BY ReaderAssumption
<1>. QED BY <1>1

\* The name behind a file of the list is another one, or none behind the last.
LEMMA NextOfList ==
  ASSUME NEW r \in Readers, Joinable(r), NEW k \in 0..(Files(r) - 1), itr[r] = k
  PROVE  /\ NextIndex(r) = k + 1 /\ k + 1 \in Nat
         /\ k + 1 < Files(r) => /\ NextName(r) = File(r, k + 2)
                                /\ NextName(r) \in Names \ Unopenable
         /\ k + 1 = Files(r) => NextName(r) = NoName
         /\ NextName(r) # File(r, k + 1)
<1>1. ListTypes(r) /\ NoName \notin Names
  BY ListFacts, ReaderAssumption
<1>2. k \in Nat /\ k + 1 \in 1..Files(r) /\ Files(r) \in Nat
  BY <1>1 DEF ListTypes
<1>3. NextIndex(r) = k + 1
  BY <1>2 DEF NextIndex, Files
<1>4. CASE k + 1 < Files(r)
  <2>1. k + 1 \in 1..(Files(r) - 1) /\ k + 2 \in 1..Files(r) /\ (k + 1) + 1 = k + 2
    BY <1>2, <1>4
  <2>2. NextName(r) = File(r, k + 2)
    BY <1>3, <1>4, <2>1 DEF NextName, File, Files
  <2>. QED BY <1>1, <1>2, <1>3, <1>4, <2>1, <2>2 DEF Joinable, ListTypes
<1>5. CASE k + 1 = Files(r)
  <2>1. NextName(r) = NoName
    BY <1>2, <1>3, <1>5 DEF NextName, Files
  <2>. QED BY <1>1, <1>2, <1>3, <1>5, <2>1 DEF ListTypes
<1>. QED BY <1>2, <1>4, <1>5

\* No switch: a whole block in a file; nothing, behind the last.
LEMMA StayJoin ==
  ASSUME HandoverInv, Calm, NEW r \in Readers, ~OneFile(r), Joinable(r), Joining(r),
         ThreadStay, r = tid
  PROVE  Joining(r)'
<1>1. /\ Place(r) = "switch" /\ Place(r)' = "publish" /\ Fetching(r)
      /\ UNCHANGED <<streamName, filePos, nextBlockSize, bufferIndex, held, delivered,
                     lastRez, lastFirst, base, opened, nextBlock, tbytes>>
  BY DEF ThreadStay, GoPublish, Place, Fetching, Serving, clientVars
<1>2. /\ ListTypes(r) /\ TypeOK /\ BlockSize \in Nat \ {0} /\ blockSize[r] = BlockSize
      /\ filePos[r] \in Nat /\ tbytes \in -1..BlockSize
  BY JoiningTypes
<1>3. /\ nextBlockSize[r] = 0
      /\ \/ itr[r] \in 0..(Files(r) - 1) /\ ~eof[r] /\ ~Done(r)
         \/ itr[r] = Files(r) /\ eof[r] /\ Done(r)
  BY <1>1, ReadingWhere
<1>4. /\ itr \in [Readers -> {NoItr} \cup Nat] /\ eof \in [Readers -> BOOLEAN]
      /\ firstBlock \in [Readers -> BOOLEAN] /\ lastBlock \in [Readers -> BOOLEAN]
      /\ blockSize \in [Readers -> 1..BlockSize]
  BY <1>2 DEF TypeOK, StreamType, HandType
<1>5. /\ blockSize'[r] = BlockSize
      /\ firstBlock'[r] = lastBlock[r] /\ ~lastBlock'[r]
      /\ Done(r)' = Done(r) /\ InFlight(r)' = InFlight(r)
  BY <1>1, <1>4 DEF ThreadStay, GoPublish, FirstAfterRead, Done, InFlight, Carried
<1>6. CASE itr[r] \in 0..(Files(r) - 1) /\ ~eof[r] /\ ~Done(r)
  <2>. PICK k \in 0..(Files(r) - 1) : itr[r] = k
    BY <1>6
  <2>1. InFile(r, k) /\ k # Files(r) /\ k # NoItr
    BY <1>2 DEF Joining, OnFile, ListTypes, NoItr
  <2>2. ~AtFileEnd
    <3>1. ASSUME AtFileEnd PROVE FALSE
      <4>1. NextName(r) = File(r, k + 1)
        BY <2>1, <3>1 DEF ThreadStay, InFile
      <4>. QED BY <4>1, NextOfList
    <3>. QED BY <3>1
  <2>3. tbytes = BlockSize
    BY <1>2, <2>1, <2>2 DEF AtFileEnd
  <2>4. itr'[r] = k /\ ~eof'[r]
    BY <1>4, <1>6, <2>2 DEF ThreadStay, GoPublish
  <2>5. OnFile(r)'
    <3>1. filePos[r] % BlockSize = 0 /\ filePos[r] # 0
      BY <1>1, <1>2, <2>1, <2>3, BlockEnds DEF InFile
    <3>2. InFile(r, k)'
      BY <1>1, <1>5, <2>1, <3>1, ListStays DEF InFile
    <3>. QED BY <2>4, <3>2, ListStays DEF OnFile
  <2>6. PastFiles(r)' /\ EndsWithList(r)'
    BY <2>1, <2>4, ListStays DEF PastFiles, EndsWithList
  <2>7. Flagged(r)'
    <3>1. lastBlock[r] <=> Begins(r, nextBlock[r][bufferIndex[r]][1])
      BY <1>1, <1>2, <1>6, <2>3, BlockBegins
    <3>. QED BY <1>1, <1>5, <3>1, ListStays DEF Joining, Flagged
  <2>8. JoinedSoFar(r)'
    <3>1. ReadSoFar(r)' = ReadSoFar(r)
      BY <1>1, <2>4, SoFarInFile
    <3>. QED BY <1>1, <1>2, <1>5, <2>3, <3>1, ListStays DEF Joining, JoinedSoFar
  <2>9. NotStarted(r)'
    BY <1>1, <2>1, <2>4 DEF Joining, NotStarted
  <2>10. itr'[r] \in 0..Files(r)
    BY <1>2, <2>4 DEF ListTypes
  <2>. QED BY <1>5, <2>5, <2>6, <2>7, <2>8, <2>9, <2>10, ListStays DEF Joining
<1>7. CASE itr[r] = Files(r) /\ eof[r] /\ Done(r)
  <2>1. /\ streamName[r] = NoName /\ filePos[r] = 0 /\ itr[r] \notin 0..(Files(r) - 1)
        /\ tbytes = -1 /\ itr[r] # NoItr /\ NextIndex(r) = Files(r)
    BY <1>1, <1>2, <1>7 DEF Joining, PastFiles, ListTypes, NextIndex, Files, NoItr
  <2>2. itr'[r] = Files(r) /\ eof'[r]
    BY <1>4, <1>7, <2>1 DEF ThreadStay, GoPublish, AtFileEnd
  <2>3. OnFile(r)' /\ PastFiles(r)' /\ EndsWithList(r)'
    BY <1>1, <1>7, <2>1, <2>2, ListStays DEF OnFile, PastFiles, EndsWithList
  <2>4. Flagged(r)' /\ JoinedSoFar(r)'
    BY <1>1, <1>5, <1>7, ListStays DEF Joining, Flagged, JoinedSoFar
  <2>5. NotStarted(r)'
    BY <1>1, <1>7, <2>1, <2>2 DEF Joining, NotStarted
  <2>6. itr'[r] \in 0..Files(r)
    BY <1>2, <2>2 DEF ListTypes
  <2>. QED BY <1>5, <2>3, <2>4, <2>5, <2>6, ListStays DEF Joining
<1>. QED BY <1>3, <1>6, <1>7

\* From a file to the next, or to the end of the list.
LEMMA SwitchJoin ==
  ASSUME HandoverInv, Calm, NEW r \in Readers, ~OneFile(r), Joinable(r), Joining(r),
         ThreadSwitch, r = tid
  PROVE  Joining(r)'
<1>1. /\ Place(r) = "switch" /\ Place(r)' \in {"publish", "readNext"} /\ Fetching(r)
      /\ UNCHANGED <<nextBlockSize, bufferIndex, held, delivered, lastRez,
                     lastFirst, base, opened, nextBlock, tbytes>>
  BY DEF ThreadSwitch, GoPublish, Place, Fetching, Serving, clientVars
<1>2. /\ ListTypes(r) /\ TypeOK /\ BlockSize \in Nat \ {0} /\ blockSize[r] = BlockSize
      /\ filePos[r] \in Nat /\ tbytes \in -1..BlockSize
  BY JoiningTypes
<1>3. /\ nextBlockSize[r] = 0
      /\ \/ itr[r] \in 0..(Files(r) - 1) /\ ~eof[r] /\ ~Done(r)
         \/ itr[r] = Files(r) /\ eof[r] /\ Done(r)
  BY <1>1, ReadingWhere
<1>4. /\ itr \in [Readers -> {NoItr} \cup Nat] /\ eof \in [Readers -> BOOLEAN]
      /\ firstBlock \in [Readers -> BOOLEAN] /\ lastBlock \in [Readers -> BOOLEAN]
      /\ blockSize \in [Readers -> 1..BlockSize] /\ filePos \in [Readers -> Int]
      /\ DOMAIN streamName = Readers
  BY <1>2 DEF TypeOK, StreamType, HandType
<1>5. itr[r] # Files(r)
  <2>1. itr[r] = Files(r) => NextName(r) = NoName /\ streamName[r] = NoName
    BY <1>2 DEF Joining, PastFiles, NextName, NextIndex, Files, ListTypes
  <2>. QED BY <2>1 DEF ThreadSwitch
<1>6. itr[r] \in 0..(Files(r) - 1) /\ ~eof[r] /\ ~Done(r) /\ ~Done(r)'
  BY <1>1, <1>3, <1>5 DEF Done
<1>. PICK k \in 0..(Files(r) - 1) : itr[r] = k
  BY <1>6
<1>7. InFile(r, k) /\ k + 1 \in 1..Files(r) /\ k \in 0..Files(r) /\ k + 1 # NoItr
  BY <1>2 DEF Joining, OnFile, ListTypes, NoItr
<1>8. /\ tbytes \in 0..(BlockSize - 1) /\ filePos[r] = FileLen(r, k + 1)
      /\ tbytes = 0 => FileLen(r, k + 1) % BlockSize = 0
  <2>1. tbytes \in 0..(BlockSize - 1)
    BY <1>1, <1>2, <1>7 DEF ThreadSwitch, AtFileEnd, InFile
  <2>2. filePos[r] = FileLen(r, k + 1) /\ (filePos[r] - tbytes) % BlockSize = 0
    BY <1>1, <1>2, <1>7, <2>1 DEF InFile
  <2>3. tbytes = 0 => filePos[r] - tbytes = filePos[r]
    BY <1>2
  <2>. QED BY <2>1, <2>2, <2>3
<1>9. itr'[r] = k + 1 /\ streamName'[r] = NextName(r) /\ filePos'[r] = 0
  BY <1>4, NextOfList DEF ThreadSwitch
<1>10. tbytes > 0 => (lastBlock[r] <=> Begins(r, nextBlock[r][bufferIndex[r]][1]))
  BY <1>1, <1>2, <1>6, <1>8, BlockBegins
<1>11. NotStarted(r)'
  BY <1>1, <1>6, <1>7, <1>9 DEF Joining, NotStarted
<1>12. ReadSoFar(r)' = ReadSoFar(r)
  <2>1. ReadSoFar(r) = Before(r, k) + FileLen(r, k + 1)
    BY <1>8, SoFarInFile
  <2>2. Before(r, k + 1) = Before(r, k) + FileLen(r, k + 1) /\ Before(r, k + 1) \in Nat
    BY <1>7, JoinedParts
  <2>3. CASE k + 1 \in 0..(Files(r) - 1)
    BY <1>9, <2>1, <2>2, <2>3, SoFarInFile
  <2>4. CASE k + 1 \notin 0..(Files(r) - 1)
    <3>1. k + 1 = Files(r)
      BY <1>2, <1>7, <2>4 DEF ListTypes
    <3>2. ReadSoFar(r)' = Before(r, Files(r))
      BY <1>7, <1>9, <2>4, <3>1, ListStays DEF ReadSoFar
    <3>. QED BY <2>1, <2>2, <3>1, <3>2
  <2>. QED BY <2>3, <2>4
<1>13. InFlight(r) = tbytes
  BY <1>1, <1>2, <1>3 DEF InFlight, Carried
<1>14. ASSUME InFlight(r)' = tbytes PROVE JoinedSoFar(r)'
  BY <1>1, <1>2, <1>3, <1>6, <1>8, <1>12, <1>13, <1>14, ListStays DEF Joining, JoinedSoFar
<1>15. CASE k + 1 < Files(r) /\ tbytes = 0
  <2>1. NextName(r) = File(r, k + 2) /\ NextName(r) \in Names \ Unopenable
        /\ NextName(r) # NoName /\ k + 1 \in 1..(Files(r) - 1)
    BY <1>2, <1>15, NextOfList, ReaderAssumption DEF ListTypes
  <2>2. /\ Place(r)' = "readNext" /\ firstBlock'[r] /\ ~lastBlock'[r]
        /\ blockSize'[r] = BlockSize /\ ~eof'[r]
    BY <1>2, <1>4, <1>6, <1>15, <2>1 DEF ThreadSwitch, Place, Serving
  <2>3. OnFile(r)' /\ PastFiles(r)' /\ EndsWithList(r)'
    <3>1. FileLen(r, k + 2) >= BlockSize /\ FileLen(r, k + 2) \in Nat
      <4>1. (k + 1) + 1 = k + 2 /\ k + 2 \in 1..Files(r)
        BY <1>2, <2>1 DEF ListTypes
      <4>. QED BY <1>2, <1>8, <1>15, <2>1, <4>1 DEF Joinable, ListTypes
    <3>2. InFile(r, k + 1)'
      <4>1. (k + 1) + 1 = k + 2 /\ k + 1 > 0 /\ 0 \in 0..FileLen(r, k + 2)
        BY <2>1, <3>1
      <4>. QED BY <1>9, <2>1, <2>2, <3>1, <4>1, ListStays DEF InFile
    <3>. QED BY <1>9, <1>15, <2>2, <3>2, ListStays DEF OnFile, PastFiles, EndsWithList
  <2>4. Flagged(r)'
    BY <1>1, <1>3, <2>2, ListStays DEF Joining, Flagged
  <2>5. InFlight(r)' = tbytes
    BY <1>1, <1>3, <1>15, <2>2 DEF InFlight, Carried
  <2>6. itr'[r] \in 0..Files(r)
    BY <1>2, <1>9, <2>1 DEF ListTypes
  <2>. QED BY <1>11, <1>14, <2>2, <2>3, <2>4, <2>5, <2>6, ListStays DEF Joining
<1>16. CASE ~(k + 1 < Files(r) /\ tbytes = 0)
  <2>1. \/ k + 1 < Files(r) /\ NextName(r) = File(r, k + 2) /\ NextName(r) # NoName
           /\ NextName(r) \in Names \ Unopenable /\ tbytes # 0
        \/ k + 1 = Files(r) /\ NextName(r) = NoName
    BY <1>2, <1>7, <1>16, NextOfList, ReaderAssumption DEF ListTypes
  <2>2. /\ Place(r)' = "publish" /\ blockSize'[r] = BlockSize
        /\ firstBlock'[r] = lastBlock[r]
        /\ lastBlock'[r] <=> k + 1 < Files(r)
        /\ eof'[r] <=> k + 1 = Files(r)
    <3>1. k + 1 < Files(r) \/ k + 1 = Files(r)
      BY <2>1
    <3>2. ~(k + 1 < Files(r) /\ k + 1 = Files(r))
      BY <1>2, <1>7 DEF ListTypes
    <3>. QED BY <1>2, <1>4, <1>6, <2>1, <3>2
             DEF ThreadSwitch, GoPublish, FirstAfterRead, Place, Serving
  <2>3. OnFile(r)'
    <3>. SUFFICES ASSUME k + 1 \in 0..(Files(r) - 1) PROVE InFile(r, k + 1)'
      BY <1>9, ListStays DEF OnFile
    <3>1. k + 1 < Files(r) /\ k + 1 > 0 /\ (k + 1) + 1 = k + 2 /\ k + 2 \in 1..Files(r)
      BY <1>2, <1>7 DEF ListTypes
    <3>2. streamName'[r] = File(r, (k + 1) + 1)
      BY <1>2, <1>9, <2>1, <3>1 DEF ListTypes
    <3>3. 0 % BlockSize = 0 /\ 0 \in 0..FileLen(r, (k + 1) + 1)
      BY <1>2, <3>1 DEF ListTypes
    <3>. QED BY <1>9, <2>2, <3>1, <3>2, <3>3, ListStays DEF InFile
  <2>4. PastFiles(r)' /\ EndsWithList(r)'
    BY <1>9, <2>1, <2>2, <1>2, ListStays DEF PastFiles, EndsWithList, ListTypes
  <2>5. Flagged(r)'
    BY <1>1, <1>2, <1>3, <1>6, <1>10, <2>2, ListStays DEF Joining, Flagged
  <2>6. InFlight(r)' = tbytes
    BY <1>1, <1>2, <1>3, <2>2 DEF InFlight, Carried
  <2>7. itr'[r] \in 0..Files(r)
    BY <1>2, <1>7, <1>9 DEF ListTypes
  <2>. QED BY <1>11, <1>14, <2>2, <2>3, <2>4, <2>5, <2>6, <2>7, ListStays DEF Joining
<1>. QED BY <1>15, <1>16

\* The first block of a file read in place of an empty last one.
LEMMA ReadNextJoin ==
  ASSUME HandoverInv, Calm, NEW r \in Readers, ~OneFile(r), Joinable(r), Joining(r),
         ThreadReadNext, r = tid
  PROVE  Joining(r)'
<1>1. /\ Place(r) = "readNext" /\ Place(r)' = "publish" /\ Fetching(r)
      /\ UNCHANGED <<itr, streamName, firstBlock, nextBlockSize,
                     bufferIndex, held, delivered, lastRez, lastFirst, base, opened, tbuf>>
  BY DEF ThreadReadNext, Place, Fetching, Serving, clientVars
<1>2. /\ ListTypes(r) /\ TypeOK /\ BlockSize \in Nat \ {0} /\ blockSize[r] = BlockSize
      /\ filePos[r] \in Nat /\ tbuf \in 0..1 /\ bufferIndex[r] \in 0..1
      /\ Len(delivered[r]) \in Nat /\ nextBlock[r] \in [0..1 -> [1..BlockSize -> Unit]]
  BY JoiningTypes
<1>3. /\ nextBlockSize[r] = 0 /\ held[r] # tbuf
      /\ \/ itr[r] \in 0..(Files(r) - 1) /\ ~eof[r] /\ ~Done(r) /\ tbuf = bufferIndex[r]
         \/ itr[r] = Files(r) /\ eof[r] /\ Done(r)
  BY <1>1, ReadingWhere
<1>4. itr[r] \in 0..(Files(r) - 1) /\ ~eof[r] /\ ~Done(r) /\ tbuf = bufferIndex[r]
  BY <1>1, <1>3 DEF Joining, PastFiles
<1>. PICK k \in 0..(Files(r) - 1) : itr[r] = k
  BY <1>4
<1>5. /\ streamName[r] = File(r, k + 1) /\ k > 0 /\ filePos[r] = 0
      /\ FileLen(r, k + 1) >= BlockSize /\ firstBlock[r] /\ ~lastBlock[r]
  BY <1>1 DEF Joining, OnFile, InFile
<1>6. /\ k + 1 \in 1..Files(r) /\ k \in 0..Files(r) /\ k # Files(r) /\ k # NoItr
      /\ FileLen(r, k + 1) \in Nat /\ k \in 1..(Files(r) - 1)
      /\ File(r, k + 1) \in Names \ Unopenable /\ File(r, k + 1) # File(r, 1)
  BY <1>2, <1>5 DEF ListTypes, NoItr, Joinable
<1>. DEFINE count == ReadCount(streamName[r], filePos[r], BlockSize)
<1>7. /\ tbytes' = count
      /\ filePos'[r] = filePos[r] + (IF count > 0 THEN count ELSE 0)
      /\ \A i \in 1..BlockSize : i <= count =>
            nextBlock'[r][tbuf][i] = <<streamName[r], filePos[r] + i>>
      /\ nextBlock'[r][1 - tbuf] = nextBlock[r][1 - tbuf]
  <2>1. BlockSize \in 1..BlockSize /\ ReadInto(BlockSize)
    BY <1>2 DEF ThreadReadNext
  <2>. QED BY <1>2, <2>1, ReadIntoFacts
<1>8. count = BlockSize
  BY <1>2, <1>5, <1>6 DEF ReadCount, FileLen
<1>. HIDE DEF count
<1>9. /\ tbytes' = BlockSize /\ filePos'[r] = BlockSize
      /\ \A i \in 1..BlockSize : nextBlock'[r][tbuf][i] = <<File(r, k + 1), i>>
  <2>1. \A i \in 1..BlockSize : i <= BlockSize /\ 0 + i = i
    BY <1>2
  <2>. QED BY <1>2, <1>5, <1>7, <1>8, <2>1
<1>10. ~eof'[r] /\ ~lastBlock'[r] /\ blockSize'[r] = BlockSize
  <2>1. ~Short(tbytes')
    BY <1>2, <1>9 DEF Short
  <2>2. /\ eof \in [Readers -> BOOLEAN] /\ lastBlock \in [Readers -> BOOLEAN]
        /\ blockSize \in [Readers -> 1..BlockSize]
    BY <1>2 DEF TypeOK, StreamType, HandType
  <2>3. eof'[r] = (eof[r] \/ Short(tbytes')) /\ lastBlock'[r] = (lastBlock[r] \/ Short(tbytes'))
    BY <2>2 DEF ThreadReadNext
  <2>4. blockSize'[r] = BlockSize
    BY <2>2 DEF ThreadReadNext
  <2>. QED BY <1>4, <1>5, <2>1, <2>3, <2>4
<1>11. NotStarted(r)'
  BY <1>1, <1>6 DEF Joining, NotStarted
<1>12. OnFile(r)'
  <2>1. BlockSize % BlockSize = 0 /\ BlockSize \in 0..FileLen(r, k + 1) /\ BlockSize # 0
    BY <1>2, <1>5, <1>6
  <2>2. InFile(r, k)'
    BY <1>1, <1>5, <1>9, <1>10, <2>1, ListStays DEF InFile
  <2>. QED BY <1>1, <2>2, ListStays DEF OnFile
<1>13. PastFiles(r)' /\ EndsWithList(r)'
  BY <1>1, <1>6, <1>10, ListStays DEF PastFiles, EndsWithList
<1>14. Flagged(r)'
  <2>1. held[r] \in {NoBuf, 1 - tbuf}
    <3>1. held[r] \in 0..2
      BY <1>2 DEF TypeOK, ClientType, NoBuf
    <3>. QED BY <1>2, <1>3, <3>1 DEF NoBuf
  <2>2. nextBlock'[r][tbuf][1] = <<File(r, k + 1), 1>>
    BY <1>2, <1>9
  <2>3. Begins(r, nextBlock'[r][tbuf][1])
    BY <1>6, <2>2 DEF Begins
  <2>4. tbuf' = tbuf /\ bufferIndex'[r] = tbuf /\ firstBlock'[r]
    BY <1>1, <1>4, <1>5
  <2>. QED BY <1>1, <1>7, <2>1, <2>3, <2>4, ListStays DEF Joining, Flagged
<1>15. JoinedSoFar(r)'
  <2>1. InFlight(r) = 0 /\ InFlight(r)' = BlockSize
    BY <1>1, <1>2, <1>3, <1>9 DEF InFlight, Carried
  <2>2. /\ ReadSoFar(r) = Before(r, k) + filePos[r] /\ Before(r, k) \in Nat
        /\ ReadSoFar(r)' = Before(r, k) + filePos'[r]
    BY <1>1, <1>6, SoFarInFile, JoinedParts
  <2>3. Len(delivered[r]) = Before(r, k)
    <3>1. Len(delivered[r]) + InFlight(r) = ReadSoFar(r)
      BY <1>4 DEF Joining, JoinedSoFar
    <3>. QED BY <1>2, <1>5, <2>1, <2>2, <3>1
  <2>4. ASSUME NEW i \in 1..BlockSize
        PROVE  nextBlock'[r][tbuf][i] = Joined(r)[Len(delivered[r]) + i]
    <3>1. i \in 1..FileLen(r, k + 1)
      BY <1>2, <1>5, <1>6
    <3>2. Joined(r)[Before(r, k) + i] = <<File(r, k + 1), i>>
      BY <3>1, JoinedParts
    <3>. QED BY <1>9, <2>3, <3>2
  <2>5. Len(delivered[r]) + BlockSize = ReadSoFar(r)'
    BY <1>9, <2>2, <2>3
  <2>. QED BY <1>1, <1>2, <1>3, <1>4, <1>9, <2>1, <2>4, <2>5, ListStays
           DEF Joining, JoinedSoFar
<1>. QED BY <1>1, <1>10, <1>11, <1>12, <1>13, <1>14, <1>15, ListStays DEF Joining

\* The block is handed to the caller.
LEMMA PublishJoin ==
  ASSUME HandoverInv, Calm, NEW r \in Readers, ~OneFile(r), Joining(r),
         ThreadPublish, r = tid
  PROVE  Joining(r)'
<1>1. /\ Place(r) = "publish" /\ Place(r)' = "release"
      /\ UNCHANGED <<itr, streamName, filePos, blockSize, firstBlock, lastBlock, eof, nextBlock,
                     bufferIndex, held, delivered, lastRez, lastFirst, base, opened>>
  BY DEF ThreadPublish, Place, Serving, streamVars, clientVars
<1>2. /\ Handover(r) /\ TypeOK /\ tbytes \in -1..BlockSize /\ BlockSize \in Nat
      /\ nextBlockSize[r] = 0
  BY <1>1, JoiningTypes DEF Handover, OneUnderWay, Ready
<1>3. nextBlockSize'[r] = tbytes
  BY <1>2 DEF ThreadPublish, TypeOK, HandType
<1>4. itr[r] # NoItr
  BY <1>1 DEF Joining, NotStarted
<1>5. NotStarted(r)'
  BY <1>1, <1>4 DEF Joining, NotStarted
<1>6. OnFile(r)' /\ PastFiles(r)' /\ EndsWithList(r)'
  BY <1>1, ListStays DEF Joining, OnFile, InFile, PastFiles, EndsWithList
<1>7. Done(r)' = Done(r) /\ InFlight(r)' = InFlight(r)
  BY <1>1, <1>2, <1>3 DEF Done, InFlight, Carried
<1>8. Flagged(r)'
  BY <1>1, <1>3, <1>7, ListStays DEF Joining, Flagged
<1>9. JoinedSoFar(r)'
  <2>1. ReadSoFar(r)' = ReadSoFar(r)
    BY <1>1, ListStays DEF ReadSoFar
  <2>. QED BY <1>1, <1>2, <1>3, <1>7, <2>1, ListStays DEF Joining, JoinedSoFar
<1>. QED BY <1>1, <1>5, <1>6, <1>8, <1>9, ListStays DEF Joining

\* Every step of the thread, for the list it serves and for the others.
JoinAt(r) == <<itr[r], streamName[r], filePos[r], blockSize[r], firstBlock[r],
               lastBlock[r], nextBlock[r], bufferIndex[r], nextBlockSize[r], eof[r],
               lastRez[r], lastFirst[r], delivered[r], base[r]>>

LEMMA ThreadJoin ==
  ASSUME HandoverInv, Calm, NEW r \in Readers, ~OneFile(r), Joinable(r), Joining(r), Thread
  PROVE  Joining(r)'
<1>1. /\ TypeOK /\ Handover(r) /\ Bookkeeping
      /\ UNCHANGED clientVars
  <2>1. UNCHANGED clientVars
    BY DEF Thread, ThreadPop, ThreadGet, ThreadRead, ThreadStay, ThreadSwitch,
       ThreadReadNext, ThreadPublish, ThreadRelease, ThreadLoop
  <2>. QED BY <2>1, JoiningTypes
<1>2. itr[r] = NoItr => Asked(r) = 0 /\ Place(r) = "away"
  BY DEF Joining, NotStarted
<1>3. CASE ThreadPop
  <2>1. UNCHANGED JoinAt(r)
    BY <1>1, <1>3 DEF ThreadPop, JoinAt, handVars, streamVars, clientVars
  <2>2. Queued(r) = Queued(r)' + (IF Head(readQueue) = r THEN 1 ELSE 0)
    BY <1>1, <1>3, CountTail DEF ThreadPop, TypeOK, QueueType, Queued
  <2>3. Queued(r) \in Nat /\ Queued(r)' \in Nat
    BY <1>1, <1>3, FieldTypes, BookkeepingStep DEF Next, Thread
  <2>4. Place(r) = "away" /\ Place(r)' \in {"away", "get"}
        /\ (Place(r)' = "get" => Head(readQueue) = r)
    BY <1>3 DEF ThreadPop, Place, Serving
  <2>5. itr[r] = NoItr => Asked(r)' = Asked(r) /\ Place(r)' = "away"
    BY <1>2, <2>2, <2>3, <2>4 DEF Asked, Fetching
  <2>. QED BY <1>1, <2>1, <2>4, <2>5, JoinFrame DEF JoinAt, clientVars
<1>4. CASE (ThreadGet \/ ThreadRelease) /\ r = tid
  <2>1. UNCHANGED JoinAt(r)
    BY <1>1, <1>4 DEF ThreadGet, ThreadRelease, JoinAt, handVars, streamVars, clientVars
  <2>2. Place(r) \in {"get", "release"} /\ Place(r)' \in {"away", "read", "release"}
    BY <1>4 DEF ThreadGet, ThreadRelease, Place, Serving
  <2>. QED BY <1>1, <1>2, <2>1, <2>2, JoinFrame DEF JoinAt, clientVars
<1>5. CASE /\ ThreadGet \/ ThreadRead \/ ThreadStay \/ ThreadSwitch \/ ThreadReadNext
              \/ ThreadPublish \/ ThreadRelease \/ ThreadLoop
           /\ r # tid \/ ThreadLoop
  <2>1. UNCHANGED JoinAt(r)
    BY <1>1, <1>5 DEF ThreadGet, ThreadRead, ThreadStay, ThreadSwitch, ThreadReadNext,
       ThreadPublish, ThreadRelease, ThreadLoop, ReadInto, GoPublish, JoinAt, handVars,
       streamVars, clientVars, TypeOK, HandType, StreamType, DataType
  <2>2. /\ UNCHANGED readQueue /\ Place(r) = "away" /\ Place(r)' = "away"
    BY <1>5 DEF ThreadGet, ThreadRead, ThreadStay, ThreadSwitch, ThreadReadNext,
       ThreadPublish, ThreadRelease, ThreadLoop, queueVars, Place, Serving
  <2>3. Asked(r)' = Asked(r)
    BY <2>2 DEF Asked, Fetching, Queued
  <2>. QED BY <1>1, <2>1, <2>2, <2>3, JoinFrame DEF JoinAt, clientVars
<1>6. CASE /\ ThreadRead \/ ThreadStay \/ ThreadSwitch \/ ThreadReadNext \/ ThreadPublish
           /\ r = tid
  BY <1>6, ReadJoin, StayJoin, SwitchJoin, ReadNextJoin, PublishJoin
<1>. QED BY <1>3, <1>4, <1>5, <1>6 DEF Thread

\* A list is opened at its first file.
LEMMA OpenJoin ==
  ASSUME HandoverInv, Calm, NEW r \in Readers, ~OneFile(r), Joining(r), OpenStream(r)
  PROVE  Joining(r)'
<1>1. /\ ListTypes(r) /\ TypeOK /\ BlockSize \in Nat \ {0} /\ blockSize[r] = BlockSize
      /\ Len(delivered[r]) \in Nat /\ nextBlockSize[r] \in -1..BlockSize
  BY JoiningTypes
<1>2. itr[r] = NoItr /\ r \notin opened
  BY DEF OpenStream, Joining, NotStarted
<1>3. /\ Place(r) = "away" /\ nextBlockSize[r] = 0 /\ ~eof[r] /\ ~Done(r)
      /\ held[r] = NoBuf /\ delivered[r] = <<>>
  BY <1>2 DEF Joining, NotStarted, Ready
<1>4. /\ UNCHANGED <<blockSize, nextBlock, bufferIndex, nextBlockSize, eof, lastRez,
                     lastFirst, held, delivered, base, tpc, tid, tbytes>>
      /\ r \in opened'
  BY DEF OpenStream, handVars, threadVars
<1>5. Place(r)' = "away" /\ Done(r)' = Done(r) /\ InFlight(r) = 0 /\ InFlight(r)' = 0
  BY <1>3, <1>4 DEF Place, Done, InFlight, Carried
<1>6. Files(r) > 1 /\ 0 \in 0..(Files(r) - 1) /\ 0 \in 0..Files(r) /\ 0 # Files(r)
  <2>1. Files(r) \in Nat \ {0} /\ Files(r) # 1
    BY <1>1 DEF ListTypes, OneFile, Files
  <2>. QED BY <2>1
<1>7. /\ itr'[r] = 0 /\ streamName'[r] = File(r, 1) /\ filePos'[r] = 0
      /\ ~lastBlock'[r]
  <2>1. /\ DOMAIN itr = Readers /\ DOMAIN streamName = Readers /\ DOMAIN filePos = Readers
        /\ DOMAIN lastBlock = Readers
    BY <1>1 DEF TypeOK, StreamType
  <2>. QED BY <1>6, <2>1 DEF OpenStream, File, Files
<1>8. NotStarted(r)'
  BY <1>4, <1>7 DEF NotStarted, NoItr
<1>9. OnFile(r)'
  <2>1. 0 % BlockSize = 0 /\ 0 \in 0..FileLen(r, 1) /\ 0 + 1 = 1 /\ ~(0 > 0)
    BY <1>1, <1>6 DEF ListTypes
  <2>2. InFile(r, 0)'
    BY <1>5, <1>7, <2>1, ListStays DEF InFile
  <2>. QED BY <1>7, <2>2, ListStays DEF OnFile
<1>10. PastFiles(r)' /\ EndsWithList(r)'
  BY <1>3, <1>4, <1>6, <1>7, ListStays DEF PastFiles, EndsWithList
<1>11. Flagged(r)'
  BY <1>3, <1>4, <1>5 DEF Flagged
<1>12. JoinedSoFar(r)'
  <2>1. ReadSoFar(r)' = Before(r, 0) + filePos'[r]
    BY <1>6, <1>7, SoFarInFile
  <2>2. Before(r, 0) = 0
    BY JoinedParts
  <2>3. Len(delivered[r]) + InFlight(r)' = ReadSoFar(r)'
    BY <1>3, <1>5, <1>7, <2>1, <2>2
  <2>. QED BY <1>1, <1>3, <1>4, <1>5, <2>3, ListStays DEF Joining, JoinedSoFar
<1>. QED BY <1>1, <1>4, <1>6, <1>7, <1>8, <1>9, <1>10, <1>11, <1>12, ListStays DEF Joining

\* The thread has never read more than the joined stream.
LEMMA SoFarBound ==
  ASSUME NEW r \in Readers, Joining(r)
  PROVE  ReadSoFar(r) <= Len(Joined(r))
<1>1. /\ ListTypes(r) /\ Before(r, Files(r)) = Len(Joined(r)) /\ Len(Joined(r)) \in Nat
  <2>1. Joined(r) \in Seq(Unit) /\ Before(r, Files(r)) = Len(Joined(r))
    BY JoinedParts
  <2>. QED BY <2>1, ListFacts
<1>2. CASE itr[r] \in 0..(Files(r) - 1)
  <2>. PICK k \in 0..(Files(r) - 1) : itr[r] = k
    BY <1>2
  <2>1. filePos[r] \in 0..FileLen(r, k + 1) /\ k \in 0..Files(r) /\ k + 1 \in 1..Files(r)
        /\ FileLen(r, k + 1) \in Nat
    BY <1>1 DEF Joining, OnFile, InFile, ListTypes
  <2>2. Before(r, k) \in Nat /\ Before(r, k) + FileLen(r, k + 1) <= Len(Joined(r))
    BY <2>1, JoinedParts
  <2>. QED BY <1>1, <2>1, <2>2, SoFarInFile
<1>3. CASE itr[r] \notin 0..(Files(r) - 1)
  BY <1>1, <1>3 DEF ReadSoFar
<1>. QED BY <1>2, <1>3

\* The caller takes the block, or ends.
LEMMA ResetJoin ==
  ASSUME HandoverInv, Calm, NEW r \in Readers, ~OneFile(r), Joining(r), ReadReset, r = cid
  PROVE  Joining(r)'
<1>1. /\ Handover(r) /\ TypeOK /\ Bookkeeping /\ BlockSize \in Nat \ {0}
      /\ nextBlockSize[r] \in -1..BlockSize /\ bufferIndex[r] \in 0..1
      /\ nextBlock[r] \in [0..1 -> [1..BlockSize -> Unit]]
      /\ delivered[r] \in Seq(Unit) /\ Len(delivered[r]) \in Nat /\ Len(Joined(r)) \in Nat
      /\ ReadSoFar(r) \in Nat /\ MaxPastEof = 0 /\ tbytes \in -1..BlockSize
  BY JoiningTypes
<1>2. ccnt \in 0..BlockSize /\ pastEof[r] \in Nat
  BY <1>1, FieldTypes
<1>3. Calling(r) = "reset"
  BY DEF ReadReset, Calling
<1>4. ~Done(r)
  BY <1>1, <1>2, <1>3 DEF Handover, InCall, Notified
<1>5. /\ Ready(r) \/ eof[r]
      /\ crez = "eof" <=> eof[r]
      /\ ccnt # 0 => ccnt = nextBlockSize[r]
      /\ ~eof[r] /\ nextBlockSize[r] > 0 => ccnt = nextBlockSize[r]
  BY <1>1, <1>3 DEF Handover, InCall
<1>6. nextBlockSize[r] >= 0 /\ itr[r] # NoItr
  BY <1>4, <1>5 DEF Joining, JoinedSoFar, NotStarted
<1>. DEFINE b == bufferIndex[r]
            got == SubSeq(nextBlock[r][b], 1, ccnt)
<1>7. /\ UNCHANGED <<itr, streamName, filePos, blockSize, firstBlock, lastBlock, eof, nextBlock,
                     base, opened, tpc, tid, tbytes>>
      /\ nextBlockSize'[r] = 0 /\ lastFirst'[r] = firstBlock[r]
      /\ held'[r] = IF ccnt > 0 THEN b ELSE NoBuf
      /\ lastRez'[r] = crez /\ delivered'[r] = delivered[r] \o got
  BY <1>1 DEF ReadReset, TypeOK, HandType, ClientType, DataType, streamVars, threadVars
<1>8. Place(r)' = Place(r) /\ ReadSoFar(r)' = ReadSoFar(r)
  BY <1>7, ListStays DEF Place, ReadSoFar
<1>9. NotStarted(r)'
  BY <1>6, <1>7 DEF Joining, NotStarted
<1>10. OnFile(r)' /\ PastFiles(r)' /\ EndsWithList(r)'
  BY <1>7, <1>8, ListStays DEF Joining, OnFile, InFile, PastFiles, EndsWithList
<1>11. /\ got \in Seq(Unit) /\ Len(got) = ccnt
       /\ \A i \in 1..ccnt : got[i] = nextBlock[r][b][i]
  <2>. DEFINE blk == nextBlock[r][b]
  <2>1. blk \in [1..BlockSize -> Unit]
    BY <1>1
  <2>2. blk \in Seq(Unit) /\ Len(blk) = BlockSize
    BY <1>1, <2>1
  <2>. HIDE DEF blk
  <2>3. got = SubSeq(blk, 1, ccnt)
    BY DEF blk
  <2>4. \A i \in 1..ccnt : blk[i] \in Unit
    BY <1>1, <1>2, <2>1
  <2>. QED BY <1>1, <1>2, <2>2, <2>3, <2>4 DEF blk
<1>. HIDE DEF got
<1>12. /\ Len(delivered'[r]) = Len(delivered[r]) + ccnt
       /\ \A i \in 1..Len(delivered[r]) : delivered'[r][i] = delivered[r][i]
       /\ \A i \in 1..ccnt : delivered'[r][Len(delivered[r]) + i] = nextBlock[r][b][i]
  <2>1. /\ Len(delivered[r] \o got) = Len(delivered[r]) + Len(got)
        /\ \A i \in 1..Len(delivered[r]) : (delivered[r] \o got)[i] = delivered[r][i]
        /\ \A i \in 1..Len(got) : (delivered[r] \o got)[Len(delivered[r]) + i] = got[i]
    <3>1. \A x, y \in Seq(Unit) :
             /\ Len(x \o y) = Len(x) + Len(y)
             /\ \A i \in 1..Len(x) : (x \o y)[i] = x[i]
             /\ \A i \in 1..Len(y) : (x \o y)[Len(x) + i] = y[i]
      BY ConcatParts
    <3>2. delivered[r] \in Seq(Unit) /\ got \in Seq(Unit)
      BY <1>1, <1>11
    <3>. QED BY <3>1, <3>2
  <2>. QED BY <1>7, <1>11, <2>1
<1>13. CASE ccnt > 0
  <2>1. ccnt = nextBlockSize[r] /\ Ready(r)
    BY <1>2, <1>5, <1>13 DEF Ready
  <2>2. Place(r) \notin {"switch", "publish"}
    <3>1. Asked(r) # 1 /\ Asked(r) \in Nat
      BY <1>1, <2>1, FieldTypes DEF Handover, OneUnderWay
    <3>2. Place(r) # "publish" /\ ~Fetching(r)
      BY <1>1, <2>1, <3>1, FieldTypes DEF Handover, OneUnderWay
    <3>. QED BY <3>2 DEF Fetching
  <2>3. InFlight(r) = ccnt /\ InFlight(r)' = 0
    BY <1>1, <1>7, <1>8, <2>1, <2>2 DEF InFlight, Carried
  <2>4. Flagged(r)'
    <3>1. firstBlock[r] <=> Begins(r, nextBlock[r][b][1])
      BY <1>4, <1>13, <2>1 DEF Joining, Flagged
    <3>2. lastFirst'[r] <=> Begins(r, nextBlock'[r][held'[r]][1])
      BY <1>7, <1>13, <3>1
    <3>. QED BY <1>7, <1>8, <2>2, <3>2, ListStays DEF Flagged
  <2>5. JoinedSoFar(r)'
    <3>1. Len(delivered[r]) + ccnt = ReadSoFar(r)
      BY <1>4, <2>3 DEF Joining, JoinedSoFar
    <3>2. Len(delivered'[r]) <= Len(Joined(r))
      BY <1>1, <1>12, <3>1, SoFarBound
    <3>3. ASSUME NEW i \in 1..Len(delivered'[r])
          PROVE  delivered'[r][i] = Joined(r)[i]
      <4>1. CASE i \in 1..Len(delivered[r])
        BY <1>12, <4>1 DEF Joining, JoinedSoFar
      <4>2. CASE i \notin 1..Len(delivered[r])
        <5>. DEFINE j == i - Len(delivered[r])
        <5>1. j \in 1..ccnt /\ i = Len(delivered[r]) + j
          BY <1>1, <1>2, <1>12, <4>2
        <5>2. nextBlock[r][b][j] = Joined(r)[Len(delivered[r]) + j]
          BY <1>4, <2>3, <5>1 DEF Joining, JoinedSoFar
        <5>. QED BY <1>12, <5>1, <5>2
      <4>. QED BY <4>1, <4>2
    <3>4. Len(delivered'[r]) + InFlight(r)' = ReadSoFar(r)'
      BY <1>1, <1>2, <1>8, <1>12, <2>3, <3>1
    <3>. QED BY <1>7, <1>8, <2>2, <2>3, <3>2, <3>3, <3>4, ListStays DEF Joining, JoinedSoFar
  <2>. QED BY <1>7, <1>9, <1>10, <2>4, <2>5, ListStays DEF Joining
<1>14. CASE ccnt = 0
  <2>1. Done(r)' /\ held'[r] = NoBuf
    BY <1>1, <1>5, <1>6, <1>7, <1>14 DEF Done, Ready
  <2>2. Len(delivered'[r]) = Len(delivered[r])
    BY <1>1, <1>12, <1>14
  <2>3. Flagged(r)'
    BY <2>1 DEF Flagged
  <2>4. JoinedSoFar(r)'
    BY <1>7, <1>12, <2>1, <2>2, ListStays DEF Joining, JoinedSoFar
  <2>. QED BY <1>7, <1>9, <1>10, <2>3, <2>4, ListStays DEF Joining
<1>. QED BY <1>2, <1>13, <1>14

\* The calls on r that take nothing, and the calls on other readers.
LEMMA CallerJoin ==
  ASSUME HandoverInv, Calm, NEW r \in Readers, ~OneFile(r), Joining(r), Caller
  PROVE  Joining(r)'
<1>1. TypeOK /\ Handover(r) /\ QueueType
  BY JoiningTypes DEF TypeOK
<1>2. CASE OpenStream(r)
  BY <1>2, OpenJoin
<1>3. CASE ReadReset /\ r = cid
  BY <1>3, ResetJoin
<1>4. CASE IncSeek(r) \/ \E p \in GotoTargets : GotoByte(r, p)
  BY <1>1, <1>4 DEF IncSeek, GotoByte, Reading, Handover, OfList
<1>5. CASE /\ ~OpenStream(r) /\ ~(ReadReset /\ r = cid)
           /\ ~IncSeek(r) /\ ~\E p \in GotoTargets : GotoByte(r, p)
  <2>1. ASSUME NEW q \in Readers,
               \/ CreateReader(q) \/ ReadRequest(q) \/ Notify(q) \/ DeleteReader(q)
        PROVE  UNCHANGED <<JoinAt(r), tid, tbytes>> /\ opened \subseteq opened'
               /\ held'[r] \in {held[r], NoBuf}
    BY <1>1, <2>1 DEF CreateReader, ReadRequest, Notify, DeleteReader, Request, JoinAt,
       handVars, streamVars, threadVars, clientVars, TypeOK, ClientType
  <2>2. ASSUME NEW q \in Readers, q # r,
               OpenStream(q) \/ IncSeek(q) \/ \E p \in GotoTargets : GotoByte(q, p)
        PROVE  UNCHANGED <<JoinAt(r), tid, tbytes, held[r]>> /\ opened \subseteq opened'
    BY <1>1, <2>2 DEF OpenStream, IncSeek, GotoByte, JoinAt, handVars, streamVars,
       threadVars, clientVars, TypeOK, HandType, StreamType, DataType, ClientType
  <2>3. ASSUME ReadWait \/ ReadTake \/ (ReadReset /\ cid # r) \/ Terminate \/ PushStop \/ Join
        PROVE  UNCHANGED <<JoinAt(r), tid, tbytes, held[r]>> /\ opened \subseteq opened'
    BY <1>1, <2>3 DEF ReadWait, ReadTake, ReadReset, Terminate, PushStop, Join, JoinAt,
       handVars, streamVars, threadVars, clientVars, TypeOK, HandType, StreamType, DataType,
       ClientType
  <2>4. /\ UNCHANGED <<JoinAt(r), tid, tbytes>> /\ opened \subseteq opened'
        /\ held'[r] \in {held[r], NoBuf}
    BY <1>5, <2>1, <2>2, <2>3 DEF Caller, ReadReturn, End
  <2>5. UNCHANGED tpc \/ (tpc = "none" /\ tpc' = "loop")
    BY DEF Caller, ReadReturn, End, CreateReader, OpenStream, ReadRequest, Notify, IncSeek,
       DeleteReader, GotoByte, ReadWait, ReadTake, ReadReset, Terminate, PushStop, Join,
       threadVars
  <2>6. Place(r)' = Place(r)
    BY <2>4, <2>5 DEF Place, Serving
  <2>7. ASSUME itr[r] = NoItr PROVE Asked(r)' = Asked(r) /\ Place(r)' = "away"
    <3>1. ~ReadRequest(r) /\ ~Notify(r)
      BY <1>1, <2>7 DEF ReadRequest, Notify, Reading, Handover, OfList
    <3>2. \/ UNCHANGED readQueue
          \/ \E id \in (Readers \cup {StopId}) \ {r} : Push(id)
      <4>1. StopId \in (Readers \cup {StopId}) \ {r}
        BY ReaderAssumption
      <4>2. ASSUME NEW q \in Readers,
                   \/ CreateReader(q) \/ OpenStream(q) \/ ReadRequest(q) \/ Notify(q)
                   \/ IncSeek(q) \/ DeleteReader(q)
                   \/ \E p \in GotoTargets : GotoByte(q, p)
            PROVE  UNCHANGED readQueue \/ (Push(q) /\ q # r)
        BY <3>1, <4>2 DEF CreateReader, OpenStream, ReadRequest, Notify, IncSeek,
           DeleteReader, GotoByte, Request, queueVars
      <4>3. ASSUME ReadReturn \/ Terminate \/ Join PROVE UNCHANGED readQueue
        BY <4>3 DEF ReadReturn, ReadWait, ReadTake, ReadReset, Terminate, Join, queueVars
      <4>4. PushStop => Push(StopId)
        BY DEF PushStop, WakeThread
      <4>. QED BY <4>1, <4>2, <4>3, <4>4 DEF Caller, End
    <3>3. Queued(r)' = Queued(r)
      BY <1>1, <3>2, PushOther DEF Queued
    <3>. QED BY <2>6, <2>7, <3>3 DEF Asked, Fetching, Joining, NotStarted
  <2>. QED BY <2>4, <2>6, <2>7, JoinFrame DEF JoinAt
<1>. QED BY <1>2, <1>3, <1>4, <1>5

-----------------------------------------------------------------------------
\* The lists of files that are read here can all be joined.
Joinables == \A r \in Readers : OneFile(r) \/ Joinable(r)

\* Every step keeps every list in order.
LEMMA JoinStep ==
  ASSUME HandoverInv, Calm, Joinables, JoinInv, Next
  PROVE  JoinInv'
<1>. SUFFICES ASSUME NEW r \in Readers, ~OneFile(r) PROVE Joining(r)'
  BY DEF JoinInv, OneFile
<1>1. Joinable(r) /\ Joining(r)
  BY DEF Joinables, JoinInv
<1>2. CASE Thread
  BY <1>1, <1>2, ThreadJoin
<1>3. CASE Caller
  BY <1>1, <1>3, CallerJoin
<1>. QED BY <1>2, <1>3 DEF Next

LEMMA InitJoin == Calm /\ Init => JoinInv
<1>. SUFFICES ASSUME Calm, Init, NEW r \in Readers, ~OneFile(r) PROVE Joining(r)
  BY DEF JoinInv
<1>1. /\ itr[r] = NoItr /\ blockSize[r] = BlockSize /\ nextBlockSize[r] = 0 /\ ~eof[r]
      /\ lastRez[r] = "ok" /\ held[r] = NoBuf /\ delivered[r] = <<>> /\ filePos[r] = 0
      /\ base[r] = 0 /\ tpc = "none" /\ tbytes = 0 /\ readQueue = <<>>
  BY DEF Init
<1>2. Place(r) = "away" /\ ~Ready(r) /\ ~Done(r)
  BY <1>1 DEF Place, Serving, Ready, Done
<1>3. Asked(r) = 0
  <2>1. Occurrences(readQueue, r) = {}
    BY <1>1 DEF Occurrences
  <2>2. Queued(r) = 0
    BY <2>1, FS_EmptySet DEF Queued
  <2>. QED BY <1>2, <2>2 DEF Asked, Fetching
<1>4. ListTypes(r) /\ NoItr \notin 0..Files(r) /\ NoItr \notin 0..(Files(r) - 1)
  BY ListFacts DEF ListTypes, NoItr
<1>5. NotStarted(r)
  BY <1>1, <1>2, <1>3 DEF NotStarted
<1>6. OnFile(r) /\ PastFiles(r) /\ EndsWithList(r)
  BY <1>1, <1>4 DEF OnFile, PastFiles, EndsWithList, ListTypes, NoItr
<1>7. Flagged(r)
  BY <1>1, <1>2 DEF Flagged
<1>8. JoinedSoFar(r)
  <2>1. InFlight(r) = 0 /\ ReadSoFar(r) = 0
    BY <1>1, <1>2, <1>4 DEF InFlight, Carried, ReadSoFar
  <2>2. Len(delivered[r]) = 0 /\ Len(Joined(r)) \in Nat
    <3>1. Joined(r) \in Seq(Unit)
      BY JoinedParts
    <3>. QED BY <1>1, <3>1
  <2>. QED BY <1>1, <1>2, <2>1, <2>2 DEF JoinedSoFar
<1>. QED BY <1>1, <1>5, <1>6, <1>7, <1>8 DEF Joining

LEMMA JoinHolds == ASSUME Calm, Joinables PROVE Spec => [](HandoverInv /\ JoinInv)
<1>1. Init => JoinInv
  BY InitJoin
<1>2. HandoverInv /\ JoinInv /\ [Next]_vars => JoinInv'
  <2>1. ASSUME HandoverInv, JoinInv, Next PROVE JoinInv'
    BY <2>1, JoinStep
  <2>2. ASSUME JoinInv, UNCHANGED vars PROVE JoinInv'
    <3>. SUFFICES ASSUME NEW r \in Readers, ~OneFile(r) PROVE Joining(r)'
      BY DEF JoinInv, OneFile
    <3>1. UNCHANGED <<JoinAt(r), held[r], opened, tid, tpc, tbytes, readQueue>>
      BY <2>2 DEF vars, queueVars, handVars, streamVars, threadVars, clientVars, JoinAt
    <3>2. Place(r)' = Place(r) /\ Asked(r)' = Asked(r)
      BY <3>1 DEF Place, Asked, Fetching, Queued
    <3>3. Joining(r) /\ (itr[r] = NoItr => Place(r) = "away")
      BY <2>2 DEF JoinInv, Joining, NotStarted
    <3>. QED BY <3>1, <3>2, <3>3, JoinFrame DEF JoinAt
  <2>. QED BY <2>1, <2>2
<1>3. Spec => []HandoverInv
  BY HandoverHolds
<1>. QED BY <1>1, <1>2, <1>3, PTL DEF Spec

-----------------------------------------------------------------------------
\* The reader of one file never flags a block: m_lastBlock is not set, and
\* m_firstBlock, set when the file is opened, is reset by the first read.
Plain(r) ==
    /\ ~lastBlock[r]
    /\ Filled(r) \/ Ready(r) => ~firstBlock[r]
    /\ held[r] # NoBuf => ~lastFirst[r] /\ nextBlock[r][held[r]][1][1] = Name(r)
PlainInv == \A r \in Readers : OneFile(r) => Plain(r)

LEMMA PlainFrame ==
  ASSUME NEW r \in Readers, Plain(r),
         UNCHANGED <<lastBlock[r], firstBlock[r], lastFirst[r], nextBlock[r],
                     nextBlockSize[r]>>,
         held'[r] \in {held[r], NoBuf},
         \/ Place(r)' = Place(r) /\ UNCHANGED tbytes
         \/ Place(r)' # "publish"
  PROVE  Plain(r)'
BY DEF Plain, Filled, Ready, Name

PlainAt(r) == <<lastBlock[r], firstBlock[r], lastFirst[r], nextBlock[r], nextBlockSize[r]>>

LEMMA ThreadPlain ==
  ASSUME HandoverInv, StreamInv, NEW r \in Readers, OneFile(r), Plain(r), Thread
  PROVE  Plain(r)'
<1>1. /\ TypeOK /\ Handover(r) /\ UNCHANGED clientVars
      /\ filePos[r] \in Nat /\ blockSize[r] \in 1..BlockSize
      /\ nextBlock[r] \in [0..1 -> [1..BlockSize -> Unit]]
      /\ bufferIndex[r] \in 0..1 /\ tbuf \in 0..1 /\ held[r] \in 0..NoBuf
  <2>1. UNCHANGED clientVars
    BY DEF Thread, ThreadPop, ThreadGet, ThreadRead, ThreadStay, ThreadSwitch,
       ThreadReadNext, ThreadPublish, ThreadRelease, ThreadLoop
  <2>. QED BY <2>1, StreamTypes, FieldTypes DEF Bookkeeping
<1>2. CASE ThreadPop \/ ThreadGet \/ ThreadRelease \/ ThreadLoop
  <2>1. UNCHANGED PlainAt(r)
    BY <1>1, <1>2 DEF ThreadPop, ThreadGet, ThreadRelease, ThreadLoop, PlainAt, handVars,
       streamVars, clientVars
  <2>2. Place(r)' # "publish"
    BY <1>2 DEF ThreadPop, ThreadGet, ThreadRelease, ThreadLoop, Place, Serving
  <2>. QED BY <1>1, <2>1, <2>2, PlainFrame DEF PlainAt, clientVars
<1>3. CASE /\ ThreadRead \/ ThreadStay \/ ThreadSwitch \/ ThreadReadNext \/ ThreadPublish
           /\ r # tid
  <2>1. UNCHANGED PlainAt(r)
    BY <1>1, <1>3 DEF ThreadRead, ThreadStay, ThreadSwitch, ThreadReadNext, ThreadPublish,
       ReadInto, GoPublish, PlainAt, handVars, streamVars, clientVars, TypeOK, HandType,
       StreamType, DataType
  <2>2. Place(r)' # "publish"
    BY <1>3 DEF ThreadRead, ThreadStay, ThreadSwitch, ThreadReadNext, ThreadPublish, Place
  <2>. QED BY <1>1, <2>1, <2>2, PlainFrame DEF PlainAt, clientVars
<1>4. CASE ThreadRead /\ r = tid
  <2>1. /\ UNCHANGED <<lastBlock, firstBlock, lastFirst, nextBlockSize, held>>
        /\ Place(r) = "read" /\ Place(r)' = "switch"
    BY <1>4 DEF ThreadRead, handVars, clientVars, Place, Serving
  <2>2. nextBlock'[r][1 - tbuf] = nextBlock[r][1 - tbuf]
    <3>1. ReadInto(blockSize[r])
      BY <1>4 DEF ThreadRead
    <3>. QED BY <1>1, <1>4, <3>1, ReadIntoFacts
  <2>3. held[r] # NoBuf => held[r] = 1 - tbuf
    BY <1>1, <2>1 DEF Handover, Buffers
  <2>. QED BY <2>1, <2>2, <2>3 DEF Plain, Filled, Ready, Name
<1>5. CASE ThreadStay /\ r = tid
  <2>1. /\ UNCHANGED <<lastFirst, nextBlock, nextBlockSize, held, tbytes>>
        /\ ~lastBlock'[r] /\ ~firstBlock'[r]
    BY <1>1, <1>5 DEF ThreadStay, clientVars, FirstAfterRead, TypeOK, StreamType, Plain
  <2>. QED BY <2>1 DEF Plain, Name
<1>6. CASE ThreadPublish /\ r = tid
  <2>1. /\ UNCHANGED <<lastBlock, firstBlock, lastFirst, nextBlock, held>>
        /\ nextBlockSize'[r] = tbytes /\ Place(r) = "publish" /\ Place(r)' = "release"
    BY <1>1, <1>6 DEF ThreadPublish, streamVars, clientVars, TypeOK, HandType, Place, Serving
  <2>. QED BY <2>1 DEF Plain, Filled, Ready, Name
<1>7. CASE (ThreadSwitch \/ ThreadReadNext) /\ r = tid
  BY <1>1, <1>7 DEF ThreadSwitch, ThreadReadNext, Handover, OfOne, Place, Serving
<1>. QED BY <1>2, <1>3, <1>4, <1>5, <1>6, <1>7 DEF Thread

LEMMA CallerPlain ==
  ASSUME HandoverInv, StreamInv, NEW r \in Readers, OneFile(r), Plain(r), Caller
  PROVE  Plain(r)'
<1>1. /\ TypeOK /\ Handover(r) /\ Streaming(r) /\ Bookkeeping
      /\ nextBlockSize[r] \in 0..BlockSize /\ Carried(r) \in 0..BlockSize
      /\ Got(r) \in Nat /\ BlockSize \in Nat
  BY StreamTypes DEF Bookkeeping
<1>2. /\ UNCHANGED <<tid, tbytes>>
      /\ UNCHANGED tpc \/ (tpc = "none" /\ tpc' = "loop")
      /\ UNCHANGED nextBlock /\ (UNCHANGED nextBlockSize \/ ReadReset)
  BY DEF Caller, ReadReturn, End, CreateReader, OpenStream, ReadRequest, Notify, IncSeek,
     DeleteReader, GotoByte, ReadWait, ReadTake, ReadReset, Terminate, PushStop, Join,
     handVars, threadVars
<1>3. Place(r)' = Place(r) /\ Filled(r)' = Filled(r)
  BY <1>2 DEF Place, Serving, Filled
<1>4. CASE OpenStream(r)
  <2>1. ~Loaded(r) /\ held[r] = NoBuf
    BY <1>1, <1>4 DEF OpenStream, Handover, Untouched
  <2>2. held' = held /\ ~lastBlock'[r] /\ UNCHANGED nextBlockSize
    BY <1>1, <1>4 DEF OpenStream, TypeOK, StreamType, handVars
  <2>. QED BY <1>3, <2>1, <2>2 DEF Plain, Loaded, Ready
<1>5. CASE ReadReset /\ r = cid
  <2>. DEFINE b == bufferIndex[r]
  <2>1. Calling(r) = "reset" /\ ccnt \in 0..BlockSize
    BY <1>1, <1>5, FieldTypes DEF ReadReset, Calling
  <2>2. ccnt # 0 => ccnt = nextBlockSize[r] /\ Ready(r)
    BY <1>1, <2>1 DEF Handover, InCall, Ready
  <2>3. /\ UNCHANGED <<lastBlock, firstBlock, nextBlock>>
        /\ nextBlockSize'[r] = 0 /\ lastFirst'[r] = firstBlock[r]
        /\ held'[r] = IF ccnt > 0 THEN b ELSE NoBuf
    BY <1>1, <1>5 DEF ReadReset, TypeOK, HandType, ClientType, streamVars
  <2>4. ccnt > 0 => nextBlock[r][b][1] = <<Name(r), Got(r) + 1>>
    <3>. SUFFICES ASSUME ccnt > 0 PROVE 1 \in 1..InFlight(r)
      BY <1>1 DEF Streaming, Contents
    <3>. QED BY <1>1, <2>1, <2>2 DEF InFlight
  <2>5. Filled(r) => ~Filled(r)' \/ ~firstBlock[r]
    BY DEF Plain
  <2>. QED BY <1>3, <2>1, <2>2, <2>3, <2>4, <2>5 DEF Plain, Ready, Name
<1>6. CASE ~OpenStream(r) /\ ~(ReadReset /\ r = cid)
  <2>1. ASSUME NEW q \in Readers,
               \/ CreateReader(q) \/ ReadRequest(q) \/ Notify(q) \/ DeleteReader(q)
               \/ (OpenStream(q) /\ q # r) \/ IncSeek(q)
               \/ \E p \in GotoTargets : GotoByte(q, p)
        PROVE  UNCHANGED PlainAt(r) /\ held'[r] \in {held[r], NoBuf}
    BY <1>1, <2>1 DEF CreateReader, ReadRequest, Notify, DeleteReader, Request, OpenStream,
       IncSeek, GotoByte, PlainAt, handVars, streamVars, clientVars, TypeOK, StreamType,
       ClientType
  <2>2. ASSUME ReadWait \/ ReadTake \/ (ReadReset /\ cid # r) \/ Terminate \/ PushStop \/ Join
        PROVE  UNCHANGED <<PlainAt(r), held[r]>>
    BY <1>1, <2>2 DEF ReadWait, ReadTake, ReadReset, Terminate, PushStop, Join, PlainAt,
       handVars, streamVars, clientVars, TypeOK, HandType, ClientType
  <2>3. UNCHANGED PlainAt(r) /\ held'[r] \in {held[r], NoBuf}
    BY <1>6, <2>1, <2>2 DEF Caller, ReadReturn, End
  <2>. QED BY <1>2, <1>3, <2>3, PlainFrame DEF PlainAt
<1>. QED BY <1>4, <1>5, <1>6

LEMMA PlainHolds ==
  ASSUME Calm PROVE Spec => [](HandoverInv /\ StreamInv /\ PlainInv)
<1>1. Init => PlainInv
  <2>. SUFFICES ASSUME Init, NEW r \in Readers PROVE Plain(r)
    BY DEF PlainInv
  <2>1. Place(r) = "away"
    BY DEF Init, Place, Serving
  <2>. QED BY <2>1 DEF Init, Plain, Filled, Ready
<1>2. HandoverInv /\ StreamInv /\ PlainInv /\ [Next]_vars => PlainInv'
  <2>1. ASSUME HandoverInv, StreamInv, PlainInv, Next PROVE PlainInv'
    <3>. SUFFICES ASSUME NEW r \in Readers, OneFile(r) PROVE Plain(r)'
      BY DEF PlainInv, OneFile
    <3>1. Plain(r)
      BY <2>1 DEF PlainInv
    <3>. QED BY <2>1, <3>1, ThreadPlain, CallerPlain DEF Next
  <2>2. ASSUME PlainInv, UNCHANGED vars PROVE PlainInv'
    <3>. SUFFICES ASSUME NEW r \in Readers, OneFile(r) PROVE Plain(r)'
      BY DEF PlainInv, OneFile
    <3>1. UNCHANGED <<PlainAt(r), held[r], tid, tpc, tbytes>>
      BY <2>2 DEF vars, handVars, streamVars, threadVars, clientVars, PlainAt
    <3>2. Place(r)' = Place(r)
      BY <3>1 DEF Place
    <3>. QED BY <2>2, <3>1, <3>2, PlainFrame DEF PlainInv, PlainAt
  <2>. QED BY <2>1, <2>2
<1>3. Spec => [](HandoverInv /\ StreamInv)
  BY StreamHolds
<1>. QED BY <1>1, <1>2, <1>3, PTL DEF Spec

-----------------------------------------------------------------------------
\* What every caller of a calm reader of one file, or of a list that can be
\* joined, got is the start of its stream from the position it last moved to:
\* nothing lost, repeated or out of order, whichever thread runs when, wherever
\* in a block a file ends, and however many files are joined.
THEOREM InOrderDelivery ==
  ASSUME Calm, Joinables
  PROVE  Spec => []DeliveredInOrder
<1>1. ASSUME HandoverInv, StreamInv, JoinInv, NEW r \in Readers
      PROVE  IsPrefix(delivered[r], SubSeq(Joined(r), base[r] + 1, Len(Joined(r))))
  <2>1. CASE OneFile(r)
    <3>1. Streaming(r) /\ base[r] \in Nat /\ Len(delivered[r]) \in Nat /\ SizeOf(r) \in Nat
          /\ delivered[r] \in Seq(Unit)
      BY <1>1, <2>1, StreamTypes
    <3>2. delivered[r] = <<>> \/ base[r] + Len(delivered[r]) <= SizeOf(r)
      BY <3>1 DEF Streaming, Within, Got
    <3>. DEFINE file == Joined(r)
    <3>3. /\ file \in Seq(Unit) /\ Len(file) = SizeOf(r)
          /\ \A i \in 1..SizeOf(r) : file[i] = <<Name(r), i>>
      BY <2>1, JoinedOne, JoinedParts
    <3>4. \A i \in 1..Len(delivered[r]) : delivered[r][i] = file[base[r] + i]
      <4>. SUFFICES ASSUME NEW i \in 1..Len(delivered[r])
                    PROVE  delivered[r][i] = file[base[r] + i]
        OBVIOUS
      <4>1. base[r] + i \in 1..SizeOf(r)
        BY <3>1, <3>2
      <4>. QED BY <3>1, <3>3, <4>1 DEF Streaming, InOrder
    <3>5. Len(delivered[r]) = 0 \/ base[r] + Len(delivered[r]) <= Len(file)
      BY <3>2, <3>3
    <3>. HIDE DEF file
    <3>6. IsPrefix(delivered[r], SubSeq(file, base[r] + 1, Len(file)))
      BY <3>1, <3>3, <3>4, <3>5, PrefixParts
    <3>. QED BY <3>6 DEF file
  <2>2. CASE ~OneFile(r)
    <3>1. Joining(r) /\ base[r] = 0
      BY <1>1, <2>2 DEF JoinInv, Joining, JoinedSoFar
    <3>. DEFINE file == Joined(r)
    <3>2. /\ delivered[r] \in Seq(Unit) /\ file \in Seq(Unit)
          /\ Len(delivered[r]) \in Nat
          /\ Len(delivered[r]) <= Len(file)
          /\ \A i \in 1..Len(delivered[r]) : delivered[r][i] = file[i]
      BY <1>1, <2>2, <3>1, JoiningTypes DEF Joining, JoinedSoFar
    <3>3. \A i \in 1..Len(delivered[r]) : delivered[r][i] = file[0 + i]
      BY <3>2
    <3>. HIDE DEF file
    <3>4. 0 \in Nat /\ 0 + Len(delivered[r]) <= Len(file)
      BY <3>2
    <3>5. IsPrefix(delivered[r], SubSeq(file, 0 + 1, Len(file)))
      BY <3>2, <3>3, <3>4, PrefixParts
    <3>. QED BY <3>1, <3>5 DEF file
  <2>. QED BY <2>1, <2>2
<1>2. HandoverInv /\ StreamInv /\ JoinInv => DeliveredInOrder
  BY <1>1 DEF DeliveredInOrder
<1>. QED BY <1>2, StreamHolds, JoinHolds, PTL

\* The reader of a list does not report DATA_EOF while a file of the list was
\* not opened, and flags exactly the blocks that begin the second or a later
\* file: TSDemuxer shifts its time stamps on that flag.
THEOREM JoinedRight ==
  ASSUME Calm, Joinables
  PROVE  Spec => []JoinedFiles
<1>1. ASSUME HandoverInv, StreamInv, PlainInv, JoinInv, NEW r \in Readers
      PROVE  /\ lastRez[r] = "eof" /\ itr[r] # NoItr => itr[r] >= Len(FileList[r])
             /\ held[r] # NoBuf => LET u == nextBlock[r][held[r]][1] IN
                  lastFirst[r] <=> (u[2] = 1 /\ u[1] # FileList[r][1])
  <2>1. CASE OneFile(r)
    <3>1. Plain(r) /\ itr[r] = NoItr
      BY <1>1, <2>1 DEF PlainInv, HandoverInv, Handover, OfOne
    <3>. QED BY <3>1 DEF Plain, Name
  <2>2. CASE ~OneFile(r)
    <3>1. Joining(r) /\ Handover(r) /\ ListTypes(r)
      BY <1>1, <2>2, ListFacts DEF JoinInv, HandoverInv
    <3>2. lastRez[r] = "eof" => eof[r]
      BY <3>1 DEF Handover, Notified, Done
    <3>3. lastRez[r] = "eof" => itr[r] = Files(r)
      BY <3>1, <3>2 DEF Joining, EndsWithList
    <3>4. held[r] # NoBuf => (lastFirst[r] <=> Begins(r, nextBlock[r][held[r]][1]))
      BY <3>1 DEF Joining, Flagged
    <3>. QED BY <3>1, <3>3, <3>4 DEF Begins, File, Files, ListTypes
  <2>. QED BY <2>1, <2>2
<1>2. HandoverInv /\ StreamInv /\ PlainInv /\ JoinInv => JoinedFiles
  BY <1>1 DEF JoinedFiles, EofAfterLastFile, FirstBlockFlag
<1>. QED BY <1>2, PlainHolds, JoinHolds, PTL
=============================================================================
