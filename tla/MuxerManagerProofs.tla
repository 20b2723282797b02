------------------------- MODULE MuxerManagerProofs -------------------------
(***************************************************************************)
(* What holds of the output side for every set of modes and every limit:   *)
(* no thread writes to a file that is closed, rounds of interleaved blocks *)
(* start with the side muxer's, no file takes the name of another, and the *)
(* assertions of the code hold.  The proof follows the operations of the   *)
(* muxing thread on its record and the plan of what to do to the files.    *)
(***************************************************************************)
EXTENDS MuxerManager, FiniteSetTheorems, SequenceTheorems, TLAPS

\* What the muxing thread can do to the files.
OpSpace ==
    [op : {"write", "direct", "append"}, arg : BlockSpace]
      \cup [op : {"close", "reopen"}, arg : Objects]
      \cup [op : {"open"}, arg : [obj : Objects, mux : Muxers, name : Nat]]
      \cup [op : {"wait", "destroy"}, arg : {0}]

\* The record of the muxing thread, with its plan.
MuxSpace ==
    [ muxFile : [Muxers -> Objects], objects : Objects,
      orig : [Muxers -> Nat], num : [Muxers -> Nat],
      name : [Muxers -> Nat], started : [Muxers -> BOOLEAN],
      size : [Muxers -> Nat], held : [Muxers -> Seq(BlockSpace)],
      rest : [Muxers -> BOOLEAN], buffer : [Muxers -> BOOLEAN],
      delayed : Seq(BlockSpace), finished : [Muxers -> BOOLEAN],
      round : Nat, packets : 0..MaxPackets, made : Seq(BlockSpace),
      asserts : SUBSET {"sync interleave", "buffer handed over", "next file"},
      plan : Seq(OpSpace) ]

FileSpace == [Objects -> [state : {"none", "open", "closed", "deleted"},
                          mux : Muxers, name : Nat]]

-----------------------------------------------------------------------------
(* A plan p, carried out from files f; d says that nothing is left to the  *)
(* writer thread.                                                          *)

Writes(x) == x.op \in {"write", "direct", "append"}
Opens(x, o) == (x.op = "reopen" /\ x.arg = o) \/ (x.op = "open" /\ x.arg.obj = o)
Closes(x, o) == x.op = "close" /\ x.arg = o

\* After the first n operations file o is open; it has been opened; the writer
\* thread has nothing to write.
OpenAfter(f, p, n, o) ==
    \E k \in 0..n : /\ IF k = 0 THEN f[o].state = "open" ELSE Opens(p[k], o)
                    /\ \A j \in (k + 1)..n : ~Closes(p[j], o)
KnownAfter(f, p, n, o) ==
    f[o].state # "none" \/ \E k \in 1..n : p[k].op = "open" /\ p[k].arg.obj = o
Waited(d, p, n) ==
    \E k \in 0..n : /\ IF k = 0 THEN d ELSE p[k].op = "wait"
                    /\ \A j \in (k + 1)..n : p[j].op # "write"

\* Every write finds its file open, and a file is closed when nothing is left
\* to be written.
PlanOk(f, d, p) ==
    \A n \in 1..Len(p) :
        /\ Writes(p[n]) => OpenAfter(f, p, n - 1, p[n].arg.file)
        /\ p[n].op = "close" => Waited(d, p, n - 1)
        /\ p[n].op \in {"close", "reopen"} => KnownAfter(f, p, n - 1, p[n].arg)

\* The files a plan opens are new and have higher names than those before; objs
\* and names are the number of files and the names when it is carried out.
Parity(m, k) == (mode.stereo /\ ~mode.joined) => k % 2 = (IF m = "sub" THEN 1 ELSE 0)
Owner(m) == m \in Active /\ (mode.joined => m = "main")
OpensNew(f, p, objs, names) ==
    /\ \A o \in Objects : f[o].state # "none" => o <= objs /\ f[o].name <= names[f[o].mux]
    /\ \A n \in 1..Len(p) : p[n].op = "open" =>
         /\ p[n].arg.obj <= objs /\ f[p[n].arg.obj].state = "none"
         /\ p[n].arg.name <= names[p[n].arg.mux]
         /\ Owner(p[n].arg.mux) /\ Parity(p[n].arg.mux, p[n].arg.name)
         /\ \A o \in Objects : f[o].state # "none" /\ f[o].mux = p[n].arg.mux => f[o].name < p[n].arg.name
    /\ \A k, n \in 1..Len(p) : k < n /\ p[k].op = "open" /\ p[n].op = "open" =>
         /\ p[k].arg.obj # p[n].arg.obj
         /\ p[k].arg.mux = p[n].arg.mux => p[k].arg.name < p[n].arg.name

\* A muxer's file is open when the plan is carried out; without the writer
\* thread nothing is left to it.
HasFile(f, p, o) == OpenAfter(f, p, Len(p), o) /\ KnownAfter(f, p, Len(p), o)
GoodPlan(f, d, p, v) ==
    /\ PlanOk(f, d, p)
    /\ \A m \in Active : HasFile(f, p, v.muxFile[m])
    /\ ~mode.async => d /\ \A n \in 1..Len(p) : p[n].op # "write"
    /\ OpensNew(f, p, v.objects, v.name)

\* The blocks that are written are in order, and their ranks within these.
RankedPlan(p, low, high) ==
    /\ \A n \in 1..Len(p) : p[n].op = "write" => low <= Rank(p[n].arg) /\ Rank(p[n].arg) <= high
    /\ \A k, n \in 1..Len(p) : k < n /\ p[k].op = "write" /\ p[n].op = "write"
                                 => Rank(p[k].arg) <= Rank(p[n].arg)
-----------------------------------------------------------------------------
(* The record s of the muxing thread while a packet is muxed.              *)

\* The muxer that ends blocks, and the other one.
First == IF mode.stereo /\ mode.subFirst THEN "sub" ELSE "main"
Second == Sibling(First)

Drained == cpc = "wait" \/ (queue = <<>> /\ cpc # "add")

\* Blocks kept for muxer m go to the file it has, in the round that goes on.
KeptFor(s, m, bs) == \A i \in 1..Len(bs) :
                        /\ bs[i].file = s.muxFile[m] /\ bs[i].mux = m
                        /\ bs[i].round = s.round
Kept(s) == /\ \A m \in Muxers : KeptFor(s, m, s.held[m])
           /\ KeptFor(s, "main", s.delayed)
           /\ ~mode.interleave \/ ~mode.async => s.delayed = <<>>

\* Nothing is kept for a muxer that has not begun.
Fresh(s) == /\ \A m \in Muxers : ~s.started[m] => s.held[m] = <<>>
            /\ ~s.started["main"] => s.delayed = <<>>

Asserted(s) == mode.async \/ ~mode.m2ts => s.asserts = {}

\* Names: even and odd ones for the two muxers, increasing.
Numbered(s) ==
    \A m \in Muxers :
        /\ s.orig[m] = (IF m = "sub" THEN 1 ELSE 0)
        /\ mode.bluray => s.name[m] = s.orig[m] + s.num[m] - 1
        /\ ~mode.bluray => s.name[m] = s.num[m]
        /\ Parity(m, s.name[m])

\* No two muxers share a file that both can change.
Apart(s) == mode.stereo /\ ~mode.joined => s.muxFile["main"] # s.muxFile["sub"]

Steady(s) == Kept(s) /\ Asserted(s) /\ Numbered(s) /\ Apart(s)

Sound(s) == /\ s \in MuxSpace /\ Steady(s)
            /\ GoodPlan(file, Drained, s.plan, s)
            /\ mode.interleave => RankedPlan(s.plan, 2 * mux.round, 2 * s.round)
            /\ mux.round \in 0..s.round
            /\ mode.m2ts => \A m \in Muxers : ~s.rest[m]

\* The ways to mux for which the code is right.  The others split a file that two
\* muxers share (two files get one name, see the run mux_split_ssif) or an image
\* whose main muxer ends the blocks (what is held back goes to the file that was
\* closed, see mux_split_image).
CleanSplits == \A m \in Modes : m.split => ~m.joined /\ (m.interleave => m.subFirst)

-----------------------------------------------------------------------------
(* The invariant.                                                          *)

WP == INSTANCE BufferedFileWriterProofs
        WITH Files <- Objects, Blocks <- BlockSpace,
             Outcomes <- {"ok", "short", "throws"}, MaxBlocks <- 1000

\* The muxing thread has not left doMux for the destructors.
Muxing == cpc \in {"idle", "add", "wait"}

\* What the writer still has to write goes to open files.
Pending == /\ \A i \in 1..Len(queue) : queue[i] # Stop => IsOpen(queue[i].file)
           /\ cpc = "add" => IsOpen(cblock.file)

\* What is handed over, or being handed over, is in order; and what is going
\* to be.
Given == IF cpc = "add" THEN Append(accepted, cblock) ELSE accepted
InOrder(q) == \A i, j \in 1..Len(q) : i < j => Rank(q[i]) <= Rank(q[j])
Follow(p, q) == \A n \in 1..Len(p), i \in 1..Len(q) :
                   p[n].op = "write" => Rank(q[i]) <= Rank(p[n].arg)
UpTo(p, q, r) == /\ \A n \in 1..Len(p) : p[n].op = "write" => Rank(p[n].arg) <= r
                 /\ \A i \in 1..Len(q) : Rank(q[i]) <= r
InRounds == mode.interleave =>
    /\ InOrder(Given)
    /\ Muxing => Follow(todo, Given)
    /\ Muxing => \A k, n \in 1..Len(todo) : k < n /\ todo[k].op = "write" /\ todo[n].op = "write"
                                         => Rank(todo[k].arg) <= Rank(todo[n].arg)
    /\ Muxing /\ phase = "mux" => UpTo(todo, Given, 2 * mux.round)

\* Between two packets the second muxer has not finished a block.
Rested == /\ mux.plan = <<>> /\ ~mux.finished[Second]
          /\ phase = "mux" => Fresh(mux) /\ Kept(mux) /\ Apart(mux) /\ \A m \in Muxers : ~mux.rest[m]

NamesRise == \A o, q \in Objects :
    file[o].state # "none" =>
      /\ Owner(file[o].mux) /\ Parity(file[o].mux, file[o].name)
      /\ file[q].state # "none" /\ o # q /\ file[o].mux = file[q].mux => file[o].name # file[q].name

MuxInv ==
    /\ mode \in Modes /\ todo \in Seq(OpSpace) /\ file \in FileSpace
    /\ phase \in {"mux", "end", "failed", "complete", "over"}
    /\ mux \in MuxSpace /\ Rested
    /\ WP!Bookkeeping
    /\ Muxing => PlanOk(file, Drained, todo) /\ OpensNew(file, todo, mux.objects, mux.name)
    /\ Muxing /\ phase = "mux" => GoodPlan(file, Drained, todo, mux)
    /\ Numbered(mux) /\ Asserted(mux) /\ NamesRise
    /\ Pending /\ InRounds

-----------------------------------------------------------------------------
(* Plans.                                                                  *)

LEMMA ModeFacts ==
  ASSUME mode \in Modes
  PROVE  /\ mode.stereo \in BOOLEAN /\ mode.joined \in BOOLEAN
         /\ mode.interleave \in BOOLEAN /\ mode.subFirst \in BOOLEAN
         /\ mode.async \in BOOLEAN /\ mode.m2ts \in BOOLEAN /\ mode.split \in BOOLEAN
         /\ mode.bluray \in BOOLEAN /\ mode.diskMayFail \in BOOLEAN
         /\ mode.interleave => mode.stereo
         /\ mode.joined => mode.interleave /\ ~mode.bluray
         /\ mode.stereo => mode.m2ts /\ (mode.joined \/ mode.bluray)
         /\ mode.bluray => mode.m2ts
         /\ Active \subseteq Muxers /\ "main" \in Active
         /\ mode.stereo => Active = Muxers
         /\ First \in Active /\ (mode.stereo => Second \in Active)
         /\ First \in Muxers /\ Second \in Muxers /\ First # Second
         /\ Muxers = {First, Second}
  BY ModesAssumption DEF ModeSpace, Active, Muxers, First, Second, Sibling

\* Where two plans are joined.
LEMMA Joining ==
  ASSUME NEW p \in Seq(OpSpace), NEW q \in Seq(OpSpace)
  PROVE  /\ p \o q \in Seq(OpSpace) /\ Len(p \o q) = Len(p) + Len(q)
         /\ Len(p) \in Nat /\ Len(q) \in Nat
         /\ \A n \in 1..Len(p) : (p \o q)[n] = p[n]
         /\ \A n \in 1..Len(q) : (p \o q)[Len(p) + n] = q[n]
         /\ \A n \in 1..Len(p) + Len(q) : n > Len(p) => /\ n - Len(p) \in 1..Len(q)
                                                       /\ (p \o q)[n] = q[n - Len(p)]
<1>. DEFINE U == OpSpace
<1>. HIDE DEF U
<1>1. p \in Seq(U) /\ q \in Seq(U)
  BY DEF U
<1>2. p \o q \in Seq(U) /\ Len(p \o q) = Len(p) + Len(q) /\ Len(p) \in Nat /\ Len(q) \in Nat
  BY <1>1
<1>3. \A n \in 1..Len(p) : (p \o q)[n] = p[n]
  BY <1>1
<1>4. \A n \in 1..Len(p) + Len(q) : n > Len(p) => (p \o q)[n] = q[n - Len(p)]
  BY <1>1
<1>5. \A n \in 1..Len(q) : Len(p) + n \in 1..Len(p) + Len(q) /\ Len(p) + n > Len(p)
                           /\ Len(p) + n - Len(p) = n
  BY <1>2
<1>6. \A n \in 1..Len(p) + Len(q) : n > Len(p) => n - Len(p) \in 1..Len(q)
  BY <1>2
<1>. QED BY <1>2, <1>3, <1>4, <1>5, <1>6 DEF U

\* What held after a part of a plan holds after that part of a longer one.
LEMMA SamePart ==
  ASSUME NEW f, NEW d, NEW p, NEW q, NEW n \in Nat, \A j \in 1..n : q[j] = p[j]
  PROVE  /\ \A o : OpenAfter(f, p, n, o) => OpenAfter(f, q, n, o)
         /\ \A o : KnownAfter(f, p, n, o) => KnownAfter(f, q, n, o)
         /\ Waited(d, p, n) => Waited(d, q, n)
<1>1. \A k \in 0..n : (k # 0 => k \in 1..n) /\ \A j \in (k + 1)..n : j \in 1..n
  OBVIOUS
<1>. QED BY <1>1 DEF OpenAfter, KnownAfter, Waited

\* A file stays open while nothing closes it, and the writer done while
\* nothing is written.
LEMMA LongerPart ==
  ASSUME NEW f, NEW d, NEW p, NEW n \in Nat, NEW l \in Nat, n <= l
  PROVE  /\ \A o : OpenAfter(f, p, n, o) /\ (\A j \in (n + 1)..l : ~Closes(p[j], o))
                     => OpenAfter(f, p, l, o)
         /\ \A o : KnownAfter(f, p, n, o) => KnownAfter(f, p, l, o)
         /\ Waited(d, p, n) /\ (\A j \in (n + 1)..l : p[j].op # "write") => Waited(d, p, l)
<1>1. \A k \in 0..n : k \in 0..l /\ \A j \in (k + 1)..l : j \in (k + 1)..n \/ j \in (n + 1)..l
  OBVIOUS
<1>. QED BY <1>1 DEF OpenAfter, KnownAfter, Waited

\* The plan q is p with operation x.
More(f, d, p, x, q) ==
    /\ PlanOk(f, d, q) /\ q \in Seq(OpSpace) /\ Len(q) = Len(p) + 1
    /\ \A o : OpenAfter(f, p, Len(p), o) /\ ~Closes(x, o) => OpenAfter(f, q, Len(q), o)
    /\ \A o : Opens(x, o) => OpenAfter(f, q, Len(q), o)
    /\ \A o : KnownAfter(f, p, Len(p), o) \/ (x.op = "open" /\ x.arg.obj = o)
                => KnownAfter(f, q, Len(q), o)
    /\ Waited(d, p, Len(p)) /\ x.op # "write" => Waited(d, q, Len(q))
    /\ x.op = "wait" => Waited(d, q, Len(q))
    /\ \A n \in 1..Len(q) : \/ n \in 1..Len(p) /\ q[n] = p[n]
                            \/ n = Len(p) + 1 /\ q[n] = x

LEMMA OneMore ==
  ASSUME NEW f, NEW d, NEW p \in Seq(OpSpace), PlanOk(f, d, p), NEW x \in OpSpace,
         Writes(x) => OpenAfter(f, p, Len(p), x.arg.file),
         x.op = "close" => Waited(d, p, Len(p)),
         x.op \in {"close", "reopen"} => KnownAfter(f, p, Len(p), x.arg)
  PROVE  More(f, d, p, x, p \o <<x>>)
<1>. DEFINE q == p \o <<x>>
            l == Len(p)
<1>1. /\ q \in Seq(OpSpace) /\ Len(q) = l + 1 /\ l \in Nat
      /\ \A j \in 1..l : q[j] = p[j]
      /\ q[l + 1] = x
  <2>1. <<x>> \in Seq(OpSpace) /\ Len(<<x>>) = 1 /\ <<x>>[1] = x /\ 1 \in 1..1
    OBVIOUS
  <2>. QED BY <2>1, Joining
<1>. HIDE DEF q
<1>2. \A n \in 1..Len(q) : n \in 1..l \/ n = l + 1
  BY <1>1
<1>3. ASSUME NEW n \in Nat, n <= l
      PROVE  /\ \A o : OpenAfter(f, p, n, o) => OpenAfter(f, q, n, o)
             /\ \A o : KnownAfter(f, p, n, o) => KnownAfter(f, q, n, o)
             /\ Waited(d, p, n) => Waited(d, q, n)
  <2>1. \A j \in 1..n : q[j] = p[j]
    BY <1>1, <1>3
  <2>. QED BY <2>1, SamePart
<1>4. PlanOk(f, d, q)
  <2>. SUFFICES ASSUME NEW n \in 1..Len(q)
                PROVE  /\ Writes(q[n]) => OpenAfter(f, q, n - 1, q[n].arg.file)
                       /\ q[n].op = "close" => Waited(d, q, n - 1)
                       /\ q[n].op \in {"close", "reopen"} => KnownAfter(f, q, n - 1, q[n].arg)
    BY DEF PlanOk
  <2>1. CASE n \in 1..l
    <3>1. n - 1 \in Nat /\ n - 1 <= l
      BY <1>1, <2>1
    <3>. QED BY <1>1, <1>3, <2>1, <3>1 DEF PlanOk
  <2>2. CASE n = l + 1
    <3>1. n - 1 = l
      BY <1>1, <2>2
    <3>. QED BY <1>1, <1>3, <2>2, <3>1
  <2>. QED BY <1>2, <2>1, <2>2
<1>5. \A j \in (l + 1)..(l + 1) : q[j] = x
  BY <1>1
<1>6. \A o : OpenAfter(f, p, l, o) /\ ~Closes(x, o) => OpenAfter(f, q, l + 1, o)
  BY <1>1, <1>3, <1>5, LongerPart
<1>7. Waited(d, p, l) /\ x.op # "write" => Waited(d, q, l + 1)
  BY <1>1, <1>3, <1>5, LongerPart
<1>8. l + 1 \in 0..(l + 1) /\ l + 1 # 0 /\ \A j : j \notin (l + 1 + 1)..(l + 1)
  BY <1>1
<1>9. \A o : Opens(x, o) => OpenAfter(f, q, l + 1, o)
  BY <1>1, <1>8 DEF OpenAfter
<1>10. x.op = "wait" => Waited(d, q, l + 1)
  BY <1>1, <1>8 DEF Waited
<1>11. \A o : KnownAfter(f, p, l, o) => KnownAfter(f, q, l + 1, o)
  BY <1>1, <1>3, LongerPart
<1>12. \A o : x.op = "open" /\ x.arg.obj = o => KnownAfter(f, q, l + 1, o)
  <2>1. l + 1 \in 1..(l + 1)
    BY <1>1
  <2>. QED BY <1>1, <2>1 DEF KnownAfter
<1>13. More(f, d, p, x, q)
  BY <1>1, <1>2, <1>4, <1>6, <1>7, <1>9, <1>10, <1>11, <1>12 DEF More
<1>. QED BY <1>13 DEF q

\* The operations on some blocks.
LEMMA EachOps ==
  ASSUME NEW w \in {"write", "direct", "append"}, NEW bs \in Seq(BlockSpace)
  PROVE  /\ Each(w, bs) \in Seq(OpSpace) /\ Len(Each(w, bs)) = Len(bs) /\ Len(bs) \in Nat
         /\ \A n \in 1..Len(bs) : /\ Each(w, bs)[n] = [op |-> w, arg |-> bs[n]]
                                   /\ bs[n] \in BlockSpace
<1>1. Len(bs) \in Nat /\ DOMAIN bs = 1..Len(bs) /\ \A n \in 1..Len(bs) : bs[n] \in BlockSpace
  OBVIOUS
<1>2. Each(w, bs) = [n \in 1..Len(bs) |-> [op |-> w, arg |-> bs[n]]]
  BY <1>1 DEF Each, Op
<1>3. \A b \in BlockSpace : [op |-> w, arg |-> b] \in OpSpace
  BY DEF OpSpace
<1>. QED BY <1>1, <1>2, <1>3

\* The plan q is p with writes of the blocks bs.
Extended(f, d, p, q, w, bs) ==
    /\ PlanOk(f, d, q) /\ q \in Seq(OpSpace) /\ Len(q) = Len(p) + Len(bs)
    /\ \A o : OpenAfter(f, p, Len(p), o) => OpenAfter(f, q, Len(q), o)
    /\ \A o : KnownAfter(f, p, Len(p), o) => KnownAfter(f, q, Len(q), o)
    /\ w # "write" /\ Waited(d, p, Len(p)) => Waited(d, q, Len(q))
    /\ \A n \in 1..Len(q) :
         \/ n \in 1..Len(p) /\ q[n] = p[n]
         \/ /\ n - Len(p) \in 1..Len(bs) /\ n > Len(p)
            /\ q[n] = [op |-> w, arg |-> bs[n - Len(p)]]

\* More writes, to files that are open when the plan p is carried out.
LEMMA MoreWrites ==
  ASSUME NEW f, NEW d, NEW p \in Seq(OpSpace), PlanOk(f, d, p), NEW w \in {"write", "direct", "append"},
         NEW bs \in Seq(BlockSpace),
         \A i \in 1..Len(bs) : OpenAfter(f, p, Len(p), bs[i].file)
  PROVE  Extended(f, d, p, p \o Each(w, bs), w, bs)
<1>. DEFINE ops == Each(w, bs)
            q == p \o ops
            l == Len(p)
            m == Len(bs)
<1>1. /\ ops \in Seq(OpSpace) /\ Len(ops) = m /\ m \in Nat
      /\ \A n \in 1..m : ops[n] = [op |-> w, arg |-> bs[n]] /\ bs[n] \in BlockSpace
  BY EachOps
<1>. HIDE DEF ops, m
<1>2. /\ q \in Seq(OpSpace) /\ Len(q) = l + m /\ l \in Nat
      /\ \A j \in 1..l : q[j] = p[j]
      /\ \A n \in 1..Len(q) : n > l => n - l \in 1..m /\ q[n] = [op |-> w, arg |-> bs[n - l]]
  <2>1. /\ q \in Seq(OpSpace) /\ Len(q) = l + Len(ops) /\ l \in Nat
        /\ \A j \in 1..l : q[j] = p[j]
        /\ \A n \in 1..l + Len(ops) : n > l => n - l \in 1..Len(ops) /\ q[n] = ops[n - l]
    BY <1>1, Joining
  <2>. HIDE DEF q, l
  <2>. QED BY <1>1, <2>1
<1>. HIDE DEF q, l
<1>3. \A n \in 1..Len(q) : n \in 1..l \/ n > l
  BY <1>2
<1>4. ASSUME NEW n \in Nat, n <= l
      PROVE  /\ \A o : OpenAfter(f, p, n, o) => OpenAfter(f, q, n, o)
             /\ \A o : KnownAfter(f, p, n, o) => KnownAfter(f, q, n, o)
             /\ Waited(d, p, n) => Waited(d, q, n)
  <2>1. \A j \in 1..n : q[j] = p[j]
    BY <1>2, <1>4
  <2>. QED BY <2>1, SamePart
<1>5. \A j \in (l + 1)..Len(q) : \A o : ~Closes(q[j], o) /\ (w # "write" => q[j].op # "write")
  BY <1>1, <1>2 DEF Closes
<1>6. ASSUME NEW n \in l..Len(q), NEW o, OpenAfter(f, p, l, o) PROVE OpenAfter(f, q, n, o)
  <2>1. n \in Nat /\ l <= n /\ \A j \in (l + 1)..n : j \in (l + 1)..Len(q)
    BY <1>1, <1>2
  <2>2. OpenAfter(f, q, l, o)
    BY <1>2, <1>4, <1>6
  <2>3. \A j \in (l + 1)..n : ~Closes(q[j], o)
    BY <1>5, <2>1
  <2>. QED BY <1>2, <2>1, <2>2, <2>3, LongerPart
<1>7. w # "write" /\ Waited(d, p, l) => Waited(d, q, Len(q))
  <2>1. Len(q) \in Nat /\ l <= Len(q)
    BY <1>1, <1>2
  <2>2. w # "write" => \A j \in (l + 1)..Len(q) : q[j].op # "write"
    BY <1>5
  <2>3. Waited(d, p, l) => Waited(d, q, l)
    BY <1>2, <1>4
  <2>. QED BY <1>2, <2>1, <2>2, <2>3, LongerPart
<1>8. PlanOk(f, d, q)
  <2>. SUFFICES ASSUME NEW n \in 1..Len(q)
                PROVE  /\ Writes(q[n]) => OpenAfter(f, q, n - 1, q[n].arg.file)
                       /\ q[n].op = "close" => Waited(d, q, n - 1)
                       /\ q[n].op \in {"close", "reopen"} => KnownAfter(f, q, n - 1, q[n].arg)
    BY DEF PlanOk
  <2>1. CASE n \in 1..l
    <3>1. n - 1 \in Nat /\ n - 1 <= l
      BY <1>2, <2>1
    <3>. QED BY <1>2, <1>4, <2>1, <3>1 DEF PlanOk, l
  <2>2. CASE n > l
    <3>1. n - 1 \in l..Len(q) /\ n - l \in 1..m /\ q[n] = [op |-> w, arg |-> bs[n - l]]
      BY <1>1, <1>2, <2>2
    <3>2. OpenAfter(f, p, l, bs[n - l].file)
      BY <3>1 DEF m, l
    <3>3. OpenAfter(f, q, n - 1, bs[n - l].file)
      BY <1>6, <3>1, <3>2
    <3>. QED BY <3>1, <3>3
  <2>. QED BY <1>3, <2>1, <2>2
<1>9. Len(q) \in l..Len(q)
  BY <1>1, <1>2
<1>10. \A o : KnownAfter(f, p, l, o) => KnownAfter(f, q, Len(q), o)
  <2>1. Len(q) \in Nat /\ l <= Len(q)
    BY <1>1, <1>2
  <2>2. \A o : KnownAfter(f, p, l, o) => KnownAfter(f, q, l, o)
    BY <1>2, <1>4
  <2>. QED BY <1>2, <2>1, <2>2, LongerPart
<1>. QED BY <1>1, <1>2, <1>3, <1>6, <1>7, <1>8, <1>9, <1>10 DEF q, ops, m, l, Extended

-----------------------------------------------------------------------------
(* Good plans.                                                             *)

LEMMA RankIsNat == ASSUME NEW b \in BlockSpace PROVE Rank(b) \in Nat
BY DEF BlockSpace, Rank

LEMMA PlanRanks ==
  ASSUME NEW p \in Seq(OpSpace), NEW n \in 1..Len(p)
  PROVE  /\ p[n] \in OpSpace
         /\ p[n].op = "write" => Rank(p[n].arg) \in Nat
<1>1. p[n] \in OpSpace
  OBVIOUS
<1>2. Writes(p[n]) => p[n].arg \in BlockSpace
  BY <1>1 DEF OpSpace, Writes
<1>. QED BY <1>1, <1>2, RankIsNat DEF Writes

\* A plan with more operations that open no files.
LEMMA LongerOpens ==
  ASSUME NEW f, NEW p \in Seq(OpSpace), NEW q \in Seq(OpSpace), NEW objs, NEW names,
         OpensNew(f, p, objs, names),
         \A n \in 1..Len(q) : \/ n \in 1..Len(p) /\ q[n] = p[n]
                              \/ q[n].op # "open"
  PROVE  OpensNew(f, q, objs, names)
BY DEF OpensNew

\* A plan with more writes, all of one rank.
LEMMA LongerRanks ==
  ASSUME NEW p \in Seq(OpSpace), NEW q \in Seq(OpSpace),
         NEW low \in Nat, NEW high \in Nat, NEW r \in Nat,
         RankedPlan(p, low, high), high <= r, low <= r,
         \A n \in 1..Len(q) : \/ n \in 1..Len(p) /\ q[n] = p[n]
                              \/ n > Len(p) /\ (q[n].op = "write" => Rank(q[n].arg) = r)
  PROVE  RankedPlan(q, low, r)
<1>1. ASSUME NEW n \in 1..Len(q), q[n].op = "write"
      PROVE  low <= Rank(q[n].arg) /\ Rank(q[n].arg) <= r
  <2>1. Rank(q[n].arg) \in Nat
    BY <1>1, PlanRanks
  <2>. QED BY <1>1, <2>1 DEF RankedPlan
<1>2. ASSUME NEW k \in 1..Len(q), NEW n \in 1..Len(q), k < n, q[k].op = "write",
             q[n].op = "write"
      PROVE  Rank(q[k].arg) <= Rank(q[n].arg)
  <2>1. CASE n \in 1..Len(p) /\ q[n] = p[n]
    <3>1. k \in 1..Len(p) /\ q[k] = p[k]
      BY <1>2, <2>1
    <3>. QED BY <1>2, <2>1, <3>1 DEF RankedPlan
  <2>2. CASE n > Len(p) /\ Rank(q[n].arg) = r
    BY <1>1, <1>2, <2>2
  <2>. QED BY <1>2, <2>1, <2>2
<1>. QED BY <1>1, <1>2 DEF RankedPlan

\* Higher limits.
LEMMA HigherRanks ==
  ASSUME NEW p \in Seq(OpSpace), NEW low, NEW high \in Nat, NEW r \in Nat,
         RankedPlan(p, low, high), high <= r
  PROVE  RankedPlan(p, low, r)
<1>1. \A n \in 1..Len(p) : p[n].op = "write" => Rank(p[n].arg) \in Nat
  BY PlanRanks
<1>. QED BY <1>1 DEF RankedPlan

\* Writes to open files.
LEMMA GoodWrites ==
  ASSUME NEW f, NEW d, NEW p \in Seq(OpSpace), NEW v, GoodPlan(f, d, p, v),
         NEW w \in {"write", "direct", "append"}, NEW bs \in Seq(BlockSpace),
         \A i \in 1..Len(bs) : OpenAfter(f, p, Len(p), bs[i].file),
         w = "write" => mode.async \/ bs = <<>>
  PROVE  GoodPlan(f, d, p \o Each(w, bs), v)
<1>. DEFINE q == p \o Each(w, bs)
<1>1. PlanOk(f, d, p)
  BY DEF GoodPlan
<1>2. /\ PlanOk(f, d, q) /\ q \in Seq(OpSpace) /\ Len(q) = Len(p) + Len(bs)
      /\ \A o : OpenAfter(f, p, Len(p), o) => OpenAfter(f, q, Len(q), o)
      /\ \A o : KnownAfter(f, p, Len(p), o) => KnownAfter(f, q, Len(q), o)
      /\ \A n \in 1..Len(q) :
           \/ n \in 1..Len(p) /\ q[n] = p[n]
           \/ /\ n - Len(p) \in 1..Len(bs) /\ n > Len(p)
              /\ q[n] = [op |-> w, arg |-> bs[n - Len(p)]]
  <2>1. Extended(f, d, p, q, w, bs)
    BY <1>1, MoreWrites
  <2>. HIDE DEF q
  <2>. QED BY <2>1 DEF Extended
<1>. HIDE DEF q
<1>3. OpensNew(f, q, v.objects, v.name)
  <2>1. OpensNew(f, p, v.objects, v.name)
    BY DEF GoodPlan
  <2>2. \A n \in 1..Len(q) : (n \in 1..Len(p) /\ q[n] = p[n]) \/ q[n].op # "open"
    BY <1>2
  <2>. QED BY <1>2, <2>1, <2>2, LongerOpens
<1>4. ASSUME ~mode.async PROVE d /\ \A n \in 1..Len(q) : q[n].op # "write"
  <2>1. d /\ \A n \in 1..Len(p) : p[n].op # "write"
    BY <1>4 DEF GoodPlan
  <2>2. bs = <<>> \/ w # "write"
    BY <1>4
  <2>. QED BY <1>2, <2>1, <2>2
<1>5. \A m \in Active : HasFile(f, q, v.muxFile[m])
  BY <1>2 DEF GoodPlan, HasFile
<1>6. GoodPlan(f, d, q, v)
  BY <1>2, <1>3, <1>4, <1>5 DEF GoodPlan
<1>. QED BY <1>6 DEF q

\* ... and their ranks.
LEMMA RankedWrites ==
  ASSUME NEW p \in Seq(OpSpace), NEW low \in Nat, NEW high \in Nat, NEW r \in Nat,
         RankedPlan(p, low, high), high <= r, low <= r,
         NEW w \in {"write", "direct", "append"}, NEW bs \in Seq(BlockSpace),
         w = "write" => \A i \in 1..Len(bs) : Rank(bs[i]) = r
  PROVE  RankedPlan(p \o Each(w, bs), low, r)
<1>. DEFINE ops == Each(w, bs)
            q == p \o ops
<1>1. /\ ops \in Seq(OpSpace) /\ Len(ops) = Len(bs)
      /\ \A n \in 1..Len(bs) : ops[n] = [op |-> w, arg |-> bs[n]]
  BY EachOps
<1>2. /\ q \in Seq(OpSpace) /\ Len(q) = Len(p) + Len(ops)
      /\ \A n \in 1..Len(p) : q[n] = p[n]
      /\ \A n \in 1..Len(p) + Len(ops) : n > Len(p) => n - Len(p) \in 1..Len(ops) /\ q[n] = ops[n - Len(p)]
      /\ Len(p) \in Nat /\ Len(ops) \in Nat
  <2>. HIDE DEF ops
  <2>. QED BY <1>1, Joining
<1>. HIDE DEF q, ops
<1>3. \A n \in 1..Len(q) : \/ n \in 1..Len(p) /\ q[n] = p[n]
                           \/ n > Len(p) /\ (q[n].op = "write" => Rank(q[n].arg) = r)
  <2>. SUFFICES ASSUME NEW n \in 1..Len(q), n \notin 1..Len(p)
                PROVE  n > Len(p) /\ (q[n].op = "write" => Rank(q[n].arg) = r)
    BY <1>2
  <2>1. n > Len(p) /\ n \in 1..Len(p) + Len(ops)
    BY <1>2
  <2>2. n - Len(p) \in 1..Len(bs) /\ q[n] = ops[n - Len(p)]
    BY <1>1, <1>2, <2>1
  <2>3. q[n] = [op |-> w, arg |-> bs[n - Len(p)]]
    BY <1>1, <2>2
  <2>. QED BY <2>1, <2>2, <2>3
<1>4. RankedPlan(q, low, r)
  BY <1>2, <1>3, LongerRanks
<1>. QED BY <1>4 DEF q, ops

-----------------------------------------------------------------------------
(* The operations of the muxing thread keep its record sound.              *)

\* What the operations on blocks leave alone.
Alike(t, s) == /\ t.muxFile = s.muxFile /\ t.objects = s.objects /\ t.packets = s.packets
               /\ t.orig = s.orig /\ t.num = s.num /\ t.name = s.name

\* What a plan and a record say of each other does not depend on the rest.
LEMMA SoundFrame ==
  ASSUME NEW s, Sound(s), NEW t \in MuxSpace, Alike(t, s),
         t.plan = s.plan, t.held = s.held, t.delayed = s.delayed, t.rest = s.rest,
         t.round = s.round, t.asserts = s.asserts
  PROVE  Sound(t)
BY DEF Sound, Alike, Steady, Kept, KeptFor, Asserted, Numbered, Apart, GoodPlan

\* A record with another plan.
LEMMA PlanFrame ==
  ASSUME NEW s, Sound(s), NEW t \in MuxSpace, Alike(t, s),
         GoodPlan(file, Drained, t.plan, s),
         mode.interleave => RankedPlan(t.plan, 2 * mux.round, 2 * t.round),
         t.held = s.held, t.delayed = s.delayed, t.rest = s.rest,
         t.round = s.round, t.asserts = s.asserts
  PROVE  Sound(t)
BY DEF Sound, Alike, Steady, Kept, KeptFor, Asserted, Numbered, Apart, GoodPlan

\* A record with other blocks kept.
LEMMA KeptFrame ==
  ASSUME NEW s, Sound(s), NEW t \in MuxSpace, Alike(t, s), Kept(t),
         t.plan = s.plan, t.rest = s.rest, t.round = s.round, t.asserts = s.asserts
  PROVE  Sound(t)
BY DEF Sound, Alike, Steady, Asserted, Numbered, Apart, GoodPlan

LEMMA SoundTypes ==
  ASSUME NEW s, Sound(s)
  PROVE  /\ s \in MuxSpace /\ s.plan \in Seq(OpSpace) /\ s.round \in Nat
         /\ s.delayed \in Seq(BlockSpace) /\ s.made \in Seq(BlockSpace)
         /\ \A m \in Muxers : s.muxFile[m] \in Objects /\ s.held[m] \in Seq(BlockSpace)
         /\ s.asserts \in SUBSET {"sync interleave", "buffer handed over", "next file"}
<1>1. s \in MuxSpace
  BY DEF Sound
<1>. QED BY <1>1 DEF MuxSpace

\* What is added to a sequence of blocks.
LEMMA MoreBlocks ==
  ASSUME NEW c \in Seq(BlockSpace), NEW bs \in Seq(BlockSpace)
  PROVE  /\ c \o bs \in Seq(BlockSpace)
         /\ \A i \in 1..Len(c \o bs) : \/ i \in 1..Len(c) /\ (c \o bs)[i] = c[i]
                                       \/ i - Len(c) \in 1..Len(bs) /\ (c \o bs)[i] = bs[i - Len(c)]
<1>. DEFINE U == BlockSpace
<1>1. c \in Seq(U) /\ bs \in Seq(U)
  OBVIOUS
<1>. HIDE DEF U
<1>2. /\ c \o bs \in Seq(U)
      /\ \A i \in 1..Len(c \o bs) : \/ i \in 1..Len(c) /\ (c \o bs)[i] = c[i]
                                    \/ i - Len(c) \in 1..Len(bs) /\ (c \o bs)[i] = bs[i - Len(c)]
  BY <1>1
<1>. QED BY <1>2 DEF U

LEMMA OneBlock ==
  ASSUME NEW c \in Seq(BlockSpace), NEW b \in BlockSpace
  PROVE  /\ Append(c, b) \in Seq(BlockSpace) /\ <<b>> \in Seq(BlockSpace)
         /\ Len(Append(c, b)) = Len(c) + 1 /\ Len(c) \in Nat
         /\ \A i \in 1..Len(c) + 1 : Append(c, b)[i] = IF i = Len(c) + 1 THEN b ELSE c[i]
         /\ Len(<<b>>) = 1 /\ <<b>>[1] = b
<1>. DEFINE U == BlockSpace
<1>1. c \in Seq(U) /\ b \in U
  OBVIOUS
<1>. HIDE DEF U
<1>2. /\ Append(c, b) \in Seq(U) /\ <<b>> \in Seq(U)
      /\ Len(Append(c, b)) = Len(c) + 1 /\ Len(c) \in Nat
      /\ \A i \in 1..Len(c) + 1 : Append(c, b)[i] = IF i = Len(c) + 1 THEN b ELSE c[i]
      /\ Len(<<b>>) = 1 /\ <<b>>[1] = b
  BY <1>1
<1>. QED BY <1>2 DEF U

\* The muxers and the manager stay as they are but for the block made.
LEMMA MadeSound ==
  ASSUME NEW s, Sound(s), NEW b \in BlockSpace
  PROVE  LET t == Made(s, b) IN
         /\ Sound(t) /\ Alike(t, s) /\ t.held = s.held /\ t.delayed = s.delayed
         /\ t.finished = s.finished /\ t.round = s.round /\ t.rest = s.rest
         /\ t.plan = s.plan /\ t.started = s.started /\ t.buffer = s.buffer
         /\ t.size = s.size
<1>. DEFINE t == Made(s, b)
<1>1. s \in MuxSpace /\ Append(s.made, b) \in Seq(BlockSpace)
  BY SoundTypes, OneBlock
<1>2. t \in MuxSpace
  BY <1>1 DEF MuxSpace, Made
<1>3. /\ Alike(t, s) /\ t.plan = s.plan /\ t.held = s.held
      /\ t.delayed = s.delayed /\ t.rest = s.rest /\ t.round = s.round
      /\ t.asserts = s.asserts /\ t.started = s.started /\ t.finished = s.finished
      /\ t.buffer = s.buffer /\ t.size = s.size
  BY <1>1 DEF MuxSpace, Made, Alike
<1>. HIDE DEF t
<1>4. Sound(t)
  BY <1>2, <1>3, SoundFrame
<1>. QED BY <1>3, <1>4 DEF t

\* The next block of a muxer is one to be kept for it.
LEMMA NextBlockFits ==
  ASSUME NEW s, Sound(s), NEW m \in Muxers
  PROVE  LET b == NextBlock(s, m) IN
         /\ b \in BlockSpace /\ b.file = s.muxFile[m] /\ b.mux = m /\ b.round = s.round
         /\ KeptFor(s, m, <<b>>)
<1>1. /\ s.muxFile[m] \in Objects /\ s.made \in Seq(BlockSpace) /\ s.round \in Nat
  BY SoundTypes
<1>2. Len(s.made) + 1 \in Nat
  BY <1>1
<1>3. LET b == NextBlock(s, m) IN
      b \in BlockSpace /\ b.file = s.muxFile[m] /\ b.mux = m /\ b.round = s.round
  BY <1>1, <1>2 DEF NextBlock, BlockSpace
<1>. QED BY <1>3 DEF KeptFor

\* What operations on blocks leave alone, but for those kept.
Still(t, s) == /\ Alike(t, s) /\ t.rest = s.rest /\ t.round = s.round
               /\ t.finished = s.finished /\ t.started = s.started
               /\ t.buffer = s.buffer

\* A record with a plan in which more is written.
LEMMA PlanFields ==
  ASSUME NEW s \in MuxSpace, NEW ops, s.plan \o ops \in Seq(OpSpace)
  PROVE  LET t == Do(s, ops) IN
         /\ t \in MuxSpace /\ t.plan = s.plan \o ops /\ Still(t, s)
         /\ t.held = s.held /\ t.delayed = s.delayed /\ t.asserts = s.asserts
         /\ t.size = s.size /\ t.made = s.made
<1>. DEFINE q == s.plan \o ops
            t == Do(s, ops)
<1>1. t = [s EXCEPT !.plan = q]
  BY DEF Do
<1>. HIDE DEF q, t
<1>2. q \in Seq(OpSpace)
  BY DEF q
<1>3. /\ t \in MuxSpace /\ t.plan = q
      /\ t.muxFile = s.muxFile /\ t.objects = s.objects /\ t.packets = s.packets
      /\ t.orig = s.orig /\ t.num = s.num /\ t.name = s.name
      /\ t.rest = s.rest /\ t.round = s.round /\ t.finished = s.finished
      /\ t.started = s.started /\ t.buffer = s.buffer
      /\ t.held = s.held /\ t.delayed = s.delayed /\ t.asserts = s.asserts
      /\ t.size = s.size /\ t.made = s.made
  BY <1>1, <1>2 DEF MuxSpace
<1>. QED BY <1>3 DEF q, t, Still, Alike

\* Blocks bs that are to be written to open files, in the round that goes on.
LEMMA WritesSound ==
  ASSUME NEW s, Sound(s), NEW w \in {"write", "direct", "append"},
         NEW bs \in Seq(BlockSpace),
         \A i \in 1..Len(bs) : OpenAfter(file, s.plan, Len(s.plan), bs[i].file),
         w = "write" => mode.async \/ bs = <<>>,
         w = "write" /\ mode.interleave => \A i \in 1..Len(bs) : Rank(bs[i]) = 2 * s.round
  PROVE  LET t == Do(s, Each(w, bs)) IN
         /\ Sound(t) /\ Still(t, s) /\ t.held = s.held /\ t.delayed = s.delayed
         /\ t.asserts = s.asserts
<1>. DEFINE t == Do(s, Each(w, bs))
            q == s.plan \o Each(w, bs)
<1>1. s \in MuxSpace /\ s.plan \in Seq(OpSpace) /\ s.round \in Nat
  BY SoundTypes
<1>2. GoodPlan(file, Drained, s.plan, s) /\ PlanOk(file, Drained, s.plan)
  BY DEF Sound, GoodPlan
<1>3. GoodPlan(file, Drained, q, s)
  BY <1>1, <1>2, GoodWrites
<1>4. q \in Seq(OpSpace)
  <2>1. Extended(file, Drained, s.plan, q, w, bs)
    BY <1>1, <1>2, MoreWrites
  <2>. QED BY <2>1 DEF Extended
<1>5. ASSUME mode.interleave PROVE RankedPlan(q, 2 * mux.round, 2 * s.round)
  <2>. DEFINE r == 2 * s.round
              low == 2 * mux.round
  <2>1. RankedPlan(s.plan, low, r)
    BY <1>5 DEF Sound
  <2>2. r \in Nat /\ r <= r
    BY <1>1
  <2>3. mux.round \in 0..s.round
    BY DEF Sound
  <2>4. low \in Nat /\ low <= r
    BY <1>1, <2>3
  <2>. HIDE DEF r, low
  <2>5. w = "write" => \A i \in 1..Len(bs) : Rank(bs[i]) = r
    BY <1>5 DEF r
  <2>6. RankedPlan(q, low, r)
    BY <1>1, <2>1, <2>2, <2>4, <2>5, RankedWrites
  <2>. QED BY <2>6 DEF r, low
<1>6. /\ t \in MuxSpace /\ t.plan = q /\ Still(t, s)
      /\ t.held = s.held /\ t.delayed = s.delayed /\ t.asserts = s.asserts
  BY <1>1, <1>4, PlanFields
<1>. HIDE DEF t, q
<1>7. Sound(t)
  BY <1>3, <1>5, <1>6, PlanFrame DEF Still
<1>. QED BY <1>6, <1>7 DEF t

\* Blocks are handed over, or the main muxer's held back.
LEMMA WriteBuffersSound ==
  ASSUME NEW s, Sound(s), NEW m \in Active, mode \in Modes,
         NEW bs \in Seq(BlockSpace), KeptFor(s, m, bs)
  PROVE  LET t == WriteBuffers(s, m, bs) IN
         /\ Sound(t) /\ Still(t, s) /\ t.held = s.held
         /\ t.delayed = IF mode.async /\ mode.interleave /\ m = "main"
                        THEN s.delayed \o bs ELSE s.delayed
<1>1. /\ s \in MuxSpace /\ s.plan \in Seq(OpSpace) /\ s.delayed \in Seq(BlockSpace)
      /\ m \in Muxers /\ s.round \in Nat
  BY ModeFacts, SoundTypes
<1>2. OpenAfter(file, s.plan, Len(s.plan), s.muxFile[m])
  BY DEF Sound, GoodPlan, HasFile
<1>3. \A i \in 1..Len(bs) : OpenAfter(file, s.plan, Len(s.plan), bs[i].file)
  BY <1>2 DEF KeptFor
<1>4. CASE mode.async /\ mode.interleave /\ m = "main"
  <2>. DEFINE c == s.delayed \o bs
              t == [s EXCEPT !.delayed = c]
  <2>1. t = WriteBuffers(s, m, bs)
    BY <1>4 DEF WriteBuffers, AsyncWriteBuffers
  <2>2. c \in Seq(BlockSpace) /\ KeptFor(s, "main", c)
    <3>1. KeptFor(s, "main", s.delayed) /\ KeptFor(s, "main", bs)
      BY <1>4 DEF Sound, Steady, Kept
    <3>. QED BY <1>1, <3>1, MoreBlocks DEF KeptFor
  <2>. HIDE DEF c
  <2>3. /\ t \in MuxSpace /\ t.plan = s.plan
        /\ t.muxFile = s.muxFile /\ t.objects = s.objects /\ t.packets = s.packets
        /\ t.orig = s.orig /\ t.num = s.num /\ t.name = s.name
        /\ t.rest = s.rest /\ t.round = s.round /\ t.finished = s.finished
        /\ t.started = s.started /\ t.buffer = s.buffer
        /\ t.held = s.held /\ t.delayed = c /\ t.asserts = s.asserts
    BY <1>1, <2>2 DEF MuxSpace
  <2>. HIDE DEF t
  <2>4. Kept(t)
    BY <1>4, <2>2, <2>3 DEF Sound, Steady, Kept, KeptFor
  <2>5. Alike(t, s)
    BY <2>3 DEF Alike
  <2>6. Sound(t)
    BY <2>3, <2>4, <2>5, KeptFrame
  <2>. QED BY <1>4, <2>1, <2>3, <2>5, <2>6 DEF Still, c
<1>5. CASE mode.async /\ ~(mode.interleave /\ m = "main")
  <2>1. WriteBuffers(s, m, bs) = Do(s, Each("write", bs))
    BY <1>5 DEF WriteBuffers, AsyncWriteBuffers
  <2>2. mode.interleave => \A i \in 1..Len(bs) : Rank(bs[i]) = 2 * s.round
    <3>1. mode.interleave => m = "sub"
      BY <1>1, <1>5 DEF Muxers
    <3>. QED BY <1>1, <3>1 DEF KeptFor, Rank
  <2>3. LET t == Do(s, Each("write", bs)) IN
        /\ Sound(t) /\ Still(t, s) /\ t.held = s.held /\ t.delayed = s.delayed
        /\ t.asserts = s.asserts
    BY <1>3, <1>5, <2>2, WritesSound
  <2>. QED BY <1>5, <2>1, <2>3
<1>6. CASE ~mode.async
  <2>. DEFINE u == Do(s, Each("direct", bs))
              t == SyncWriteBuffers(s, bs)
  <2>1. WriteBuffers(s, m, bs) = t
    BY <1>6 DEF WriteBuffers
  <2>2. /\ Sound(u) /\ Still(u, s) /\ u.held = s.held /\ u.delayed = s.delayed
        /\ u.asserts = s.asserts
    BY <1>3, WritesSound
  <2>3. \/ t = u
        \/ mode.interleave /\ t = [u EXCEPT !.asserts = @ \cup {"sync interleave"}]
    BY DEF SyncWriteBuffers, Expect
  <2>. HIDE DEF t, u
  <2>4. ASSUME mode.interleave, t = [u EXCEPT !.asserts = @ \cup {"sync interleave"}]
        PROVE  Sound(t) /\ Still(t, s) /\ t.held = s.held /\ t.delayed = s.delayed
    <3>1. u \in MuxSpace /\ mode.m2ts
      BY <2>2, <2>4, ModeFacts, SoundTypes
    <3>2. /\ t \in MuxSpace /\ t.plan = u.plan
          /\ t.muxFile = u.muxFile /\ t.objects = u.objects /\ t.packets = u.packets
          /\ t.orig = u.orig /\ t.num = u.num /\ t.name = u.name
          /\ t.rest = u.rest /\ t.round = u.round /\ t.finished = u.finished
          /\ t.started = u.started /\ t.buffer = u.buffer
          /\ t.held = u.held /\ t.delayed = u.delayed
      BY <2>4, <3>1 DEF MuxSpace
    <3>3. Asserted(t)
      BY <1>6, <3>1 DEF Asserted
    <3>4. Sound(t)
      BY <2>2, <3>2, <3>3 DEF Sound, Steady, Kept, KeptFor, Numbered, Apart, GoodPlan
    <3>. QED BY <2>2, <3>2, <3>4 DEF Still, Alike
  <2>. QED BY <1>6, <2>1, <2>2, <2>3, <2>4
<1>. QED BY <1>4, <1>5, <1>6, ModeFacts

\* What an operation for muxer m leaves alone.
Near(t, s, m) ==
    /\ Alike(t, s) /\ t.round = s.round /\ t.finished = s.finished /\ t.started = s.started
    /\ \A x \in Muxers : x # m => /\ t.held[x] = s.held[x]
                                  /\ t.rest[x] = s.rest[x] /\ t.buffer[x] = s.buffer[x]
    /\ m = "sub" => t.delayed = s.delayed

LEMMA ProcessSound ==
  ASSUME NEW s, Sound(s), NEW m \in Active, mode \in Modes
  PROVE  LET t == ProcessM2TSPCR(s, m) IN
         /\ Sound(t) /\ Near(t, s, m) /\ t.held[m] = <<>>
         /\ t.rest = s.rest /\ t.buffer = s.buffer
<1>. DEFINE u == WriteBuffers(s, m, s.held[m])
            t == ProcessM2TSPCR(s, m)
<1>1. m \in Muxers /\ s.held[m] \in Seq(BlockSpace) /\ KeptFor(s, m, s.held[m])
  BY ModeFacts, SoundTypes DEF Sound, Steady, Kept
<1>2. /\ Sound(u) /\ Still(u, s) /\ u.held = s.held
      /\ m = "sub" => u.delayed = s.delayed
  BY <1>1, WriteBuffersSound
<1>3. t = [u EXCEPT !.held = [u.held EXCEPT ![m] = <<>>]]
  BY DEF ProcessM2TSPCR
<1>. HIDE DEF t, u
<1>. DEFINE h == [u.held EXCEPT ![m] = <<>>]
<1>4. /\ h \in [Muxers -> Seq(BlockSpace)] /\ h[m] = <<>>
      /\ \A x \in Muxers : x # m => h[x] = u.held[x]
  <2>1. u.held \in [Muxers -> Seq(BlockSpace)]
    BY <1>2, SoundTypes DEF MuxSpace
  <2>. QED BY <1>1, <2>1
<1>. HIDE DEF h
<1>5. /\ t \in MuxSpace /\ t.plan = u.plan
      /\ t.muxFile = u.muxFile /\ t.objects = u.objects /\ t.packets = u.packets
      /\ t.orig = u.orig /\ t.num = u.num /\ t.name = u.name
      /\ t.rest = u.rest /\ t.round = u.round /\ t.finished = u.finished
      /\ t.started = u.started /\ t.buffer = u.buffer
      /\ t.held = h /\ t.delayed = u.delayed /\ t.asserts = u.asserts
  <2>1. u \in MuxSpace
    BY <1>2, SoundTypes
  <2>2. t = [u EXCEPT !.held = h]
    BY <1>3 DEF h
  <2>. QED BY <1>4, <2>1, <2>2 DEF MuxSpace
<1>6. Kept(t)
  <2>1. Kept(u)
    BY <1>2 DEF Sound, Steady
  <2>. QED BY <1>4, <1>5, <2>1 DEF Kept, KeptFor
<1>7. Sound(t)
  <2>1. Alike(t, u)
    BY <1>5 DEF Alike
  <2>. QED BY <1>2, <1>5, <1>6, <2>1, KeptFrame
<1>. QED BY <1>1, <1>2, <1>4, <1>5, <1>7 DEF Near, Still, Alike, t

LEMMA WriteOutSound ==
  ASSUME NEW s, Sound(s), NEW m \in Active, mode \in Modes, NEW timed
  PROVE  LET t == WriteOutBuffer(s, m, timed) IN
         /\ Sound(t) /\ Near(t, s, m) /\ t.rest = s.rest /\ t.buffer = s.buffer
<1>. DEFINE b == NextBlock(s, m)
            v == Made(s, b)
            u == [v EXCEPT !.size[m] = @ + 1]
<1>1. m \in Muxers
  BY ModeFacts
<1>2. /\ b \in BlockSpace /\ b.file = s.muxFile[m] /\ b.mux = m /\ b.round = s.round
  BY <1>1, NextBlockFits
<1>. HIDE DEF b
<1>3. /\ Sound(v) /\ Alike(v, s) /\ v.held = s.held /\ v.delayed = s.delayed
      /\ v.finished = s.finished /\ v.round = s.round /\ v.rest = s.rest
      /\ v.started = s.started /\ v.buffer = s.buffer /\ v.size = s.size
  BY <1>2, MadeSound
<1>. HIDE DEF v
<1>4. /\ u \in MuxSpace /\ u.plan = v.plan
      /\ u.muxFile = v.muxFile /\ u.objects = v.objects /\ u.packets = v.packets
      /\ u.orig = v.orig /\ u.num = v.num /\ u.name = v.name
      /\ u.rest = v.rest /\ u.round = v.round /\ u.finished = v.finished
      /\ u.started = v.started /\ u.buffer = v.buffer
      /\ u.held = v.held /\ u.delayed = v.delayed /\ u.asserts = v.asserts
  <2>. DEFINE z == [v.size EXCEPT ![m] = @ + 1]
  <2>1. v \in MuxSpace
    BY <1>3, SoundTypes
  <2>2. z \in [Muxers -> Nat]
    <3>1. v.size \in [Muxers -> Nat]
      BY <2>1 DEF MuxSpace
    <3>. QED BY <1>1, <3>1
  <2>3. u = [v EXCEPT !.size = z]
    OBVIOUS
  <2>. HIDE DEF z, u
  <2>. QED BY <2>1, <2>2, <2>3 DEF MuxSpace
<1>5. WriteOutBuffer(s, m, timed) =
        IF mode.m2ts /\ ~(timed /\ s.held[m] = <<>>)
        THEN [u EXCEPT !.held[m] = Append(@, b)]
        ELSE WriteBuffers(u, m, <<b>>)
  BY DEF WriteOutBuffer, b, v
<1>. HIDE DEF u
<1>6. Sound(u) /\ Still(u, s) /\ u.held = s.held /\ u.delayed = s.delayed
  <2>1. Alike(u, v)
    BY <1>4 DEF Alike
  <2>2. Sound(u)
    BY <1>3, <1>4, <2>1, SoundFrame
  <2>. QED BY <1>3, <1>4, <2>2 DEF Still, Alike
<1>7. CASE mode.m2ts /\ ~(timed /\ s.held[m] = <<>>)
  <2>. DEFINE h == [u.held EXCEPT ![m] = Append(@, b)]
              t == [u EXCEPT !.held = h]
  <2>1. u \in MuxSpace /\ u.held \in [Muxers -> Seq(BlockSpace)] /\ u.held[m] \in Seq(BlockSpace)
    BY <1>1, <1>6, SoundTypes DEF MuxSpace
  <2>2. /\ h \in [Muxers -> Seq(BlockSpace)] /\ h[m] = Append(u.held[m], b)
        /\ \A x \in Muxers : x # m => h[x] = u.held[x]
    <3>1. Append(u.held[m], b) \in Seq(BlockSpace)
      BY <1>2, <2>1, OneBlock
    <3>. QED BY <1>1, <2>1, <3>1
  <2>3. WriteOutBuffer(s, m, timed) = t
    BY <1>5, <1>7
  <2>. HIDE DEF h
  <2>4. /\ t \in MuxSpace /\ t.plan = u.plan
        /\ t.muxFile = u.muxFile /\ t.objects = u.objects /\ t.packets = u.packets
        /\ t.orig = u.orig /\ t.num = u.num /\ t.name = u.name
        /\ t.rest = u.rest /\ t.round = u.round /\ t.finished = u.finished
        /\ t.started = u.started /\ t.buffer = u.buffer
        /\ t.held = h /\ t.delayed = u.delayed /\ t.asserts = u.asserts
    BY <2>1, <2>2 DEF MuxSpace
  <2>. HIDE DEF t
  <2>5. Kept(t)
    <3>1. Kept(u)
      BY <1>6 DEF Sound, Steady
    <3>2. KeptFor(u, m, h[m])
      <4>1. KeptFor(u, m, u.held[m]) /\ b.file = u.muxFile[m] /\ b.round = u.round
        BY <1>1, <1>2, <1>6, <3>1 DEF Kept, Still, Alike
      <4>. QED BY <1>2, <2>1, <2>2, <4>1, OneBlock DEF KeptFor
    <3>. QED BY SMTT(30), <2>2, <2>4, <3>1, <3>2 DEF Kept, KeptFor
  <2>6. Alike(t, u)
    BY <2>4 DEF Alike
  <2>7. Sound(t)
    BY <1>6, <2>4, <2>5, <2>6, KeptFrame
  <2>. QED BY <1>6, <2>2, <2>3, <2>4, <2>7 DEF Near, Still, Alike
<1>8. CASE ~(mode.m2ts /\ ~(timed /\ s.held[m] = <<>>))
  <2>1. <<b>> \in Seq(BlockSpace) /\ KeptFor(u, m, <<b>>)
    <3>1. b.file = u.muxFile[m] /\ b.round = u.round
      BY <1>2, <1>6 DEF Still, Alike
    <3>. QED BY <1>2, <3>1 DEF KeptFor
  <2>. DEFINE t == WriteBuffers(u, m, <<b>>)
  <2>2. /\ Sound(t) /\ Still(t, u) /\ t.held = u.held
        /\ m = "sub" => t.delayed = u.delayed
    BY <1>6, <2>1, WriteBuffersSound
  <2>3. WriteOutBuffer(s, m, timed) = t
    BY <1>5, <1>8
  <2>. HIDE DEF t
  <2>. QED BY <1>6, <2>2, <2>3 DEF Near, Still, Alike
<1>. QED BY <1>7, <1>8

\* A record with other failed assertions.
LEMMA AssertFrame ==
  ASSUME NEW s, Sound(s), NEW t \in MuxSpace, Alike(t, s), Asserted(t),
         t.plan = s.plan, t.held = s.held, t.delayed = s.delayed, t.rest = s.rest,
         t.round = s.round
  PROVE  Sound(t)
BY DEF Sound, Alike, Steady, Kept, KeptFor, Numbered, Apart, GoodPlan

\* An assertion that holds if writing is asynchronous or packets have 188 bytes.
LEMMA ExpectSound ==
  ASSUME NEW s, Sound(s), NEW what \in {"sync interleave", "buffer handed over", "next file"},
         NEW holds \in BOOLEAN, mode.async \/ ~mode.m2ts => holds
  PROVE  LET t == Expect(s, what, holds) IN
         /\ Sound(t) /\ Still(t, s) /\ t.held = s.held /\ t.delayed = s.delayed
         /\ t.plan = s.plan
<1>. DEFINE u == [s EXCEPT !.asserts = @ \cup {what}]
<1>1. Expect(s, what, holds) = IF holds THEN s ELSE u
  BY DEF Expect
<1>2. s \in MuxSpace /\ s.asserts \in SUBSET {"sync interleave", "buffer handed over", "next file"}
  BY SoundTypes
<1>3. CASE holds
  BY <1>1, <1>3 DEF Still, Alike
<1>4. CASE ~holds
  <2>1. ~(mode.async \/ ~mode.m2ts)
    BY <1>4
  <2>2. s.asserts \cup {what} \in SUBSET {"sync interleave", "buffer handed over", "next file"}
    BY <1>2
  <2>3. /\ u \in MuxSpace /\ u.plan = s.plan
        /\ u.muxFile = s.muxFile /\ u.objects = s.objects /\ u.packets = s.packets
        /\ u.orig = s.orig /\ u.num = s.num /\ u.name = s.name
        /\ u.rest = s.rest /\ u.round = s.round /\ u.finished = s.finished
        /\ u.started = s.started /\ u.buffer = s.buffer
        /\ u.held = s.held /\ u.delayed = s.delayed
    BY <1>2, <2>2 DEF MuxSpace
  <2>. HIDE DEF u
  <2>4. Asserted(u)
    BY <2>1 DEF Asserted
  <2>5. Sound(u)
    BY <2>3, <2>4, AssertFrame DEF Alike
  <2>. QED BY <1>1, <1>4, <2>3, <2>5 DEF Still, Alike, u
<1>. QED BY <1>3, <1>4

LEMMA DoFlushSound ==
  ASSUME NEW s, Sound(s), NEW m \in Active, mode \in Modes, NEW part \in BOOLEAN
  PROVE  LET t == DoFlush(s, m, part) IN
         /\ Sound(t) /\ Near(t, s, m) /\ t.held[m] = <<>>
         /\ t.rest[m] = (part /\ ~mode.m2ts)
         /\ t.buffer[m] = (~mode.async \/ (part /\ ~mode.m2ts))
<1>. DEFINE p == ProcessM2TSPCR(s, m)
            b == NextBlock(p, m)
            v == Made(p, b)
            u == WriteBuffers(v, m, <<b>>)
            left == part /\ ~mode.m2ts
            kept == ~mode.async \/ left
            t == [u EXCEPT !.rest[m] = left, !.buffer[m] = kept]
<1>1. m \in Muxers /\ left \in BOOLEAN /\ kept \in BOOLEAN /\ (mode.m2ts => ~left)
  BY ModeFacts
<1>2. DoFlush(s, m, part) = t
  BY DEF DoFlush
<1>3. /\ Sound(p) /\ Near(p, s, m) /\ p.held[m] = <<>>
      /\ p.rest = s.rest /\ p.buffer = s.buffer
  BY ProcessSound
<1>. HIDE DEF p, left, kept
<1>4. b \in BlockSpace /\ b.file = p.muxFile[m] /\ b.mux = m /\ b.round = p.round
  BY <1>1, <1>3, NextBlockFits
<1>. HIDE DEF b
<1>5. /\ Sound(v) /\ Alike(v, p) /\ v.held = p.held /\ v.delayed = p.delayed
      /\ v.finished = p.finished /\ v.round = p.round /\ v.rest = p.rest
      /\ v.started = p.started /\ v.buffer = p.buffer
  BY <1>3, <1>4, MadeSound
<1>. HIDE DEF v
<1>6. <<b>> \in Seq(BlockSpace) /\ KeptFor(v, m, <<b>>)
  <2>1. b.file = v.muxFile[m] /\ b.round = v.round
    BY <1>4, <1>5 DEF Alike
  <2>. QED BY <1>4, <2>1 DEF KeptFor
<1>7. /\ Sound(u) /\ Still(u, v) /\ u.held = v.held
      /\ m = "sub" => u.delayed = v.delayed
  BY <1>5, <1>6, WriteBuffersSound
<1>. HIDE DEF u
<1>. DEFINE r == [u.rest EXCEPT ![m] = left]
            c == [u.buffer EXCEPT ![m] = kept]
<1>8. u \in MuxSpace /\ u.rest \in [Muxers -> BOOLEAN] /\ u.buffer \in [Muxers -> BOOLEAN]
  <2>1. u \in MuxSpace
    BY <1>7, SoundTypes
  <2>. QED BY <2>1 DEF MuxSpace
<1>9. /\ r \in [Muxers -> BOOLEAN] /\ r[m] = left /\ \A x \in Muxers : x # m => r[x] = u.rest[x]
      /\ c \in [Muxers -> BOOLEAN] /\ c[m] = kept /\ \A x \in Muxers : x # m => c[x] = u.buffer[x]
  BY <1>1, <1>8
<1>10. t = [u EXCEPT !.rest = r, !.buffer = c]
  OBVIOUS
<1>. HIDE DEF r, c, t
<1>11. /\ t \in MuxSpace /\ t.plan = u.plan
       /\ t.muxFile = u.muxFile /\ t.objects = u.objects /\ t.packets = u.packets
       /\ t.orig = u.orig /\ t.num = u.num /\ t.name = u.name
       /\ t.rest = r /\ t.round = u.round /\ t.finished = u.finished
       /\ t.started = u.started /\ t.buffer = c
       /\ t.held = u.held /\ t.delayed = u.delayed /\ t.asserts = u.asserts
  BY <1>8, <1>9, <1>10 DEF MuxSpace
<1>12. Sound(t)
  <2>1. mode.m2ts => \A x \in Muxers : ~r[x]
    BY <1>1, <1>7, <1>9 DEF Sound
  <2>. QED BY <1>7, <1>11, <2>1
       DEF Sound, Steady, Kept, KeptFor, Asserted, Numbered, Apart, GoodPlan
<1>13. t.rest[m] = left /\ t.buffer[m] = kept /\ t.held[m] = <<>>
  BY <1>3, <1>5, <1>7, <1>9, <1>11
<1>14. Near(t, s, m)
  BY <1>3, <1>5, <1>7, <1>9, <1>11 DEF Near, Still, Alike
<1>. QED BY <1>2, <1>12, <1>13, <1>14 DEF left, kept

\* Where the ranks of the rounds are.
LEMMA Doubles ==
  ASSUME NEW n \in Nat, NEW k \in 0..n
  PROVE  /\ 2 * k \in Nat /\ 2 * n \in Nat /\ 2 * k <= 2 * n /\ 2 * n + 1 \in Nat
         /\ 2 * n <= 2 * n + 1 /\ 2 * k <= 2 * n + 1
         /\ 2 * (n + 1) \in Nat /\ 2 * n + 1 <= 2 * (n + 1)
OBVIOUS

\* When both muxers have finished a block, what was held back follows and a new
\* round begins; nothing may be kept for one of them then.
LEMMA BlockFinishedSound ==
  ASSUME NEW s, Sound(s), NEW m \in Active, mode \in Modes,
         s.finished[Sibling(m)] => \A x \in Muxers : s.held[x] = <<>>
  PROVE  LET t == MuxBlockFinished(s, m) IN
         /\ Sound(t) /\ Alike(t, s) /\ t.held = s.held /\ t.started = s.started
         /\ t.rest = s.rest /\ t.buffer = s.buffer
         /\ s.finished[Sibling(m)] => t.delayed = <<>> /\ \A x \in Muxers : ~t.finished[x]
         /\ ~s.finished[Sibling(m)] => t.delayed = s.delayed /\ t.finished[m] /\ ~t.finished[Sibling(m)]
<1>. DEFINE f == [s.finished EXCEPT ![m] = TRUE]
            t0 == [s EXCEPT !.finished = f]
            q == s.plan \o Each("write", s.delayed)
            none == [x \in Muxers |-> FALSE]
            t1 == [s EXCEPT !.plan = q, !.delayed = <<>>, !.finished = none,
                            !.round = s.round + 1]
            t == MuxBlockFinished(s, m)
<1>1. /\ s \in MuxSpace /\ s.plan \in Seq(OpSpace) /\ s.delayed \in Seq(BlockSpace)
      /\ s.round \in Nat
  BY SoundTypes
<1>2. m \in Muxers /\ Sibling(m) \in Muxers /\ Sibling(m) # m /\ Muxers = {m, Sibling(m)}
  <2>1. m \in Muxers
    BY ModeFacts
  <2>. QED BY <2>1 DEF Sibling, Muxers
<1>3. /\ f \in [Muxers -> BOOLEAN] /\ f[m] /\ f[Sibling(m)] = s.finished[Sibling(m)]
      /\ s.finished[Sibling(m)] \in BOOLEAN
  <2>1. s.finished \in [Muxers -> BOOLEAN]
    BY <1>1 DEF MuxSpace
  <2>. QED BY <1>2, <2>1
<1>4. /\ t0 \in MuxSpace /\ t0.plan = s.plan
      /\ t0.muxFile = s.muxFile /\ t0.objects = s.objects /\ t0.packets = s.packets
      /\ t0.orig = s.orig /\ t0.num = s.num /\ t0.name = s.name
      /\ t0.rest = s.rest /\ t0.round = s.round /\ t0.finished = f
      /\ t0.started = s.started /\ t0.buffer = s.buffer
      /\ t0.held = s.held /\ t0.delayed = s.delayed /\ t0.asserts = s.asserts
  <2>. HIDE DEF f
  <2>. QED BY <1>1, <1>3 DEF MuxSpace
<1>5. t0 = [s EXCEPT !.finished[m] = TRUE]
  BY <1>1 DEF MuxSpace
<1>6. (\A x \in Muxers : t0.finished[x]) <=> s.finished[Sibling(m)]
  BY <1>2, <1>3, <1>4
<1>7. CASE ~s.finished[Sibling(m)]
  <2>1. t = t0
    BY <1>5, <1>6, <1>7 DEF MuxBlockFinished
  <2>. HIDE DEF t0, f, t
  <2>2. Alike(t0, s)
    BY <1>4 DEF Alike
  <2>3. Sound(t0)
    BY <1>4, <2>2, SoundFrame
  <2>. QED BY <1>3, <1>4, <1>7, <2>1, <2>2, <2>3 DEF t
<1>8. CASE s.finished[Sibling(m)]
  <2>1. t = t1
    <3>1. Do(t0, Each("write", t0.delayed)) = [t0 EXCEPT !.plan = q]
      BY <1>4 DEF Do
    <3>2. t = [[t0 EXCEPT !.plan = q] EXCEPT !.delayed = <<>>, !.finished = none, !.round = @ + 1]
      BY <1>5, <1>6, <1>8, <3>1 DEF MuxBlockFinished
    <3>. HIDE DEF q, none, f
    <3>. QED BY <1>1, <1>3, <3>2 DEF MuxSpace
  <2>2. KeptFor(s, "main", s.delayed) /\ (~mode.interleave \/ ~mode.async => s.delayed = <<>>)
    BY DEF Sound, Steady, Kept
  <2>3. GoodPlan(file, Drained, q, s) /\ q \in Seq(OpSpace)
    <3>1. GoodPlan(file, Drained, s.plan, s) /\ PlanOk(file, Drained, s.plan)
      BY DEF Sound, GoodPlan
    <3>2. \A i \in 1..Len(s.delayed) : OpenAfter(file, s.plan, Len(s.plan), s.delayed[i].file)
      <4>1. OpenAfter(file, s.plan, Len(s.plan), s.muxFile["main"])
        BY <3>1, ModeFacts DEF GoodPlan, HasFile
      <4>. QED BY <2>2, <4>1 DEF KeptFor
    <3>3. mode.async \/ s.delayed = <<>>
      BY <2>2
    <3>4. Extended(file, Drained, s.plan, q, "write", s.delayed)
      BY <1>1, <3>1, <3>2, MoreWrites
    <3>. QED BY <1>1, <3>1, <3>2, <3>3, <3>4, GoodWrites DEF Extended
  <2>4. mode.interleave => RankedPlan(q, 2 * mux.round, 2 * (s.round + 1))
    <3>. DEFINE low == 2 * mux.round
                r == 2 * s.round
    <3>1. mux.round \in 0..s.round
      BY DEF Sound
    <3>2. low \in Nat /\ r \in Nat /\ low <= r /\ r + 1 \in Nat /\ r <= r + 1 /\ low <= r + 1
          /\ 2 * (s.round + 1) \in Nat /\ r + 1 <= 2 * (s.round + 1)
      BY <1>1, <3>1, Doubles
    <3>3. \A i \in 1..Len(s.delayed) : Rank(s.delayed[i]) = r + 1
      BY <2>2 DEF KeptFor, Rank
    <3>4. ASSUME mode.interleave PROVE RankedPlan(s.plan, low, r)
      BY <3>4 DEF Sound
    <3>. HIDE DEF low, r
    <3>5. ASSUME mode.interleave PROVE RankedPlan(q, low, r + 1)
      BY <1>1, <3>2, <3>3, <3>4, <3>5, RankedWrites
    <3>6. ASSUME mode.interleave PROVE RankedPlan(q, low, 2 * (s.round + 1))
      BY <2>3, <3>2, <3>5, <3>6, HigherRanks
    <3>. QED BY <3>6 DEF low
  <2>. HIDE DEF q, t
  <2>5. /\ t1 \in MuxSpace /\ t1.plan = q
        /\ t1.muxFile = s.muxFile /\ t1.objects = s.objects /\ t1.packets = s.packets
        /\ t1.orig = s.orig /\ t1.num = s.num /\ t1.name = s.name
        /\ t1.rest = s.rest /\ t1.round = s.round + 1 /\ t1.finished = none
        /\ t1.started = s.started /\ t1.buffer = s.buffer
        /\ t1.held = s.held /\ t1.delayed = <<>> /\ t1.asserts = s.asserts
    <3>1. <<>> \in Seq(BlockSpace) /\ s.round + 1 \in Nat /\ none \in [Muxers -> BOOLEAN]
      BY <1>1
    <3>. HIDE DEF none
    <3>. QED BY <1>1, <2>3, <3>1 DEF MuxSpace
  <2>. HIDE DEF t1
  <2>6. Kept(t1)
    <3>1. \A x \in Muxers : t1.held[x] = <<>>
      BY <1>8, <2>5
    <3>2. \A i : i \notin 1..0
      OBVIOUS
    <3>. QED BY <2>5, <3>1, <3>2 DEF Kept, KeptFor
  <2>7. Asserted(t1) /\ Numbered(t1) /\ Apart(t1)
    BY <2>5 DEF Sound, Steady, Asserted, Numbered, Apart
  <2>8. GoodPlan(file, Drained, t1.plan, t1)
    BY <2>3, <2>5 DEF GoodPlan
  <2>9. mux.round \in 0..t1.round
    <3>1. mux.round \in 0..s.round
      BY DEF Sound
    <3>. QED BY <1>1, <2>5, <3>1
  <2>10. mode.m2ts => \A x \in Muxers : ~t1.rest[x]
    BY <2>5 DEF Sound
  <2>11. Sound(t1)
    BY <2>4, <2>5, <2>6, <2>7, <2>8, <2>9, <2>10 DEF Sound, Steady
  <2>12. \A x \in Muxers : ~t1.finished[x]
    BY <2>5
  <2>. QED BY <1>8, <2>1, <2>5, <2>11, <2>12 DEF t, Alike
<1>. QED BY <1>7, <1>8

\* One more operation that is no write does not change what is ranked.
LEMMA RankedMore ==
  ASSUME NEW p \in Seq(OpSpace), NEW q \in Seq(OpSpace), NEW low, NEW high,
         RankedPlan(p, low, high),
         \A n \in 1..Len(q) : (n \in 1..Len(p) /\ q[n] = p[n]) \/ q[n].op # "write"
  PROVE  RankedPlan(q, low, high)
BY DEF RankedPlan

\* The muxing thread waits for the writer thread.
LEMMA WaitSound ==
  ASSUME NEW s, Sound(s), mode \in Modes
  PROVE  LET t == WaitForWriting(s) IN
         /\ Sound(t) /\ Still(t, s) /\ t.held = s.held /\ t.delayed = s.delayed
         /\ Waited(Drained, t.plan, Len(t.plan))
<1>. DEFINE x == Op("wait", 0)
            q == s.plan \o <<x>>
            t == Do(s, <<x>>)
<1>1. s \in MuxSpace /\ s.plan \in Seq(OpSpace) /\ Len(s.plan) \in Nat
  <2>1. s \in MuxSpace /\ s.plan \in Seq(OpSpace)
    BY SoundTypes
  <2>. QED BY <2>1
<1>2. x \in OpSpace /\ x.op = "wait"
  BY DEF Op, OpSpace
<1>3. GoodPlan(file, Drained, s.plan, s) /\ PlanOk(file, Drained, s.plan)
  BY DEF Sound, GoodPlan
<1>4. CASE mode.async
  <2>. HIDE DEF x
  <2>1. /\ PlanOk(file, Drained, q) /\ q \in Seq(OpSpace) /\ Len(q) = Len(s.plan) + 1
        /\ \A o : OpenAfter(file, s.plan, Len(s.plan), o) => OpenAfter(file, q, Len(q), o)
        /\ \A o : KnownAfter(file, s.plan, Len(s.plan), o) => KnownAfter(file, q, Len(q), o)
        /\ Waited(Drained, q, Len(q))
        /\ \A n \in 1..Len(q) : \/ n \in 1..Len(s.plan) /\ q[n] = s.plan[n]
                                \/ n = Len(s.plan) + 1 /\ q[n] = x
    <3>1. More(file, Drained, s.plan, x, q)
      BY <1>1, <1>2, <1>3, OneMore DEF Writes
    <3>. HIDE DEF q
    <3>. QED BY <1>2, <3>1 DEF More, Closes
  <2>2. /\ t \in MuxSpace /\ t.plan = q /\ Still(t, s)
        /\ t.held = s.held /\ t.delayed = s.delayed /\ t.asserts = s.asserts
    BY <1>1, <2>1, PlanFields
  <2>. HIDE DEF q
  <2>3. OpensNew(file, q, s.objects, s.name)
    <3>1. OpensNew(file, s.plan, s.objects, s.name)
      BY <1>3 DEF GoodPlan
    <3>2. \A n \in 1..Len(q) : (n \in 1..Len(s.plan) /\ q[n] = s.plan[n]) \/ q[n].op # "open"
      BY <1>2, <2>1
    <3>. QED BY <1>1, <2>1, <3>1, <3>2, LongerOpens
  <2>4. GoodPlan(file, Drained, q, s)
    BY <1>3, <1>4, <2>1, <2>3 DEF GoodPlan, HasFile
  <2>5. ASSUME mode.interleave PROVE RankedPlan(q, 2 * mux.round, 2 * s.round)
    <3>1. RankedPlan(s.plan, 2 * mux.round, 2 * s.round)
      BY <2>5 DEF Sound
    <3>2. \A n \in 1..Len(q) : (n \in 1..Len(s.plan) /\ q[n] = s.plan[n]) \/ q[n].op # "write"
      BY <1>2, <2>1
    <3>. QED BY <1>1, <2>1, <3>1, <3>2, RankedMore
  <2>. HIDE DEF t
  <2>6. Sound(t)
    BY <2>2, <2>4, <2>5, PlanFrame DEF Still
  <2>7. WaitForWriting(s) = t
    BY <1>4 DEF WaitForWriting, t, x
  <2>. QED BY <2>1, <2>2, <2>6, <2>7
<1>5. CASE ~mode.async
  <2>1. WaitForWriting(s) = s
    BY <1>5 DEF WaitForWriting
  <2>2. Drained /\ \A n \in 1..Len(s.plan) : s.plan[n].op # "write"
    BY <1>3, <1>5 DEF GoodPlan
  <2>3. 0 \in 0..Len(s.plan) /\ 0 + 1 = 1
    BY <1>1
  <2>4. Waited(Drained, s.plan, Len(s.plan))
    BY <2>2, <2>3 DEF Waited
  <2>. QED BY <2>1, <2>4 DEF Still, Alike
<1>. QED BY <1>4, <1>5, ModeFacts

\* Two operations one after the other.
LEMMA TwoMore ==
  ASSUME NEW p \in Seq(OpSpace), NEW x \in OpSpace, NEW y \in OpSpace
  PROVE  p \o <<x, y>> = (p \o <<x>>) \o <<y>>
<1>. DEFINE U == OpSpace
<1>1. p \in Seq(U) /\ x \in U /\ y \in U
  OBVIOUS
<1>. HIDE DEF U
<1>. DEFINE a == <<x>>
            b == <<y>>
            c == <<x, y>>
<1>2. a \in Seq(U) /\ b \in Seq(U) /\ c \in Seq(U)
  BY <1>1
<1>3. Len(a) = 1 /\ Len(b) = 1 /\ Len(c) = 2 /\ a[1] = x /\ b[1] = y /\ c[1] = x /\ c[2] = y
  BY <1>1
<1>. HIDE DEF a, b, c
<1>4. a \o b = c
  <2>3. /\ a \o b \in Seq(U) /\ Len(a \o b) = Len(a) + Len(b)
        /\ \A i \in 1..Len(a) + Len(b) : (a \o b)[i] = IF i <= Len(a) THEN a[i] ELSE b[i - Len(a)]
    BY <1>2, ConcatProperties
  <2>1. a \o b \in Seq(U) /\ Len(a \o b) = 2 /\ (a \o b)[1] = x /\ (a \o b)[2] = y
    BY <1>3, <2>3
  <2>2. \A i \in 1..Len(a \o b) : (a \o b)[i] = c[i]
    BY <1>3, <2>1
  <2>. QED BY <1>2, <1>3, <2>1, <2>2, SeqEqual
<1>5. (p \o a) \o b = p \o (a \o b)
  BY <1>1, <1>2, ConcatAssociative
<1>. QED BY <1>4, <1>5 DEF a, b, c

\* A file is closed and opened again when nothing is left to be written.
LEMMA CloseReopen ==
  ASSUME NEW f, NEW d, NEW p \in Seq(OpSpace), NEW v, GoodPlan(f, d, p, v),
         Waited(d, p, Len(p)), NEW o \in Objects, KnownAfter(f, p, Len(p), o)
  PROVE  LET q == p \o <<Op("close", o), Op("reopen", o)>> IN
         /\ GoodPlan(f, d, q, v) /\ q \in Seq(OpSpace)
         /\ \A n \in 1..Len(q) : (n \in 1..Len(p) /\ q[n] = p[n]) \/ q[n].op # "write"
<1>. DEFINE x == Op("close", o)
            y == Op("reopen", o)
            q1 == p \o <<x>>
            q == q1 \o <<y>>
<1>1. /\ x \in OpSpace /\ x.op = "close" /\ x.arg = o
      /\ y \in OpSpace /\ y.op = "reopen" /\ y.arg = o
  BY DEF Op, OpSpace
<1>2. PlanOk(f, d, p)
  BY DEF GoodPlan
<1>. HIDE DEF x, y
<1>3. /\ PlanOk(f, d, q1) /\ q1 \in Seq(OpSpace) /\ Len(q1) = Len(p) + 1
      /\ \A e : OpenAfter(f, p, Len(p), e) /\ e # o => OpenAfter(f, q1, Len(q1), e)
      /\ \A e : KnownAfter(f, p, Len(p), e) => KnownAfter(f, q1, Len(q1), e)
      /\ \A n \in 1..Len(q1) : \/ n \in 1..Len(p) /\ q1[n] = p[n]
                               \/ n = Len(p) + 1 /\ q1[n] = x
  <2>1. More(f, d, p, x, q1)
    BY <1>1, <1>2, OneMore DEF Writes
  <2>. HIDE DEF q1
  <2>. QED BY <1>1, <2>1 DEF More, Closes
<1>. HIDE DEF q1
<1>4. /\ PlanOk(f, d, q) /\ q \in Seq(OpSpace) /\ Len(q) = Len(q1) + 1
      /\ \A e : OpenAfter(f, q1, Len(q1), e) => OpenAfter(f, q, Len(q), e)
      /\ OpenAfter(f, q, Len(q), o)
      /\ \A e : KnownAfter(f, q1, Len(q1), e) => KnownAfter(f, q, Len(q), e)
      /\ \A n \in 1..Len(q) : \/ n \in 1..Len(q1) /\ q[n] = q1[n]
                              \/ n = Len(q1) + 1 /\ q[n] = y
  <2>1. More(f, d, q1, y, q)
    BY <1>1, <1>3, OneMore DEF Writes
  <2>. HIDE DEF q
  <2>. QED BY <1>1, <2>1 DEF More, Closes, Opens
<1>5. p \o <<x, y>> = q
  BY <1>1, TwoMore DEF q1
<1>. HIDE DEF q
<1>6. \A n \in 1..Len(q) : \/ n \in 1..Len(p) /\ q[n] = p[n]
                           \/ q[n].op # "write" /\ q[n].op # "open"
  BY <1>1, <1>3, <1>4
<1>7. OpensNew(f, q, v.objects, v.name)
  <2>1. OpensNew(f, p, v.objects, v.name)
    BY DEF GoodPlan
  <2>2. \A n \in 1..Len(q) : (n \in 1..Len(p) /\ q[n] = p[n]) \/ q[n].op # "open"
    BY <1>6
  <2>. QED BY <1>4, <2>1, <2>2, LongerOpens
<1>8. GoodPlan(f, d, q, v)
  BY <1>3, <1>4, <1>6, <1>7 DEF GoodPlan, HasFile
<1>. QED BY <1>4, <1>5, <1>6, <1>8 DEF x, y

\* One block is an operation of its own.
LEMMA EachOfOne ==
  ASSUME NEW w \in {"write", "direct", "append"}, NEW b \in BlockSpace
  PROVE  Each(w, <<b>>) = <<Op(w, b)>>
<1>1. <<b>> \in Seq(BlockSpace) /\ Len(<<b>>) = 1 /\ <<b>>[1] = b
  OBVIOUS
<1>2. Each(w, <<b>>) \in Seq(OpSpace) /\ Len(Each(w, <<b>>)) = 1
      /\ Each(w, <<b>>)[1] = Op(w, b)
  <2>. DEFINE c == <<b>>
  <2>1. c \in Seq(BlockSpace) /\ Len(c) = 1 /\ c[1] = b /\ 1 \in 1..1
    BY <1>1
  <2>. HIDE DEF c
  <2>2. /\ Each(w, c) \in Seq(OpSpace) /\ Len(Each(w, c)) = Len(c)
        /\ \A n \in 1..Len(c) : Each(w, c)[n] = [op |-> w, arg |-> c[n]]
    BY <2>1, EachOps
  <2>3. Each(w, c) \in Seq(OpSpace) /\ Len(Each(w, c)) = 1 /\ Each(w, c)[1] = Op(w, b)
    BY <2>1, <2>2 DEF Op
  <2>. QED BY <2>3 DEF c
<1>3. Op(w, b) \in OpSpace
  BY DEF Op, OpSpace
<1>. DEFINE U == OpSpace
            e == Each(w, <<b>>)
            x == Op(w, b)
<1>4. e \in Seq(U) /\ Len(e) = 1 /\ e[1] = x /\ x \in U
  BY <1>2, <1>3
<1>. HIDE DEF U, e, x
<1>5. <<x>> \in Seq(U) /\ Len(<<x>>) = 1 /\ <<x>>[1] = x
  BY <1>4
<1>6. e = <<x>>
  BY <1>4, <1>5, SeqEqual
<1>. QED BY <1>6 DEF e, x

\* The part of a physical sector that is left over is written.
LEMMA WriteRestSound ==
  ASSUME NEW s, Sound(s), NEW m \in Active, mode \in Modes
  PROVE  LET t == WriteRest(s, m) IN
         /\ Sound(t) /\ Near(t, s, m) /\ ~t.rest[m] /\ t.held = s.held
         /\ t.delayed = s.delayed /\ t.buffer = s.buffer
<1>. DEFINE b == NextBlock(s, m)
            v == Made(s, b)
            u == Do(v, <<Op("append", b)>>)
            r == [u.rest EXCEPT ![m] = FALSE]
            t == [u EXCEPT !.rest = r]
<1>1. m \in Muxers /\ s \in MuxSpace
  BY ModeFacts, SoundTypes
<1>2. s.rest \in [Muxers -> BOOLEAN]
  BY <1>1 DEF MuxSpace
<1>3. CASE ~s.rest[m]
  <2>1. WriteRest(s, m) = s
    BY <1>3 DEF WriteRest
  <2>. QED BY <1>3, <2>1 DEF Near, Alike
<1>4. CASE s.rest[m]
  <2>1. b \in BlockSpace /\ b.file = s.muxFile[m]
    BY <1>1, NextBlockFits
  <2>2. WriteRest(s, m) = t
    BY <1>4 DEF WriteRest
  <2>3. u = Do(v, Each("append", <<b>>))
    BY <2>1, EachOfOne
  <2>. HIDE DEF b, t
  <2>4. /\ Sound(v) /\ Alike(v, s) /\ v.held = s.held /\ v.delayed = s.delayed
        /\ v.finished = s.finished /\ v.round = s.round /\ v.rest = s.rest
        /\ v.plan = s.plan /\ v.started = s.started /\ v.buffer = s.buffer
    BY <2>1, MadeSound
  <2>. HIDE DEF v, u
  <2>5. /\ <<b>> \in Seq(BlockSpace) /\ Len(<<b>>) = 1 /\ <<b>>[1] = b
    BY <2>1
  <2>6. \A i \in 1..Len(<<b>>) : OpenAfter(file, v.plan, Len(v.plan), <<b>>[i].file)
    <3>1. OpenAfter(file, v.plan, Len(v.plan), v.muxFile[m])
      BY <2>4 DEF Sound, GoodPlan, HasFile
    <3>2. b.file = v.muxFile[m]
      BY <2>1, <2>4 DEF Alike
    <3>. QED BY <2>5, <3>1, <3>2
  <2>7. /\ Sound(u) /\ Still(u, v) /\ u.held = v.held /\ u.delayed = v.delayed
    <3>. DEFINE z == Do(v, Each("append", <<b>>))
    <3>1. /\ Sound(z) /\ Still(z, v) /\ z.held = v.held /\ z.delayed = v.delayed
      BY <2>4, <2>5, <2>6, WritesSound
    <3>. QED BY <2>3, <3>1
  <2>8. u \in MuxSpace /\ u.rest = s.rest
    BY <2>4, <2>7, SoundTypes DEF Still
  <2>9. /\ r \in [Muxers -> BOOLEAN] /\ ~r[m] /\ \A x \in Muxers : x # m => r[x] = s.rest[x]
    BY <1>1, <1>2, <2>8
  <2>. HIDE DEF r
  <2>10. /\ t \in MuxSpace /\ t.plan = u.plan
         /\ t.muxFile = u.muxFile /\ t.objects = u.objects /\ t.packets = u.packets
         /\ t.orig = u.orig /\ t.num = u.num /\ t.name = u.name
         /\ t.rest = r /\ t.round = u.round /\ t.finished = u.finished
         /\ t.started = u.started /\ t.buffer = u.buffer
         /\ t.held = u.held /\ t.delayed = u.delayed /\ t.asserts = u.asserts
    BY <2>8, <2>9 DEF MuxSpace, t
  <2>11. mode.m2ts => \A x \in Muxers : ~r[x]
    BY <2>7, <2>8, <2>9 DEF Sound
  <2>12. Sound(t)
    BY <2>7, <2>10, <2>11
       DEF Sound, Steady, Kept, KeptFor, Asserted, Numbered, Apart, GoodPlan
  <2>13. Near(t, s, m)
    BY <2>4, <2>7, <2>9, <2>10 DEF Near, Still, Alike
  <2>. QED BY <2>2, <2>4, <2>7, <2>9, <2>10, <2>12, <2>13 DEF Still
<1>. QED BY <1>2, <1>3, <1>4

\* The file is closed, opened without the flag for direct access, and gets the
\* part that is left over.
LEMMA FlushSound ==
  ASSUME NEW s, Sound(s), NEW m \in Active, mode \in Modes
  PROVE  LET t == FlushTSBuffer(s, m) IN
         /\ Sound(t) /\ Near(t, s, m) /\ ~t.rest[m] /\ t.held = s.held
         /\ t.delayed = s.delayed /\ t.buffer = s.buffer
<1>. DEFINE w == WaitForWriting(s)
            o == w.muxFile[m]
            q == w.plan \o <<Op("close", o), Op("reopen", o)>>
            u == Do(w, <<Op("close", o), Op("reopen", o)>>)
            t == WriteRest(u, m)
<1>1. /\ Sound(w) /\ Still(w, s) /\ w.held = s.held /\ w.delayed = s.delayed
      /\ Waited(Drained, w.plan, Len(w.plan))
  BY WaitSound
<1>2. FlushTSBuffer(s, m) = t
  BY <1>1 DEF FlushTSBuffer, Still, Alike
<1>. HIDE DEF w
<1>3. w \in MuxSpace /\ w.plan \in Seq(OpSpace) /\ o \in Objects
  <2>1. w \in MuxSpace /\ w.plan \in Seq(OpSpace) /\ \A x \in Muxers : w.muxFile[x] \in Objects
    BY <1>1, SoundTypes
  <2>. QED BY <2>1, ModeFacts
<1>4. GoodPlan(file, Drained, w.plan, w) /\ KnownAfter(file, w.plan, Len(w.plan), o)
  BY <1>1 DEF Sound, GoodPlan, HasFile
<1>. HIDE DEF o
<1>5. /\ GoodPlan(file, Drained, q, w) /\ q \in Seq(OpSpace)
      /\ \A n \in 1..Len(q) : (n \in 1..Len(w.plan) /\ q[n] = w.plan[n]) \/ q[n].op # "write"
  BY <1>1, <1>3, <1>4, CloseReopen
<1>6. /\ u \in MuxSpace /\ u.plan = q /\ Still(u, w)
      /\ u.held = w.held /\ u.delayed = w.delayed /\ u.asserts = w.asserts
  BY <1>3, <1>5, PlanFields
<1>. HIDE DEF q, u
<1>7. Sound(u)
  <2>1. ASSUME mode.interleave PROVE RankedPlan(q, 2 * mux.round, 2 * w.round)
    <3>1. RankedPlan(w.plan, 2 * mux.round, 2 * w.round)
      BY <1>1, <2>1 DEF Sound
    <3>. QED BY <1>3, <1>5, <3>1, RankedMore
  <2>2. mode.interleave => RankedPlan(u.plan, 2 * mux.round, 2 * u.round)
    BY <1>6, <2>1 DEF Still
  <2>. QED BY <1>1, <1>5, <1>6, <2>2, PlanFrame DEF Still
<1>8. /\ Sound(t) /\ Near(t, u, m) /\ ~t.rest[m] /\ t.held = u.held
      /\ t.delayed = u.delayed /\ t.buffer = u.buffer
  BY <1>7, WriteRestSound
<1>. HIDE DEF t
<1>. QED BY <1>1, <1>2, <1>6, <1>8 DEF Near, Still, Alike

\* What the next name leaves alone.
SameButName(t, s, m) ==
    /\ t.plan = s.plan /\ t.muxFile = s.muxFile /\ t.objects = s.objects /\ t.packets = s.packets
    /\ t.rest = s.rest /\ t.round = s.round /\ t.finished = s.finished
    /\ t.started = s.started /\ t.buffer = s.buffer
    /\ t.held = s.held /\ t.delayed = s.delayed /\ t.asserts = s.asserts /\ t.made = s.made
    /\ \A x \in Muxers : x # m => t.name[x] = s.name[x]

WithName(s, m, a, k) == [s EXCEPT !.name[m] = a, !.num[m] = k]

NamedAs(t, s, m, a, k) ==
    /\ t \in MuxSpace /\ SameButName(t, s, m) /\ t.orig = s.orig
    /\ t.name[m] = a /\ t.num[m] = k
    /\ \A x \in Muxers : x # m => t.name[x] = s.name[x] /\ t.num[x] = s.num[x]

\* A record with another name and number for muxer m.
LEMMA Renamed ==
  ASSUME NEW s \in MuxSpace, NEW m \in Muxers, NEW a \in Nat, NEW k \in Nat
  PROVE  NamedAs(WithName(s, m, a, k), s, m, a, k)
<1>. DEFINE n1 == [s.name EXCEPT ![m] = a]
            n2 == [s.num EXCEPT ![m] = k]
            t == WithName(s, m, a, k)
<1>1. s.name \in [Muxers -> Nat] /\ s.num \in [Muxers -> Nat]
  BY DEF MuxSpace
<1>2. /\ n1 \in [Muxers -> Nat] /\ n1[m] = a /\ \A x \in Muxers : x # m => n1[x] = s.name[x]
      /\ n2 \in [Muxers -> Nat] /\ n2[m] = k /\ \A x \in Muxers : x # m => n2[x] = s.num[x]
  BY <1>1
<1>3. t = [s EXCEPT !.name = n1, !.num = n2]
  BY DEF WithName
<1>. HIDE DEF n1, n2
<1>4. /\ t \in MuxSpace /\ t.plan = s.plan /\ t.orig = s.orig
      /\ t.muxFile = s.muxFile /\ t.objects = s.objects /\ t.packets = s.packets
      /\ t.rest = s.rest /\ t.round = s.round /\ t.finished = s.finished
      /\ t.started = s.started /\ t.buffer = s.buffer
      /\ t.held = s.held /\ t.delayed = s.delayed /\ t.asserts = s.asserts
      /\ t.name = n1 /\ t.num = n2 /\ t.made = s.made
  BY ZenonT(60), <1>2, <1>3 DEF MuxSpace
<1>. HIDE DEF t
<1>5. NamedAs(t, s, m, a, k)
  BY <1>2, <1>4 DEF SameButName, NamedAs
<1>. QED BY <1>5 DEF t

\* The next name is higher, and even or odd as the muxer's names are.
LEMMA NextNameRises ==
  ASSUME NEW s \in MuxSpace, Numbered(s), NEW m \in Muxers, mode \in Modes,
         mode.split, ~mode.joined
  PROVE  LET t == NextName(s, m) IN
         /\ t \in MuxSpace /\ SameButName(t, s, m) /\ Numbered(t)
         /\ t.name[m] > s.name[m]
<1>. DEFINE t == NextName(s, m)
            g == GetNextName(s, m)
            c == s.orig[m]
            k == s.num[m]
<1>1. /\ k \in Nat /\ c \in Nat /\ s.name[m] \in Nat /\ c = IF m = "sub" THEN 1 ELSE 0
      /\ mode.bluray => s.name[m] = c + k - 1
      /\ ~mode.bluray => s.name[m] = k
      /\ Parity(m, s.name[m])
  <2>1. s.num[m] \in Nat /\ s.orig[m] \in Nat /\ s.name[m] \in Nat
    BY DEF MuxSpace
  <2>. QED BY <2>1 DEF Numbered
<1>2. mode.stereo => mode.bluray
  BY ModeFacts
<1>3. /\ mode.bluray => g = WithName(s, m, c + k, k + 1)
      /\ ~mode.bluray => g = WithName(s, m, k + 1, k + 1)
  BY DEF GetNextName, WithName
<1>4. CASE ~mode.stereo
  <2>. DEFINE a == IF mode.bluray THEN c + k ELSE k + 1
  <2>1. t = WithName(s, m, a, k + 1)
    BY <1>3, <1>4 DEF NextName
  <2>2. a \in Nat /\ k + 1 \in Nat /\ a > s.name[m]
    BY <1>1
  <2>3. (mode.bluray => a = c + (k + 1) - 1) /\ (~mode.bluray => a = k + 1)
    BY <1>1
  <2>. HIDE DEF a, t
  <2>4. /\ t \in MuxSpace /\ SameButName(t, s, m) /\ t.orig = s.orig
        /\ t.name[m] = a /\ t.num[m] = k + 1
        /\ \A x \in Muxers : x # m => t.name[x] = s.name[x] /\ t.num[x] = s.num[x]
    <3>1. NamedAs(WithName(s, m, a, k + 1), s, m, a, k + 1)
      BY <1>1, <2>2, Renamed
    <3>. QED BY <2>1, <3>1 DEF NamedAs
  <2>5. Parity(m, a)
    BY <1>4 DEF Parity
  <2>6. Numbered(t)
    BY <1>1, <2>3, <2>4, <2>5 DEF Numbered
  <2>. QED BY <2>2, <2>4, <2>6 DEF t
<1>5. CASE mode.stereo
  <2>1. t = GetNextName(g, m) /\ mode.bluray
    BY <1>2, <1>5 DEF NextName
  <2>. HIDE DEF g, t
  <2>2. c + k \in Nat /\ k + 1 \in Nat /\ c + (k + 1) \in Nat /\ k + 2 \in Nat /\ (k + 1) + 1 = k + 2
    BY <1>1
  <2>3. /\ g \in MuxSpace /\ SameButName(g, s, m) /\ g.orig = s.orig /\ g.num[m] = k + 1
        /\ \A x \in Muxers : x # m => g.name[x] = s.name[x] /\ g.num[x] = s.num[x]
    <3>1. NamedAs(WithName(s, m, c + k, k + 1), s, m, c + k, k + 1)
      BY <1>1, <2>2, Renamed
    <3>. QED BY <1>3, <2>1, <3>1 DEF NamedAs
  <2>4. t = WithName(g, m, c + (k + 1), k + 2)
    BY <2>1, <2>2, <2>3 DEF GetNextName, WithName
  <2>5. /\ t \in MuxSpace /\ SameButName(t, s, m) /\ t.orig = s.orig
        /\ t.name[m] = c + (k + 1) /\ t.num[m] = k + 2
        /\ \A x \in Muxers : x # m => t.name[x] = s.name[x] /\ t.num[x] = s.num[x]
    <3>1. /\ t \in MuxSpace /\ SameButName(t, g, m) /\ t.orig = g.orig
          /\ t.name[m] = c + (k + 1) /\ t.num[m] = k + 2
          /\ \A x \in Muxers : x # m => t.name[x] = g.name[x] /\ t.num[x] = g.num[x]
      <4>1. NamedAs(WithName(g, m, c + (k + 1), k + 2), g, m, c + (k + 1), k + 2)
        BY <2>2, <2>3, Renamed
      <4>. QED BY <2>4, <4>1 DEF NamedAs
    <3>. QED BY <2>3, <3>1 DEF SameButName
  <2>6. t.name[m] = s.name[m] + 2 /\ t.name[m] > s.name[m] /\ t.name[m] = c + t.num[m] - 1
    BY <1>1, <2>1, <2>5
  <2>7. Parity(m, t.name[m])
    BY <1>1, <2>6 DEF Parity
  <2>8. Numbered(t)
    BY <1>1, <2>1, <2>5, <2>6, <2>7 DEF Numbered
  <2>. QED BY <2>5, <2>6, <2>8 DEF t
<1>. QED BY <1>4, <1>5, ModeFacts

\* The files that a plan leaves open are among those counted.
LEMMA FilesCounted ==
  ASSUME NEW f, NEW d, NEW p \in Seq(OpSpace), NEW v, GoodPlan(f, d, p, v),
         NEW o \in Objects, KnownAfter(f, p, Len(p), o)
  PROVE  o <= v.objects
BY DEF GoodPlan, OpensNew, KnownAfter

\* The plan opens one more file, of the next number and a higher name.
LEMMA OpensOneMore ==
  ASSUME NEW f \in FileSpace, NEW p \in Seq(OpSpace), NEW q \in Seq(OpSpace),
         NEW objs \in Nat, NEW names \in [Muxers -> Nat], NEW higher \in [Muxers -> Nat],
         OpensNew(f, p, objs, names), NEW m \in Muxers, Owner(m), Parity(m, higher[m]),
         objs + 1 \in Objects, higher[m] > names[m],
         \A x \in Muxers : x # m => higher[x] = names[x],
         \A n \in 1..Len(q) :
            \/ n \in 1..Len(p) /\ q[n] = p[n]
            \/ n > Len(p) /\ q[n].op # "open"
            \/ n > Len(p) /\ n = Len(q)
               /\ q[n] = Op("open", [obj |-> objs + 1, mux |-> m, name |-> higher[m]])
  PROVE  OpensNew(f, q, objs + 1, higher)
<1>. DEFINE x == Op("open", [obj |-> objs + 1, mux |-> m, name |-> higher[m]])
<1>1. x.op = "open" /\ x.arg.obj = objs + 1 /\ x.arg.mux = m /\ x.arg.name = higher[m]
  BY DEF Op
<1>2. \A y \in Muxers : names[y] \in Nat /\ higher[y] \in Nat /\ names[y] <= higher[y]
  BY SMTT(30)
<1>3. \A n \in 1..Len(p) : p[n] \in OpSpace
  OBVIOUS
<1>4. \A n \in 1..Len(p) : p[n].op = "open" =>
        p[n].arg.obj \in Objects /\ p[n].arg.obj \in Nat /\ p[n].arg.mux \in Muxers /\ p[n].arg.name \in Nat
  <2>1. \A x0 \in OpSpace : x0.op = "open" =>
          x0.arg.obj \in Objects /\ x0.arg.mux \in Muxers /\ x0.arg.name \in Nat
    BY DEF OpSpace
  <2>2. \A o \in Objects : o \in Nat
    BY DEF Objects
  <2>. QED BY <1>3, <2>1, <2>2
<1>5. \A o \in Objects : f[o].mux \in Muxers /\ f[o].name \in Nat /\ o \in Nat
  <2>1. \A o \in Objects : o \in Nat
    BY DEF Objects
  <2>. QED BY <2>1 DEF FileSpace
<1>. HIDE DEF x
<1>6. \A o \in Objects : f[o].state # "none" =>
        /\ o <= objs + 1 /\ o # objs + 1 /\ f[o].name <= higher[f[o].mux]
        /\ f[o].mux = m => f[o].name < higher[m]
  <2>. SUFFICES ASSUME NEW o \in Objects, f[o].state # "none"
                PROVE  /\ o <= objs + 1 /\ o # objs + 1 /\ f[o].name <= higher[f[o].mux]
                       /\ f[o].mux = m => f[o].name < higher[m]
    OBVIOUS
  <2>1. o <= objs /\ f[o].name <= names[f[o].mux]
    BY DEF OpensNew
  <2>. QED BY <1>2, <1>5, <2>1
<1>7. \A n \in 1..Len(p) : p[n].op = "open" =>
         /\ p[n].arg.obj <= objs + 1 /\ p[n].arg.obj # objs + 1
         /\ f[p[n].arg.obj].state = "none"
         /\ p[n].arg.name <= higher[p[n].arg.mux]
         /\ p[n].arg.mux = m => p[n].arg.name < higher[m]
         /\ Owner(p[n].arg.mux) /\ Parity(p[n].arg.mux, p[n].arg.name)
         /\ \A o \in Objects : f[o].state # "none" /\ f[o].mux = p[n].arg.mux => f[o].name < p[n].arg.name
  <2>. SUFFICES ASSUME NEW n \in 1..Len(p), p[n].op = "open"
                PROVE  /\ p[n].arg.obj <= objs + 1 /\ p[n].arg.obj # objs + 1
                       /\ f[p[n].arg.obj].state = "none"
                       /\ p[n].arg.name <= higher[p[n].arg.mux]
                       /\ p[n].arg.mux = m => p[n].arg.name < higher[m]
                       /\ Owner(p[n].arg.mux) /\ Parity(p[n].arg.mux, p[n].arg.name)
                       /\ \A o \in Objects : f[o].state # "none" /\ f[o].mux = p[n].arg.mux => f[o].name < p[n].arg.name
    OBVIOUS
  <2>1. /\ p[n].arg.obj <= objs /\ f[p[n].arg.obj].state = "none"
        /\ p[n].arg.name <= names[p[n].arg.mux]
        /\ Owner(p[n].arg.mux) /\ Parity(p[n].arg.mux, p[n].arg.name)
        /\ \A o \in Objects : f[o].state # "none" /\ f[o].mux = p[n].arg.mux => f[o].name < p[n].arg.name
    BY DEF OpensNew
  <2>2. p[n].arg.obj \in Nat /\ p[n].arg.mux \in Muxers /\ p[n].arg.name \in Nat
    BY <1>4
  <2>. QED BY <1>2, <2>1, <2>2
<1>8. f[objs + 1].state = "none"
  BY <1>6
<1>9. ASSUME NEW n \in 1..Len(q), q[n].op = "open"
      PROVE  /\ q[n].arg.obj <= objs + 1 /\ f[q[n].arg.obj].state = "none"
             /\ q[n].arg.name <= higher[q[n].arg.mux]
             /\ Owner(q[n].arg.mux) /\ Parity(q[n].arg.mux, q[n].arg.name)
             /\ \A o \in Objects : f[o].state # "none" /\ f[o].mux = q[n].arg.mux => f[o].name < q[n].arg.name
  <2>1. CASE n \in 1..Len(p) /\ q[n] = p[n]
    BY <1>7, <1>9, <2>1
  <2>2. CASE q[n] = x
    BY <1>1, <1>2, <1>6, <1>8, <2>2
  <2>. QED BY <1>9, <2>1, <2>2 DEF x
<1>10. ASSUME NEW k \in 1..Len(q), NEW n \in 1..Len(q), k < n, q[k].op = "open", q[n].op = "open"
       PROVE  /\ q[k].arg.obj # q[n].arg.obj
              /\ q[k].arg.mux = q[n].arg.mux => q[k].arg.name < q[n].arg.name
  <2>0. Len(p) \in Nat /\ Len(q) \in Nat
    OBVIOUS
  <2>1. k \in 1..Len(p) /\ q[k] = p[k]
    BY <1>10, <2>0
  <2>2. CASE n \in 1..Len(p) /\ q[n] = p[n]
    BY <1>10, <2>1, <2>2 DEF OpensNew
  <2>3. CASE q[n] = x
    BY <1>1, <1>7, <1>10, <2>1, <2>3
  <2>. QED BY <1>10, <2>2, <2>3 DEF x
<1>. QED BY <1>6, <1>9, <1>10 DEF OpensNew

\* A file is closed and the next one opened.
LEMMA CloseOpen ==
  ASSUME NEW f \in FileSpace, NEW d, NEW p \in Seq(OpSpace), NEW v \in MuxSpace,
         GoodPlan(f, d, p, v), Waited(d, p, Len(p)), mode \in Modes, ~mode.joined,
         NEW m \in Active, Apart(v),
         NEW t \in MuxSpace, t.objects = v.objects + 1, t.muxFile[m] = v.objects + 1,
         \A x \in Muxers : x # m => t.muxFile[x] = v.muxFile[x] /\ t.name[x] = v.name[x],
         t.name[m] > v.name[m], Parity(m, t.name[m]),
         NEW q, q = p \o <<Op("close", v.muxFile[m]),
                           Op("open", [obj |-> v.objects + 1, mux |-> m, name |-> t.name[m]])>>
  PROVE  /\ GoodPlan(f, d, q, t) /\ q \in Seq(OpSpace)
         /\ \A n \in 1..Len(q) : (n \in 1..Len(p) /\ q[n] = p[n]) \/ q[n].op # "write"
<1>. DEFINE o == v.muxFile[m]
            e == v.objects + 1
            x == Op("close", o)
            y == Op("open", [obj |-> e, mux |-> m, name |-> t.name[m]])
            q1 == p \o <<x>>
<1>1. /\ m \in Muxers /\ Owner(m) /\ o \in Objects /\ e \in Objects /\ v.objects \in Nat
      /\ v.name \in [Muxers -> Nat] /\ t.name \in [Muxers -> Nat] /\ t.name[m] \in Nat
  <2>1. m \in Muxers
    BY ModeFacts
  <2>2. /\ v.muxFile \in [Muxers -> Objects] /\ v.objects \in Objects /\ t.objects \in Objects
        /\ v.name \in [Muxers -> Nat] /\ t.name \in [Muxers -> Nat]
    BY DEF MuxSpace
  <2>3. \A z \in Objects : z \in Nat
    BY DEF Objects
  <2>. QED BY <2>1, <2>2, <2>3 DEF Owner
<1>2. /\ x \in OpSpace /\ x.op = "close" /\ x.arg = o
      /\ y \in OpSpace /\ y.op = "open" /\ y.arg.obj = e
  BY <1>1 DEF Op, OpSpace
<1>3. \A z \in Muxers : z # m /\ z \in Active => v.muxFile[z] # o
  BY <1>1 DEF Apart, Active, Muxers
<1>4. PlanOk(f, d, p) /\ KnownAfter(f, p, Len(p), o)
  BY DEF GoodPlan, HasFile
<1>5. (p \o <<x>>) \o <<y>> = q
  BY <1>2, TwoMore
<1>. HIDE DEF x, y, o, e
<1>6. /\ PlanOk(f, d, q1) /\ q1 \in Seq(OpSpace) /\ Len(q1) = Len(p) + 1
      /\ \A z : OpenAfter(f, p, Len(p), z) /\ z # o => OpenAfter(f, q1, Len(q1), z)
      /\ \A z : KnownAfter(f, p, Len(p), z) => KnownAfter(f, q1, Len(q1), z)
      /\ \A n \in 1..Len(q1) : \/ n \in 1..Len(p) /\ q1[n] = p[n]
                               \/ n = Len(p) + 1 /\ q1[n] = x
  <2>1. More(f, d, p, x, q1)
    BY <1>2, <1>4, OneMore DEF Writes
  <2>. HIDE DEF q1
  <2>. QED BY <1>2, <2>1 DEF More, Closes
<1>. HIDE DEF q1
<1>7. q1 \o <<y>> = q
  BY <1>5 DEF q1
<1>8. /\ PlanOk(f, d, q) /\ q \in Seq(OpSpace) /\ Len(q) = Len(q1) + 1
      /\ \A z : OpenAfter(f, q1, Len(q1), z) => OpenAfter(f, q, Len(q), z)
      /\ OpenAfter(f, q, Len(q), e)
      /\ \A z : KnownAfter(f, q1, Len(q1), z) => KnownAfter(f, q, Len(q), z)
      /\ KnownAfter(f, q, Len(q), e)
      /\ \A n \in 1..Len(q) : \/ n \in 1..Len(q1) /\ q[n] = q1[n]
                              \/ n = Len(q1) + 1 /\ q[n] = y
  <2>1. More(f, d, q1, y, q)
    BY <1>2, <1>6, <1>7, OneMore DEF Writes
  <2>. QED BY <1>2, <2>1 DEF More, Closes, Opens
<1>9. Len(p) \in Nat
  OBVIOUS
<1>10. \A n \in 1..Len(q) : \/ n \in 1..Len(p) /\ q[n] = p[n]
                            \/ n > Len(p) /\ n # Len(q) /\ q[n] = x
                            \/ n > Len(p) /\ n = Len(q) /\ q[n] = y
  BY <1>6, <1>8, <1>9
<1>11. OpensNew(f, q, t.objects, t.name)
  <2>1. OpensNew(f, p, v.objects, v.name)
    BY DEF GoodPlan
  <2>2. \A n \in 1..Len(q) :
            \/ n \in 1..Len(p) /\ q[n] = p[n]
            \/ n > Len(p) /\ q[n].op # "open"
            \/ n > Len(p) /\ n = Len(q)
               /\ q[n] = Op("open", [obj |-> v.objects + 1, mux |-> m, name |-> t.name[m]])
    BY <1>2, <1>10 DEF y, e
  <2>3. \A z \in Muxers : z # m => t.name[z] = v.name[z]
    OBVIOUS
  <2>4. OpensNew(f, q, v.objects + 1, t.name)
    BY ZenonT(60), <1>1, <1>8, <2>1, <2>2, <2>3, OpensOneMore DEF e
  <2>. QED BY <2>4
<1>12. \A z \in Active : HasFile(f, q, t.muxFile[z])
  <2>. SUFFICES ASSUME NEW z \in Active PROVE HasFile(f, q, t.muxFile[z])
    OBVIOUS
  <2>1. CASE z = m
    BY <1>8, <2>1 DEF HasFile, e
  <2>2. CASE z # m
    <3>1. z \in Muxers /\ t.muxFile[z] = v.muxFile[z] /\ v.muxFile[z] # o
      BY <1>3, <2>2, ModeFacts
    <3>2. HasFile(f, p, v.muxFile[z])
      BY DEF GoodPlan
    <3>. QED BY <1>6, <1>8, <3>1, <3>2 DEF HasFile
  <2>. QED BY <2>1, <2>2
<1>13. ~mode.async => d /\ \A n \in 1..Len(q) : q[n].op # "write"
  BY <1>2, <1>10 DEF GoodPlan
<1>14. GoodPlan(f, d, q, t)
  BY <1>8, <1>11, <1>12, <1>13 DEF GoodPlan
<1>. QED BY <1>2, <1>8, <1>10, <1>14

\* What changing the file leaves alone.
SameButFile(t, s) ==
    /\ t.packets = s.packets /\ t.rest = s.rest /\ t.round = s.round
    /\ t.finished = s.finished /\ t.started = s.started /\ t.buffer = s.buffer
    /\ t.held = s.held /\ t.delayed = s.delayed

\* A muxer goes to its next file; nothing may be kept for it then.
LEMMA NextFileSound ==
  ASSUME NEW s, Sound(s), NEW m \in Active, mode \in Modes, mode.split, ~mode.joined,
         file \in FileSpace, ~s.rest[m], s.held[m] = <<>>,
         m = "main" => s.delayed = <<>>, s.objects + 1 \in Objects
  PROVE  LET t == GotoNextFile(s, m) IN
         Sound(t) /\ SameButFile(t, s) /\ t.objects = s.objects + 1
<1>. DEFINE w == WaitForWriting(s)
            x == Op("close", w.muxFile[m])
            c == Do(w, <<x>>)
            n == NextName(c, m)
            y == Op("open", [obj |-> n.objects + 1, mux |-> m, name |-> n.name[m]])
            d2 == Do(n, <<y>>)
            files == [d2.muxFile EXCEPT ![m] = n.objects + 1]
            t == [d2 EXCEPT !.muxFile = files, !.objects = n.objects + 1]
<1>1. /\ Sound(w) /\ Still(w, s) /\ w.held = s.held /\ w.delayed = s.delayed
      /\ Waited(Drained, w.plan, Len(w.plan))
  BY WaitSound
<1>2. GotoNextFile(s, m) = OpenDstFile(n, m)
  <2>1. Expect(c, "next file", ~s.rest[m]) = c
    BY DEF Expect
  <2>2. w.muxFile = s.muxFile
    BY <1>1 DEF Still, Alike
  <2>3. x = Op("close", s.muxFile[m])
    BY <2>2
  <2>. QED BY <2>1, <2>3 DEF GotoNextFile
<1>. HIDE DEF w
<1>3. m \in Muxers /\ w \in MuxSpace /\ w.plan \in Seq(OpSpace) /\ w.muxFile[m] \in Objects
      /\ w.objects = s.objects /\ w.rest = s.rest
  <2>1. m \in Muxers /\ w \in MuxSpace /\ w.plan \in Seq(OpSpace)
    BY <1>1, ModeFacts, SoundTypes
  <2>2. w.muxFile[m] \in Objects
    BY <1>1, <2>1, SoundTypes
  <2>. QED BY <1>1, <2>1, <2>2 DEF Still, Alike
<1>4. x \in OpSpace
  BY <1>3 DEF Op, OpSpace
<1>. HIDE DEF x
<1>5. /\ c \in MuxSpace /\ c.plan = w.plan \o <<x>> /\ Still(c, w)
      /\ c.held = w.held /\ c.delayed = w.delayed /\ c.asserts = w.asserts
  <2>1. w.plan \o <<x>> \in Seq(OpSpace)
    BY <1>3, <1>4
  <2>. QED BY <1>3, <2>1, PlanFields
<1>. HIDE DEF c
<1>6. Numbered(c)
  BY <1>1, <1>5 DEF Still, Alike, Sound, Steady, Numbered
<1>7. n \in MuxSpace /\ SameButName(n, c, m) /\ Numbered(n) /\ n.name[m] > c.name[m]
  BY <1>3, <1>5, <1>6, NextNameRises
<1>. HIDE DEF n
<1>8. /\ n.objects = s.objects /\ n.objects + 1 \in Objects /\ n.plan = w.plan \o <<x>>
      /\ n.name[m] \in Nat /\ n.muxFile = w.muxFile
  BY <1>3, <1>5, <1>7 DEF Still, Alike, SameButName, MuxSpace
<1>9. y \in OpSpace
  BY <1>3, <1>8 DEF Op, OpSpace
<1>10. OpenDstFile(n, m) = t
  BY <1>8 DEF OpenDstFile, Do, Op
<1>. HIDE DEF y
<1>11. /\ d2 \in MuxSpace /\ d2.plan = n.plan \o <<y>> /\ Still(d2, n)
       /\ d2.held = n.held /\ d2.delayed = n.delayed /\ d2.asserts = n.asserts
  <2>1. n.plan \in Seq(OpSpace)
    BY <1>7 DEF MuxSpace
  <2>2. n.plan \o <<y>> \in Seq(OpSpace)
    BY <1>9, <2>1
  <2>. QED BY <1>7, <2>2, PlanFields
<1>. HIDE DEF d2
<1>12. /\ files \in [Muxers -> Objects] /\ files[m] = s.objects + 1
       /\ \A z \in Muxers : z # m => files[z] = w.muxFile[z]
  <2>1. d2.muxFile \in [Muxers -> Objects] /\ d2.muxFile = w.muxFile
    BY <1>8, <1>11 DEF MuxSpace, Still, Alike
  <2>. QED BY <1>3, <1>8, <2>1
<1>. HIDE DEF files
<1>13. /\ t \in MuxSpace /\ t.plan = d2.plan /\ t.muxFile = files /\ t.objects = s.objects + 1
       /\ t.packets = d2.packets /\ t.orig = d2.orig /\ t.num = d2.num /\ t.name = d2.name
       /\ t.rest = d2.rest /\ t.round = d2.round /\ t.finished = d2.finished
       /\ t.started = d2.started /\ t.buffer = d2.buffer
       /\ t.held = d2.held /\ t.delayed = d2.delayed /\ t.asserts = d2.asserts
  BY <1>8, <1>11, <1>12 DEF MuxSpace
<1>. HIDE DEF t
<1>14. /\ SameButFile(t, w) /\ SameButFile(t, s) /\ t.asserts = w.asserts /\ t.name = n.name
       /\ t.orig = n.orig /\ t.num = n.num
  BY <1>1, <1>5, <1>7, <1>11, <1>13 DEF SameButFile, SameButName, Still, Alike
<1>15. t.plan = w.plan \o <<x, y>>
  BY <1>3, <1>4, <1>8, <1>9, <1>11, <1>13, TwoMore
<1>16. Numbered(t)
  BY <1>7, <1>14 DEF Numbered
<1>17. /\ GoodPlan(file, Drained, t.plan, t)
       /\ \A k \in 1..Len(t.plan) : (k \in 1..Len(w.plan) /\ t.plan[k] = w.plan[k]) \/ t.plan[k].op # "write"
  <2>1. GoodPlan(file, Drained, w.plan, w) /\ Apart(w)
    BY <1>1 DEF Sound, Steady
  <2>2. \A z \in Muxers : z # m => t.muxFile[z] = w.muxFile[z] /\ t.name[z] = w.name[z]
    BY <1>5, <1>7, <1>12, <1>13, <1>14 DEF SameButName, Still, Alike
  <2>3. t.name[m] > w.name[m] /\ Parity(m, t.name[m])
    BY <1>3, <1>5, <1>7, <1>14, <1>16 DEF Still, Alike, Numbered
  <2>4. t.objects = w.objects + 1 /\ t.muxFile[m] = w.objects + 1
    BY <1>3, <1>12, <1>13
  <2>5. t.plan = w.plan \o <<Op("close", w.muxFile[m]),
                             Op("open", [obj |-> w.objects + 1, mux |-> m, name |-> t.name[m]])>>
    BY <1>3, <1>8, <1>14, <1>15 DEF x, y
  <2>. QED BY ZenonT(60), <1>1, <1>3, <1>13, <2>1, <2>2, <2>3, <2>4, <2>5, CloseOpen
<1>18. Kept(t)
  <2>1. Kept(w)
    BY <1>1 DEF Sound, Steady
  <2>2. t.held = w.held /\ t.delayed = w.delayed /\ t.round = w.round
    BY <1>14 DEF SameButFile
  <2>3. \A z \in Muxers : z # m => t.muxFile[z] = w.muxFile[z]
    BY <1>12, <1>13
  <2>4. t.held[m] = <<>> /\ (m = "main" => t.delayed = <<>>)
    BY <1>14 DEF SameButFile
  <2>5. \A i : i \notin 1..0
    OBVIOUS
  <2>6. ASSUME NEW z \in Muxers PROVE KeptFor(t, z, t.held[z])
    BY <2>1, <2>2, <2>3, <2>4, <2>5 DEF Kept, KeptFor
  <2>7. KeptFor(t, "main", t.delayed)
    <3>1. "main" \in Muxers
      BY DEF Muxers
    <3>. QED BY <2>1, <2>2, <2>3, <2>4, <2>5, <3>1 DEF Kept, KeptFor
  <2>. QED BY <2>1, <2>2, <2>6, <2>7 DEF Kept
<1>19. Apart(t)
  <2>1. \A z \in Active : w.muxFile[z] <= s.objects
    <3>. SUFFICES ASSUME NEW z \in Active PROVE w.muxFile[z] <= s.objects
      OBVIOUS
    <3>1. GoodPlan(file, Drained, w.plan, w) /\ HasFile(file, w.plan, w.muxFile[z])
      BY <1>1 DEF Sound, GoodPlan
    <3>2. w.muxFile[z] \in Objects
      BY <1>1, ModeFacts, SoundTypes
    <3>. QED BY <1>3, <3>1, <3>2, FilesCounted DEF HasFile
  <2>2. \A z \in Active : z # m => t.muxFile[z] # t.muxFile[m]
    <3>. SUFFICES ASSUME NEW z \in Active, z # m PROVE t.muxFile[z] # t.muxFile[m]
      OBVIOUS
    <3>1. t.muxFile[z] = w.muxFile[z] /\ t.muxFile[m] = s.objects + 1 /\ w.muxFile[z] \in Objects
      BY <1>1, <1>12, <1>13, ModeFacts, SoundTypes
    <3>2. w.muxFile[z] \in Int /\ s.objects \in Int
      <4>1. s.objects \in Objects
        BY <1>3 DEF MuxSpace
      <4>. QED BY <3>1, <4>1 DEF Objects
    <3>. QED BY <2>1, <3>1, <3>2
  <2>. QED BY <1>3, <2>2, ModeFacts DEF Apart, Muxers
<1>20. Asserted(t)
  BY <1>1, <1>14 DEF Sound, Steady, Asserted
<1>21. mode.interleave => RankedPlan(t.plan, 2 * mux.round, 2 * t.round)
  <2>. SUFFICES ASSUME mode.interleave PROVE RankedPlan(t.plan, 2 * mux.round, 2 * t.round)
    OBVIOUS
  <2>1. RankedPlan(w.plan, 2 * mux.round, 2 * w.round)
    BY <1>1 DEF Sound
  <2>2. t.plan \in Seq(OpSpace) /\ t.round = w.round
    BY <1>13, <1>14 DEF MuxSpace, SameButFile
  <2>. QED BY <1>3, <1>17, <2>1, <2>2, RankedMore
<1>22. Sound(t)
  <2>1. mux.round \in 0..t.round /\ (mode.m2ts => \A z \in Muxers : ~t.rest[z])
    BY <1>1, <1>14 DEF Sound, SameButFile
  <2>. QED BY <1>13, <1>16, <1>17, <1>18, <1>19, <1>20, <1>21, <2>1 DEF Sound, Steady
<1>. QED BY <1>2, <1>10, <1>13, <1>14, <1>22

\* A PCR is written: the muxer has begun.
LEMMA PCRSound ==
  ASSUME NEW s, Sound(s), NEW m \in Active, mode \in Modes
  PROVE  LET t == WritePCR(s, m) IN
         /\ Sound(t) /\ Alike(t, s) /\ t.round = s.round /\ t.finished = s.finished
         /\ t.rest = s.rest /\ t.buffer = s.buffer /\ t.held[m] = <<>> /\ t.started[m]
         /\ \A x \in Muxers : x # m => t.held[x] = s.held[x]
         /\ Fresh(s) => Fresh(t)
<1>. DEFINE u == ProcessM2TSPCR(s, m)
            b == [u.started EXCEPT ![m] = TRUE]
            t == [u EXCEPT !.started = b]
<1>1. /\ Sound(u) /\ Near(u, s, m) /\ u.held[m] = <<>>
      /\ u.rest = s.rest /\ u.buffer = s.buffer
  BY ProcessSound
<1>2. WritePCR(s, m) = t
  BY DEF WritePCR
<1>. HIDE DEF u
<1>3. m \in Muxers /\ u \in MuxSpace
  BY <1>1, ModeFacts, SoundTypes
<1>4. b \in [Muxers -> BOOLEAN] /\ b[m] /\ \A x \in Muxers : x # m => b[x] = u.started[x]
  <2>1. u.started \in [Muxers -> BOOLEAN]
    BY <1>3 DEF MuxSpace
  <2>. QED BY <1>3, <2>1
<1>. HIDE DEF b
<1>5. /\ t \in MuxSpace /\ t.plan = u.plan
      /\ t.muxFile = u.muxFile /\ t.objects = u.objects /\ t.packets = u.packets
      /\ t.orig = u.orig /\ t.num = u.num /\ t.name = u.name
      /\ t.rest = u.rest /\ t.round = u.round /\ t.finished = u.finished
      /\ t.started = b /\ t.buffer = u.buffer
      /\ t.held = u.held /\ t.delayed = u.delayed /\ t.asserts = u.asserts
  BY <1>3, <1>4 DEF MuxSpace
<1>. HIDE DEF t
<1>6. Alike(t, u) /\ Sound(t)
  <2>1. Alike(t, u)
    BY <1>5 DEF Alike
  <2>. QED BY <1>1, <1>5, <2>1, SoundFrame
<1>7. Fresh(s) => Fresh(t)
  <2>. SUFFICES ASSUME Fresh(s) PROVE Fresh(t)
    OBVIOUS
  <2>1. m = "main" \/ m = "sub"
    BY <1>3 DEF Muxers
  <2>2. "main" \in Muxers /\ (m = "sub" => m # "main")
    BY DEF Muxers
  <2>. QED BY <1>1, <1>4, <1>5, <2>1, <2>2 DEF Fresh, Near
<1>. QED BY <1>1, <1>2, <1>4, <1>5, <1>6, <1>7 DEF Near, Alike

\* No part of a sector is left over, and nothing is kept without a PCR.
Ready(s) == Sound(s) /\ Fresh(s) /\ \A x \in Muxers : ~s.rest[x]

\* The parts of finishFileBlock: the buffer is flushed, the file is left at the
\* end of a block, a new buffer is taken.
Flushed(s, m, part) == [DoFlush(s, m, part) EXCEPT !.size[m] = 0]
Ended(f, m) == IF mode.m2ts THEN Expect(f, "buffer handed over", ~f.buffer[m])
                            ELSE FlushTSBuffer(f, m)
Renewed(t, m) == [t EXCEPT !.buffer[m] = TRUE]
BlockEnd(s, m, part) == Renewed(Ended(MuxBlockFinished(Flushed(s, m, part), m), m), m)

SameRecord(e, d) ==
    /\ e.plan = d.plan /\ Alike(e, d)
    /\ e.rest = d.rest /\ e.round = d.round /\ e.finished = d.finished
    /\ e.started = d.started
    /\ e.held = d.held /\ e.delayed = d.delayed /\ e.asserts = d.asserts

LEMMA ResizedSound ==
  ASSUME NEW d, Sound(d), NEW m \in Muxers
  PROVE  LET e == [d EXCEPT !.size[m] = 0] IN
         Sound(e) /\ SameRecord(e, d) /\ e.buffer = d.buffer
<1>. DEFINE z == [d.size EXCEPT ![m] = 0]
            e == [d EXCEPT !.size = z]
<1>1. d \in MuxSpace
  BY SoundTypes
<1>2. z \in [Muxers -> Nat]
  BY <1>1 DEF MuxSpace
<1>3. e = [d EXCEPT !.size[m] = 0]
  OBVIOUS
<1>. HIDE DEF z
<1>4. e \in MuxSpace /\ SameRecord(e, d) /\ e.buffer = d.buffer
  BY <1>1, <1>2 DEF MuxSpace, SameRecord, Alike
<1>. HIDE DEF e
<1>5. Sound(e)
  BY <1>4, SoundFrame DEF SameRecord
<1>. QED BY <1>3, <1>4, <1>5

LEMMA RenewedSound ==
  ASSUME NEW d, Sound(d), NEW m \in Muxers
  PROVE  Sound(Renewed(d, m)) /\ SameRecord(Renewed(d, m), d)
<1>. DEFINE z == [d.buffer EXCEPT ![m] = TRUE]
            e == [d EXCEPT !.buffer = z]
<1>1. d \in MuxSpace
  BY SoundTypes
<1>2. z \in [Muxers -> BOOLEAN]
  BY <1>1 DEF MuxSpace
<1>3. e = Renewed(d, m)
  BY DEF Renewed
<1>. HIDE DEF z
<1>4. e \in MuxSpace /\ SameRecord(e, d)
  BY <1>1, <1>2 DEF MuxSpace, SameRecord, Alike
<1>. HIDE DEF e
<1>5. Sound(e)
  BY <1>4, SoundFrame DEF SameRecord
<1>. QED BY <1>3, <1>4, <1>5

LEMMA EndedSound ==
  ASSUME NEW f, Sound(f), NEW m \in Active, mode \in Modes,
         mode.async => (mode.m2ts => ~f.buffer[m]),
         \A x \in Muxers : x # m => ~f.rest[x]
  PROVE  LET t == Ended(f, m) IN
         /\ Sound(t) /\ Alike(t, f) /\ t.held = f.held /\ t.started = f.started
         /\ t.finished = f.finished /\ t.delayed = f.delayed /\ t.round = f.round
         /\ \A x \in Muxers : ~t.rest[x]
<1>1. CASE mode.m2ts
  <2>. DEFINE h == ~f.buffer[m]
              t == Expect(f, "buffer handed over", h)
  <2>1. h \in BOOLEAN /\ (mode.async \/ ~mode.m2ts => h)
    BY <1>1
  <2>2. Ended(f, m) = t
    BY <1>1 DEF Ended
  <2>. HIDE DEF h
  <2>3. Sound(t) /\ Still(t, f) /\ t.held = f.held /\ t.delayed = f.delayed
    BY <2>1, ExpectSound
  <2>. HIDE DEF t
  <2>. QED BY <1>1, <2>2, <2>3 DEF Still, Sound
<1>2. CASE ~mode.m2ts
  <2>. DEFINE t == FlushTSBuffer(f, m)
  <2>1. Ended(f, m) = t
    BY <1>2 DEF Ended
  <2>2. /\ Sound(t) /\ Near(t, f, m) /\ ~t.rest[m] /\ t.held = f.held
        /\ t.delayed = f.delayed
    BY FlushSound
  <2>. HIDE DEF t
  <2>. QED BY <2>1, <2>2 DEF Near
<1>. QED BY <1>1, <1>2

\* What muxer m has written as the end of a block.
EndsBlock(u, s, m) ==
    /\ Ready(u) /\ Alike(u, s) /\ u.held[m] = <<>> /\ u.started = s.started
    /\ \A x \in Muxers : x # m => u.held[x] = s.held[x]
    /\ s.finished[Sibling(m)] => u.delayed = <<>> /\ \A x \in Muxers : ~u.finished[x]
    /\ ~s.finished[Sibling(m)] => u.finished[m] /\ ~u.finished[Sibling(m)]
LEMMA BlockWritten ==
  ASSUME NEW s, Ready(s), NEW m \in Active, mode \in Modes, NEW part \in BOOLEAN,
         s.started[m], s.finished[Sibling(m)] => s.held[Sibling(m)] = <<>>
  PROVE  EndsBlock(BlockEnd(s, m, part), s, m)
<1>. DEFINE d == DoFlush(s, m, part)
            e == Flushed(s, m, part)
            f == MuxBlockFinished(e, m)
            t == Ended(f, m)
            u == Renewed(t, m)
<1>1. m \in Muxers /\ Sibling(m) \in Muxers /\ Sibling(m) # m /\ Muxers = {m, Sibling(m)}
  <2>1. m \in Muxers
    BY ModeFacts
  <2>. QED BY <2>1 DEF Sibling, Muxers
<1>2. /\ Sound(d) /\ Near(d, s, m) /\ d.held[m] = <<>>
      /\ d.rest[m] = (part /\ ~mode.m2ts)
      /\ d.buffer[m] = (~mode.async \/ (part /\ ~mode.m2ts))
  BY DoFlushSound DEF Ready
<1>3. e = [d EXCEPT !.size[m] = 0]
  BY DEF Flushed
<1>. HIDE DEF d
<1>4. Sound(e) /\ SameRecord(e, d) /\ e.buffer = d.buffer
  BY <1>1, <1>2, <1>3, ResizedSound
<1>5. e.finished[Sibling(m)] => \A x \in Muxers : e.held[x] = <<>>
  BY <1>1, <1>2, <1>4 DEF Near, SameRecord
<1>. HIDE DEF e
<1>6. /\ Sound(f) /\ Alike(f, e) /\ f.held = e.held /\ f.started = e.started
      /\ f.rest = e.rest /\ f.buffer = e.buffer
      /\ e.finished[Sibling(m)] => f.delayed = <<>> /\ \A x \in Muxers : ~f.finished[x]
      /\ ~e.finished[Sibling(m)] => f.delayed = e.delayed /\ f.finished[m] /\ ~f.finished[Sibling(m)]
  BY <1>4, <1>5, BlockFinishedSound
<1>. HIDE DEF f
<1>7. mode.async => (mode.m2ts => ~f.buffer[m])
  BY <1>2, <1>4, <1>6
<1>8. \A x \in Muxers : x # m => ~f.rest[x]
  BY <1>2, <1>4, <1>6 DEF Near, SameRecord, Ready
<1>9. /\ Sound(t) /\ Alike(t, f) /\ t.held = f.held /\ t.started = f.started
      /\ t.finished = f.finished /\ t.delayed = f.delayed /\ t.round = f.round
      /\ \A x \in Muxers : ~t.rest[x]
  BY <1>6, <1>7, <1>8, EndedSound
<1>. HIDE DEF t
<1>10. Sound(u) /\ SameRecord(u, t)
  BY <1>1, <1>9, RenewedSound
<1>11. BlockEnd(s, m, part) = u
  BY DEF BlockEnd, e, f, t
<1>. HIDE DEF u
<1>12. Alike(u, s)
  BY <1>2, <1>4, <1>6, <1>9, <1>10 DEF SameRecord, Alike, Near
<1>13. /\ u.held[m] = <<>> /\ u.started = s.started
       /\ \A x \in Muxers : x # m => u.held[x] = s.held[x]
       /\ \A x \in Muxers : ~u.rest[x]
  BY <1>2, <1>4, <1>6, <1>9, <1>10 DEF Near, SameRecord
<1>14. e.finished = s.finished /\ e.delayed = d.delayed /\ u.finished = f.finished
       /\ u.delayed = f.delayed
  BY <1>2, <1>4, <1>9, <1>10 DEF Near, SameRecord
<1>15. /\ s.finished[Sibling(m)] => u.delayed = <<>> /\ \A x \in Muxers : ~u.finished[x]
       /\ ~s.finished[Sibling(m)] => u.delayed = d.delayed /\ u.finished[m] /\ ~u.finished[Sibling(m)]
  BY <1>6, <1>14
<1>16. Fresh(u)
  <2>1. \A x \in Muxers : ~u.started[x] => u.held[x] = <<>>
    BY <1>13 DEF Ready, Fresh
  <2>2. ~u.started["main"] => u.delayed = <<>>
    <3>. SUFFICES ASSUME ~u.started["main"] PROVE u.delayed = <<>>
      OBVIOUS
    <3>1. m = "sub" /\ s.delayed = <<>>
      BY <1>1, <1>13 DEF Ready, Fresh, Muxers
    <3>2. d.delayed = <<>>
      BY <1>2, <3>1 DEF Near
    <3>. QED BY <1>15, <3>2
  <2>. QED BY <2>1, <2>2 DEF Fresh
<1>17. Ready(u)
  BY <1>10, <1>13, <1>16 DEF Ready
<1>. QED BY <1>11, <1>12, <1>13, <1>15, <1>17 DEF EndsBlock

\* What the end of a block, and the next file if ch, do for muxer m.
OwnBlockEnd(t, s, m, ch) ==
    /\ Ready(t) /\ t.packets = s.packets /\ t.started[m] /\ t.held[m] = <<>>
    /\ \A x \in Muxers : x # m => t.held[x] = s.held[x]
    /\ s.started[m] /\ s.finished[Sibling(m)] => \A x \in Muxers : ~t.finished[x]
    /\ s.started[m] /\ ~s.finished[Sibling(m)] => t.finished[m] /\ ~t.finished[Sibling(m)]
    /\ ~s.started[m] => t.finished = s.finished
    /\ t.objects = s.objects + (IF ch THEN 1 ELSE 0)

\* A muxer may go to its next file.
MayChange(s, m) == /\ mode.split /\ ~mode.joined /\ s.objects + 1 \in Objects
                   /\ m = "main" /\ mode.interleave /\ s.started[m] => s.finished["sub"]

LEMMA ReadyPCR ==
  ASSUME NEW s, Ready(s), NEW m \in Active, mode \in Modes
  PROVE  LET t == WritePCR(s, m) IN
         /\ Ready(t) /\ Alike(t, s) /\ t.finished = s.finished
         /\ t.held[m] = <<>> /\ t.started[m]
         /\ \A x \in Muxers : x # m => t.held[x] = s.held[x]
<1>. DEFINE t == WritePCR(s, m)
<1>1. Sound(s)
  BY DEF Ready
<1>2. /\ Sound(t) /\ Alike(t, s) /\ t.round = s.round /\ t.finished = s.finished
      /\ t.rest = s.rest /\ t.buffer = s.buffer /\ t.held[m] = <<>> /\ t.started[m]
      /\ \A x \in Muxers : x # m => t.held[x] = s.held[x]
      /\ Fresh(s) => Fresh(t)
  BY <1>1, PCRSound
<1>3. t = WritePCR(s, m)
  OBVIOUS
<1>. HIDE DEF t
<1>. QED BY <1>2, <1>3 DEF Ready

LEMMA ReadyNextFile ==
  ASSUME NEW s, Ready(s), NEW m \in Active, mode \in Modes, mode.split, ~mode.joined,
         file \in FileSpace, s.held[m] = <<>>,
         m = "main" => s.delayed = <<>>, s.objects + 1 \in Objects
  PROVE  LET t == GotoNextFile(s, m) IN
         Ready(t) /\ SameButFile(t, s) /\ t.objects = s.objects + 1
<1>. DEFINE t == GotoNextFile(s, m)
<1>1. Sound(s) /\ ~s.rest[m]
  BY ModeFacts DEF Ready
<1>2. Sound(t) /\ SameButFile(t, s) /\ t.objects = s.objects + 1
  BY <1>1, NextFileSound
<1>3. t = GotoNextFile(s, m)
  OBVIOUS
<1>. HIDE DEF t
<1>4. Fresh(t)
  BY <1>2 DEF Ready, Fresh, SameButFile
<1>. QED BY <1>2, <1>3, <1>4 DEF Ready, SameButFile

\* One muxer ends its block.
LEMMA OwnBlockSound ==
  ASSUME NEW s, Ready(s), NEW m \in Active, mode \in Modes, NEW part \in BOOLEAN,
         NEW ch \in BOOLEAN, file \in FileSpace,
         s.finished[Sibling(m)] => s.held[Sibling(m)] = <<>>,
         ch => MayChange(s, m)
  PROVE  OwnBlockEnd(FinishOwnBlock(s, m, ch, part), s, m, ch)
<1>. DEFINE e == BlockEnd(s, m, part)
            u == IF s.started[m] THEN e ELSE s
            g == GotoNextFile(u, m)
            v == IF ch THEN g ELSE u
            t == WritePCR(v, m)
<1>1. FinishOwnBlock(s, m, ch, part) = t
  BY DEF FinishOwnBlock, BlockEnd, Renewed, Ended, Flushed
<1>2. m \in Muxers /\ Sibling(m) \in Muxers /\ Sibling(m) # m /\ (m = "main" => Sibling(m) = "sub")
  <2>1. m \in Muxers
    BY ModeFacts
  <2>. QED BY <2>1 DEF Sibling, Muxers
<1>3. s \in MuxSpace /\ s.objects \in Nat /\ s.started[m] \in BOOLEAN
  <2>1. s \in MuxSpace
    BY SoundTypes DEF Ready
  <2>2. s.objects \in Objects /\ s.started \in [Muxers -> BOOLEAN]
    BY <2>1 DEF MuxSpace
  <2>3. s.objects \in Nat
    BY <2>2 DEF Objects
  <2>. QED BY <1>2, <2>1, <2>2, <2>3
<1>4. s.started[m] => EndsBlock(e, s, m)
  BY BlockWritten
<1>. HIDE DEF e
<1>5. /\ Ready(u) /\ Alike(u, s) /\ u.held[m] = <<>> /\ u.started = s.started
      /\ \A x \in Muxers : x # m => u.held[x] = s.held[x]
      /\ s.started[m] /\ s.finished[Sibling(m)] => u.delayed = <<>> /\ \A x \in Muxers : ~u.finished[x]
      /\ s.started[m] /\ ~s.finished[Sibling(m)] => u.finished[m] /\ ~u.finished[Sibling(m)]
      /\ ~s.started[m] => u.finished = s.finished /\ u.delayed = s.delayed
  <2>1. CASE s.started[m]
    BY <1>4, <2>1 DEF EndsBlock
  <2>2. CASE ~s.started[m]
    <3>1. u = s
      BY <2>2
    <3>2. s.held[m] = <<>>
      BY <1>2, <2>2 DEF Ready, Fresh
    <3>. QED BY <2>2, <3>1, <3>2 DEF Alike
  <2>. QED BY <1>3, <2>1, <2>2
<1>. HIDE DEF u
<1>6. ch /\ m = "main" => u.delayed = <<>>
  <2>. SUFFICES ASSUME ch, m = "main" PROVE u.delayed = <<>>
    OBVIOUS
  <2>1. CASE ~mode.interleave
    BY <1>5, <2>1 DEF Ready, Sound, Steady, Kept
  <2>2. CASE mode.interleave /\ s.started[m]
    BY <1>2, <1>5, <2>2 DEF MayChange
  <2>3. CASE ~s.started[m]
    BY <1>5, <2>3 DEF Ready, Fresh
  <2>. QED BY <2>1, <2>2, <2>3
<1>7. ch => Ready(g) /\ SameButFile(g, u) /\ g.objects = u.objects + 1
  <2>. SUFFICES ASSUME ch PROVE Ready(g) /\ SameButFile(g, u) /\ g.objects = u.objects + 1
    OBVIOUS
  <2>1. mode.split /\ ~mode.joined /\ u.objects + 1 \in Objects
    BY <1>5 DEF MayChange, Alike
  <2>. QED BY <1>5, <1>6, <2>1, ReadyNextFile
<1>. HIDE DEF g
<1>8. /\ Ready(v) /\ v.objects = u.objects + (IF ch THEN 1 ELSE 0)
      /\ v.packets = u.packets /\ v.finished = u.finished /\ v.held = u.held
  <2>1. CASE ch
    BY <1>7, <2>1 DEF SameButFile
  <2>2. CASE ~ch
    <3>1. u.objects = s.objects
      BY <1>5 DEF Alike
    <3>. QED BY <1>3, <1>5, <2>2, <3>1
  <2>. QED BY <2>1, <2>2
<1>. HIDE DEF v
<1>9. /\ Ready(t) /\ Alike(t, v) /\ t.finished = v.finished
      /\ t.held[m] = <<>> /\ t.started[m]
      /\ \A x \in Muxers : x # m => t.held[x] = v.held[x]
  BY <1>8, ReadyPCR
<1>. HIDE DEF t
<1>10. t.packets = s.packets /\ t.objects = s.objects + (IF ch THEN 1 ELSE 0)
  BY <1>5, <1>8, <1>9 DEF Alike
<1>11. \A x \in Muxers : x # m => t.held[x] = s.held[x]
  BY <1>5, <1>8, <1>9
<1>12. t.finished = u.finished
  BY <1>8, <1>9
<1>. QED BY <1>1, <1>5, <1>9, <1>10, <1>11, <1>12 DEF OwnBlockEnd

\* Both muxers end their blocks.
BlocksEnd(t, s) ==
    Ready(t) /\ t.packets = s.packets /\ ~t.finished[Second]
LEMMA FileBlockSound ==
  ASSUME NEW s, Ready(s), NEW m, m = First, mode \in Modes, NEW part \in BOOLEAN,
         NEW ch \in BOOLEAN, file \in FileSpace, CleanSplits,
         s.started[m], ~s.finished[Second],
         ch => mode.split /\ s.objects + (IF mode.stereo THEN 2 ELSE 1) \in Objects
  PROVE  BlocksEnd(FinishFileBlock(s, m, ch, part), s)
<1>. DEFINE t == FinishOwnBlock(s, m, ch, part)
            u == FinishOwnBlock(t, Second, ch, part)
<1>1. /\ m \in Active /\ m \in Muxers /\ Second = Sibling(m) /\ Sibling(Second) = m
      /\ Second \in Muxers /\ (mode.stereo => Second \in Active)
  BY ModeFacts DEF Second, Sibling, First
<1>2. /\ FinishFileBlock(s, m, ch, part) = IF mode.stereo THEN u ELSE t
  BY <1>1 DEF FinishFileBlock
<1>3. s.objects \in Nat /\ s.objects >= 1
  <2>1. s \in MuxSpace
    BY SoundTypes DEF Ready
  <2>2. s.objects \in Objects
    BY <2>1 DEF MuxSpace
  <2>. QED BY <2>2 DEF Objects
<1>4. ch => s.objects + 1 \in Objects /\ (mode.stereo => s.objects + 2 \in Objects)
  BY <1>3, ModesAssumption DEF Objects
<1>5. mode.split => ~mode.joined /\ (mode.interleave => First = "sub")
  BY ModeFacts DEF CleanSplits, First
<1>6. ch => MayChange(s, m)
  BY <1>4, <1>5 DEF MayChange
<1>7. OwnBlockEnd(t, s, m, ch)
  BY <1>1, <1>6, OwnBlockSound
<1>. HIDE DEF t
<1>8. t.finished[m] /\ ~t.finished[Second] /\ t.objects = s.objects + (IF ch THEN 1 ELSE 0)
  BY <1>1, <1>7 DEF OwnBlockEnd
<1>9. CASE ~mode.stereo
  BY <1>2, <1>7, <1>8, <1>9 DEF OwnBlockEnd, BlocksEnd
<1>10. CASE mode.stereo
  <2>1. ch => MayChange(t, Second)
    <3>. SUFFICES ASSUME ch PROVE MayChange(t, Second)
      OBVIOUS
    <3>1. t.objects + 1 = s.objects + 2
      BY <1>3, <1>8
    <3>2. t.objects + 1 \in Objects
      BY <1>4, <1>10, <3>1
    <3>3. Second = "main" /\ mode.interleave => t.finished["sub"]
      BY <1>1, <1>8 DEF Sibling
    <3>. QED BY <1>5, <3>2, <3>3 DEF MayChange
  <2>2. Ready(t) /\ t.held[Sibling(Second)] = <<>>
    BY <1>1, <1>7 DEF OwnBlockEnd
  <2>3. OwnBlockEnd(u, t, Second, ch)
    BY <1>1, <1>10, <2>1, <2>2, OwnBlockSound
  <2>. HIDE DEF u
  <2>4. ~u.finished[Second]
    BY <1>1, <1>8, <2>3 DEF OwnBlockEnd
  <2>5. u.packets = s.packets
    BY <1>7, <2>3 DEF OwnBlockEnd
  <2>. QED BY <1>2, <1>10, <2>3, <2>4, <2>5 DEF OwnBlockEnd, BlocksEnd
<1>. QED BY <1>9, <1>10

-----------------------------------------------------------------------------
(* A packet.                                                               *)

LEMMA EmptyPlan ==
  /\ <<>> \in Seq(OpSpace) /\ Len(<<>>) = 0 /\ \A n : n \notin 1..Len(<<>>)
OBVIOUS

\* Between two packets the record of the muxing thread is in order.
LEMMA IdleReady ==
  ASSUME MuxInv, Idle
  PROVE  Ready(mux) /\ ~mux.finished[Second]
<1>1. mux.plan = <<>> /\ todo = <<>> /\ phase = "mux" /\ mux \in MuxSpace
  BY DEF MuxInv, Rested, Idle
<1>2. Muxing
  BY DEF Idle, Muxing
<1>3. GoodPlan(file, Drained, mux.plan, mux)
  BY <1>1, <1>2 DEF MuxInv
<1>4. Steady(mux) /\ Fresh(mux) /\ ~mux.finished[Second] /\ \A m \in Muxers : ~mux.rest[m]
  BY <1>1 DEF MuxInv, Rested, Steady
<1>5. RankedPlan(mux.plan, 2 * mux.round, 2 * mux.round)
  BY <1>1, EmptyPlan DEF RankedPlan
<1>6. mux.round \in 0..mux.round
  <2>1. mux.round \in Nat
    BY <1>1 DEF MuxSpace
  <2>. QED BY <2>1
<1>7. Sound(mux)
  BY <1>1, <1>3, <1>4, <1>5, <1>6 DEF Sound
<1>. QED BY <1>4, <1>7 DEF Ready

\* What muxPacket does first.
PacketBegun(t, m) ==
    /\ Ready(t) /\ Alike(t, mux) /\ t.started[m] /\ t.finished = mux.finished
LEMMA OpenedReady ==
  ASSUME Ready(mux), NEW m \in Active, mode \in Modes
  PROVE  PacketBegun(Opened(m), m)
<1>1. m \in Muxers /\ mux \in MuxSpace
  BY ModeFacts, SoundTypes DEF Ready
<1>2. mux.started[m] \in BOOLEAN
  <2>1. mux.started \in [Muxers -> BOOLEAN]
    BY <1>1 DEF MuxSpace
  <2>. QED BY <1>1, <2>1
<1>3. CASE mux.started[m]
  BY <1>3 DEF Opened, PacketBegun, Alike
<1>4. CASE ~mux.started[m]
  <2>. DEFINE t == WritePCR(mux, m)
  <2>1. Ready(t) /\ Alike(t, mux) /\ t.finished = mux.finished /\ t.started[m]
    BY ReadyPCR
  <2>2. Opened(m) = t
    BY <1>4 DEF Opened
  <2>. HIDE DEF t
  <2>. QED BY <2>1, <2>2 DEF PacketBegun
<1>. QED BY <1>2, <1>3, <1>4

LEMMA FilledReady ==
  ASSUME Ready(mux), NEW m \in Active, mode \in Modes, NEW full \in BOOLEAN, NEW timed \in BOOLEAN
  PROVE  PacketBegun(Filled(m, full, timed), m)
<1>. DEFINE s == Opened(m)
            t == WriteOutBuffer(s, m, timed)
<1>1. PacketBegun(s, m)
  BY OpenedReady
<1>2. Filled(m, full, timed) = IF full THEN t ELSE s
  BY DEF Filled
<1>. HIDE DEF s
<1>3. CASE ~full
  BY <1>1, <1>2, <1>3
<1>4. CASE full
  <2>1. Sound(s)
    BY <1>1 DEF PacketBegun, Ready
  <2>2. Sound(t) /\ Near(t, s, m) /\ t.rest = s.rest /\ t.buffer = s.buffer
    BY <2>1, WriteOutSound
  <2>. HIDE DEF t
  <2>3. m \in Muxers /\ (m # "main" => m = "sub")
    <3>1. m \in Muxers
      BY ModeFacts
    <3>. QED BY <3>1 DEF Muxers
  <2>4. Fresh(t)
    <3>1. \A x \in Muxers : ~t.started[x] => t.held[x] = <<>>
      BY <1>1, <2>2 DEF PacketBegun, Ready, Fresh, Near
    <3>2. ~t.started["main"] => t.delayed = <<>>
      BY <1>1, <2>2, <2>3 DEF PacketBegun, Ready, Fresh, Near
    <3>. QED BY <3>1, <3>2 DEF Fresh
  <2>5. Ready(t)
    BY <1>1, <2>2, <2>4 DEF PacketBegun, Ready
  <2>6. Alike(t, mux) /\ t.started[m] /\ t.finished = mux.finished
    BY <1>1, <2>2 DEF PacketBegun, Near, Alike
  <2>. QED BY <1>2, <1>4, <2>5, <2>6 DEF PacketBegun
<1>. QED BY <1>3, <1>4

\* The record after a packet, its plan on the way.
LEMMA Carried ==
  ASSUME NEW s \in MuxSpace, s.packets < MaxPackets
  PROVE  LET t == [CountPacket(s) EXCEPT !.plan = <<>>] IN
         /\ t \in MuxSpace /\ t.plan = <<>> /\ CountPacket(s).plan = s.plan
         /\ t.muxFile = s.muxFile /\ t.objects = s.objects
         /\ t.orig = s.orig /\ t.num = s.num /\ t.name = s.name
         /\ t.rest = s.rest /\ t.round = s.round /\ t.finished = s.finished
         /\ t.started = s.started /\ t.held = s.held /\ t.delayed = s.delayed
         /\ t.asserts = s.asserts
<1>. DEFINE c == s.packets + 1
            u == [s EXCEPT !.packets = c]
            t == [u EXCEPT !.plan = <<>>]
<1>1. c \in 0..MaxPackets
  <2>1. s.packets \in 0..MaxPackets
    BY DEF MuxSpace
  <2>. QED BY <2>1, ModesAssumption
<1>2. t = [CountPacket(s) EXCEPT !.plan = <<>>] /\ u = CountPacket(s)
  BY DEF CountPacket
<1>. HIDE DEF c
<1>3. /\ u \in MuxSpace
      /\ u.muxFile = s.muxFile /\ u.objects = s.objects
      /\ u.orig = s.orig /\ u.num = s.num /\ u.name = s.name
      /\ u.rest = s.rest /\ u.round = s.round /\ u.finished = s.finished
      /\ u.started = s.started /\ u.held = s.held /\ u.delayed = s.delayed
      /\ u.asserts = s.asserts /\ u.plan = s.plan
  BY <1>1 DEF MuxSpace
<1>. HIDE DEF u
<1>4. /\ t \in MuxSpace /\ t.plan = <<>>
      /\ t.muxFile = u.muxFile /\ t.objects = u.objects
      /\ t.orig = u.orig /\ t.num = u.num /\ t.name = u.name
      /\ t.rest = u.rest /\ t.round = u.round /\ t.finished = u.finished
      /\ t.started = u.started /\ t.held = u.held /\ t.delayed = u.delayed
      /\ t.asserts = u.asserts
  BY <1>3, EmptyPlan DEF MuxSpace
<1>. HIDE DEF t
<1>. QED BY <1>2, <1>3, <1>4

-----------------------------------------------------------------------------
(* Whether a step keeps the invariant: what the mode settles stays as it   *)
(* is.                                                                     *)

LEMMA OpensNext ==
  ASSUME mode' = mode, OpensNew(file', todo', mux'.objects, mux'.name)
  PROVE  OpensNew(file, todo, mux.objects, mux.name)'
BY DEF OpensNew, Parity, Owner, Active

LEMMA GoodPlanNext ==
  ASSUME mode' = mode, GoodPlan(file', Drained', todo', mux')
  PROVE  GoodPlan(file, Drained, todo, mux)'
<1>1. OpensNew(file, todo, mux.objects, mux.name)'
  BY OpensNext DEF GoodPlan
<1>2. (\A m \in Active : HasFile(file, todo, mux.muxFile[m]))'
  BY DEF GoodPlan, Active
<1>. QED BY <1>1, <1>2 DEF GoodPlan

LEMMA RecordNext ==
  ASSUME mode' = mode
  PROVE  /\ Numbered(mux') => Numbered(mux)'
         /\ Asserted(mux') => Asserted(mux)'
         /\ Kept(mux') => Kept(mux)'
         /\ Apart(mux') => Apart(mux)'
         /\ Fresh(mux') => Fresh(mux)'
         /\ Second' = Second /\ Active' = Active
<1>1. Numbered(mux') => Numbered(mux)'
  BY DEF Numbered, Parity
<1>2. Asserted(mux') => Asserted(mux)'
  BY DEF Asserted
<1>3. Kept(mux') => Kept(mux)'
  BY DEF Kept
<1>4. Apart(mux') => Apart(mux)'
  BY DEF Apart
<1>5. Second' = Second /\ Active' = Active
  BY DEF Second, First, Sibling, Active
<1>. QED BY <1>1, <1>2, <1>3, <1>4, <1>5

LEMMA WriterAssumptionHolds ==
  /\ Stop \notin BlockSpace /\ \A b \in BlockSpace : b.file \in Objects
  /\ MaxQueueSize \in Nat /\ QueueMaxSize \in Nat /\ MaxQueueSize + 2 <= QueueMaxSize
  /\ 1000 \in Nat
BY LimitsAssumption DEF BlockSpace

\* What was handed over are blocks.
LEMMA GivenBlocks ==
  ASSUME WP!Bookkeeping
  PROVE  /\ Given \in Seq(BlockSpace) /\ Len(Given) \in Nat
         /\ \A i \in 1..Len(Given) : Given[i] \in BlockSpace /\ Rank(Given[i]) \in Nat
         /\ cpc = "add" => cblock \in BlockSpace
<1>1. accepted \in Seq(BlockSpace) /\ (cpc = "add" => cblock \in BlockSpace)
  BY DEF WP!Bookkeeping, WP!TypeOK
<1>2. Given \in Seq(BlockSpace)
  BY <1>1 DEF Given
<1>3. \A i \in 1..Len(Given) : Given[i] \in BlockSpace
  BY <1>2
<1>. QED BY <1>1, <1>2, <1>3, RankIsNat

\* The plan a packet makes follows what was handed over.
LEMMA RoundsCarried ==
  ASSUME MuxInv, Idle, NEW p \in Seq(OpSpace), NEW high \in Nat,
         mode.interleave => RankedPlan(p, 2 * mux.round, high),
         todo' = p, mode' = mode, cpc' = cpc, cblock' = cblock, accepted' = accepted,
         mux.round \in Nat,
         phase' = "mux" => high = 2 * mux'.round /\ 2 * mux.round <= high
  PROVE  InRounds'
<1>. SUFFICES ASSUME mode.interleave
              PROVE  /\ InOrder(Given')
                     /\ Follow(p, Given')
                     /\ \A k, n \in 1..Len(p) : k < n /\ p[k].op = "write" /\ p[n].op = "write"
                                                  => Rank(p[k].arg) <= Rank(p[n].arg)
                     /\ phase' = "mux" => UpTo(p, Given', 2 * mux'.round)
  BY DEF InRounds
<1>1. Given' = Given
  BY DEF Given
<1>2. InOrder(Given) /\ UpTo(todo, Given, 2 * mux.round)
  BY DEF MuxInv, InRounds, Idle, Muxing
<1>3. RankedPlan(p, 2 * mux.round, high)
  OBVIOUS
<1>4. /\ Given \in Seq(BlockSpace) /\ Len(Given) \in Nat
      /\ \A i \in 1..Len(Given) : Given[i] \in BlockSpace /\ Rank(Given[i]) \in Nat
  BY GivenBlocks DEF MuxInv
<1>5. 2 * mux.round \in Nat
  OBVIOUS
<1>6. Follow(p, Given)
  <2>. SUFFICES ASSUME NEW n \in 1..Len(p), NEW i \in 1..Len(Given), p[n].op = "write"
                PROVE  Rank(Given[i]) <= Rank(p[n].arg)
    BY DEF Follow
  <2>1. Rank(Given[i]) <= 2 * mux.round /\ Rank(Given[i]) \in Nat
    BY <1>2, <1>4 DEF UpTo
  <2>2. 2 * mux.round <= Rank(p[n].arg) /\ Rank(p[n].arg) \in Nat
    BY <1>3, PlanRanks DEF RankedPlan
  <2>. QED BY <1>5, <2>1, <2>2
<1>7. phase' = "mux" => UpTo(p, Given, 2 * mux'.round)
  <2>. SUFFICES ASSUME phase' = "mux" PROVE UpTo(p, Given, high)
    OBVIOUS
  <2>1. ASSUME NEW i \in 1..Len(Given) PROVE Rank(Given[i]) <= high
    <3>1. Rank(Given[i]) <= 2 * mux.round /\ Rank(Given[i]) \in Nat
      BY <1>2, <1>4 DEF UpTo
    <3>. QED BY <1>5, <3>1
  <2>2. \A n \in 1..Len(p) : p[n].op = "write" => Rank(p[n].arg) <= high
    BY <1>3 DEF RankedPlan
  <2>. QED BY <2>1, <2>2 DEF UpTo
<1>. QED BY <1>1, <1>2, <1>3, <1>6, <1>7 DEF RankedPlan

LEMMA BookkeepingKept ==
  ASSUME WP!Bookkeeping, UNCHANGED writerVars
  PROVE  WP!Bookkeeping'
BY ZenonT(60) DEF writerVars, WP!Bookkeeping, WP!TypeOK, WP!QueueIsRest, WP!ThreadHolds, WP!CallerPhases,
       WP!BlocksBound, WP!Unpopped, WP!StopsQueued

\* What was made of a packet is carried out.
LEMMA CarryStep ==
  ASSUME MuxInv, Idle, NEW s, Ready(s), ~s.finished[Second], s.packets < MaxPackets,
         Carry(CountPacket(s)), UNCHANGED <<mode, file, phase, writerVars>>
  PROVE  MuxInv'
<1>. DEFINE t == [CountPacket(s) EXCEPT !.plan = <<>>]
<1>1. /\ mode' = mode /\ file' = file /\ phase' = phase /\ phase = "mux" /\ UNCHANGED writerVars
      /\ cpc' = cpc /\ cblock' = cblock /\ accepted' = accepted /\ queue' = queue
  BY DEF Idle, writerVars
<1>2. mux' = t /\ todo' = CountPacket(s).plan
  BY DEF Carry
<1>3. Sound(s) /\ s \in MuxSpace /\ s.plan \in Seq(OpSpace)
  BY SoundTypes DEF Ready
<1>4. /\ t \in MuxSpace /\ t.plan = <<>> /\ CountPacket(s).plan = s.plan
      /\ t.muxFile = s.muxFile /\ t.objects = s.objects
      /\ t.orig = s.orig /\ t.num = s.num /\ t.name = s.name
      /\ t.rest = s.rest /\ t.round = s.round /\ t.finished = s.finished
      /\ t.started = s.started /\ t.held = s.held /\ t.delayed = s.delayed
      /\ t.asserts = s.asserts
  BY <1>3, Carried
<1>. HIDE DEF t
<1>5. todo' = s.plan
  BY <1>2, <1>4
<1>6. Drained' = Drained /\ Muxing
  BY <1>1 DEF Drained, Muxing, Idle
<1>7. GoodPlan(file, Drained, s.plan, t)
  BY <1>3, <1>4 DEF Sound, GoodPlan
<1>8. GoodPlan(file, Drained, todo, mux)'
  <2>1. GoodPlan(file', Drained', todo', mux')
    BY <1>1, <1>2, <1>5, <1>6, <1>7
  <2>. QED BY <1>1, <2>1, GoodPlanNext
<1>9. Kept(t) /\ Asserted(t) /\ Numbered(t) /\ Apart(t) /\ Fresh(t)
  <2>1. Kept(s) /\ Asserted(s) /\ Numbered(s) /\ Apart(s) /\ Fresh(s)
    BY DEF Ready, Sound, Steady
  <2>2. Kept(t)
    BY <2>1, <1>4 DEF Kept, KeptFor
  <2>3. Asserted(t) /\ Apart(t) /\ Fresh(t)
    BY <2>1, <1>4 DEF Asserted, Apart, Fresh
  <2>4. Numbered(t)
    BY <2>1, <1>4 DEF Numbered
  <2>. QED BY <2>2, <2>3, <2>4
<1>10. Rested'
  <2>1. mux'.plan = <<>> /\ ~mux'.finished[Second]
    BY <1>2, <1>4
  <2>2. \A m \in Muxers : ~mux'.rest[m]
    BY <1>2, <1>4 DEF Ready
  <2>. QED BY <1>1, <1>2, <1>9, <2>1, <2>2, RecordNext DEF Rested
<1>11. Numbered(mux)' /\ Asserted(mux)'
  BY <1>1, <1>2, <1>9, RecordNext
<1>12. InRounds'
  <2>1. mux.round \in 0..s.round /\ s.round \in Nat /\ (mode.interleave => RankedPlan(s.plan, 2 * mux.round, 2 * s.round))
    BY <1>3, SoundTypes DEF Sound
  <2>2. 2 * s.round \in Nat /\ 2 * mux.round <= 2 * s.round /\ mux.round \in Nat
    BY <2>1
  <2>3. 2 * s.round = 2 * mux'.round
    BY <1>2, <1>4
  <2>. QED BY <1>1, <1>3, <1>5, <2>1, <2>2, <2>3, RoundsCarried
<1>13. NamesRise'
  BY <1>1 DEF MuxInv, NamesRise, Owner, Parity, Active
<1>14. Pending'
  BY <1>1 DEF MuxInv, Pending, IsOpen
<1>15. WP!Bookkeeping'
  BY <1>1, BookkeepingKept DEF MuxInv
<1>16. mode' \in Modes /\ file' \in FileSpace /\ phase' \in {"mux", "end", "failed", "complete", "over"}
       /\ todo' \in Seq(OpSpace) /\ mux' \in MuxSpace
  BY <1>1, <1>2, <1>3, <1>4, <1>5 DEF MuxInv
<1>17. PlanOk(file, Drained, todo)' /\ OpensNew(file, todo, mux.objects, mux.name)'
  BY <1>8 DEF GoodPlan
<1>. QED BY <1>8, <1>10, <1>11, <1>12, <1>13, <1>14, <1>15, <1>16, <1>17 DEF MuxInv, FileSpace

-----------------------------------------------------------------------------
(* The steps of a packet.                                                  *)

LEMMA ActiveCounted ==
  ASSUME mode \in Modes
  PROVE  Cardinality(Active) = IF mode.stereo THEN 2 ELSE 1
<1>1. Cardinality({"main"}) = 1 /\ IsFiniteSet({"main"})
  BY FS_Singleton
<1>2. Cardinality({"main"} \cup {"sub"}) = 2
  <2>1. "sub" \notin {"main"}
    OBVIOUS
  <2>. QED BY <1>1, <2>1, FS_AddElement
<1>3. {"main"} \cup {"sub"} = Muxers
  BY DEF Muxers
<1>. QED BY <1>1, <1>2, <1>3 DEF Active

LEMMA SwitcherIsFirst ==
  ASSUME mode \in Modes, NEW m \in Active, CanSwitchBlock(m)
  PROVE  m = First
BY ModeFacts DEF CanSwitchBlock, First, Active, Muxers

LEMMA MuxPacketStep ==
  ASSUME MuxInv, NEW m \in Active, MuxPacket(m)
  PROVE  MuxInv'
<1>1. Idle /\ mux.packets < MaxPackets /\ mode \in Modes
  BY DEF MuxPacket, MuxInv
<1>2. Ready(mux) /\ ~mux.finished[Second]
  BY <1>1, IdleReady
<1>3. UNCHANGED <<mode, file, phase, writerVars>>
  BY DEF MuxPacket
<1>4. PICK full, timed, pcr \in BOOLEAN :
        Carry(CountPacket(IF pcr THEN WritePCR(Filled(m, full, timed), m) ELSE Filled(m, full, timed)))
  BY DEF MuxPacket
<1>. DEFINE s == Filled(m, full, timed)
            w == WritePCR(s, m)
            r == IF pcr THEN w ELSE s
<1>5. PacketBegun(s, m)
  BY <1>1, <1>2, FilledReady
<1>6. Carry(CountPacket(r))
  BY <1>4
<1>. HIDE DEF s
<1>7. Ready(w) /\ Alike(w, s) /\ w.finished = s.finished
  BY <1>1, <1>5, ReadyPCR DEF PacketBegun
<1>. HIDE DEF w
<1>8. Ready(r) /\ ~r.finished[Second] /\ r.packets < MaxPackets
  BY <1>1, <1>2, <1>5, <1>7 DEF PacketBegun, Alike
<1>. HIDE DEF r
<1>. QED BY <1>1, <1>3, <1>6, <1>8, CarryStep

LEMMA MuxEndsBlockStep ==
  ASSUME MuxInv, CleanSplits, NEW m \in Active, MuxEndsBlock(m)
  PROVE  MuxInv'
<1>1. Idle /\ mux.packets < MaxPackets /\ mode \in Modes /\ file \in FileSpace /\ CanSwitchBlock(m)
  BY DEF MuxEndsBlock, MuxInv
<1>2. Ready(mux) /\ ~mux.finished[Second]
  BY <1>1, IdleReady
<1>3. UNCHANGED <<mode, file, phase, writerVars>>
  BY DEF MuxEndsBlock
<1>4. PICK full, timed \in BOOLEAN :
        Carry(CountPacket(FinishFileBlock(Filled(m, full, timed), m, FALSE, FALSE)))
  BY DEF MuxEndsBlock
<1>. DEFINE s == Filled(m, full, timed)
            r == FinishFileBlock(s, m, FALSE, FALSE)
<1>5. PacketBegun(s, m)
  BY <1>1, <1>2, FilledReady
<1>6. Carry(CountPacket(r))
  BY <1>4
<1>. HIDE DEF s
<1>7. BlocksEnd(r, s)
  BY <1>1, <1>2, <1>5, SwitcherIsFirst, FileBlockSound DEF PacketBegun
<1>. HIDE DEF r
<1>8. Ready(r) /\ ~r.finished[Second] /\ r.packets < MaxPackets
  BY <1>1, <1>5, <1>7 DEF PacketBegun, BlocksEnd, Alike
<1>. QED BY <1>1, <1>3, <1>6, <1>8, CarryStep

LEMMA MuxSplitStep ==
  ASSUME MuxInv, CleanSplits, NEW m \in Active, MuxSplit(m)
  PROVE  MuxInv'
<1>1. /\ Idle /\ mux.packets < MaxPackets /\ mode \in Modes /\ file \in FileSpace
      /\ CanSwitchBlock(m) /\ mode.split /\ mux.objects <= MaxSplits * Cardinality(Active)
  BY DEF MuxSplit, MuxInv
<1>2. Ready(mux) /\ ~mux.finished[Second]
  BY <1>1, IdleReady
<1>3. UNCHANGED <<mode, file, phase, writerVars>>
  BY DEF MuxSplit
<1>4. PICK full, timed, part \in BOOLEAN :
        Carry(CountPacket(FinishFileBlock(Filled(m, full, timed), m, TRUE, part)))
  BY DEF MuxSplit
<1>. DEFINE s == Filled(m, full, timed)
            r == FinishFileBlock(s, m, TRUE, part)
<1>5. PacketBegun(s, m)
  BY <1>1, <1>2, FilledReady
<1>6. Carry(CountPacket(r))
  BY <1>4
<1>. HIDE DEF s
<1>7. s.objects + (IF mode.stereo THEN 2 ELSE 1) \in Objects
  <2>1. s.objects = mux.objects
    BY <1>5 DEF PacketBegun, Alike
  <2>2. mux \in MuxSpace
    BY DEF MuxInv
  <2>3. mux.objects \in Nat /\ mux.objects >= 1
    <3>1. mux.objects \in Objects
      BY <2>2 DEF MuxSpace
    <3>. QED BY <3>1 DEF Objects
  <2>4. mode.stereo \in BOOLEAN /\ MaxSplits \in Nat
    BY <1>1, ModeFacts, ModesAssumption
  <2>5. CASE mode.stereo
    <3>1. mux.objects <= MaxSplits * 2
      BY <1>1, <2>5, ActiveCounted
    <3>. QED BY <2>1, <2>3, <2>4, <2>5, <3>1 DEF Objects
  <2>6. CASE ~mode.stereo
    <3>1. mux.objects <= MaxSplits * 1
      BY <1>1, <2>6, ActiveCounted
    <3>. QED BY <2>1, <2>3, <2>4, <2>6, <3>1 DEF Objects
  <2>. QED BY <2>4, <2>5, <2>6
<1>8. BlocksEnd(r, s)
  BY <1>1, <1>2, <1>5, <1>7, SwitcherIsFirst, FileBlockSound DEF PacketBegun
<1>. HIDE DEF r
<1>9. Ready(r) /\ ~r.finished[Second] /\ r.packets < MaxPackets
  BY <1>1, <1>5, <1>8 DEF PacketBegun, BlocksEnd, Alike
<1>. QED BY <1>1, <1>3, <1>6, <1>9, CarryStep

-----------------------------------------------------------------------------
(* The end of the input: what is kept is written, the files are closed.    *)

Ending(s) ==
    /\ s \in MuxSpace /\ Numbered(s) /\ Asserted(s) /\ ~s.finished[Second]
    /\ PlanOk(file, Drained, s.plan) /\ Waited(Drained, s.plan, Len(s.plan))
    /\ OpensNew(file, s.plan, s.objects, s.name)
    /\ \A m \in Active : KnownAfter(file, s.plan, Len(s.plan), s.muxFile[m])
    /\ mode.interleave => RankedPlan(s.plan, 2 * mux.round, 2 * (mux.round + 1))

LEMMA EndingFrame ==
  ASSUME NEW s, Ending(s), NEW t \in MuxSpace, Alike(t, s), t.asserts = s.asserts,
         t.finished = s.finished, t.plan = s.plan
  PROVE  Ending(t)
<1>1. Numbered(t)
  BY DEF Ending, Numbered, Alike
<1>2. Asserted(t)
  BY DEF Ending, Asserted
<1>. QED BY <1>1, <1>2 DEF Ending, Alike

\* One more operation on the files, after all blocks were handed over.
LEMMA EndingDo ==
  ASSUME NEW s, Ending(s), NEW x \in OpSpace, x.op \notin {"write", "open"},
         Writes(x) => OpenAfter(file, s.plan, Len(s.plan), x.arg.file),
         x.op \in {"close", "reopen"} => KnownAfter(file, s.plan, Len(s.plan), x.arg)
  PROVE  LET t == Do(s, <<x>>) IN
         /\ Ending(t) /\ Still(t, s)
         /\ \A o : Opens(x, o) => OpenAfter(file, t.plan, Len(t.plan), o)
<1>. DEFINE t == Do(s, <<x>>)
            q == s.plan \o <<x>>
<1>1. s \in MuxSpace /\ s.plan \in Seq(OpSpace)
  <2>1. s \in MuxSpace
    BY DEF Ending
  <2>. QED BY <2>1 DEF MuxSpace
<1>2. q \in Seq(OpSpace)
  BY <1>1
<1>3. t \in MuxSpace /\ t.plan = q /\ Still(t, s) /\ t.asserts = s.asserts
  BY <1>1, <1>2, PlanFields
<1>4. More(file, Drained, s.plan, x, q)
  BY <1>1, OneMore DEF Ending
<1>5. t = Do(s, <<x>>)
  OBVIOUS
<1>. HIDE DEF t, q
<1>6. PlanOk(file, Drained, q) /\ Waited(Drained, q, Len(q))
  BY <1>4 DEF More, Ending
<1>7. \A m \in Active : KnownAfter(file, q, Len(q), t.muxFile[m])
  BY <1>3, <1>4 DEF More, Ending, Still, Alike
<1>8. mode.interleave => RankedPlan(q, 2 * mux.round, 2 * (mux.round + 1))
  <2>1. \A n \in 1..Len(q) : (n \in 1..Len(s.plan) /\ q[n] = s.plan[n]) \/ q[n].op # "write"
    BY <1>4 DEF More
  <2>. QED BY <1>1, <1>2, <2>1, RankedMore DEF Ending
<1>9. Numbered(t) /\ Asserted(t)
  <2>1. Numbered(t)
    BY <1>3 DEF Ending, Numbered, Still, Alike
  <2>. QED BY <1>3, <2>1 DEF Ending, Asserted
<1>10. OpensNew(file, q, t.objects, t.name)
  <2>1. \A n \in 1..Len(q) : (n \in 1..Len(s.plan) /\ q[n] = s.plan[n]) \/ q[n].op # "open"
    BY <1>4 DEF More
  <2>2. OpensNew(file, q, s.objects, s.name)
    BY <1>1, <1>2, <2>1, LongerOpens DEF Ending
  <2>. QED BY <1>3, <2>2 DEF Still, Alike
<1>11. Ending(t)
  BY <1>3, <1>6, <1>7, <1>8, <1>9, <1>10 DEF Ending, Still
<1>12. \A o : Opens(x, o) => OpenAfter(file, t.plan, Len(t.plan), o)
  BY <1>3, <1>4 DEF More
<1>. QED BY <1>3, <1>5, <1>11, <1>12

LEMMA PairOfOps ==
  ASSUME NEW x \in OpSpace, NEW y \in OpSpace PROVE <<x>> \o <<y>> = <<x, y>>
<1>. <<>> \o <<x>> = <<x>> /\ <<>> \o <<x, y>> = <<x, y>> /\ <<>> \in Seq(OpSpace)
  OBVIOUS
<1>. QED BY TwoMore

\* A file is closed; what is left of a sector is written to it before.
LEMMA CloseEnding ==
  ASSUME NEW s, Ending(s), NEW m \in Active, mode \in Modes
  PROVE  Ending(Close(s, m))
<1>. DEFINE o == s.muxFile[m]
            x == Op("close", o)
            y == Op("reopen", o)
<1>1. m \in Muxers /\ s \in MuxSpace /\ o \in Objects
  <2>1. m \in Muxers /\ s \in MuxSpace
    BY ModeFacts DEF Ending
  <2>2. s.muxFile \in [Muxers -> Objects]
    BY <2>1 DEF MuxSpace
  <2>. QED BY <2>1, <2>2
<1>2. /\ x \in OpSpace /\ x.op = "close" /\ x.arg = o /\ ~Writes(x)
      /\ y \in OpSpace /\ y.op = "reopen" /\ y.arg = o /\ ~Writes(y) /\ Opens(y, o)
  BY <1>1 DEF Op, OpSpace, Writes, Opens
<1>3. KnownAfter(file, s.plan, Len(s.plan), o)
  BY DEF Ending
<1>4. x = Op("close", s.muxFile[m]) /\ y = Op("reopen", s.muxFile[m])
  OBVIOUS
<1>. HIDE DEF x, y
<1>5. Ending(Do(s, <<x>>))
  BY <1>2, <1>3, EndingDo
<1>6. CASE m = "sub" /\ mode.joined
  BY <1>6 DEF Close
<1>7. CASE ~(m = "sub" /\ mode.joined) /\ ~s.rest[m]
  BY <1>5, <1>7, <1>4 DEF Close
<1>8. CASE ~(m = "sub" /\ mode.joined) /\ s.rest[m]
  <2>. DEFINE a == Do(s, <<x>>)
              c == Do(a, <<y>>)
              b == NextBlock(c, m)
              z == Op("append", b)
              d == Made(c, b)
              e == Do(d, <<z>>)
              r == [e.rest EXCEPT ![m] = FALSE]
              g == [e EXCEPT !.rest = r]
  <2>1. Ending(a) /\ Still(a, s)
    BY <1>2, <1>3, EndingDo
  <2>2. Do(s, <<x, y>>) = c
    <3>1. s.plan \in Seq(OpSpace)
      BY <1>1 DEF MuxSpace
    <3>2. s.plan \o <<x>> \in Seq(OpSpace)
      BY <1>2, <3>1
    <3>3. a.plan = s.plan \o <<x>>
      BY <1>1, <1>2, <3>1, <3>2, PlanFields
    <3>4. s.plan \o <<x, y>> = (s.plan \o <<x>>) \o <<y>>
      BY <1>2, <3>1, TwoMore
    <3>. QED BY <1>1, <3>3, <3>4 DEF Do, MuxSpace
  <2>3. Close(s, m) = Do(WriteRest(c, m), <<x>>)
    <3>1. <<x>> \o <<y>> = <<x, y>>
      BY <1>2, PairOfOps
    <3>. QED BY <1>8, <1>4, <2>2, <3>1 DEF Close
  <2>. HIDE DEF a
  <2>4. KnownAfter(file, a.plan, Len(a.plan), o)
    <3>1. a.muxFile[m] = o
      BY <2>1 DEF Still, Alike
    <3>. QED BY <2>1, <3>1 DEF Ending
  <2>5. Ending(c) /\ Still(c, a) /\ OpenAfter(file, c.plan, Len(c.plan), o)
    BY <1>2, <2>1, <2>4, EndingDo
  <2>. HIDE DEF c
  <2>6. c \in MuxSpace /\ c.rest[m] /\ c.muxFile[m] = o /\ c.made \in Seq(BlockSpace) /\ c.round \in Nat
    <3>1. c \in MuxSpace
      BY <2>5 DEF Ending
    <3>2. c.rest[m] /\ c.muxFile[m] = o
      BY <1>8, <2>1, <2>5 DEF Still, Alike
    <3>. QED BY <3>1, <3>2 DEF MuxSpace
  <2>7. b \in BlockSpace /\ b.file = o
    <3>1. Len(c.made) + 1 \in Nat
      BY <2>6
    <3>. QED BY <1>1, <2>6, <3>1 DEF NextBlock, BlockSpace
  <2>8. WriteRest(c, m) = g
    BY <2>6 DEF WriteRest, Made, Do
  <2>. HIDE DEF b
  <2>9. z \in OpSpace /\ z.op = "append" /\ z.arg = b
    BY <2>7 DEF Op, OpSpace
  <2>10. d \in MuxSpace /\ Alike(d, c) /\ d.asserts = c.asserts /\ d.finished = c.finished /\ d.plan = c.plan
         /\ d.rest = c.rest
    <3>. DEFINE k == Append(c.made, b)
    <3>1. k \in Seq(BlockSpace)
      BY <2>6, <2>7
    <3>2. d = [c EXCEPT !.made = k]
      BY DEF Made
    <3>. HIDE DEF k
    <3>. QED BY <2>6, <3>1, <3>2 DEF MuxSpace, Alike
  <2>. HIDE DEF d
  <2>11. Ending(d)
    BY <2>5, <2>10, EndingFrame
  <2>12. Writes(z) => OpenAfter(file, d.plan, Len(d.plan), z.arg.file)
    BY <2>5, <2>7, <2>9, <2>10
  <2>13. Ending(e) /\ Still(e, d)
    BY <2>9, <2>11, <2>12, EndingDo
  <2>. HIDE DEF e, z
  <2>14. e \in MuxSpace
    BY <2>13 DEF Ending
  <2>15. r \in [Muxers -> BOOLEAN]
    <3>1. e.rest \in [Muxers -> BOOLEAN]
      BY <2>14 DEF MuxSpace
    <3>. QED BY <3>1
  <2>. HIDE DEF r
  <2>16. g \in MuxSpace /\ Alike(g, e) /\ g.asserts = e.asserts /\ g.finished = e.finished /\ g.plan = e.plan
    BY <2>14, <2>15 DEF MuxSpace, Alike
  <2>. HIDE DEF g
  <2>17. Ending(g)
    BY <2>13, <2>16, EndingFrame
  <2>18. KnownAfter(file, g.plan, Len(g.plan), o)
    <3>1. g.muxFile[m] = o
      BY <2>6, <2>10, <2>13, <2>16 DEF Still, Alike
    <3>. QED BY <2>17, <3>1 DEF Ending
  <2>19. Ending(Do(g, <<x>>))
    BY <1>2, <2>17, <2>18, EndingDo
  <2>. QED BY <2>3, <2>8, <2>19
<1>9. s.rest[m] \in BOOLEAN /\ mode.joined \in BOOLEAN
  <2>1. s.rest \in [Muxers -> BOOLEAN]
    BY <1>1 DEF MuxSpace
  <2>. QED BY <1>1, <2>1, ModeFacts
<1>. QED BY <1>6, <1>7, <1>8, <1>9

LEMMA ThreeParts ==
  ASSUME NEW p \in Seq(OpSpace), NEW q \in Seq(OpSpace), NEW r \in Seq(OpSpace)
  PROVE  p \o (q \o r) = (p \o q) \o r
<1>1. p \o (q \o r) \in Seq(OpSpace) /\ (p \o q) \o r \in Seq(OpSpace)
  OBVIOUS
<1>2. Len(p \o (q \o r)) = Len((p \o q) \o r)
  OBVIOUS
<1>3. \A i \in 1..Len(p \o (q \o r)) : (p \o (q \o r))[i] = ((p \o q) \o r)[i]
  OBVIOUS
<1>. QED BY <1>1, <1>2, <1>3, SeqEqual

\* The blocks held back are handed over, and written.
LEMMA EndingBegins ==
  ASSUME NEW t, Sound(t), t.round = mux.round, ~t.finished[Second], mode \in Modes
  PROVE  Ending(Do(t, Each("write", t.delayed) \o <<Op("wait", 0)>>))
<1>. DEFINE p == t.plan
            bs == t.delayed
            q == p \o Each("write", bs)
            x == Op("wait", 0)
            r == q \o <<x>>
            v == Do(t, Each("write", bs) \o <<x>>)
<1>1. t \in MuxSpace /\ p \in Seq(OpSpace) /\ bs \in Seq(BlockSpace) /\ t.round \in Nat
  BY SoundTypes
<1>2. GoodPlan(file, Drained, p, t) /\ Kept(t) /\ Numbered(t) /\ Asserted(t)
  BY DEF Sound, Steady
<1>3. Extended(file, Drained, p, q, "write", bs)
  <2>1. \A i \in 1..Len(bs) : OpenAfter(file, p, Len(p), bs[i].file)
    <3>1. OpenAfter(file, p, Len(p), t.muxFile["main"])
      BY <1>2, ModeFacts DEF GoodPlan, HasFile
    <3>2. \A i \in 1..Len(bs) : bs[i].file = t.muxFile["main"]
      BY <1>2 DEF Kept, KeptFor
    <3>. QED BY <3>1, <3>2
  <2>2. PlanOk(file, Drained, p)
    BY <1>2 DEF GoodPlan
  <2>. QED BY <1>1, <2>1, <2>2, MoreWrites
<1>4. x \in OpSpace /\ x.op = "wait" /\ ~Writes(x)
  BY DEF Op, OpSpace, Writes
<1>5. Each("write", bs) \in Seq(OpSpace) /\ q \in Seq(OpSpace)
  BY <1>1, <1>3, EachOps DEF Extended
<1>6. RankedPlan(q, 2 * mux.round, 2 * t.round + 1) \/ ~mode.interleave
  <2>. SUFFICES ASSUME mode.interleave PROVE RankedPlan(q, 2 * mux.round, 2 * t.round + 1)
    BY ModeFacts
  <2>1. RankedPlan(p, 2 * mux.round, 2 * t.round)
    BY DEF Sound
  <2>2. \A i \in 1..Len(bs) : Rank(bs[i]) = 2 * t.round + 1
    BY <1>2 DEF Kept, KeptFor, Rank
  <2>3. /\ 2 * mux.round \in Nat /\ 2 * t.round \in Nat /\ 2 * t.round + 1 \in Nat
        /\ 2 * t.round <= 2 * t.round + 1 /\ 2 * mux.round <= 2 * t.round + 1
    BY <1>1
  <2>. QED BY <1>1, <2>1, <2>2, <2>3, RankedWrites
<1>7. v = Do(t, Each("write", t.delayed) \o <<Op("wait", 0)>>)
  OBVIOUS
<1>. HIDE DEF x
<1>8. p \o (Each("write", bs) \o <<x>>) = r
  <2>1. <<x>> \in Seq(OpSpace)
    BY <1>4
  <2>. QED BY <1>1, <1>5, <2>1, ThreeParts
<1>. HIDE DEF q
<1>9. More(file, Drained, q, x, r)
  BY <1>3, <1>4, <1>5, OneMore DEF Extended
<1>10. v \in MuxSpace /\ v.plan = r /\ Still(v, t) /\ v.asserts = t.asserts
  <2>1. r \in Seq(OpSpace)
    BY <1>9 DEF More
  <2>. QED BY <1>1, <1>8, <2>1, PlanFields
<1>. HIDE DEF v, r
<1>11. PlanOk(file, Drained, r) /\ Waited(Drained, r, Len(r))
  BY <1>4, <1>9 DEF More
<1>12. \A m \in Active : KnownAfter(file, r, Len(r), v.muxFile[m])
  <2>. SUFFICES ASSUME NEW m \in Active PROVE KnownAfter(file, r, Len(r), v.muxFile[m])
    OBVIOUS
  <2>1. KnownAfter(file, p, Len(p), t.muxFile[m])
    BY <1>2 DEF GoodPlan, HasFile
  <2>2. KnownAfter(file, q, Len(q), t.muxFile[m])
    BY <1>3, <2>1 DEF Extended
  <2>3. KnownAfter(file, r, Len(r), t.muxFile[m])
    BY <1>9, <2>2 DEF More
  <2>. QED BY <1>10, <2>3 DEF Still, Alike
<1>13. mode.interleave => RankedPlan(r, 2 * mux.round, 2 * (mux.round + 1))
  <2>. SUFFICES ASSUME mode.interleave PROVE RankedPlan(r, 2 * mux.round, 2 * (mux.round + 1))
    OBVIOUS
  <2>1. r \in Seq(OpSpace) /\ \A n \in 1..Len(r) : (n \in 1..Len(q) /\ r[n] = q[n]) \/ r[n].op # "write"
    BY <1>4, <1>9 DEF More
  <2>2. RankedPlan(r, 2 * mux.round, 2 * t.round + 1)
    BY <1>5, <1>6, <2>1, RankedMore
  <2>3. 2 * t.round + 1 \in Nat /\ 2 * (mux.round + 1) \in Nat /\ 2 * t.round + 1 <= 2 * (mux.round + 1)
    BY <1>1
  <2>. QED BY <2>1, <2>2, <2>3, HigherRanks
<1>14. OpensNew(file, r, v.objects, v.name)
  <2>1. \A n \in 1..Len(q) : (n \in 1..Len(p) /\ q[n] = p[n]) \/ q[n].op # "open"
    <3>. SUFFICES ASSUME NEW n \in 1..Len(q), ~(n \in 1..Len(p) /\ q[n] = p[n])
                  PROVE  q[n].op # "open"
      OBVIOUS
    <3>. DEFINE b == bs[n - Len(p)]
    <3>1. q[n] = [op |-> "write", arg |-> b]
      BY <1>3 DEF Extended
    <3>. HIDE DEF b
    <3>. QED BY <3>1
  <2>2. OpensNew(file, q, t.objects, t.name)
    BY <1>1, <1>2, <1>5, <2>1, LongerOpens DEF GoodPlan
  <2>3. r \in Seq(OpSpace) /\ \A n \in 1..Len(r) : (n \in 1..Len(q) /\ r[n] = q[n]) \/ r[n].op # "open"
    BY <1>4, <1>9 DEF More
  <2>4. OpensNew(file, r, t.objects, t.name)
    BY <1>5, <2>2, <2>3, LongerOpens
  <2>. QED BY <1>10, <2>4 DEF Still, Alike
<1>15. Numbered(v) /\ Asserted(v) /\ ~v.finished[Second]
  <2>1. Numbered(v)
    BY <1>2, <1>10 DEF Numbered, Still, Alike
  <2>. QED BY <1>2, <1>10, <2>1 DEF Asserted, Still
<1>. QED BY <1>7, <1>10, <1>11, <1>12, <1>13, <1>14, <1>15 DEF Ending

\* The files are closed and the writer is destroyed.
LEMMA EndingPlanned ==
  ASSUME MuxInv, Idle, NEW part \in BOOLEAN
  PROVE  LET s == IF mode.stereo THEN DoFlush(mux, "sub", FALSE) ELSE mux
             t == DoFlush(s, "main", part)
             u == Do(t, Each("write", t.delayed) \o <<Op("wait", 0)>>)
             v == Close(u, "main")
         IN Ending(Do(IF mode.stereo THEN Close(v, "sub") ELSE v, <<Op("destroy", 0)>>))
<1>. DEFINE f == DoFlush(mux, "sub", FALSE)
            s == IF mode.stereo THEN f ELSE mux
            t == DoFlush(s, "main", part)
            u == Do(t, Each("write", t.delayed) \o <<Op("wait", 0)>>)
            v == Close(u, "main")
            w == Close(v, "sub")
            y == IF mode.stereo THEN w ELSE v
            x == Op("destroy", 0)
<1>1. Sound(mux) /\ ~mux.finished[Second] /\ mode \in Modes /\ "main" \in Active
  BY IdleReady, ModeFacts DEF Ready, MuxInv
<1>2. mode.stereo => "sub" \in Active
  BY DEF Active, Muxers
<1>3. mode.stereo => Sound(f) /\ Near(f, mux, "sub")
  BY <1>1, <1>2, DoFlushSound
<1>. HIDE DEF f
<1>4. Sound(s) /\ s.round = mux.round /\ s.finished = mux.finished
  BY <1>1, <1>3 DEF Near
<1>. HIDE DEF s
<1>5. Sound(t) /\ Near(t, s, "main")
  BY <1>1, <1>4, DoFlushSound
<1>. HIDE DEF t
<1>6. Ending(u)
  <2>1. t.round = mux.round /\ ~t.finished[Second]
    BY <1>1, <1>4, <1>5 DEF Near
  <2>. QED BY <1>1, <1>5, <2>1, EndingBegins
<1>. HIDE DEF u
<1>7. Ending(v)
  BY <1>1, <1>6, CloseEnding
<1>. HIDE DEF v
<1>8. Ending(y)
  BY <1>1, <1>2, <1>7, CloseEnding
<1>. HIDE DEF w, y
<1>9. x \in OpSpace /\ x.op = "destroy" /\ ~Writes(x)
  BY DEF Op, OpSpace, Writes
<1>. HIDE DEF x
<1>10. Ending(Do(y, <<x>>))
  BY <1>8, <1>9, EndingDo
<1>. QED BY <1>10 DEF f, s, t, u, v, w, x, y

LEMMA EndOfInputStep ==
  ASSUME MuxInv, EndOfInput
  PROVE  MuxInv'
<1>1. Idle /\ phase' = "end" /\ UNCHANGED <<mode, file, writerVars>>
  BY DEF EndOfInput
<1>2. PICK s : Carry(s) /\ Ending(s)
  <2>1. PICK part \in BOOLEAN :
         LET s == IF mode.stereo THEN DoFlush(mux, "sub", FALSE) ELSE mux
             t == DoFlush(s, "main", part)
             u == Do(t, Each("write", t.delayed) \o <<Op("wait", 0)>>)
             v == Close(u, "main")
         IN Carry(Do(IF mode.stereo THEN Close(v, "sub") ELSE v,
                     <<Op("destroy", 0)>>))
    BY DEF EndOfInput
  <2>. QED BY <1>1, <2>1, EndingPlanned
<1>. DEFINE t == [s EXCEPT !.plan = <<>>]
<1>3. mux' = t /\ todo' = s.plan
  BY <1>2 DEF Carry
<1>4. s \in MuxSpace
  BY <1>2 DEF Ending
<1>5. /\ t \in MuxSpace /\ t.plan = <<>> /\ t.objects = s.objects /\ t.orig = s.orig /\ t.num = s.num
      /\ t.name = s.name /\ t.finished = s.finished /\ t.asserts = s.asserts
  BY <1>4, EmptyPlan DEF MuxSpace
<1>. HIDE DEF t
<1>6. /\ mode' = mode /\ file' = file /\ UNCHANGED writerVars
      /\ cpc' = cpc /\ cblock' = cblock /\ accepted' = accepted /\ queue' = queue
  BY <1>1 DEF writerVars
<1>7. PlanOk(file, Drained, todo)' /\ OpensNew(file, todo, mux.objects, mux.name)'
  <2>1. PlanOk(file', Drained', todo')
    BY <1>2, <1>3, <1>6 DEF Ending, Drained
  <2>2. OpensNew(file', todo', mux'.objects, mux'.name)
    BY <1>2, <1>3, <1>5, <1>6 DEF Ending
  <2>. QED BY <1>6, <2>1, <2>2, OpensNext
<1>8. Numbered(mux)' /\ Asserted(mux)'
  <2>1. Numbered(t)
    BY <1>2, <1>5 DEF Ending, Numbered
  <2>2. Asserted(t)
    BY <1>2, <1>5 DEF Ending, Asserted
  <2>. QED BY <1>3, <1>6, <2>1, <2>2, RecordNext
<1>9. Rested'
  BY <1>1, <1>2, <1>3, <1>5, <1>6, RecordNext DEF Rested, Ending
<1>10. s.plan \in Seq(OpSpace) /\ mux.round \in Nat /\ 2 * (mux.round + 1) \in Nat
  <2>1. mux.round \in Nat
    BY DEF MuxInv, MuxSpace
  <2>2. s.plan \in Seq(OpSpace)
    BY <1>4 DEF MuxSpace
  <2>. QED BY <2>1, <2>2
<1>11. InRounds'
  BY <1>1, <1>2, <1>3, <1>6, <1>10, RoundsCarried DEF Ending
<1>12. NamesRise'
  BY <1>6 DEF MuxInv, NamesRise, Owner, Parity, Active
<1>13. Pending'
  BY <1>6 DEF MuxInv, Pending, IsOpen
<1>14. WP!Bookkeeping'
  BY <1>6, BookkeepingKept DEF MuxInv
<1>15. mode' \in Modes /\ file' \in FileSpace /\ phase' \in {"mux", "end", "failed", "complete", "over"}
       /\ todo' \in Seq(OpSpace) /\ mux' \in MuxSpace
  BY <1>1, <1>3, <1>5, <1>6, <1>10 DEF MuxInv
<1>16. phase' # "mux"
  BY <1>1
<1>. QED BY <1>7, <1>8, <1>9, <1>11, <1>12, <1>13, <1>14, <1>15, <1>16 DEF MuxInv, FileSpace

LEMMA InputThrowsStep ==
  ASSUME MuxInv, InputThrows
  PROVE  MuxInv'
<1>. DEFINE x == Op("destroy", 0)
            p == <<x>>
<1>1. /\ Idle /\ phase' = "failed" /\ todo' = p /\ mode' = mode /\ mux' = mux /\ file' = file
      /\ UNCHANGED writerVars /\ cpc' = cpc /\ cblock' = cblock /\ accepted' = accepted /\ queue' = queue
  BY DEF InputThrows, writerVars
<1>2. x \in OpSpace /\ x.op = "destroy"
  BY DEF Op, OpSpace
<1>. HIDE DEF x
<1>3. p \in Seq(OpSpace) /\ Len(p) = 1 /\ p[1] = x /\ \A n \in 1..Len(p) : p[n].op = "destroy"
  BY <1>2
<1>. HIDE DEF p
<1>4. PlanOk(file, Drained, todo)' /\ OpensNew(file, todo, mux.objects, mux.name)'
  <2>1. PlanOk(file', Drained', todo')
    BY <1>1, <1>3 DEF PlanOk, Writes
  <2>2. OpensNew(file', todo', mux'.objects, mux'.name)
    <3>1. OpensNew(file, todo, mux.objects, mux.name)
      BY <1>1 DEF MuxInv, Idle, Muxing
    <3>. QED BY <1>1, <1>3, <3>1 DEF OpensNew
  <2>. QED BY <1>1, <2>1, <2>2, OpensNext
<1>5. Numbered(mux)' /\ Asserted(mux)'
  BY <1>1, RecordNext DEF MuxInv
<1>6. Rested'
  BY <1>1, RecordNext DEF MuxInv, Rested
<1>7. InRounds'
  <2>1. mux.round \in Nat /\ 0 \in Nat
    BY DEF MuxInv, MuxSpace
  <2>2. RankedPlan(p, 2 * mux.round, 0)
    BY <1>3 DEF RankedPlan
  <2>. QED BY <1>1, <1>3, <2>1, <2>2, RoundsCarried
<1>8. NamesRise'
  BY <1>1 DEF MuxInv, NamesRise, Owner, Parity, Active
<1>9. Pending'
  BY <1>1 DEF MuxInv, Pending, IsOpen
<1>10. WP!Bookkeeping'
  BY <1>1, BookkeepingKept DEF MuxInv
<1>11. mode' \in Modes /\ file' \in FileSpace /\ phase' \in {"mux", "end", "failed", "complete", "over"}
       /\ todo' \in Seq(OpSpace) /\ mux' \in MuxSpace
  BY <1>1, <1>3 DEF MuxInv
<1>12. phase' # "mux"
  BY <1>1
<1>. QED BY <1>4, <1>5, <1>6, <1>7, <1>8, <1>9, <1>10, <1>11, <1>12 DEF MuxInv, FileSpace

-----------------------------------------------------------------------------
(* The first operation of a plan is carried out: the rest is a plan for    *)
(* the files as they are then.                                             *)

\* Files g, and e, as operation x leaves them.
DoneOp(f, d, x, g, e) ==
    /\ \A o \in Objects : \/ f[o].state = "open" /\ ~Closes(x, o)
                          \/ Opens(x, o)
                          => g[o].state = "open"
    /\ \A o \in Objects : f[o].state # "none" \/ (x.op = "open" /\ x.arg.obj = o)
                          => g[o].state # "none"
    /\ (d /\ x.op # "write") \/ x.op = "wait" => e

LEMMA TailOfPlan ==
  ASSUME NEW p \in Seq(OpSpace), p # <<>>
  PROVE  /\ Tail(p) \in Seq(OpSpace) /\ Len(p) \in Nat /\ Len(Tail(p)) \in Nat
         /\ Len(Tail(p)) + 1 = Len(p) /\ Head(p) = p[1] /\ p[1] \in OpSpace
         /\ \A n \in 1..Len(Tail(p)) : /\ Tail(p)[n] = p[n + 1] /\ n + 1 \in 1..Len(p)
                                       /\ p[n + 1] \in OpSpace
OBVIOUS

Shifted(f, d, p, g, e, q) ==
    /\ \A n \in 0..Len(q) : \A o \in Objects : OpenAfter(f, p, n + 1, o) => OpenAfter(g, q, n, o)
    /\ \A n \in 0..Len(q) : \A o \in Objects : KnownAfter(f, p, n + 1, o) => KnownAfter(g, q, n, o)
    /\ \A n \in 0..Len(q) : Waited(d, p, n + 1) => Waited(e, q, n)

LEMMA ShiftOne ==
  ASSUME NEW f, NEW d, NEW g, NEW e, NEW p \in Seq(OpSpace), p # <<>>,
         DoneOp(f, d, Head(p), g, e)
  PROVE  Shifted(f, d, p, g, e, Tail(p))
<1>. DEFINE q == Tail(p)
            x == Head(p)
<1>1. /\ Len(q) \in Nat /\ x = p[1]
      /\ \A n \in 1..Len(q) : q[n] = p[n + 1]
  BY TailOfPlan
<1>2. DoneOp(f, d, x, g, e)
  OBVIOUS
<1>. HIDE DEF q, x
<1>3. ASSUME NEW n \in 0..Len(q), NEW o \in Objects, OpenAfter(f, p, n + 1, o)
      PROVE  OpenAfter(g, q, n, o)
  <2>1. n \in Nat /\ n + 1 \in Nat
    BY <1>1
  <2>2. PICK k \in 0..(n + 1) : /\ IF k = 0 THEN f[o].state = "open" ELSE Opens(p[k], o)
                                /\ \A j \in (k + 1)..(n + 1) : ~Closes(p[j], o)
    BY <1>3 DEF OpenAfter
  <2>3. CASE k = 0
    <3>1. 1 \in (k + 1)..(n + 1)
      BY <2>1, <2>3
    <3>2. f[o].state = "open" /\ ~Closes(x, o)
      BY <1>1, <2>2, <2>3, <3>1
    <3>3. g[o].state = "open"
      BY <1>2, <3>2 DEF DoneOp
    <3>4. \A j \in (0 + 1)..n : ~Closes(q[j], o)
      <4>. SUFFICES ASSUME NEW j \in (0 + 1)..n PROVE ~Closes(q[j], o)
        OBVIOUS
      <4>1. j \in 1..Len(q) /\ j + 1 \in (k + 1)..(n + 1)
        BY <1>1, <2>1, <2>3
      <4>. QED BY <1>1, <2>2, <4>1
    <3>5. 0 \in 0..n
      BY <2>1
    <3>. QED BY <3>3, <3>4, <3>5 DEF OpenAfter
  <2>4. CASE k = 1
    <3>1. Opens(x, o)
      BY <1>1, <2>2, <2>4
    <3>2. g[o].state = "open"
      BY <1>2, <3>1 DEF DoneOp
    <3>3. \A j \in (0 + 1)..n : ~Closes(q[j], o)
      <4>. SUFFICES ASSUME NEW j \in (0 + 1)..n PROVE ~Closes(q[j], o)
        OBVIOUS
      <4>1. j \in 1..Len(q) /\ j + 1 \in (k + 1)..(n + 1)
        BY <1>1, <2>1, <2>4
      <4>. QED BY <1>1, <2>2, <4>1
    <3>4. 0 \in 0..n
      BY <2>1
    <3>. QED BY <3>2, <3>3, <3>4 DEF OpenAfter
  <2>5. CASE k > 1
    <3>1. k - 1 \in 1..Len(q) /\ k - 1 \in 0..n /\ k - 1 # 0 /\ (k - 1) + 1 = k
      BY <1>1, <2>1, <2>5
    <3>2. Opens(q[k - 1], o)
      BY <1>1, <2>2, <2>5, <3>1
    <3>3. \A j \in ((k - 1) + 1)..n : ~Closes(q[j], o)
      <4>. SUFFICES ASSUME NEW j \in ((k - 1) + 1)..n PROVE ~Closes(q[j], o)
        OBVIOUS
      <4>1. j \in 1..Len(q) /\ j + 1 \in (k + 1)..(n + 1)
        BY <1>1, <2>1, <2>5
      <4>. QED BY <1>1, <2>2, <4>1
    <3>. QED BY <3>1, <3>2, <3>3 DEF OpenAfter
  <2>. QED BY <2>1, <2>3, <2>4, <2>5
<1>4. ASSUME NEW n \in 0..Len(q), NEW o \in Objects, KnownAfter(f, p, n + 1, o)
      PROVE  KnownAfter(g, q, n, o)
  <2>1. CASE f[o].state # "none"
    BY <1>2, <2>1 DEF DoneOp, KnownAfter
  <2>2. CASE \E k \in 1..(n + 1) : p[k].op = "open" /\ p[k].arg.obj = o
    <3>1. PICK k \in 1..(n + 1) : p[k].op = "open" /\ p[k].arg.obj = o
      BY <2>2
    <3>2. CASE k = 1
      BY <1>1, <1>2, <3>1, <3>2 DEF DoneOp, KnownAfter
    <3>3. CASE k > 1
      <4>1. k - 1 \in 1..n /\ k - 1 \in 1..Len(q) /\ (k - 1) + 1 = k
        BY <1>1, <3>3
      <4>2. q[k - 1] = p[k]
        BY <1>1, <4>1
      <4>. QED BY <3>1, <4>1, <4>2 DEF KnownAfter
    <3>. QED BY <1>1, <3>2, <3>3
  <2>. QED BY <1>4, <2>1, <2>2 DEF KnownAfter
<1>5. ASSUME NEW n \in 0..Len(q), Waited(d, p, n + 1)
      PROVE  Waited(e, q, n)
  <2>1. n \in Nat /\ n + 1 \in Nat
    BY <1>1
  <2>2. PICK k \in 0..(n + 1) : /\ IF k = 0 THEN d ELSE p[k].op = "wait"
                                /\ \A j \in (k + 1)..(n + 1) : p[j].op # "write"
    BY <1>5 DEF Waited
  <2>3. CASE k <= 1
    <3>1. e
      <4>1. CASE k = 0
        <5>1. 1 \in (k + 1)..(n + 1)
          BY <2>1, <4>1
        <5>. QED BY <1>1, <1>2, <2>2, <4>1, <5>1 DEF DoneOp
      <4>2. CASE k = 1
        BY <1>1, <1>2, <2>2, <4>2 DEF DoneOp
      <4>. QED BY <2>3, <4>1, <4>2
    <3>2. \A j \in (0 + 1)..n : q[j].op # "write"
      <4>. SUFFICES ASSUME NEW j \in (0 + 1)..n PROVE q[j].op # "write"
        OBVIOUS
      <4>1. j \in 1..Len(q) /\ j + 1 \in (k + 1)..(n + 1)
        BY <1>1, <2>1, <2>3
      <4>. QED BY <1>1, <2>2, <4>1
    <3>3. 0 \in 0..n
      BY <2>1
    <3>. QED BY <3>1, <3>2, <3>3 DEF Waited
  <2>4. CASE k > 1
    <3>1. k - 1 \in 1..Len(q) /\ k - 1 \in 0..n /\ k - 1 # 0 /\ (k - 1) + 1 = k
      BY <1>1, <2>1, <2>4
    <3>2. q[k - 1].op = "wait"
      BY <1>1, <2>2, <2>4, <3>1
    <3>3. \A j \in ((k - 1) + 1)..n : q[j].op # "write"
      <4>. SUFFICES ASSUME NEW j \in ((k - 1) + 1)..n PROVE q[j].op # "write"
        OBVIOUS
      <4>1. j \in 1..Len(q) /\ j + 1 \in (k + 1)..(n + 1)
        BY <1>1, <2>1, <2>4
      <4>. QED BY <1>1, <2>2, <4>1
    <3>. QED BY <3>1, <3>2, <3>3 DEF Waited
  <2>. QED BY <2>1, <2>3, <2>4
<1>. QED BY <1>3, <1>4, <1>5 DEF Shifted, q

LEMMA ShiftPlan ==
  ASSUME NEW f, NEW d, NEW g, NEW e, NEW p \in Seq(OpSpace), p # <<>>,
         DoneOp(f, d, Head(p), g, e), PlanOk(f, d, p)
  PROVE  PlanOk(g, e, Tail(p))
<1>. DEFINE q == Tail(p)
<1>1. Shifted(f, d, p, g, e, q)
  BY ShiftOne
<1>2. /\ Len(q) \in Nat
      /\ \A n \in 1..Len(q) : q[n] = p[n + 1] /\ n + 1 \in 1..Len(p) /\ p[n + 1] \in OpSpace
  BY TailOfPlan
<1>. SUFFICES ASSUME NEW n \in 1..Len(q)
              PROVE  /\ Writes(q[n]) => OpenAfter(g, q, n - 1, q[n].arg.file)
                     /\ q[n].op = "close" => Waited(e, q, n - 1)
                     /\ q[n].op \in {"close", "reopen"} => KnownAfter(g, q, n - 1, q[n].arg)
  BY DEF PlanOk
<1>3. q[n] = p[n + 1] /\ n + 1 \in 1..Len(p) /\ q[n] \in OpSpace
  BY <1>2
<1>. HIDE DEF q
<1>4. n - 1 \in 0..Len(q) /\ (n - 1) + 1 = n /\ (n + 1) - 1 = n
  BY <1>2
<1>5. Writes(q[n]) => q[n].arg.file \in Objects
  BY <1>3 DEF Writes, OpSpace, BlockSpace
<1>6. q[n].op \in {"close", "reopen"} => q[n].arg \in Objects
  BY <1>3 DEF OpSpace
<1>7. /\ Writes(q[n]) => OpenAfter(f, p, n, q[n].arg.file)
      /\ q[n].op = "close" => Waited(d, p, n)
      /\ q[n].op \in {"close", "reopen"} => KnownAfter(f, p, n, q[n].arg)
  BY <1>3, <1>4 DEF PlanOk
<1>8. /\ \A o \in Objects : OpenAfter(f, p, n, o) => OpenAfter(g, q, n - 1, o)
      /\ \A o \in Objects : KnownAfter(f, p, n, o) => KnownAfter(g, q, n - 1, o)
      /\ Waited(d, p, n) => Waited(e, q, n - 1)
  BY <1>1, <1>4 DEF Shifted
<1>. QED BY <1>5, <1>6, <1>7, <1>8

\* The files have the names and owners they had.
SameFiles(g, f) ==
    \A o \in Objects : /\ g[o].mux = f[o].mux /\ g[o].name = f[o].name
                       /\ g[o].state = "none" <=> f[o].state = "none"

LEMMA ShiftOpens ==
  ASSUME NEW f, NEW g, NEW p \in Seq(OpSpace), p # <<>>, NEW objs, NEW names,
         OpensNew(f, p, objs, names), SameFiles(g, f)
  PROVE  OpensNew(g, Tail(p), objs, names)
<1>. DEFINE q == Tail(p)
<1>1. /\ Len(q) \in Nat
      /\ \A n \in 1..Len(q) : q[n] = p[n + 1] /\ n + 1 \in 1..Len(p) /\ p[n + 1] \in OpSpace
  BY TailOfPlan
<1>. HIDE DEF q
<1>2. \A o \in Objects : g[o].state # "none" => o <= objs /\ g[o].name <= names[g[o].mux]
  BY DEF OpensNew, SameFiles
<1>3. ASSUME NEW n \in 1..Len(q), q[n].op = "open"
      PROVE  /\ q[n].arg.obj <= objs /\ g[q[n].arg.obj].state = "none"
             /\ q[n].arg.name <= names[q[n].arg.mux]
             /\ Owner(q[n].arg.mux) /\ Parity(q[n].arg.mux, q[n].arg.name)
             /\ \A o \in Objects : g[o].state # "none" /\ g[o].mux = q[n].arg.mux => g[o].name < q[n].arg.name
  <2>1. q[n] = p[n + 1] /\ n + 1 \in 1..Len(p) /\ q[n] \in OpSpace
    BY <1>1
  <2>2. q[n].arg.obj \in Objects
    BY <1>3, <2>1 DEF OpSpace
  <2>. QED BY <1>3, <2>1, <2>2 DEF OpensNew, SameFiles
<1>4. ASSUME NEW k \in 1..Len(q), NEW n \in 1..Len(q), k < n, q[k].op = "open", q[n].op = "open"
      PROVE  /\ q[k].arg.obj # q[n].arg.obj
             /\ q[k].arg.mux = q[n].arg.mux => q[k].arg.name < q[n].arg.name
  <2>1. k + 1 \in 1..Len(p) /\ n + 1 \in 1..Len(p) /\ k + 1 < n + 1
    BY <1>1, <1>4
  <2>2. q[k] = p[k + 1] /\ q[n] = p[n + 1]
    BY <1>1
  <2>. QED BY <1>4, <2>1, <2>2 DEF OpensNew
<1>. QED BY <1>2, <1>3, <1>4 DEF OpensNew, q

\* A file is opened that was to be: the ones to be opened later are others.
WithFile(f, x, st) == [f EXCEPT ![x.obj] = [state |-> st, mux |-> x.mux, name |-> x.name]]
OpenedNow(f, g, x, q, objs, names, st) ==
    /\ OpensNew(g, q, objs, names) /\ g \in FileSpace
    /\ x.obj \in Objects /\ f[x.obj].state = "none"
    /\ g[x.obj] = [state |-> st, mux |-> x.mux, name |-> x.name]
    /\ \A o \in Objects : o # x.obj => g[o] = f[o]
    /\ Owner(x.mux) /\ Parity(x.mux, x.name)
    /\ \A o \in Objects : f[o].state # "none" /\ f[o].mux = x.mux => f[o].name < x.name
LEMMA ShiftOpened ==
  ASSUME NEW f \in FileSpace, NEW p \in Seq(OpSpace), p # <<>>,
         NEW objs, NEW names, OpensNew(f, p, objs, names),
         Head(p).op = "open", NEW st \in {"open", "closed"}
  PROVE  OpenedNow(f, WithFile(f, Head(p).arg, st), Head(p).arg, Tail(p), objs, names, st)
<1>. DEFINE q == Tail(p)
            x == Head(p).arg
            r == [state |-> st, mux |-> x.mux, name |-> x.name]
            g == [f EXCEPT ![x.obj] = r]
<1>1. /\ Len(q) \in Nat /\ Head(p) = p[1] /\ p[1] \in OpSpace /\ 1 \in 1..Len(p)
      /\ \A n \in 1..Len(q) : q[n] = p[n + 1] /\ n + 1 \in 1..Len(p) /\ p[n + 1] \in OpSpace
  BY TailOfPlan
<1>2. x.obj \in Objects /\ x.mux \in Muxers /\ x.name \in Nat /\ x = p[1].arg /\ p[1].op = "open"
  BY <1>1 DEF OpSpace
<1>. HIDE DEF q, x
<1>3. /\ r \in [state : {"none", "open", "closed", "deleted"}, mux : Muxers, name : Nat]
      /\ r.state # "none" /\ r.mux = x.mux /\ r.name = x.name
  BY <1>2
<1>4. /\ g \in FileSpace /\ g[x.obj] = r
      /\ \A o \in Objects : o # x.obj => g[o] = f[o]
  BY <1>2, <1>3 DEF FileSpace
<1>5. r = [state |-> st, mux |-> x.mux, name |-> x.name] /\ g = WithFile(f, x, st)
  BY DEF WithFile
<1>. HIDE DEF r, g
<1>6. /\ x.obj <= objs /\ f[x.obj].state = "none" /\ x.name <= names[x.mux]
      /\ Owner(x.mux) /\ Parity(x.mux, x.name)
      /\ \A o \in Objects : f[o].state # "none" /\ f[o].mux = x.mux => f[o].name < x.name
  BY <1>1, <1>2 DEF OpensNew
<1>7. \A o \in Objects : g[o].state # "none" => o <= objs /\ g[o].name <= names[g[o].mux]
  <2>1. \A o \in Objects : o # x.obj /\ g[o].state # "none" => o <= objs /\ g[o].name <= names[g[o].mux]
    BY <1>4 DEF OpensNew
  <2>. QED BY <1>3, <1>4, <1>6, <2>1
<1>8. ASSUME NEW n \in 1..Len(q), q[n].op = "open"
      PROVE  /\ q[n].arg.obj <= objs /\ g[q[n].arg.obj].state = "none"
             /\ q[n].arg.name <= names[q[n].arg.mux]
             /\ Owner(q[n].arg.mux) /\ Parity(q[n].arg.mux, q[n].arg.name)
             /\ \A o \in Objects : g[o].state # "none" /\ g[o].mux = q[n].arg.mux => g[o].name < q[n].arg.name
  <2>1. q[n] = p[n + 1] /\ n + 1 \in 1..Len(p) /\ 1 < n + 1 /\ q[n] \in OpSpace
    BY <1>1
  <2>2. q[n].arg.obj \in Objects
    BY <1>8, <2>1 DEF OpSpace
  <2>3. x.obj # q[n].arg.obj /\ (x.mux = q[n].arg.mux => x.name < q[n].arg.name)
    BY <1>1, <1>2, <1>8, <2>1 DEF OpensNew
  <2>4. /\ q[n].arg.obj <= objs /\ f[q[n].arg.obj].state = "none"
        /\ q[n].arg.name <= names[q[n].arg.mux]
        /\ Owner(q[n].arg.mux) /\ Parity(q[n].arg.mux, q[n].arg.name)
        /\ \A o \in Objects : f[o].state # "none" /\ f[o].mux = q[n].arg.mux => f[o].name < q[n].arg.name
    BY <1>8, <2>1 DEF OpensNew
  <2>. QED BY <1>3, <1>4, <2>2, <2>3, <2>4
<1>9. ASSUME NEW k \in 1..Len(q), NEW n \in 1..Len(q), k < n, q[k].op = "open", q[n].op = "open"
      PROVE  /\ q[k].arg.obj # q[n].arg.obj
             /\ q[k].arg.mux = q[n].arg.mux => q[k].arg.name < q[n].arg.name
  <2>1. k + 1 \in 1..Len(p) /\ n + 1 \in 1..Len(p) /\ k + 1 < n + 1
    BY <1>1, <1>9
  <2>2. q[k] = p[k + 1] /\ q[n] = p[n + 1]
    BY <1>1
  <2>. QED BY <1>9, <2>1, <2>2 DEF OpensNew
<1>10. OpensNew(g, q, objs, names)
  BY <1>7, <1>8, <1>9 DEF OpensNew
<1>. QED BY <1>2, <1>4, <1>5, <1>6, <1>10 DEF OpenedNow, q, x

-----------------------------------------------------------------------------
(* The first operation is carried out: what stays as it is.                *)

LEMMA TailStep ==
  ASSUME MuxInv, todo # <<>>, cpc = "idle", todo' = Tail(todo),
         mode' = mode, mux' = mux, phase' = phase,
         DoneOp(file, Drained, Head(todo), file', Drained'),
         OpensNew(file', Tail(todo), mux.objects, mux.name)
  PROVE  /\ mode' \in Modes /\ todo' \in Seq(OpSpace) /\ mux' \in MuxSpace
         /\ phase' \in {"mux", "end", "failed", "complete", "over"}
         /\ PlanOk(file, Drained, todo)' /\ OpensNew(file, todo, mux.objects, mux.name)'
         /\ phase' = "mux" => GoodPlan(file, Drained, todo, mux)'
         /\ Numbered(mux)' /\ Asserted(mux)' /\ Rested'
<1>1. todo \in Seq(OpSpace) /\ mux \in MuxSpace /\ PlanOk(file, Drained, todo)
      /\ (phase = "mux" => GoodPlan(file, Drained, todo, mux))
  BY DEF MuxInv, Muxing
<1>. DEFINE q == Tail(todo)
<1>2. /\ q \in Seq(OpSpace) /\ Len(q) \in Nat /\ Len(q) + 1 = Len(todo) /\ Head(todo) = todo[1]
      /\ 1 \in 1..Len(todo)
      /\ \A n \in 1..Len(q) : q[n] = todo[n + 1] /\ n + 1 \in 1..Len(todo)
  BY <1>1, TailOfPlan
<1>3. PlanOk(file', Drained', q)
  BY <1>1, ShiftPlan
<1>4. phase = "mux" => GoodPlan(file', Drained', q, mux)
  <2>. SUFFICES ASSUME phase = "mux" PROVE GoodPlan(file', Drained', q, mux)
    OBVIOUS
  <2>1. GoodPlan(file, Drained, todo, mux)
    BY <1>1
  <2>2. Shifted(file, Drained, todo, file', Drained', q)
    BY <1>1, ShiftOne
  <2>3. ASSUME NEW m \in Active PROVE HasFile(file', q, mux.muxFile[m])
    <3>1. HasFile(file, todo, mux.muxFile[m])
      BY <2>1 DEF GoodPlan
    <3>2. mux.muxFile[m] \in Objects
      <4>1. mux.muxFile \in [Muxers -> Objects]
        BY <1>1 DEF MuxSpace
      <4>2. m \in Muxers
        BY ModeFacts DEF MuxInv
      <4>. QED BY <4>1, <4>2
    <3>3. Len(q) \in 0..Len(q)
      BY <1>2
    <3>. QED BY <1>2, <2>2, <3>1, <3>2, <3>3 DEF HasFile, Shifted
  <2>4. ~mode.async => Drained' /\ \A n \in 1..Len(q) : q[n].op # "write"
    <3>. SUFFICES ASSUME ~mode.async PROVE Drained' /\ \A n \in 1..Len(q) : q[n].op # "write"
      OBVIOUS
    <3>1. Drained /\ \A n \in 1..Len(todo) : todo[n].op # "write"
      BY <2>1 DEF GoodPlan
    <3>2. Head(todo).op # "write"
      BY <1>2, <3>1
    <3>3. Drained'
      BY <3>1, <3>2 DEF DoneOp
    <3>4. \A n \in 1..Len(q) : q[n].op # "write"
      BY <1>2, <3>1
    <3>. QED BY <3>3, <3>4
  <2>. QED BY <1>3, <2>3, <2>4 DEF GoodPlan
<1>5. phase' = "mux" => GoodPlan(file, Drained, todo, mux)'
  <2>. HIDE DEF q
  <2>1. phase' = "mux" => GoodPlan(file', Drained', todo', mux')
    BY <1>4 DEF q
  <2>. QED BY <2>1, GoodPlanNext
<1>6. PlanOk(file, Drained, todo)'
  <2>1. PlanOk(file', Drained', todo')
    BY <1>3
  <2>. QED BY <2>1
<1>7. OpensNew(file, todo, mux.objects, mux.name)'
  BY OpensNext
<1>8. Numbered(mux)' /\ Asserted(mux)' /\ Rested'
  <2>1. Numbered(mux)' /\ Asserted(mux)'
    BY RecordNext DEF MuxInv
  <2>. QED BY <2>1, RecordNext DEF MuxInv, Rested
<1>9. mode' \in Modes /\ phase' \in {"mux", "end", "failed", "complete", "over"}
      /\ todo' \in Seq(OpSpace) /\ mux' \in MuxSpace
  BY <1>1, <1>2 DEF MuxInv
<1>. QED BY <1>5, <1>6, <1>7, <1>8, <1>9

\* The order of what is handed over, after a step of the plan.
LEMMA RoundsTail ==
  ASSUME MuxInv, todo # <<>>, cpc = "idle", todo' = Tail(todo),
         mode' = mode, mux' = mux, phase' = phase, accepted' = accepted,
         \/ Head(todo).op # "write" /\ cpc' # "add"
         \/ Head(todo).op = "write" /\ cpc' = "add" /\ cblock' = Head(todo).arg
  PROVE  InRounds'
<1>1. todo \in Seq(OpSpace) /\ accepted \in Seq(BlockSpace)
  BY DEF MuxInv, WP!Bookkeeping, WP!TypeOK
<1>. DEFINE q == Tail(todo)
            b == Head(todo).arg
<1>2. /\ q \in Seq(OpSpace) /\ Len(q) \in Nat /\ Len(q) + 1 = Len(todo) /\ Head(todo) = todo[1]
      /\ 1 \in 1..Len(todo) /\ todo[1] \in OpSpace
      /\ \A n \in 1..Len(q) : q[n] = todo[n + 1] /\ n + 1 \in 1..Len(todo)
  BY <1>1, TailOfPlan
<1>. HIDE DEF q
<1>. SUFFICES ASSUME mode.interleave
              PROVE  /\ InOrder(Given')
                     /\ Follow(q, Given')
                     /\ \A k, n \in 1..Len(q) : k < n /\ q[k].op = "write" /\ q[n].op = "write"
                                                  => Rank(q[k].arg) <= Rank(q[n].arg)
                     /\ phase = "mux" => UpTo(q, Given', 2 * mux.round)
  BY DEF InRounds, q
<1>3. /\ InOrder(accepted) /\ Follow(todo, accepted)
      /\ \A k, n \in 1..Len(todo) : k < n /\ todo[k].op = "write" /\ todo[n].op = "write"
                                         => Rank(todo[k].arg) <= Rank(todo[n].arg)
      /\ phase = "mux" => UpTo(todo, accepted, 2 * mux.round)
  BY DEF MuxInv, InRounds, Given, Muxing
<1>4. \A k, n \in 1..Len(q) : k < n /\ q[k].op = "write" /\ q[n].op = "write"
                                => Rank(q[k].arg) <= Rank(q[n].arg)
  <2>. SUFFICES ASSUME NEW k \in 1..Len(q), NEW n \in 1..Len(q), k < n, q[k].op = "write", q[n].op = "write"
                PROVE  Rank(q[k].arg) <= Rank(q[n].arg)
    OBVIOUS
  <2>1. k + 1 \in 1..Len(todo) /\ n + 1 \in 1..Len(todo) /\ k + 1 < n + 1
    BY <1>2
  <2>. QED BY <1>2, <1>3, <2>1
<1>5. CASE Head(todo).op # "write" /\ cpc' # "add"
  <2>1. Given' = accepted
    BY <1>5 DEF Given
  <2>2. Follow(q, accepted)
    BY <1>2, <1>3 DEF Follow
  <2>3. phase = "mux" => UpTo(q, accepted, 2 * mux.round)
    BY <1>2, <1>3 DEF UpTo
  <2>. QED BY <1>3, <1>4, <2>1, <2>2, <2>3
<1>6. CASE Head(todo).op = "write" /\ cpc' = "add" /\ cblock' = Head(todo).arg
  <2>1. Given' = Append(accepted, b)
    BY <1>6 DEF Given
  <2>2. todo[1].op = "write" /\ b = todo[1].arg /\ b \in BlockSpace
    BY <1>2, <1>6 DEF OpSpace
  <2>. HIDE DEF b
  <2>. DEFINE g == Append(accepted, b)
  <2>3. /\ Len(g) = Len(accepted) + 1 /\ Len(accepted) \in Nat
        /\ \A i \in 1..Len(accepted) + 1 : g[i] = IF i = Len(accepted) + 1 THEN b ELSE accepted[i]
    BY <1>1, <2>2, OneBlock
  <2>4. g = Given'
    BY <2>1
  <2>. HIDE DEF g
  <2>5. \A i \in 1..Len(accepted) : Rank(accepted[i]) <= Rank(b)
    BY <1>2, <1>3, <2>2 DEF Follow
  <2>6. \A n \in 1..Len(q) : q[n].op = "write" => Rank(b) <= Rank(q[n].arg)
    <3>. SUFFICES ASSUME NEW n \in 1..Len(q), q[n].op = "write" PROVE Rank(b) <= Rank(q[n].arg)
      OBVIOUS
    <3>1. n + 1 \in 1..Len(todo) /\ 1 < n + 1 /\ q[n] = todo[n + 1]
      BY <1>2
    <3>. QED BY <1>2, <1>3, <2>2, <3>1
  <2>7. \A i \in 1..Len(g) : (i \in 1..Len(accepted) /\ g[i] = accepted[i]) \/ (i = Len(accepted) + 1 /\ g[i] = b)
    BY <2>3
  <2>8. InOrder(g)
    <3>. SUFFICES ASSUME NEW i \in 1..Len(g), NEW j \in 1..Len(g), i < j PROVE Rank(g[i]) <= Rank(g[j])
      BY DEF InOrder
    <3>1. i \in 1..Len(accepted) /\ g[i] = accepted[i]
      BY <2>3
    <3>2. CASE j \in 1..Len(accepted)
      BY <1>3, <2>7, <2>3, <3>1, <3>2 DEF InOrder
    <3>3. CASE j = Len(accepted) + 1
      BY <2>3, <2>5, <3>1, <3>3
    <3>. QED BY <2>7, <3>2, <3>3
  <2>9. Follow(q, g)
    <3>. SUFFICES ASSUME NEW n \in 1..Len(q), NEW i \in 1..Len(g), q[n].op = "write"
                  PROVE  Rank(g[i]) <= Rank(q[n].arg)
      BY DEF Follow
    <3>1. CASE i \in 1..Len(accepted) /\ g[i] = accepted[i]
      <4>1. n + 1 \in 1..Len(todo) /\ q[n] = todo[n + 1]
        BY <1>2
      <4>. QED BY <1>3, <3>1, <4>1 DEF Follow
    <3>2. CASE g[i] = b
      BY <2>6, <3>2
    <3>. QED BY <2>7, <3>1, <3>2
  <2>10. phase = "mux" => UpTo(q, g, 2 * mux.round)
    <3>. SUFFICES ASSUME phase = "mux" PROVE UpTo(q, g, 2 * mux.round)
      OBVIOUS
    <3>1. \A n \in 1..Len(q) : q[n].op = "write" => Rank(q[n].arg) <= 2 * mux.round
      BY <1>2, <1>3 DEF UpTo
    <3>2. Rank(b) <= 2 * mux.round
      BY <1>2, <1>3, <2>2 DEF UpTo
    <3>3. \A i \in 1..Len(accepted) : Rank(accepted[i]) <= 2 * mux.round
      BY <1>3 DEF UpTo
    <3>4. \A i \in 1..Len(g) : Rank(g[i]) <= 2 * mux.round
      BY <2>7, <3>2, <3>3
    <3>. QED BY <3>1, <3>4 DEF UpTo
  <2>. QED BY <1>4, <2>4, <2>8, <2>9, <2>10
<1>. QED BY <1>5, <1>6

-----------------------------------------------------------------------------
(* The steps of the plan.                                                  *)

LEMMA DoingFacts ==
  ASSUME MuxInv, NEW op, Doing(op)
  PROVE  /\ todo # <<>> /\ cpc = "idle" /\ todo \in Seq(OpSpace) /\ Muxing
         /\ Head(todo) \in OpSpace /\ Head(todo).op = op /\ Head(todo).arg = Arg
         /\ Writes(Head(todo)) => Arg.file \in Objects /\ IsOpen(Arg.file)
         /\ op = "close" => queue = <<>>
         /\ op \in {"close", "reopen"} => Arg \in Objects /\ file[Arg].state # "none"
         /\ op \in {"write", "direct", "append"} => Writes(Head(todo)) /\ Arg \in BlockSpace
         /\ OpensNew(file, todo, mux.objects, mux.name)
<1>1. todo # <<>> /\ cpc = "idle" /\ todo \in Seq(OpSpace) /\ Muxing /\ Head(todo).op = op
  BY DEF Doing, MuxInv, Muxing
<1>2. Head(todo) = todo[1] /\ todo[1] \in OpSpace /\ 1 \in 1..Len(todo)
  BY <1>1, TailOfPlan
<1>3. PlanOk(file, Drained, todo) /\ OpensNew(file, todo, mux.objects, mux.name)
  BY <1>1 DEF MuxInv
<1>4. /\ Writes(Head(todo)) => OpenAfter(file, todo, 0, Arg.file)
      /\ Head(todo).op = "close" => Waited(Drained, todo, 0)
      /\ Head(todo).op \in {"close", "reopen"} => KnownAfter(file, todo, 0, Arg)
  BY <1>2, <1>3 DEF PlanOk, Arg
<1>5. \A o : OpenAfter(file, todo, 0, o) => IsOpen(o)
  BY DEF OpenAfter, IsOpen
<1>6. Waited(Drained, todo, 0) => queue = <<>>
  BY <1>1 DEF Waited, Drained
<1>7. \A o : KnownAfter(file, todo, 0, o) => file[o].state # "none"
  BY DEF KnownAfter
<1>8. Head(todo).arg = Arg
  BY DEF Arg
<1>9. Writes(Head(todo)) => Arg \in BlockSpace /\ Arg.file \in Objects
  BY <1>2, <1>8 DEF Writes, OpSpace, BlockSpace
<1>10. op \in {"close", "reopen"} => Arg \in Objects
  BY <1>1, <1>2, <1>8 DEF OpSpace
<1>11. op \in {"write", "direct", "append"} => Writes(Head(todo))
  BY <1>1 DEF Writes
<1>. QED BY <1>1, <1>2, <1>3, <1>4, <1>5, <1>6, <1>7, <1>8, <1>9, <1>10, <1>11

\* An operation that leaves the files as they are.
LEMMA SameFilesStep ==
  ASSUME MuxInv, NEW op, Doing(op), op \notin {"open", "reopen"}, todo' = Tail(todo),
         mode' = mode, mux' = mux, phase' = phase, file' = file, accepted' = accepted,
         \/ op = "write" /\ cpc' = "add" /\ cblock' = Arg
         \/ op = "wait" /\ cpc' = "wait"
         \/ op \notin {"write", "wait"} /\ cpc' = "idle" /\ queue' = queue,
         queue' = queue, WP!Bookkeeping'
  PROVE  MuxInv'
<1>1. /\ todo # <<>> /\ cpc = "idle" /\ todo \in Seq(OpSpace) /\ Head(todo).op = op
      /\ Head(todo).arg = Arg /\ (op = "write" => IsOpen(Arg.file))
      /\ OpensNew(file, todo, mux.objects, mux.name)
  BY DoingFacts
<1>2. DoneOp(file, Drained, Head(todo), file', Drained')
  <2>1. \A o : ~Opens(Head(todo), o)
    BY <1>1 DEF Opens
  <2>2. (Drained /\ op # "write") \/ op = "wait" => Drained'
    BY <1>1 DEF Drained
  <2>. QED BY <1>1, <2>1, <2>2 DEF DoneOp
<1>3. OpensNew(file', Tail(todo), mux.objects, mux.name)
  <2>1. SameFiles(file, file)
    BY DEF SameFiles
  <2>. QED BY <1>1, <2>1, ShiftOpens
<1>4. /\ mode' \in Modes /\ todo' \in Seq(OpSpace) /\ mux' \in MuxSpace
      /\ phase' \in {"mux", "end", "failed", "complete", "over"}
      /\ PlanOk(file, Drained, todo)' /\ OpensNew(file, todo, mux.objects, mux.name)'
      /\ phase' = "mux" => GoodPlan(file, Drained, todo, mux)'
      /\ Numbered(mux)' /\ Asserted(mux)' /\ Rested'
  BY <1>1, <1>2, <1>3, TailStep
<1>5. InRounds'
  <2>1. \/ Head(todo).op # "write" /\ cpc' # "add"
        \/ Head(todo).op = "write" /\ cpc' = "add" /\ cblock' = Head(todo).arg
    BY <1>1
  <2>. QED BY <1>1, <2>1, RoundsTail
<1>6. NamesRise'
  BY DEF MuxInv, NamesRise, Owner, Parity, Active
<1>7. Pending'
  BY <1>1 DEF MuxInv, Pending, IsOpen
<1>8. file' \in FileSpace
  BY DEF MuxInv
<1>. QED BY <1>4, <1>5, <1>6, <1>7, <1>8 DEF MuxInv, FileSpace

LEMMA DoWriteStep == ASSUME MuxInv, DoWrite PROVE MuxInv'
<1>1. /\ Doing("write") /\ todo' = Tail(todo) /\ cpc' = "add" /\ cblock' = Arg
      /\ mode' = mode /\ mux' = mux /\ file' = file /\ phase' = phase
      /\ accepted' = accepted /\ queue' = queue
  BY DEF DoWrite, W!Submit, W!fieldVars
<1>2. Arg \in BlockSpace
  BY <1>1, DoingFacts
<1>3. WP!CallerChoice
  BY <1>2 DEF DoWrite, WP!CallerChoice, W!Submit, WP!Submit, W!fieldVars, WP!fieldVars,
              W!threadVars, WP!threadVars, W!writeVars, WP!writeVars
<1>4. WP!Bookkeeping'
  BY <1>3, WriterAssumptionHolds, WP!QuietActions DEF MuxInv
<1>. QED BY <1>1, <1>4, SameFilesStep

LEMMA DoWaitStep == ASSUME MuxInv, DoWait PROVE MuxInv'
<1>1. /\ Doing("wait") /\ todo' = Tail(todo) /\ cpc' = "wait"
      /\ mode' = mode /\ mux' = mux /\ file' = file /\ phase' = phase
      /\ accepted' = accepted /\ queue' = queue
  BY DEF DoWait, W!StartWaiting, W!fieldVars
<1>2. WP!CallerChoice
  BY DEF DoWait, WP!CallerChoice, W!StartWaiting, WP!StartWaiting, W!fieldVars, WP!fieldVars,
         W!threadVars, WP!threadVars, W!writeVars, WP!writeVars
<1>3. WP!Bookkeeping'
  BY <1>2, WriterAssumptionHolds, WP!QuietActions DEF MuxInv
<1>. QED BY <1>1, <1>3, SameFilesStep

\* The destructors begin; the muxing thread has nothing else to do.
LEMMA DoDestroyStep == ASSUME MuxInv, DoDestroy PROVE MuxInv'
<1>1. /\ Doing("destroy") /\ todo' = Tail(todo) /\ cpc = "idle" /\ cpc' = "flag"
      /\ mode' = mode /\ mux' = mux /\ file' = file /\ phase' = phase
      /\ accepted' = accepted /\ queue' = queue
  BY DEF DoDestroy, W!Destroy, W!fieldVars
<1>2. WP!CallerChoice
  BY DEF DoDestroy, WP!CallerChoice, W!Destroy, WP!Destroy, W!fieldVars, WP!fieldVars,
         W!threadVars, WP!threadVars, W!writeVars, WP!writeVars
<1>3. WP!Bookkeeping'
  BY <1>2, WriterAssumptionHolds, WP!QuietActions DEF MuxInv
<1>4. todo' \in Seq(OpSpace)
  <2>1. todo # <<>> /\ todo \in Seq(OpSpace)
    BY <1>1, DoingFacts
  <2>. QED BY <1>1, <2>1, TailOfPlan
<1>5. ~Muxing'
  BY <1>1 DEF Muxing
<1>6. InRounds'
  <2>1. Given' = Given
    BY <1>1 DEF Given
  <2>. QED BY <1>1, <1>5, <2>1 DEF MuxInv, InRounds
<1>7. Numbered(mux)' /\ Asserted(mux)'
  BY <1>1, RecordNext DEF MuxInv
<1>8. Rested'
  BY <1>1, RecordNext DEF MuxInv, Rested
<1>9. NamesRise'
  BY <1>1 DEF MuxInv, NamesRise, Owner, Parity, Active
<1>10. Pending'
  BY <1>1 DEF MuxInv, Pending, IsOpen
<1>11. /\ mode' \in Modes /\ mux' \in MuxSpace /\ file' \in FileSpace
       /\ phase' \in {"mux", "end", "failed", "complete", "over"}
  BY <1>1 DEF MuxInv
<1>. QED BY <1>3, <1>4, <1>5, <1>6, <1>7, <1>8, <1>9, <1>10, <1>11 DEF MuxInv, FileSpace

LEMMA ContentsStep ==
  ASSUME WP!Bookkeeping, contents' \in [Objects -> Seq(BlockSpace)],
         UNCHANGED <<queue, terminated, lastErrorCode, tpc, tcmd, cpc, cblock, accepted, done>>
  PROVE  WP!Bookkeeping'
BY ZenonT(60) DEF WP!Bookkeeping, WP!TypeOK, WP!QueueIsRest, WP!ThreadHolds, WP!CallerPhases,
       WP!BlocksBound, WP!Unpopped, WP!StopsQueued

LEMMA WrittenHere ==
  ASSUME WP!Bookkeeping, NEW b \in BlockSpace, WriteHere(b) \/ UNCHANGED contents
  PROVE  contents' \in [Objects -> Seq(BlockSpace)]
<1>1. contents \in [Objects -> Seq(BlockSpace)] /\ b.file \in Objects
  BY WriterAssumptionHolds DEF WP!Bookkeeping, WP!TypeOK
<1>2. Append(contents[b.file], b) \in Seq(BlockSpace)
  BY <1>1
<1>. QED BY <1>1, <1>2 DEF WriteHere

LEMMA DoDirectStep == ASSUME MuxInv, DoDirect PROVE MuxInv'
<1>1. /\ Doing("direct") /\ todo' = Tail(todo) /\ cpc' = cpc /\ cpc = "idle"
      /\ mode' = mode /\ mux' = mux /\ file' = file /\ phase' = phase
      /\ accepted' = accepted /\ queue' = queue
      /\ UNCHANGED <<queue, terminated, lastErrorCode, tpc, tcmd, cpc, cblock, accepted, done>>
      /\ WriteHere(Arg) \/ UNCHANGED contents
  BY DEF DoDirect, Doing
<1>2. Arg \in BlockSpace
  BY <1>1, DoingFacts
<1>3. WP!Bookkeeping'
  BY <1>1, <1>2, WrittenHere, ContentsStep DEF MuxInv
<1>. QED BY <1>1, <1>3, SameFilesStep

\* An operation fails: the rest of the plan is given up.
LEMMA GivenUp ==
  ASSUME MuxInv, Muxing, cpc = "idle", GiveUp, mode' = mode, mux' = mux, file' \in FileSpace,
         \A o \in Objects : file'[o].state # "none"
                              => o <= mux.objects /\ file'[o].name <= mux.name[file'[o].mux],
         \A o \in Objects : IsOpen(o) => file'[o].state = "open",
         NamesRise', WP!Bookkeeping',
         queue' = queue, cpc' = cpc, cblock' = cblock, accepted' = accepted
  PROVE  MuxInv'
<1>. DEFINE x == Op("destroy", 0)
            p == <<x>>
<1>1. todo' = p /\ phase' # "mux" /\ phase' \in {"mux", "end", "failed", "complete", "over"}
  BY DEF GiveUp, MuxInv
<1>2. x \in OpSpace /\ x.op = "destroy"
  BY DEF Op, OpSpace
<1>. HIDE DEF x
<1>3. p \in Seq(OpSpace) /\ Len(p) = 1 /\ p[1] = x /\ \A n \in 1..Len(p) : p[n].op = "destroy"
  BY <1>2
<1>. HIDE DEF p
<1>4. PlanOk(file, Drained, todo)' /\ OpensNew(file, todo, mux.objects, mux.name)'
  <2>1. PlanOk(file', Drained', todo')
    BY <1>1, <1>3 DEF PlanOk, Writes
  <2>2. OpensNew(file', todo', mux'.objects, mux'.name)
    BY <1>1, <1>3 DEF OpensNew
  <2>. QED BY <2>1, <2>2, OpensNext
<1>5. Numbered(mux)' /\ Asserted(mux)'
  BY RecordNext DEF MuxInv
<1>6. Rested'
  BY <1>1, RecordNext DEF MuxInv, Rested
<1>7. InRounds'
  <2>1. Given' = accepted
    BY DEF Given
  <2>2. Given = accepted
    BY DEF Given
  <2>3. Follow(p, accepted)
    BY <1>3 DEF Follow
  <2>4. \A k, n \in 1..Len(p) : k < n /\ p[k].op = "write" /\ p[n].op = "write"
                                   => Rank(p[k].arg) <= Rank(p[n].arg)
    BY <1>3
  <2>. QED BY <1>1, <2>1, <2>2, <2>3, <2>4 DEF MuxInv, InRounds
<1>8. Pending'
  <2>. SUFFICES ASSUME NEW i \in 1..Len(queue), queue[i] # Stop PROVE file'[queue[i].file].state = "open"
    BY DEF Pending, IsOpen
  <2>1. IsOpen(queue[i].file)
    BY DEF MuxInv, Pending
  <2>2. queue[i].file \in Objects
    <3>1. queue \in Seq(BlockSpace \cup {Stop})
      BY DEF MuxInv, WP!Bookkeeping, WP!TypeOK
    <3>2. queue[i] \in BlockSpace
      BY <3>1
    <3>. QED BY <3>2, WriterAssumptionHolds
  <2>. QED BY <2>1, <2>2
<1>9. mode' \in Modes /\ todo' \in Seq(OpSpace) /\ mux' \in MuxSpace
  BY <1>1, <1>3 DEF MuxInv
<1>. QED BY <1>1, <1>4, <1>5, <1>6, <1>7, <1>8, <1>9 DEF MuxInv, FileSpace

LEMMA DoAppendStep == ASSUME MuxInv, DoAppend PROVE MuxInv'
<1>1. /\ Doing("append") /\ cpc' = cpc /\ mode' = mode /\ mux' = mux /\ file' = file
      /\ UNCHANGED <<queue, terminated, lastErrorCode, tpc, tcmd, cpc, cblock, accepted, done>>
      /\ accepted' = accepted /\ queue' = queue /\ cblock' = cblock
      /\ WriteHere(Arg) \/ UNCHANGED contents
  BY DEF DoAppend
<1>2. /\ Arg \in BlockSpace /\ cpc = "idle" /\ Muxing
      /\ OpensNew(file, todo, mux.objects, mux.name)
  BY <1>1, DoingFacts
<1>3. WP!Bookkeeping'
  BY <1>1, <1>2, WrittenHere, ContentsStep DEF MuxInv
<1>4. CASE todo' = Tail(todo) /\ UNCHANGED phase
  BY <1>1, <1>2, <1>3, <1>4, SameFilesStep
<1>5. CASE GiveUp
  <2>1. NamesRise'
    BY <1>1 DEF MuxInv, NamesRise, Owner, Parity, Active
  <2>2. file' \in FileSpace
    BY <1>1 DEF MuxInv
  <2>. QED BY <1>1, <1>2, <1>3, <1>5, <2>1, <2>2, GivenUp DEF OpensNew, IsOpen
<1>. QED BY <1>4, <1>5 DEF DoAppend

\* An operation on a file that does not throw.
LEMMA FileStep ==
  ASSUME MuxInv, NEW op, Doing(op), op \in {"close", "reopen", "open"}, todo' = Tail(todo),
         mode' = mode, mux' = mux, phase' = phase, UNCHANGED writerVars, file' \in FileSpace,
         DoneOp(file, Drained, Head(todo), file', Drained),
         OpensNew(file', Tail(todo), mux.objects, mux.name), NamesRise', Pending'
  PROVE  MuxInv'
<1>1. /\ todo # <<>> /\ cpc = "idle" /\ Head(todo).op = op
      /\ cpc' = cpc /\ queue' = queue /\ accepted' = accepted
  BY DoingFacts DEF writerVars
<1>2. Drained' = Drained
  BY <1>1 DEF Drained
<1>3. DoneOp(file, Drained, Head(todo), file', Drained')
  BY <1>2
<1>4. /\ mode' \in Modes /\ todo' \in Seq(OpSpace) /\ mux' \in MuxSpace
      /\ phase' \in {"mux", "end", "failed", "complete", "over"}
      /\ PlanOk(file, Drained, todo)' /\ OpensNew(file, todo, mux.objects, mux.name)'
      /\ phase' = "mux" => GoodPlan(file, Drained, todo, mux)'
      /\ Numbered(mux)' /\ Asserted(mux)' /\ Rested'
  BY <1>1, <1>3, TailStep
<1>5. InRounds'
  BY <1>1, RoundsTail
<1>6. WP!Bookkeeping'
  BY BookkeepingKept DEF MuxInv
<1>. QED BY <1>4, <1>5, <1>6 DEF MuxInv, FileSpace

LEMMA SetFileFacts ==
  ASSUME file \in FileSpace, NEW o \in Objects, NEW st \in {"open", "closed"}, SetFile(o, st),
         file[o].state # "none"
  PROVE  /\ file' \in FileSpace /\ SameFiles(file', file) /\ file'[o].state = st
         /\ \A x \in Objects : x # o => file'[x] = file[x]
<1>. DEFINE r == [file[o] EXCEPT !.state = st]
<1>1. file[o] \in [state : {"none", "open", "closed", "deleted"}, mux : Muxers, name : Nat]
  BY DEF FileSpace
<1>2. /\ r \in [state : {"none", "open", "closed", "deleted"}, mux : Muxers, name : Nat]
      /\ r.state = st /\ r.mux = file[o].mux /\ r.name = file[o].name
  BY <1>1
<1>3. file' = [file EXCEPT ![o] = r]
  BY DEF SetFile
<1>. HIDE DEF r
<1>4. file' \in FileSpace /\ file'[o] = r /\ \A x \in Objects : x # o => file'[x] = file[x]
  BY <1>2, <1>3 DEF FileSpace
<1>. QED BY <1>2, <1>4 DEF SameFiles

LEMMA NamesKept ==
  ASSUME MuxInv, mode' = mode, SameFiles(file', file)
  PROVE  NamesRise'
<1>1. \A o, q \in Objects :
        file'[o].state # "none" =>
          /\ Owner(file'[o].mux) /\ Parity(file'[o].mux, file'[o].name)
          /\ file'[q].state # "none" /\ o # q /\ file'[o].mux = file'[q].mux => file'[o].name # file'[q].name
  BY DEF MuxInv, NamesRise, SameFiles
<1>. QED BY <1>1 DEF NamesRise, Owner, Parity, Active

LEMMA QueuedFiles ==
  ASSUME WP!Bookkeeping, NEW i \in 1..Len(queue), queue[i] # Stop
  PROVE  queue[i] \in BlockSpace /\ queue[i].file \in Objects
<1>1. queue \in Seq(BlockSpace \cup {Stop})
  BY DEF WP!Bookkeeping, WP!TypeOK
<1>2. queue[i] \in BlockSpace
  BY <1>1
<1>. QED BY <1>2, WriterAssumptionHolds

LEMMA DoCloseStep == ASSUME MuxInv, DoClose PROVE MuxInv'
<1>1. /\ Doing("close") /\ SetFile(Arg, "closed") /\ todo' = Tail(todo)
      /\ mode' = mode /\ mux' = mux /\ phase' = phase /\ UNCHANGED writerVars
      /\ queue' = queue /\ cpc' = cpc /\ cblock' = cblock
  BY DEF DoClose, writerVars
<1>2. /\ todo # <<>> /\ cpc = "idle" /\ todo \in Seq(OpSpace)
      /\ Head(todo).op = "close" /\ Head(todo).arg = Arg /\ queue = <<>>
      /\ Arg \in Objects /\ file[Arg].state # "none"
      /\ OpensNew(file, todo, mux.objects, mux.name)
  BY <1>1, DoingFacts
<1>3. /\ file' \in FileSpace /\ SameFiles(file', file) /\ file'[Arg].state = "closed"
      /\ \A x \in Objects : x # Arg => file'[x] = file[x]
  BY <1>1, <1>2, SetFileFacts DEF MuxInv
<1>4. DoneOp(file, Drained, Head(todo), file', Drained)
  <2>1. \A o \in Objects : ~Closes(Head(todo), o) => o # Arg
    BY <1>2 DEF Closes
  <2>2. \A o : ~Opens(Head(todo), o)
    BY <1>2 DEF Opens
  <2>. QED BY <1>2, <1>3, <2>1, <2>2 DEF DoneOp, SameFiles
<1>5. OpensNew(file', Tail(todo), mux.objects, mux.name)
  BY <1>2, <1>3, ShiftOpens
<1>6. NamesRise'
  BY <1>1, <1>3, NamesKept
<1>7. Pending'
  <2>1. \A i : i \notin 1..Len(<<>>)
    OBVIOUS
  <2>. QED BY <1>1, <1>2, <2>1 DEF Pending
<1>. QED BY <1>1, <1>3, <1>4, <1>5, <1>6, <1>7, FileStep

LEMMA DoReopenStep == ASSUME MuxInv, DoReopen PROVE MuxInv'
<1>1. /\ Doing("reopen") /\ mode' = mode /\ mux' = mux /\ UNCHANGED writerVars
      /\ queue' = queue /\ cpc' = cpc /\ cblock' = cblock /\ accepted' = accepted
  BY DEF DoReopen, writerVars
<1>2. /\ todo # <<>> /\ cpc = "idle" /\ todo \in Seq(OpSpace) /\ Muxing
      /\ Head(todo).op = "reopen" /\ Head(todo).arg = Arg
      /\ Arg \in Objects /\ file[Arg].state # "none"
      /\ OpensNew(file, todo, mux.objects, mux.name)
  BY <1>1, DoingFacts
<1>3. CASE SetFile(Arg, "open") /\ todo' = Tail(todo) /\ UNCHANGED phase
  <2>1. /\ file' \in FileSpace /\ SameFiles(file', file) /\ file'[Arg].state = "open"
        /\ \A x \in Objects : x # Arg => file'[x] = file[x]
    BY <1>2, <1>3, SetFileFacts DEF MuxInv
  <2>2. DoneOp(file, Drained, Head(todo), file', Drained)
    <3>1. \A o \in Objects : Opens(Head(todo), o) => o = Arg
      BY <1>2 DEF Opens
    <3>. QED BY <1>2, <2>1, <3>1 DEF DoneOp, SameFiles
  <2>3. OpensNew(file', Tail(todo), mux.objects, mux.name)
    BY <1>2, <2>1, ShiftOpens
  <2>4. NamesRise'
    BY <1>1, <2>1, NamesKept
  <2>5. Pending'
    <3>. SUFFICES ASSUME NEW i \in 1..Len(queue), queue[i] # Stop PROVE file'[queue[i].file].state = "open"
      BY <1>1, <1>2 DEF Pending, IsOpen
    <3>1. IsOpen(queue[i].file) /\ queue[i].file \in Objects
      BY QueuedFiles DEF MuxInv, Pending
    <3>. QED BY <2>1, <3>1 DEF IsOpen
  <2>. QED BY <1>1, <1>3, <2>1, <2>2, <2>3, <2>4, <2>5, FileStep
<1>4. CASE GiveUp /\ UNCHANGED file
  <2>1. SameFiles(file', file) /\ file' \in FileSpace
    BY <1>4 DEF SameFiles, MuxInv
  <2>2. NamesRise'
    BY <1>1, <2>1, NamesKept
  <2>3. WP!Bookkeeping'
    BY <1>1, BookkeepingKept DEF MuxInv
  <2>. QED BY <1>1, <1>2, <1>4, <2>1, <2>2, <2>3, GivenUp DEF OpensNew, IsOpen
<1>. QED BY <1>3, <1>4 DEF DoReopen

LEMMA DoOpenStep == ASSUME MuxInv, DoOpen PROVE MuxInv'
<1>1. /\ Doing("open") /\ mode' = mode /\ mux' = mux /\ UNCHANGED writerVars
      /\ queue' = queue /\ cpc' = cpc /\ cblock' = cblock /\ accepted' = accepted
  BY DEF DoOpen, writerVars
<1>2. /\ todo # <<>> /\ cpc = "idle" /\ todo \in Seq(OpSpace) /\ Muxing
      /\ Head(todo).op = "open" /\ Head(todo).arg = Arg
      /\ OpensNew(file, todo, mux.objects, mux.name)
  BY <1>1, DoingFacts
<1>3. PICK st \in {"open", "closed"} :
        /\ file' = [file EXCEPT ![Arg.obj] = [state |-> st, mux |-> Arg.mux, name |-> Arg.name]]
        /\ IF st = "closed" THEN GiveUp ELSE todo' = Tail(todo) /\ UNCHANGED phase
  BY DEF DoOpen
<1>4. /\ OpensNew(file', Tail(todo), mux.objects, mux.name) /\ file' \in FileSpace
      /\ Arg.obj \in Objects /\ file[Arg.obj].state = "none"
      /\ file'[Arg.obj] = [state |-> st, mux |-> Arg.mux, name |-> Arg.name]
      /\ \A o \in Objects : o # Arg.obj => file'[o] = file[o]
      /\ Owner(Arg.mux) /\ Parity(Arg.mux, Arg.name)
      /\ \A o \in Objects : file[o].state # "none" /\ file[o].mux = Arg.mux => file[o].name < Arg.name
  <2>1. file' = WithFile(file, Arg, st)
    BY <1>3 DEF WithFile
  <2>2. OpenedNow(file, WithFile(file, Arg, st), Arg, Tail(todo), mux.objects, mux.name, st)
    BY <1>2, ShiftOpened DEF MuxInv
  <2>. QED BY <2>1, <2>2 DEF OpenedNow
<1>5. file'[Arg.obj].state = st /\ file'[Arg.obj].mux = Arg.mux /\ file'[Arg.obj].name = Arg.name
  BY <1>4
<1>6. \A o \in Objects : file[o].name \in Nat
  BY DEF MuxInv, FileSpace
<1>7. NamesRise'
  <2>1. Arg.name \in Nat
    <3>1. file'[Arg.obj].name \in Nat
      BY <1>4 DEF FileSpace
    <3>. QED BY <1>5, <3>1
  <2>2. \A o \in Objects : file[o].state # "none" /\ file[o].mux = Arg.mux => file[o].name # Arg.name
    BY <1>4, <1>6, <2>1
  <2>3. \A o, q \in Objects :
          file'[o].state # "none" =>
            /\ Owner(file'[o].mux) /\ Parity(file'[o].mux, file'[o].name)
            /\ file'[q].state # "none" /\ o # q /\ file'[o].mux = file'[q].mux => file'[o].name # file'[q].name
    BY <1>4, <1>5, <2>2 DEF MuxInv, NamesRise
  <2>. QED BY <1>1, <2>3 DEF NamesRise, Owner, Parity, Active
<1>8. \A o \in Objects : IsOpen(o) => file'[o].state = "open"
  BY <1>4 DEF IsOpen
<1>9. CASE st = "open"
  <2>1. todo' = Tail(todo) /\ phase' = phase
    BY <1>3, <1>9
  <2>2. DoneOp(file, Drained, Head(todo), file', Drained)
    <3>1. \A o \in Objects : Opens(Head(todo), o) => o = Arg.obj
      BY <1>2 DEF Opens
    <3>2. \A o \in Objects : Opens(Head(todo), o) => file'[o].state = "open"
      BY <1>5, <1>9, <3>1
    <3>. QED BY <1>2, <1>4, <1>5, <1>9, <3>2 DEF DoneOp
  <2>3. Pending'
    <3>. SUFFICES ASSUME NEW i \in 1..Len(queue), queue[i] # Stop PROVE file'[queue[i].file].state = "open"
      BY <1>1, <1>2 DEF Pending, IsOpen
    <3>1. IsOpen(queue[i].file) /\ queue[i].file \in Objects
      BY QueuedFiles DEF MuxInv, Pending
    <3>. QED BY <1>8, <3>1
  <2>. QED BY <1>1, <1>4, <1>7, <2>1, <2>2, <2>3, FileStep
<1>10. CASE st = "closed"
  <2>1. GiveUp
    BY <1>3, <1>10
  <2>2. WP!Bookkeeping'
    BY <1>1, BookkeepingKept DEF MuxInv
  <2>3. \A o \in Objects : file'[o].state # "none"
                              => o <= mux.objects /\ file'[o].name <= mux.name[file'[o].mux]
    BY <1>4 DEF OpensNew
  <2>. QED BY <1>1, <1>2, <1>4, <1>7, <1>8, <2>1, <2>2, <2>3, GivenUp
<1>. QED BY <1>9, <1>10

-----------------------------------------------------------------------------
(* The writer's steps.                                                     *)

LEMMA DrainedMore ==
  ASSUME NEW f, NEW d, NEW e, NEW p, d => e
  PROVE  /\ PlanOk(f, d, p) => PlanOk(f, e, p)
         /\ \A v : GoodPlan(f, d, p, v) => GoodPlan(f, e, p, v)
<1>1. \A n : Waited(d, p, n) => Waited(e, p, n)
  BY DEF Waited
<1>2. PlanOk(f, d, p) => PlanOk(f, e, p)
  BY <1>1 DEF PlanOk
<1>. QED BY <1>2 DEF GoodPlan

\* The writer goes on: the rest stays as it is.
LEMMA WriterGoesOn ==
  ASSUME MuxInv, UNCHANGED own, WP!Bookkeeping', Pending', InRounds',
         Muxing' => Muxing, Muxing' /\ Drained => Drained'
  PROVE  MuxInv'
<1>1. mode' = mode /\ mux' = mux /\ file' = file /\ todo' = todo /\ phase' = phase
  BY DEF own
<1>2. Muxing' => PlanOk(file, Drained, todo)' /\ OpensNew(file, todo, mux.objects, mux.name)'
  <2>. SUFFICES ASSUME Muxing'
                PROVE  PlanOk(file', Drained', todo') /\ OpensNew(file', todo', mux'.objects, mux'.name)
    BY <1>1, OpensNext
  <2>1. PlanOk(file, Drained, todo) /\ OpensNew(file, todo, mux.objects, mux.name)
    BY DEF MuxInv
  <2>2. PlanOk(file, Drained', todo)
    BY <2>1, DrainedMore
  <2>. QED BY <1>1, <2>1, <2>2
<1>3. Muxing' /\ phase' = "mux" => GoodPlan(file, Drained, todo, mux)'
  <2>. SUFFICES ASSUME Muxing', phase' = "mux" PROVE GoodPlan(file', Drained', todo', mux')
    BY <1>1, GoodPlanNext
  <2>1. GoodPlan(file, Drained, todo, mux)
    BY <1>1 DEF MuxInv
  <2>2. GoodPlan(file, Drained', todo, mux)
    BY <2>1, DrainedMore
  <2>. QED BY <1>1, <2>2
<1>4. Numbered(mux)' /\ Asserted(mux)'
  BY <1>1, RecordNext DEF MuxInv
<1>5. Rested'
  BY <1>1, RecordNext DEF MuxInv, Rested
<1>6. NamesRise'
  BY <1>1 DEF MuxInv, NamesRise, Owner, Parity, Active
<1>7. /\ mode' \in Modes /\ mux' \in MuxSpace /\ file' \in FileSpace /\ todo' \in Seq(OpSpace)
      /\ phase' \in {"mux", "end", "failed", "complete", "over"}
  BY <1>1 DEF MuxInv
<1>. QED BY <1>2, <1>3, <1>4, <1>5, <1>6, <1>7 DEF MuxInv, FileSpace

LEMMA SameRounds ==
  ASSUME MuxInv, mode' = mode, mux' = mux, todo' = todo, phase' = phase, Given' = Given,
         Muxing' => Muxing
  PROVE  InRounds'
BY DEF MuxInv, InRounds

\* The thread takes, carries out and drops what is queued.
LEMMA QueueTail ==
  ASSUME MuxInv, file' = file, queue # <<>>, queue' = Tail(queue), cpc' # "add"
  PROVE  Pending'
<1>1. queue \in Seq(BlockSpace \cup {Stop})
  BY DEF MuxInv, WP!Bookkeeping, WP!TypeOK
<1>2. \A i \in 1..Len(Tail(queue)) : Tail(queue)[i] = queue[i + 1] /\ i + 1 \in 1..Len(queue)
  BY <1>1
<1>. QED BY <1>2 DEF MuxInv, Pending, IsOpen

LEMMA QueueMore ==
  ASSUME MuxInv, file' = file, NEW b \in BlockSpace \cup {Stop}, b = Stop \/ IsOpen(b.file),
         queue' = Append(queue, b) \/ queue' = queue, cpc' # "add"
  PROVE  Pending'
<1>1. queue \in Seq(BlockSpace \cup {Stop})
  BY DEF MuxInv, WP!Bookkeeping, WP!TypeOK
<1>2. CASE queue' = queue
  BY <1>2 DEF MuxInv, Pending, IsOpen
<1>3. CASE queue' = Append(queue, b)
  <2>1. \A i \in 1..Len(queue') : queue'[i] = b \/ (i \in 1..Len(queue) /\ queue'[i] = queue[i])
    BY <1>1, <1>3
  <2>. QED BY <2>1 DEF MuxInv, Pending, IsOpen
<1>. QED BY <1>2, <1>3

LEMMA WriterThreadStep == ASSUME MuxInv, WriterThread PROVE MuxInv'
<1>1. UNCHANGED own /\ file' = file /\ mode' = mode /\ mux' = mux /\ todo' = todo /\ phase' = phase
  BY DEF WriterThread, own
<1>2. WP!Bookkeeping
  BY DEF MuxInv
<1>3. /\ cpc' = cpc /\ cblock' = cblock /\ accepted' = accepted
      /\ queue' = queue \/ (queue # <<>> /\ queue' = Tail(queue) /\ tpc = "pop")
  BY DEF WriterThread, W!ThreadTest, W!ThreadPeek, W!ThreadPop, W!ThreadExecute,
         W!fieldVars, W!callerVars
<1>4. WP!Bookkeeping'
  <2>1. CASE W!ThreadTest
    <3>1. WP!ThreadTest
      BY <2>1 DEF W!ThreadTest, WP!ThreadTest, W!fieldVars, WP!fieldVars, W!callerVars,
                  WP!callerVars, W!writeVars, WP!writeVars
    <3>. QED BY <1>2, <3>1, WriterAssumptionHolds, WP!TestStep
  <2>2. CASE W!ThreadPeek
    <3>1. WP!ThreadPeek
      BY <2>2 DEF W!ThreadPeek, WP!ThreadPeek, W!fieldVars, WP!fieldVars, W!callerVars,
                  WP!callerVars, W!writeVars, WP!writeVars
    <3>. QED BY <1>2, <3>1, WriterAssumptionHolds, WP!PeekStep
  <2>3. CASE W!ThreadPop
    <3>1. WP!ThreadPop
      BY <2>3 DEF W!ThreadPop, WP!ThreadPop, W!fieldVars, WP!fieldVars, W!callerVars,
                  WP!callerVars, W!writeVars, WP!writeVars
    <3>. QED BY <1>2, <3>1, WriterAssumptionHolds, WP!PopStep
  <2>4. CASE W!ThreadExecute
    <3>1. WP!ThreadExecute
      BY <2>4 DEF W!ThreadExecute, WP!ThreadExecute, W!Execute, WP!Execute, W!fieldVars,
                  WP!fieldVars, W!callerVars, WP!callerVars, W!writeVars, WP!writeVars
    <3>. QED BY <1>2, <3>1, WriterAssumptionHolds, WP!ExecuteStep
  <2>. QED BY <2>1, <2>2, <2>3, <2>4 DEF WriterThread
<1>5. Muxing' = Muxing /\ Given' = Given
  BY <1>3 DEF Muxing, Given
<1>6. InRounds'
  BY <1>1, <1>5, SameRounds
<1>7. Pending' /\ (Drained => Drained')
  <2>1. CASE queue' = queue
    BY <1>1, <1>3, <2>1 DEF MuxInv, Pending, IsOpen, Drained
  <2>2. CASE queue # <<>> /\ queue' = Tail(queue)
    <3>1. Drained => Drained'
      BY <1>3, <2>2 DEF Drained
    <3>2. Pending'
      <4>1. queue \in Seq(BlockSpace \cup {Stop})
        BY DEF MuxInv, WP!Bookkeeping, WP!TypeOK
      <4>2. \A i \in 1..Len(Tail(queue)) : Tail(queue)[i] = queue[i + 1] /\ i + 1 \in 1..Len(queue)
        BY <2>2, <4>1
      <4>. QED BY <1>1, <1>3, <2>2, <4>2 DEF MuxInv, Pending, IsOpen
    <3>. QED BY <3>1, <3>2
  <2>. QED BY <1>3, <2>1, <2>2
<1>. QED BY <1>1, <1>4, <1>5, <1>6, <1>7, WriterGoesOn

LEMMA AddDataStep ==
  ASSUME MuxInv, W!AddWriterData, UNCHANGED own PROVE MuxInv'
<1>1. /\ mode' = mode /\ mux' = mux /\ file' = file /\ todo' = todo /\ phase' = phase
      /\ cpc = "add" /\ cpc' = "idle" /\ accepted' = Append(accepted, cblock)
      /\ queue' = Append(queue, cblock) \/ queue' = queue
  BY DEF own, W!AddWriterData, W!Push
<1>2. WP!AddWriterData
  BY DEF W!AddWriterData, WP!AddWriterData, W!Push, WP!Push, W!threadVars, WP!threadVars,
         W!writeVars, WP!writeVars
<1>3. WP!Bookkeeping'
  BY <1>2, WriterAssumptionHolds, WP!AddStep DEF MuxInv
<1>4. Muxing' /\ Muxing /\ ~Drained
  BY <1>1 DEF Muxing, Drained
<1>5. Pending'
  <2>1. cblock \in BlockSpace /\ IsOpen(cblock.file)
    BY <1>1, GivenBlocks DEF MuxInv, Pending
  <2>. QED BY <1>1, <2>1, QueueMore
<1>6. InRounds'
  <2>1. Given' = Given
    BY <1>1 DEF Given
  <2>. QED BY <1>1, <1>4, <2>1, SameRounds
<1>. QED BY <1>3, <1>4, <1>5, <1>6, WriterGoesOn

LEMMA WaitEndsStep ==
  ASSUME MuxInv, W!WaitEnds, UNCHANGED own PROVE MuxInv'
<1>1. /\ mode' = mode /\ mux' = mux /\ file' = file /\ todo' = todo /\ phase' = phase
      /\ cpc = "wait" /\ cpc' = "idle" /\ accepted' = accepted /\ queue = <<>> /\ queue' = <<>>
  BY DEF own, W!WaitEnds, W!fieldVars
<1>2. WP!WaitEnds
  BY DEF W!WaitEnds, WP!WaitEnds, W!fieldVars, WP!fieldVars, W!threadVars, WP!threadVars,
         W!writeVars, WP!writeVars
<1>3. WP!Bookkeeping'
  BY <1>2, WriterAssumptionHolds, WP!QuietActions DEF MuxInv
<1>4. Muxing' /\ Muxing /\ Drained'
  BY <1>1 DEF Muxing, Drained
<1>5. Pending'
  <2>1. \A i : i \notin 1..Len(<<>>)
    OBVIOUS
  <2>. QED BY <1>1, <2>1 DEF Pending
<1>6. InRounds'
  <2>1. Given' = Given
    BY <1>1 DEF Given
  <2>. QED BY <1>1, <1>4, <2>1, SameRounds
<1>. QED BY <1>3, <1>4, <1>5, <1>6, WriterGoesOn

\* ~BufferedFileWriter.
LEMMA DestructorStep ==
  ASSUME MuxInv, UNCHANGED own,
         W!SetTerminated \/ W!PushStop \/ W!Join \/ W!DrainEnds \/ W!Drain
  PROVE  MuxInv'
<1>1. /\ mode' = mode /\ mux' = mux /\ file' = file /\ todo' = todo /\ phase' = phase
      /\ cpc \in {"flag", "push", "join", "drain"} /\ cpc' \notin {"idle", "add", "wait"}
      /\ accepted' = accepted
      /\ \/ queue' = queue
         \/ queue' = Append(queue, Stop)
         \/ queue # <<>> /\ queue' = Tail(queue)
  <2>1. CASE W!SetTerminated
    BY <2>1 DEF own, W!SetTerminated
  <2>2. CASE W!PushStop
    BY <2>2 DEF own, W!PushStop, W!Push
  <2>3. CASE W!Join
    BY <2>3 DEF own, W!Join, W!fieldVars
  <2>4. CASE W!DrainEnds
    BY <2>4 DEF own, W!DrainEnds, W!fieldVars
  <2>5. CASE W!Drain
    BY <2>5 DEF own, W!Drain
  <2>. QED BY <2>1, <2>2, <2>3, <2>4, <2>5
<1>2. WP!Bookkeeping'
  <2>1. CASE W!SetTerminated
    <3>1. WP!SetTerminated
      BY <2>1 DEF W!SetTerminated, WP!SetTerminated, W!threadVars, WP!threadVars,
                  W!writeVars, WP!writeVars
    <3>. QED BY <3>1, WriterAssumptionHolds, WP!QuietActions DEF MuxInv
  <2>2. CASE W!PushStop
    <3>1. WP!PushStop
      BY <2>2 DEF W!PushStop, WP!PushStop, W!Push, WP!Push, W!threadVars, WP!threadVars,
                  W!writeVars, WP!writeVars
    <3>. QED BY <3>1, WriterAssumptionHolds, WP!PushStopStep DEF MuxInv
  <2>3. CASE W!Join
    <3>1. WP!Join
      BY <2>3 DEF W!Join, WP!Join, W!fieldVars, WP!fieldVars, W!threadVars, WP!threadVars,
                  W!writeVars, WP!writeVars
    <3>. QED BY <3>1, WriterAssumptionHolds, WP!QuietActions DEF MuxInv
  <2>4. CASE W!DrainEnds
    <3>1. WP!DrainEnds
      BY <2>4 DEF W!DrainEnds, WP!DrainEnds, W!fieldVars, WP!fieldVars, W!threadVars,
                  WP!threadVars, W!writeVars, WP!writeVars
    <3>. QED BY <3>1, WriterAssumptionHolds, WP!QuietActions DEF MuxInv
  <2>5. CASE W!Drain
    <3>1. WP!Drain
      BY <2>5 DEF W!Drain, WP!Drain, W!Execute, WP!Execute, W!threadVars, WP!threadVars,
                  W!writeVars, WP!writeVars
    <3>. QED BY <3>1, WriterAssumptionHolds, WP!DrainStep DEF MuxInv
  <2>. QED BY <2>1, <2>2, <2>3, <2>4, <2>5
<1>3. ~Muxing'
  BY <1>1 DEF Muxing
<1>4. Pending'
  <2>1. CASE queue' = queue \/ queue' = Append(queue, Stop)
    BY <1>1, <2>1, QueueMore
  <2>2. CASE queue # <<>> /\ queue' = Tail(queue)
    BY <1>1, <2>2, QueueTail
  <2>. QED BY <1>1, <2>1, <2>2
<1>5. InRounds'
  <2>1. Given' = Given
    BY <1>1 DEF Given
  <2>. QED BY <1>1, <1>3, <2>1, SameRounds
<1>. QED BY <1>2, <1>3, <1>4, <1>5, WriterGoesOn

LEMMA WriterCallStep == ASSUME MuxInv, WriterCall PROVE MuxInv'
<1>1. UNCHANGED own
  BY DEF WriterCall
<1>2. \/ W!AddWriterData \/ W!WaitEnds
      \/ W!SetTerminated \/ W!PushStop \/ W!Join \/ W!DrainEnds \/ W!Drain
  BY DEF WriterCall
<1>. QED BY <1>1, <1>2, AddDataStep, WaitEndsStep, DestructorStep

LEMMA WriterThrowsStep == ASSUME MuxInv, WriterThrows PROVE MuxInv'
<1>1. /\ mode' = mode /\ mux' = mux /\ file' = file /\ todo' = <<>> /\ phase' = "failed"
      /\ cpc = "add" /\ cpc' = "flag" /\ accepted' = accepted /\ queue' = queue
  BY DEF WriterThrows, W!AddThrows, W!fieldVars
<1>2. WP!AddThrows
  BY DEF WriterThrows, W!AddThrows, WP!AddThrows, W!fieldVars, WP!fieldVars, W!threadVars,
         WP!threadVars, W!writeVars, WP!writeVars
<1>3. WP!Bookkeeping'
  BY <1>2, WriterAssumptionHolds, WP!QuietActions DEF MuxInv
<1>4. ~Muxing'
  BY <1>1 DEF Muxing
<1>5. InRounds'
  <2>. SUFFICES ASSUME mode.interleave PROVE InOrder(accepted)
    BY <1>1, <1>4 DEF InRounds, Given
  <2>1. accepted \in Seq(BlockSpace) /\ cblock \in BlockSpace
    BY <1>1, GivenBlocks DEF MuxInv, WP!Bookkeeping, WP!TypeOK
  <2>2. InOrder(Append(accepted, cblock))
    BY <1>1 DEF MuxInv, InRounds, Given
  <2>3. /\ Len(Append(accepted, cblock)) = Len(accepted) + 1
        /\ \A i \in 1..Len(accepted) : Append(accepted, cblock)[i] = accepted[i]
    BY <2>1
  <2>4. \A i \in 1..Len(accepted) : i \in 1..Len(accepted) + 1
    BY <2>1
  <2>. QED BY <2>2, <2>3, <2>4 DEF InOrder
<1>6. Pending'
  BY <1>1 DEF MuxInv, Pending, IsOpen
<1>7. Numbered(mux)' /\ Asserted(mux)'
  BY <1>1, RecordNext DEF MuxInv
<1>8. Rested'
  BY <1>1, RecordNext DEF MuxInv, Rested
<1>9. NamesRise'
  BY <1>1 DEF MuxInv, NamesRise, Owner, Parity, Active
<1>10. /\ mode' \in Modes /\ mux' \in MuxSpace /\ file' \in FileSpace /\ todo' \in Seq(OpSpace)
       /\ phase' \in {"mux", "end", "failed", "complete", "over"}
  BY <1>1, EmptyPlan DEF MuxInv
<1>. QED BY <1>3, <1>4, <1>5, <1>6, <1>7, <1>8, <1>9, <1>10 DEF MuxInv, FileSpace

\* ~MuxerManager deletes the files of the muxers, once the writer is gone.
LEMMA DeleteMuxersStep == ASSUME MuxInv, DeleteMuxers PROVE MuxInv'
<1>1. /\ mode' = mode /\ mux' = mux /\ todo' = todo /\ phase' \in {"complete", "over"}
      /\ UNCHANGED writerVars /\ cpc = "gone" /\ cpc' = cpc /\ accepted' = accepted
      /\ queue' = queue /\ DeleteFiles
  BY DEF DeleteMuxers, writerVars
<1>2. queue = <<>>
  BY <1>1 DEF MuxInv, WP!Bookkeeping, WP!CallerPhases
<1>3. file' \in FileSpace /\ SameFiles(file', file)
  <2>. DEFINE gone == FileOf("main") \cup (IF mode.joined THEN {} ELSE FileOf("sub"))
              g(o) == IF o \in gone THEN [file[o] EXCEPT !.state = "deleted"] ELSE file[o]
  <2>1. file' = [o \in Objects |-> g(o)]
    BY <1>1 DEF DeleteFiles
  <2>2. \A o \in gone : file[o].state # "none"
    BY DEF FileOf
  <2>. HIDE DEF gone
  <2>3. ASSUME NEW o \in Objects
        PROVE  /\ g(o) \in [state : {"none", "open", "closed", "deleted"}, mux : Muxers, name : Nat]
               /\ g(o).mux = file[o].mux /\ g(o).name = file[o].name
               /\ g(o).state = "none" <=> file[o].state = "none"
    <3>. DEFINE r == file[o]
    <3>1. r \in [state : {"none", "open", "closed", "deleted"}, mux : Muxers, name : Nat]
      BY DEF MuxInv, FileSpace
    <3>2. o \in gone => r.state # "none"
      BY <2>2
    <3>3. g(o) = IF o \in gone THEN [r EXCEPT !.state = "deleted"] ELSE r
      OBVIOUS
    <3>. HIDE DEF r, g
    <3>4. /\ g(o) \in [state : {"none", "open", "closed", "deleted"}, mux : Muxers, name : Nat]
          /\ g(o).mux = r.mux /\ g(o).name = r.name /\ (g(o).state = "none" <=> r.state = "none")
      BY <3>1, <3>2, <3>3
    <3>. QED BY <3>4 DEF r
  <2>. HIDE DEF g
  <2>4. file' \in FileSpace /\ \A o \in Objects : file'[o] = g(o)
    BY <2>1, <2>3 DEF FileSpace
  <2>. QED BY <2>3, <2>4 DEF SameFiles
<1>4. WP!Bookkeeping'
  BY <1>1, BookkeepingKept DEF MuxInv
<1>5. ~Muxing' /\ ~Muxing
  BY <1>1 DEF Muxing
<1>6. InRounds'
  <2>1. Given' = Given
    BY <1>1 DEF Given
  <2>. QED BY <1>1, <1>5, <2>1 DEF MuxInv, InRounds
<1>7. Pending'
  <2>1. \A i : i \notin 1..Len(<<>>)
    OBVIOUS
  <2>. QED BY <1>1, <1>2, <2>1 DEF Pending
<1>8. Numbered(mux)' /\ Asserted(mux)'
  BY <1>1, RecordNext DEF MuxInv
<1>9. Rested'
  BY <1>1, RecordNext DEF MuxInv, Rested
<1>10. NamesRise'
  BY <1>1, <1>3, NamesKept
<1>11. /\ mode' \in Modes /\ mux' \in MuxSpace /\ file' \in FileSpace /\ todo' \in Seq(OpSpace)
       /\ phase' \in {"mux", "end", "failed", "complete", "over"}
  BY <1>1, <1>3 DEF MuxInv
<1>. QED BY <1>4, <1>5, <1>6, <1>7, <1>8, <1>9, <1>10, <1>11 DEF MuxInv, FileSpace

-----------------------------------------------------------------------------
(* The beginning.                                                          *)

LEMMA StartFields ==
  ASSUME mode \in Modes, mux = Start(mode)
  PROVE  /\ mux \in MuxSpace /\ mux.plan = <<>> /\ mux.delayed = <<>> /\ mux.asserts = {}
         /\ mux.muxFile["main"] = 1 /\ mux.muxFile["sub"] = (IF mode.joined THEN 1 ELSE 2)
         /\ mux.objects = (IF mode.stereo /\ ~mode.joined THEN 2 ELSE 1)
         /\ mux.orig["main"] = 0 /\ mux.orig["sub"] = 1
         /\ mux.num["main"] = (IF mode.bluray \/ mode.split THEN 1 ELSE 0)
         /\ mux.num["sub"] = (IF mode.bluray \/ mode.split THEN 1 ELSE 0)
         /\ mux.name["main"] = (IF mode.bluray THEN 0 ELSE mux.num["main"])
         /\ mux.name["sub"] = (IF mode.bluray THEN 1 ELSE mux.num["sub"])
         /\ \A m \in Muxers : /\ ~mux.finished[m] /\ ~mux.started[m] /\ ~mux.rest[m]
                              /\ mux.held[m] = <<>>
<1>. DEFINE num == IF mode.bluray \/ mode.split THEN 1 ELSE 0
            side == IF mode.bluray THEN 1 ELSE num
            first == IF mode.bluray THEN 0 ELSE num
            files == [main |-> 1, sub |-> IF mode.joined THEN 1 ELSE 2]
            origs == [main |-> 0, sub |-> 1]
            nums == [main |-> num, sub |-> num]
            names == [main |-> first, sub |-> side]
            objs == IF mode.stereo /\ ~mode.joined THEN 2 ELSE 1
            none == [x \in Muxers |-> FALSE]
            noneSize == [x \in Muxers |-> 0]
            empty == [x \in Muxers |-> <<>>]
            all == [x \in Muxers |-> TRUE]
<1>1. num \in Nat /\ side \in Nat /\ first \in Nat
  OBVIOUS
<1>2. mux = [ muxFile |-> files, objects |-> objs, orig |-> origs, num |-> nums, name |-> names,
              started |-> none, size |-> noneSize, held |-> empty, rest |-> none, buffer |-> all,
              delayed |-> <<>>, finished |-> none, round |-> 0, packets |-> 0, made |-> <<>>,
              asserts |-> {}, plan |-> <<>> ]
  BY DEF Start
<1>3. 1 \in Objects /\ 2 \in Objects /\ objs \in Objects /\ 0 \in 0..MaxPackets
  BY ModesAssumption DEF Objects
<1>4. /\ files \in [Muxers -> Objects] /\ files["main"] = 1
      /\ files["sub"] = IF mode.joined THEN 1 ELSE 2
  BY <1>3 DEF Muxers
<1>5. origs \in [Muxers -> Nat] /\ origs["main"] = 0 /\ origs["sub"] = 1
  BY DEF Muxers
<1>6. nums \in [Muxers -> Nat] /\ nums["main"] = num /\ nums["sub"] = num
  BY <1>1 DEF Muxers
<1>7. names \in [Muxers -> Nat] /\ names["main"] = first /\ names["sub"] = side
  BY <1>1 DEF Muxers
<1>8. /\ none \in [Muxers -> BOOLEAN] /\ all \in [Muxers -> BOOLEAN]
      /\ noneSize \in [Muxers -> Nat] /\ \A m \in Muxers : ~none[m]
  OBVIOUS
<1>9. empty \in [Muxers -> Seq(BlockSpace)] /\ <<>> \in Seq(BlockSpace) /\ <<>> \in Seq(OpSpace)
      /\ \A m \in Muxers : empty[m] = <<>>
  OBVIOUS
<1>. HIDE DEF files, origs, nums, names, objs, none, noneSize, empty, all
<1>10. mux \in MuxSpace
  BY <1>2, <1>3, <1>4, <1>5, <1>6, <1>7, <1>8, <1>9 DEF MuxSpace
<1>11. /\ mux.plan = <<>> /\ mux.delayed = <<>> /\ mux.asserts = {} /\ mux.muxFile = files
       /\ mux.objects = objs /\ mux.orig = origs /\ mux.num = nums /\ mux.name = names
       /\ mux.finished = none /\ mux.started = none /\ mux.rest = none /\ mux.held = empty
  BY <1>2
<1>. QED BY <1>4, <1>5, <1>6, <1>7, <1>8, <1>9, <1>10, <1>11 DEF objs

\* The files that are open at first.
LEMMA FirstFiles ==
  ASSUME Init
  PROVE  /\ file \in FileSpace
         /\ \A o \in Objects : file[o].state # "none" =>
              \/ o = 1 /\ file[o].mux = "main" /\ file[o].name = mux.name["main"]
              \/ /\ o = 2 /\ mode.stereo /\ ~mode.joined
                 /\ file[o].mux = "sub" /\ file[o].name = mux.name["sub"]
         /\ file[1].state = "open" /\ (mode.stereo /\ ~mode.joined => file[2].state = "open")
         /\ 1 \in Objects /\ 2 \in Objects
<1>1. mux.objects = (IF mode.stereo /\ ~mode.joined THEN 2 ELSE 1) /\ mux \in MuxSpace
  BY StartFields DEF Init
<1>2. 1 \in Objects /\ 2 \in Objects /\ \A o \in Objects : o \in Nat /\ o >= 1
  BY ModesAssumption DEF Objects
<1>3. mux.name["main"] \in Nat /\ mux.name["sub"] \in Nat
  <2>1. mux.name \in [Muxers -> Nat]
    BY <1>1 DEF MuxSpace
  <2>. QED BY <2>1 DEF Muxers
<1>. DEFINE g(o) == IF o > mux.objects
                    THEN [state |-> "none", mux |-> "main", name |-> 0]
                    ELSE LET m == IF o = 1 THEN "main" ELSE "sub" IN
                         [state |-> "open", mux |-> m, name |-> mux.name[m]]
<1>4. file = [o \in Objects |-> g(o)]
  BY DEF Init
<1>5. ASSUME NEW o \in Objects
      PROVE  /\ g(o) \in [state : {"none", "open", "closed", "deleted"}, mux : Muxers, name : Nat]
             /\ o = 1 => g(o).state = "open" /\ g(o).mux = "main" /\ g(o).name = mux.name["main"]
             /\ o # 1 /\ g(o).state # "none" =>
                  o = 2 /\ mode.stereo /\ ~mode.joined /\ g(o).mux = "sub" /\ g(o).name = mux.name["sub"]
             /\ o = 2 /\ mode.stereo /\ ~mode.joined => g(o).state = "open"
  <2>1. CASE o = 1
    BY <1>1, <1>3, <2>1 DEF Muxers
  <2>2. CASE o # 1 /\ o > mux.objects
    BY <1>1, <2>2 DEF Muxers
  <2>3. CASE o # 1 /\ ~(o > mux.objects)
    <3>1. o = 2 /\ mode.stereo /\ ~mode.joined
      BY <1>1, <1>2, <2>3
    <3>2. g(o) = [state |-> "open", mux |-> "sub", name |-> mux.name["sub"]]
      BY <2>3
    <3>. QED BY <1>3, <2>3, <3>1, <3>2 DEF Muxers
  <2>. QED BY <2>1, <2>2, <2>3
<1>. HIDE DEF g
<1>6. file \in FileSpace /\ \A o \in Objects : file[o] = g(o)
  BY <1>4, <1>5 DEF FileSpace
<1>. QED BY <1>2, <1>5, <1>6

LEMMA InitHolds == Init => MuxInv
<1>. SUFFICES ASSUME Init PROVE MuxInv
  OBVIOUS
<1>1. mode \in Modes /\ mux = Start(mode) /\ todo = <<>> /\ phase = "mux" /\ W!Init
  BY DEF Init
<1>2. cpc = "idle" /\ queue = <<>> /\ accepted = <<>> /\ Muxing /\ Drained /\ Given = <<>>
  BY <1>1 DEF W!Init, Muxing, Drained, Given
<1>3. \A i : i \notin 1..Len(<<>>)
  OBVIOUS
<1>4. Numbered(mux)
  <2>1. \A m \in Muxers : m = "main" \/ m = "sub"
    BY DEF Muxers
  <2>2. mode.stereo /\ ~mode.joined => mode.bluray
    BY <1>1, ModeFacts
  <2>3. Parity("main", mux.name["main"]) /\ Parity("sub", mux.name["sub"])
    BY <1>1, <2>2, StartFields DEF Parity
  <2>. QED BY <1>1, <2>1, <2>3, StartFields DEF Numbered
<1>5. Asserted(mux)
  BY <1>1, StartFields DEF Asserted
<1>6. Kept(mux) /\ Apart(mux) /\ Fresh(mux)
  <2>1. Kept(mux)
    BY <1>1, <1>3, StartFields DEF Kept, KeptFor
  <2>2. Apart(mux)
    BY <1>1, StartFields DEF Apart
  <2>. QED BY <1>1, <2>1, <2>2, StartFields DEF Fresh
<1>7. Rested
  <2>1. Second \in Muxers
    BY <1>1, ModeFacts
  <2>. QED BY <1>1, <1>6, <2>1, StartFields DEF Rested
<1>8. mux.name["main"] \in Nat /\ mux.name["sub"] \in Nat
  <2>1. mux.name \in [Muxers -> Nat]
    BY <1>1, StartFields DEF MuxSpace
  <2>. QED BY <2>1 DEF Muxers
<1>9. OpensNew(file, <<>>, mux.objects, mux.name)
  <2>1. ASSUME NEW o \in Objects, file[o].state # "none"
        PROVE  o <= mux.objects /\ file[o].name <= mux.name[file[o].mux]
    <3>1. CASE o = 1 /\ file[o].mux = "main" /\ file[o].name = mux.name["main"]
      BY <1>1, <1>8, <3>1, StartFields
    <3>2. CASE /\ o = 2 /\ mode.stereo /\ ~mode.joined
               /\ file[o].mux = "sub" /\ file[o].name = mux.name["sub"]
      BY <1>1, <1>8, <3>2, StartFields
    <3>. QED BY <2>1, <3>1, <3>2, FirstFiles
  <2>. QED BY <1>3, <2>1 DEF OpensNew
<1>10. GoodPlan(file, Drained, <<>>, mux)
  <2>1. PlanOk(file, Drained, <<>>)
    BY <1>3 DEF PlanOk
  <2>2. ASSUME NEW o, file[o].state = "open" PROVE HasFile(file, <<>>, o)
    <3>1. 0 \in 0..Len(<<>>) /\ \A j : j \notin (0 + 1)..Len(<<>>)
      OBVIOUS
    <3>. QED BY <2>2, <3>1 DEF HasFile, OpenAfter, KnownAfter
  <2>3. ASSUME NEW m \in Active PROVE file[mux.muxFile[m]].state = "open"
    <3>1. m = "main" \/ (m = "sub" /\ mode.stereo)
      BY DEF Active, Muxers
    <3>. QED BY <1>1, <3>1, StartFields, FirstFiles
  <2>. QED BY <1>2, <1>3, <1>9, <2>1, <2>2, <2>3 DEF GoodPlan
<1>11. NamesRise
  <2>1. Parity("main", mux.name["main"]) /\ Parity("sub", mux.name["sub"])
    BY <1>4 DEF Numbered, Muxers
  <2>2. Owner("main") /\ (mode.stereo /\ ~mode.joined => Owner("sub"))
    BY DEF Owner, Active, Muxers
  <2>. QED BY <2>1, <2>2, FirstFiles DEF NamesRise
<1>12. WP!Bookkeeping
  <2>1. /\ queue = <<>> /\ accepted = <<>> /\ done = 0 /\ tpc = "test" /\ cpc = "idle"
        /\ tcmd = Stop /\ lastErrorCode = 0 /\ terminated = FALSE
        /\ contents = [o \in Objects |-> <<>>]
    BY <1>1 DEF W!Init
  <2>2. WP!TypeOK
    <3>1. contents \in [Objects -> Seq(BlockSpace)]
      BY <2>1
    <3>2. queue \in Seq(BlockSpace \cup {Stop}) /\ accepted \in Seq(BlockSpace)
      BY <2>1
    <3>3. cblock = Stop
      BY <1>1 DEF W!Init
    <3>4. /\ terminated \in BOOLEAN /\ lastErrorCode \in {0, -1} /\ done \in Nat
          /\ tpc = "test" /\ cpc = "idle" /\ tcmd \in BlockSpace \cup {Stop}
      BY <2>1
    <3>. QED BY <3>1, <3>2, <3>3, <3>4 DEF WP!TypeOK
  <2>3. WP!Unpopped = 0 /\ WP!StopsQueued = 0
    BY <2>1 DEF WP!Unpopped, WP!StopsQueued
  <2>4. WP!QueueIsRest
    BY <2>1, <2>3 DEF WP!QueueIsRest
  <2>5. WP!BlocksBound
    BY <2>1, <2>3, LimitsAssumption DEF WP!BlocksBound
  <2>. QED BY <2>1, <2>2, <2>3, <2>4, <2>5
           DEF WP!Bookkeeping, WP!ThreadHolds, WP!CallerPhases
<1>13. Pending /\ InRounds
  <2>1. Pending
    BY <1>2, <1>3 DEF Pending
  <2>2. InRounds
    BY <1>1, <1>2, <1>3 DEF InRounds, InOrder, Follow, UpTo
  <2>. QED BY <2>1, <2>2
<1>14. mux \in MuxSpace /\ todo \in Seq(OpSpace) /\ file \in FileSpace
  BY <1>1, StartFields, FirstFiles, EmptyPlan
<1>15. PlanOk(file, Drained, todo) /\ OpensNew(file, todo, mux.objects, mux.name)
       /\ GoodPlan(file, Drained, todo, mux)
  BY <1>1, <1>9, <1>10 DEF GoodPlan
<1>. QED BY <1>1, <1>4, <1>5, <1>7, <1>11, <1>12, <1>13, <1>14, <1>15 DEF MuxInv

-----------------------------------------------------------------------------
(* Every step keeps the invariant.                                         *)

LEMMA NothingChanges == ASSUME MuxInv, UNCHANGED vars PROVE MuxInv'
<1>1. UNCHANGED own /\ UNCHANGED writerVars
  BY DEF vars, own
<1>2. /\ mode' = mode /\ mux' = mux /\ file' = file /\ todo' = todo /\ phase' = phase
      /\ cpc' = cpc /\ queue' = queue /\ accepted' = accepted /\ cblock' = cblock
  BY <1>1 DEF own, writerVars
<1>3. WP!Bookkeeping'
  BY <1>1, BookkeepingKept DEF MuxInv
<1>4. Muxing' = Muxing /\ Drained' = Drained /\ Given' = Given
  BY <1>2 DEF Muxing, Drained, Given
<1>5. Pending'
  BY <1>2 DEF MuxInv, Pending, IsOpen
<1>6. InRounds'
  BY <1>2, <1>4, SameRounds
<1>. QED BY <1>1, <1>3, <1>4, <1>5, <1>6, WriterGoesOn

LEMMA PlanStep == ASSUME MuxInv, Plan PROVE MuxInv'
BY DoWriteStep, DoWaitStep, DoDestroyStep, DoDirectStep, DoAppendStep, DoCloseStep,
   DoReopenStep, DoOpenStep DEF Plan

LEMMA PacketStep == ASSUME MuxInv, CleanSplits, Packet PROVE MuxInv'
<1>1. PICK m \in Active : MuxSplit(m) \/ MuxEndsBlock(m) \/ MuxPacket(m)
  BY DEF Packet
<1>2. CASE MuxSplit(m)
  BY <1>2, MuxSplitStep
<1>3. CASE MuxEndsBlock(m)
  BY <1>3, MuxEndsBlockStep
<1>4. CASE MuxPacket(m)
  BY <1>4, MuxPacketStep
<1>. QED BY <1>1, <1>2, <1>3, <1>4

LEMMA NextStep == ASSUME MuxInv, CleanSplits, [Next]_vars PROVE MuxInv'
<1>1. CASE Packet
  BY <1>1, PacketStep
<1>2. CASE EndOfInput \/ InputThrows
  BY <1>2, EndOfInputStep, InputThrowsStep
<1>3. CASE GoesOn
  BY <1>3, PlanStep, WriterCallStep, WriterThrowsStep, DeleteMuxersStep DEF GoesOn
<1>4. CASE WriterThread
  BY <1>4, WriterThreadStep
<1>5. CASE Stopped \/ UNCHANGED vars
  BY <1>5, NothingChanges DEF Stopped
<1>. QED BY <1>1, <1>2, <1>3, <1>4, <1>5 DEF Next

LEMMA MuxInvHolds == ASSUME CleanSplits PROVE Spec => []MuxInv
<1>1. Init => MuxInv
  BY InitHolds
<1>2. MuxInv /\ [Next]_vars => MuxInv'
  BY NextStep
<1>. QED BY <1>1, <1>2, PTL DEF Spec

-----------------------------------------------------------------------------
(* What follows from it.                                                   *)

\* The record of the muxing thread, the files, the plan and the writer keep
\* their types: no muxer gets a file object beyond those there can be, and a
\* packet's plan is carried out before the next packet (muxer and manager
\* classes of muxerManager.cpp and tsMuxer.cpp).
THEOREM TypesHold == ASSUME CleanSplits PROVE Spec => []TypeOK
<1>1. MuxInv => TypeOK
  <2>. SUFFICES ASSUME MuxInv PROVE TypeOK
    OBVIOUS
  <2>1. mux \in MuxSpace /\ mux.plan \in {<<>>}
    BY DEF MuxInv, Rested
  <2>2. mux \in [ muxFile : [Muxers -> Objects], objects : Objects,
                  orig : [Muxers -> Nat], num : [Muxers -> Nat],
                  name : [Muxers -> Nat], started : [Muxers -> BOOLEAN],
                  size : [Muxers -> Nat], held : [Muxers -> Seq(BlockSpace)],
                  rest : [Muxers -> BOOLEAN], buffer : [Muxers -> BOOLEAN],
                  delayed : Seq(BlockSpace), finished : [Muxers -> BOOLEAN],
                  round : Nat, packets : 0..MaxPackets, made : Seq(BlockSpace),
                  asserts : SUBSET {"sync interleave", "buffer handed over", "next file"},
                  plan : {<<>>} ]
    BY <2>1 DEF MuxSpace
  <2>3. ASSUME NEW i \in DOMAIN todo
        PROVE  todo[i].op \in {"write", "direct", "append", "wait", "close",
                               "reopen", "open", "destroy"}
    <3>1. todo[i] \in OpSpace
      BY DEF MuxInv
    <3>. QED BY <3>1 DEF OpSpace
  <2>4. W!TypeOK
    BY DEF MuxInv, WP!Bookkeeping, WP!TypeOK, W!TypeOK
  <2>. QED BY <2>2, <2>3, <2>4 DEF TypeOK, MuxInv, FileSpace
<1>. QED BY <1>1, MuxInvHolds, PTL

\* The block that the writer thread is carrying out, those its destructor
\* still carries out, and those that the muxing thread writes itself go to open
\* files: gotoNextFile, flushTSBuffer and close wait for the writer before they
\* close a file, and the destructors delete files after the writer is gone.
THEOREM OpenWhenWritten == ASSUME CleanSplits PROVE Spec => []WritesGoToOpenFiles
<1>1. MuxInv => WritesGoToOpenFiles
  <2>. SUFFICES ASSUME MuxInv PROVE WritesGoToOpenFiles
    OBVIOUS
  <2>1. ASSUME queue # <<>>, Head(queue) # Stop
        PROVE  IsOpen(Head(queue).file)
    <3>1. queue \in Seq(BlockSpace \cup {Stop})
      BY DEF MuxInv, WP!Bookkeeping, WP!TypeOK
    <3>2. Head(queue) = queue[1] /\ 1 \in 1..Len(queue)
      BY <2>1, <3>1
    <3>. QED BY <2>1, <3>2 DEF MuxInv, Pending
  <2>2. tpc = "execute" => queue # <<>> /\ tcmd = Head(queue)
    BY DEF MuxInv, WP!Bookkeeping, WP!ThreadHolds
  <2>3. Doing("direct") \/ Doing("append") => IsOpen(Arg.file)
    <3>1. Doing("direct") => IsOpen(Arg.file)
      BY DoingFacts
    <3>2. Doing("append") => IsOpen(Arg.file)
      BY DoingFacts
    <3>. QED BY <3>1, <3>2
  <2>. QED BY <2>1, <2>2, <2>3 DEF WritesGoToOpenFiles
<1>. QED BY <1>1, MuxInvHolds, PTL

\* What interleaved muxers hand to the writer is ordered in rounds, the side
\* muxer's blocks first: muxBlockFinished lets the main muxer's blocks follow
\* when both have finished theirs, and files change only between rounds.
THEOREM SideFirst == ASSUME CleanSplits PROVE Spec => []SideBlocksFirst
<1>1. MuxInv => SideBlocksFirst
  <2>. SUFFICES ASSUME MuxInv PROVE mode.interleave => InOrder(accepted)
    <3>1. MuxInv => DOMAIN accepted = 1..Len(accepted)
      <4>1. MuxInv => accepted \in Seq(BlockSpace)
        BY DEF MuxInv, WP!Bookkeeping, WP!TypeOK
      <4>. QED BY <4>1
    <3>. QED BY <3>1 DEF SideBlocksFirst, InOrder
  <2>. SUFFICES ASSUME mode.interleave PROVE InOrder(accepted)
    OBVIOUS
  <2>1. CASE cpc # "add"
    BY <2>1 DEF MuxInv, InRounds, Given
  <2>2. CASE cpc = "add"
    <3>1. accepted \in Seq(BlockSpace) /\ cblock \in BlockSpace
      BY <2>2, GivenBlocks DEF MuxInv, WP!Bookkeeping, WP!TypeOK
    <3>2. InOrder(Append(accepted, cblock))
      BY <2>2 DEF MuxInv, InRounds, Given
    <3>3. /\ Len(Append(accepted, cblock)) = Len(accepted) + 1
          /\ \A i \in 1..Len(accepted) : Append(accepted, cblock)[i] = accepted[i]
      BY <3>1
    <3>4. \A i \in 1..Len(accepted) : i \in 1..Len(accepted) + 1
      BY <3>1
    <3>. QED BY <3>2, <3>3, <3>4 DEF InOrder
  <2>. QED BY <2>1, <2>2
<1>. QED BY <1>1, MuxInvHolds, PTL

\* The assertions of syncWriteBuffer, finishFileBlock and gotoNextFile hold
\* when writing is asynchronous or the packets have 188 bytes.
THEOREM NothingAsserted == ASSUME CleanSplits PROVE Spec => []AssertionsHold
<1>1. MuxInv => AssertionsHold
  BY DEF MuxInv, Asserted, AssertionsHold
<1>. QED BY <1>1, MuxInvHolds, PTL

\* getNextName never gives the name of an earlier file: with two muxers one
\* counts the even and the other the odd numbers, and each counts upwards.
THEOREM NamesDiffer == ASSUME CleanSplits PROVE Spec => []DistinctNames
<1>1. MuxInv => DistinctNames
  <2>. SUFFICES ASSUME MuxInv, NEW o \in Objects, NEW p \in Objects, o # p,
                       file[o].state # "none", file[p].state # "none"
                PROVE  file[o].name # file[p].name
    BY DEF DistinctNames
  <2>1. /\ Owner(file[o].mux) /\ Parity(file[o].mux, file[o].name)
        /\ Owner(file[p].mux) /\ Parity(file[p].mux, file[p].name)
        /\ file[o].mux = file[p].mux => file[o].name # file[p].name
    BY DEF MuxInv, NamesRise
  <2>2. CASE file[o].mux = file[p].mux
    BY <2>1, <2>2
  <2>3. CASE file[o].mux # file[p].mux
    <3>1. \/ file[o].mux = "main" /\ file[p].mux = "sub"
          \/ file[o].mux = "sub" /\ file[p].mux = "main"
      BY <2>1, <2>3 DEF Owner, Active, Muxers
    <3>2. mode.stereo /\ ~mode.joined
      BY <2>1, <3>1 DEF Owner, Active
    <3>3. file[o].name % 2 # file[p].name % 2
      BY <2>1, <3>1, <3>2 DEF Parity
    <3>. QED BY <3>3
  <2>. QED BY <2>2, <2>3
<1>. QED BY <1>1, MuxInvHolds, PTL
=============================================================================
