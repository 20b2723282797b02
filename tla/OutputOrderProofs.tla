-------------------------- MODULE OutputOrderProofs --------------------------
(***************************************************************************)
(* Every block a muxer produces gets into its file, once and in order, for *)
(* every set of modes and every limit.  On its way a block is at one of    *)
(* these places, and what is further along was produced earlier:           *)
(*   held      kept by its muxer until the next PCR                        *)
(*   delayed   of the main muxer, held back until the end of the block     *)
(*   planned   to be written by the operations of a plan                   *)
(*   rest      handed over to the writer, and not written yet              *)
(*   stored    in the file.                                                *)
(***************************************************************************)
EXTENDS MuxerManagerProofs

\* Of two blocks of one muxer b was produced first.
Before(b, c) == b.mux = c.mux => b.n < c.n
AllBefore(S, T) == \A b \in S, c \in T : Before(b, c)
Rising(q) == \A i, j \in 1..Len(q) : i < j => Before(q[i], q[j])
Elems(q) == {q[i] : i \in 1..Len(q)}

\* The blocks that plan p writes.
Planned(p) == {p[n].arg : n \in {k \in 1..Len(p) : Writes(p[k])}}
PlanRising(p) == \A k, n \in 1..Len(p) :
                   k < n /\ Writes(p[k]) /\ Writes(p[n]) => Before(p[k].arg, p[n].arg)

\* The blocks M are at their places: G, planned by p, D, B, H.
Chain(M, G, p, D, B, H) ==
    /\ M = G \cup Planned(p) \cup D \cup B \cup H
    /\ AllBefore(G, Planned(p)) /\ AllBefore(G, D) /\ AllBefore(G, B) /\ AllBefore(G, H)
    /\ AllBefore(Planned(p), D) /\ AllBefore(Planned(p), B) /\ AllBefore(Planned(p), H)
    /\ AllBefore(D, B) /\ AllBefore(D, H) /\ AllBefore(B, H)
    /\ PlanRising(p)

\* A plan does not overtake the writer thread, and does not end the mux.
Direct(d, p) == \A n \in 1..Len(p) :
                  /\ p[n].op \in {"direct", "append"} => Waited(d, p, n - 1)
                  /\ p[n].op # "destroy"

\* The blocks kept by the muxers of record s.
Held(s) == UNION {Elems(s.held[m]) : m \in Muxers}
HeldRising(s) == \A m \in Muxers :
                   Rising(s.held[m]) /\ (~mode.m2ts \/ m \notin Active => s.held[m] = <<>>)
Counted(s) == \A i \in 1..Len(s.made) : s.made[i].n = i

\* The blocks of record s are in line; those in G have been handed over.
Lined(s, G) == /\ Counted(s) /\ HeldRising(s) /\ Rising(s.delayed)
               /\ Chain(Elems(s.made), G, s.plan, Elems(s.delayed), {}, Held(s))
               /\ Direct(Drained, s.plan)

-----------------------------------------------------------------------------
(* The invariant.                                                          *)

\* What the files c hold, and what of the blocks g the writer, which has
\* written k of them, still has to write.
Stored(c) == UNION {Elems(c[o]) : o \in Objects}
Rest(g, k) == {g[i] : i \in (k + 1)..Len(g)}
InFiles(c, g, k) ==
    /\ \A o \in Objects : /\ Rising(c[o])
                          /\ \A i \in 1..Len(c[o]) : c[o][i].file = o
    /\ \A i, j \in (k + 1)..Len(g) : i < j => Before(g[i], g[j])
    /\ AllBefore(Stored(c), Rest(g, k))

\* The blocks M are in the files c, given to the writer, planned by p, in D or H.
Placed(M, c, g, k, p, D, H) ==
    InFiles(c, g, k) /\ Chain(M, Stored(c) \cup Rest(g, k), p, D, {}, H)

\* The last operation of a plan ends the mux.
PlanEnds(d, p) == \A n \in 1..Len(p) :
                    /\ p[n].op \in {"direct", "append"} => Waited(d, p, n - 1)
                    /\ p[n].op = "destroy" => n = Len(p)

OutputInv ==
    ~mode.diskMayFail =>
      /\ lastErrorCode = 0
      /\ phase = "mux" /\ Muxing =>
           /\ Counted(mux) /\ HeldRising(mux) /\ Rising(mux.delayed)
           /\ Placed(Elems(mux.made), contents, Given, done, todo, Elems(mux.delayed), Held(mux))
           /\ Direct(Drained, todo)
      /\ phase \in {"end", "complete"} =>
           /\ Counted(mux) /\ PlanEnds(Drained, todo) /\ (Muxing \/ todo = <<>>)
           /\ Placed(Elems(mux.made), contents, Given, done, todo, {}, {})
      /\ phase = "complete" => cpc = "gone"

-----------------------------------------------------------------------------
(* Sequences of blocks.                                                    *)

LEMMA ElemsOf ==
  ASSUME NEW S, NEW q \in Seq(S)
  PROVE  /\ Elems(q) \subseteq S /\ Len(q) \in Nat
         /\ \A i \in 1..Len(q) : q[i] \in Elems(q) /\ q[i] \in S
BY DEF Elems

LEMMA NoElems == Elems(<<>>) = {} /\ Rising(<<>>) /\ \A S : AllBefore({}, S) /\ AllBefore(S, {})
<1>1. \A i : i \notin 1..Len(<<>>)
  OBVIOUS
<1>. QED BY <1>1 DEF Elems, Rising, AllBefore

LEMMA BeforeMore ==
  ASSUME NEW S, NEW T, NEW U
  PROVE  /\ AllBefore(S \cup T, U) <=> AllBefore(S, U) /\ AllBefore(T, U)
         /\ AllBefore(U, S \cup T) <=> AllBefore(U, S) /\ AllBefore(U, T)
BY DEF AllBefore

\* One sequence after another, and one more block.
LEMMA JoinRising ==
  ASSUME NEW S, NEW c \in Seq(S), NEW bs \in Seq(S)
  PROVE  /\ Elems(c \o bs) = Elems(c) \cup Elems(bs)
         /\ Rising(c) /\ Rising(bs) /\ AllBefore(Elems(c), Elems(bs)) => Rising(c \o bs)
<1>. DEFINE r == c \o bs
            l == Len(c)
<1>1. /\ l \in Nat /\ Len(bs) \in Nat /\ Len(r) = l + Len(bs)
      /\ \A i \in 1..Len(r) : r[i] = IF i <= l THEN c[i] ELSE bs[i - l]
  OBVIOUS
<1>2. \A i \in 1..Len(r) : i \in 1..l \/ (i - l \in 1..Len(bs) /\ i > l)
  BY <1>1
<1>3. /\ \A i \in 1..l : i \in 1..Len(r) /\ i <= l
      /\ \A i \in 1..Len(bs) : l + i \in 1..Len(r) /\ ~(l + i <= l) /\ (l + i) - l = i
  BY <1>1
<1>. HIDE DEF r, l
<1>4. Elems(r) = Elems(c) \cup Elems(bs)
  <2>1. \A i \in 1..Len(r) : r[i] \in {c[k] : k \in 1..l} \cup {bs[k] : k \in 1..Len(bs)}
    <3>1. SUFFICES ASSUME NEW i \in 1..Len(r)
                   PROVE  r[i] \in {c[k] : k \in 1..l} \cup {bs[k] : k \in 1..Len(bs)}
      OBVIOUS
    <3>2. CASE i \in 1..l
      <4>1. r[i] = c[i]
        BY <1>1, <3>2
      <4>. QED BY <3>2, <4>1
    <3>3. CASE i - l \in 1..Len(bs) /\ i > l
      <4>1. r[i] = bs[i - l]
        BY <1>1, <3>3
      <4>. QED BY <3>3, <4>1
    <3>. QED BY <1>2, <3>2, <3>3
  <2>2. \A k \in 1..l : c[k] \in {r[i] : i \in 1..Len(r)}
    BY <1>1, <1>3
  <2>3. \A k \in 1..Len(bs) : bs[k] \in {r[i] : i \in 1..Len(r)}
    <3>1. SUFFICES ASSUME NEW k \in 1..Len(bs) PROVE bs[k] \in {r[i] : i \in 1..Len(r)}
      OBVIOUS
    <3>2. r[l + k] = bs[k]
      BY <1>1, <1>3
    <3>. QED BY <1>3, <3>2
  <2>. QED BY <2>1, <2>2, <2>3 DEF Elems, l
<1>5. ASSUME Rising(c), Rising(bs), AllBefore(Elems(c), Elems(bs))
      PROVE  Rising(r)
  <2>. SUFFICES ASSUME NEW i \in 1..Len(r), NEW j \in 1..Len(r), i < j
                PROVE  Before(r[i], r[j])
    BY DEF Rising
  <2>1. CASE j \in 1..l
    <3>1. i \in 1..l /\ r[i] = c[i] /\ r[j] = c[j]
      BY <1>1, <2>1
    <3>. QED BY <1>5, <2>1, <3>1 DEF Rising, l
  <2>2. CASE i \in 1..l /\ j - l \in 1..Len(bs) /\ j > l
    <3>1. r[i] = c[i] /\ r[j] = bs[j - l]
      BY <1>1, <2>2
    <3>2. c[i] \in Elems(c) /\ bs[j - l] \in Elems(bs)
      BY <2>2 DEF Elems, l
    <3>. QED BY <1>5, <3>1, <3>2 DEF AllBefore
  <2>3. CASE i - l \in 1..Len(bs) /\ i > l
    <3>1. j - l \in 1..Len(bs) /\ j > l /\ i - l < j - l
      BY <1>1, <2>3
    <3>2. r[i] = bs[i - l] /\ r[j] = bs[j - l]
      BY <1>1, <2>3, <3>1
    <3>. QED BY <1>5, <2>3, <3>1, <3>2 DEF Rising
  <2>. QED BY <1>2, <2>1, <2>2, <2>3
<1>. QED BY <1>4, <1>5 DEF r

LEMMA OneElem ==
  ASSUME NEW b
  PROVE  Elems(<<b>>) = {b} /\ Rising(<<b>>)
<1>1. Len(<<b>>) = 1 /\ <<b>>[1] = b
  OBVIOUS
<1>2. Elems(<<b>>) = {b}
  BY <1>1 DEF Elems
<1>3. Rising(<<b>>)
  BY <1>1 DEF Rising
<1>. QED BY <1>2, <1>3

LEMMA AppendRising ==
  ASSUME NEW S, NEW c \in Seq(S), NEW b \in S
  PROVE  /\ Elems(Append(c, b)) = Elems(c) \cup {b}
         /\ Rising(c) /\ AllBefore(Elems(c), {b}) => Rising(Append(c, b))
<1>1. Append(c, b) = c \o <<b>> /\ <<b>> \in Seq(S)
  OBVIOUS
<1>2. /\ Elems(c \o <<b>>) = Elems(c) \cup Elems(<<b>>)
      /\ Rising(c) /\ Rising(<<b>>) /\ AllBefore(Elems(c), Elems(<<b>>)) => Rising(c \o <<b>>)
  BY <1>1, JoinRising
<1>. QED BY <1>1, <1>2, OneElem, Zenon

-----------------------------------------------------------------------------
(* Plans and what they write.                                              *)

LEMMA PlannedOf ==
  ASSUME NEW p
  PROVE  /\ \A n \in 1..Len(p) : Writes(p[n]) => p[n].arg \in Planned(p)
         /\ \A b \in Planned(p) : \E n \in 1..Len(p) : Writes(p[n]) /\ p[n].arg = b
BY DEF Planned

LEMMA NothingPlanned == Planned(<<>>) = {} /\ PlanRising(<<>>) /\ \A d : Direct(d, <<>>)
<1>1. \A i : i \notin 1..Len(<<>>)
  OBVIOUS
<1>. QED BY <1>1 DEF Planned, PlanRising, Direct

\* A plan goes on with the writes of the blocks bs.
LEMMA PlannedMore ==
  ASSUME NEW p \in Seq(OpSpace), NEW w \in {"write", "direct", "append"}, NEW bs \in Seq(BlockSpace)
  PROVE  LET q == p \o Each(w, bs) IN
         /\ Planned(q) = Planned(p) \cup Elems(bs)
         /\ PlanRising(p) /\ Rising(bs) /\ AllBefore(Planned(p), Elems(bs)) => PlanRising(q)
<1>. DEFINE e == Each(w, bs)
            q == p \o e
            l == Len(p)
            k == Len(bs)
<1>1. /\ e \in Seq(OpSpace) /\ Len(e) = k /\ k \in Nat
      /\ \A n \in 1..k : e[n] = [op |-> w, arg |-> bs[n]]
  BY EachOps
<1>. HIDE DEF e
<1>2. /\ Len(q) = l + k /\ l \in Nat
      /\ \A n \in 1..l : q[n] = p[n]
      /\ \A n \in 1..k : q[l + n] = e[n]
      /\ \A n \in 1..l + k : n > l => n - l \in 1..k /\ q[n] = e[n - l]
  <2>1. /\ Len(q) = l + Len(e) /\ l \in Nat
        /\ \A n \in 1..l : q[n] = p[n]
        /\ \A n \in 1..Len(e) : q[l + n] = e[n]
        /\ \A n \in 1..l + Len(e) : n > l => n - l \in 1..Len(e) /\ q[n] = e[n - l]
    BY <1>1, Joining
  <2>. HIDE DEF q, l, k
  <2>. QED BY <1>1, <2>1
<1>3. \A n \in 1..k : Writes(e[n]) /\ e[n].arg = bs[n]
  <2>1. SUFFICES ASSUME NEW n \in 1..k PROVE Writes(e[n]) /\ e[n].arg = bs[n]
    OBVIOUS
  <2>2. e[n] = [op |-> w, arg |-> bs[n]]
    BY <1>1
  <2>. QED BY <2>2 DEF Writes
<1>4. \A n \in 1..Len(q) : n \in 1..l \/ (n > l /\ n - l \in 1..k)
  BY <1>1, <1>2
<1>5. /\ \A n \in 1..l : n \in 1..Len(q)
      /\ \A n \in 1..k : l + n \in 1..Len(q)
  BY <1>1, <1>2
<1>. HIDE DEF q, l, k
<1>6. Planned(q) \subseteq Planned(p) \cup Elems(bs)
  <2>. SUFFICES ASSUME NEW n \in 1..Len(q), Writes(q[n])
                PROVE  q[n].arg \in Planned(p) \cup Elems(bs)
    BY PlannedOf
  <2>1. CASE n \in 1..l
    <3>1. q[n] = p[n]
      BY <1>2, <2>1
    <3>. QED BY <2>1, <3>1, PlannedOf DEF l
  <2>2. CASE n > l /\ n - l \in 1..k
    <3>1. q[n] = e[n - l]
      BY <1>2, <2>2 DEF q
    <3>2. q[n].arg = bs[n - l]
      BY <1>3, <2>2, <3>1
    <3>. QED BY <2>2, <3>2 DEF Elems, k
  <2>. QED BY <1>4, <2>1, <2>2
<1>7. Planned(p) \subseteq Planned(q)
  <2>. SUFFICES ASSUME NEW n \in 1..l, Writes(p[n]) PROVE p[n].arg \in Planned(q)
    BY PlannedOf DEF l
  <2>. QED BY <1>2, <1>5, PlannedOf
<1>8. Elems(bs) \subseteq Planned(q)
  <2>. SUFFICES ASSUME NEW n \in 1..k PROVE bs[n] \in Planned(q)
    BY DEF Elems, k
  <2>1. q[l + n] = e[n] /\ l + n \in 1..Len(q)
    BY <1>2, <1>5
  <2>. QED BY <1>3, <2>1, PlannedOf
<1>9. ASSUME PlanRising(p), Rising(bs), AllBefore(Planned(p), Elems(bs))
      PROVE  PlanRising(q)
  <2>. SUFFICES ASSUME NEW i \in 1..Len(q), NEW n \in 1..Len(q), i < n, Writes(q[i]), Writes(q[n])
                PROVE  Before(q[i].arg, q[n].arg)
    BY DEF PlanRising
  <2>1. CASE n \in 1..l
    <3>1. i \in 1..l
      BY <1>2, <2>1
    <3>2. q[i] = p[i] /\ q[n] = p[n]
      BY <1>2, <2>1, <3>1
    <3>. QED BY <1>9, <2>1, <3>1, <3>2 DEF PlanRising, l
  <2>2. CASE i \in 1..l /\ n > l /\ n - l \in 1..k
    <3>1. q[i] = p[i] /\ q[n] = e[n - l]
      BY <1>2, <2>2 DEF q
    <3>2. q[n].arg = bs[n - l] /\ bs[n - l] \in Elems(bs)
      BY <1>3, <2>2, <3>1 DEF Elems, k
    <3>3. q[i].arg \in Planned(p)
      BY <2>2, <3>1, PlannedOf DEF l
    <3>. QED BY <1>9, <3>2, <3>3 DEF AllBefore
  <2>3. CASE i > l /\ i - l \in 1..k
    <3>1. n > l /\ n - l \in 1..k /\ i - l < n - l
      BY <1>1, <1>2, <1>4, <2>3
    <3>2. q[i] = e[i - l] /\ q[n] = e[n - l]
      BY <1>2, <2>3, <3>1 DEF q
    <3>3. q[i].arg = bs[i - l] /\ q[n].arg = bs[n - l]
      BY <1>3, <2>3, <3>1, <3>2
    <3>. QED BY <1>9, <2>3, <3>1, <3>3 DEF Rising, k
  <2>. QED BY <1>4, <2>1, <2>2, <2>3
<1>. QED BY <1>6, <1>7, <1>8, <1>9 DEF q, e
\* The blocks at hand go into the plan, behind those it writes.
LEMMA PlanTakes ==
  ASSUME NEW p \in Seq(OpSpace), NEW w \in {"write", "direct", "append"}, NEW bs \in Seq(BlockSpace),
         NEW M, NEW G, NEW D, NEW H, NEW d, Chain(M, G, p, D, Elems(bs), H), Rising(bs),
         AllBefore(Elems(bs), D), Direct(d, p), w = "write" \/ Waited(d, p, Len(p))
  PROVE  LET q == p \o Each(w, bs) IN Chain(M, G, q, D, {}, H) /\ Direct(d, q)
<1>. DEFINE e == Each(w, bs)
            q == p \o e
            l == Len(p)
<1>1. /\ Planned(q) = Planned(p) \cup Elems(bs)
      /\ PlanRising(q)
  BY PlannedMore DEF Chain
<1>2. /\ e \in Seq(OpSpace) /\ Len(e) \in Nat
      /\ \A n \in 1..Len(e) : e[n].op = w
  <2>1. e \in Seq(OpSpace) /\ Len(e) = Len(bs) /\ Len(bs) \in Nat
        /\ \A n \in 1..Len(bs) : e[n] = [op |-> w, arg |-> bs[n]]
    BY EachOps
  <2>. HIDE DEF e
  <2>2. ASSUME NEW n \in 1..Len(e) PROVE e[n].op = w
    <3>1. e[n] = [op |-> w, arg |-> bs[n]]
      BY <2>1
    <3>. QED BY <3>1
  <2>. QED BY <2>1, <2>2
<1>. HIDE DEF e
<1>3. /\ Len(q) = l + Len(e) /\ l \in Nat
      /\ \A n \in 1..l : q[n] = p[n]
      /\ \A n \in 1..Len(e) : q[l + n] = e[n]
      /\ \A n \in 1..l + Len(e) : n > l => n - l \in 1..Len(e) /\ q[n] = e[n - l]
  <2>1. e \in Seq(OpSpace)
    BY <1>2
  <2>. QED BY <2>1, Joining
<1>. HIDE DEF q
<1>4. Chain(M, G, q, D, {}, H)
  <2>1. M = G \cup Planned(q) \cup D \cup {} \cup H
    BY <1>1 DEF Chain
  <2>2. AllBefore(G, Planned(q)) /\ AllBefore(Planned(q), D) /\ AllBefore(Planned(q), H)
    <3>1. /\ AllBefore(G, Planned(p)) /\ AllBefore(G, Elems(bs))
          /\ AllBefore(Planned(p), D) /\ AllBefore(Elems(bs), D)
          /\ AllBefore(Planned(p), H) /\ AllBefore(Elems(bs), H)
      BY DEF Chain
    <3>2. /\ AllBefore(G, Planned(p) \cup Elems(bs))
          /\ AllBefore(Planned(p) \cup Elems(bs), D)
          /\ AllBefore(Planned(p) \cup Elems(bs), H)
      BY <3>1 DEF AllBefore
    <3>. QED BY <1>1, <3>2
  <2>3. \A S : AllBefore({}, S) /\ AllBefore(S, {})
    BY NoElems
  <2>. QED BY <1>1, <2>1, <2>2, <2>3 DEF Chain
<1>5. Direct(d, q)
  <2>. SUFFICES ASSUME NEW n \in 1..Len(q)
                PROVE  /\ q[n].op \in {"direct", "append"} => Waited(d, q, n - 1)
                       /\ q[n].op # "destroy"
    BY DEF Direct
  <2>1. CASE n \in 1..l
    <3>1. q[n] = p[n] /\ n - 1 \in Nat /\ \A j \in 1..(n - 1) : q[j] = p[j]
      BY <1>3, <2>1
    <3>2. Waited(d, p, n - 1) => Waited(d, q, n - 1)
      BY <3>1, SamePart
    <3>. QED BY <2>1, <3>1, <3>2 DEF Direct, l
  <2>2. CASE n > l
    <3>1. n - l \in 1..Len(e) /\ q[n] = e[n - l]
      BY <1>3, <2>2
    <3>2. q[n].op = w
      BY <1>2, <3>1
    <3>3. ASSUME w # "write" PROVE Waited(d, q, n - 1)
      <4>1. Waited(d, p, l)
        BY <3>3 DEF l
      <4>2. Waited(d, q, l)
        BY <1>3, <4>1, SamePart
      <4>3. n - 1 \in Nat /\ l <= n - 1
        BY <1>3, <2>2
      <4>4. \A j \in (l + 1)..(n - 1) : q[j].op # "write"
        <5>1. SUFFICES ASSUME NEW j \in (l + 1)..(n - 1) PROVE q[j].op # "write"
          OBVIOUS
        <5>2. j \in 1..l + Len(e) /\ j > l
          BY <1>2, <1>3
        <5>3. j - l \in 1..Len(e) /\ q[j] = e[j - l]
          BY <1>3, <5>2
        <5>. QED BY <1>2, <3>3, <5>3
      <4>. QED BY <1>3, <4>2, <4>3, <4>4, LongerPart
    <3>. QED BY <3>2, <3>3
  <2>. QED BY <1>3, <2>1, <2>2
<1>. QED BY <1>4, <1>5 DEF q, e

\* Operations that write nothing.
NoWrites(ops) == \A n \in 1..Len(ops) : ~Writes(ops[n]) /\ ops[n].op # "destroy"

LEMMA PlanSilent ==
  ASSUME NEW p \in Seq(OpSpace), NEW ops \in Seq(OpSpace), \A n \in 1..Len(ops) : ~Writes(ops[n])
  PROVE  LET q == p \o ops IN
         Planned(q) = Planned(p) /\ (PlanRising(p) => PlanRising(q))
<1>. DEFINE q == p \o ops
            l == Len(p)
<1>1. /\ Len(q) = l + Len(ops) /\ l \in Nat /\ Len(ops) \in Nat
      /\ \A n \in 1..l : q[n] = p[n]
      /\ \A n \in 1..l + Len(ops) : n > l => n - l \in 1..Len(ops) /\ q[n] = ops[n - l]
  BY Joining
<1>. HIDE DEF q, l
<1>2. \A n \in 1..Len(q) : (n \in 1..l /\ q[n] = p[n]) \/ ~Writes(q[n])
  <2>. SUFFICES ASSUME NEW n \in 1..Len(q), n \notin 1..l
                PROVE  ~Writes(q[n])
    BY <1>1
  <2>1. n - l \in 1..Len(ops) /\ q[n] = ops[n - l]
    BY <1>1
  <2>. QED BY <2>1
<1>3. \A n \in 1..l : n \in 1..Len(q)
  BY <1>1
<1>4. Planned(q) = Planned(p)
  <2>1. \A n \in 1..Len(q) : Writes(q[n]) => q[n].arg \in Planned(p)
    BY <1>2, PlannedOf DEF l
  <2>2. \A n \in 1..l : Writes(p[n]) => p[n].arg \in Planned(q)
    BY <1>1, <1>3, PlannedOf
  <2>3. Planned(q) \subseteq Planned(p)
    BY <2>1, PlannedOf
  <2>4. Planned(p) \subseteq Planned(q)
    BY <2>2, PlannedOf DEF l
  <2>. QED BY <2>3, <2>4
<1>5. PlanRising(p) => PlanRising(q)
  BY <1>2 DEF PlanRising, l
<1>. QED BY <1>4, <1>5 DEF q

LEMMA PlanGoesOn ==
  ASSUME NEW p \in Seq(OpSpace), NEW ops \in Seq(OpSpace), NoWrites(ops)
  PROVE  LET q == p \o ops IN
         /\ Planned(q) = Planned(p)
         /\ PlanRising(p) => PlanRising(q)
         /\ \A d : Direct(d, p) => Direct(d, q)
<1>. DEFINE q == p \o ops
            l == Len(p)
<1>1. /\ Len(q) = l + Len(ops) /\ l \in Nat /\ Len(ops) \in Nat
      /\ \A n \in 1..l : q[n] = p[n]
      /\ \A n \in 1..l + Len(ops) : n > l => n - l \in 1..Len(ops) /\ q[n] = ops[n - l]
  BY Joining
<1>2. Planned(q) = Planned(p) /\ (PlanRising(p) => PlanRising(q))
  BY PlanSilent DEF NoWrites
<1>. HIDE DEF q, l
<1>3. ASSUME NEW d, Direct(d, p) PROVE Direct(d, q)
  <2>. SUFFICES ASSUME NEW n \in 1..Len(q)
                PROVE  /\ q[n].op \in {"direct", "append"} => Waited(d, q, n - 1)
                       /\ q[n].op # "destroy"
    BY DEF Direct
  <2>1. CASE n \in 1..l
    <3>1. q[n] = p[n] /\ n - 1 \in Nat /\ \A j \in 1..(n - 1) : q[j] = p[j]
      BY <1>1, <2>1
    <3>2. Waited(d, p, n - 1) => Waited(d, q, n - 1)
      BY <3>1, SamePart
    <3>. QED BY <1>3, <2>1, <3>1, <3>2 DEF Direct, l
  <2>2. CASE n \notin 1..l
    <3>1. n - l \in 1..Len(ops) /\ q[n] = ops[n - l]
      BY <1>1, <2>2
    <3>. QED BY <3>1 DEF NoWrites, Writes
  <2>. QED BY <2>1, <2>2
<1>. QED BY <1>2, <1>3 DEF q

LEMMA ChainGoesOn ==
  ASSUME NEW p \in Seq(OpSpace), NEW ops \in Seq(OpSpace), NoWrites(ops),
         NEW M, NEW G, NEW D, NEW B, NEW H, Chain(M, G, p, D, B, H)
  PROVE  Chain(M, G, p \o ops, D, B, H)
<1>. DEFINE q == p \o ops
<1>1. Planned(q) = Planned(p) /\ PlanRising(q)
  BY PlanGoesOn DEF Chain
<1>. HIDE DEF q
<1>2. Chain(M, G, q, D, B, H)
  BY <1>1 DEF Chain
<1>. QED BY <1>2 DEF q

-----------------------------------------------------------------------------
(* The operations of the muxing thread keep the blocks in line.            *)

LEMMA LinedFrame ==
  ASSUME NEW s, NEW G, Lined(s, G), NEW t, t.made = s.made, t.plan = s.plan,
         t.held = s.held, t.delayed = s.delayed
  PROVE  Lined(t, G)
BY DEF Lined, Counted, HeldRising, Held

\* The blocks bs are at hand, and those in H behind them.
InHand(s, G, bs, H) ==
    /\ Counted(s) /\ Rising(s.delayed) /\ Rising(bs)
    /\ Chain(Elems(s.made), G, s.plan, Elems(s.delayed), Elems(bs), H)
    /\ Direct(Drained, s.plan)

\* A record with more writes in its plan.
LEMMA WritesInLine ==
  ASSUME NEW s \in MuxSpace, NEW w \in {"write", "direct", "append"}, NEW bs \in Seq(BlockSpace),
         NEW G, NEW H, InHand(s, G, bs, H), AllBefore(Elems(bs), Elems(s.delayed)),
         w = "write" \/ Waited(Drained, s.plan, Len(s.plan))
  PROVE  LET t == Do(s, Each(w, bs)) IN
         /\ InHand(t, G, <<>>, H) /\ t.made = s.made /\ t.held = s.held /\ t.delayed = s.delayed
<1>. DEFINE e == Each(w, bs)
            q == s.plan \o e
            t == Do(s, e)
<1>1. s.plan \in Seq(OpSpace) /\ e \in Seq(OpSpace)
  BY EachOps DEF MuxSpace
<1>2. Chain(Elems(s.made), G, q, Elems(s.delayed), {}, H) /\ Direct(Drained, q)
  BY <1>1, PlanTakes DEF InHand
<1>. HIDE DEF e
<1>3. q \in Seq(OpSpace)
  BY <1>1, Joining
<1>4. /\ t.plan = q /\ t.made = s.made /\ t.held = s.held /\ t.delayed = s.delayed
  BY <1>3, PlanFields
<1>. HIDE DEF t, q
<1>5. InHand(t, G, <<>>, H)
  BY <1>2, <1>4, NoElems DEF InHand, Counted
<1>. QED BY <1>4, <1>5 DEF t, e

LEMMA InHandFrame ==
  ASSUME NEW s, NEW t, t.made = s.made, t.plan = s.plan, t.delayed = s.delayed,
         NEW G, NEW bs, NEW H, InHand(s, G, bs, H)
  PROVE  InHand(t, G, bs, H)
BY DEF InHand, Counted

\* With nothing at hand the blocks are in line.
LEMMA NothingInHand ==
  ASSUME NEW s, NEW G, NEW H, H = Held(s), HeldRising(s)
  PROVE  InHand(s, G, <<>>, H) <=> Lined(s, G)
BY NoElems DEF InHand, Lined

\* Without the writer thread nothing is left to it.
LEMMA SyncWaited ==
  ASSUME NEW s, Sound(s), ~mode.async
  PROVE  Waited(Drained, s.plan, Len(s.plan))
<1>1. Drained /\ \A n \in 1..Len(s.plan) : s.plan[n].op # "write"
  BY DEF Sound, GoodPlan
<1>2. s.plan \in Seq(OpSpace)
  BY SoundTypes
<1>3. 0 \in 0..Len(s.plan) /\ 0 + 1 = 1
  BY <1>2
<1>. QED BY <1>1, <1>3 DEF Waited

LEMMA KeptElems ==
  ASSUME NEW s, NEW m, NEW bs, KeptFor(s, m, bs)
  PROVE  \A b \in Elems(bs) : b.mux = m /\ b.file = s.muxFile[m]
BY DEF KeptFor, Elems

\* Blocks are handed over, or the main muxer's held back.
LEMMA BuffersInLine ==
  ASSUME NEW s, Sound(s), NEW m \in Active, mode \in Modes, NEW bs \in Seq(BlockSpace),
         KeptFor(s, m, bs), NEW G, NEW H, InHand(s, G, bs, H)
  PROVE  LET t == WriteBuffers(s, m, bs) IN InHand(t, G, <<>>, H) /\ t.made = s.made
<1>1. /\ s \in MuxSpace /\ s.plan \in Seq(OpSpace) /\ s.delayed \in Seq(BlockSpace)
      /\ m \in Muxers
  BY ModeFacts, SoundTypes
<1>2. KeptFor(s, "main", s.delayed) /\ (~mode.interleave \/ ~mode.async => s.delayed = <<>>)
  BY DEF Sound, Steady, Kept
<1>3. CASE mode.async /\ mode.interleave /\ m = "main"
  <2>. DEFINE c == s.delayed \o bs
              t == [s EXCEPT !.delayed = c]
  <2>1. t = WriteBuffers(s, m, bs)
    BY <1>3 DEF WriteBuffers, AsyncWriteBuffers
  <2>2. /\ c \in Seq(BlockSpace) /\ Elems(c) = Elems(s.delayed) \cup Elems(bs)
        /\ Rising(c)
    <3>1. Rising(s.delayed) /\ Rising(bs) /\ AllBefore(Elems(s.delayed), Elems(bs))
      BY DEF InHand, Chain
    <3>. QED BY <1>1, <3>1, JoinRising, MoreBlocks
  <2>. HIDE DEF c
  <2>3. t.made = s.made /\ t.plan = s.plan /\ t.delayed = c
    BY <1>1, <2>2 DEF MuxSpace
  <2>. HIDE DEF t
  <2>4. InHand(t, G, <<>>, H)
    <3>. DEFINE M == Elems(s.made)
                P == Planned(s.plan)
                D == Elems(s.delayed)
                B == Elems(bs)
    <3>1. /\ M = G \cup P \cup D \cup B \cup H
          /\ AllBefore(G, P) /\ AllBefore(G, D) /\ AllBefore(G, B) /\ AllBefore(G, H)
          /\ AllBefore(P, D) /\ AllBefore(P, B) /\ AllBefore(P, H)
          /\ AllBefore(D, H) /\ AllBefore(B, H) /\ PlanRising(s.plan)
      BY DEF InHand, Chain
    <3>2. Elems(c) = D \cup B
      BY <2>2
    <3>. HIDE DEF M, P, D, B
    <3>3. /\ M = G \cup P \cup Elems(c) \cup {} \cup H
          /\ AllBefore(G, Elems(c)) /\ AllBefore(P, Elems(c)) /\ AllBefore(Elems(c), H)
      <4>1. AllBefore(G, D \cup B) /\ AllBefore(P, D \cup B) /\ AllBefore(D \cup B, H)
        BY <3>1 DEF AllBefore
      <4>. QED BY <3>1, <3>2, <4>1
    <3>4. \A S : AllBefore(S, {}) /\ AllBefore({}, S)
      BY NoElems
    <3>5. Chain(M, G, s.plan, Elems(c), {}, H)
      BY <3>1, <3>3, <3>4 DEF Chain, P
    <3>6. Elems(t.made) = M /\ Elems(<<>>) = {} /\ Rising(<<>>)
      BY <2>3, NoElems DEF M
    <3>. QED BY <2>2, <2>3, <3>5, <3>6 DEF InHand, Counted
  <2>. QED BY <2>1, <2>3, <2>4
<1>4. CASE mode.async /\ ~(mode.interleave /\ m = "main")
  <2>1. WriteBuffers(s, m, bs) = Do(s, Each("write", bs))
    BY <1>4 DEF WriteBuffers, AsyncWriteBuffers
  <2>2. AllBefore(Elems(bs), Elems(s.delayed))
    <3>1. CASE ~mode.interleave
      BY <1>2, <3>1, NoElems
    <3>2. CASE mode.interleave
      <4>1. m = "sub"
        BY <1>1, <1>4, <3>2 DEF Muxers
      <4>2. \A b \in Elems(bs) : b.mux = "sub"
        BY <4>1, KeptElems
      <4>3. \A b \in Elems(s.delayed) : b.mux = "main"
        BY <1>2, KeptElems
      <4>. QED BY <4>2, <4>3 DEF AllBefore, Before
    <3>. QED BY <3>1, <3>2
  <2>3. LET t == Do(s, Each("write", bs)) IN
        /\ InHand(t, G, <<>>, H) /\ t.made = s.made /\ t.held = s.held /\ t.delayed = s.delayed
    BY <1>1, <2>2, WritesInLine
  <2>. QED BY <2>1, <2>3
<1>5. CASE ~mode.async
  <2>. DEFINE u == Do(s, Each("direct", bs))
              t == SyncWriteBuffers(s, bs)
  <2>1. WriteBuffers(s, m, bs) = t
    BY <1>5 DEF WriteBuffers
  <2>2. InHand(u, G, <<>>, H) /\ u.made = s.made
    <3>1. AllBefore(Elems(bs), Elems(s.delayed))
      BY <1>2, <1>5, NoElems
    <3>2. Waited(Drained, s.plan, Len(s.plan))
      BY <1>5, SyncWaited
    <3>. QED BY <1>1, <3>1, <3>2, WritesInLine
  <2>3. u \in MuxSpace
    <3>1. s.plan \o Each("direct", bs) \in Seq(OpSpace)
      BY <1>1, EachOps
    <3>. QED BY <1>1, <3>1, PlanFields
  <2>4. \/ t = u
        \/ t = [u EXCEPT !.asserts = @ \cup {"sync interleave"}]
    BY DEF SyncWriteBuffers, Expect
  <2>. HIDE DEF t, u
  <2>5. t.made = u.made /\ t.plan = u.plan /\ t.delayed = u.delayed
    BY <2>3, <2>4 DEF MuxSpace
  <2>. QED BY <2>1, <2>2, <2>5, InHandFrame
<1>. QED BY <1>3, <1>4, <1>5, ModeFacts

LEMMA TwoMuxers ==
  ASSUME NEW m \in Muxers
  PROVE  /\ Sibling(m) \in Muxers /\ Sibling(m) # m /\ Muxers = {m, Sibling(m)}
         /\ \A s : Held(s) = Elems(s.held[m]) \cup Elems(s.held[Sibling(m)])
<1>1. Sibling(m) \in Muxers /\ Sibling(m) # m /\ Muxers = {m, Sibling(m)}
  BY DEF Sibling, Muxers
<1>2. ASSUME NEW s PROVE Held(s) = Elems(s.held[m]) \cup Elems(s.held[Sibling(m)])
  <2>. DEFINE h(x) == Elems(s.held[x])
  <2>1. Held(s) = UNION {h(x) : x \in Muxers}
    BY DEF Held
  <2>. HIDE DEF h
  <2>2. Held(s) = h(m) \cup h(Sibling(m))
    BY <1>1, <2>1
  <2>. QED BY <2>2 DEF h
<1>. QED BY <1>1, <1>2

\* Of what is kept, the blocks of one muxer are at hand.
LEMMA TakeHeld ==
  ASSUME NEW s, Sound(s), NEW m \in Muxers, NEW G, Lined(s, G)
  PROVE  InHand(s, G, s.held[m], Elems(s.held[Sibling(m)]))
<1>. DEFINE A == Elems(s.held[m])
            B == Elems(s.held[Sibling(m)])
            M == Elems(s.made)
            P == Planned(s.plan)
            D == Elems(s.delayed)
<1>1. Held(s) = A \cup B
  BY TwoMuxers
<1>2. AllBefore(A, B)
  <2>1. \A b \in A : b.mux = m
    <3>1. KeptFor(s, m, s.held[m])
      BY DEF Sound, Steady, Kept
    <3>. QED BY <3>1, KeptElems
  <2>2. \A b \in B : b.mux = Sibling(m)
    <3>1. KeptFor(s, Sibling(m), s.held[Sibling(m)])
      BY TwoMuxers DEF Sound, Steady, Kept
    <3>. QED BY <3>1, KeptElems
  <2>3. m # Sibling(m)
    BY TwoMuxers
  <2>. QED BY <2>1, <2>2, <2>3 DEF AllBefore, Before
<1>3. /\ M = G \cup P \cup D \cup {} \cup Held(s)
      /\ AllBefore(G, P) /\ AllBefore(G, D) /\ AllBefore(G, Held(s))
      /\ AllBefore(P, D) /\ AllBefore(P, Held(s)) /\ AllBefore(D, Held(s)) /\ PlanRising(s.plan)
  BY DEF Lined, Chain
<1>. HIDE DEF A, B, M, P, D
<1>4. M = G \cup P \cup D \cup A \cup B
  BY <1>1, <1>3
<1>5. /\ AllBefore(G, A) /\ AllBefore(P, A) /\ AllBefore(D, A)
      /\ AllBefore(G, B) /\ AllBefore(P, B) /\ AllBefore(D, B)
  BY <1>1, <1>3 DEF AllBefore
<1>6. Chain(M, G, s.plan, D, A, B)
  BY <1>2, <1>3, <1>4, <1>5 DEF Chain, P
<1>7. Rising(s.held[m])
  BY DEF Lined, HeldRising
<1>. QED BY <1>6, <1>7 DEF InHand, Lined, A, B, M, D

LEMMA ProcessInLine ==
  ASSUME NEW s, Sound(s), NEW m \in Active, mode \in Modes, NEW G, Lined(s, G)
  PROVE  LET t == ProcessM2TSPCR(s, m) IN Lined(t, G) /\ t.made = s.made
<1>. DEFINE u == WriteBuffers(s, m, s.held[m])
            t == ProcessM2TSPCR(s, m)
            H == Elems(s.held[Sibling(m)])
<1>1. m \in Muxers /\ s.held[m] \in Seq(BlockSpace) /\ KeptFor(s, m, s.held[m])
  BY ModeFacts, SoundTypes DEF Sound, Steady, Kept
<1>2. InHand(u, G, <<>>, H) /\ u.made = s.made
  BY <1>1, TakeHeld, BuffersInLine
<1>3. Sound(u) /\ u.held = s.held
  BY <1>1, WriteBuffersSound
<1>4. t = [u EXCEPT !.held = [u.held EXCEPT ![m] = <<>>]]
  BY DEF ProcessM2TSPCR
<1>5. Near(t, s, m) /\ t.held[m] = <<>>
  BY ProcessSound
<1>. HIDE DEF t, u
<1>6. t.made = u.made /\ t.plan = u.plan /\ t.delayed = u.delayed
  <2>. DEFINE h == [u.held EXCEPT ![m] = <<>>]
  <2>1. u \in MuxSpace /\ t = [u EXCEPT !.held = h]
    BY <1>3, <1>4, SoundTypes
  <2>. HIDE DEF h
  <2>. QED BY <2>1 DEF MuxSpace
<1>7. InHand(t, G, <<>>, H)
  BY <1>2, <1>6, InHandFrame
<1>8. t.held[Sibling(m)] = s.held[Sibling(m)] /\ \A x \in Muxers : x = m \/ t.held[x] = s.held[x]
  BY <1>1, <1>5, TwoMuxers DEF Near
<1>9. H = Held(t)
  <2>1. Held(t) = Elems(t.held[m]) \cup Elems(t.held[Sibling(m)])
    BY <1>1, TwoMuxers
  <2>2. Held(t) = Elems(<<>>) \cup H
    BY <1>5, <1>8, <2>1
  <2>. QED BY <2>2, NoElems
<1>10. HeldRising(t)
  BY <1>5, <1>8, NoElems DEF HeldRising, Lined
<1>. QED BY <1>2, <1>6, <1>7, <1>9, <1>10, NothingInHand DEF t

\* A block is made: it comes after those there are.
LEMMA BlockCounted ==
  ASSUME NEW s \in MuxSpace, NEW b \in BlockSpace, b.n = Len(s.made) + 1, Counted(s)
  PROVE  LET v == Made(s, b) IN
         /\ v \in MuxSpace /\ Counted(v) /\ Elems(v.made) = Elems(s.made) \cup {b}
         /\ AllBefore(Elems(s.made), {b})
         /\ v.plan = s.plan /\ v.held = s.held /\ v.delayed = s.delayed
<1>. DEFINE v == Made(s, b)
            q == Append(s.made, b)
<1>1. s.made \in Seq(BlockSpace)
  BY DEF MuxSpace
<1>2. /\ q \in Seq(BlockSpace) /\ Len(q) = Len(s.made) + 1 /\ Len(s.made) \in Nat
      /\ \A i \in 1..Len(s.made) + 1 : q[i] = IF i = Len(s.made) + 1 THEN b ELSE s.made[i]
  BY <1>1, OneBlock
<1>. HIDE DEF q
<1>3. Elems(q) = Elems(s.made) \cup {b}
  <2>1. q[Len(s.made) + 1] = b /\ \A i \in 1..Len(s.made) : q[i] = s.made[i]
    BY <1>2
  <2>2. 1..Len(q) = (1..Len(s.made)) \cup {Len(s.made) + 1}
    BY <1>2
  <2>. QED BY <2>1, <2>2 DEF Elems
<1>4. v \in MuxSpace /\ v.made = q /\ v.plan = s.plan /\ v.held = s.held /\ v.delayed = s.delayed
  <2>1. v = [s EXCEPT !.made = q]
    BY DEF Made, q
  <2>. HIDE DEF v
  <2>. QED BY <1>2, <2>1 DEF MuxSpace
<1>. HIDE DEF v
<1>5. Counted(v)
  <2>. SUFFICES ASSUME NEW i \in 1..Len(q) PROVE q[i].n = i
    BY <1>4 DEF Counted
  <2>1. CASE i = Len(s.made) + 1
    BY <1>2, <2>1
  <2>2. CASE i # Len(s.made) + 1
    <3>1. i \in 1..Len(s.made) /\ q[i] = s.made[i]
      BY <1>2, <2>2
    <3>. QED BY <3>1 DEF Counted
  <2>. QED BY <2>1, <2>2
<1>6. AllBefore(Elems(s.made), {b})
  <2>. SUFFICES ASSUME NEW i \in 1..Len(s.made) PROVE s.made[i].n < b.n
    BY DEF AllBefore, Before, Elems
  <2>1. s.made[i].n = i
    BY DEF Counted
  <2>. QED BY <1>2, <2>1
<1>. QED BY <1>3, <1>4, <1>5, <1>6 DEF v

LEMMA BlockMade ==
  ASSUME NEW s, Sound(s), NEW m \in Muxers, Counted(s)
  PROVE  LET b == NextBlock(s, m)
             v == Made(s, b)
         IN /\ b \in BlockSpace /\ b.mux = m /\ Counted(v) /\ Elems(v.made) = Elems(s.made) \cup {b}
            /\ AllBefore(Elems(s.made), {b})
            /\ v.plan = s.plan /\ v.held = s.held /\ v.delayed = s.delayed
<1>. DEFINE b == NextBlock(s, m)
<1>1. b \in BlockSpace /\ b.mux = m /\ b.n = Len(s.made) + 1 /\ s \in MuxSpace
  BY NextBlockFits, SoundTypes DEF NextBlock
<1>. HIDE DEF b
<1>2. /\ Counted(Made(s, b)) /\ Elems(Made(s, b).made) = Elems(s.made) \cup {b}
      /\ AllBefore(Elems(s.made), {b})
      /\ Made(s, b).plan = s.plan /\ Made(s, b).held = s.held /\ Made(s, b).delayed = s.delayed
  BY <1>1, BlockCounted
<1>. QED BY <1>1, <1>2 DEF b

LEMMA MadeInHand ==
  ASSUME NEW s, Sound(s), NEW m \in Muxers, NEW G, Lined(s, G), s.held[m] = <<>>
  PROVE  LET b == NextBlock(s, m)
             v == Made(s, b)
         IN InHand(v, G, <<b>>, Held(s)) /\ v.held = s.held
<1>. DEFINE b == NextBlock(s, m)
            v == Made(s, b)
            M == Elems(s.made)
            P == Planned(s.plan)
            D == Elems(s.delayed)
            H == Held(s)
<1>1. /\ b \in BlockSpace /\ b.mux = m /\ Counted(v) /\ Elems(v.made) = M \cup {b}
      /\ AllBefore(M, {b})
      /\ v.plan = s.plan /\ v.held = s.held /\ v.delayed = s.delayed
  BY BlockMade DEF Lined
<1>. HIDE DEF b, v
<1>2. AllBefore({b}, H)
  <2>1. H = Elems(s.held[Sibling(m)])
    <3>1. H = Elems(s.held[m]) \cup Elems(s.held[Sibling(m)])
      BY TwoMuxers
    <3>2. H = Elems(<<>>) \cup Elems(s.held[Sibling(m)])
      BY <3>1
    <3>. QED BY <3>2, NoElems
  <2>2. KeptFor(s, Sibling(m), s.held[Sibling(m)]) /\ Sibling(m) # m
    BY TwoMuxers DEF Sound, Steady, Kept
  <2>3. \A c \in H : c.mux = Sibling(m)
    BY <2>1, <2>2, KeptElems
  <2>. QED BY <1>1, <2>2, <2>3 DEF AllBefore, Before
<1>3. /\ M = G \cup P \cup D \cup {} \cup H
      /\ AllBefore(G, P) /\ AllBefore(G, D) /\ AllBefore(G, H)
      /\ AllBefore(P, D) /\ AllBefore(P, H) /\ AllBefore(D, H) /\ PlanRising(s.plan)
  BY DEF Lined, Chain
<1>. HIDE DEF M, P, D, H
<1>4. M \cup {b} = G \cup P \cup D \cup {b} \cup H
  BY <1>3
<1>5. AllBefore(G, {b}) /\ AllBefore(P, {b}) /\ AllBefore(D, {b})
  BY <1>1, <1>3 DEF AllBefore
<1>6. Chain(M \cup {b}, G, s.plan, D, {b}, H)
  BY <1>2, <1>3, <1>4, <1>5 DEF Chain, P
<1>7. Elems(<<b>>) = {b} /\ Rising(<<b>>)
  BY OneElem
<1>8. InHand(v, G, <<b>>, H)
  BY <1>1, <1>6, <1>7 DEF InHand, Lined, D
<1>. QED BY <1>1, <1>8 DEF v, b, H

\* A block is made and handed over, or held back.
LEMMA MadeAndWritten ==
  ASSUME NEW s, Sound(s), NEW m \in Active, mode \in Modes, NEW G, Lined(s, G),
         s.held[m] = <<>>, NEW b, b = NextBlock(s, m),
         NEW v, Sound(v), Alike(v, s), v.round = s.round, v.held = s.held,
         InHand(v, G, <<b>>, Held(s))
  PROVE  LET u == WriteBuffers(v, m, <<b>>) IN Lined(u, G) /\ u.made = v.made /\ u.held = s.held
<1>. DEFINE u == WriteBuffers(v, m, <<b>>)
<1>1. m \in Muxers
  BY ModeFacts
<1>2. <<b>> \in Seq(BlockSpace) /\ KeptFor(v, m, <<b>>)
  <2>1. /\ b \in BlockSpace /\ b.file = s.muxFile[m] /\ b.mux = m /\ b.round = s.round
    BY <1>1, NextBlockFits
  <2>2. b.file = v.muxFile[m] /\ b.round = v.round
    BY <2>1 DEF Alike
  <2>. QED BY <2>1, <2>2 DEF KeptFor
<1>3. Sound(u) /\ u.held = v.held
  BY <1>2, WriteBuffersSound
<1>4. InHand(u, G, <<>>, Held(s)) /\ u.made = v.made
  BY <1>2, BuffersInLine
<1>. HIDE DEF u
<1>5. Held(u) = Held(s) /\ HeldRising(u)
  BY <1>3 DEF Held, HeldRising, Lined
<1>6. Lined(u, G)
  BY <1>4, <1>5, NothingInHand
<1>. QED BY <1>3, <1>4, <1>6 DEF u

LEMMA WriteOutInLine ==
  ASSUME NEW s, Sound(s), NEW m \in Active, mode \in Modes, NEW timed, NEW G, Lined(s, G)
  PROVE  Lined(WriteOutBuffer(s, m, timed), G)
<1>. DEFINE b == NextBlock(s, m)
            v == Made(s, b)
            u == [v EXCEPT !.size[m] = @ + 1]
            c == Append(s.held[m], b)
            M == Elems(s.made)
            P == Planned(s.plan)
            D == Elems(s.delayed)
            H == Held(s)
            K == Elems(s.held[m])
            L == Elems(s.held[Sibling(m)])
<1>1. m \in Muxers /\ s.held[m] \in Seq(BlockSpace)
  BY ModeFacts, SoundTypes
<1>2. /\ b \in BlockSpace /\ b.mux = m /\ Counted(v) /\ Elems(v.made) = M \cup {b}
      /\ AllBefore(M, {b})
      /\ v.plan = s.plan /\ v.held = s.held /\ v.delayed = s.delayed
  BY <1>1, BlockMade DEF Lined
<1>3. s.held[m] = <<>> => InHand(v, G, <<b>>, H)
  BY <1>1, MadeInHand
<1>4. Sound(v) /\ Alike(v, s) /\ v.round = s.round /\ v.rest = s.rest
  BY <1>2, MadeSound
<1>5. WriteOutBuffer(s, m, timed) =
        IF mode.m2ts /\ ~(timed /\ s.held[m] = <<>>)
        THEN [u EXCEPT !.held[m] = Append(@, b)]
        ELSE WriteBuffers(u, m, <<b>>)
  BY DEF WriteOutBuffer
<1>6. b = NextBlock(s, m)
  OBVIOUS
<1>. HIDE DEF b, v
<1>7. /\ u \in MuxSpace /\ Alike(u, v) /\ u.plan = v.plan /\ u.made = v.made
      /\ u.rest = v.rest /\ u.round = v.round /\ u.held = v.held /\ u.delayed = v.delayed
      /\ u.asserts = v.asserts
  <2>. DEFINE z == [v.size EXCEPT ![m] = @ + 1]
  <2>1. v \in MuxSpace
    BY <1>4, SoundTypes
  <2>2. z \in [Muxers -> Nat]
    <3>1. v.size \in [Muxers -> Nat]
      BY <2>1 DEF MuxSpace
    <3>. QED BY <1>1, <3>1
  <2>3. u = [v EXCEPT !.size = z]
    OBVIOUS
  <2>. HIDE DEF z, u
  <2>. QED BY <2>1, <2>2, <2>3 DEF MuxSpace, Alike
<1>. HIDE DEF u
<1>8. Sound(u)
  BY <1>4, <1>7, SoundFrame
<1>9. CASE mode.m2ts /\ ~(timed /\ s.held[m] = <<>>)
  <2>. DEFINE h == [u.held EXCEPT ![m] = Append(@, b)]
              t == [u EXCEPT !.held = h]
  <2>1. WriteOutBuffer(s, m, timed) = t
    BY <1>5, <1>9
  <2>2. u.held \in [Muxers -> Seq(BlockSpace)] /\ u.held = s.held
    BY <1>2, <1>7 DEF MuxSpace
  <2>3. h[m] = c /\ \A x \in Muxers : x # m => h[x] = s.held[x]
    BY <1>1, <2>2
  <2>. HIDE DEF h
  <2>4. t.held = h /\ t.plan = s.plan /\ t.delayed = s.delayed /\ t.made = v.made
    BY <1>2, <1>7 DEF MuxSpace
  <2>. HIDE DEF t
  <2>5. /\ M = G \cup P \cup D \cup {} \cup H
        /\ AllBefore(G, P) /\ AllBefore(G, D) /\ AllBefore(G, H)
        /\ AllBefore(P, D) /\ AllBefore(P, H) /\ AllBefore(D, H) /\ PlanRising(s.plan)
    BY DEF Lined, Chain
  <2>6. H = K \cup L /\ Rising(s.held[m])
    BY <1>1, TwoMuxers DEF Lined, HeldRising
  <2>7. Elems(c) = K \cup {b} /\ (AllBefore(K, {b}) => Rising(c))
    <3>. DEFINE a == s.held[m]
                S == BlockSpace
    <3>1. a \in Seq(S) /\ b \in S
      BY <1>1, <1>2
    <3>2. Rising(a)
      BY <2>6
    <3>. HIDE DEF a, S
    <3>3. /\ Elems(Append(a, b)) = Elems(a) \cup {b}
          /\ Rising(a) /\ AllBefore(Elems(a), {b}) => Rising(Append(a, b))
      BY <3>1, AppendRising, ZenonT(30)
    <3>. QED BY <3>2, <3>3 DEF a
  <2>8. Held(t) = H \cup {b}
    <3>1. Held(t) = Elems(t.held[m]) \cup Elems(t.held[Sibling(m)])
      BY <1>1, TwoMuxers
    <3>2. t.held[m] = c /\ t.held[Sibling(m)] = s.held[Sibling(m)]
      BY <1>1, <2>3, <2>4, TwoMuxers
    <3>3. Held(t) = Elems(c) \cup L
      BY <3>1, <3>2
    <3>. HIDE DEF K, L, H, c
    <3>. QED BY <2>6, <2>7, <3>3
  <2>. HIDE DEF M, P, D, H, K, c
  <2>9. AllBefore(G, {b}) /\ AllBefore(P, {b}) /\ AllBefore(D, {b}) /\ AllBefore(K, {b})
    BY <1>2, <2>5, <2>6 DEF AllBefore
  <2>10. AllBefore(G, H \cup {b}) /\ AllBefore(P, H \cup {b}) /\ AllBefore(D, H \cup {b})
    BY <2>5, <2>9 DEF AllBefore
  <2>11. M \cup {b} = G \cup P \cup D \cup {} \cup (H \cup {b})
    BY <2>5
  <2>12. \A S : AllBefore({}, S) /\ AllBefore(S, {})
    BY NoElems
  <2>13. Chain(M \cup {b}, G, s.plan, D, {}, H \cup {b})
    BY <2>5, <2>10, <2>11, <2>12 DEF Chain, P
  <2>14. HeldRising(t)
    BY <1>1, <1>9, <2>3, <2>4, <2>7, <2>9 DEF HeldRising, Lined
  <2>15. Counted(t) /\ Elems(t.made) = M \cup {b}
    BY <1>2, <2>4 DEF Counted, M
  <2>16. Lined(t, G)
    BY <2>4, <2>8, <2>13, <2>14, <2>15 DEF Lined, D
  <2>. QED BY <2>1, <2>16
<1>10. CASE ~(mode.m2ts /\ ~(timed /\ s.held[m] = <<>>))
  <2>1. s.held[m] = <<>>
    BY <1>1, <1>10 DEF Lined, HeldRising
  <2>2. InHand(u, G, <<b>>, Held(s))
    BY <1>3, <1>7, <2>1, InHandFrame DEF H
  <2>3. Alike(u, s) /\ u.round = s.round /\ u.held = s.held
    BY <1>2, <1>4, <1>7 DEF Alike
  <2>4. Lined(WriteBuffers(u, m, <<b>>), G)
    BY <1>6, <1>8, <2>1, <2>2, <2>3, MadeAndWritten
  <2>. QED BY <1>5, <1>10, <2>4
<1>. QED BY <1>9, <1>10

LEMMA DoFlushInLine ==
  ASSUME NEW s, Sound(s), NEW m \in Active, mode \in Modes, NEW part \in BOOLEAN,
         NEW G, Lined(s, G)
  PROVE  Lined(DoFlush(s, m, part), G)
<1>. DEFINE p == ProcessM2TSPCR(s, m)
            b == NextBlock(p, m)
            v == Made(p, b)
            u == WriteBuffers(v, m, <<b>>)
            left == part /\ ~mode.m2ts
            kept == ~mode.async \/ left
            t == [u EXCEPT !.rest[m] = left, !.buffer[m] = kept]
<1>1. m \in Muxers
  BY ModeFacts
<1>2. DoFlush(s, m, part) = t
  BY DEF DoFlush
<1>3. Sound(p) /\ p.held[m] = <<>> /\ Lined(p, G)
  BY ProcessSound, ProcessInLine
<1>. HIDE DEF p, left, kept
<1>4. b \in BlockSpace
  BY <1>1, <1>3, NextBlockFits
<1>5. InHand(v, G, <<b>>, Held(p)) /\ v.held = p.held
  BY <1>1, <1>3, MadeInHand
<1>6. b = NextBlock(p, m)
  OBVIOUS
<1>. HIDE DEF b
<1>7. Sound(v) /\ Alike(v, p) /\ v.round = p.round
  BY <1>3, <1>4, MadeSound
<1>. HIDE DEF v
<1>8. Lined(u, G) /\ u.held = p.held
  BY <1>3, <1>5, <1>6, <1>7, MadeAndWritten
<1>9. u \in MuxSpace
  <2>1. <<b>> \in Seq(BlockSpace) /\ KeptFor(v, m, <<b>>)
    <3>1. b.file = p.muxFile[m] /\ b.mux = m /\ b.round = p.round
      BY <1>1, <1>3, <1>6, NextBlockFits
    <3>2. b.file = v.muxFile[m] /\ b.round = v.round
      BY <1>7, <3>1 DEF Alike
    <3>. QED BY <1>4, <3>1, <3>2 DEF KeptFor
  <2>2. Sound(u)
    BY <1>7, <2>1, WriteBuffersSound
  <2>. QED BY <2>2, SoundTypes
<1>. HIDE DEF u
<1>10. t.made = u.made /\ t.plan = u.plan /\ t.held = u.held /\ t.delayed = u.delayed
  <2>. DEFINE r == [u.rest EXCEPT ![m] = left]
              c == [u.buffer EXCEPT ![m] = kept]
  <2>1. t = [u EXCEPT !.rest = r, !.buffer = c]
    OBVIOUS
  <2>. HIDE DEF r, c, t
  <2>. QED BY <1>9, <2>1 DEF MuxSpace
<1>. HIDE DEF t
<1>11. Lined(t, G)
  BY <1>8, <1>10, LinedFrame
<1>. QED BY <1>2, <1>11

\* Operations on the files do not change what is written.
LEMMA QuietInLine ==
  ASSUME NEW s, s \in MuxSpace, NEW ops \in Seq(OpSpace), NoWrites(ops), NEW G, Lined(s, G)
  PROVE  LET t == Do(s, ops) IN
         /\ Lined(t, G) /\ t.made = s.made /\ t.held = s.held /\ t.delayed = s.delayed
<1>. DEFINE q == s.plan \o ops
            t == Do(s, ops)
<1>1. s.plan \in Seq(OpSpace)
  BY DEF MuxSpace
<1>2. q \in Seq(OpSpace)
  BY <1>1, Joining
<1>3. t.plan = q /\ t.made = s.made /\ t.held = s.held /\ t.delayed = s.delayed
  BY <1>2, PlanFields
<1>4. Chain(Elems(s.made), G, q, Elems(s.delayed), {}, Held(s))
  BY <1>1, ChainGoesOn DEF Lined
<1>5. Direct(Drained, q)
  BY <1>1, PlanGoesOn DEF Lined
<1>. HIDE DEF t, q
<1>6. Lined(t, G)
  BY <1>3, <1>4, <1>5 DEF Lined, Counted, HeldRising, Held
<1>. QED BY <1>3, <1>6 DEF t

LEMMA OneQuietOp ==
  ASSUME NEW x \in OpSpace, ~Writes(x), x.op # "destroy"
  PROVE  <<x>> \in Seq(OpSpace) /\ NoWrites(<<x>>)
<1>. DEFINE q == <<x>>
<1>1. q \in Seq(OpSpace) /\ Len(q) = 1 /\ q[1] = x
  OBVIOUS
<1>. HIDE DEF q
<1>2. NoWrites(q)
  BY <1>1 DEF NoWrites
<1>. QED BY <1>1, <1>2 DEF q

LEMMA TwoQuietOps ==
  ASSUME NEW x \in OpSpace, NEW y \in OpSpace, ~Writes(x), ~Writes(y),
         x.op # "destroy", y.op # "destroy"
  PROVE  <<x, y>> \in Seq(OpSpace) /\ NoWrites(<<x, y>>)
<1>. DEFINE q == <<x, y>>
<1>1. q \in Seq(OpSpace) /\ Len(q) = 2 /\ q[1] = x /\ q[2] = y
  OBVIOUS
<1>. HIDE DEF q
<1>2. NoWrites(q)
  BY <1>1 DEF NoWrites
<1>. QED BY <1>1, <1>2 DEF q

LEMMA WaitInLine ==
  ASSUME NEW s, Sound(s), NEW G, Lined(s, G)
  PROVE  LET t == WaitForWriting(s) IN Lined(t, G) /\ t.made = s.made
<1>1. CASE mode.async
  <2>. DEFINE x == Op("wait", 0)
  <2>1. x \in OpSpace /\ x.op = "wait"
    BY DEF Op, OpSpace
  <2>. HIDE DEF x
  <2>2. <<x>> \in Seq(OpSpace) /\ NoWrites(<<x>>)
    BY <2>1, OneQuietOp DEF Writes
  <2>3. Lined(Do(s, <<x>>), G) /\ Do(s, <<x>>).made = s.made
    BY <2>2, QuietInLine, SoundTypes
  <2>4. WaitForWriting(s) = Do(s, <<x>>)
    BY <1>1 DEF WaitForWriting, x
  <2>. QED BY <2>3, <2>4
<1>2. CASE ~mode.async
  BY <1>2 DEF WaitForWriting
<1>. QED BY <1>1, <1>2

\* The part of a sector that is left over comes after the rest.
LEMMA WriteRestInLine ==
  ASSUME NEW s, Sound(s), NEW m \in Active, mode \in Modes, NEW G, Lined(s, G),
         Waited(Drained, s.plan, Len(s.plan))
  PROVE  Lined(WriteRest(s, m), G)
<1>. DEFINE b == NextBlock(s, m)
            v == Made(s, b)
            u == Do(v, <<Op("append", b)>>)
            t == [u EXCEPT !.rest[m] = FALSE]
<1>1. m \in Muxers /\ s \in MuxSpace
  BY ModeFacts, SoundTypes
<1>2. s.rest[m] \in BOOLEAN
  <2>1. s.rest \in [Muxers -> BOOLEAN]
    BY <1>1 DEF MuxSpace
  <2>. QED BY <1>1, <2>1
<1>3. CASE ~s.rest[m]
  BY <1>3 DEF WriteRest
<1>4. CASE s.rest[m]
  <2>1. ~mode.m2ts /\ ~mode.interleave
    BY <1>1, <1>4, ModeFacts DEF Sound
  <2>2. s.held[m] = <<>> /\ s.delayed = <<>> /\ \A x \in Muxers : s.held[x] = <<>>
    BY <1>1, <2>1 DEF Lined, HeldRising, Sound, Steady, Kept
  <2>3. /\ b \in BlockSpace /\ b.mux = m /\ Counted(v)
        /\ v.plan = s.plan /\ v.held = s.held /\ v.delayed = s.delayed
    BY <1>1, BlockMade DEF Lined
  <2>4. InHand(v, G, <<b>>, Held(s))
    BY <1>1, <2>2, MadeInHand
  <2>5. u = Do(v, Each("append", <<b>>))
    BY <2>3, EachOfOne
  <2>6. WriteRest(s, m) = t
    BY <1>4 DEF WriteRest
  <2>7. Sound(v)
    BY <2>3, MadeSound
  <2>. HIDE DEF b, v, u
  <2>8. v \in MuxSpace /\ <<b>> \in Seq(BlockSpace)
    <3>1. v \in MuxSpace
      BY <2>7, SoundTypes
    <3>2. <<b>> \in Seq(BlockSpace)
      BY <2>3
    <3>. QED BY <3>1, <3>2
  <2>9. /\ InHand(u, G, <<>>, Held(s)) /\ u.held = v.held
    <3>1. AllBefore(Elems(<<b>>), Elems(v.delayed))
      BY <2>2, <2>3, NoElems
    <3>2. Waited(Drained, v.plan, Len(v.plan))
      BY <2>3
    <3>. DEFINE z == Do(v, Each("append", <<b>>))
    <3>3. InHand(z, G, <<>>, Held(s)) /\ z.held = v.held
      BY <2>4, <2>8, <3>1, <3>2, WritesInLine
    <3>. QED BY <2>5, <3>3
  <2>10. u \in MuxSpace
    <3>1. Each("append", <<b>>) \in Seq(OpSpace)
      BY <2>8, EachOps
    <3>2. v.plan \o Each("append", <<b>>) \in Seq(OpSpace)
      <4>1. v.plan \in Seq(OpSpace)
        BY <2>8 DEF MuxSpace
      <4>. QED BY <3>1, <4>1, Joining
    <3>. QED BY <2>5, <2>8, <3>2, PlanFields
  <2>11. t.made = u.made /\ t.plan = u.plan /\ t.held = u.held /\ t.delayed = u.delayed
    <3>. DEFINE r == [u.rest EXCEPT ![m] = FALSE]
    <3>1. t = [u EXCEPT !.rest = r]
      OBVIOUS
    <3>. HIDE DEF r, t
    <3>. QED BY <2>10, <3>1 DEF MuxSpace
  <2>. HIDE DEF t
  <2>12. Held(u) = Held(s) /\ HeldRising(u)
    BY <2>3, <2>9 DEF Held, HeldRising, Lined
  <2>13. Lined(u, G)
    BY <2>9, <2>12, NothingInHand
  <2>. QED BY <2>6, <2>11, <2>13, LinedFrame
<1>. QED BY <1>2, <1>3, <1>4

\* A wait stays behind the writes while none is added.
LEMMA WaitedGoesOn ==
  ASSUME NEW d, NEW p \in Seq(OpSpace), NEW ops \in Seq(OpSpace), NoWrites(ops),
         Waited(d, p, Len(p))
  PROVE  Waited(d, p \o ops, Len(p \o ops))
<1>. DEFINE q == p \o ops
            l == Len(p)
<1>1. /\ Len(q) = l + Len(ops) /\ l \in Nat /\ Len(ops) \in Nat
      /\ \A n \in 1..l : q[n] = p[n]
      /\ \A n \in 1..l + Len(ops) : n > l => n - l \in 1..Len(ops) /\ q[n] = ops[n - l]
  BY Joining
<1>. HIDE DEF q
<1>2. Waited(d, q, l)
  BY <1>1, SamePart
<1>3. \A j \in (l + 1)..Len(q) : q[j].op # "write"
  <2>. SUFFICES ASSUME NEW j \in (l + 1)..Len(q) PROVE q[j].op # "write"
    OBVIOUS
  <2>1. j - l \in 1..Len(ops) /\ q[j] = ops[j - l]
    BY <1>1
  <2>. QED BY <2>1 DEF NoWrites, Writes
<1>4. Len(q) \in Nat /\ l <= Len(q)
  BY <1>1
<1>5. Waited(d, q, Len(q))
  BY <1>1, <1>2, <1>3, <1>4, LongerPart
<1>. QED BY <1>5 DEF q

LEMMA FlushInLine ==
  ASSUME NEW s, Sound(s), NEW m \in Active, mode \in Modes, NEW G, Lined(s, G)
  PROVE  Lined(FlushTSBuffer(s, m), G)
<1>. DEFINE w == WaitForWriting(s)
            o == w.muxFile[m]
            ops == <<Op("close", o), Op("reopen", o)>>
            u == Do(w, ops)
            t == WriteRest(u, m)
<1>1. /\ Sound(w) /\ Still(w, s) /\ w.held = s.held /\ w.delayed = s.delayed
      /\ Waited(Drained, w.plan, Len(w.plan))
  BY WaitSound
<1>2. FlushTSBuffer(s, m) = t
  BY <1>1 DEF FlushTSBuffer, Still, Alike
<1>3. Lined(w, G)
  BY WaitInLine
<1>. HIDE DEF w
<1>4. w \in MuxSpace /\ w.plan \in Seq(OpSpace) /\ o \in Objects
  <2>1. w \in MuxSpace /\ w.plan \in Seq(OpSpace) /\ \A x \in Muxers : w.muxFile[x] \in Objects
    BY <1>1, SoundTypes
  <2>. QED BY <2>1, ModeFacts
<1>5. GoodPlan(file, Drained, w.plan, w) /\ KnownAfter(file, w.plan, Len(w.plan), o)
  BY <1>1 DEF Sound, GoodPlan, HasFile
<1>. HIDE DEF o
<1>6. ops \in Seq(OpSpace) /\ NoWrites(ops)
  <2>1. /\ Op("close", o) \in OpSpace /\ Op("close", o).op = "close"
        /\ Op("reopen", o) \in OpSpace /\ Op("reopen", o).op = "reopen"
    BY <1>4 DEF Op, OpSpace
  <2>. QED BY <2>1, TwoQuietOps DEF Writes
<1>7. /\ GoodPlan(file, Drained, w.plan \o ops, w) /\ w.plan \o ops \in Seq(OpSpace)
      /\ \A n \in 1..Len(w.plan \o ops) :
           \/ n \in 1..Len(w.plan) /\ (w.plan \o ops)[n] = w.plan[n]
           \/ (w.plan \o ops)[n].op # "write"
  BY <1>1, <1>4, <1>5, CloseReopen
<1>8. Waited(Drained, w.plan \o ops, Len(w.plan \o ops))
  BY <1>1, <1>4, <1>6, WaitedGoesOn
<1>. HIDE DEF ops
<1>9. Lined(u, G)
  BY <1>3, <1>4, <1>6, QuietInLine
<1>10. /\ u \in MuxSpace /\ u.plan = w.plan \o ops /\ Still(u, w)
       /\ u.held = w.held /\ u.delayed = w.delayed /\ u.asserts = w.asserts
  BY <1>4, <1>7, PlanFields
<1>. HIDE DEF u
<1>11. Sound(u)
  <2>. DEFINE q == w.plan \o ops
  <2>1. /\ GoodPlan(file, Drained, q, w) /\ q \in Seq(OpSpace) /\ u.plan = q
        /\ \A n \in 1..Len(q) : (n \in 1..Len(w.plan) /\ q[n] = w.plan[n]) \/ q[n].op # "write"
    BY <1>7, <1>10
  <2>. HIDE DEF q
  <2>2. ASSUME mode.interleave PROVE RankedPlan(q, 2 * mux.round, 2 * w.round)
    <3>1. RankedPlan(w.plan, 2 * mux.round, 2 * w.round)
      BY <1>1, <2>2 DEF Sound
    <3>. QED BY <1>4, <2>1, <3>1, RankedMore
  <2>3. mode.interleave => RankedPlan(u.plan, 2 * mux.round, 2 * u.round)
    BY <1>10, <2>1, <2>2 DEF Still
  <2>. QED BY <1>1, <1>10, <2>1, <2>3, PlanFrame DEF Still
<1>12. Waited(Drained, u.plan, Len(u.plan))
  BY <1>8, <1>10
<1>13. Lined(t, G)
  BY <1>9, <1>11, <1>12, WriteRestInLine
<1>. QED BY <1>2, <1>13

LEMMA NextFileInLine ==
  ASSUME NEW s, Sound(s), NEW m \in Active, mode \in Modes, mode.split, ~mode.joined,
         ~s.rest[m], s.objects + 1 \in Objects, NEW G, Lined(s, G)
  PROVE  Lined(GotoNextFile(s, m), G)
<1>. DEFINE w == WaitForWriting(s)
            x == Op("close", w.muxFile[m])
            c == Do(w, <<x>>)
            n == NextName(c, m)
            y == Op("open", [obj |-> n.objects + 1, mux |-> m, name |-> n.name[m]])
            d2 == Do(n, <<y>>)
            t == [d2 EXCEPT !.muxFile[m] = n.objects + 1, !.objects = n.objects + 1]
<1>1. Sound(w) /\ Still(w, s)
  BY WaitSound
<1>2. GotoNextFile(s, m) = OpenDstFile(n, m)
  <2>1. Expect(c, "next file", ~s.rest[m]) = c
    BY DEF Expect
  <2>2. x = Op("close", s.muxFile[m])
    BY <1>1 DEF Still, Alike
  <2>. QED BY <2>1, <2>2 DEF GotoNextFile
<1>3. Lined(w, G)
  BY WaitInLine
<1>. HIDE DEF w
<1>4. m \in Muxers /\ w \in MuxSpace /\ w.muxFile[m] \in Objects /\ w.objects = s.objects
  <2>1. m \in Muxers /\ w \in MuxSpace
    BY <1>1, ModeFacts, SoundTypes
  <2>2. w.muxFile[m] \in Objects
    BY <1>1, <2>1, SoundTypes
  <2>. QED BY <1>1, <2>1, <2>2 DEF Still, Alike
<1>5. x \in OpSpace /\ ~Writes(x) /\ x.op # "destroy"
  BY <1>4 DEF Op, OpSpace, Writes
<1>. HIDE DEF x
<1>6. <<x>> \in Seq(OpSpace) /\ NoWrites(<<x>>)
  BY <1>5, OneQuietOp
<1>7. Lined(c, G)
  BY <1>3, <1>4, <1>6, QuietInLine
<1>8. c \in MuxSpace /\ Still(c, w)
  <2>1. w.plan \o <<x>> \in Seq(OpSpace)
    <3>1. w.plan \in Seq(OpSpace)
      BY <1>4 DEF MuxSpace
    <3>. QED BY <1>6, <3>1, Joining
  <2>. QED BY <1>4, <2>1, PlanFields
<1>. HIDE DEF c
<1>9. Numbered(c)
  BY <1>1, <1>8 DEF Still, Alike, Sound, Steady, Numbered
<1>10. n \in MuxSpace /\ SameButName(n, c, m)
  BY <1>4, <1>8, <1>9, NextNameRises
<1>. HIDE DEF n
<1>11. Lined(n, G)
  BY <1>7, <1>10, LinedFrame DEF SameButName
<1>12. n.objects + 1 \in Objects /\ n.name[m] \in Nat
  BY <1>4, <1>8, <1>10 DEF Still, Alike, SameButName, MuxSpace
<1>13. y \in OpSpace /\ ~Writes(y) /\ y.op # "destroy"
  BY <1>4, <1>12 DEF Op, OpSpace, Writes
<1>14. OpenDstFile(n, m) = t
  <2>1. [Do(n, <<y>>) EXCEPT !.muxFile[m] = n.objects + 1, !.objects = @ + 1] = t
    <3>1. d2.objects = n.objects
      BY <1>10 DEF Do, MuxSpace
    <3>. QED BY <3>1
  <2>. QED BY <2>1 DEF OpenDstFile
<1>. HIDE DEF y
<1>15. <<y>> \in Seq(OpSpace) /\ NoWrites(<<y>>)
  BY <1>13, OneQuietOp
<1>16. Lined(d2, G)
  BY <1>10, <1>11, <1>15, QuietInLine
<1>17. d2 \in MuxSpace
  <2>1. n.plan \o <<y>> \in Seq(OpSpace)
    <3>1. n.plan \in Seq(OpSpace)
      BY <1>10 DEF MuxSpace
    <3>. QED BY <1>15, <3>1, Joining
  <2>. QED BY <1>10, <2>1, PlanFields
<1>. HIDE DEF d2
<1>18. t.made = d2.made /\ t.plan = d2.plan /\ t.held = d2.held /\ t.delayed = d2.delayed
  <2>. DEFINE r == [d2.muxFile EXCEPT ![m] = n.objects + 1]
  <2>1. t = [d2 EXCEPT !.muxFile = r, !.objects = n.objects + 1]
    OBVIOUS
  <2>. HIDE DEF r, t
  <2>. QED BY <1>17, <2>1 DEF MuxSpace
<1>. HIDE DEF t
<1>19. Lined(t, G)
  BY <1>16, <1>18, LinedFrame
<1>. QED BY <1>2, <1>14, <1>19

LEMMA PCRInLine ==
  ASSUME NEW s, Sound(s), NEW m \in Active, mode \in Modes, NEW G, Lined(s, G)
  PROVE  Lined(WritePCR(s, m), G)
<1>. DEFINE u == ProcessM2TSPCR(s, m)
            t == [u EXCEPT !.started[m] = TRUE]
<1>1. Lined(u, G) /\ Sound(u)
  BY ProcessInLine, ProcessSound
<1>2. WritePCR(s, m) = t
  BY DEF WritePCR
<1>. HIDE DEF u
<1>3. t.made = u.made /\ t.plan = u.plan /\ t.held = u.held /\ t.delayed = u.delayed
  <2>. DEFINE r == [u.started EXCEPT ![m] = TRUE]
  <2>1. t = [u EXCEPT !.started = r] /\ u \in MuxSpace
    BY <1>1, SoundTypes
  <2>. HIDE DEF r, t
  <2>. QED BY <2>1 DEF MuxSpace
<1>. HIDE DEF t
<1>. QED BY <1>1, <1>2, <1>3, LinedFrame

\* What was held back is written before anything that is kept.
LEMMA BlockFinishedInLine ==
  ASSUME NEW s, Sound(s), NEW m \in Active, mode \in Modes, NEW G, Lined(s, G)
  PROVE  Lined(MuxBlockFinished(s, m), G)
<1>. DEFINE f == [s.finished EXCEPT ![m] = TRUE]
            t0 == [s EXCEPT !.finished = f]
            q == s.plan \o Each("write", s.delayed)
            none == [x \in Muxers |-> FALSE]
            t1 == [s EXCEPT !.plan = q, !.delayed = <<>>, !.finished = none,
                            !.round = s.round + 1]
            t == MuxBlockFinished(s, m)
<1>1. s \in MuxSpace /\ s.plan \in Seq(OpSpace) /\ s.delayed \in Seq(BlockSpace)
  BY SoundTypes
<1>2. t0 = [s EXCEPT !.finished[m] = TRUE]
  BY <1>1 DEF MuxSpace
<1>3. t = t0 \/ t = t1
  <2>1. t0.plan = s.plan /\ t0.delayed = s.delayed /\ t0.round = s.round
    <3>. HIDE DEF f
    <3>. QED BY <1>1 DEF MuxSpace
  <2>2. Do(t0, Each("write", t0.delayed)) = [t0 EXCEPT !.plan = q]
    BY <2>1 DEF Do
  <2>3. \/ t = t0
        \/ t = [[t0 EXCEPT !.plan = q] EXCEPT !.delayed = <<>>, !.finished = none, !.round = @ + 1]
    BY <1>2, <2>2 DEF MuxBlockFinished
  <2>. HIDE DEF q, none, f, t
  <2>. QED BY <1>1, <2>3 DEF MuxSpace
<1>4. CASE t = t0
  <2>. HIDE DEF f, t
  <2>1. t.made = s.made /\ t.plan = s.plan /\ t.held = s.held /\ t.delayed = s.delayed
    BY <1>1, <1>4 DEF MuxSpace
  <2>. QED BY <2>1, LinedFrame DEF t
<1>5. CASE t = t1
  <2>1. q \in Seq(OpSpace) /\ Chain(Elems(s.made), G, q, {}, {}, Held(s)) /\ Direct(Drained, q)
    <3>. DEFINE M == Elems(s.made)
                P == Planned(s.plan)
                D == Elems(s.delayed)
                H == Held(s)
    <3>1. /\ M = G \cup P \cup D \cup {} \cup H
          /\ AllBefore(G, P) /\ AllBefore(G, D) /\ AllBefore(G, H)
          /\ AllBefore(P, D) /\ AllBefore(P, H) /\ AllBefore(D, H) /\ PlanRising(s.plan)
      BY DEF Lined, Chain
    <3>2. \A S : AllBefore({}, S) /\ AllBefore(S, {})
      BY NoElems
    <3>. HIDE DEF M, P, D, H
    <3>3. M = G \cup P \cup {} \cup D \cup H
      BY <3>1
    <3>4. Chain(M, G, s.plan, {}, D, H)
      BY <3>1, <3>2, <3>3 DEF Chain, P
    <3>5. AllBefore(D, {}) /\ Direct(Drained, s.plan) /\ Rising(s.delayed)
      BY <3>2 DEF Lined
    <3>6. LET r == s.plan \o Each("write", s.delayed) IN
          Chain(M, G, r, {}, {}, H) /\ Direct(Drained, r)
      BY <1>1, <3>4, <3>5, PlanTakes DEF D
    <3>7. Each("write", s.delayed) \in Seq(OpSpace)
      BY <1>1, EachOps
    <3>8. s.plan \o Each("write", s.delayed) \in Seq(OpSpace)
      BY <1>1, <3>7, Joining
    <3>. QED BY <3>6, <3>8 DEF M, H
  <2>. HIDE DEF q, none, t
  <2>2. t.made = s.made /\ t.plan = q /\ t.held = s.held /\ t.delayed = <<>>
    BY <1>1, <1>5 DEF MuxSpace
  <2>3. Elems(<<>>) = {} /\ Rising(<<>>)
    BY NoElems
  <2>4. Lined(t, G)
    BY <2>1, <2>2, <2>3 DEF Lined, Counted, HeldRising, Held
  <2>. QED BY <2>4 DEF t
<1>. QED BY <1>3, <1>4, <1>5

LEMMA EndedInLine ==
  ASSUME NEW s, Sound(s), NEW m \in Active, mode \in Modes, NEW G, Lined(s, G)
  PROVE  Lined(Ended(s, m), G)
<1>1. CASE mode.m2ts
  <2>. DEFINE t == Expect(s, "buffer handed over", ~s.buffer[m])
              a == s.asserts \cup {"buffer handed over"}
  <2>1. Ended(s, m) = t
    BY <1>1 DEF Ended
  <2>2. t = s \/ t = [s EXCEPT !.asserts = a]
    BY DEF Expect
  <2>3. s \in MuxSpace
    BY SoundTypes
  <2>. HIDE DEF t, a
  <2>4. t.made = s.made /\ t.plan = s.plan /\ t.held = s.held /\ t.delayed = s.delayed
    BY <2>2, <2>3 DEF MuxSpace
  <2>. QED BY <2>1, <2>4, LinedFrame
<1>2. CASE ~mode.m2ts
  BY <1>2, FlushInLine DEF Ended
<1>. QED BY <1>1, <1>2

\* A muxer ends its block.
LEMMA BlockEndInLine ==
  ASSUME NEW s, Ready(s), NEW m \in Active, mode \in Modes, NEW part \in BOOLEAN,
         s.finished[Sibling(m)] => s.held[Sibling(m)] = <<>>, NEW G, Lined(s, G)
  PROVE  Lined(BlockEnd(s, m, part), G)
<1>. DEFINE d == DoFlush(s, m, part)
            e == Flushed(s, m, part)
            f == MuxBlockFinished(e, m)
            t == Ended(f, m)
            u == Renewed(t, m)
<1>1. m \in Muxers /\ Sibling(m) \in Muxers /\ Sibling(m) # m /\ Muxers = {m, Sibling(m)}
  BY ModeFacts, TwoMuxers
<1>2. /\ Sound(d) /\ Near(d, s, m) /\ d.held[m] = <<>>
      /\ d.buffer[m] = (~mode.async \/ (part /\ ~mode.m2ts)) /\ Lined(d, G)
  BY DoFlushSound, DoFlushInLine DEF Ready
<1>3. e = [d EXCEPT !.size[m] = 0]
  BY DEF Flushed
<1>. HIDE DEF d
<1>4. Sound(e) /\ SameRecord(e, d) /\ e.buffer = d.buffer /\ e.made = d.made
  <2>1. Sound(e) /\ SameRecord(e, d) /\ e.buffer = d.buffer
    BY <1>1, <1>2, <1>3, ResizedSound
  <2>. DEFINE z == [d.size EXCEPT ![m] = 0]
  <2>2. e = [d EXCEPT !.size = z] /\ d \in MuxSpace
    BY <1>2, <1>3, SoundTypes
  <2>. HIDE DEF z, e
  <2>3. e.made = d.made
    BY <2>2 DEF MuxSpace
  <2>. QED BY <2>1, <2>3
<1>5. e.finished[Sibling(m)] => \A x \in Muxers : e.held[x] = <<>>
  BY <1>1, <1>2, <1>4 DEF Near, SameRecord
<1>. HIDE DEF e
<1>6. Lined(e, G)
  BY <1>2, <1>4, LinedFrame DEF SameRecord
<1>7. Sound(f) /\ Lined(f, G) /\ f.buffer = e.buffer /\ f.rest = e.rest
  BY <1>4, <1>5, <1>6, BlockFinishedSound, BlockFinishedInLine
<1>. HIDE DEF f
<1>8. \A x \in Muxers : x # m => ~f.rest[x]
  BY <1>2, <1>4, <1>7 DEF Near, SameRecord, Ready
<1>9. Sound(t) /\ Lined(t, G)
  <2>1. mode.async => (mode.m2ts => ~f.buffer[m])
    BY <1>2, <1>4, <1>7
  <2>. QED BY <1>7, <1>8, <2>1, EndedSound, EndedInLine
<1>. HIDE DEF t
<1>10. SameRecord(u, t) /\ u.made = t.made
  <2>1. SameRecord(u, t)
    BY <1>1, <1>9, RenewedSound
  <2>. DEFINE z == [t.buffer EXCEPT ![m] = TRUE]
  <2>2. u = [t EXCEPT !.buffer = z] /\ t \in MuxSpace
    BY <1>9, SoundTypes DEF Renewed
  <2>. HIDE DEF z, u
  <2>3. u.made = t.made
    BY <2>2 DEF MuxSpace
  <2>. QED BY <2>1, <2>3
<1>11. BlockEnd(s, m, part) = u
  BY DEF BlockEnd, e, f, t
<1>. HIDE DEF u
<1>12. Lined(u, G)
  BY <1>9, <1>10, LinedFrame DEF SameRecord
<1>. QED BY <1>11, <1>12

LEMMA OwnBlockInLine ==
  ASSUME NEW s, Ready(s), NEW m \in Active, mode \in Modes, NEW part \in BOOLEAN,
         NEW ch \in BOOLEAN, file \in FileSpace,
         s.finished[Sibling(m)] => s.held[Sibling(m)] = <<>>,
         ch => MayChange(s, m), NEW G, Lined(s, G)
  PROVE  Lined(FinishOwnBlock(s, m, ch, part), G)
<1>. DEFINE e == BlockEnd(s, m, part)
            u == IF s.started[m] THEN e ELSE s
            g == GotoNextFile(u, m)
            v == IF ch THEN g ELSE u
            t == WritePCR(v, m)
<1>1. FinishOwnBlock(s, m, ch, part) = t
  BY DEF FinishOwnBlock, BlockEnd, Renewed, Ended, Flushed
<1>2. m \in Muxers /\ Sibling(m) \in Muxers /\ Sibling(m) # m /\ (m = "main" => Sibling(m) = "sub")
  <2>1. m \in Muxers
    BY ModeFacts
  <2>. QED BY <2>1 DEF Sibling, Muxers
<1>3. s.started[m] \in BOOLEAN
  <2>1. s \in MuxSpace
    BY SoundTypes DEF Ready
  <2>2. s.started \in [Muxers -> BOOLEAN]
    BY <2>1 DEF MuxSpace
  <2>. QED BY <1>2, <2>2
<1>4. Lined(e, G) /\ (s.started[m] => EndsBlock(e, s, m))
  BY BlockWritten, BlockEndInLine
<1>. HIDE DEF e
<1>5. /\ Lined(u, G) /\ Ready(u) /\ Alike(u, s) /\ u.held[m] = <<>>
      /\ s.started[m] /\ s.finished[Sibling(m)] => u.delayed = <<>>
      /\ ~s.started[m] => u.delayed = s.delayed
  <2>1. CASE s.started[m]
    BY <1>4, <2>1 DEF EndsBlock
  <2>2. CASE ~s.started[m]
    <3>1. u = s
      BY <2>2
    <3>2. s.held[m] = <<>>
      BY <1>2, <2>2 DEF Ready, Fresh
    <3>. QED BY <2>2, <3>1, <3>2 DEF Alike
  <2>. QED BY <1>3, <2>1, <2>2
<1>. HIDE DEF u
<1>6. ch /\ m = "main" => u.delayed = <<>>
  <2>. SUFFICES ASSUME ch, m = "main" PROVE u.delayed = <<>>
    OBVIOUS
  <2>1. CASE ~mode.interleave
    BY <1>5, <2>1 DEF Ready, Sound, Steady, Kept
  <2>2. CASE mode.interleave /\ s.started[m]
    BY <1>2, <1>5, <2>2 DEF MayChange
  <2>3. CASE ~s.started[m]
    BY <1>5, <2>3 DEF Ready, Fresh
  <2>. QED BY <2>1, <2>2, <2>3
<1>7. ch => Ready(g) /\ Lined(g, G)
  <2>. SUFFICES ASSUME ch PROVE Ready(g) /\ Lined(g, G)
    OBVIOUS
  <2>1. mode.split /\ ~mode.joined /\ u.objects + 1 \in Objects
    BY <1>5 DEF MayChange, Alike
  <2>2. Ready(g)
    BY <1>5, <1>6, <2>1, ReadyNextFile
  <2>3. Sound(u) /\ ~u.rest[m]
    BY <1>2, <1>5 DEF Ready
  <2>4. Lined(g, G)
    BY <1>5, <2>1, <2>3, NextFileInLine
  <2>. QED BY <2>2, <2>4
<1>. HIDE DEF g
<1>8. Ready(v) /\ Lined(v, G)
  BY <1>5, <1>7
<1>. HIDE DEF v
<1>9. Lined(t, G)
  BY <1>8, PCRInLine DEF Ready
<1>. QED BY <1>1, <1>9

LEMMA FileBlockInLine ==
  ASSUME NEW s, Ready(s), NEW m, m = First, mode \in Modes, NEW part \in BOOLEAN,
         NEW ch \in BOOLEAN, file \in FileSpace, CleanSplits,
         s.started[m], ~s.finished[Second],
         ch => mode.split /\ s.objects + (IF mode.stereo THEN 2 ELSE 1) \in Objects,
         NEW G, Lined(s, G)
  PROVE  Lined(FinishFileBlock(s, m, ch, part), G)
<1>. DEFINE t == FinishOwnBlock(s, m, ch, part)
            u == FinishOwnBlock(t, Second, ch, part)
<1>1. /\ m \in Active /\ m \in Muxers /\ Second = Sibling(m) /\ Sibling(Second) = m
      /\ Second \in Muxers /\ (mode.stereo => Second \in Active)
  BY ModeFacts DEF Second, Sibling, First
<1>2. /\ FinishFileBlock(s, m, ch, part) = IF mode.stereo THEN u ELSE t
  BY <1>1 DEF FinishFileBlock
<1>3. s.objects \in Nat /\ s.objects >= 1
  <2>1. s \in MuxSpace
    BY SoundTypes DEF Ready
  <2>2. s.objects \in Objects
    BY <2>1 DEF MuxSpace
  <2>. QED BY <2>2 DEF Objects
<1>4. ch => s.objects + 1 \in Objects /\ (mode.stereo => s.objects + 2 \in Objects)
  BY <1>3, ModesAssumption DEF Objects
<1>5. mode.split => ~mode.joined /\ (mode.interleave => First = "sub")
  BY ModeFacts DEF CleanSplits, First
<1>6. ch => MayChange(s, m)
  BY <1>4, <1>5 DEF MayChange
<1>7. OwnBlockEnd(t, s, m, ch) /\ Lined(t, G)
  BY <1>1, <1>6, OwnBlockSound, OwnBlockInLine
<1>. HIDE DEF t
<1>8. t.finished[m] /\ ~t.finished[Second] /\ t.objects = s.objects + (IF ch THEN 1 ELSE 0)
  BY <1>1, <1>7 DEF OwnBlockEnd
<1>9. CASE ~mode.stereo
  BY <1>2, <1>7, <1>9
<1>10. CASE mode.stereo
  <2>1. ch => MayChange(t, Second)
    <3>. SUFFICES ASSUME ch PROVE MayChange(t, Second)
      OBVIOUS
    <3>1. t.objects + 1 = s.objects + 2
      BY <1>3, <1>8
    <3>2. t.objects + 1 \in Objects
      BY <1>4, <1>10, <3>1
    <3>3. Second = "main" /\ mode.interleave => t.finished["sub"]
      BY <1>1, <1>8 DEF Sibling
    <3>. QED BY <1>5, <3>2, <3>3 DEF MayChange
  <2>2. Ready(t) /\ t.held[Sibling(Second)] = <<>>
    BY <1>1, <1>7 DEF OwnBlockEnd
  <2>3. Lined(u, G)
    BY <1>1, <1>7, <1>10, <2>1, <2>2, OwnBlockInLine
  <2>. QED BY <1>2, <1>10, <2>3
<1>. QED BY <1>9, <1>10

LEMMA FilledInLine ==
  ASSUME Ready(mux), NEW m \in Active, mode \in Modes, NEW full \in BOOLEAN, NEW timed \in BOOLEAN,
         NEW G, Lined(mux, G)
  PROVE  Lined(Filled(m, full, timed), G)
<1>. DEFINE s == Opened(m)
<1>1. PacketBegun(s, m)
  BY OpenedReady
<1>2. Lined(s, G)
  BY PCRInLine DEF Opened, Ready
<1>3. Filled(m, full, timed) = IF full THEN WriteOutBuffer(s, m, timed) ELSE s
  BY DEF Filled
<1>. HIDE DEF s
<1>4. Lined(WriteOutBuffer(s, m, timed), G)
  BY <1>1, <1>2, WriteOutInLine DEF PacketBegun, Ready
<1>. QED BY <1>2, <1>3, <1>4

-----------------------------------------------------------------------------
(* The end of the input: what the muxers kept is handed over.              *)

HandedOver(s, G) == /\ s \in MuxSpace /\ Counted(s) /\ Direct(Drained, s.plan)
                    /\ Chain(Elems(s.made), G, s.plan, {}, {}, {})

LEMMA HandedDo ==
  ASSUME NEW s, NEW G, HandedOver(s, G), NEW x \in OpSpace, ~Writes(x), x.op # "destroy"
  PROVE  HandedOver(Do(s, <<x>>), G)
<1>. DEFINE q == s.plan \o <<x>>
            t == Do(s, <<x>>)
<1>1. s \in MuxSpace /\ s.plan \in Seq(OpSpace)
  BY DEF HandedOver, MuxSpace
<1>2. <<x>> \in Seq(OpSpace) /\ NoWrites(<<x>>)
  BY OneQuietOp
<1>3. q \in Seq(OpSpace)
  BY <1>1, <1>2, Joining
<1>4. t \in MuxSpace /\ t.plan = q /\ t.made = s.made
  BY <1>1, <1>3, PlanFields
<1>5. Chain(Elems(s.made), G, q, {}, {}, {}) /\ Direct(Drained, q)
  BY <1>1, <1>2, ChainGoesOn, PlanGoesOn DEF HandedOver
<1>. HIDE DEF t, q
<1>6. HandedOver(t, G)
  BY <1>4, <1>5 DEF HandedOver, Counted
<1>. QED BY <1>6 DEF t

\* One more block, which the muxing thread writes itself.
LEMMA HandedAppend ==
  ASSUME NEW s, NEW G, HandedOver(s, G), NEW b \in BlockSpace, b.n = Len(s.made) + 1,
         Waited(Drained, s.plan, Len(s.plan))
  PROVE  HandedOver(Do(Made(s, b), <<Op("append", b)>>), G)
<1>. DEFINE v == Made(s, b)
            e == Each("append", <<b>>)
            q == s.plan \o e
            t == Do(v, e)
            M == Elems(s.made)
            P == Planned(s.plan)
<1>1. /\ v \in MuxSpace /\ Counted(v) /\ Elems(v.made) = M \cup {b}
      /\ AllBefore(M, {b}) /\ v.plan = s.plan
  BY BlockCounted DEF HandedOver
<1>2. s.plan \in Seq(OpSpace)
  BY DEF HandedOver, MuxSpace
<1>. HIDE DEF v
<1>3. <<b>> \in Seq(BlockSpace) /\ Elems(<<b>>) = {b} /\ Rising(<<b>>) /\ e = <<Op("append", b)>>
  BY OneElem, EachOfOne
<1>4. Chain(M \cup {b}, G, s.plan, {}, {b}, {})
  <2>1. M = G \cup P \cup {} \cup {} \cup {} /\ AllBefore(G, P) /\ PlanRising(s.plan)
    BY DEF HandedOver, Chain
  <2>2. \A S : AllBefore({}, S) /\ AllBefore(S, {})
    BY NoElems
  <2>. HIDE DEF M, P
  <2>3. AllBefore(G, {b}) /\ AllBefore(P, {b})
    BY <1>1, <2>1 DEF AllBefore
  <2>4. M \cup {b} = G \cup P \cup {} \cup {b} \cup {}
    BY <2>1
  <2>. QED BY <2>1, <2>2, <2>3, <2>4 DEF Chain, P
<1>. HIDE DEF M
<1>5. Chain(M \cup {b}, G, q, {}, {}, {}) /\ Direct(Drained, q)
  <2>1. Direct(Drained, s.plan) /\ AllBefore(Elems(<<b>>), {}) /\ Chain(M \cup {b}, G, s.plan, {}, Elems(<<b>>), {})
    BY <1>3, <1>4, NoElems DEF HandedOver
  <2>2. LET r == s.plan \o Each("append", <<b>>) IN
        Chain(M \cup {b}, G, r, {}, {}, {}) /\ Direct(Drained, r)
    BY <1>2, <1>3, <2>1, PlanTakes
  <2>. QED BY <2>2
<1>6. e \in Seq(OpSpace)
  BY <1>3, EachOps
<1>7. q \in Seq(OpSpace)
  BY <1>2, <1>6, Joining
<1>8. t \in MuxSpace /\ t.plan = q /\ t.made = v.made
  BY <1>1, <1>7, PlanFields
<1>9. t = Do(Made(s, b), <<Op("append", b)>>)
  BY <1>3 DEF v
<1>. HIDE DEF t, q, e
<1>10. HandedOver(t, G)
  BY <1>1, <1>5, <1>8 DEF HandedOver, Counted
<1>. QED BY <1>9, <1>10

\* The part of a sector that is left over is written before the file is closed.
LEMMA CloseHandsOver ==
  ASSUME NEW s, Ending(s), NEW m \in Active, mode \in Modes, NEW G, HandedOver(s, G)
  PROVE  HandedOver(Close(s, m), G)
<1>. DEFINE o == s.muxFile[m]
            x == Op("close", o)
            y == Op("reopen", o)
<1>1. m \in Muxers /\ s \in MuxSpace /\ o \in Objects /\ s.plan \in Seq(OpSpace)
  <2>1. m \in Muxers /\ s \in MuxSpace
    BY ModeFacts DEF Ending
  <2>2. s.muxFile \in [Muxers -> Objects] /\ s.plan \in Seq(OpSpace)
    BY <2>1 DEF MuxSpace
  <2>. QED BY <2>1, <2>2
<1>2. /\ x \in OpSpace /\ x.op = "close" /\ x.arg = o /\ ~Writes(x)
      /\ y \in OpSpace /\ y.op = "reopen" /\ y.arg = o /\ ~Writes(y)
  BY <1>1 DEF Op, OpSpace, Writes
<1>3. KnownAfter(file, s.plan, Len(s.plan), o)
  BY DEF Ending
<1>4. x = Op("close", s.muxFile[m]) /\ y = Op("reopen", s.muxFile[m])
  OBVIOUS
<1>. HIDE DEF x, y
<1>5. Ending(Do(s, <<x>>)) /\ Still(Do(s, <<x>>), s) /\ HandedOver(Do(s, <<x>>), G)
  BY <1>2, <1>3, EndingDo, HandedDo
<1>6. CASE m = "sub" /\ mode.joined
  BY <1>6 DEF Close
<1>7. CASE ~(m = "sub" /\ mode.joined) /\ ~s.rest[m]
  BY <1>5, <1>7, <1>4 DEF Close
<1>8. CASE ~(m = "sub" /\ mode.joined) /\ s.rest[m]
  <2>. DEFINE a == Do(s, <<x>>)
              c == Do(a, <<y>>)
              b == NextBlock(c, m)
              e == Do(Made(c, b), <<Op("append", b)>>)
              r == [e.rest EXCEPT ![m] = FALSE]
              g == [e EXCEPT !.rest = r]
  <2>1. Ending(a) /\ Still(a, s) /\ HandedOver(a, G)
    BY <1>5
  <2>2. Do(s, <<x, y>>) = c
    <3>1. s.plan \o <<x>> \in Seq(OpSpace)
      BY <1>1, <1>2
    <3>2. a.plan = s.plan \o <<x>>
      BY <1>1, <3>1, PlanFields
    <3>3. s.plan \o <<x, y>> = (s.plan \o <<x>>) \o <<y>>
      BY <1>1, <1>2, TwoMore
    <3>. QED BY <1>1, <3>2, <3>3 DEF Do, MuxSpace
  <2>3. Close(s, m) = Do(WriteRest(c, m), <<x>>)
    <3>1. <<x>> \o <<y>> = <<x, y>>
      BY <1>2, PairOfOps
    <3>. QED BY <1>8, <1>4, <2>2, <3>1 DEF Close
  <2>. HIDE DEF a
  <2>4. KnownAfter(file, a.plan, Len(a.plan), o)
    <3>1. a.muxFile[m] = o
      BY <2>1 DEF Still, Alike
    <3>. QED BY <2>1, <3>1 DEF Ending
  <2>5. Ending(c) /\ Still(c, a) /\ HandedOver(c, G)
    BY <1>2, <2>1, <2>4, EndingDo, HandedDo
  <2>. HIDE DEF c
  <2>6. /\ c \in MuxSpace /\ c.rest[m] /\ c.muxFile[m] = o /\ c.made \in Seq(BlockSpace) /\ c.round \in Nat
        /\ Waited(Drained, c.plan, Len(c.plan))
    <3>1. c \in MuxSpace /\ Waited(Drained, c.plan, Len(c.plan))
      BY <2>5 DEF Ending
    <3>2. c.rest[m] /\ c.muxFile[m] = o
      BY <1>8, <2>1, <2>5 DEF Still, Alike
    <3>. QED BY <3>1, <3>2 DEF MuxSpace
  <2>7. b \in BlockSpace /\ b.n = Len(c.made) + 1
    <3>1. Len(c.made) + 1 \in Nat
      BY <2>6
    <3>. QED BY <1>1, <2>6, <3>1 DEF NextBlock, BlockSpace
  <2>8. WriteRest(c, m) = g
    BY <2>6 DEF WriteRest
  <2>. HIDE DEF b
  <2>9. HandedOver(e, G)
    BY <2>5, <2>6, <2>7, HandedAppend
  <2>. HIDE DEF e
  <2>10. e \in MuxSpace
    BY <2>9 DEF HandedOver
  <2>11. r \in [Muxers -> BOOLEAN]
    <3>1. e.rest \in [Muxers -> BOOLEAN]
      BY <2>10 DEF MuxSpace
    <3>. QED BY <3>1
  <2>. HIDE DEF r
  <2>12. g \in MuxSpace /\ g.plan = e.plan /\ g.made = e.made
    BY <2>10, <2>11 DEF MuxSpace
  <2>. HIDE DEF g
  <2>13. HandedOver(g, G)
    BY <2>9, <2>12 DEF HandedOver, Counted
  <2>14. HandedOver(Do(g, <<x>>), G)
    BY <1>2, <2>13, HandedDo
  <2>. QED BY <2>3, <2>8, <2>14
<1>9. s.rest[m] \in BOOLEAN /\ mode.joined \in BOOLEAN
  <2>1. s.rest \in [Muxers -> BOOLEAN]
    BY <1>1 DEF MuxSpace
  <2>. QED BY <1>1, <2>1, ModeFacts
<1>. QED BY <1>6, <1>7, <1>8, <1>9

\* The blocks held back are the last ones to be handed over.
LEMMA RestHandedOver ==
  ASSUME NEW t, Sound(t), NEW G, Lined(t, G), \A m \in Muxers : t.held[m] = <<>>
  PROVE  HandedOver(Do(t, Each("write", t.delayed) \o <<Op("wait", 0)>>), G)
<1>. DEFINE e == Each("write", t.delayed)
            q == t.plan \o e
            x == Op("wait", 0)
            r == q \o <<x>>
            v == Do(t, e \o <<x>>)
            M == Elems(t.made)
            D == Elems(t.delayed)
            P == Planned(t.plan)
<1>1. t \in MuxSpace /\ t.plan \in Seq(OpSpace) /\ t.delayed \in Seq(BlockSpace)
  BY SoundTypes
<1>2. e \in Seq(OpSpace) /\ x \in OpSpace /\ x.op = "wait"
  BY <1>1, EachOps DEF Op, OpSpace
<1>3. t.plan \o (e \o <<x>>) = r
  <2>. HIDE DEF e, x
  <2>1. <<x>> \in Seq(OpSpace)
    BY <1>2
  <2>. QED BY <1>1, <1>2, <2>1, ThreeParts
<1>4. v = Do(t, Each("write", t.delayed) \o <<Op("wait", 0)>>)
  OBVIOUS
<1>. HIDE DEF x
<1>5. Held(t) = {}
  <2>1. "main" \in Muxers /\ t.held["main"] = <<>>
    BY DEF Muxers
  <2>2. \A m \in Muxers : Elems(t.held[m]) = {}
    BY NoElems
  <2>. QED BY <2>2 DEF Held
<1>6. Chain(M, G, q, {}, {}, {}) /\ Direct(Drained, q)
  <2>1. /\ M = G \cup P \cup D \cup {} \cup {} /\ AllBefore(G, P) /\ AllBefore(G, D)
        /\ AllBefore(P, D) /\ PlanRising(t.plan) /\ Direct(Drained, t.plan) /\ Rising(t.delayed)
    BY <1>5 DEF Lined, Chain
  <2>2. \A S : AllBefore({}, S) /\ AllBefore(S, {})
    BY NoElems
  <2>. HIDE DEF M, P, D
  <2>3. M = G \cup P \cup {} \cup D \cup {}
    BY <2>1
  <2>4. Chain(M, G, t.plan, {}, D, {})
    BY <2>1, <2>2, <2>3 DEF Chain, P
  <2>5. LET z == t.plan \o Each("write", t.delayed) IN
        Chain(M, G, z, {}, {}, {}) /\ Direct(Drained, z)
    BY <1>1, <2>1, <2>2, <2>4, PlanTakes DEF D
  <2>. QED BY <2>5
<1>7. q \in Seq(OpSpace)
  BY <1>1, <1>2, Joining
<1>8. <<x>> \in Seq(OpSpace) /\ NoWrites(<<x>>)
  BY <1>2, OneQuietOp DEF Writes
<1>. HIDE DEF q, e, M
<1>9. r \in Seq(OpSpace) /\ Chain(M, G, r, {}, {}, {}) /\ Direct(Drained, r)
  BY <1>6, <1>7, <1>8, Joining, ChainGoesOn, PlanGoesOn
<1>10. v \in MuxSpace /\ v.plan = r /\ v.made = t.made
  BY <1>1, <1>3, <1>9, PlanFields
<1>. HIDE DEF v, r
<1>11. HandedOver(v, G)
  BY <1>9, <1>10 DEF HandedOver, Lined, Counted, M
<1>. QED BY <1>4, <1>11

LEMMA LastOperation ==
  ASSUME NEW s, NEW G, HandedOver(s, G)
  PROVE  LET t == Do(s, <<Op("destroy", 0)>>) IN
         /\ t \in MuxSpace /\ Counted(t) /\ PlanEnds(Drained, t.plan)
         /\ Chain(Elems(t.made), G, t.plan, {}, {}, {})
<1>. DEFINE x == Op("destroy", 0)
            l == Len(s.plan)
            q == s.plan \o <<x>>
            t == Do(s, <<x>>)
<1>1. s \in MuxSpace /\ s.plan \in Seq(OpSpace)
  BY DEF HandedOver, MuxSpace
<1>2. x \in OpSpace /\ x.op = "destroy" /\ ~Writes(x)
  BY DEF Op, OpSpace, Writes
<1>3. t = Do(s, <<Op("destroy", 0)>>)
  OBVIOUS
<1>. HIDE DEF x
<1>4. <<x>> \in Seq(OpSpace) /\ Len(<<x>>) = 1 /\ \A n \in 1..Len(<<x>>) : <<x>>[n] = x /\ n = 1
  BY <1>2
<1>5. /\ q \in Seq(OpSpace) /\ Len(q) = l + 1 /\ l \in Nat
      /\ \A n \in 1..l : q[n] = s.plan[n]
      /\ \A n \in 1..l + 1 : n > l => q[n] = x
  <2>1. /\ q \in Seq(OpSpace) /\ Len(q) = l + Len(<<x>>) /\ l \in Nat
        /\ \A n \in 1..l : q[n] = s.plan[n]
        /\ \A n \in 1..l + Len(<<x>>) : n > l => n - l \in 1..Len(<<x>>) /\ q[n] = <<x>>[n - l]
    BY <1>1, <1>4, Joining
  <2>. HIDE DEF q, l
  <2>. QED BY <1>4, <2>1
<1>6. Planned(q) = Planned(s.plan) /\ (PlanRising(s.plan) => PlanRising(q))
  <2>1. \A n \in 1..Len(<<x>>) : ~Writes(<<x>>[n])
    BY <1>2, <1>4
  <2>. QED BY <1>1, <1>4, <2>1, PlanSilent
<1>7. t \in MuxSpace /\ t.plan = q /\ t.made = s.made
  BY <1>1, <1>5, PlanFields
<1>. HIDE DEF q, t
<1>8. Chain(Elems(t.made), G, q, {}, {}, {})
  BY <1>6, <1>7 DEF HandedOver, Chain
<1>9. PlanEnds(Drained, q)
  <2>. SUFFICES ASSUME NEW n \in 1..Len(q)
                PROVE  /\ q[n].op \in {"direct", "append"} => Waited(Drained, q, n - 1)
                       /\ q[n].op = "destroy" => n = Len(q)
    BY DEF PlanEnds
  <2>1. CASE n \in 1..l
    <3>1. q[n] = s.plan[n] /\ n - 1 \in Nat /\ \A j \in 1..(n - 1) : q[j] = s.plan[j]
      BY <1>5, <2>1
    <3>2. Waited(Drained, s.plan, n - 1) => Waited(Drained, q, n - 1)
      BY <3>1, SamePart
    <3>. QED BY <2>1, <3>1, <3>2 DEF Direct, HandedOver
  <2>2. CASE n \notin 1..l
    <3>1. n = Len(q) /\ q[n] = x
      BY <1>5, <2>2
    <3>. QED BY <1>2, <3>1
  <2>. QED BY <2>1, <2>2
<1>10. Counted(t)
  BY <1>7 DEF HandedOver, Counted
<1>. QED BY <1>3, <1>7, <1>8, <1>9, <1>10

\* Whatever the muxers kept is planned at the end of the input.
LEMMA EndInLine ==
  ASSUME MuxInv, Idle, NEW part \in BOOLEAN, NEW G, Lined(mux, G)
  PROVE  LET s == IF mode.stereo THEN DoFlush(mux, "sub", FALSE) ELSE mux
             t == DoFlush(s, "main", part)
             u == Do(t, Each("write", t.delayed) \o <<Op("wait", 0)>>)
             v == Close(u, "main")
             w == Do(IF mode.stereo THEN Close(v, "sub") ELSE v, <<Op("destroy", 0)>>)
         IN /\ w \in MuxSpace /\ Counted(w) /\ PlanEnds(Drained, w.plan)
            /\ Chain(Elems(w.made), G, w.plan, {}, {}, {})
<1>. DEFINE f == DoFlush(mux, "sub", FALSE)
            s == IF mode.stereo THEN f ELSE mux
            t == DoFlush(s, "main", part)
            u == Do(t, Each("write", t.delayed) \o <<Op("wait", 0)>>)
            v == Close(u, "main")
            w == Close(v, "sub")
            y == IF mode.stereo THEN w ELSE v
            z == Do(y, <<Op("destroy", 0)>>)
<1>1. Sound(mux) /\ ~mux.finished[Second] /\ mode \in Modes /\ "main" \in Active /\ mode.stereo \in BOOLEAN
  BY IdleReady, ModeFacts DEF Ready, MuxInv
<1>2. (mode.stereo => "sub" \in Active) /\ (~mode.stereo => "sub" \notin Active)
  BY DEF Active, Muxers
<1>3. mode.stereo => Sound(f) /\ Near(f, mux, "sub") /\ f.held["sub"] = <<>> /\ Lined(f, G)
  BY <1>1, <1>2, DoFlushSound, DoFlushInLine
<1>. HIDE DEF f
<1>4. /\ Sound(s) /\ s.round = mux.round /\ s.finished = mux.finished /\ Lined(s, G)
      /\ s.held["sub"] = <<>>
  <2>1. CASE mode.stereo
    BY <1>1, <1>3, <2>1 DEF Near
  <2>2. CASE ~mode.stereo
    <3>1. "sub" \in Muxers
      BY DEF Muxers
    <3>2. mux.held["sub"] = <<>>
      BY <1>2, <2>2, <3>1 DEF Lined, HeldRising
    <3>. QED BY <1>1, <2>2, <3>2
  <2>. QED BY <1>1, <2>1, <2>2
<1>. HIDE DEF s
<1>5. Sound(t) /\ Near(t, s, "main") /\ Lined(t, G) /\ t.held["main"] = <<>>
  BY <1>1, <1>4, DoFlushSound, DoFlushInLine
<1>. HIDE DEF t
<1>6. Ending(u)
  <2>1. t.round = mux.round /\ ~t.finished[Second]
    BY <1>1, <1>4, <1>5 DEF Near
  <2>. QED BY <1>1, <1>5, <2>1, EndingBegins
<1>7. HandedOver(u, G)
  <2>1. \A m \in Muxers : t.held[m] = <<>>
    BY <1>4, <1>5 DEF Near, Muxers
  <2>. QED BY <1>5, <2>1, RestHandedOver
<1>. HIDE DEF u
<1>8. Ending(v) /\ HandedOver(v, G)
  BY <1>1, <1>6, <1>7, CloseEnding, CloseHandsOver
<1>. HIDE DEF v
<1>9. HandedOver(y, G)
  BY <1>1, <1>2, <1>8, CloseHandsOver
<1>. HIDE DEF w, y
<1>10. /\ z \in MuxSpace /\ Counted(z) /\ PlanEnds(Drained, z.plan)
       /\ Chain(Elems(z.made), G, z.plan, {}, {}, {})
  BY <1>9, LastOperation
<1>. QED BY <1>10 DEF f, s, t, u, v, w, y, z

-----------------------------------------------------------------------------
(* Blocks on their way into the files.                                     *)

\* The first operation of a plan writes before the others.
LEMMA PlannedTail ==
  ASSUME NEW p \in Seq(OpSpace), p # <<>>
  PROVE  LET b == Head(p).arg
             q == Tail(p)
         IN /\ q \in Seq(OpSpace) /\ (PlanRising(p) => PlanRising(q))
            /\ ~Writes(Head(p)) => Planned(p) = Planned(q)
            /\ Writes(Head(p)) => /\ b \in BlockSpace /\ Planned(p) = {b} \cup Planned(q)
                                  /\ PlanRising(p) => AllBefore({b}, Planned(q))
<1>. DEFINE x == Head(p)
            q == Tail(p)
            l == Len(q)
<1>1. /\ q \in Seq(OpSpace) /\ l \in Nat /\ Len(p) = l + 1 /\ x = p[1] /\ x \in OpSpace
      /\ \A n \in 1..l : q[n] = p[n + 1]
  BY TailOfPlan
<1>2. /\ \A n \in 1..l : n + 1 \in 1..Len(p) /\ 1 < n + 1
      /\ \A n \in 1..Len(p) : n = 1 \/ (n - 1 \in 1..l /\ (n - 1) + 1 = n)
      /\ 1 \in 1..Len(p) /\ \A k, n \in 1..l : k < n => k + 1 < n + 1
  BY <1>1
<1>. HIDE DEF x, q, l
<1>3. \A n \in 1..Len(p) : n = 1 \/ (n - 1 \in 1..l /\ p[n] = q[n - 1])
  BY <1>1, <1>2
<1>4. PlanRising(p) => PlanRising(q)
  <2>. SUFFICES ASSUME PlanRising(p), NEW k \in 1..l, NEW n \in 1..l, k < n, Writes(q[k]), Writes(q[n])
                PROVE  Before(q[k].arg, q[n].arg)
    BY DEF PlanRising, l
  <2>1. k + 1 \in 1..Len(p) /\ n + 1 \in 1..Len(p) /\ k + 1 < n + 1
    BY <1>2
  <2>2. q[k] = p[k + 1] /\ q[n] = p[n + 1]
    BY <1>1
  <2>. QED BY <2>1, <2>2 DEF PlanRising
<1>5. Planned(q) \subseteq Planned(p)
  <2>. SUFFICES ASSUME NEW n \in 1..l, Writes(q[n]) PROVE q[n].arg \in Planned(p)
    BY DEF Planned, l
  <2>1. n + 1 \in 1..Len(p) /\ q[n] = p[n + 1]
    BY <1>1, <1>2
  <2>. QED BY <2>1, PlannedOf
<1>6. \A b \in Planned(p) : b \in Planned(q) \/ (Writes(x) /\ b = x.arg)
  <2>. SUFFICES ASSUME NEW n \in 1..Len(p), Writes(p[n])
                PROVE  p[n].arg \in Planned(q) \/ (Writes(x) /\ p[n].arg = x.arg)
    BY DEF Planned
  <2>1. CASE n = 1
    BY <1>1, <2>1
  <2>2. CASE n - 1 \in 1..l /\ p[n] = q[n - 1]
    <3>1. Writes(q[n - 1])
      BY <2>2
    <3>. QED BY <2>2, <3>1, PlannedOf DEF l
  <2>. QED BY <1>3, <2>1, <2>2
<1>7. Writes(x) => x.arg \in Planned(p) /\ x.arg \in BlockSpace
  <2>1. Writes(x) => x.arg \in Planned(p)
    BY <1>1, <1>2, PlannedOf
  <2>2. Writes(x) => x.arg \in BlockSpace
    BY <1>1 DEF Writes, OpSpace
  <2>. QED BY <2>1, <2>2
<1>8. Writes(x) /\ PlanRising(p) => AllBefore({x.arg}, Planned(q))
  <2>. SUFFICES ASSUME Writes(x), PlanRising(p), NEW n \in 1..l, Writes(q[n])
                PROVE  Before(x.arg, q[n].arg)
    BY DEF AllBefore, Planned, l
  <2>1. n + 1 \in 1..Len(p) /\ 1 < n + 1 /\ q[n] = p[n + 1]
    BY <1>1, <1>2
  <2>. QED BY <1>1, <1>2, <2>1 DEF PlanRising
<1>9. ~Writes(x) => Planned(p) = Planned(q)
  BY <1>5, <1>6
<1>10. Writes(x) => Planned(p) = {x.arg} \cup Planned(q)
  BY <1>5, <1>6, <1>7
<1>. QED BY <1>1, <1>4, <1>7, <1>8, <1>9, <1>10 DEF x, q

\* ... so that the blocks stay in line when it is carried out.
LEMMA ChainTail ==
  ASSUME NEW p \in Seq(OpSpace), p # <<>>, NEW M, NEW G, NEW D, NEW H, Chain(M, G, p, D, {}, H)
  PROVE  LET b == Head(p).arg
             q == Tail(p)
         IN /\ ~Writes(Head(p)) => Chain(M, G, q, D, {}, H)
            /\ Writes(Head(p)) => AllBefore(G, {b}) /\ Chain(M, G \cup {b}, q, D, {}, H)
<1>. DEFINE x == Head(p)
            q == Tail(p)
            b == x.arg
<1>1. /\ q \in Seq(OpSpace) /\ (PlanRising(p) => PlanRising(q))
      /\ ~Writes(x) => Planned(p) = Planned(q)
      /\ Writes(x) => /\ b \in BlockSpace /\ Planned(p) = {b} \cup Planned(q)
                      /\ PlanRising(p) => AllBefore({b}, Planned(q))
  BY PlannedTail
<1>. HIDE DEF x, q
<1>2. ~Writes(x) => Chain(M, G, q, D, {}, H)
  BY <1>1 DEF Chain
<1>3. ASSUME Writes(x)
      PROVE  AllBefore(G, {b}) /\ Chain(M, G \cup {b}, q, D, {}, H)
  <2>. DEFINE P == Planned(q)
  <2>1. Planned(p) = {b} \cup P /\ AllBefore({b}, P) /\ PlanRising(q)
    BY <1>1, <1>3 DEF Chain
  <2>2. M = G \cup ({b} \cup P) \cup D \cup {} \cup H
    BY <2>1 DEF Chain
  <2>3. /\ AllBefore(G, {b} \cup P) /\ AllBefore(G, D) /\ AllBefore(G, {}) /\ AllBefore(G, H)
        /\ AllBefore({b} \cup P, D) /\ AllBefore({b} \cup P, {}) /\ AllBefore({b} \cup P, H)
        /\ AllBefore(D, {}) /\ AllBefore(D, H) /\ AllBefore({}, H)
    BY <2>1 DEF Chain
  <2>. HIDE DEF b, P
  <2>4. /\ AllBefore(G, {b}) /\ AllBefore(G \cup {b}, P) /\ AllBefore(G \cup {b}, D)
        /\ AllBefore(G \cup {b}, {}) /\ AllBefore(G \cup {b}, H)
        /\ AllBefore(P, D) /\ AllBefore(P, {}) /\ AllBefore(P, H)
    BY <2>1, <2>3 DEF AllBefore
  <2>5. M = (G \cup {b}) \cup P \cup D \cup {} \cup H
    BY <2>2
  <2>. QED BY <2>1, <2>3, <2>4, <2>5 DEF Chain, P
<1>. QED BY <1>2, <1>3 DEF x, q

\* A plan goes on with its second operation.
LEMMA WaitedTail ==
  ASSUME NEW p \in Seq(OpSpace), p # <<>>, NEW d, NEW e,
         (d /\ Head(p).op # "write") \/ Head(p).op = "wait" => e
  PROVE  /\ Direct(d, p) => Direct(e, Tail(p)) /\ Head(p).op # "destroy"
         /\ PlanEnds(d, p) => PlanEnds(e, Tail(p)) /\ (Head(p).op = "destroy" => Tail(p) = <<>>)
<1>. DEFINE q == Tail(p)
            l == Len(q)
            f == [o \in Objects |-> [state |-> "none", mux |-> "main", name |-> 0]]
            g == [o \in Objects |-> [state |-> "open", mux |-> "main", name |-> 0]]
<1>1. /\ q \in Seq(OpSpace) /\ l \in Nat /\ Len(p) = l + 1 /\ Head(p) = p[1]
      /\ \A n \in 1..l : q[n] = p[n + 1] /\ n + 1 \in 1..Len(p)
  BY TailOfPlan
<1>2. 1 \in 1..Len(p)
  BY <1>1
<1>3. \A n \in 0..l : Waited(d, p, n + 1) => Waited(e, q, n)
  <2>1. DoneOp(f, d, Head(p), g, e)
    BY DEF DoneOp
  <2>2. Shifted(f, d, p, g, e, Tail(p))
    BY <2>1, ShiftOne
  <2>. QED BY <2>2 DEF Shifted
<1>. HIDE DEF q, l
<1>4. \A n \in 1..l : Waited(d, p, n) => Waited(e, q, n - 1)
  <2>. SUFFICES ASSUME NEW n \in 1..l, Waited(d, p, n) PROVE Waited(e, q, n - 1)
    OBVIOUS
  <2>1. n - 1 \in 0..l /\ (n - 1) + 1 = n
    BY <1>1
  <2>. QED BY <1>3, <2>1
<1>5. \A n \in 1..l : (n + 1) - 1 = n
  BY <1>1
<1>6. ASSUME Direct(d, p)
      PROVE  Direct(e, q) /\ Head(p).op # "destroy"
  <2>1. Head(p).op # "destroy"
    BY <1>1, <1>2, <1>6 DEF Direct
  <2>. SUFFICES ASSUME NEW n \in 1..l
                PROVE  /\ q[n].op \in {"direct", "append"} => Waited(e, q, n - 1)
                       /\ q[n].op # "destroy"
    BY <2>1 DEF Direct, l
  <2>2. q[n] = p[n + 1] /\ n + 1 \in 1..Len(p) /\ (n + 1) - 1 = n
    BY <1>1, <1>5
  <2>3. /\ p[n + 1].op \in {"direct", "append"} => Waited(d, p, n)
        /\ p[n + 1].op # "destroy"
    BY <1>6, <2>2 DEF Direct
  <2>. QED BY <1>4, <2>2, <2>3
<1>7. ASSUME PlanEnds(d, p)
      PROVE  PlanEnds(e, q) /\ (Head(p).op = "destroy" => q = <<>>)
  <2>1. Head(p).op = "destroy" => q = <<>>
    <3>1. Head(p).op = "destroy" => Len(p) = 1
      BY <1>1, <1>2, <1>7 DEF PlanEnds
    <3>2. Head(p).op = "destroy" => l = 0
      BY <1>1, <3>1
    <3>. QED BY <1>1, <3>2 DEF l
  <2>. SUFFICES ASSUME NEW n \in 1..l
                PROVE  /\ q[n].op \in {"direct", "append"} => Waited(e, q, n - 1)
                       /\ q[n].op = "destroy" => n = l
    BY <2>1 DEF PlanEnds, l
  <2>2. q[n] = p[n + 1] /\ n + 1 \in 1..Len(p) /\ (n + 1) - 1 = n
    BY <1>1, <1>5
  <2>3. /\ p[n + 1].op \in {"direct", "append"} => Waited(d, p, n)
        /\ p[n + 1].op = "destroy" => n + 1 = Len(p)
    BY <1>7, <2>2 DEF PlanEnds
  <2>4. n + 1 = Len(p) => n = l
    BY <1>1
  <2>. QED BY <1>4, <2>2, <2>3, <2>4
<1>. QED BY <1>6, <1>7 DEF q

\* A block is handed to the writer: it comes last.
LEMMA BlockGiven ==
  ASSUME NEW c, NEW g \in Seq(BlockSpace), NEW k \in 0..Len(g), InFiles(c, g, k),
         NEW b \in BlockSpace, \A x \in Stored(c) \cup Rest(g, k) : Before(x, b)
  PROVE  InFiles(c, Append(g, b), k) /\ Rest(Append(g, b), k) = Rest(g, k) \cup {b}
<1>. DEFINE h == Append(g, b)
            l == Len(g)
<1>1. /\ l \in Nat /\ Len(h) = l + 1 /\ \A i \in 1..l : h[i] = g[i] /\ i # l + 1
      /\ h[l + 1] = b /\ h \in Seq(BlockSpace)
  OBVIOUS
<1>. HIDE DEF h, l
<1>2. /\ \A i \in (k + 1)..(l + 1) : i = l + 1 \/ (i \in 1..l /\ i \in (k + 1)..l)
      /\ \A i \in (k + 1)..l : i \in 1..l /\ i \in (k + 1)..(l + 1)
      /\ l + 1 \in (k + 1)..(l + 1)
      /\ \A i, j \in (k + 1)..(l + 1) : i < j => i \in (k + 1)..l
  BY <1>1 DEF l
<1>3. Rest(h, k) = Rest(g, k) \cup {b}
  <2>1. \A i \in (k + 1)..(l + 1) : h[i] \in Rest(g, k) \cup {b}
    BY <1>1, <1>2 DEF Rest, l
  <2>2. \A i \in (k + 1)..l : g[i] \in Rest(h, k)
    <3>. SUFFICES ASSUME NEW i \in (k + 1)..l PROVE g[i] \in Rest(h, k)
      OBVIOUS
    <3>1. h[i] = g[i]
      BY <1>1, <1>2
    <3>. QED BY <1>1, <1>2, <3>1 DEF Rest
  <2>3. b \in Rest(h, k)
    BY <1>1, <1>2 DEF Rest
  <2>4. Rest(h, k) \subseteq Rest(g, k) \cup {b}
    BY <1>1, <2>1 DEF Rest
  <2>5. Rest(g, k) \subseteq Rest(h, k)
    BY <2>2 DEF Rest, l
  <2>. QED BY <2>3, <2>4, <2>5
<1>4. \A i, j \in (k + 1)..Len(h) : i < j => Before(h[i], h[j])
  <2>. SUFFICES ASSUME NEW i \in (k + 1)..(l + 1), NEW j \in (k + 1)..(l + 1), i < j
                PROVE  Before(h[i], h[j])
    BY <1>1
  <2>1. i \in (k + 1)..l /\ h[i] = g[i]
    BY <1>1, <1>2
  <2>2. CASE j = l + 1
    <3>1. g[i] \in Rest(g, k)
      BY <2>1 DEF Rest, l
    <3>. QED BY <1>1, <2>1, <2>2, <3>1
  <2>3. CASE j \in (k + 1)..l
    <3>1. h[j] = g[j]
      BY <1>1, <1>2, <2>3
    <3>. QED BY <2>1, <2>3, <3>1 DEF InFiles, l
  <2>. QED BY <1>2, <2>2, <2>3
<1>5. AllBefore(Stored(c), Rest(h, k))
  <2>. DEFINE S == Stored(c)
              R == Rest(g, k)
  <2>1. AllBefore(S, R) /\ (\A x \in S \cup R : Before(x, b)) /\ Rest(h, k) = R \cup {b}
    BY <1>3 DEF InFiles
  <2>. HIDE DEF S, R
  <2>2. AllBefore(S, R \cup {b})
    BY <2>1 DEF AllBefore
  <2>. QED BY <2>1, <2>2 DEF S
<1>. QED BY <1>3, <1>4, <1>5 DEF InFiles, h

\* A block gets into its file, behind those that are there.
LEMMA BlockStored ==
  ASSUME NEW c \in [Objects -> Seq(BlockSpace)], NEW b \in BlockSpace,
         \A o \in Objects : Rising(c[o]) /\ \A i \in 1..Len(c[o]) : c[o][i].file = o,
         AllBefore(Stored(c), {b})
  PROVE  LET e == [c EXCEPT ![b.file] = Append(@, b)]
         IN /\ Stored(e) = Stored(c) \cup {b}
            /\ \A o \in Objects : Rising(e[o]) /\ \A i \in 1..Len(e[o]) : e[o][i].file = o
<1>. DEFINE f == b.file
            q == c[f]
            e == [c EXCEPT ![f] = Append(@, b)]
            a == Append(q, b)
<1>1. f \in Objects /\ q \in Seq(BlockSpace)
  BY DEF BlockSpace
<1>2. e[f] = a /\ \A o \in Objects : o # f => e[o] = c[o]
  BY <1>1
<1>3. \A o \in Objects : Elems(c[o]) \subseteq Stored(c)
  BY DEF Stored
<1>4. Elems(a) = Elems(q) \cup {b} /\ (Rising(q) /\ AllBefore(Elems(q), {b}) => Rising(a))
  BY <1>1, AppendRising
<1>5. /\ \A i \in 1..Len(a) : a[i] = b \/ (i \in 1..Len(q) /\ a[i] = q[i])
  BY <1>1
<1>. HIDE DEF a, e
<1>6. Rising(a) /\ \A i \in 1..Len(a) : a[i].file = f
  <2>1. Rising(q) /\ AllBefore(Elems(q), {b})
    BY <1>1, <1>3 DEF AllBefore
  <2>2. \A i \in 1..Len(a) : a[i].file = f
    BY <1>1, <1>5
  <2>. QED BY <1>4, <2>1, <2>2
<1>7. \A o \in Objects : Rising(e[o]) /\ \A i \in 1..Len(e[o]) : e[o][i].file = o
  <2>. SUFFICES ASSUME NEW o \in Objects
                PROVE  Rising(e[o]) /\ \A i \in 1..Len(e[o]) : e[o][i].file = o
    OBVIOUS
  <2>1. CASE o = f
    BY <1>2, <1>6, <2>1
  <2>2. CASE o # f
    BY <1>2, <2>2
  <2>. QED BY <2>1, <2>2
<1>8. Stored(e) = Stored(c) \cup {b}
  <2>. HIDE DEF q, f
  <2>1. \A o \in Objects : Elems(e[o]) \subseteq Stored(c) \cup {b}
    BY <1>2, <1>3, <1>4 DEF q
  <2>2. \A o \in Objects : Elems(c[o]) \subseteq Elems(e[o])
    BY <1>2, <1>4 DEF q
  <2>3. b \in Stored(e)
    BY <1>1, <1>2, <1>4 DEF Stored
  <2>4. Stored(e) \subseteq Stored(c) \cup {b}
    BY <2>1 DEF Stored
  <2>5. Stored(c) \subseteq Stored(e)
    BY <2>2 DEF Stored
  <2>. QED BY <2>3, <2>4, <2>5
<1>. QED BY <1>7, <1>8 DEF e, f

\* The first operation writes nothing.
LEMMA PlacedSilent ==
  ASSUME NEW p \in Seq(OpSpace), p # <<>>, ~Writes(Head(p)),
         NEW M, NEW c, NEW g, NEW k, NEW D, NEW H, Placed(M, c, g, k, p, D, H)
  PROVE  Placed(M, c, g, k, Tail(p), D, H)
BY ChainTail DEF Placed

\* It gives a block to the writer.
LEMMA PlacedGiven ==
  ASSUME NEW p \in Seq(OpSpace), p # <<>>, Writes(Head(p)),
         NEW M, NEW c, NEW g \in Seq(BlockSpace), NEW k \in 0..Len(g), NEW D, NEW H,
         Placed(M, c, g, k, p, D, H)
  PROVE  Placed(M, c, Append(g, Head(p).arg), k, Tail(p), D, H)
<1>. DEFINE b == Head(p).arg
            h == Append(g, b)
            G == Stored(c) \cup Rest(g, k)
<1>1. b \in BlockSpace
  BY PlannedTail
<1>2. InFiles(c, g, k) /\ Chain(M, G, p, D, {}, H)
  BY DEF Placed
<1>3. AllBefore(G, {b}) /\ Chain(M, G \cup {b}, Tail(p), D, {}, H)
  BY <1>2, ChainTail
<1>4. InFiles(c, h, k) /\ Rest(h, k) = Rest(g, k) \cup {b}
  <2>. HIDE DEF b
  <2>1. \A x \in Stored(c) \cup Rest(g, k) : Before(x, b)
    BY <1>3 DEF AllBefore
  <2>2. k \in 0..Len(g)
    OBVIOUS
  <2>. QED BY <1>1, <1>2, <2>1, <2>2, BlockGiven
<1>5. G \cup {b} = Stored(c) \cup Rest(h, k)
  BY <1>4
<1>. QED BY <1>3, <1>4, <1>5 DEF Placed

\* It writes a block when nothing is left to the writer.
LEMMA PlacedDirect ==
  ASSUME NEW p \in Seq(OpSpace), p # <<>>, Writes(Head(p)),
         NEW M, NEW c \in [Objects -> Seq(BlockSpace)], NEW g \in Seq(BlockSpace), NEW k \in Nat,
         k = Len(g), NEW D, NEW H, Placed(M, c, g, k, p, D, H)
  PROVE  LET b == Head(p).arg
         IN Placed(M, [c EXCEPT ![b.file] = Append(@, b)], g, k, Tail(p), D, H)
<1>. DEFINE b == Head(p).arg
            e == [c EXCEPT ![b.file] = Append(@, b)]
<1>1. b \in BlockSpace
  BY PlannedTail
<1>2. Rest(g, k) = {} /\ \A i \in (k + 1)..Len(g) : FALSE
  BY DEF Rest
<1>3. InFiles(c, g, k) /\ Chain(M, Stored(c), p, D, {}, H)
  BY <1>2 DEF Placed
<1>4. AllBefore(Stored(c), {b}) /\ Chain(M, Stored(c) \cup {b}, Tail(p), D, {}, H)
  BY <1>3, ChainTail
<1>5. /\ Stored(e) = Stored(c) \cup {b}
      /\ \A o \in Objects : Rising(e[o]) /\ \A i \in 1..Len(e[o]) : e[o][i].file = o
  BY <1>1, <1>3, <1>4, BlockStored DEF InFiles
<1>. HIDE DEF b, e
<1>6. InFiles(e, g, k)
  <2>1. AllBefore(Stored(e), {})
    BY NoElems
  <2>. QED BY <1>2, <1>5, <2>1 DEF InFiles
<1>7. Stored(e) \cup Rest(g, k) = Stored(c) \cup {b}
  BY <1>2, <1>5
<1>8. Placed(M, e, g, k, Tail(p), D, H)
  BY <1>4, <1>6, <1>7 DEF Placed
<1>. QED BY <1>8 DEF e, b

\* The writer writes the next block.
LEMMA PlacedWritten ==
  ASSUME NEW c \in [Objects -> Seq(BlockSpace)], NEW g \in Seq(BlockSpace), NEW k \in Nat, k < Len(g),
         NEW b, b = g[k + 1], NEW M, NEW p, NEW D, NEW H, Placed(M, c, g, k, p, D, H)
  PROVE  Placed(M, [c EXCEPT ![b.file] = Append(@, b)], g, k + 1, p, D, H)
<1>. DEFINE e == [c EXCEPT ![b.file] = Append(@, b)]
            l == Len(g)
            R == Rest(g, k + 1)
<1>1. /\ l \in Nat /\ k + 1 \in (k + 1)..l /\ k + 1 \in 1..l /\ b \in BlockSpace
      /\ \A i \in (k + 1)..l : i = k + 1 \/ i \in ((k + 1) + 1)..l
      /\ \A i \in ((k + 1) + 1)..l : i \in (k + 1)..l /\ k + 1 < i
  OBVIOUS
<1>2. Rest(g, k) = {b} \cup R
  <2>1. \A i \in (k + 1)..l : g[i] \in {b} \cup R
    BY <1>1 DEF Rest
  <2>2. \A i \in ((k + 1) + 1)..l : g[i] \in Rest(g, k)
    BY <1>1 DEF Rest
  <2>3. b \in Rest(g, k)
    BY <1>1 DEF Rest
  <2>4. Rest(g, k) \subseteq {b} \cup R
    BY <2>1 DEF Rest
  <2>5. R \subseteq Rest(g, k)
    BY <2>2 DEF Rest
  <2>. HIDE DEF R
  <2>. QED BY <2>3, <2>4, <2>5
<1>3. AllBefore({b}, R)
  <2>. SUFFICES ASSUME NEW i \in ((k + 1) + 1)..l PROVE Before(b, g[i])
    BY DEF AllBefore, Rest
  <2>. QED BY <1>1 DEF Placed, InFiles
<1>. HIDE DEF R
<1>4. AllBefore(Stored(c), {b} \cup R)
  BY <1>2 DEF Placed, InFiles
<1>5. AllBefore(Stored(c), {b}) /\ AllBefore(Stored(c), R)
  BY <1>4, BeforeMore
<1>6. /\ Stored(e) = Stored(c) \cup {b}
      /\ \A o \in Objects : Rising(e[o]) /\ \A i \in 1..Len(e[o]) : e[o][i].file = o
  BY <1>1, <1>5, BlockStored DEF Placed, InFiles
<1>. HIDE DEF e
<1>7. AllBefore(Stored(e), R)
  BY <1>3, <1>5, <1>6 DEF AllBefore
<1>8. InFiles(e, g, k + 1)
  <2>1. \A i, j \in ((k + 1) + 1)..l : i < j => Before(g[i], g[j])
    BY <1>1 DEF Placed, InFiles
  <2>. QED BY <1>6, <1>7, <2>1 DEF InFiles, R, l
<1>9. Stored(e) \cup R = Stored(c) \cup Rest(g, k)
  BY <1>2, <1>6
<1>. QED BY <1>8, <1>9 DEF Placed, e, R

-----------------------------------------------------------------------------
(* The steps of the plan.                                                  *)

LEMMA WriterFacts ==
  ASSUME MuxInv
  PROVE  /\ contents \in [Objects -> Seq(BlockSpace)] /\ accepted \in Seq(BlockSpace)
         /\ Given \in Seq(BlockSpace) /\ Len(Given) \in Nat /\ Len(accepted) \in Nat
         /\ done \in 0..Len(Given) /\ done \in Nat /\ done <= Len(accepted)
         /\ queue \in Seq(BlockSpace \cup {Stop})
         /\ queue = <<>> => done = Len(accepted)
<1>1. /\ contents \in [Objects -> Seq(BlockSpace)] /\ accepted \in Seq(BlockSpace) /\ done \in Nat
      /\ queue \in Seq(BlockSpace \cup {Stop}) /\ done <= Len(accepted)
  BY DEF MuxInv, WP!Bookkeeping, WP!TypeOK, WP!QueueIsRest
<1>2. Given \in Seq(BlockSpace) /\ Len(accepted) \in Nat /\ Len(Given) \in Nat /\ Len(accepted) <= Len(Given)
  <2>1. cpc = "add" => cblock \in BlockSpace
    BY GivenBlocks DEF MuxInv
  <2>2. CASE cpc = "add"
    <3>1. Append(accepted, cblock) \in Seq(BlockSpace) /\ Len(Append(accepted, cblock)) = Len(accepted) + 1
      BY <1>1, <2>1, <2>2
    <3>. QED BY <1>1, <2>2, <3>1 DEF Given
  <2>3. CASE cpc # "add"
    BY <1>1, <2>3 DEF Given
  <2>. QED BY <2>2, <2>3
<1>3. ASSUME queue = <<>>
      PROVE  done = Len(accepted)
  <2>1. Len(queue) = Len(accepted) - done + WP!Unpopped + WP!StopsQueued
    BY DEF MuxInv, WP!Bookkeeping, WP!QueueIsRest
  <2>2. WP!Unpopped \in {0, 1} /\ WP!StopsQueued \in {0, 1}
    BY DEF WP!Unpopped, WP!StopsQueued
  <2>3. Len(queue) = 0
    BY <1>3
  <2>. QED BY <1>1, <1>2, <2>1, <2>2, <2>3
<1>4. done \in 0..Len(Given)
  BY <1>1, <1>2
<1>. QED BY <1>1, <1>2, <1>3, <1>4

\* The record stays as it is.
LEMMA RecordStays ==
  ASSUME mode' = mode, mux' = mux
  PROVE  /\ Counted(mux) => Counted(mux)'
         /\ HeldRising(mux) => HeldRising(mux)'
         /\ Rising(mux.delayed) => Rising(mux.delayed)'
         /\ Elems(mux.made)' = Elems(mux.made) /\ Elems(mux.delayed)' = Elems(mux.delayed)
         /\ Held(mux)' = Held(mux)
<1>1. Counted(mux) => Counted(mux)'
  BY DEF Counted
<1>2. HeldRising(mux) => HeldRising(mux)'
  BY DEF HeldRising, Active
<1>3. Elems(mux.made)' = Elems(mux.made) /\ Elems(mux.delayed)' = Elems(mux.delayed)
  BY DEF Elems
<1>4. Held(mux)' = Held(mux)
  BY DEF Held
<1>5. Rising(mux.delayed) => Rising(mux.delayed)'
  BY DEF Rising
<1>. QED BY <1>1, <1>2, <1>3, <1>4, <1>5

\* An operation of the plan: what it writes gets to where it belongs.
LEMMA PlanKeeps ==
  ASSUME MuxInv, OutputInv, NEW op, Doing(op), todo' = Tail(todo), mode' = mode, mux' = mux,
         phase' = phase, lastErrorCode' = lastErrorCode,
         (Drained /\ op # "write") \/ op = "wait" => Drained', op = "destroy" \/ Muxing',
         \A M, D, H : ~mode.diskMayFail /\ Placed(M, contents, Given, done, todo, D, H)
                        => Placed(M, contents', Given', done', Tail(todo), D, H)
  PROVE  OutputInv'
<1>1. todo # <<>> /\ cpc = "idle" /\ todo \in Seq(OpSpace) /\ Muxing /\ Head(todo).op = op
  BY DoingFacts
<1>2. /\ Direct(Drained, todo) => Direct(Drained', Tail(todo)) /\ Head(todo).op # "destroy"
      /\ PlanEnds(Drained, todo) => /\ PlanEnds(Drained', Tail(todo))
                                    /\ Head(todo).op = "destroy" => Tail(todo) = <<>>
  BY <1>1, WaitedTail
<1>. SUFFICES ASSUME ~mode.diskMayFail
              PROVE  /\ lastErrorCode' = 0
                     /\ phase = "mux" =>
                          /\ Counted(mux)' /\ HeldRising(mux)' /\ Rising(mux.delayed)'
                          /\ Placed(Elems(mux.made)', contents', Given', done', todo', Elems(mux.delayed)', Held(mux)')
                          /\ Direct(Drained', todo')
                     /\ phase \in {"end", "complete"} =>
                          /\ Counted(mux)' /\ PlanEnds(Drained', todo') /\ (Muxing' \/ todo' = <<>>)
                          /\ Placed(Elems(mux.made)', contents', Given', done', todo', {}, {})
                     /\ phase # "complete"
  BY DEF OutputInv
<1>3. lastErrorCode = 0 /\ phase # "complete"
  BY <1>1 DEF OutputInv
<1>4. CASE phase = "mux"
  <2>1. /\ Counted(mux) /\ HeldRising(mux) /\ Rising(mux.delayed) /\ Direct(Drained, todo)
        /\ Placed(Elems(mux.made), contents, Given, done, todo, Elems(mux.delayed), Held(mux))
    BY <1>1, <1>4 DEF OutputInv
  <2>2. Counted(mux)' /\ HeldRising(mux)' /\ Rising(mux.delayed)'
    BY <2>1, RecordStays
  <2>3. Placed(Elems(mux.made), contents', Given', done', todo', Elems(mux.delayed), Held(mux))
    BY <2>1
  <2>4. Placed(Elems(mux.made)', contents', Given', done', todo', Elems(mux.delayed)', Held(mux)')
    BY <2>3, RecordStays
  <2>. QED BY <1>2, <1>3, <1>4, <2>1, <2>2, <2>4
<1>5. CASE phase = "end"
  <2>1. /\ Counted(mux) /\ PlanEnds(Drained, todo)
        /\ Placed(Elems(mux.made), contents, Given, done, todo, {}, {})
    BY <1>5 DEF OutputInv
  <2>2. Placed(Elems(mux.made)', contents', Given', done', todo', {}, {})
    BY <2>1, RecordStays
  <2>3. Counted(mux)'
    BY <2>1, RecordStays
  <2>. QED BY <1>1, <1>2, <1>3, <1>5, <2>1, <2>2, <2>3
<1>. QED BY <1>3, <1>4, <1>5

\* An operation that writes nothing.
LEMMA SilentStep ==
  ASSUME MuxInv, OutputInv, NEW op, Doing(op), op \in {"wait", "destroy", "close", "reopen", "open"},
         todo' = Tail(todo), mode' = mode, mux' = mux, phase' = phase,
         op \notin {"wait", "destroy"} => cpc' = cpc, op = "wait" => cpc' = "wait", op = "destroy" => cpc' = "flag",
         UNCHANGED <<queue, lastErrorCode, accepted, done, contents>>
  PROVE  OutputInv'
<1>1. todo # <<>> /\ cpc = "idle" /\ todo \in Seq(OpSpace) /\ Muxing /\ Head(todo).op = op
  BY DoingFacts
<1>2. ~Writes(Head(todo))
  BY <1>1 DEF Writes
<1>3. Given' = Given
  BY <1>1 DEF Given
<1>4. (Drained \/ op = "wait" => Drained') /\ (op = "destroy" \/ Muxing')
  BY <1>1 DEF Drained, Muxing
<1>5. \A M, D, H : Placed(M, contents, Given, done, todo, D, H)
                     => Placed(M, contents', Given', done', Tail(todo), D, H)
  BY <1>1, <1>2, <1>3, PlacedSilent
<1>. QED BY <1>4, <1>5, PlanKeeps

LEMMA WriteOutput == ASSUME MuxInv, OutputInv, DoWrite PROVE OutputInv'
<1>1. /\ Doing("write") /\ todo' = Tail(todo) /\ cpc' = "add" /\ cblock' = Arg
      /\ mode' = mode /\ mux' = mux /\ file' = file /\ phase' = phase /\ lastErrorCode' = lastErrorCode
      /\ accepted' = accepted /\ queue' = queue /\ done' = done /\ contents' = contents
  BY DEF DoWrite, W!Submit, W!fieldVars, W!writeVars
<1>2. /\ todo # <<>> /\ cpc = "idle" /\ todo \in Seq(OpSpace) /\ Head(todo).arg = Arg /\ Writes(Head(todo))
  BY <1>1, DoingFacts
<1>3. Given' = Append(Given, Head(todo).arg) /\ Muxing'
  BY <1>1, <1>2 DEF Given, Muxing
<1>4. Given \in Seq(BlockSpace) /\ done \in 0..Len(Given)
  BY WriterFacts
<1>5. \A M, D, H : Placed(M, contents, Given, done, todo, D, H)
                     => Placed(M, contents', Given', done', Tail(todo), D, H)
  BY <1>1, <1>2, <1>3, <1>4, PlacedGiven
<1>. QED BY <1>1, <1>3, <1>5, PlanKeeps

\* The muxing thread writes itself only when nothing is left to the writer.
LEMMA HereOutput ==
  ASSUME MuxInv, OutputInv, NEW op \in {"direct", "append"}, Doing(op), ~mode.diskMayFail => WriteHere(Arg),
         todo' = Tail(todo), UNCHANGED <<mode, mux, phase>>,
         UNCHANGED <<queue, terminated, lastErrorCode, tpc, tcmd, cpc, cblock, accepted, done>>
  PROVE  OutputInv'
<1>1. /\ todo # <<>> /\ cpc = "idle" /\ todo \in Seq(OpSpace) /\ Head(todo).arg = Arg /\ Writes(Head(todo))
      /\ Head(todo).op = op /\ IsOpen(Arg.file) /\ Muxing /\ Head(todo) = todo[1] /\ 1 \in 1..Len(todo)
  BY DoingFacts, TailOfPlan
<1>2. Given' = Given /\ Muxing' /\ Given = accepted /\ Drained' = Drained
  BY <1>1 DEF Given, Muxing, Drained
<1>3. ASSUME ~mode.diskMayFail, phase \in {"mux", "end", "complete"}
      PROVE  done = Len(Given)
  <2>1. Waited(Drained, todo, 0)
    <3>1. Direct(Drained, todo) \/ PlanEnds(Drained, todo)
      BY <1>1, <1>3 DEF OutputInv
    <3>. QED BY <1>1, <3>1 DEF Direct, PlanEnds
  <2>2. queue = <<>>
    BY <1>1, <2>1 DEF Waited, Drained
  <2>. QED BY <1>2, <2>2, WriterFacts
<1>4. ASSUME ~mode.diskMayFail
      PROVE  contents' = [contents EXCEPT ![Head(todo).arg.file] = Append(@, Head(todo).arg)]
  BY <1>1, <1>4 DEF WriteHere
<1>5. CASE phase \in {"mux", "end", "complete"}
  <2>1. contents \in [Objects -> Seq(BlockSpace)] /\ Given \in Seq(BlockSpace) /\ done \in Nat
    BY WriterFacts
  <2>2. \A M, D, H : ~mode.diskMayFail /\ Placed(M, contents, Given, done, todo, D, H)
                       => Placed(M, contents', Given', done', Tail(todo), D, H)
    <3>. SUFFICES ASSUME ~mode.diskMayFail, NEW M, NEW D, NEW H, Placed(M, contents, Given, done, todo, D, H)
                  PROVE  Placed(M, contents', Given, done, Tail(todo), D, H)
      BY <1>2
    <3>. QED BY <1>1, <1>3, <1>4, <1>5, <2>1, PlacedDirect
  <2>3. (Drained /\ op # "write") \/ op = "wait" => Drained'
    BY <1>2
  <2>4. op = "destroy" \/ Muxing'
    BY <1>2
  <2>. QED BY <2>2, <2>3, <2>4, PlanKeeps
<1>6. CASE phase \notin {"mux", "end", "complete"}
  BY <1>6 DEF OutputInv
<1>. QED BY <1>5, <1>6

\* Where the disk may fail nothing is promised.
LEMMA DiskFails == ASSUME mode.diskMayFail, mode' = mode PROVE OutputInv'
BY DEF OutputInv

LEMMA PlanOutput == ASSUME MuxInv, OutputInv, Plan PROVE OutputInv'
<1>1. CASE DoWrite
  BY <1>1, WriteOutput
<1>2. CASE DoWait
  <2>1. /\ Doing("wait") /\ todo' = Tail(todo) /\ cpc' = "wait" /\ mode' = mode /\ mux' = mux
        /\ phase' = phase /\ UNCHANGED <<queue, lastErrorCode, accepted, done, contents>>
    BY <1>2 DEF DoWait, W!StartWaiting, W!fieldVars, W!writeVars
  <2>. QED BY <2>1, SilentStep
<1>3. CASE DoDestroy
  <2>1. /\ Doing("destroy") /\ todo' = Tail(todo) /\ cpc' = "flag" /\ mode' = mode /\ mux' = mux
        /\ phase' = phase /\ UNCHANGED <<queue, lastErrorCode, accepted, done, contents>>
    BY <1>3 DEF DoDestroy, W!Destroy, W!fieldVars, W!writeVars
  <2>. QED BY <2>1, SilentStep
<1>4. CASE DoDirect
  <2>1. /\ Doing("direct") /\ todo' = Tail(todo) /\ UNCHANGED <<mode, mux, phase>>
        /\ UNCHANGED <<queue, terminated, lastErrorCode, tpc, tcmd, cpc, cblock, accepted, done>>
        /\ ~mode.diskMayFail => WriteHere(Arg)
    BY <1>4 DEF DoDirect
  <2>. QED BY <2>1, HereOutput
<1>5. CASE DoAppend
  <2>1. /\ Doing("append") /\ UNCHANGED <<mode, mux>>
        /\ UNCHANGED <<queue, terminated, lastErrorCode, tpc, tcmd, cpc, cblock, accepted, done>>
        /\ ~mode.diskMayFail => WriteHere(Arg) /\ todo' = Tail(todo) /\ UNCHANGED phase
    BY <1>5 DEF DoAppend
  <2>2. CASE mode.diskMayFail
    BY <2>1, <2>2, DiskFails
  <2>3. CASE ~mode.diskMayFail
    BY <2>1, <2>3, HereOutput
  <2>. QED BY <2>2, <2>3
<1>6. CASE DoClose
  <2>1. /\ Doing("close") /\ todo' = Tail(todo) /\ cpc' = cpc /\ mode' = mode /\ mux' = mux
        /\ phase' = phase /\ UNCHANGED <<queue, lastErrorCode, accepted, done, contents>>
    BY <1>6 DEF DoClose, writerVars
  <2>. QED BY <2>1, SilentStep
<1>7. CASE DoReopen
  <2>1. /\ Doing("reopen") /\ cpc' = cpc /\ mode' = mode /\ mux' = mux
        /\ UNCHANGED <<queue, lastErrorCode, accepted, done, contents>>
        /\ mode.diskMayFail \/ (todo' = Tail(todo) /\ phase' = phase)
    BY <1>7 DEF DoReopen, writerVars
  <2>2. CASE mode.diskMayFail
    BY <2>1, <2>2, DiskFails
  <2>3. CASE todo' = Tail(todo) /\ phase' = phase
    BY <2>1, <2>3, SilentStep
  <2>. QED BY <2>1, <2>2, <2>3
<1>8. CASE DoOpen
  <2>1. /\ Doing("open") /\ cpc' = cpc /\ mode' = mode /\ mux' = mux
        /\ UNCHANGED <<queue, lastErrorCode, accepted, done, contents>>
        /\ mode.diskMayFail \/ (todo' = Tail(todo) /\ phase' = phase)
    BY <1>8 DEF DoOpen, writerVars
  <2>2. CASE mode.diskMayFail
    BY <2>1, <2>2, DiskFails
  <2>3. CASE todo' = Tail(todo) /\ phase' = phase
    BY <2>1, <2>3, SilentStep
  <2>. QED BY <2>1, <2>2, <2>3
<1>. QED BY <1>1, <1>2, <1>3, <1>4, <1>5, <1>6, <1>7, <1>8 DEF Plan

-----------------------------------------------------------------------------
(* The writer's steps.                                                     *)

\* The writer goes on, and with it the blocks.
LEMMA WriterKeeps ==
  ASSUME OutputInv, UNCHANGED own, Muxing' <=> Muxing, Muxing /\ Drained => Drained',
         ~mode.diskMayFail /\ lastErrorCode = 0 => lastErrorCode' = 0, cpc = "gone" => cpc' = "gone",
         \A M, D, H : ~mode.diskMayFail /\ Placed(M, contents, Given, done, todo, D, H)
                        => Placed(M, contents', Given', done', todo, D, H)
  PROVE  OutputInv'
<1>1. mode' = mode /\ mux' = mux /\ todo' = todo /\ phase' = phase
  BY DEF own
<1>2. Muxing => /\ Direct(Drained, todo) => Direct(Drained', todo)
                /\ PlanEnds(Drained, todo) => PlanEnds(Drained', todo)
  <2>1. Muxing => \A n : Waited(Drained, todo, n) => Waited(Drained', todo, n)
    BY DEF Waited
  <2>. QED BY <2>1 DEF Direct, PlanEnds
<1>3. \A d : PlanEnds(d, <<>>)
  BY DEF PlanEnds
<1>. SUFFICES ASSUME ~mode.diskMayFail
              PROVE  /\ lastErrorCode' = 0
                     /\ phase = "mux" /\ Muxing =>
                          /\ Counted(mux)' /\ HeldRising(mux)' /\ Rising(mux.delayed)'
                          /\ Placed(Elems(mux.made)', contents', Given', done', todo', Elems(mux.delayed)', Held(mux)')
                          /\ Direct(Drained', todo')
                     /\ phase \in {"end", "complete"} =>
                          /\ Counted(mux)' /\ PlanEnds(Drained', todo') /\ (Muxing' \/ todo' = <<>>)
                          /\ Placed(Elems(mux.made)', contents', Given', done', todo', {}, {})
                     /\ phase = "complete" => cpc' = "gone"
  BY <1>1 DEF OutputInv
<1>4. lastErrorCode' = 0 /\ (phase = "complete" => cpc' = "gone")
  BY DEF OutputInv
<1>5. ASSUME phase = "mux", Muxing
      PROVE  /\ Counted(mux)' /\ HeldRising(mux)' /\ Rising(mux.delayed)'
             /\ Placed(Elems(mux.made)', contents', Given', done', todo', Elems(mux.delayed)', Held(mux)')
             /\ Direct(Drained', todo')
  <2>1. /\ Counted(mux) /\ HeldRising(mux) /\ Rising(mux.delayed) /\ Direct(Drained, todo)
        /\ Placed(Elems(mux.made), contents, Given, done, todo, Elems(mux.delayed), Held(mux))
    BY <1>5 DEF OutputInv
  <2>2. Counted(mux)' /\ HeldRising(mux)' /\ Rising(mux.delayed)'
    BY <1>1, <2>1, RecordStays
  <2>3. Placed(Elems(mux.made), contents', Given', done', todo', Elems(mux.delayed), Held(mux))
    BY <1>1, <2>1
  <2>4. Placed(Elems(mux.made)', contents', Given', done', todo', Elems(mux.delayed)', Held(mux)')
    BY <1>1, <2>3, RecordStays
  <2>. QED BY <1>1, <1>2, <1>5, <2>1, <2>2, <2>4
<1>6. ASSUME phase \in {"end", "complete"}
      PROVE  /\ Counted(mux)' /\ PlanEnds(Drained', todo') /\ (Muxing' \/ todo' = <<>>)
             /\ Placed(Elems(mux.made)', contents', Given', done', todo', {}, {})
  <2>1. /\ Counted(mux) /\ PlanEnds(Drained, todo) /\ (Muxing \/ todo = <<>>)
        /\ Placed(Elems(mux.made), contents, Given, done, todo, {}, {})
    BY <1>6 DEF OutputInv
  <2>2. Placed(Elems(mux.made)', contents', Given', done', todo', {}, {})
    BY <1>1, <2>1, RecordStays
  <2>3. Counted(mux)'
    BY <1>1, <2>1, RecordStays
  <2>4. PlanEnds(Drained', todo')
    BY <1>1, <1>2, <1>3, <2>1
  <2>. QED BY <1>1, <2>1, <2>2, <2>3, <2>4
<1>. QED BY <1>4, <1>5, <1>6

\* What is at the head of the queue is the next block to be written.
LEMMA NextWritten ==
  ASSUME MuxInv, queue # <<>>, WP!Unpopped = 0, NEW cmd, cmd = Head(queue),
         NEW o \in {"ok", "short", "throws"}, W!Execute(cmd, o), Written(cmd),
         accepted' = accepted, Given = accepted \/ cpc = "add"
  PROVE  \A M, D, H : ~mode.diskMayFail /\ Placed(M, contents, Given, done, todo, D, H)
                        => Placed(M, contents', Given, done', todo, D, H)
<1>. SUFFICES ASSUME ~mode.diskMayFail, NEW M, NEW D, NEW H, Placed(M, contents, Given, done, todo, D, H)
              PROVE  Placed(M, contents', Given, done', todo, D, H)
  OBVIOUS
<1>1. /\ contents \in [Objects -> Seq(BlockSpace)] /\ Given \in Seq(BlockSpace) /\ done \in Nat
      /\ accepted \in Seq(BlockSpace) /\ Len(accepted) \in Nat /\ queue \in Seq(BlockSpace \cup {Stop})
      /\ Len(Given) \in Nat
  BY WriterFacts
<1>2. CASE cmd = Stop
  BY <1>2 DEF W!Execute, W!writeVars
<1>3. CASE cmd # Stop
  <2>1. /\ cmd = queue[1] /\ Len(accepted) - done + WP!Unpopped > 0
        /\ cmd = accepted[done - WP!Unpopped + 1]
    BY <1>3, WriterAssumptionHolds, WP!HeadOfQueue DEF MuxInv
  <2>2. done < Len(accepted) /\ cmd = accepted[done + 1]
    BY <1>1, <2>1
  <2>3. done < Len(Given) /\ cmd = Given[done + 1]
    <3>1. CASE Given = accepted
      BY <2>2, <3>1
    <3>2. CASE cpc = "add"
      <4>1. Given = Append(accepted, cblock) /\ cblock \in BlockSpace
        BY <3>2, GivenBlocks DEF Given, MuxInv
      <4>. QED BY <1>1, <2>2, <4>1
    <3>. QED BY <3>1, <3>2
  <2>4. IsOpen(cmd.file)
    <3>1. 1 \in 1..Len(queue)
      BY <1>1
    <3>. QED BY <1>3, <2>1, <3>1 DEF MuxInv, Pending
  <2>5. contents' # contents
    BY <1>3, <2>4 DEF Written
  <2>6. done' = done + 1 /\ contents' = [contents EXCEPT ![cmd.file] = Append(@, cmd)]
    BY <1>3, <2>5 DEF W!Execute
  <2>. QED BY <1>1, <2>3, <2>6, PlacedWritten
<1>. QED BY <1>2, <1>3

LEMMA ThreadOutput == ASSUME MuxInv, OutputInv, WriterThread PROVE OutputInv'
<1>1. UNCHANGED own /\ mode' = mode /\ todo' = todo
  BY DEF WriterThread, own
<1>2. /\ cpc' = cpc /\ cblock' = cblock /\ accepted' = accepted
      /\ queue' = queue \/ queue # <<>>
  BY DEF WriterThread, W!ThreadTest, W!ThreadPeek, W!ThreadPop, W!ThreadExecute,
         W!fieldVars, W!callerVars
<1>3. Given' = Given /\ Muxing' = Muxing /\ (Drained => Drained')
  BY <1>2 DEF Given, Muxing, Drained
<1>4. CASE W!ThreadTest \/ W!ThreadPeek \/ W!ThreadPop
  <2>1. lastErrorCode' = lastErrorCode /\ done' = done /\ contents' = contents
    BY <1>4 DEF W!ThreadTest, W!ThreadPeek, W!ThreadPop, W!fieldVars, W!writeVars
  <2>. QED BY <1>1, <1>2, <1>3, <2>1, WriterKeeps
<1>5. CASE W!ThreadExecute /\ Written(tcmd)
  <2>1. PICK o \in {"ok", "short", "throws"} : W!Execute(tcmd, o)
    BY <1>5 DEF W!ThreadExecute
  <2>2. tpc = "execute"
    BY <1>5 DEF W!ThreadExecute
  <2>3. queue # <<>> /\ tcmd = Head(queue) /\ WP!Unpopped = 0
    BY <2>2 DEF MuxInv, WP!Bookkeeping, WP!ThreadHolds, WP!Unpopped
  <2>4. Given = accepted \/ cpc = "add"
    BY DEF Given
  <2>5. \A M, D, H : ~mode.diskMayFail /\ Placed(M, contents, Given, done, todo, D, H)
                       => Placed(M, contents', Given, done', todo, D, H)
    BY <1>2, <1>5, <2>1, <2>3, <2>4, NextWritten
  <2>6. ~mode.diskMayFail => lastErrorCode' = 0
    BY <1>5 DEF Written
  <2>. QED BY <1>1, <1>2, <1>3, <2>5, <2>6, WriterKeeps
<1>. QED BY <1>4, <1>5 DEF WriterThread

LEMMA CallOutput == ASSUME MuxInv, OutputInv, WriterCall PROVE OutputInv'
<1>1. UNCHANGED own /\ mode' = mode /\ todo' = todo
  BY DEF WriterCall, own
<1>2. CASE W!AddWriterData
  <2>1. /\ cpc = "add" /\ cpc' = "idle" /\ accepted' = Append(accepted, cblock)
        /\ lastErrorCode' = lastErrorCode /\ done' = done /\ contents' = contents
    BY <1>2 DEF W!AddWriterData, W!writeVars
  <2>2. Given' = Given /\ Muxing' /\ Muxing /\ ~Drained
    BY <2>1 DEF Given, Muxing, Drained
  <2>. QED BY <1>1, <2>1, <2>2, WriterKeeps
<1>3. CASE W!WaitEnds
  <2>1. /\ cpc = "wait" /\ cpc' = "idle" /\ accepted' = accepted /\ queue' = <<>>
        /\ lastErrorCode' = lastErrorCode /\ done' = done /\ contents' = contents
    BY <1>3 DEF W!WaitEnds, W!fieldVars, W!writeVars
  <2>2. Given' = Given /\ Muxing' /\ Muxing /\ Drained'
    BY <2>1 DEF Given, Muxing, Drained
  <2>. QED BY <1>1, <2>1, <2>2, WriterKeeps
<1>4. CASE W!SetTerminated \/ W!PushStop \/ W!Join \/ W!DrainEnds
  <2>1. /\ cpc \in {"flag", "push", "join", "drain"} /\ cpc' \in {"push", "join", "drain", "gone"}
        /\ accepted' = accepted
        /\ lastErrorCode' = lastErrorCode /\ done' = done /\ contents' = contents
    BY <1>4 DEF W!SetTerminated, W!PushStop, W!Join, W!DrainEnds, W!fieldVars, W!writeVars
  <2>2. Given' = Given /\ ~Muxing' /\ ~Muxing
    BY <2>1 DEF Given, Muxing
  <2>. QED BY <1>1, <2>1, <2>2, WriterKeeps
<1>5. CASE W!Drain /\ Written(Head(queue))
  <2>1. /\ cpc = "drain" /\ cpc' \in {"aborted", "drain"} /\ queue # <<>> /\ accepted' = accepted
        /\ lastErrorCode' = lastErrorCode
    BY <1>5 DEF W!Drain
  <2>2. Given' = accepted /\ Given = accepted /\ ~Muxing' /\ ~Muxing
    BY <2>1 DEF Given, Muxing
  <2>3. PICK o \in {"ok", "short", "throws"} : W!Execute(Head(queue), o)
    BY <1>5 DEF W!Drain
  <2>4. WP!Unpopped = 0
    BY <2>1 DEF MuxInv, WP!Bookkeeping, WP!CallerPhases, WP!Unpopped
  <2>5. \A M, D, H : ~mode.diskMayFail /\ Placed(M, contents, Given, done, todo, D, H)
                       => Placed(M, contents', Given, done', todo, D, H)
    BY <1>5, <2>1, <2>2, <2>3, <2>4, NextWritten
  <2>. QED BY <1>1, <2>1, <2>2, <2>5, WriterKeeps
<1>. QED BY <1>2, <1>3, <1>4, <1>5 DEF WriterCall

\* Without an error addWriterData does not throw.
LEMMA ThrowsOutput == ASSUME MuxInv, OutputInv, WriterThrows PROVE OutputInv'
<1>1. lastErrorCode # 0 /\ cpc = "add" /\ mode' = mode /\ phase' = "failed" /\ lastErrorCode' = lastErrorCode
  BY DEF WriterThrows, W!AddThrows, W!fieldVars
<1>. QED BY <1>1 DEF OutputInv

LEMMA DeleteOutput == ASSUME MuxInv, OutputInv, DeleteMuxers PROVE OutputInv'
<1>1. /\ mode' = mode /\ mux' = mux /\ todo' = todo /\ UNCHANGED writerVars /\ cpc = "gone" /\ cpc' = cpc
      /\ accepted' = accepted /\ done' = done /\ contents' = contents /\ lastErrorCode' = lastErrorCode
      /\ phase \in {"end", "failed"} /\ phase' = IF phase = "end" THEN "complete" ELSE "over"
  BY DEF DeleteMuxers, writerVars
<1>2. ~Muxing /\ ~Muxing' /\ Given' = Given
  BY <1>1 DEF Muxing, Given
<1>3. CASE phase = "end"
  <2>. SUFFICES ASSUME ~mode.diskMayFail
                PROVE  /\ lastErrorCode' = 0 /\ Counted(mux)' /\ PlanEnds(Drained', todo') /\ todo' = <<>>
                       /\ Placed(Elems(mux.made)', contents', Given', done', todo', {}, {})
    BY <1>1, <1>2, <1>3 DEF OutputInv
  <2>1. /\ lastErrorCode = 0 /\ Counted(mux) /\ todo = <<>>
        /\ Placed(Elems(mux.made), contents, Given, done, todo, {}, {})
    BY <1>2, <1>3 DEF OutputInv
  <2>2. PlanEnds(Drained', <<>>)
    BY DEF PlanEnds
  <2>. QED BY <1>1, <1>2, <2>1, <2>2, RecordStays
<1>4. CASE phase = "failed"
  BY <1>1, <1>4 DEF OutputInv
<1>. QED BY <1>1, <1>3, <1>4

LEMMA NothingOutput == ASSUME OutputInv, UNCHANGED vars PROVE OutputInv'
<1>1. /\ UNCHANGED own /\ cpc' = cpc /\ accepted' = accepted /\ cblock' = cblock /\ queue' = queue
      /\ done' = done /\ contents' = contents /\ lastErrorCode' = lastErrorCode /\ mode' = mode /\ todo' = todo
  BY DEF vars, own, writerVars
<1>2. Given' = Given /\ Muxing' = Muxing /\ Drained' = Drained
  BY <1>1 DEF Given, Muxing, Drained
<1>. QED BY <1>1, <1>2, WriterKeeps

-----------------------------------------------------------------------------
(* A packet, and the end of the input.                                     *)

\* What is handed over, or in the files.
HandedNow == Stored(contents) \cup Rest(Given, done)

LEMMA MuxInLine ==
  ASSUME MuxInv, OutputInv, Idle, ~mode.diskMayFail
  PROVE  Lined(mux, HandedNow) /\ InFiles(contents, Given, done) /\ lastErrorCode = 0
<1>1. phase = "mux" /\ Muxing /\ todo = <<>> /\ mux.plan = <<>>
  BY DEF Idle, Muxing, MuxInv, Rested
<1>2. /\ lastErrorCode = 0 /\ Counted(mux) /\ HeldRising(mux) /\ Rising(mux.delayed)
      /\ Placed(Elems(mux.made), contents, Given, done, mux.plan, Elems(mux.delayed), Held(mux))
      /\ Direct(Drained, mux.plan)
  BY <1>1 DEF OutputInv
<1>. QED BY <1>2 DEF Lined, Placed, HandedNow

\* The plan of a packet is left to be carried out.
LEMMA CarryOutput ==
  ASSUME MuxInv, OutputInv, Idle, NEW s \in MuxSpace, s.packets < MaxPackets,
         ~mode.diskMayFail => Lined(s, HandedNow),
         Carry(CountPacket(s)), UNCHANGED <<mode, file, phase, writerVars>>
  PROVE  OutputInv'
<1>. DEFINE c == s.packets + 1
            u == [s EXCEPT !.packets = c]
            t == [u EXCEPT !.plan = <<>>]
<1>1. /\ mode' = mode /\ phase' = phase /\ phase = "mux" /\ cpc' = cpc /\ cblock' = cblock
      /\ accepted' = accepted /\ queue' = queue /\ done' = done /\ contents' = contents
      /\ lastErrorCode' = lastErrorCode
  BY DEF Idle, writerVars
<1>2. Given' = Given /\ Drained' = Drained
  BY <1>1 DEF Given, Drained
<1>3. u = CountPacket(s) /\ mux' = t /\ todo' = u.plan
  BY DEF Carry, CountPacket
<1>. HIDE DEF c
<1>4. /\ u.held = s.held /\ u.delayed = s.delayed /\ u.plan = s.plan /\ u.made = s.made
      /\ t.held = u.held /\ t.delayed = u.delayed /\ t.made = u.made
  BY DEF MuxSpace
<1>. HIDE DEF t, u
<1>5. /\ todo' = s.plan /\ mux'.held = s.held /\ mux'.delayed = s.delayed /\ mux'.made = s.made
  BY <1>3, <1>4
<1>. SUFFICES ASSUME ~mode.diskMayFail
              PROVE  /\ lastErrorCode' = 0
                     /\ Counted(mux)' /\ HeldRising(mux)' /\ Rising(mux.delayed)'
                     /\ Placed(Elems(mux.made)', contents', Given', done', todo', Elems(mux.delayed)', Held(mux)')
                     /\ Direct(Drained', todo')
  BY <1>1 DEF OutputInv
<1>6. lastErrorCode = 0 /\ InFiles(contents, Given, done) /\ Lined(s, HandedNow)
  BY MuxInLine
<1>7. Counted(mux)'
  BY <1>5, <1>6 DEF Lined, Counted
<1>8. HeldRising(mux)'
  BY <1>1, <1>5, <1>6 DEF Lined, HeldRising, Active
<1>9. Rising(mux.delayed)'
  BY <1>5, <1>6 DEF Lined, Rising
<1>10. /\ Elems(mux.made)' = Elems(s.made) /\ Elems(mux.delayed)' = Elems(s.delayed)
       /\ Held(mux)' = Held(s)
  BY <1>5 DEF Elems, Held
<1>11. Placed(Elems(s.made), contents, Given, done, s.plan, Elems(s.delayed), Held(s))
  BY <1>6 DEF Lined, Placed, HandedNow
<1>12. Placed(Elems(mux.made)', contents', Given', done', todo', Elems(mux.delayed)', Held(mux)')
  BY <1>1, <1>2, <1>5, <1>10, <1>11
<1>13. Direct(Drained', todo')
  BY <1>2, <1>5, <1>6 DEF Lined
<1>. QED BY <1>1, <1>6, <1>7, <1>8, <1>9, <1>12, <1>13

LEMMA PacketOutput ==
  ASSUME MuxInv, OutputInv, NEW m \in Active, MuxPacket(m)
  PROVE  OutputInv'
<1>1. Idle /\ mux.packets < MaxPackets /\ mode \in Modes /\ UNCHANGED <<mode, file, phase, writerVars>>
  BY DEF MuxPacket, MuxInv
<1>2. Ready(mux)
  BY <1>1, IdleReady
<1>3. PICK full, timed, pcr \in BOOLEAN :
        Carry(CountPacket(IF pcr THEN WritePCR(Filled(m, full, timed), m) ELSE Filled(m, full, timed)))
  BY DEF MuxPacket
<1>. DEFINE s == Filled(m, full, timed)
            w == WritePCR(s, m)
            r == IF pcr THEN w ELSE s
<1>4. PacketBegun(s, m)
  BY <1>1, <1>2, FilledReady
<1>5. ~mode.diskMayFail => Lined(s, HandedNow)
  BY <1>1, <1>2, MuxInLine, FilledInLine
<1>6. Carry(CountPacket(r))
  BY <1>3
<1>. HIDE DEF s
<1>7. Ready(s) /\ Sound(s) /\ s \in MuxSpace
  BY <1>4, SoundTypes DEF PacketBegun, Ready
<1>8. Ready(w) /\ Alike(w, s)
  BY <1>1, <1>7, ReadyPCR
<1>9. ~mode.diskMayFail => Lined(w, HandedNow)
  BY <1>1, <1>5, <1>7, PCRInLine
<1>. HIDE DEF w
<1>10. w \in MuxSpace
  BY <1>8, SoundTypes DEF Ready
<1>11. r \in MuxSpace /\ r.packets < MaxPackets /\ (~mode.diskMayFail => Lined(r, HandedNow))
  BY <1>1, <1>4, <1>5, <1>7, <1>8, <1>9, <1>10 DEF PacketBegun, Alike
<1>. HIDE DEF r
<1>. QED BY <1>1, <1>6, <1>11, CarryOutput

\* A block ends, and perhaps the file.
LEMMA BlockOutput ==
  ASSUME MuxInv, OutputInv, CleanSplits, NEW m \in Active, Idle, mux.packets < MaxPackets, CanSwitchBlock(m),
         NEW full \in BOOLEAN, NEW timed \in BOOLEAN, NEW ch \in BOOLEAN, NEW part \in BOOLEAN,
         ch => mode.split /\ mux.objects <= MaxSplits * Cardinality(Active),
         Carry(CountPacket(FinishFileBlock(Filled(m, full, timed), m, ch, part))),
         UNCHANGED <<mode, file, phase, writerVars>>
  PROVE  OutputInv'
<1>1. mode \in Modes /\ file \in FileSpace /\ mux \in MuxSpace
  BY DEF MuxInv
<1>2. Ready(mux) /\ ~mux.finished[Second] /\ m = First
  BY <1>1, IdleReady, SwitcherIsFirst
<1>. DEFINE s == Filled(m, full, timed)
            r == FinishFileBlock(s, m, ch, part)
<1>3. PacketBegun(s, m)
  BY <1>1, <1>2, FilledReady
<1>4. ~mode.diskMayFail => Lined(s, HandedNow)
  BY <1>1, <1>2, MuxInLine, FilledInLine
<1>5. Carry(CountPacket(r))
  OBVIOUS
<1>. HIDE DEF s
<1>6. ch => s.objects + (IF mode.stereo THEN 2 ELSE 1) \in Objects
  <2>. SUFFICES ASSUME ch PROVE s.objects + (IF mode.stereo THEN 2 ELSE 1) \in Objects
    OBVIOUS
  <2>1. s.objects = mux.objects
    BY <1>3 DEF PacketBegun, Alike
  <2>2. mux.objects \in Nat /\ mux.objects >= 1
    <3>1. mux.objects \in Objects
      BY <1>1 DEF MuxSpace
    <3>. QED BY <3>1 DEF Objects
  <2>3. mode.stereo \in BOOLEAN /\ MaxSplits \in Nat
    BY <1>1, ModeFacts, ModesAssumption
  <2>4. CASE mode.stereo
    <3>1. mux.objects <= MaxSplits * 2
      BY <1>1, <2>4, ActiveCounted
    <3>. QED BY <2>1, <2>2, <2>3, <2>4, <3>1 DEF Objects
  <2>5. CASE ~mode.stereo
    <3>1. mux.objects <= MaxSplits * 1
      BY <1>1, <2>5, ActiveCounted
    <3>. QED BY <2>1, <2>2, <2>3, <2>5, <3>1 DEF Objects
  <2>. QED BY <2>3, <2>4, <2>5
<1>7. Ready(s) /\ s.started[m] /\ ~s.finished[Second]
  BY <1>2, <1>3 DEF PacketBegun
<1>8. BlocksEnd(r, s)
  BY <1>1, <1>2, <1>6, <1>7, FileBlockSound
<1>9. ~mode.diskMayFail => Lined(r, HandedNow)
  BY <1>1, <1>2, <1>4, <1>6, <1>7, FileBlockInLine
<1>. HIDE DEF r
<1>10. r \in MuxSpace /\ r.packets < MaxPackets
  BY <1>3, <1>8, SoundTypes DEF BlocksEnd, Ready, PacketBegun, Alike
<1>. QED BY <1>5, <1>9, <1>10, CarryOutput

LEMMA PacketsOutput == ASSUME MuxInv, OutputInv, CleanSplits, Packet PROVE OutputInv'
<1>1. PICK m \in Active : MuxSplit(m) \/ MuxEndsBlock(m) \/ MuxPacket(m)
  BY DEF Packet
<1>2. CASE MuxSplit(m)
  <2>1. /\ Idle /\ mux.packets < MaxPackets /\ CanSwitchBlock(m) /\ mode.split
        /\ mux.objects <= MaxSplits * Cardinality(Active) /\ UNCHANGED <<mode, file, phase, writerVars>>
    BY <1>2 DEF MuxSplit
  <2>2. PICK full, timed, part \in BOOLEAN :
          Carry(CountPacket(FinishFileBlock(Filled(m, full, timed), m, TRUE, part)))
    BY <1>2 DEF MuxSplit
  <2>. QED BY <2>1, <2>2, BlockOutput
<1>3. CASE MuxEndsBlock(m)
  <2>1. Idle /\ mux.packets < MaxPackets /\ CanSwitchBlock(m) /\ UNCHANGED <<mode, file, phase, writerVars>>
    BY <1>3 DEF MuxEndsBlock
  <2>2. PICK full, timed \in BOOLEAN :
          Carry(CountPacket(FinishFileBlock(Filled(m, full, timed), m, FALSE, FALSE)))
    BY <1>3 DEF MuxEndsBlock
  <2>. QED BY <2>1, <2>2, BlockOutput
<1>4. CASE MuxPacket(m)
  BY <1>4, PacketOutput
<1>. QED BY <1>1, <1>2, <1>3, <1>4

LEMMA EndOutput == ASSUME MuxInv, OutputInv, EndOfInput PROVE OutputInv'
<1>1. Idle /\ phase' = "end" /\ UNCHANGED <<mode, file, writerVars>>
  BY DEF EndOfInput
<1>2. PICK s : /\ Carry(s)
               /\ ~mode.diskMayFail =>
                    /\ s \in MuxSpace /\ Counted(s) /\ PlanEnds(Drained, s.plan)
                    /\ Chain(Elems(s.made), HandedNow, s.plan, {}, {}, {})
  <2>1. PICK part \in BOOLEAN :
         LET s == IF mode.stereo THEN DoFlush(mux, "sub", FALSE) ELSE mux
             t == DoFlush(s, "main", part)
             u == Do(t, Each("write", t.delayed) \o <<Op("wait", 0)>>)
             v == Close(u, "main")
         IN Carry(Do(IF mode.stereo THEN Close(v, "sub") ELSE v,
                     <<Op("destroy", 0)>>))
    BY DEF EndOfInput
  <2>2. ~mode.diskMayFail => Lined(mux, HandedNow)
    BY <1>1, MuxInLine
  <2>. QED BY <1>1, <2>1, <2>2, EndInLine
<1>3. /\ mode' = mode /\ cpc' = cpc /\ cpc = "idle" /\ cblock' = cblock
      /\ accepted' = accepted /\ queue' = queue /\ done' = done /\ contents' = contents
      /\ lastErrorCode' = lastErrorCode
  BY <1>1 DEF Idle, writerVars
<1>4. Given' = Given /\ Drained' = Drained /\ Muxing'
  BY <1>3 DEF Given, Drained, Muxing
<1>. SUFFICES ASSUME ~mode.diskMayFail
              PROVE  /\ lastErrorCode' = 0 /\ Counted(mux)' /\ PlanEnds(Drained', todo')
                     /\ Placed(Elems(mux.made)', contents', Given', done', todo', {}, {})
  BY <1>1, <1>3, <1>4 DEF OutputInv
<1>. DEFINE t == [s EXCEPT !.plan = <<>>]
<1>5. mux' = t /\ todo' = s.plan
  BY <1>2 DEF Carry
<1>6. t.made = s.made
  BY <1>2 DEF MuxSpace
<1>. HIDE DEF t
<1>7. mux'.made = s.made
  BY <1>5, <1>6
<1>8. lastErrorCode = 0 /\ InFiles(contents, Given, done)
  BY <1>1, MuxInLine
<1>9. Counted(mux)' /\ Elems(mux.made)' = Elems(s.made)
  BY <1>2, <1>7 DEF Counted, Elems
<1>10. Placed(Elems(s.made), contents, Given, done, s.plan, {}, {})
  BY <1>2, <1>8 DEF Placed, HandedNow
<1>11. Placed(Elems(mux.made)', contents', Given', done', todo', {}, {})
  BY <1>3, <1>4, <1>5, <1>9, <1>10
<1>. QED BY <1>2, <1>3, <1>4, <1>5, <1>8, <1>9, <1>11

LEMMA InputOutput == ASSUME MuxInv, OutputInv, InputThrows PROVE OutputInv'
<1>1. phase' = "failed" /\ mode' = mode /\ lastErrorCode' = lastErrorCode
  BY DEF InputThrows, writerVars
<1>. QED BY <1>1 DEF OutputInv

-----------------------------------------------------------------------------
(* The beginning.                                                          *)

LEMMA OutputStarts == Init => OutputInv
<1>. SUFFICES ASSUME Init PROVE OutputInv
  OBVIOUS
<1>1. /\ mode \in Modes /\ mux = Start(mode) /\ todo = <<>> /\ phase = "mux"
      /\ lastErrorCode = 0 /\ accepted = <<>> /\ done = 0 /\ cpc = "idle"
      /\ contents = [o \in Objects |-> <<>>]
  BY DEF Init, W!Init
<1>2. mux.delayed = <<>> /\ \A m \in Muxers : mux.held[m] = <<>>
  BY <1>1, StartFields
<1>3. mux.made = <<>>
  BY <1>1 DEF Start
<1>4. Given = <<>> /\ Elems(<<>>) = {} /\ Rising(<<>>) /\ Len(<<>>) = 0 /\ \A i : i \notin 1..Len(<<>>)
  BY <1>1, NoElems DEF Given
<1>5. Held(mux) = {}
  BY <1>2, <1>4 DEF Held
<1>6. HeldRising(mux) /\ Counted(mux)
  BY <1>2, <1>3, <1>4 DEF HeldRising, Counted
<1>7. Stored(contents) = {} /\ Rest(Given, done) = {}
  <2>1. \A o \in Objects : Elems(contents[o]) = {}
    BY <1>1, <1>4
  <2>2. Stored(contents) = {}
    BY <2>1 DEF Stored
  <2>3. \A i : i \notin (0 + 1)..0
    OBVIOUS
  <2>. QED BY <1>1, <1>4, <2>2, <2>3 DEF Rest
<1>8. InFiles(contents, Given, done)
  <2>1. \A o \in Objects : Rising(contents[o]) /\ \A i : i \notin 1..Len(contents[o])
    BY <1>1, <1>4
  <2>2. \A i : i \notin (done + 1)..Len(Given)
    BY <1>1, <1>4
  <2>3. AllBefore(Stored(contents), Rest(Given, done))
    BY <1>7, NoElems
  <2>. QED BY <2>1, <2>2, <2>3 DEF InFiles
<1>9. Chain({}, {}, <<>>, {}, {}, {})
  BY NothingPlanned, NoElems DEF Chain
<1>10. Placed(Elems(mux.made), contents, Given, done, todo, Elems(mux.delayed), Held(mux))
  <2>1. {} \cup {} = {}
    OBVIOUS
  <2>. QED BY <1>1, <1>2, <1>3, <1>4, <1>5, <1>7, <1>8, <1>9, <2>1 DEF Placed
<1>11. Direct(Drained, todo)
  BY <1>1, NothingPlanned
<1>. QED BY <1>1, <1>2, <1>4, <1>6, <1>10, <1>11 DEF OutputInv

LEMMA OutputGoesOn == ASSUME MuxInv, OutputInv, CleanSplits, [Next]_vars PROVE OutputInv'
<1>1. CASE Packet
  BY <1>1, PacketsOutput
<1>2. CASE EndOfInput \/ InputThrows
  BY <1>2, EndOutput, InputOutput
<1>3. CASE GoesOn
  BY <1>3, PlanOutput, CallOutput, ThrowsOutput, DeleteOutput DEF GoesOn
<1>4. CASE WriterThread
  BY <1>4, ThreadOutput
<1>5. CASE Stopped \/ UNCHANGED vars
  BY <1>5, NothingOutput DEF Stopped
<1>. QED BY <1>1, <1>2, <1>3, <1>4, <1>5 DEF Next

LEMMA OutputInvHolds == ASSUME CleanSplits PROVE Spec => []OutputInv
<1>1. Init => OutputInv
  BY OutputStarts
<1>2. MuxInv /\ OutputInv /\ [Next]_vars => OutputInv'
  BY OutputGoesOn
<1>3. Spec => []MuxInv
  BY MuxInvHolds
<1>. QED BY <1>1, <1>2, <1>3, PTL DEF Spec

-----------------------------------------------------------------------------
(* What follows from it.                                                   *)

\* When the mux is complete every block is in its file.
LEMMA AllStored ==
  ASSUME MuxInv, OutputInv, phase = "complete", ~mode.diskMayFail
  PROVE  /\ Counted(mux) /\ InFiles(contents, Given, done) /\ Elems(mux.made) = Stored(contents)
         /\ contents \in [Objects -> Seq(BlockSpace)] /\ mux.made \in Seq(BlockSpace)
<1>1. cpc = "gone" /\ ~Muxing
  BY DEF OutputInv, Muxing
<1>2. Counted(mux) /\ todo = <<>> /\ Placed(Elems(mux.made), contents, Given, done, todo, {}, {})
  BY <1>1 DEF OutputInv
<1>3. queue = <<>>
  BY <1>1 DEF MuxInv, WP!Bookkeeping, WP!CallerPhases
<1>4. Given = accepted /\ done = Len(accepted) /\ Len(accepted) \in Nat
  BY <1>1, <1>3, WriterFacts DEF Given
<1>5. Rest(Given, done) = {}
  <2>1. \A i : i \notin (done + 1)..Len(Given)
    BY <1>4
  <2>. QED BY <2>1 DEF Rest
<1>6. Elems(mux.made) = Stored(contents)
  BY <1>2, <1>5, NothingPlanned DEF Placed, Chain
<1>7. contents \in [Objects -> Seq(BlockSpace)]
  BY WriterFacts
<1>8. mux.made \in Seq(BlockSpace)
  BY DEF MuxInv, MuxSpace
<1>. QED BY <1>2, <1>6, <1>7, <1>8 DEF Placed

LEMMA NothingLost == ASSUME MuxInv, OutputInv PROVE FilesComplete
<1>. SUFFICES ASSUME phase = "complete", ~mode.diskMayFail, NEW o \in Objects, NEW m \in Active
              PROVE  /\ {contents[o][i] : i \in Found(o, m)} = {mux.made[k] : k \in Meant(o, m)}
                     /\ \A i, j \in Found(o, m), k, l \in Meant(o, m) :
                          contents[o][i] = mux.made[k] /\ contents[o][j] = mux.made[l] /\ i < j => k < l
  BY DEF FilesComplete
<1>1. /\ Counted(mux) /\ InFiles(contents, Given, done) /\ Elems(mux.made) = Stored(contents)
      /\ contents \in [Objects -> Seq(BlockSpace)] /\ mux.made \in Seq(BlockSpace)
  BY AllStored
<1>2. DOMAIN mux.made = 1..Len(mux.made) /\ DOMAIN contents[o] = 1..Len(contents[o])
  BY <1>1
<1>3. ASSUME NEW i \in Found(o, m)
      PROVE  /\ i \in 1..Len(contents[o]) /\ contents[o][i].mux = m
             /\ \E k \in Meant(o, m) : mux.made[k] = contents[o][i]
  <2>1. i \in 1..Len(contents[o]) /\ contents[o][i].mux = m
    BY <1>2 DEF Found
  <2>2. contents[o][i] \in Stored(contents)
    BY <2>1 DEF Stored, Elems
  <2>3. PICK k \in 1..Len(mux.made) : mux.made[k] = contents[o][i]
    BY <1>1, <2>2 DEF Elems
  <2>4. contents[o][i].file = o
    BY <1>1, <2>1 DEF InFiles
  <2>5. k \in Meant(o, m)
    BY <1>2, <2>1, <2>3, <2>4 DEF Meant
  <2>. QED BY <2>1, <2>3, <2>5
<1>4. ASSUME NEW k \in Meant(o, m)
      PROVE  /\ k \in 1..Len(mux.made) /\ mux.made[k].mux = m /\ mux.made[k].n = k
             /\ \E i \in Found(o, m) : contents[o][i] = mux.made[k]
  <2>1. k \in 1..Len(mux.made) /\ mux.made[k].file = o /\ mux.made[k].mux = m
    BY <1>2 DEF Meant
  <2>2. mux.made[k] \in Stored(contents)
    BY <1>1, <2>1 DEF Elems
  <2>3. PICK p \in Objects : mux.made[k] \in Elems(contents[p])
    BY <2>2 DEF Stored
  <2>4. PICK i \in 1..Len(contents[p]) : contents[p][i] = mux.made[k]
    BY <2>3 DEF Elems
  <2>5. p = o
    BY <1>1, <2>1, <2>4 DEF InFiles
  <2>6. i \in Found(o, m)
    BY <1>2, <2>1, <2>4, <2>5 DEF Found
  <2>. QED BY <1>1, <2>1, <2>4, <2>5, <2>6 DEF Counted
<1>5. {contents[o][i] : i \in Found(o, m)} = {mux.made[k] : k \in Meant(o, m)}
  <2>1. \A i \in Found(o, m) : contents[o][i] \in {mux.made[k] : k \in Meant(o, m)}
    BY <1>3
  <2>2. \A k \in Meant(o, m) : mux.made[k] \in {contents[o][i] : i \in Found(o, m)}
    BY <1>4
  <2>. QED BY <2>1, <2>2
<1>6. ASSUME NEW i \in Found(o, m), NEW j \in Found(o, m), NEW k \in Meant(o, m), NEW l \in Meant(o, m),
             contents[o][i] = mux.made[k], contents[o][j] = mux.made[l], i < j
      PROVE  k < l
  <2>1. i \in 1..Len(contents[o]) /\ j \in 1..Len(contents[o])
    BY <1>3
  <2>2. Before(contents[o][i], contents[o][j])
    BY <1>1, <1>6, <2>1 DEF InFiles, Rising
  <2>3. mux.made[k].mux = mux.made[l].mux /\ mux.made[k].n = k /\ mux.made[l].n = l
    BY <1>4
  <2>. QED BY <1>6, <2>2, <2>3 DEF Before
<1>. QED BY <1>5, <1>6

\* A mux that ends without an error leaves complete files: what TSMuxer keeps
\* for its arrival times (writeOutBuffer, processM2TSPCR), what asyncWriteBuffer
\* holds back, what is queued and what doFlush leaves in the buffer gets into
\* the file that was open when it was muxed, once and in the order of muxing,
\* and no file takes the name of another.
THEOREM OutputComplete == ASSUME CleanSplits PROVE Spec => []OutputFiles
<1>1. MuxInv /\ OutputInv => FilesComplete
  BY NothingLost
<1>2. Spec => []MuxInv
  BY MuxInvHolds
<1>3. Spec => []OutputInv
  BY OutputInvHolds
<1>4. Spec => []DistinctNames
  BY NamesDiffer
<1>. QED BY <1>1, <1>2, <1>3, <1>4, PTL DEF OutputFiles
=============================================================================
