------------------------------ MODULE IsoWriter ------------------------------
(***************************************************************************)
(* The disc image (tsMuxer/iso_writer.cpp): files are written one after    *)
(* the other, or two in turns, behind an area kept for metadata; each is a *)
(* list of extents.  When the image is closed the tree of directories is   *)
(* laid out, and written twice, with the descriptors that lead to it.      *)
(*                                                                         *)
(* The image is a sequence of sectors of SectorSize units; a descriptor is *)
(* a record of what it says of locations and lengths.  Its texts, dates,   *)
(* tags and check sums are left out.  A location (LBN) counts from the     *)
(* start of the partition, in the metadata from the start of its copy.     *)
(***************************************************************************)
EXTENDS Integers, Sequences, FiniteSetsExt, SequencesExt, TLC

CONSTANTS
    Images,         \* the images of a run, see ImageSpace
    SectorSize,     \* SECTOR_SIZE
    AllocBlock,     \* ALLOC_BLOCK_SIZE in sectors
    PartitionStart, \* 576 KiB in sectors
    VolumeAt,       \* 64 KiB, where the volume is described
    IntegrityAt,    \* 128 KiB
    AnchorAt,       \* 512 KiB
    MaxExtent,      \* MAX_EXTENT_SIZE
    InFile, InCont, \* MAX_EXTENTS_IN_EXTFILE, MAX_EXTENTS_IN_EXTCONT
    BlockSizes,     \* the sectors of a block of a stream
    SmallSizes,     \* the units of a file that is written at once
    MaxBlocks       \* the blocks of an image

\* The directories, as paths; the streams of each part of the mux: one, or the
\* base view and the other; the files that join the two; files written at once;
\* m_metadataFileLen in sectors.
ImageSpace ==
    [dirs : Seq(Seq(STRING)), parts : Seq(Seq(Seq(STRING))), joined : Seq(Seq(STRING)),
     small : SUBSET Seq(STRING), metadata : Nat]

ImageAssumption ==
    /\ SectorSize \in Nat \ {0} /\ AllocBlock \in Nat \ {0}
    /\ Cardinality({VolumeAt, IntegrityAt, AnchorAt}) = 3
    /\ {VolumeAt, IntegrityAt, AnchorAt} \subseteq 0..PartitionStart - 1
    /\ PartitionStart % AllocBlock = 0
    /\ MaxExtent \in Nat \ {0} /\ InFile \in Nat \ {0} /\ InCont \in Nat \ {0}
    /\ BlockSizes \subseteq Nat \ {0} /\ SmallSizes \subseteq Nat \ {0}
    /\ \A image \in Images :
         /\ image.metadata % AllocBlock = 0
         /\ Len(image.joined) \in {0, Len(image.parts)}
         /\ \A i \in DOMAIN image.parts :
              Len(image.parts[i]) = IF image.joined = <<>> THEN 1 ELSE 2

VARIABLES
    options,    \* the image of this run
    mux,        \* the IsoWriter
    fed         \* what the files should hold: path -> units

vars == <<options, mux, fed>>

Unit(path, k) == [path |-> path, n |-> k]
Zero == Unit(<<>>, 0)
Blank == [kind |-> "data", units |-> [k \in 1..SectorSize |-> Zero]]
Concat(f, s) == FoldLeft(LAMBDA x, e : x \o f[e], <<>>, s)
Least(m, n) == IF m < n THEN m ELSE n
RoundUp(n, m) == ((n + m - 1) \div m) * m
MetadataLBN == PartitionStart + AllocBlock

-----------------------------------------------------------------------------
(* The file of the image.                                                  *)

Put(s, sectors) ==
    LET size == Len(s.disk)
        end == s.pos + Len(sectors) IN
    [s EXCEPT !.disk = [k \in 1..(IF end > size THEN end ELSE size) |->
                          IF k \in s.pos + 1..end THEN sectors[k - s.pos] ELSE s.disk[k]],
              !.pos = end]
Blanks(s, n) == Put(s, [k \in 1..n |-> Blank])
Seek(s, pos) == [s EXCEPT !.pos = pos]

\* absoluteSectorNum: counted from m_tagLocationBaseAddr.
Here(s) == s.pos - s.base

-----------------------------------------------------------------------------
(* The tree.  A node has its parent's number; 1 is the root, 2 the         *)
(* directory of system streams and 3 the mapping file in it.               *)

Node(name, parent, dir, id) ==
    [name |-> name, parent |-> parent, dir |-> dir, id |-> id, extents |-> <<>>,
     size |-> 0, buf |-> <<>>, sector |-> 0, used |-> 0]
Children(s, i, dir) ==
    SelectSeq([k \in 1..Len(s.nodes) |-> k],
              LAMBDA k : s.nodes[k].parent = i /\ s.nodes[k].dir = dir)
Named(s, i, name, dir) ==
    SelectSeq(Children(s, i, dir), LAMBDA k : s.nodes[k].name = name)

\* subDirByName or mkdir, fileByName or createFileEntry; an id has 8 bits.
Find(s, name, dir) ==
    LET found == Named(s, s.at, name, dir) IN
    IF found # <<>> THEN [s EXCEPT !.at = found[1]]
    ELSE [s EXCEPT !.nodes = Append(@, Node(name, s.at, dir, s.nextId)),
                   !.nextId = (@ + 1) % 256, !.at = Len(s.nodes) + 1]

\* getEntryByName: the entry's number in at.
FindDir(s, path) == FoldLeft(LAMBDA t, name : Find(t, name, TRUE), [s EXCEPT !.at = 1], path)
FindFile(s, path) == Find(FindDir(s, Front(path)), Last(path), FALSE)

-----------------------------------------------------------------------------
(* Files.                                                                  *)

\* Mutant: another file's write in between is not noticed.
Extend_Blindly(s, i, n) ==
    LET x == s.nodes[i].extents  k == Len(x) IN
    IF k > 0 /\ x[k].size + n < MaxExtent
    THEN [x EXCEPT ![k].size = @ + n]
    ELSE Append(x, [lbn |-> Here(s), size |-> n])

\* The extents of a file that is written at Here: the last one grows when
\* nothing else has been written since and it has room.
Extend(s, i, n) ==
    LET x == s.nodes[i].extents  k == Len(x) IN
    IF s.last = i /\ x[k].size + n < MaxExtent
    THEN [x EXCEPT ![k].size = @ + n]
    ELSE Append(x, [lbn |-> Here(s), size |-> n])

\* FileEntryInfo::write: whole sectors go to the image.  (The last writer is
\* known by its object id in the code, by its node here: ids are different as
\* long as there are fewer than 256.)
FileWrite(s, i, units) ==
    LET all == s.nodes[i].buf \o units
        whole == Len(all) \div SectorSize
        Sector(k) == [kind |-> "data", units |-> SubSeq(all, (k - 1) * SectorSize + 1, k * SectorSize)]
        rest == SubSeq(all, whole * SectorSize + 1, Len(all)) IN
    Put([s EXCEPT !.nodes[i].extents = Extend(s, i, Len(units)),
                  !.nodes[i].size = @ + Len(units), !.nodes[i].buf = rest, !.last = i],
        [k \in 1..whole |-> Sector(k)])

\* FileEntryInfo::close: the rest of the last sector.
FileClose(s, i) ==
    LET node == s.nodes[i]
        padded == [k \in 1..SectorSize |-> IF k <= Len(node.buf) THEN node.buf[k] ELSE Zero] IN
    IF node.buf = <<>> THEN s
    ELSE Put(Seek([s EXCEPT !.nodes[i].buf = <<>>],
                  PartitionStart + Last(node.extents).lbn + node.size \div SectorSize),
             <<[kind |-> "data", units |-> padded]>>)

\* addExtent and createInterleavedFile: the extents of the two in turns, joined
\* where one ends at the next.
AddExtent(x, extent) ==
    LET k == Len(x) IN
    IF /\ k > 0 /\ x[k].lbn + x[k].size \div SectorSize = extent.lbn
       /\ x[k].size + extent.size < MaxExtent
    THEN [x EXCEPT ![k].size = @ + extent.size]
    ELSE Append(x, extent)
CreateInterleavedFile(s, in1, in2, out) ==
    LET t == FindFile(s, in1)  u == FindFile(t, in2)  v == FindFile(u, out)
        x1 == v.nodes[t.at].extents  x2 == v.nodes[u.at].extents
        extents == FoldLeft(LAMBDA x, k : AddExtent(AddExtent(x, x2[k]), x1[k]),
                            <<>>, [k \in 1..Len(x1) |-> k]) IN
    [v EXCEPT !.nodes[v.at].extents = extents,
              !.nodes[v.at].size = v.nodes[t.at].size + v.nodes[u.at].size]

-----------------------------------------------------------------------------
(* Metadata.                                                               *)

\* The nodes from i down, files before directories: the order in which
\* allocateEntity and writeEntity visit them.
Preorder(s, i) ==
    LET order[k \in 1..Len(s.nodes)] ==
          <<k>> \o Concat(order, Children(s, k, FALSE) \o Children(s, k, TRUE)) IN
    order[i]

\* FileEntryInfo::allocateEntity: the sectors that a node will take.
SectorsOf(node) ==
    LET rest == Len(node.extents) - 1 - InFile IN
    IF node.dir THEN 2
    ELSE IF Len(node.extents) <= InFile THEN 1
    ELSE 1 + (rest + InCont - 1) \div InCont
AllocateEntity(s, i) ==
    LET used == SectorsOf(s.nodes[i]) IN
    [s EXCEPT !.nodes[i].sector = s.free, !.nodes[i].used = used, !.free = @ + used]

\* What the mapping file says of the nodes that have an id: their own location
\* and their directory's.
MappingEntries(s) ==
    LET ids == {s.nodes[k].id : k \in 1..Len(s.nodes)} \ {0}
        Entry(k) == [id |-> s.nodes[k].id, lbn |-> s.nodes[k].sector,
                     parent |-> s.nodes[s.nodes[k].parent].sector] IN
    [k \in 1..Cardinality(ids) |->
        Entry(CHOOSE i \in 1..Len(s.nodes) :
                s.nodes[i].id \in ids /\ Cardinality({id \in ids : id <= s.nodes[i].id}) = k)]

\* allocateMetadata; the two sectors are those of the file set.
AllocateMetadata(s) ==
    LET t == FoldLeft(AllocateEntity, [s EXCEPT !.free = 2], Preorder(s, 1))
        u == FoldLeft(AllocateEntity, [t EXCEPT !.systemStream = t.free], Preorder(t, 2)) IN
    IF u.systemStream + 3 > options.metadata THEN [u EXCEPT !.phase = "failed"]
    ELSE FileClose(FileWrite(Seek(u, MetadataLBN + options.metadata), 3,
                             <<Unit(<<"entries">>, Len(MappingEntries(u)))>> \o MappingEntries(u)), 3)

\* writeExtendedFileEntryDescriptor for a file, writeAllocationExtentDescriptor:
\* extents that have no room continue in the next sector.
Until(from, room, n) ==
    LET to == Least(from + room, n) IN IF n - to = 1 THEN n ELSE to
FileDescriptors(s, node) ==
    LET n == Len(node.extents)
        Part(kind, from, to) ==
            [kind |-> kind, size |-> node.size, extents |-> SubSeq(node.extents, from + 1, to)]
        continued[from \in 0..n] ==
            IF from = n THEN <<>>
            ELSE <<Part("continued", from, Until(from, InCont, n))>>
                    \o continued[Until(from, InCont, n)]
        parts == <<Part("file", 0, Until(0, InFile, n))>> \o continued[Until(0, InFile, n)] IN
    [k \in 1..Len(parts) |->
        parts[k] @@ [next |-> IF k < Len(parts) THEN Here(s) + k ELSE 0]]

\* FileEntryInfo::serialize: a directory is its descriptor and a sector of
\* entries, the first of which is its parent's.
Short(lbn, size) ==
    [kind |-> "file", size |-> size, extents |-> <<[lbn |-> lbn, size |-> size]>>, next |-> 0]
Serialize(s, i) ==
    LET node == s.nodes[i]
        t == Seek(s, s.metadata + node.sector)
        children == Children(s, i, FALSE) \o Children(s, i, TRUE)
        entries == [k \in 1..Len(children) |->
                      [name |-> s.nodes[children[k]].name, dir |-> s.nodes[children[k]].dir,
                       lbn |-> s.nodes[children[k]].sector]]
        up == IF node.parent > 0 THEN s.nodes[node.parent].sector ELSE Here(t) IN
    IF node.dir
    THEN Put(t, <<Short(node.sector + 1, SectorSize),
                  [kind |-> "directory", parent |-> up, entries |-> entries]>>)
    ELSE Put(t, FileDescriptors(t, node))

\* writeFileSetDescriptor: the directories of the files and of the streams.
FileSet(s) == [kind |-> "file set", root |-> 2, streams |-> s.systemStream]
WriteMetadata(s, lbn) ==
    LET t == Put([Seek(s, lbn) EXCEPT !.metadata = lbn], <<FileSet(s), [kind |-> "end"]>>) IN
    FoldLeft(Serialize, t, Preorder(t, 1) \o Preorder(t, 2))

\* What the descriptors of the volume say: the partition and the two metadata
\* files in it; the numbers of files and directories; where the volume is.
Volume(s) ==
    [kind |-> "volume", start |-> PartitionStart, length |-> s.end - PartitionStart, file |-> 0,
     mirror |-> s.mirror - 1 - PartitionStart]
Integrity(s) ==
    [kind |-> "integrity", length |-> s.end - PartitionStart,
     files |-> Cardinality({k \in 1..Len(s.nodes) : ~s.nodes[k].dir /\ s.nodes[k].id # 0}),
     dirs |-> Cardinality({k \in 1..Len(s.nodes) : s.nodes[k].dir}) - 1]
Anchor(s) == [kind |-> "anchor", main |-> VolumeAt, reserve |-> s.end + AllocBlock]

\* writeDescriptors: the volume, twice, and the anchors that lead to it.  The
\* reserve is behind the first anchor at the end.
WriteDescriptors(s) ==
    LET volume == Put(Seek(s, VolumeAt), <<Volume(s)>>)
        integrity == Put(Seek(volume, IntegrityAt), <<Integrity(s)>>)
        first == Put(Seek(integrity, AnchorAt), <<Anchor(s)>>)
        second == Put(Seek(first, s.end + AllocBlock - 1), <<Anchor(s), Volume(s)>>) IN
    Put(Blanks(second, AnchorAt), <<Anchor(s)>>)

\* close.
CloseImage(s) ==
    LET padded == Blanks(s, (AllocBlock - 1 - Len(s.disk)) % AllocBlock)
        mirror == Len(padded.disk) + 1
        named == Put([padded EXCEPT !.mirror = mirror, !.base = PartitionStart],
                     <<Short(mirror - PartitionStart, options.metadata)>>)
        kept == Blanks(named, options.metadata)
        ended == Blanks([kept EXCEPT !.end = Len(kept.disk)], AllocBlock)
        laid == AllocateMetadata(ended)
        mirrored == WriteMetadata([laid EXCEPT !.base = mirror], mirror)
        main == Put([Seek(mirrored, PartitionStart) EXCEPT !.base = PartitionStart],
                    <<Short(MetadataLBN - PartitionStart, options.metadata)>>)
        written == WriteMetadata([main EXCEPT !.base = MetadataLBN], MetadataLBN) IN
    IF laid.phase = "failed" THEN laid
    ELSE [WriteDescriptors(written) EXCEPT !.phase = "closed"]

-----------------------------------------------------------------------------
(* An image is opened, gets its directories, the streams as the mux writes *)
(* them, then the files that are written at once and those that join two   *)
(* streams (tsMuxer/main.cpp, blurayHelper.cpp).                           *)

OpenImage ==
    [disk |-> [k \in 1..MetadataLBN + options.metadata + AllocBlock |-> Blank],
     pos |-> MetadataLBN + options.metadata + AllocBlock,
     base |-> PartitionStart, last |-> 0, nextId |-> 16, at |-> 0,
     nodes |-> <<Node("", 0, TRUE, 0), Node("", 0, TRUE, 0),
                 Node("mapping", 2, FALSE, 0)>>,
     free |-> 0, systemStream |-> 0, metadata |-> 0, mirror |-> 0, end |-> 0,
     part |-> 1, blocks |-> 0, phase |-> "muxing"]

Init ==
    /\ options \in Images
    /\ mux = FoldLeft(FindFile, FoldLeft(FindDir, OpenImage, options.dirs), options.parts[1])
    /\ fed = <<>>

Holds(path) == IF path \in DOMAIN fed THEN fed[path] ELSE <<>>
Units(path, n) == [k \in 1..n |-> Unit(path, Len(Holds(path)) + k)]

\* A block of the stream, or of the other view and then of the base view: whole
\* sectors, as module TransportStream shows.
Block ==
    /\ mux.phase = "muxing" /\ mux.blocks + Len(options.parts) - mux.part < MaxBlocks
    /\ \E n \in BlockSizes :
         LET part == options.parts[mux.part]
             order == IF Len(part) = 1 THEN part ELSE <<part[2], part[1]>>
             new(path) == Units(path, n * SectorSize)
             Into(s, path) == LET t == FindFile(s, path) IN FileWrite(t, t.at, new(path))
             whole == FoldLeft(LAMBDA x, path : x \o new(path), <<>>, order)
             after == [path \in Range(part) |-> Holds(path) \o new(path)] IN
         /\ mux' = [FoldLeft(Into, mux, order) EXCEPT !.blocks = @ + 1]
         /\ fed' = (IF Len(part) = 1 THEN after
                    ELSE (options.joined[mux.part] :> Holds(options.joined[mux.part]) \o whole)
                            @@ after) @@ fed
    /\ UNCHANGED options

\* The mux goes to its next files.
NextPart ==
    /\ mux.phase = "muxing" /\ mux.part < Len(options.parts)
    /\ \A path \in Range(options.parts[mux.part]) : Holds(path) # <<>>
    /\ mux' = [FoldLeft(FindFile, mux, options.parts[mux.part + 1]) EXCEPT !.part = @ + 1]
    /\ UNCHANGED <<options, fed>>

EndMux ==
    /\ mux.phase = "muxing" /\ mux.part = Len(options.parts)
    /\ \A path \in Range(options.parts[mux.part]) : Holds(path) # <<>>
    /\ mux' = [mux EXCEPT !.phase = "muxed"]
    /\ UNCHANGED <<options, fed>>

WriteSmall ==
    /\ mux.phase = "muxed"
    /\ \E path \in options.small \ DOMAIN fed, n \in SmallSizes :
         LET t == FindFile(mux, path) IN
         /\ mux' = FileClose(FileWrite(t, t.at, Units(path, n)), t.at)
         /\ fed' = (path :> Units(path, n)) @@ fed
    /\ UNCHANGED options

Finish ==
    /\ mux.phase = "muxed" /\ options.small \subseteq DOMAIN fed
    /\ mux' = CloseImage(FoldLeft(LAMBDA s, i : CreateInterleavedFile(s, options.parts[i][1],
                                                  options.parts[i][2], options.joined[i]),
                                  mux, [i \in 1..Len(options.joined) |-> i]))
    /\ UNCHANGED <<options, fed>>

Next ==
    \/ Block \/ NextPart \/ EndMux \/ WriteSmall \/ Finish
    \/ (mux.phase \in {"closed", "failed"} /\ UNCHANGED vars)
Spec == Init /\ [][Next]_vars

-----------------------------------------------------------------------------
(* Reading an image.                                                       *)

At(lbn) == mux.disk[lbn + 1]

\* What n units in the sectors from lbn are.
Content(x) ==
    SubSeq(FoldLeft(LAMBDA u, k : u \o At(PartitionStart + x.lbn + k - 1).units, <<>>,
                    [k \in 1..RoundUp(x.size, SectorSize) \div SectorSize |-> k]),
           1, x.size)

\* The extents of a file whose descriptor is at lbn of the metadata at m.
ExtentsAt(m, lbn) ==
    LET from[l \in 0..options.metadata] ==
          LET d == At(m + l) IN
          d.extents \o (IF d.next = 0 THEN <<>> ELSE from[d.next]) IN
    from[lbn]
EntryOf(m, lbn, name, dir) ==
    LET entries == At(m + At(m + lbn).extents[1].lbn).entries IN
    CHOOSE e \in Range(entries) : e.name = name /\ e.dir = dir
Locate(m, path) ==
    LET dir == FoldLeft(LAMBDA lbn, name : EntryOf(m, lbn, name, TRUE).lbn,
                        At(m).root, Front(path)) IN
    EntryOf(m, dir, Last(path), FALSE).lbn
ReadFile(m, path) ==
    LET lbn == Locate(m, path) IN
    [size |-> At(m + lbn).size,
     units |-> FoldLeft(LAMBDA u, x : u \o Content(x), <<>>, ExtentsAt(m, lbn))]

\* The two copies of the metadata, as an anchor and a volume lead to them.
Anchors == {AnchorAt, mux.end + AllocBlock - 1, Len(mux.disk) - 1}
Volumes == UNION {{At(a).main, At(a).reserve} : a \in Anchors}
Copies ==
    UNION {LET v == At(volume) IN
           {At(v.start + f).extents[1].lbn + v.start : f \in {v.file, v.mirror}} :
              volume \in Volumes}

TypeOK ==
    /\ mux.pos \in 0..Len(mux.disk) /\ mux.base \in 0..Len(mux.disk)
    /\ \A i \in 1..Len(mux.nodes) :
         /\ mux.nodes[i].parent \in 0..Len(mux.nodes) /\ mux.nodes[i].id \in 0..255
         /\ Len(mux.nodes[i].buf) < SectorSize
    /\ mux.phase \in {"muxing", "muxed", "closed", "failed"}

\* A finished image reads as it was written, from every anchor through either
\* copy of the metadata: every file by its path (extents of files that were
\* written in turns, extents that have no room in one sector, the last sector of
\* a file), inside the partition.
FilesReadBack ==
    mux.phase = "closed" =>
      /\ Copies = {MetadataLBN, mux.mirror}
      /\ \A m \in Copies : \A path \in DOMAIN fed :
           /\ ReadFile(m, path) = [size |-> Len(fed[path]), units |-> fed[path]]
           /\ \A x \in Range(ExtentsAt(m, Locate(m, path))) :
                PartitionStart + x.lbn + RoundUp(x.size, SectorSize) \div SectorSize
                    <= At(VolumeAt).start + At(VolumeAt).length

\* The mapping file gives for every id the location of its file or directory and
\* of the directory that has it, and the directories name their parents; in both
\* copies of the metadata.
MappingTrue ==
    mux.phase = "closed" =>
      \A m \in Copies :
        LET mapping == Locate(m, <<"mapping">>)
            streams == At(m).streams
            table == FoldLeft(LAMBDA u, x : u \o Content(x), <<>>,
                              ExtentsAt(m, EntryOf(m, streams, "mapping", FALSE).lbn))
            Entries(lbn) == At(m + At(m + lbn).extents[1].lbn) IN
        /\ Head(table) = Unit(<<"entries">>, Len(table) - 1)
        /\ Len(table) - 1 = Cardinality({n \in 1..Len(mux.nodes) : mux.nodes[n].id # 0})
        /\ \A k \in 2..Len(table) :
             \E e \in Range(Entries(table[k].parent).entries) :
               /\ e.lbn = table[k].lbn
               /\ e.dir => Entries(e.lbn).parent = table[k].parent

\* Both promises for an image.
ImageReadsBack == FilesReadBack /\ MappingTrue
=============================================================================
