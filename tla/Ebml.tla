-------------------------------- MODULE Ebml --------------------------------
(***************************************************************************)
(* The elements of a Matroska file.  A file is a sequence of cells: an     *)
(* element is the cell of its id, a cell with the size of its content, and *)
(* the content, which for a master element is elements.  A number, a start *)
(* code, a NAL unit's length and a unit of data are one cell each.         *)
(***************************************************************************)
LOCAL INSTANCE Integers
LOCAL INSTANCE SequencesExt

Cell(k, v) == [k |-> k, v |-> v]
Number(n) == <<Cell("number", n)>>
Concat(f(_), s) == FoldLeft(LAMBDA x, e : x \o f(e), <<>>, s)
Indices(s) == [i \in 1..Len(s) |-> i]

\* ebml_write_id, ebml_write_size and the content.
Element(id, content) == <<Cell(id, 0), Cell("size", Len(content))>> \o content
=============================================================================
