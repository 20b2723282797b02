------------------------------- MODULE Fields -------------------------------
(***************************************************************************)
(* Files made of bit fields (bitStream.h).  What is written is a sequence  *)
(* of fields, each with its width and its value; a length or an address is *)
(* the bytes of the fields it is about.  What is read is laid out by the   *)
(* bit at which a field begins: a reader that looks at a place where no    *)
(* field begins, or one of another width, gets Nothing.                    *)
(***************************************************************************)
LOCAL INSTANCE Integers
LOCAL INSTANCE Sequences
LOCAL INSTANCE TLC

Nothing == -1
Bits8(n) == <<<<8, n>>>>
Bits16(n) == <<<<16, n>>>>
Bits32(n) == <<<<32, n>>>>
Reserved(width) == <<<<width, 0>>>>

\* Sequences are taken apart in halves: TLC then recurses no deeper than it must.
FirstHalf(s) == SubSeq(s, 1, Len(s) \div 2)
SecondHalf(s) == SubSeq(s, Len(s) \div 2 + 1, Len(s))

RECURSIVE Width(_), Laid(_, _), Joined(_)
Width(fields) ==
    CASE fields = <<>> -> 0
      [] Len(fields) = 1 -> fields[1][1]
      [] OTHER -> Width(FirstHalf(fields)) + Width(SecondHalf(fields))
Bytes(fields) == Width(fields) \div 8
Joined(parts) ==
    CASE parts = <<>> -> <<>>
      [] Len(parts) = 1 -> parts[1]
      [] OTHER -> Joined(FirstHalf(parts)) \o Joined(SecondHalf(parts))
JoinedOver(n, part(_)) == Joined([i \in 1..n |-> part(i)])

\* A length in front of what it counts.
WithLength(width, fields) == <<<<width, Bytes(fields)>>>> \o fields
Aligned(width, fields) ==
    LET over == Width(fields) % width IN
    IF over = 0 THEN fields ELSE fields \o Reserved(width - over)

\* The fields by the bits at which they begin.
Laid(fields, at) ==
    CASE fields = <<>> -> <<>>
      [] Len(fields) = 1 -> at :> fields[1]
      [] OTHER -> Laid(FirstHalf(fields), at) @@ Laid(SecondHalf(fields), at + Width(FirstHalf(fields)))
Layout(fields) == Laid(fields, 0)

\* getBits and skipBits: the values of the fields of these widths from a place on,
\* those of a negative width skipped, and the place behind them.
Get(file, at, width) ==
    IF at \in DOMAIN file /\ file[at][1] = width THEN file[at][2] ELSE Nothing
RECURSIVE Read(_, _, _)
Read(file, at, widths) ==
    CASE widths = <<>> -> [at |-> at, values |-> <<>>]
      [] Len(widths) = 1 /\ widths[1] < 0 -> [at |-> at - widths[1], values |-> <<>>]
      [] Len(widths) = 1 /\ widths[1] >= 0 ->
            [at |-> at + widths[1], values |-> <<Get(file, at, widths[1])>>]
      [] OTHER -> LET front == Read(file, at, FirstHalf(widths))
                      rest == Read(file, front.at, SecondHalf(widths)) IN
                  [rest EXCEPT !.values = front.values \o @]
=============================================================================
