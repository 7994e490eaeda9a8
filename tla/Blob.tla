-------------------------------- MODULE Blob --------------------------------
(***************************************************************************)
(* Byte buffers (common/utils/blob): a Blob is an allocated buffer whose    *)
(* active part has a gap before and after it; records are packed into it    *)
(* with their length in front.  A byte is a cell with a number; a length    *)
(* field is LenSize cells, the number in the first of them.                 *)
(***************************************************************************)
EXTENDS Integers, Sequences

CONSTANT LenSize  \* bytes of a length field (4 in the code)

ASSUME LenSizeAssumption == LenSize \in Nat \ {0}

Zeros(n) == [i \in 1..n |-> 0]

(* The active part, and the cells behind it. *)
Content(b) == SubSeq(b.mem, b.pre + 1, b.pre + b.size)
EndGap(b) == Len(b.mem) - b.pre - b.size

(* dbg_self_test() *)
SelfTest(b) == b.pre >= 0 /\ b.size >= 0 /\ b.pre + b.size <= Len(b.mem)

(* bufcpy(): src is written at offset off. *)
Bufcpy(mem, off, src) == SubSeq(mem, 1, off) \o src \o SubSeq(mem, off + Len(src) + 1, Len(mem))

NullBlob == [mem |-> <<>>, pre |-> 0, size |-> 0]

FactoryEmpty(size, pre, end) == [mem |-> Zeros(pre + size + end), pre |-> pre, size |-> size]

FactoryCopy(src, pre, end) ==
  [mem |-> Bufcpy(Zeros(pre + Len(src) + end), pre, src), pre |-> pre, size |-> Len(src)]

(* grow_gap(): a gap that is too small becomes twice as much too large. *)
GrowGap(b, minPre, minEnd) ==
  LET Grown(old, min) == IF old < min THEN min + (min - old) ELSE old
      pre == Grown(b.pre, minPre)
      end == Grown(EndGap(b), minEnd)
      capacity == pre + b.size + end
  IN IF capacity > Len(b.mem)
       THEN [mem |-> Bufcpy(Zeros(capacity), pre, Content(b)), pre |-> pre, size |-> b.size]
       ELSE b

(* resize(): the new active part, in indices of the old one.  Cells that were *)
(* used before keep what was in them.                                         *)
Resize(b, start, end) ==
  LET g == GrowGap(b, IF start < 0 THEN -start ELSE 0, IF end < b.size THEN 0 ELSE end - b.size)
  IN [g EXCEPT !.pre = @ + start, !.size = end - start]

ResizeMin(b, len) ==
  IF b.size < len THEN [GrowGap(b, 0, len - b.size) EXCEPT !.size = len] ELSE b

(* copy_from() *)
CopyFrom(b, src, off) ==
  LET g == ResizeMin(b, off + Len(src))
  IN [g EXCEPT !.mem = Bufcpy(@, g.pre + off, src)]

LenField(n) == <<n>> \o Zeros(LenSize - 1)

-----------------------------------------------------------------------------
(* PackedBlobWriter and PackedBlobReader *)

AddRecord(b, data) ==
  LET r == Resize(b, 0, b.size + LenSize + Len(data))
  IN CopyFrom(CopyFrom(r, data, b.size + LenSize), LenField(Len(data)), b.size)

(* Mutant: a record that ends with the blob is refused. *)
NextRecordShort(src, cursor) ==
  IF Len(src) < cursor + LenSize \/ Len(src) - (cursor + LenSize) <= src[cursor + 1]
    THEN [ok |-> FALSE, data |-> <<>>, cursor |-> cursor]
    ELSE LET n == src[cursor + 1]
         IN [ok     |-> TRUE,
             data   |-> SubSeq(src, cursor + LenSize + 1, cursor + LenSize + n),
             cursor |-> cursor + LenSize + n]

(* next_record() at a cursor of src. *)
NextRecord(src, cursor) ==
  IF Len(src) < cursor + LenSize \/ Len(src) - (cursor + LenSize) < src[cursor + 1]
    THEN [ok |-> FALSE, data |-> <<>>, cursor |-> cursor]
    ELSE LET n == src[cursor + 1]
         IN [ok     |-> TRUE,
             data   |-> SubSeq(src, cursor + LenSize + 1, cursor + LenSize + n),
             cursor |-> cursor + LenSize + n]
=============================================================================
