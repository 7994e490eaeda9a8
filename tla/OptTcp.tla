------------------------------- MODULE OptTcp -------------------------------
(***************************************************************************)
(* OPTTCP (common/transport/opt_tcp): packets framed on a TCP connection.   *)
(* A packet is sent with a header of its type and length; the receiver      *)
(* keeps the chunks that recv() returns in a list and takes the packets     *)
(* that are complete out of it.                                             *)
(***************************************************************************)
EXTENDS Blob, FiniteSets, SequencesExt

CONSTANT MaxPacketSize  \* max_packet_size

ASSUME MaxPacketSizeAssumption == MaxPacketSize \in Nat

PktNormal == 1
PktRaw == 2
HeaderLen == 1 + LenSize

(* send() and sendRaw(): the header, then the data. *)
Wrap(type, data) ==
  CopyFrom(CopyFrom(FactoryEmpty(HeaderLen + Len(data), 0, 0), <<type>> \o LenField(Len(data)), 0), data, HeaderLen)

(* All that the list holds, and where its i-th chunk ends in that. *)
Flat(list) == FlattenSeq([i \in DOMAIN list |-> Content(list[i])])
ChunkEnd(list, i) == Len(Flat(SubSeq(list, 1, i)))

(* What read_from_reassamble_list() leaves of the chunks when it reads len    *)
(* cells: those that are used up are removed, the one that is read in part is *)
(* cut.                                                                       *)
TakeCells(list, len) ==
  LET used == Cardinality({i \in DOMAIN list : ChunkEnd(list, i) <= len})
      cut == len - ChunkEnd(list, used)
      rest == SubSeq(list, used + 1, Len(list))
  IN IF cut = 0 THEN rest ELSE <<Resize(Head(rest), cut, Head(rest).size)>> \o Tail(rest)

(* Mutant: a byte more than the packet is waited for. *)
HasAllMore(total, len) == len < total

(* len <= _reassamble_total_len *)
HasAll(total, len) == len <= total

(* The loop of on_receive(): the packets that are complete in the cells from  *)
(* at on, where they end, and whether the next header closes the connection.  *)
Reassemble(cells) ==
  LET has(at, n) == HasAll(Len(cells) - at, n)
      stopped(at, close) == [packets |-> <<>>, end |-> at, close |-> close]
      from[at \in 0..Len(cells)] ==
        LET type == cells[at + 1]
            len == cells[at + 2]
            next == at + HeaderLen + len
        IN IF ~has(at, HeaderLen) THEN stopped(at, FALSE)
           ELSE IF len >= MaxPacketSize \/ type \notin {PktNormal, PktRaw} THEN stopped(at, TRUE)
           ELSE IF ~has(at, HeaderLen + len) THEN stopped(at, FALSE)
           ELSE [from[next] EXCEPT !.packets = <<[type |-> type, data |-> SubSeq(cells, at + HeaderLen + 1, next)]>> \o @]
  IN from[0]

(* on_receive(): the chunks, the new one with them, and the packets they      *)
(* hold; what becomes of the list and of the total length.                    *)
WithChunk(list, chunk) == Append(list, FactoryCopy(chunk, 0, 0))
OnReceive(chunks) == Reassemble(Flat(chunks))
=============================================================================
