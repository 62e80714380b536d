----------------------------- MODULE PacketParser -----------------------------
(***************************************************************************)
(* PacketParser::extractPackets (common/src/packet_utils.cpp) and the      *)
(* PacketIntake loop that feeds it (common/src/packet_flow_tasks.cpp).     *)
(*                                                                         *)
(* The intake reads a chunk of whatever size the source has into the free  *)
(* part of its buffer and calls extractPackets, which scans the buffer,    *)
(* reports what it finds to processPacket and moves the bytes it could not *)
(* yet decide on to the front.  The buffer is described by the stream      *)
(* positions it holds: buf[i] is the byte at position base + i.            *)
(* Each turn of the scanning loop is one action, so the properties hold    *)
(* at every call of processPacket and not only between calls.              *)
(***************************************************************************)
EXTENDS PacketFormat, Sequences

CONSTANTS
    BufSize,           \* sizeof(PacketIntake::buf)
    SeqModulus         \* 2^32: values of a uint32_t sequence number

VARIABLES
    wire,              \* the byte stream, see PacketFormat
    received,          \* bytes read into buf so far, in all calls
    base,              \* stream position of buf[0]
    offset,            \* extractPackets: offset
    skippedBytes,      \* extractPackets: skippedBytes
    lastSeqNum,        \* PacketParser::lastSeqNum
    parsing,           \* inside extractPackets
    delivered,         \* positions of the packets given to processPacket
    deliveredBytes,    \* their wrapped sizes, added up
    droppedBytes,      \* the ParsingErrorDroppedBytes reports, added up
    errors             \* the other parsing errors given to processPacket

vars == <<wire, received, base, offset, skippedBytes, lastSeqNum, parsing,
          delivered, deliveredBytes, droppedBytes, errors>>

Stream == INSTANCE PacketStream WITH cursor <- base + offset

ASSUME BufferAssumption == BufSize \in Nat /\ BufSize >= MaxWrapped

ASSUME SequenceAssumption == SeqModulus \in Nat \ {0, 1}

-------------------------------------------------------------------------------
(* Helpers *)

Cursor == base + offset

\* extractPackets: len, the number of bytes in buf
BufferedBytes == received - base

Header == wire[Cursor]

\* while (len >= offset + minWrappedPacketLength)
HeaderBuffered == BufferedBytes >= offset + MinWrapped

\* Mutants: no check at all; one byte too many asked for.
PacketBufferedUnchecked == TRUE
PacketBufferedStrict == BufferedBytes > offset + WrappedSize(Header)

\* !(len < offset + wrapperLength + packet.length)
PacketBuffered == BufferedBytes >= offset + WrappedSize(Header)

\* Mutant: 0 is never a sequence number.
NextSeqSkipsZero(n) == IF n + 1 = SeqModulus THEN 1 ELSE n + 1

NextSeq(n) == (n + 1) % SeqModulus

Init ==
    /\ wire \in [Positions -> Headers]
    /\ received = 0
    /\ base = 0
    /\ offset = 0
    /\ skippedBytes = 0
    /\ lastSeqNum = 0
    /\ parsing = FALSE
    /\ delivered = <<>>
    /\ deliveredBytes = 0
    /\ droppedBytes = 0
    /\ errors = <<>>

-------------------------------------------------------------------------------
(* Actions *)

\* One pass of PacketIntake::func up to the call: read(buf + len, free space)
\* returns at least one byte, since util.read retries until it has some.
Feed ==
    /\ ~parsing
    /\ \E n \in 1 .. BufSize - BufferedBytes :
          /\ received + n <= StreamLen
          /\ received' = received + n
    /\ parsing' = TRUE
    /\ offset' = 0
    /\ skippedBytes' = 0
    /\ UNCHANGED <<wire, base, lastSeqNum, delivered, deliveredBytes,
                   droppedBytes, errors>>

\* "Mismatch, try next byte"
SkipByte ==
    /\ offset' = offset + 1
    /\ skippedBytes' = skippedBytes + 1
    /\ UNCHANGED <<wire, received, base, lastSeqNum, parsing, delivered,
                   deliveredBytes, droppedBytes>>

\* Mutant: at a byte that starts no packet the count moves, the scan does not.
NoStartWordStuck ==
    /\ parsing /\ HeaderBuffered
    /\ Header.kind = "noise"
    /\ skippedBytes' = (skippedBytes + 1) % StreamLen
    /\ UNCHANGED <<wire, received, base, offset, lastSeqNum, parsing, delivered,
                   deliveredBytes, droppedBytes, errors>>

NoStartWord ==
    /\ parsing /\ HeaderBuffered
    /\ Header.kind = "noise"
    /\ SkipByte
    /\ UNCHANGED errors

\* Length and ID are judged on the header alone.
InvalidHeader ==
    /\ parsing /\ HeaderBuffered
    /\ Header.kind \in {"badLength", "badId"}
    /\ SkipByte
    /\ errors' = Append(errors, [kind |-> Header.kind, at |-> Cursor])

\* Mutant: the whole claimed length is given up.
InvalidCrcSkipsPacket ==
    /\ parsing /\ HeaderBuffered
    /\ Header.kind = "badCrc"
    /\ PacketBuffered
    /\ offset' = offset + WrappedSize(Header)
    /\ skippedBytes' = skippedBytes + WrappedSize(Header)
    /\ errors' = Append(errors, [kind |-> "badCrc", at |-> Cursor])
    /\ UNCHANGED <<wire, received, base, lastSeqNum, parsing, delivered,
                   deliveredBytes, droppedBytes>>

\* The crc is only computed once the length the header claims is in buf.
InvalidCrc ==
    /\ parsing /\ HeaderBuffered
    /\ Header.kind = "badCrc"
    /\ PacketBuffered
    /\ SkipByte
    /\ errors' = Append(errors, [kind |-> "badCrc", at |-> Cursor])

\* Report the skipped bytes, check the sequence number, deliver.
ValidPacket ==
    /\ parsing /\ HeaderBuffered
    /\ Header.kind = "good"
    /\ PacketBuffered
    /\ droppedBytes' = droppedBytes + skippedBytes
    /\ skippedBytes' = 0
    /\ errors' = IF Header.seq # NextSeq(lastSeqNum)
                 THEN Append(errors, [kind |-> "badSequence", at |-> Cursor])
                 ELSE errors
    /\ lastSeqNum' = Header.seq
    /\ delivered' = Append(delivered, Cursor)
    /\ deliveredBytes' = deliveredBytes + WrappedSize(Header)
    /\ offset' = offset + WrappedSize(Header)
    /\ UNCHANGED <<wire, received, base, parsing>>

\* The loop ends, by its condition or at the break for an incomplete packet.
LoopEnds ==
    \/ ~HeaderBuffered
    \/ /\ HeaderBuffered
       /\ Header.kind \in {"badCrc", "good"}
       /\ ~PacketBuffered

\* Mutants: skipped bytes of a call that ends without a packet go unreported;
\* an undecided rest is thrown away.
FinishSilently ==
    /\ parsing
    /\ LoopEnds
    /\ skippedBytes' = 0
    /\ base' = base + offset
    /\ offset' = 0
    /\ parsing' = FALSE
    /\ UNCHANGED <<wire, received, lastSeqNum, delivered, deliveredBytes,
                   droppedBytes, errors>>

FinishDropsRest ==
    /\ parsing
    /\ LoopEnds
    /\ droppedBytes' = droppedBytes + skippedBytes + (BufferedBytes - offset)
    /\ skippedBytes' = 0
    /\ base' = received
    /\ offset' = 0
    /\ parsing' = FALSE
    /\ UNCHANGED <<wire, received, lastSeqNum, delivered, deliveredBytes,
                   errors>>

\* Final report of skipped bytes; leftovers move to the front of buf.
Finish ==
    /\ parsing
    /\ LoopEnds
    /\ droppedBytes' = droppedBytes + skippedBytes
    /\ skippedBytes' = 0
    /\ base' = base + offset
    /\ offset' = 0
    /\ parsing' = FALSE
    /\ UNCHANGED <<wire, received, lastSeqNum, delivered, deliveredBytes,
                   errors>>

Parse == NoStartWord \/ InvalidHeader \/ InvalidCrc \/ ValidPacket \/ Finish

Next == Feed \/ Parse

\* The intake task is ready whenever it is inside extractPackets, and tasks of
\* its priority are time-sliced; nothing is assumed of the sender.
Spec == Init /\ [][Next]_vars /\ WF_vars(Parse)

-------------------------------------------------------------------------------
(* Properties *)

ErrorReports == [kind : {"badLength", "badId", "badCrc", "badSequence"},
                 at : Positions]

\* Types, and the bounds that keep every access inside buf.
TypeOK ==
    /\ wire \in [Positions -> Headers]
    /\ received \in 0 .. StreamLen
    /\ base \in Nat
    /\ offset \in Nat
    /\ Cursor <= received
    /\ BufferedBytes <= BufSize
    /\ skippedBytes \in Nat
    /\ lastSeqNum \in Nat
    /\ parsing \in BOOLEAN
    /\ delivered \in Seq(Positions)
    /\ deliveredBytes \in Nat
    /\ droppedBytes \in Nat
    /\ errors \in Seq(ErrorReports)

\* Every byte the scan has passed is in exactly one packet or one
\* DroppedBytes report, or is about to be reported; between calls nothing is
\* left unreported.  "Thrown internally whenever bytes must be discarded".
AccountsBalance ==
    /\ droppedBytes + skippedBytes + deliveredBytes = Cursor
    /\ ~parsing => skippedBytes = 0 /\ offset = 0

\* The bytes left in buf between calls are fewer than one packet, so the next
\* read always has room: a full buffer would make util.read ask for 0 bytes
\* and never return.
LeftoverLeavesRoom == ~parsing => BufferedBytes < MaxWrapped

\* p starts inside the i-th delivered packet
Covers(i, p) ==
    /\ delivered[i] <= p
    /\ p < delivered[i] + WrappedSize(wire[delivered[i]])

\* Corruption costs only itself: a good packet the scan has passed was
\* delivered, unless it starts inside the bytes of a delivered packet.
NoPacketLost ==
    \A p \in Positions :
        p < Cursor /\ wire[p].kind = "good" =>
            \E i \in 1 .. Len(delivered) : Covers(i, p)

\* Delivered packets are good, whole, and disjoint, in stream order.
DeliveredInOrder ==
    /\ \A i \in 1 .. Len(delivered) :
          /\ wire[delivered[i]].kind = "good"
          /\ delivered[i] + WrappedSize(wire[delivered[i]]) <= Cursor
    /\ \A i, j \in 1 .. Len(delivered) :
          i < j => delivered[i] + WrappedSize(wire[delivered[i]])
                        <= delivered[j]

\* "Thrown once whenever a group of packets is skipped": a sequence error is
\* reported for exactly those packets whose number does not follow the number
\* of the packet delivered before (0 before the first).
PreviousSeq(i) == IF i = 1 THEN 0 ELSE wire[delivered[i - 1]].seq

SequenceErrorsExact ==
    \A i \in 1 .. Len(delivered) :
        wire[delivered[i]].seq # (PreviousSeq(i) + 1) % SeqModulus
            <=> \E k \in 1 .. Len(errors) :
                    errors[k] = [kind |-> "badSequence", at |-> delivered[i]]

\* What one call on the first n bytes of the stream would find from each position
\* on: where it stops, what it delivers, which headers it rejects.
OneShot(n) ==
    LET scan[p \in 0 .. StreamLen] ==
          LET stop == [stop |-> p, delivered |-> <<>>, rejected |-> <<>>]
              reject(rest) == [rest EXCEPT !.rejected =
                                  <<[kind |-> wire[p].kind, at |-> p]>> \o @]
              whole == p + WrappedSize(wire[p]) <= n
          IN  CASE p + MinWrapped > n -> stop
                [] OTHER ->
                   CASE wire[p].kind = "noise" -> scan[p + 1]
                     [] wire[p].kind \in {"badLength", "badId"} ->
                          reject(scan[p + 1])
                     [] wire[p].kind = "badCrc" /\ whole -> reject(scan[p + 1])
                     [] wire[p].kind = "good" /\ whole ->
                          [scan[p + WrappedSize(wire[p])] EXCEPT
                              !.delivered = <<p>> \o @]
                     [] OTHER -> stop
    IN  scan

\* The reports of rejected headers among the first errors of s, for each number
\* of them.
Rejected(s) ==
    LET kept[k \in 0 .. Len(s)] ==
          CASE k = 0 -> <<>>
            [] k > 0 /\ s[k].kind = "badSequence" -> kept[k - 1]
            [] OTHER -> Append(kept[k - 1], s[k])
    IN  kept

Rejections == Rejected(errors)[Len(errors)]

\* However the stream was cut into reads, the packets delivered and the errors
\* reported so far are those of a single call on all of it.
ChunkingIndependent ==
    ~parsing => OneShot(received)[0] = [stop |-> base, delivered |-> delivered,
                                        rejected |-> Rejections]

\* The parser implements the abstract stream.
ImplementsStream == Stream!StreamSpec

\* Every call of extractPackets returns.
CallReturns == parsing ~> ~parsing
===============================================================================
