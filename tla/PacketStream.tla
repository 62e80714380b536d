----------------------------- MODULE PacketStream -----------------------------
(***************************************************************************)
(* What a packet parser promises to the code behind it, without buffers,   *)
(* chunks or calls: a cursor moves over the byte stream that has arrived   *)
(* and, at each position, either hands over the whole packet that starts   *)
(* there or gives up exactly one byte.  PacketParser implements this.      *)
(***************************************************************************)
EXTENDS PacketFormat, Sequences

VARIABLES
    wire,       \* what is found at each position
    received,   \* bytes that have arrived
    cursor,     \* first position not yet decided
    delivered   \* positions of the packets handed over, in that order

streamVars == <<wire, received, cursor, delivered>>

StreamInit ==
    /\ wire \in [Positions -> Headers]
    /\ received = 0
    /\ cursor = 0
    /\ delivered = <<>>

Arrive ==
    /\ received' \in received + 1 .. StreamLen
    /\ UNCHANGED <<wire, cursor, delivered>>

Deliver ==
    /\ cursor \in Positions
    /\ wire[cursor].kind = "good"
    /\ cursor + WrappedSize(wire[cursor]) <= received
    /\ delivered' = Append(delivered, cursor)
    /\ cursor' = cursor + WrappedSize(wire[cursor])
    /\ UNCHANGED <<wire, received>>

\* Never more than one byte at a time, and never a byte at which a good
\* packet starts.
Discard ==
    /\ cursor \in Positions
    /\ cursor + MinWrapped <= received
    /\ wire[cursor].kind # "good"
    /\ cursor' = cursor + 1
    /\ UNCHANGED <<wire, received, delivered>>

StreamNext == Arrive \/ Deliver \/ Discard

StreamSpec == StreamInit /\ [][StreamNext]_streamVars
===============================================================================
