----------------------------- MODULE PacketFormat -----------------------------
(***************************************************************************)
(* The wire format of common/inc/packets.h, as far as a parser of it can   *)
(* tell packets apart.                                                     *)
(*                                                                         *)
(* A byte stream is a function from positions to headers: the header at p  *)
(* is what a reader finds when it takes the bytes from position p on to be *)
(* a WrappedPacket.  Contents are fixed once sent, so what is found at a   *)
(* position never changes; headers may overlap, since any four bytes may   *)
(* happen to be the start word.                                            *)
(***************************************************************************)
EXTENDS Naturals

CONSTANTS
    WrapperLength,     \* wrapperLength: start word and crc
    MinPacketLength,   \* minPacketLength: the fields common to all packets
    MaxPacketLength,   \* sizeof(Packet)
    StreamLen,         \* bound: bytes that ever arrive
    Headers            \* the headers that may be found at a position

Kinds == {"noise", "badLength", "badId", "badCrc", "good"}

Lengths == MinPacketLength .. MaxPacketLength

ASSUME LengthAssumption ==
    /\ WrapperLength \in Nat \ {0}
    /\ MinPacketLength \in Nat \ {0}
    /\ MaxPacketLength \in Nat
    /\ MinPacketLength <= MaxPacketLength

\* len and seq only mean something where the checks before their use passed.
ASSUME StreamAssumption ==
    /\ StreamLen \in Nat
    /\ Headers \subseteq [kind : Kinds, len : Lengths, seq : Nat]

MinWrapped == WrapperLength + MinPacketLength   \* minWrappedPacketLength
MaxWrapped == WrapperLength + MaxPacketLength   \* maxWrappedPacketLength

\* wrappedPacketSize: bytes taken by the packet whose header is h
WrappedSize(h) == WrapperLength + h.len

\* Where a whole header may be found.
Positions == {p \in 0 .. StreamLen : p + MinWrapped <= StreamLen}
===============================================================================
