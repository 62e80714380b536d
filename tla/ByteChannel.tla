----------------------------- MODULE ByteChannel -----------------------------
(***************************************************************************)
(* What every path of this firmware promises: what was accepted comes out  *)
(* once and in order, any number of items at a time.  SerialLine and       *)
(* ItmLogger implement it.                                                 *)
(***************************************************************************)
EXTENDS Naturals, Sequences

CONSTANT Item

VARIABLES
  onTheWay,      \* accepted, not delivered yet
  delivered

channelVars == <<onTheWay, delivered>>

ChannelInit == onTheWay = <<>> /\ delivered = <<>>

\* More is accepted behind what is on its way.
Accept ==
  /\ onTheWay' \in Seq(Item)
  /\ Len(onTheWay) <= Len(onTheWay')
  /\ onTheWay = SubSeq(onTheWay', 1, Len(onTheWay))
  /\ UNCHANGED delivered

Deliver == \E n \in 1 .. Len(onTheWay) :
  /\ delivered' = delivered \o SubSeq(onTheWay, 1, n)
  /\ onTheWay' = SubSeq(onTheWay, n + 1, Len(onTheWay))

ChannelSpec == ChannelInit /\ [][Accept \/ Deliver]_channelVars
=============================================================================
