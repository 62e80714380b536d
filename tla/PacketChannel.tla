---------------------------- MODULE PacketChannel ----------------------------
(***************************************************************************)
(* What the writers of PacketOutput may expect of the way to the host: a   *)
(* channel that delivers the accepted packets once and in order, except    *)
(* malformed ones, those that are due while no host is listening, and the  *)
(* tail of a delivery that is cut short.  Such a loss is warned of before  *)
(* anything else is delivered.                                             *)
(***************************************************************************)
EXTENDS Naturals, Sequences

CONSTANTS
  Writers,
  Malformed      \* packets whose length does not fit their id

VARIABLES
  accepted,      \* packets accepted from each writer
  queue,         \* accepted and not delivered yet
  delivered,     \* received by the host, in order
  listening,     \* the host has been heard of
  unwarned       \* packets were lost and no warning has told so

channelVars == <<accepted, queue, delivered, listening, unwarned>>

ChannelInit ==
  /\ accepted = [w \in Writers |-> 0]
  /\ queue = <<>>
  /\ delivered = <<>>
  /\ listening = FALSE
  /\ unwarned = FALSE

Front(n) == SubSeq(queue, 1, n)
Rest(n) == SubSeq(queue, n + 1, Len(queue))

\* The packets of a writer are accepted in turn, each of them once.
Accept(w) ==
  /\ accepted' = [accepted EXCEPT ![w] = @ + 1]
  /\ queue' = Append(queue, <<w, accepted'[w]>>)
  /\ UNCHANGED <<delivered, listening, unwarned>>

\* Of the next n packets the first k arrive, and the others are lost.
Deliver(n, k) ==
  /\ listening
  /\ ~unwarned
  /\ delivered' = delivered \o Front(k)
  /\ queue' = Rest(n)
  /\ unwarned' = (k < n)
  /\ UNCHANGED <<accepted, listening>>

Warn ==
  /\ unwarned' = FALSE
  /\ UNCHANGED <<accepted, queue, delivered, listening>>

DropUnheard(n) ==
  /\ ~listening
  /\ queue' = Rest(n)
  /\ UNCHANGED <<accepted, delivered, listening, unwarned>>

DropMalformed(n) ==
  /\ queue[n] \in Malformed
  /\ queue' = Front(n - 1) \o Rest(n)
  /\ UNCHANGED <<accepted, delivered, listening, unwarned>>

HostHeard ==
  /\ listening' = TRUE
  /\ UNCHANGED <<accepted, queue, delivered, unwarned>>

ChannelNext ==
  \/ \E w \in Writers : Accept(w)
  \/ \E n \in 1 .. Len(queue) :
       \/ \E k \in 0 .. n : Deliver(n, k)
       \/ DropUnheard(n)
       \/ DropMalformed(n)
  \/ Warn
  \/ HostHeard

ChannelSpec == ChannelInit /\ [][ChannelNext]_channelVars
=============================================================================
