-------------------------- MODULE OutputPathProofs --------------------------
(***************************************************************************)
(* For any number of writers and buffers of any sizes: the way to the host *)
(* implements PacketChannel, the numbers the host receives tell it how     *)
(* many packets it misses, and the buffer of a transfer stays as it is     *)
(* until the transfer ends.                                                *)
(*                                                                         *)
(* The inductive invariant: every packet that was numbered has the number  *)
(* of its place among all of them, whether it was sent or is held behind   *)
(* those that left txBuf; the holder of the mutex still finds the room it  *)
(* saw; the length that the library was given is that of what is in txBuf; *)
(* and a transfer that ended short is told by a length that differs.       *)
(***************************************************************************)
EXTENDS OutputPath, SequenceTheorems, TLAPS

Wrapped == Output!Wrapped
Packets == Output!Packets

\* The numbered packets on their way.
Held == InTxBuf \o txMsgBuf \o InWrap

\* A writer that holds the mutex has a packet to write and keeps the room it saw.
RoomKept ==
  \A w \in Writers :
    /\ writing[w] # "no" => written[w] < MaxPackets
    /\ writing[w] = "copying" => Len(msgbuf) < MsgbufLen

\* From the first message packed to the end of the transfer.
LengthsAgree ==
  /\ txState \/ txTask \in {"pack", "link", "transmit"} => txBuf # <<>>
  /\ txTask \in {"link", "transmit", "wait"} => txLen = 2 * Len(txBuf)
  /\ txTask = "transmit" => usbTxLength = 2 * Len(txBuf)

\* txFunc will find the length it has to warn of.
ShortIsSeen == unwarned => notification > 0 /\ notification # txLen

NothingUnheard == rxReceivedTotal = 0 => sent = <<>>

\* What is held has the numbers of its places behind what is gone.
Numbered ==
  /\ num = (gone + Len(Held)) % SequenceNumbers
  /\ \A k \in 1 .. Len(Held) : Held[k][2] = (gone + (k - 1)) % SequenceNumbers

\* What was sent has the numbers of its places.
Placed ==
  /\ \A i \in 1 .. Len(sent) :
       places[i] \in 1 .. gone /\ sent[i][2] = (places[i] - 1) % SequenceNumbers
  /\ \A i \in 1 .. Len(sent) - 1 : places[i] < places[i + 1]

Strong == TypeOK /\ RoomKept /\ LengthsAgree /\ NothingUnheard
IInv == Strong /\ ShortIsSeen /\ Numbered /\ Placed

-------------------------------------------------------------------------------
(* Sequences *)

LEMMA One ==
  ASSUME NEW S, NEW e \in S
  PROVE  <<e>> \in Seq(S) /\ Len(<<e>>) = 1 /\ <<e>>[1] = e
  OBVIOUS

\* What a message buffer gives, and what it keeps.
LEMMA Unfold ==
  ASSUME NEW S, NEW s \in Seq(S), s # <<>>
  PROVE  /\ Head(s) \in S /\ Tail(s) \in Seq(S)
         /\ Len(Tail(s)) = Len(s) - 1
         /\ s = <<Head(s)>> \o Tail(s)
  <1>1. Head(s) \in S /\ Tail(s) \in Seq(S) /\ Len(Tail(s)) = Len(s) - 1
    BY HeadTailProperties
  <1>2. Len(s) \in Nat \ {0}
    BY EmptySeq
  <1>3. SubSeq(s, 1, Len(s)) = <<s[1]>> \o SubSeq(s, 2, Len(s))
    BY <1>2, SubSeqRecursiveFirst
  <1>4. Head(s) = s[1]
    OBVIOUS
  <1> QED
    BY <1>1, <1>3, <1>4, SubSeqFull, TailIsSubSeq

\* A concatenation is cut again where it was joined.
LEMMA Cut ==
  ASSUME NEW S, NEW a \in Seq(S), NEW b \in Seq(S)
  PROVE  /\ SubSeq(a \o b, 1, Len(a)) = a
         /\ SubSeq(a \o b, Len(a) + 1, Len(a \o b)) = b
  <1>1. a \o b \in Seq(S) /\ Len(a \o b) = Len(a) + Len(b)
        /\ \A i \in 1 .. Len(a) + Len(b) :
             (a \o b)[i] = IF i <= Len(a) THEN a[i] ELSE b[i - Len(a)]
    BY ConcatProperties
  <1>2. Len(a) \in Nat /\ Len(b) \in Nat
    BY LenProperties
  <1>3. \A i \in 1 .. Len(a) + Len(b) : (a \o b)[i] \in S
    BY <1>1, ElementOfSeq
  <1>4. SubSeq(a \o b, 1, Len(a)) = a
    <2>1. /\ SubSeq(a \o b, 1, Len(a)) \in Seq(S)
          /\ Len(SubSeq(a \o b, 1, Len(a))) = Len(a)
          /\ \A i \in 1 .. Len(a) : SubSeq(a \o b, 1, Len(a))[i] = (a \o b)[i]
      BY <1>2, <1>3, SubSeqProperties
    <2> QED
      BY <1>1, <1>2, <2>1, SeqEqual
  <1>5. SubSeq(a \o b, Len(a) + 1, Len(a) + Len(b)) = b
    <2> DEFINE r == SubSeq(a \o b, Len(a) + 1, Len(a) + Len(b))
    <2>1. /\ r \in Seq(S) /\ Len(r) = Len(b)
          /\ \A i \in 1 .. Len(b) : r[i] = (a \o b)[Len(a) + i]
      BY <1>2, <1>3, SubSeqProperties
    <2>2. \A i \in 1 .. Len(b) : r[i] = b[i]
      BY <1>1, <1>2, <2>1
    <2> QED
      BY <2>1, <2>2, SeqEqual
  <1> QED
    BY <1>1, <1>4, <1>5

\* Taking the numbers off keeps the order.
LEMMA PacketsAre ==
  ASSUME NEW s \in Seq(Wrapped)
  PROVE  /\ PacketsOf(s) \in Seq(Packets) /\ Len(PacketsOf(s)) = Len(s)
         /\ \A i \in 1 .. Len(s) : PacketsOf(s)[i] = s[i][1]
  <1>1. Len(s) \in Nat /\ DOMAIN s = 1 .. Len(s)
    BY LenProperties
  <1>2. \A i \in 1 .. Len(s) : s[i] \in Wrapped
    BY ElementOfSeq
  <1>3. PacketsOf(s) \in [1 .. Len(s) -> Packets]
    BY <1>1, <1>2 DEF PacketsOf, Wrapped, Packets, Output!Wrapped
  <1>4. PacketsOf(s) \in Seq(Packets)
    BY <1>1, <1>3, SeqDef
  <1>5. Len(PacketsOf(s)) = Len(s)
    BY <1>1, <1>3, <1>4, LenProperties
  <1> QED
    BY <1>1, <1>4, <1>5 DEF PacketsOf

LEMMA PacketsOfConcat ==
  ASSUME NEW a \in Seq(Wrapped), NEW b \in Seq(Wrapped)
  PROVE  PacketsOf(a \o b) = PacketsOf(a) \o PacketsOf(b)
  <1>1. a \o b \in Seq(Wrapped) /\ Len(a \o b) = Len(a) + Len(b)
        /\ \A i \in 1 .. Len(a) + Len(b) :
             (a \o b)[i] = IF i <= Len(a) THEN a[i] ELSE b[i - Len(a)]
    BY ConcatProperties
  <1>2. Len(a) \in Nat /\ Len(b) \in Nat
    BY LenProperties
  <1>3. PacketsOf(a) \in Seq(Packets) /\ Len(PacketsOf(a)) = Len(a)
        /\ \A i \in 1 .. Len(a) : PacketsOf(a)[i] = a[i][1]
    BY PacketsAre
  <1>4. PacketsOf(b) \in Seq(Packets) /\ Len(PacketsOf(b)) = Len(b)
        /\ \A i \in 1 .. Len(b) : PacketsOf(b)[i] = b[i][1]
    BY PacketsAre
  <1>5. PacketsOf(a \o b) \in Seq(Packets) /\ Len(PacketsOf(a \o b)) = Len(a) + Len(b)
        /\ \A i \in 1 .. Len(a) + Len(b) : PacketsOf(a \o b)[i] = (a \o b)[i][1]
    BY <1>1, PacketsAre
  <1> DEFINE c == PacketsOf(a) \o PacketsOf(b)
  <1>6. c \in Seq(Packets) /\ Len(c) = Len(a) + Len(b)
        /\ \A i \in 1 .. Len(a) + Len(b) :
             c[i] = IF i <= Len(a) THEN PacketsOf(a)[i] ELSE PacketsOf(b)[i - Len(a)]
    <2>1. /\ c \in Seq(Packets) /\ Len(c) = Len(PacketsOf(a)) + Len(PacketsOf(b))
          /\ \A i \in 1 .. Len(PacketsOf(a)) + Len(PacketsOf(b)) :
               c[i] = IF i <= Len(PacketsOf(a)) THEN PacketsOf(a)[i]
                      ELSE PacketsOf(b)[i - Len(PacketsOf(a))]
      <3>1. PacketsOf(a) \in Seq(Packets) /\ PacketsOf(b) \in Seq(Packets)
        BY <1>3, <1>4
      <3> QED
        BY <3>1, ConcatProperties
    <2> HIDE DEF c
    <2>2. Len(PacketsOf(a)) = Len(a) /\ Len(PacketsOf(b)) = Len(b)
      BY <1>3, <1>4
    <2> QED
      BY <2>1, <2>2
  <1>7. ASSUME NEW i \in 1 .. Len(a) + Len(b)
        PROVE  PacketsOf(a \o b)[i] = c[i]
    <2>1. CASE i <= Len(a)
      BY SMTT(30), <1>1, <1>2, <1>3, <1>5, <1>6, <2>1
    <2>2. CASE ~(i <= Len(a))
      <3>1. i - Len(a) \in 1 .. Len(b)
        BY <1>2, <2>2
      <3> HIDE DEF c
      <3> QED
        BY <1>1, <1>4, <1>5, <1>6, <2>2, <3>1
    <2> QED
      BY <2>1, <2>2
  <1> HIDE DEF c
  <1>8. PacketsOf(a \o b) = c
    BY <1>5, <1>6, <1>7, SeqEqual
  <1> QED
    BY <1>8 DEF c

\* What a buffer begins with, its packets begin with.
LEMMA FrontOfPackets ==
  ASSUME NEW a \in Seq(Wrapped), NEW r \in Seq(Packets), NEW m \in 0 .. Len(a)
  PROVE  /\ SubSeq(a, 1, m) \in Seq(Wrapped) /\ Len(SubSeq(a, 1, m)) = m
         /\ \A i \in 1 .. m : SubSeq(a, 1, m)[i] = a[i]
         /\ PacketsOf(SubSeq(a, 1, m)) = SubSeq(PacketsOf(a) \o r, 1, m)
  <1>1. Len(a) \in Nat /\ Len(r) \in Nat /\ m \in Nat
    BY LenProperties
  <1>2. \A i \in 1 .. m : a[i] \in Wrapped
    BY <1>1, ElementOfSeq
  <1>3. /\ SubSeq(a, 1, m) \in Seq(Wrapped) /\ Len(SubSeq(a, 1, m)) = m
        /\ \A i \in 1 .. m : SubSeq(a, 1, m)[i] = a[i]
    BY <1>1, <1>2, SubSeqProperties
  <1> DEFINE f == SubSeq(a, 1, m)
             c == PacketsOf(a) \o r
             g == SubSeq(c, 1, m)
  <1>4. PacketsOf(f) \in Seq(Packets) /\ Len(PacketsOf(f)) = m
        /\ \A i \in 1 .. m : PacketsOf(f)[i] = f[i][1]
    BY <1>3, PacketsAre
  <1>5. PacketsOf(a) \in Seq(Packets) /\ Len(PacketsOf(a)) = Len(a)
        /\ \A i \in 1 .. Len(a) : PacketsOf(a)[i] = a[i][1]
    BY PacketsAre
  <1>6. /\ c \in Seq(Packets) /\ Len(c) = Len(a) + Len(r)
        /\ \A i \in 1 .. m : c[i] = PacketsOf(a)[i]
    <2>1. PacketsOf(a) \in Seq(Packets)
      BY <1>5
    <2>2. /\ c \in Seq(Packets) /\ Len(c) = Len(PacketsOf(a)) + Len(r)
          /\ \A i \in 1 .. Len(PacketsOf(a)) + Len(r) :
               c[i] = IF i <= Len(PacketsOf(a)) THEN PacketsOf(a)[i]
                      ELSE r[i - Len(PacketsOf(a))]
      BY <2>1, ConcatProperties
    <2> HIDE DEF c
    <2> QED
      BY <1>1, <1>5, <2>2
  <1>7. \A i \in 1 .. m : c[i] \in Packets
    <2> HIDE DEF c
    <2> QED
      BY <1>1, <1>6, ElementOfSeq
  <1>8. /\ g \in Seq(Packets) /\ Len(g) = m
        /\ \A i \in 1 .. m : g[i] = c[i]
    <2> HIDE DEF c
    <2> QED
      BY <1>1, <1>7, SubSeqProperties
  <1>9. \A i \in 1 .. m : PacketsOf(f)[i] = g[i]
    <2> HIDE DEF c, g
    <2> QED
      BY <1>1, <1>3, <1>4, <1>5, <1>6, <1>8
  <1> HIDE DEF c, g, f
  <1>10. PacketsOf(f) = g
    BY <1>4, <1>8, <1>9, SeqEqual
  <1> QED
    BY <1>3, <1>10 DEF f, g, c

\* A remainder may be taken before a number is added.
LEMMA RemainderFirst ==
  ASSUME NEW N \in Nat \ {0}, NEW a \in Nat, NEW d \in Nat
  PROVE  ((a % N) + d) % N = (a + d) % N
  <1> DEFINE r == a % N
             q == a \div N
             b == r + d
             p == b \div N
             t == b % N
  <1>1. a = N * q + r /\ r \in 0 .. N - 1 /\ q \in Nat
    OBVIOUS
  <1>2. b = N * p + t /\ t \in 0 .. N - 1 /\ p \in Nat
    BY <1>1
  <1>3. \A k \in Nat : (N * k + t) % N = t
    <2> HIDE DEF t, b
    <2> QED
      BY <1>2
  <1> HIDE DEF r, q, p, t
  <1>4. a + d = N * (q + p) + t
    BY <1>1, <1>2
  <1>5. q + p \in Nat
    BY <1>1, <1>2
  <1>6. (N * (q + p) + t) % N = t
    BY <1>3, <1>5, Zenon
  <1>7. (a + d) % N = t
    BY <1>4, <1>6, Zenon
  <1> QED
    BY <1>7 DEF t, r

-------------------------------------------------------------------------------
(* Types and lengths, action by action *)

USE DEF Strong, TypeOK, Output!TypeOK, Usb!TypeOK, RoomKept, LengthsAgree, NothingUnheard,
        outputVars, usbVars, Output!writerVars, Usb!txVars, Usb!libraryVars, Usb!lossVars,
        Wrapped, Packets

LEMMA Sizes ==
  /\ MaxPackets \in Nat \ {0} /\ MsgbufLen \in Nat \ {0} /\ TargetLen \in Nat \ {0}
  /\ SequenceNumbers \in Nat \ {0} /\ TSize \in Nat \ {0} /\ MaxReceived \in Nat
  BY LengthsAssumption

LEMMA Lengths ==
  ASSUME Strong
  PROVE  /\ Len(msgbuf) \in Nat /\ Len(txMsgBuf) \in Nat /\ Len(txBuf) \in Nat
         /\ txBuf # <<>> => Len(txBuf) # 0
  BY LenProperties, EmptySeq

LEMMA LockStrong ==
  ASSUME Strong, NEW w \in Writers, Output!Lock(w), UNCHANGED usbVars
  PROVE  Strong'
  BY WritersAssumption DEF Output!Lock

LEMMA FindRoomStrong ==
  ASSUME Strong, NEW w \in Writers, Output!FindRoom(w), UNCHANGED usbVars
  PROVE  Strong'
  BY DEF Output!FindRoom

LEMMA SendStrong ==
  ASSUME Strong, NEW w \in Writers, Output!Send(w), UNCHANGED usbVars
  PROVE  Strong'
  <1> USE DEF Output!Send
  <1>1. written[w] + 1 \in 1 .. MaxPackets
    <2>1. written[w] \in 0 .. MaxPackets /\ written[w] < MaxPackets
      OBVIOUS
    <2> QED
      BY <2>1, Sizes
  <1>2. <<w, written[w] + 1>> \in Packets
    BY <1>1 DEF Output!Packets
  <1>3. msgbuf' \in Seq(Packets) /\ Len(msgbuf') = Len(msgbuf) + 1
    BY <1>2, AppendProperties
  <1>4. Len(msgbuf') <= MsgbufLen
    BY <1>3, Sizes, Lengths
  <1>5. written' \in [Writers -> 0 .. MaxPackets]
    BY <1>1, Sizes
  <1>6. /\ writeMutex' = NoWriter /\ writing' = [writing EXCEPT ![w] = "no"]
        /\ \A v \in Writers : v # w => writing[v] = "no"
    OBVIOUS
  <1>7. /\ writing' \in [Writers -> {"no", "locked", "copying"}]
        /\ \A v \in Writers : writing'[v] = "no" /\ writeMutex' # v
    BY <1>6, WritersAssumption
  <1> QED
    BY <1>3, <1>4, <1>5, <1>7

LEMMA SendTimesOutStrong ==
  ASSUME Strong, NEW w \in Writers, Output!SendTimesOut(w), UNCHANGED usbVars
  PROVE  Strong'
  <1> USE DEF Output!SendTimesOut
  <1>1. /\ writing' \in [Writers -> {"no", "locked", "copying"}]
        /\ \A v \in Writers : writing'[v] = "no" /\ writeMutex' # v
    BY WritersAssumption
  <1> QED
    BY <1>1

LEMMA DropPacketStrong ==
  ASSUME Strong, Output!DropPacket, UNCHANGED usbVars
  PROVE  Strong'
  <1> USE DEF Output!DropPacket
  <1>1. msgbuf' \in Seq(Packets) /\ Len(msgbuf') = Len(msgbuf) - 1
    BY HeadTailProperties
  <1>2. Len(msgbuf') \in Nat /\ Len(msgbuf') <= MsgbufLen
        /\ (Len(msgbuf) < MsgbufLen => Len(msgbuf') < MsgbufLen)
    BY <1>1, Lengths, Sizes, LenProperties
  <1> QED
    BY <1>1, <1>2

LEMMA RewrapStrong ==
  ASSUME Strong, Output!Rewrap, UNCHANGED usbVars
  PROVE  Strong' /\ wrap' \in Wrapped
  <1> USE DEF Output!Rewrap
  <1>1. Head(msgbuf) \in Packets /\ msgbuf' \in Seq(Packets) /\ Len(msgbuf') = Len(msgbuf) - 1
    BY HeadTailProperties
  <1>2. Len(msgbuf') \in Nat /\ Len(msgbuf') <= MsgbufLen
        /\ (Len(msgbuf) < MsgbufLen => Len(msgbuf') < MsgbufLen)
    BY <1>1, Lengths, Sizes, LenProperties
  <1>3. num' \in 0 .. SequenceNumbers - 1
    BY Sizes
  <1>4. wrap' \in Wrapped
    BY <1>1 DEF Output!Wrapped
  <1> QED
    BY <1>1, <1>2, <1>3, <1>4

LEMMA WriteTargetStrong ==
  ASSUME Strong, Output!WriteTarget, UNCHANGED usbVars
  PROVE  Strong' /\ wrap \in Wrapped
  <1> USE DEF Output!WriteTarget
  <1>1. wrap \in Wrapped
    OBVIOUS
  <1>2. txMsgBuf' \in Seq(Wrapped) /\ Len(txMsgBuf') = Len(txMsgBuf) + 1
    BY <1>1, AppendProperties
  <1>3. Len(txMsgBuf') <= TargetLen
    BY <1>2, Lengths, Sizes
  <1> QED
    BY <1>1, <1>2, <1>3

LEMMA ReadFirstStrong ==
  ASSUME Strong, Usb!ReadFirst, UNCHANGED outputVars
  PROVE  Strong'
  <1> USE DEF Usb!ReadFirst
  <1>1. Head(txMsgBuf) \in Wrapped /\ txMsgBuf' \in Seq(Wrapped)
        /\ Len(txMsgBuf') = Len(txMsgBuf) - 1
    BY HeadTailProperties
  <1>2. Len(txMsgBuf') <= TargetLen
    BY <1>1, Lengths, Sizes
  <1>3. txBuf' \in Seq(Wrapped) /\ Len(txBuf') = 1 /\ txBuf' # <<>>
    BY <1>1, One
  <1>4. Len(txBuf') <= TSize
    BY <1>3, Sizes
  <1> QED
    BY <1>1, <1>2, <1>3, <1>4

LEMMA ReadNextStrong ==
  ASSUME Strong, Usb!ReadNext, UNCHANGED outputVars
  PROVE  Strong'
  <1> USE DEF Usb!ReadNext
  <1>1. Head(txMsgBuf) \in Wrapped /\ txMsgBuf' \in Seq(Wrapped)
        /\ Len(txMsgBuf') = Len(txMsgBuf) - 1
    BY HeadTailProperties
  <1>2. Len(txMsgBuf') <= TargetLen
    BY <1>1, Lengths, Sizes
  <1>3. txBuf' \in Seq(Wrapped) /\ Len(txBuf') = Len(txBuf) + 1 /\ txBuf' # <<>>
    <2>1. txBuf \in Seq(Wrapped) /\ txBuf' = Append(txBuf, Head(txMsgBuf))
      OBVIOUS
    <2> HIDE DEF Strong
    <2> QED
      BY <1>1, <2>1, AppendProperties
  <1>4. Len(txBuf') <= TSize
    BY <1>3, Lengths, Sizes
  <1> QED
    BY <1>1, <1>2, <1>3, <1>4

LEMMA ReadEndsStrong ==
  ASSUME Strong, Usb!ReadEnds, UNCHANGED outputVars
  PROVE  Strong'
  <1>1. Len(txBuf) \in 0 .. TSize
    BY Lengths, Sizes
  <1>2. txLen' \in 0 .. 2 * TSize
    BY <1>1, Sizes DEF Usb!ReadEnds
  <1> QED
    BY <1>1, <1>2 DEF Usb!ReadEnds

LEMMA SkipTransmitStrong ==
  ASSUME Strong, Usb!SkipTransmit, UNCHANGED outputVars
  PROVE  Strong'
  <1>1. gone' \in Nat
    BY Lengths DEF Usb!SkipTransmit
  <1> QED
    BY <1>1 DEF Usb!SkipTransmit

LEMMA SetTxBufferStrong ==
  ASSUME Strong, Usb!SetTxBuffer, UNCHANGED outputVars
  PROVE  Strong'
  BY DEF Usb!SetTxBuffer

LEMMA TransmitPacketStrong ==
  ASSUME Strong, Usb!TransmitPacket, UNCHANGED outputVars
  PROVE  Strong'
  <1>1. notification = 0
    BY DEF Usb!TransmitPacket
  <1> QED
    BY <1>1 DEF Usb!TransmitPacket

LEMMA TakeNotificationStrong ==
  ASSUME Strong, Usb!TakeNotification, UNCHANGED outputVars
  PROVE  Strong'
  <1>1. unwarned' \in BOOLEAN
    BY Zenon DEF Usb!TakeNotification
  <1>2. notification' \in 0 .. 2 * TSize /\ ~(notification' > 0)
    BY Sizes DEF Usb!TakeNotification
  <1> QED
    BY <1>1, <1>2 DEF Usb!TakeNotification

LEMMA ReceiveStrong ==
  ASSUME Strong, Usb!receiveCb, UNCHANGED outputVars
  PROVE  Strong'
  <1>1. rxReceivedTotal' \in 0 .. MaxReceived /\ rxReceivedTotal' # 0
    BY Sizes DEF Usb!receiveCb
  <1> QED
    BY <1>1 DEF Usb!receiveCb

\* The host has the first m messages of txBuf, all of them if the transfer ends with
\* the length that the library has.
LEMMA Complete ==
  ASSUME Strong, Usb!transmitCpltCb, UNCHANGED outputVars
  PROVE  \E len \in 1 .. 2 * Len(txBuf), m \in 0 .. Len(txBuf) :
           /\ notification' = len
           /\ sent' = sent \o SubSeq(txBuf, 1, m)
           /\ places' = places \o [i \in 1 .. m |-> gone + i]
           /\ unwarned' = (len # usbTxLength)
           /\ (len # usbTxLength) = (m < Len(txBuf))
  <1>1. usbTxLength = 2 * Len(txBuf) /\ Len(txBuf) \in Nat
    BY Lengths DEF Usb!transmitCpltCb
  <1> HIDE DEF Strong
  <1>2. PICK len \in 1 .. usbTxLength :
          /\ notification' = len
          /\ sent' = sent \o SubSeq(txBuf, 1, len \div 2)
          /\ places' = places \o [i \in 1 .. len \div 2 |-> gone + i]
          /\ unwarned' = (len # usbTxLength)
    BY DEF Usb!transmitCpltCb
  <1> DEFINE m == len \div 2
  <1>3. m \in 0 .. Len(txBuf) /\ ((len # usbTxLength) = (m < Len(txBuf)))
    BY <1>1
  <1> HIDE DEF m
  <1>4. len \in 1 .. 2 * Len(txBuf)
    BY <1>1
  <1> QED
    BY <1>2, <1>3, <1>4 DEF m

LEMMA NewPlaces ==
  ASSUME Strong, NEW m \in Nat
  PROVE  /\ [i \in 1 .. m |-> gone + i] \in Seq(Nat)
         /\ Len([i \in 1 .. m |-> gone + i]) = m
  <1> DEFINE f == [i \in 1 .. m |-> gone + i]
  <1>1. f \in [1 .. m -> Nat]
    OBVIOUS
  <1>2. f \in Seq(Nat)
    BY <1>1, SeqDef
  <1>3. DOMAIN f = 1 .. m
    OBVIOUS
  <1> HIDE DEF f
  <1>4. Len(f) = m
    BY <1>2, <1>3, LenProperties
  <1> QED
    BY <1>2, <1>4 DEF f

LEMMA CompleteStrong ==
  ASSUME Strong, Usb!transmitCpltCb, UNCHANGED outputVars
  PROVE  Strong'
  <1>1. PICK len \in 1 .. 2 * Len(txBuf), m \in 0 .. Len(txBuf) :
          /\ notification' = len
          /\ sent' = sent \o SubSeq(txBuf, 1, m)
          /\ places' = places \o [i \in 1 .. m |-> gone + i]
          /\ unwarned' = (len # usbTxLength)
    BY Complete
  <1>2. Len(txBuf) \in Nat /\ Len(txBuf) <= TSize /\ txBuf \in Seq(Wrapped)
    BY Lengths
  <1>3. notification' \in 0 .. 2 * TSize
    BY <1>1, <1>2, Sizes
  <1>4. SubSeq(txBuf, 1, m) \in Seq(Wrapped) /\ Len(SubSeq(txBuf, 1, m)) = m
    <2>1. <<>> \in Seq(Packets)
      BY EmptySeq
    <2> HIDE DEF Strong
    <2> QED
      BY <1>2, <2>1, FrontOfPackets
  <1>5. sent \in Seq(Wrapped) /\ places \in Seq(Nat) /\ Len(places) = Len(sent)
    OBVIOUS
  <1>6. m \in Nat
    BY <1>2
  <1>7. /\ [i \in 1 .. m |-> gone + i] \in Seq(Nat)
        /\ Len([i \in 1 .. m |-> gone + i]) = m
    BY <1>6, NewPlaces
  <1>8. sent' \in Seq(Wrapped) /\ Len(sent') = Len(sent) + m
    <2> HIDE DEF Strong
    <2> QED
      BY <1>1, <1>4, <1>5, ConcatProperties
  <1>9. places' \in Seq(Nat) /\ Len(places') = Len(places) + m
    <2> DEFINE p == [i \in 1 .. m |-> gone + i]
    <2>1. places' = places \o p /\ p \in Seq(Nat) /\ Len(p) = m
      BY <1>1, <1>7
    <2> HIDE DEF Strong, p
    <2> QED
      BY <1>5, <2>1, ConcatProperties
  <1>10. rxReceivedTotal' # 0 /\ rxReceivedTotal' = rxReceivedTotal
    BY Sizes DEF Usb!transmitCpltCb
  <1>11. unwarned' \in BOOLEAN
    BY <1>1, Zenon
  <1>12. gone' \in Nat
    BY <1>2 DEF Usb!transmitCpltCb
  <1>13. txTask = "wait" /\ txTask' = "wait" /\ txState' = FALSE
    BY DEF Usb!transmitCpltCb
  <1>14. /\ UNCHANGED <<txMsgBuf, txBuf, txLen, usbTxLength, rxReceivedTotal, txTask>>
         /\ UNCHANGED outputVars
    BY DEF Usb!transmitCpltCb
  <1>15. Usb!TypeOK'
    BY <1>3, <1>5, <1>8, <1>9, <1>10, <1>11, <1>12, <1>13, <1>14
  <1> QED
    BY <1>10, <1>13, <1>14, <1>15

\* The task warns of a short transfer before it can start another.
LEMMA ShortIsSeenKept ==
  ASSUME Strong, ShortIsSeen, Next
  PROVE  ShortIsSeen'
  <1>1. CASE UNCHANGED <<unwarned, notification, txLen>>
    BY <1>1 DEF ShortIsSeen
  <1>2. CASE Usb!TakeNotification
    <2>1. unwarned' = (unwarned /\ notification = txLen)
      BY <1>2, Zenon DEF Usb!TakeNotification
    <2>2. ~unwarned'
      BY <2>1 DEF ShortIsSeen
    <2> QED
      BY <2>2 DEF ShortIsSeen
  <1>3. CASE Usb!transmitCpltCb /\ UNCHANGED outputVars
    <2>1. PICK len \in 1 .. 2 * Len(txBuf) :
            notification' = len /\ unwarned' = (len # usbTxLength)
      BY <1>3, Complete
    <2>2. notification' > 0
      BY <2>1, Lengths
    <2>3. txLen = usbTxLength /\ txLen' = txLen
      BY <1>3 DEF Usb!transmitCpltCb
    <2> QED
      BY <2>1, <2>2, <2>3 DEF ShortIsSeen
  <1>4. CASE Usb!ReadEnds
    <2>1. unwarned' = unwarned /\ notification = 0
      BY <1>4 DEF Usb!ReadEnds
    <2> QED
      BY <2>1 DEF ShortIsSeen
  <1> QED
    BY <1>1, <1>2, <1>3, <1>4 DEF Next, vars, Idle, Usb!txFunc, Usb!ReadFirst, Usb!ReadNext,
       Usb!SkipTransmit, Usb!SetTxBuffer, Usb!TransmitPacket, Usb!receiveCb

-------------------------------------------------------------------------------
(* What is held, action by action *)

LEMMA HeldParts ==
  ASSUME Strong
  PROVE  /\ InTxBuf \in Seq(Wrapped) /\ txMsgBuf \in Seq(Wrapped) /\ InWrap \in Seq(Wrapped)
         /\ InTxBuf \o txMsgBuf \in Seq(Wrapped) /\ Held \in Seq(Wrapped)
         /\ sent \in Seq(Wrapped)
  <1>1. InTxBuf \in Seq(Wrapped) /\ txMsgBuf \in Seq(Wrapped)
    BY EmptySeq DEF InTxBuf
  <1>2. InWrap \in Seq(Wrapped)
    BY EmptySeq, One DEF InWrap
  <1>3. InTxBuf \o txMsgBuf \in Seq(Wrapped)
    BY <1>1, ConcatProperties
  <1>4. (InTxBuf \o txMsgBuf) \o InWrap \in Seq(Wrapped)
    BY <1>2, <1>3, ConcatProperties
  <1> QED
    BY <1>1, <1>2, <1>3, <1>4 DEF Held

\* Parts of the task's loop in which what is held stays where it is.
LEMMA StaysHeld ==
  ASSUME UNCHANGED <<InTxBuf, txMsgBuf, wrap>>
  PROVE  Held' = Held
  BY DEF Held, InWrap

LEMMA ReadHeld ==
  ASSUME Strong, Usb!ReadFirst \/ Usb!ReadNext, UNCHANGED outputVars
  PROVE  Held' = Held
  <1>1. txMsgBuf # <<>> /\ txMsgBuf' = Tail(txMsgBuf)
    BY DEF Usb!ReadFirst, Usb!ReadNext
  <1> DEFINE h == Head(txMsgBuf)
             t == Tail(txMsgBuf)
  <1>2. h \in Wrapped /\ t \in Seq(Wrapped) /\ txMsgBuf = <<h>> \o t /\ <<h>> \in Seq(Wrapped)
    BY <1>1, Unfold, One
  <1>3. InTxBuf' = InTxBuf \o <<h>>
    <2>1. CASE Usb!ReadFirst
      <3>1. InTxBuf = <<>> /\ InTxBuf' = <<h>>
        BY <2>1 DEF Usb!ReadFirst, InTxBuf
      <3> QED
        BY <1>2, <3>1, ConcatEmptySeq
    <2>2. CASE Usb!ReadNext
      <3>1. InTxBuf = txBuf /\ InTxBuf' = Append(txBuf, h)
        BY <2>2 DEF Usb!ReadNext, InTxBuf
      <3> QED
        BY <1>2, <3>1, AppendIsConcat
    <2> QED
      BY <2>1, <2>2
  <1> HIDE DEF h, t
  <1>4. (InTxBuf \o <<h>>) \o t = InTxBuf \o (<<h>> \o t)
    <2>1. InTxBuf \in Seq(Wrapped)
      BY HeldParts
    <2> HIDE DEF Strong
    <2> QED
      BY <1>2, <2>1, ConcatAssociative
  <1> QED
    BY <1>1, <1>2, <1>3, <1>4 DEF Held, InWrap, t

LEMMA WriteTargetHeld ==
  ASSUME Strong, Output!WriteTarget, UNCHANGED usbVars
  PROVE  Held' = Held
  <1>1. /\ wrap \in Wrapped /\ InWrap = <<wrap>> /\ InWrap' = <<>>
        /\ txMsgBuf' = Append(txMsgBuf, wrap) /\ InTxBuf' = InTxBuf
    BY DEF Output!WriteTarget, InWrap, InTxBuf
  <1>2. <<wrap>> \in Seq(Wrapped) /\ txMsgBuf' = txMsgBuf \o <<wrap>>
    BY <1>1, One, AppendIsConcat
  <1>3. (InTxBuf \o txMsgBuf) \o <<wrap>> = InTxBuf \o (txMsgBuf \o <<wrap>>)
    <2>1. InTxBuf \in Seq(Wrapped) /\ txMsgBuf \in Seq(Wrapped)
      BY HeldParts
    <2> HIDE DEF Strong
    <2> QED
      BY <1>2, <2>1, ConcatAssociative
  <1>4. InTxBuf \o (txMsgBuf \o <<wrap>>) \in Seq(Wrapped)
    BY <1>2, HeldParts, ConcatProperties
  <1> QED
    BY <1>1, <1>2, <1>3, <1>4, ConcatEmptySeq DEF Held

LEMMA RewrapHeld ==
  ASSUME Strong, Output!Rewrap, UNCHANGED usbVars
  PROVE  Held' = Append(Held, wrap')
  <1>1. wrap' \in Wrapped
    BY RewrapStrong
  <1>2. /\ InWrap = <<>> /\ InWrap' = <<wrap'>>
        /\ txMsgBuf' = txMsgBuf /\ InTxBuf' = InTxBuf
    BY <1>1 DEF Output!Rewrap, InWrap, InTxBuf
  <1>3. Held = InTxBuf \o txMsgBuf
    BY <1>2, HeldParts, ConcatEmptySeq DEF Held
  <1>4. Held' = Held \o <<wrap'>>
    BY <1>2, <1>3 DEF Held
  <1> QED
    BY <1>1, <1>4, HeldParts, AppendIsConcat

\* What leaves txBuf, by the end of a transfer or because no host listens, was
\* held first.
LEMMA LeaveHeld ==
  ASSUME Strong, Usb!SkipTransmit \/ Usb!transmitCpltCb, UNCHANGED outputVars
  PROVE  /\ txBuf \in Seq(Wrapped) /\ Len(txBuf) \in Nat \ {0} /\ Held' \in Seq(Wrapped)
         /\ Held = txBuf \o Held'
  <1>1. /\ InTxBuf = txBuf /\ InTxBuf' = <<>> /\ txBuf # <<>>
        /\ txMsgBuf' = txMsgBuf /\ InWrap' = InWrap
    BY DEF Usb!SkipTransmit, Usb!transmitCpltCb, InTxBuf, InWrap
  <1>2. Held' = txMsgBuf \o InWrap
    BY <1>1, HeldParts, ConcatEmptySeq DEF Held
  <1>3. (txBuf \o txMsgBuf) \o InWrap = txBuf \o (txMsgBuf \o InWrap)
    <2>1. txBuf \in Seq(Wrapped) /\ txMsgBuf \in Seq(Wrapped) /\ InWrap \in Seq(Wrapped)
      BY <1>1, HeldParts
    <2> HIDE DEF Strong
    <2> QED
      BY <2>1, ConcatAssociative
  <1>4. Held' \in Seq(Wrapped)
    BY <1>2, HeldParts, ConcatProperties
  <1> QED
    BY <1>1, <1>2, <1>3, <1>4, Lengths DEF Held

\* Every other step leaves what is held and what was sent as it is.
Quiet ==
  \/ /\ \E w \in Writers : Output!write(w)
     /\ UNCHANGED usbVars
  \/ (Output!DropPacket \/ Output!WriteTarget) /\ UNCHANGED usbVars
  \/ /\ \/ Usb!ReadFirst \/ Usb!ReadNext \/ Usb!ReadEnds \/ Usb!SetTxBuffer
        \/ Usb!TransmitPacket \/ Usb!TakeNotification \/ Usb!receiveCb
     /\ UNCHANGED outputVars

LEMMA QuietHeld ==
  ASSUME Strong, Quiet
  PROVE  Held' = Held /\ UNCHANGED <<sent, num, places, gone>>
  <1>1. CASE (\E w \in Writers : Output!write(w)) /\ UNCHANGED usbVars
    BY <1>1, StaysHeld DEF Output!write, Output!Lock, Output!FindRoom, Output!Send,
       Output!SendTimesOut, InTxBuf
  <1>2. CASE Output!DropPacket /\ UNCHANGED usbVars
    BY <1>2, StaysHeld DEF Output!DropPacket, InTxBuf
  <1>3. CASE Output!WriteTarget /\ UNCHANGED usbVars
    BY <1>3, WriteTargetHeld DEF Output!WriteTarget
  <1>4. CASE (Usb!ReadFirst \/ Usb!ReadNext) /\ UNCHANGED outputVars
    BY <1>4, ReadHeld DEF Usb!ReadFirst, Usb!ReadNext
  <1>5. CASE Usb!ReadEnds /\ UNCHANGED outputVars
    BY <1>5, StaysHeld DEF Usb!ReadEnds, InTxBuf
  <1>6. CASE Usb!SetTxBuffer /\ UNCHANGED outputVars
    BY <1>6, StaysHeld DEF Usb!SetTxBuffer, InTxBuf
  <1>7. CASE Usb!TransmitPacket /\ UNCHANGED outputVars
    BY <1>7, StaysHeld DEF Usb!TransmitPacket, InTxBuf
  <1>8. CASE Usb!TakeNotification /\ UNCHANGED outputVars
    BY <1>8, StaysHeld DEF Usb!TakeNotification, InTxBuf
  <1>9. CASE Usb!receiveCb /\ UNCHANGED outputVars
    BY <1>9, StaysHeld DEF Usb!receiveCb, InTxBuf
  <1> QED
    BY <1>1, <1>2, <1>3, <1>4, <1>5, <1>6, <1>7, <1>8, <1>9 DEF Quiet

-------------------------------------------------------------------------------
(* The specification *)

\* The steps of Next, the quiet ones together.
Steps ==
  \/ Quiet
  \/ Output!Rewrap /\ UNCHANGED usbVars
  \/ (Usb!SkipTransmit \/ Usb!transmitCpltCb) /\ UNCHANGED outputVars

LEMMA NextIsSteps == Next => Steps \/ UNCHANGED vars
  BY DEF Next, Steps, Quiet, Output!func, Usb!txFunc, Idle

LEMMA StrongKept ==
  ASSUME Strong, Steps
  PROVE  Strong'
  <1> HIDE DEF Strong
  <1>1. ASSUME NEW w \in Writers, Output!write(w), UNCHANGED usbVars
        PROVE  Strong'
    BY <1>1, LockStrong, FindRoomStrong, SendStrong, SendTimesOutStrong DEF Output!write
  <1>2. ASSUME Output!DropPacket \/ Output!WriteTarget \/ Output!Rewrap, UNCHANGED usbVars
        PROVE  Strong'
    BY <1>2, DropPacketStrong, WriteTargetStrong, RewrapStrong
  <1>3. ASSUME \/ Usb!ReadFirst \/ Usb!ReadNext \/ Usb!ReadEnds \/ Usb!SkipTransmit
               \/ Usb!SetTxBuffer \/ Usb!TransmitPacket \/ Usb!TakeNotification
               \/ Usb!receiveCb \/ Usb!transmitCpltCb,
               UNCHANGED outputVars
        PROVE  Strong'
    BY <1>3, ReadFirstStrong, ReadNextStrong, ReadEndsStrong, SkipTransmitStrong,
       SetTxBufferStrong, TransmitPacketStrong, TakeNotificationStrong, ReceiveStrong,
       CompleteStrong
  <1> QED
    BY <1>1, <1>2, <1>3 DEF Steps, Quiet

LEMMA NumberedKept ==
  ASSUME Strong, Numbered, Steps
  PROVE  Numbered'
  <1>1. Held \in Seq(Wrapped) /\ gone \in Nat
    BY HeldParts
  <1>2. Len(Held) \in Nat
    BY <1>1, LenProperties
  <1> HIDE DEF Strong
  <1>3. CASE Quiet
    BY <1>3, QuietHeld DEF Numbered
  <1>4. CASE Output!Rewrap /\ UNCHANGED usbVars
    <2>1. wrap' \in Wrapped /\ Held' = Append(Held, wrap')
      BY <1>4, RewrapStrong, RewrapHeld
    <2>2. gone' = gone /\ wrap'[2] = num /\ num' = (num + 1) % SequenceNumbers
      BY <1>4 DEF Output!Rewrap
    <2>3. /\ Len(Held') = Len(Held) + 1
          /\ \A k \in 1 .. Len(Held) : Held'[k] = Held[k]
          /\ Held'[Len(Held) + 1] = wrap'
      BY <1>1, <2>1, AppendProperties
    <2>4. num' = (gone + (Len(Held) + 1)) % SequenceNumbers
      <3>1. (((gone + Len(Held)) % SequenceNumbers) + 1) % SequenceNumbers
              = ((gone + Len(Held)) + 1) % SequenceNumbers
        <4>1. gone + Len(Held) \in Nat /\ 1 \in Nat
          BY <1>1, <1>2
        <4>2. SequenceNumbers \in Nat \ {0}
          BY Sizes
        <4> QED
          BY <4>1, <4>2, RemainderFirst, Zenon
      <3>2. (gone + Len(Held)) + 1 = gone + (Len(Held) + 1)
        BY <1>1, <1>2
      <3> QED
        BY <2>2, <3>1, <3>2 DEF Numbered
    <2>5. ASSUME NEW k \in 1 .. Len(Held')
          PROVE  Held'[k][2] = (gone + (k - 1)) % SequenceNumbers
      <3>1. CASE k \in 1 .. Len(Held)
        BY <2>3, <3>1 DEF Numbered
      <3>2. CASE k = Len(Held) + 1
        <4>1. k - 1 = Len(Held)
          BY <1>2, <3>2
        <4> QED
          BY <2>2, <2>3, <3>2, <4>1 DEF Numbered
      <3> QED
        BY <1>2, <2>3, <3>1, <3>2
    <2> QED
      BY <2>2, <2>3, <2>4, <2>5 DEF Numbered
  <1>5. CASE (Usb!SkipTransmit \/ Usb!transmitCpltCb) /\ UNCHANGED outputVars
    <2>1. /\ txBuf \in Seq(Wrapped) /\ Len(txBuf) \in Nat \ {0} /\ Held' \in Seq(Wrapped)
          /\ Held = txBuf \o Held'
      BY <1>5, LeaveHeld
    <2>2. gone' = gone + Len(txBuf) /\ num' = num
      BY <1>5 DEF Usb!SkipTransmit, Usb!transmitCpltCb
    <2>3. Len(Held') \in Nat
      BY <2>1, LenProperties
    <2>4. /\ Len(Held) = Len(txBuf) + Len(Held')
          /\ \A k \in 1 .. Len(Held') : Held[Len(txBuf) + k] = Held'[k]
      <3>1. /\ Len(txBuf \o Held') = Len(txBuf) + Len(Held')
            /\ \A i \in 1 .. Len(txBuf) + Len(Held') :
                 (txBuf \o Held')[i] = IF i <= Len(txBuf) THEN txBuf[i]
                                       ELSE Held'[i - Len(txBuf)]
        BY <2>1, ConcatProperties
      <3> DEFINE c == txBuf \o Held'
      <3>2. \A k \in 1 .. Len(Held') : c[Len(txBuf) + k] = Held'[k]
        BY <2>1, <2>3, <3>1
      <3> QED
        BY <2>1, <3>1, <3>2
    <2>5. num' = (gone' + Len(Held')) % SequenceNumbers
      <3>1. gone + Len(Held) = gone' + Len(Held')
        BY <1>1, <2>1, <2>2, <2>3, <2>4
      <3> QED
        BY <2>2, <3>1 DEF Numbered
    <2>6. ASSUME NEW k \in 1 .. Len(Held')
          PROVE  Held'[k][2] = (gone' + (k - 1)) % SequenceNumbers
      <3>1. Len(txBuf) + k \in 1 .. Len(Held)
        BY <2>1, <2>3, <2>4
      <3>2. gone + ((Len(txBuf) + k) - 1) = gone' + (k - 1)
        BY <1>1, <2>1, <2>2, <2>3
      <3>3. Held[Len(txBuf) + k][2] = (gone + ((Len(txBuf) + k) - 1)) % SequenceNumbers
        BY <3>1 DEF Numbered
      <3> QED
        BY <2>4, <3>2, <3>3
    <2> QED
      BY <2>5, <2>6 DEF Numbered
  <1> QED
    BY <1>3, <1>4, <1>5 DEF Steps

\* The end of a transfer puts the first messages of txBuf behind what was sent.
LEMMA PlacedKept ==
  ASSUME Strong, Numbered, Placed, Steps
  PROVE  Placed'
  <1>1. /\ sent \in Seq(Wrapped) /\ places \in Seq(Nat) /\ Len(places) = Len(sent)
        /\ gone \in Nat
    OBVIOUS
  <1>2. Len(sent) \in Nat
    BY <1>1, LenProperties
  <1>3. CASE UNCHANGED <<sent, places, gone>>
    BY <1>3 DEF Placed
  <1>4. CASE Usb!SkipTransmit /\ UNCHANGED outputVars
    <2>1. sent' = sent /\ places' = places /\ gone' = gone + Len(txBuf) /\ Len(txBuf) \in Nat
      BY <1>4, Lengths DEF Usb!SkipTransmit
    <2> HIDE DEF Strong
    <2>2. 1 .. gone \subseteq 1 .. gone'
      BY <1>1, <2>1
    <2> QED
      BY <2>1, <2>2 DEF Placed
  <1>5. CASE Usb!transmitCpltCb /\ UNCHANGED outputVars
    <2> DEFINE L == Len(txBuf)
    <2>1. PICK m \in 0 .. L :
            /\ sent' = sent \o SubSeq(txBuf, 1, m)
            /\ places' = places \o [i \in 1 .. m |-> gone + i]
      BY <1>5, Complete
    <2>2. gone' = gone + L /\ txBuf \in Seq(Wrapped) /\ L \in Nat
      BY <1>5, Lengths DEF Usb!transmitCpltCb
    <2>3. m \in Nat /\ m <= L
      BY <2>2
    <2> DEFINE f == SubSeq(txBuf, 1, m)
               p == [i \in 1 .. m |-> gone + i]
    <2>4. f \in Seq(Wrapped) /\ Len(f) = m /\ \A i \in 1 .. m : f[i] = txBuf[i]
      <3>1. <<>> \in Seq(Packets)
        BY EmptySeq
      <3> HIDE DEF Strong
      <3> QED
        BY <2>2, <3>1, FrontOfPackets
    <2>5. p \in Seq(Nat) /\ Len(p) = m /\ \A i \in 1 .. m : p[i] = gone + i
      <3>1. p \in Seq(Nat) /\ Len(p) = m
        BY <2>3, NewPlaces
      <3> QED
        BY <3>1
    <2>6. \A i \in 1 .. m : txBuf[i][2] = (gone + (i - 1)) % SequenceNumbers
      <3>1. Held' \in Seq(Wrapped) /\ Held = txBuf \o Held'
        BY <1>5, LeaveHeld
      <3> HIDE DEF Strong
      <3>2. Len(Held') \in Nat
        BY <3>1, LenProperties
      <3>3. /\ Len(Held) = L + Len(Held')
            /\ \A i \in 1 .. L : Held[i] = txBuf[i]
        <4>1. /\ Len(txBuf \o Held') = L + Len(Held')
              /\ \A i \in 1 .. L + Len(Held') :
                   (txBuf \o Held')[i] = IF i <= L THEN txBuf[i] ELSE Held'[i - L]
          BY <2>2, <3>1, ConcatProperties
        <4> DEFINE c == txBuf \o Held'
        <4>2. \A i \in 1 .. L : c[i] = txBuf[i]
          BY <2>2, <3>2, <4>1
        <4> QED
          BY <3>1, <4>1, <4>2
      <3>4. \A i \in 1 .. m : i \in 1 .. L /\ i \in 1 .. Len(Held)
        BY <2>2, <2>3, <3>2, <3>3
      <3> QED
        BY <3>3, <3>4 DEF Numbered
    <2> HIDE DEF Strong, f, p, L
    <2>7. /\ Len(sent') = Len(sent) + m
          /\ \A i \in 1 .. Len(sent) + m :
               sent'[i] = IF i <= Len(sent) THEN sent[i] ELSE f[i - Len(sent)]
      <3>1. sent' = sent \o f
        BY <2>1 DEF f
      <3> DEFINE c == sent \o f
      <3>2. /\ Len(c) = Len(sent) + Len(f)
            /\ \A i \in 1 .. Len(sent) + Len(f) :
                 c[i] = IF i <= Len(sent) THEN sent[i] ELSE f[i - Len(sent)]
        BY <1>1, <2>4, ConcatProperties
      <3> HIDE DEF c
      <3> QED
        BY <2>4, <3>1, <3>2 DEF c
    <2>8. \A i \in 1 .. Len(sent) + m :
            places'[i] = IF i <= Len(sent) THEN places[i] ELSE p[i - Len(sent)]
      <3>1. places' = places \o p
        BY <2>1 DEF p
      <3> DEFINE c == places \o p
      <3>2. \A i \in 1 .. Len(places) + Len(p) :
              c[i] = IF i <= Len(places) THEN places[i] ELSE p[i - Len(places)]
        BY <1>1, <2>5, ConcatProperties
      <3> HIDE DEF c
      <3> QED
        BY <1>1, <2>5, <3>1, <3>2 DEF c
    <2>9. ASSUME NEW i \in 1 .. Len(sent), i \in 1 .. Len(sent')
          PROVE  /\ places'[i] \in 1 .. gone /\ places'[i] = places[i]
                 /\ sent'[i][2] = (places'[i] - 1) % SequenceNumbers
      <3>1. sent'[i] = sent[i] /\ places'[i] = places[i]
        BY <1>2, <2>3, <2>7, <2>8
      <3> QED
        BY <3>1 DEF Placed
    <2>10. ASSUME NEW i \in 1 .. m
           PROVE  /\ places'[Len(sent) + i] = gone + i
                  /\ sent'[Len(sent) + i][2] = ((gone + i) - 1) % SequenceNumbers
      <3>1. /\ Len(sent) + i \in 1 .. Len(sent) + m /\ ~(Len(sent) + i <= Len(sent))
            /\ (Len(sent) + i) - Len(sent) = i
        BY <1>2, <2>3
      <3>2. sent'[Len(sent) + i] = f[i] /\ places'[Len(sent) + i] = p[i]
        BY <2>7, <2>8, <3>1
      <3>3. (gone + i) - 1 = gone + (i - 1)
        BY <1>1, <2>3
      <3> QED
        BY <2>4, <2>5, <2>6, <3>2, <3>3
    <2>11. ASSUME NEW i \in 1 .. Len(sent')
           PROVE  places'[i] \in 1 .. gone' /\ sent'[i][2] = (places'[i] - 1) % SequenceNumbers
      <3>1. CASE i <= Len(sent)
        <4>1. i \in 1 .. Len(sent)
          BY <1>2, <2>3, <2>7, <3>1
        <4>2. 1 .. gone \subseteq 1 .. gone'
          BY <1>1, <2>2 DEF L
        <4> QED
          BY <2>9, <4>1, <4>2
      <3>2. CASE ~(i <= Len(sent))
        <4> DEFINE j == i - Len(sent)
        <4>1. j \in 1 .. m /\ i = Len(sent) + j /\ gone + j \in 1 .. gone'
          BY <1>1, <1>2, <2>2, <2>3, <2>7, <3>2 DEF L
        <4> HIDE DEF j
        <4> QED
          BY <2>10, <4>1
      <3> QED
        BY <3>1, <3>2
    <2>12. ASSUME NEW i \in 1 .. Len(sent') - 1
           PROVE  places'[i] < places'[i + 1]
      <3>1. CASE i + 1 <= Len(sent)
        <4>1. /\ i \in 1 .. Len(sent) - 1 /\ i \in 1 .. Len(sent) /\ i + 1 \in 1 .. Len(sent)
              /\ i \in 1 .. Len(sent') /\ i + 1 \in 1 .. Len(sent')
          BY <1>2, <2>3, <2>7, <3>1
        <4>2. places'[i] = places[i] /\ places'[i + 1] = places[i + 1]
          BY <2>9, <4>1
        <4> QED
          BY <4>1, <4>2 DEF Placed
      <3>2. CASE i = Len(sent)
        <4>1. i \in 1 .. Len(sent) /\ i \in 1 .. Len(sent') /\ 1 \in 1 .. m
          BY <1>2, <2>3, <2>7, <3>2
        <4>2. places'[i] \in 1 .. gone
          BY <2>9, <4>1
        <4>3. places'[i + 1] = gone + 1
          BY <2>10, <3>2, <4>1
        <4> QED
          BY <1>1, <4>2, <4>3
      <3>3. CASE i > Len(sent)
        <4> DEFINE j == i - Len(sent)
        <4>1. /\ j \in 1 .. m /\ j + 1 \in 1 .. m
              /\ i = Len(sent) + j /\ i + 1 = Len(sent) + (j + 1)
          BY <1>2, <2>3, <2>7, <3>3
        <4> HIDE DEF j
        <4>2. places'[i] = gone + j /\ places'[i + 1] = gone + (j + 1)
          BY <2>10, <4>1
        <4> QED
          BY <1>1, <2>3, <4>1, <4>2
      <3> QED
        BY <1>2, <2>3, <2>7, <3>1, <3>2, <3>3
    <2> QED
      BY <2>11, <2>12 DEF Placed
  <1> QED
    BY <1>3, <1>4, <1>5, QuietHeld DEF Steps, Output!Rewrap

LEMMA Invariance == Spec => []IInv
  <1>1. Init => IInv
    <2> SUFFICES ASSUME Init PROVE IInv
      OBVIOUS
    <2> USE DEF Init, Output!Init, Usb!Init
    <2>1. <<>> \in Seq(Packets) /\ <<>> \in Seq(Wrapped) /\ Len(<<>>) = 0
      BY EmptySeq
    <2>2. 0 \in 0 .. MaxPackets /\ 0 \in 0 .. SequenceNumbers - 1 /\ 0 \in 0 .. 2 * TSize
          /\ 0 <= MsgbufLen /\ 0 <= TargetLen /\ 0 <= TSize /\ 0 \in 0 .. MaxReceived
      BY Sizes
    <2>3. Output!TypeOK
      BY <2>1, <2>2, WritersAssumption
    <2>4. Usb!TypeOK
      <3>1. txMsgBuf \in Seq(Wrapped) /\ txBuf \in Seq(Wrapped) /\ sent \in Seq(Wrapped)
            /\ Len(txBuf) <= TSize
        BY <2>1, <2>2, Zenon
      <3>2. ~(notification > 0)
        OBVIOUS
      <3>3. txLen \in 0 .. 2 * TSize /\ usbTxLength \in 0 .. 2 * TSize
            /\ notification \in 0 .. 2 * TSize /\ rxReceivedTotal \in 0 .. MaxReceived
        BY <2>2, Zenon
      <3>4. gone \in Nat /\ places \in Seq(Nat) /\ Len(places) = Len(sent)
        BY EmptySeq
      <3>5. unwarned \in BOOLEAN
        BY Zenon
      <3> QED
        BY <3>1, <3>2, <3>3, <3>4, <3>5
    <2>5. Strong
      BY <2>3, <2>4
    <2>6. Held = <<>>
      <3>1. <<>> \o <<>> = <<>>
        BY <2>1, ConcatEmptySeq
      <3>2. InTxBuf = <<>> /\ txMsgBuf = <<>> /\ InWrap = <<>>
        BY DEF InTxBuf, InWrap
      <3> QED
        BY <3>1, <3>2 DEF Held
    <2>7. Numbered
      <3>1. Len(Held) = 0 /\ gone = 0 /\ num = 0
        BY <2>1, <2>6
      <3>2. 0 % SequenceNumbers = 0
        BY Sizes
      <3> QED
        BY <3>1, <3>2 DEF Numbered
    <2>8. Placed
      BY <2>1 DEF Placed
    <2>9. ShortIsSeen
      BY DEF ShortIsSeen
    <2> QED
      BY <2>5, <2>7, <2>8, <2>9 DEF IInv
  <1>2. IInv /\ [Next]_vars => IInv'
    <2> SUFFICES ASSUME IInv, [Next]_vars PROVE IInv'
      OBVIOUS
    <2> HIDE DEF Strong
    <2>1. CASE Steps /\ Next
      BY <2>1, StrongKept, NumberedKept, PlacedKept, ShortIsSeenKept DEF IInv
    <2>2. CASE UNCHANGED vars
      BY <2>2 DEF vars, IInv, Strong, Numbered, Placed, ShortIsSeen, Held, InTxBuf, InWrap
    <2> QED
      BY <2>1, <2>2, NextIsSteps
  <1> QED
    BY <1>1, <1>2, PTL DEF Spec

\* One writer at a time has the mutex and finds the room it saw (PacketOutput::write),
\* and a transfer has the length of what txFunc packed, for any sizes.
THEOREM TypeCorrect == Spec => []TypeOK
  <1>1. IInv => TypeOK
    BY DEF IInv
  <1> QED
    BY <1>1, Invariance, PTL

\* The numbers that PacketOutput gives tell the host how many packets it misses, one
\* more than they advance for every packet that a short transfer lost, whatever is
\* dropped before the numbering or before a host is heard of.
THEOREM NumbersAlwaysFollow == Spec => []NumbersFollow
  <1>1. IInv => NumbersFollow
    <2> SUFFICES ASSUME IInv, NEW i \in 1 .. Len(sent) - 1
                 PROVE  sent[i + 1][2]
                          = (sent[i][2] + (places[i + 1] - places[i])) % SequenceNumbers
      BY DEF NumbersFollow
    <2>1. Len(sent) \in Nat /\ gone \in Nat
      BY LenProperties DEF IInv
    <2>2. i \in 1 .. Len(sent) /\ i + 1 \in 1 .. Len(sent)
      BY <2>1
    <2> HIDE DEF Strong
    <2> DEFINE a == places[i]
               b == places[i + 1]
    <2>3. /\ a \in 1 .. gone /\ b \in 1 .. gone /\ a < b
          /\ sent[i][2] = (a - 1) % SequenceNumbers
          /\ sent[i + 1][2] = (b - 1) % SequenceNumbers
      BY <2>2 DEF IInv, Placed
    <2> HIDE DEF a, b
    <2>4. a - 1 \in Nat /\ b - a \in Nat /\ (a - 1) + (b - a) = b - 1
      BY <2>1, <2>3
    <2>5. (((a - 1) % SequenceNumbers) + (b - a)) % SequenceNumbers = (b - 1) % SequenceNumbers
      <3>1. SequenceNumbers \in Nat \ {0}
        BY Sizes
      <3>2. (((a - 1) % SequenceNumbers) + (b - a)) % SequenceNumbers
              = ((a - 1) + (b - a)) % SequenceNumbers
        BY <2>4, <3>1, RemainderFirst, Zenon
      <3> QED
        BY <2>4, <3>2, Zenon
    <2> QED
      BY <2>3, <2>5 DEF a, b
  <1> QED
    BY <1>1, Invariance, PTL

\* While the library reads txBuf, txFunc waits and packs nothing into it.
THEOREM BufferAlwaysHeld == Spec => BufferHeld
  <1>1. IInv /\ [Next]_vars => [txState => txBuf' = txBuf]_vars
    <2> SUFFICES ASSUME IInv, Next, txState PROVE txBuf' = txBuf
      OBVIOUS
    <2>1. txTask = "wait"
      BY DEF IInv
    <2>2. CASE Usb!txFunc
      BY <2>1, <2>2 DEF Usb!txFunc, Usb!ReadFirst, Usb!ReadNext, Usb!ReadEnds,
         Usb!SkipTransmit, Usb!SetTxBuffer, Usb!TransmitPacket, Usb!TakeNotification
    <2> QED
      BY <2>2 DEF Next, Usb!receiveCb, Usb!transmitCpltCb, Idle, vars
  <1> QED
    BY <1>1, Invariance, PTL DEF Spec, BufferHeld

-------------------------------------------------------------------------------
(* The way to the host implements PacketChannel *)

LEMMA HeldPackets ==
  ASSUME Strong
  PROVE  /\ PacketsOf(Held) \in Seq(Packets) /\ PacketsOf(sent) \in Seq(Packets)
         /\ msgbuf \in Seq(Packets) /\ OnTheWay \in Seq(Packets)
         /\ OnTheWay = PacketsOf(Held) \o msgbuf
         /\ Len(OnTheWay) = Len(PacketsOf(Held)) + Len(msgbuf)
  <1>1. PacketsOf(Held) \in Seq(Packets) /\ PacketsOf(sent) \in Seq(Packets)
    BY HeldParts, PacketsAre
  <1>2. OnTheWay = PacketsOf(Held) \o msgbuf
    BY DEF OnTheWay, Held
  <1> QED
    BY <1>1, <1>2, ConcatProperties

\* The mutex and the copy in two steps are hidden in one acceptance.
LEMMA WriteAccepts ==
  ASSUME Strong, NEW w \in Writers, Output!write(w), UNCHANGED usbVars
  PROVE  Channel!Accept(w) \/ UNCHANGED Channel!channelVars
  <1>1. Held' = Held /\ UNCHANGED <<sent, rxReceivedTotal, unwarned>>
    <2>1. Quiet
      BY DEF Quiet
    <2> QED
      BY <2>1, QuietHeld
  <1>2. OnTheWay' = PacketsOf(Held) \o msgbuf'
    BY <1>1 DEF OnTheWay, Held
  <1>3. CASE Output!Send(w)
    <2>1. /\ msgbuf' = Append(msgbuf, <<w, written[w] + 1>>)
          /\ written' = [written EXCEPT ![w] = @ + 1]
          /\ written'[w] = written[w] + 1
      BY <1>3 DEF Output!Send
    <2>2. <<w, written'[w]>> \in Packets
      <3>1. Output!TypeOK'
        BY <1>3, SendStrong
      <3>2. written'[w] \in 0 .. MaxPackets /\ written[w] \in 0 .. MaxPackets
        BY <3>1
      <3>3. written'[w] \in 1 .. MaxPackets
        BY <2>1, <3>2, Sizes
      <3> QED
        BY <3>3 DEF Output!Packets
    <2> DEFINE e == <<w, written'[w]>>
    <2>3. e \in Packets /\ msgbuf' = Append(msgbuf, e)
      BY <2>1, <2>2
    <2> HIDE DEF e
    <2>4. /\ <<e>> \in Seq(Packets) /\ Append(msgbuf, e) = msgbuf \o <<e>>
          /\ Append(OnTheWay, e) = OnTheWay \o <<e>>
      BY <2>3, HeldPackets, One, AppendIsConcat
    <2>5. OnTheWay' = Append(OnTheWay, e)
      <3>1. /\ PacketsOf(Held) \in Seq(Packets) /\ msgbuf \in Seq(Packets)
            /\ OnTheWay = PacketsOf(Held) \o msgbuf
        BY HeldPackets
      <3> HIDE DEF Strong
      <3>2. (PacketsOf(Held) \o msgbuf) \o <<e>> = PacketsOf(Held) \o (msgbuf \o <<e>>)
        BY <2>4, <3>1, ConcatAssociative
      <3> QED
        BY <1>2, <2>3, <2>4, <3>1, <3>2
    <2> QED
      BY <1>1, <2>1, <2>5 DEF Channel!Accept, PacketsOf, e
  <1>4. CASE Output!Lock(w) \/ Output!FindRoom(w) \/ Output!SendTimesOut(w)
    <2>1. written' = written /\ msgbuf' = msgbuf
      BY <1>4 DEF Output!Lock, Output!FindRoom, Output!SendTimesOut
    <2> QED
      BY <1>1, <1>2, <2>1, HeldPackets DEF Channel!channelVars, PacketsOf
  <1> QED
    BY <1>3, <1>4 DEF Output!write

LEMMA DropPacketDrops ==
  ASSUME Strong, Output!DropPacket, UNCHANGED usbVars
  PROVE  \E n \in 1 .. Len(OnTheWay) : Channel!DropMalformed(n)
  <1> DEFINE p == PacketsOf(Held)
             h == Head(msgbuf)
             t == Tail(msgbuf)
  <1>1. /\ msgbuf # <<>> /\ h \in Malformed /\ msgbuf' = t
        /\ UNCHANGED <<written, sent, rxReceivedTotal, unwarned>>
    BY DEF Output!DropPacket
  <1>2. Held' = Held
    <2>1. Quiet
      BY DEF Quiet
    <2> QED
      BY <2>1, QuietHeld
  <1>3. OnTheWay' = p \o t
    BY <1>1, <1>2 DEF OnTheWay, Held
  <1>4. p \in Seq(Packets) /\ h \in Packets /\ t \in Seq(Packets) /\ msgbuf = <<h>> \o t
    BY <1>1, HeldPackets, Unfold
  <1>5. OnTheWay = p \o msgbuf /\ OnTheWay \in Seq(Packets)
    BY HeldPackets
  <1> HIDE DEF Strong, p, h, t
  <1>6. <<h>> \in Seq(Packets) /\ Len(<<h>>) = 1 /\ <<h>>[1] = h
    BY <1>4, One
  <1>7. /\ p \o <<h>> \in Seq(Packets) /\ Len(p \o <<h>>) = Len(p) + 1
        /\ (p \o <<h>>)[Len(p) + 1] = h
    <2>1. Len(p) \in Nat
      BY <1>4, LenProperties
    <2> QED
      BY <1>4, <1>6, <2>1, ConcatProperties
  <1>8. OnTheWay = (p \o <<h>>) \o t
    BY <1>4, <1>5, <1>6, ConcatAssociative
  <1> DEFINE n == Len(p) + 1
  <1>9. n \in 1 .. Len(OnTheWay) /\ OnTheWay[n] = h
    <2>1. Len(p) \in Nat /\ Len(t) \in Nat
      BY <1>4, LenProperties
    <2> QED
      BY <1>4, <1>7, <1>8, <2>1, ConcatProperties
  <1>10. Channel!Front(n - 1) = p
    <2>1. SubSeq(p \o msgbuf, 1, Len(p)) = p
      <3>1. msgbuf \in Seq(Packets)
        BY <1>4, <1>6, ConcatProperties
      <3> QED
        BY <1>4, <3>1, Cut
    <2>2. n - 1 = Len(p)
      BY <1>4, LenProperties
    <2> QED
      BY <1>5, <2>1, <2>2 DEF Channel!Front
  <1>11. Channel!Rest(n) = t
    <2>1. SubSeq((p \o <<h>>) \o t, Len(p \o <<h>>) + 1, Len((p \o <<h>>) \o t)) = t
      BY <1>4, <1>7, Cut
    <2> QED
      BY <1>7, <1>8, <2>1 DEF Channel!Rest
  <1>12. Channel!DropMalformed(n)
    BY <1>1, <1>3, <1>9, <1>10, <1>11 DEF Channel!DropMalformed, PacketsOf
  <1> QED
    BY <1>9, <1>12

LEMMA RewrapHides ==
  ASSUME Strong, Output!Rewrap, UNCHANGED usbVars
  PROVE  UNCHANGED Channel!channelVars
  <1> DEFINE p == PacketsOf(Held)
             h == Head(msgbuf)
             t == Tail(msgbuf)
  <1>1. /\ msgbuf # <<>> /\ msgbuf' = t /\ wrap'[1] = h /\ wrap' \in Wrapped
        /\ UNCHANGED <<written, sent, rxReceivedTotal, unwarned>>
    BY RewrapStrong DEF Output!Rewrap
  <1>2. Held' = Held \o <<wrap'>> /\ Held \in Seq(Wrapped) /\ <<wrap'>> \in Seq(Wrapped)
    BY <1>1, RewrapHeld, HeldParts, One, AppendIsConcat
  <1>3. PacketsOf(<<wrap'>>) = <<h>>
    BY <1>1 DEF PacketsOf
  <1>4. PacketsOf(Held \o <<wrap'>>) = p \o <<h>>
    BY <1>2, <1>3, PacketsOfConcat
  <1>5. OnTheWay' = (p \o <<h>>) \o t
    BY <1>1, <1>2, <1>4 DEF OnTheWay, Held
  <1>6. p \in Seq(Packets) /\ h \in Packets /\ t \in Seq(Packets) /\ msgbuf = <<h>> \o t
    BY <1>1, HeldPackets, Unfold
  <1>7. OnTheWay = p \o msgbuf
    BY HeldPackets
  <1> HIDE DEF Strong, p, h, t
  <1>8. <<h>> \in Seq(Packets)
    BY <1>6, One
  <1>9. OnTheWay' = OnTheWay
    BY <1>5, <1>6, <1>7, <1>8, ConcatAssociative
  <1> QED
    BY <1>1, <1>9 DEF Channel!channelVars, PacketsOf

\* A transfer delivers what was packed, or the front of it and the rest will be warned
\* of; a skipped one drops it.
LEMMA LeavesChannel ==
  ASSUME Strong, ShortIsSeen, Usb!SkipTransmit \/ Usb!transmitCpltCb, UNCHANGED outputVars
  PROVE  \E n \in 1 .. Len(OnTheWay) :
           (\E k \in 0 .. n : Channel!Deliver(n, k)) \/ Channel!DropUnheard(n)
  <1> DEFINE b == PacketsOf(txBuf)
             r == PacketsOf(Held') \o msgbuf
  <1>1. /\ txBuf \in Seq(Wrapped) /\ Len(txBuf) \in Nat \ {0} /\ Held' \in Seq(Wrapped)
        /\ Held = txBuf \o Held'
    BY LeaveHeld
  <1>2. PacketsOf(Held) = b \o PacketsOf(Held')
    BY <1>1, PacketsOfConcat
  <1>3. b \in Seq(Packets) /\ Len(b) = Len(txBuf) /\ PacketsOf(Held') \in Seq(Packets)
    BY <1>1, PacketsAre
  <1>4. OnTheWay = b \o r /\ r \in Seq(Packets)
    <2>1. msgbuf \in Seq(Packets) /\ OnTheWay = PacketsOf(Held) \o msgbuf
      BY HeldPackets
    <2> HIDE DEF Strong, b
    <2> QED
      BY <1>2, <1>3, <2>1, ConcatAssociative, ConcatProperties
  <1>5. OnTheWay' = r
    BY DEF OnTheWay, Held
  <1>6. sent \in Seq(Wrapped)
    OBVIOUS
  <1> DEFINE n == Len(txBuf)
  <1> HIDE DEF b, r
  <1>7. n \in 1 .. Len(OnTheWay)
    <2>1. Len(r) \in Nat
      BY <1>4, LenProperties
    <2>2. Len(OnTheWay) = n + Len(r)
      <3> HIDE DEF Strong
      <3>1. Len(b \o r) = Len(b) + Len(r)
        BY <1>3, <1>4, ConcatProperties
      <3> QED
        BY <1>3, <1>4, <3>1
    <2> QED
      BY <1>1, <2>1, <2>2
  <1>8. Channel!Front(n) = b /\ Channel!Rest(n) = r
    <2>1. SubSeq(b \o r, 1, Len(b)) = b /\ SubSeq(b \o r, Len(b) + 1, Len(b \o r)) = r
      BY <1>3, <1>4, Cut
    <2> QED
      BY <1>3, <1>4, <2>1 DEF Channel!Front, Channel!Rest
  <1>9. CASE Usb!SkipTransmit
    <2>1. UNCHANGED <<written, sent, rxReceivedTotal, unwarned>> /\ rxReceivedTotal = 0
      BY <1>9 DEF Usb!SkipTransmit
    <2>2. ~(rxReceivedTotal > 0)
      BY <2>1
    <2>3. Channel!DropUnheard(n)
      BY <1>5, <1>8, <2>1, <2>2 DEF Channel!DropUnheard, PacketsOf
    <2> QED
      BY <1>7, <2>3
  <1>10. CASE Usb!transmitCpltCb
    <2>1. UNCHANGED <<written, rxReceivedTotal>> /\ rxReceivedTotal > 0
      BY <1>10 DEF Usb!transmitCpltCb
    <2>2. ~unwarned
      <3>1. ~(notification > 0)
        BY <1>10 DEF Usb!transmitCpltCb
      <3> QED
        BY <3>1 DEF ShortIsSeen
    <2>3. PICK len \in 1 .. 2 * n, m \in 0 .. n :
            /\ sent' = sent \o SubSeq(txBuf, 1, m)
            /\ unwarned' = (len # usbTxLength)
            /\ (len # usbTxLength) = (m < n)
      BY <1>10, Complete
    <2>4. unwarned' = (m < n)
      BY <2>3, Zenon
    <2> HIDE DEF Strong
    <2>5. /\ SubSeq(txBuf, 1, m) \in Seq(Wrapped)
          /\ PacketsOf(SubSeq(txBuf, 1, m)) = Channel!Front(m)
      BY <1>1, <1>4, FrontOfPackets DEF Channel!Front, b
    <2>6. PacketsOf(sent)' = PacketsOf(sent) \o Channel!Front(m)
      <3>1. PacketsOf(sent') = PacketsOf(sent) \o PacketsOf(SubSeq(txBuf, 1, m))
        BY <1>6, <2>3, <2>5, PacketsOfConcat
      <3> QED
        BY <2>5, <3>1 DEF PacketsOf
    <2>7. Channel!Deliver(n, m)
      BY <1>5, <1>8, <2>1, <2>2, <2>4, <2>6 DEF Channel!Deliver
    <2> QED
      BY <1>7, <2>7
  <1> QED
    BY <1>9, <1>10

LEMMA OtherQuietHide ==
  ASSUME Strong, ShortIsSeen,
         \/ Output!WriteTarget /\ UNCHANGED usbVars
         \/ /\ \/ Usb!ReadFirst \/ Usb!ReadNext \/ Usb!ReadEnds \/ Usb!SetTxBuffer
               \/ Usb!TransmitPacket \/ Usb!TakeNotification \/ Usb!receiveCb
            /\ UNCHANGED outputVars
  PROVE  Channel!HostHeard \/ Channel!Warn \/ UNCHANGED Channel!channelVars
  <1>1. Held' = Held /\ sent' = sent
    <2>1. Quiet
      BY DEF Quiet
    <2> QED
      BY <2>1, QuietHeld
  <1>2. written' = written /\ msgbuf' = msgbuf
    BY DEF Output!WriteTarget
  <1>3. UNCHANGED <<written, OnTheWay, PacketsOf(sent)>>
    BY <1>1, <1>2 DEF OnTheWay, Held, PacketsOf
  <1>4. CASE Usb!receiveCb
    <2>1. rxReceivedTotal' > 0 /\ unwarned' = unwarned
      BY <1>4, Sizes DEF Usb!receiveCb
    <2> QED
      BY <1>3, <2>1 DEF Channel!HostHeard
  <1>5. CASE Usb!TakeNotification
    <2>1. unwarned' = (unwarned /\ notification = txLen)
      BY <1>5, Zenon DEF Usb!TakeNotification
    <2>2. unwarned' = FALSE
      BY <2>1 DEF ShortIsSeen
    <2>3. rxReceivedTotal' = rxReceivedTotal
      BY <1>5 DEF Usb!TakeNotification
    <2> QED
      BY <1>3, <2>2, <2>3 DEF Channel!Warn
  <1>6. CASE ~Usb!receiveCb /\ ~Usb!TakeNotification
    <2>1. rxReceivedTotal' = rxReceivedTotal /\ unwarned' = unwarned
      BY <1>6 DEF Usb!ReadFirst, Usb!ReadNext, Usb!ReadEnds, Usb!SetTxBuffer,
         Usb!TransmitPacket
    <2> QED
      BY <1>3, <2>1 DEF Channel!channelVars
  <1> QED
    BY <1>4, <1>5, <1>6

\* Whatever the writers, the output task and the USB interrupts do at the same
\* time, no packet is doubled or overtaken, and once the host was heard of none is
\* lost but a malformed one and the tail of a transfer that ends short, of which
\* the task warns before the next one ends (PacketOutput, UsbTask).
THEOREM Refinement == Spec => ImplementsChannel
  <1>1. Init => Channel!ChannelInit
    <2> SUFFICES ASSUME Init PROVE Channel!ChannelInit
      OBVIOUS
    <2>1. PacketsOf(<<>>) = <<>> /\ PacketsOf(<<>>) \in Seq(Packets)
      <3>1. <<>> \in Seq(Wrapped) /\ Len(<<>>) = 0
        BY EmptySeq
      <3>2. PacketsOf(<<>>) \in Seq(Packets) /\ Len(PacketsOf(<<>>)) = 0
        BY <3>1, PacketsAre
      <3> QED
        BY <3>2, EmptySeq
    <2>2. <<>> \o <<>> = <<>>
      BY EmptySeq, ConcatEmptySeq
    <2>3. /\ InTxBuf = <<>> /\ txMsgBuf = <<>> /\ InWrap = <<>> /\ msgbuf = <<>> /\ sent = <<>>
          /\ written = [w \in Writers |-> 0] /\ rxReceivedTotal = 0 /\ unwarned = FALSE
      BY DEF Init, Output!Init, Usb!Init, InTxBuf, InWrap
    <2>4. OnTheWay = <<>>
      BY <2>1, <2>2, <2>3 DEF OnTheWay
    <2> QED
      BY <2>1, <2>3, <2>4 DEF Channel!ChannelInit
  <1>2. IInv /\ [Next]_vars => [Channel!ChannelNext]_(Channel!channelVars)
    <2> SUFFICES ASSUME Strong, ShortIsSeen, [Next]_vars
                 PROVE  [Channel!ChannelNext]_(Channel!channelVars)
      BY DEF IInv
    <2> HIDE DEF Strong
    <2>1. CASE Steps
      <3>1. ASSUME NEW w \in Writers, Output!write(w), UNCHANGED usbVars
            PROVE  [Channel!ChannelNext]_(Channel!channelVars)
        BY <3>1, WriteAccepts DEF Channel!ChannelNext
      <3>2. CASE Output!DropPacket /\ UNCHANGED usbVars
        BY <3>2, DropPacketDrops DEF Channel!ChannelNext
      <3>3. CASE Output!Rewrap /\ UNCHANGED usbVars
        BY <3>3, RewrapHides
      <3>4. CASE (Usb!SkipTransmit \/ Usb!transmitCpltCb) /\ UNCHANGED outputVars
        BY <3>4, LeavesChannel DEF Channel!ChannelNext
      <3>5. CASE \/ Output!WriteTarget /\ UNCHANGED usbVars
                 \/ /\ \/ Usb!ReadFirst \/ Usb!ReadNext \/ Usb!ReadEnds \/ Usb!SetTxBuffer
                       \/ Usb!TransmitPacket \/ Usb!TakeNotification \/ Usb!receiveCb
                    /\ UNCHANGED outputVars
        BY <3>5, OtherQuietHide DEF Channel!ChannelNext
      <3> QED
        BY <2>1, <3>1, <3>2, <3>3, <3>4, <3>5 DEF Steps, Quiet
    <2>2. CASE UNCHANGED vars
      BY <2>2 DEF vars, Channel!channelVars, OnTheWay, InTxBuf, InWrap, PacketsOf
    <2> QED
      BY <2>1, <2>2, NextIsSteps
  <1> QED
    BY <1>1, <1>2, Invariance, PTL DEF Spec, ImplementsChannel, Channel!ChannelSpec
=============================================================================
