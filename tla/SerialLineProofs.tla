-------------------------- MODULE SerialLineProofs --------------------------
(***************************************************************************)
(* For messages of any lengths and buffers of any sizes: a transfer is     *)
(* never set up while another one is under way, nothing is packed into a   *)
(* buffer that the DMA reads, and the two ends of a half-duplex line never *)
(* drive it together, while this end drives it as long as one of its bytes *)
(* is on it.                                                               *)
(*                                                                         *)
(* The inductive invariant: the end of a transfer is known in exactly one  *)
(* place at a time (the stream still enabled or the UART still busy, a     *)
(* flag, the notification), the task waits until it has learnt of it, and  *)
(* a drive that was asked finds nothing that could start another           *)
(* transmission.                                                           *)
(*                                                                         *)
(* The last part shows that the line is a channel: what is on the way is   *)
(* the concatenation of the buffers and of the registers of the UART, and  *)
(* a step moves bytes from the front of one part to the end of the next,   *)
(* takes some out or puts a message in.  A transfer that has ended has     *)
(* moved all of its bytes (AllMoved), so that the buffer may be filled     *)
(* again.                                                                  *)
(*                                                                         *)
(* Behind it, what the Modbus driver and the simulated drive say to each   *)
(* other on such a line (ModbusLink): the server finds the        *)
(* requests as they were sent, and what the driver accepts is true.        *)
(***************************************************************************)
EXTENDS SerialLine, ModbusLink, SequenceTheorems, WellFoundedInduction, TLAPS

-------------------------------------------------------------------------------
(* The bytes of a sequence of messages (FlattenSeq) *)

\* Every set of natural numbers that is not empty has a least one.
LEMMA Least ==
  ASSUME NEW S \in SUBSET Nat, S # {}
  PROVE  \E n \in S : \A m \in S : n <= m
  <1> DEFINE Less == OpToRel(<, Nat)
  <1>1. IsWellFoundedOn(Less, Nat)
    BY NatLessThanWellFounded
  <1>2. \A x, y \in Nat : x < y => <<x, y>> \in Less
    BY DEF OpToRel
  <1> HIDE DEF Less
  <1>3. PICK n \in S : \A m \in S : ~(<<m, n>> \in Less)
    BY <1>1, WFMin
  <1>4. ASSUME NEW m \in S PROVE n <= m
    <2>1. n \in Nat /\ m \in Nat
      OBVIOUS
    <2>2. ~(m < n)
      BY <2>1, <1>2, <1>3
    <2> QED BY <2>1, <2>2
  <1> QED BY <1>4

\* The function whose last value FlattenSeq returns.
Joins(ss, f) ==
  f = [i \in 1 .. Len(ss) |-> IF i = 1 THEN ss[i] ELSE f[i - 1] \o ss[i]]

LEMMA JoinsOnce ==
  ASSUME NEW ss, Len(ss) \in Nat, NEW f, NEW g, Joins(ss, f), Joins(ss, g)
  PROVE  f = g
  <1> DEFINE Differ == {i \in 1 .. Len(ss) : f[i] # g[i]}
  <1>1. /\ DOMAIN f = 1 .. Len(ss) /\ DOMAIN g = 1 .. Len(ss)
        /\ f = [i \in DOMAIN f |-> f[i]] /\ g = [i \in DOMAIN g |-> g[i]]
    BY DEF Joins
  <1>2. ASSUME Differ # {}
        PROVE  FALSE
    <2>1. PICK n \in Differ : \A m \in Differ : n <= m
      <3>1. Differ \in SUBSET Nat
        OBVIOUS
      <3> HIDE DEF Differ
      <3> QED
        BY <1>2, <3>1, Least
    <2>2. n \in 1 .. Len(ss) /\ f[n] # g[n]
      OBVIOUS
    <2>3. f[n] = (IF n = 1 THEN ss[n] ELSE f[n - 1] \o ss[n])
          /\ g[n] = (IF n = 1 THEN ss[n] ELSE g[n - 1] \o ss[n])
      BY <2>2 DEF Joins
    <2>4. n # 1 => n - 1 \in 1 .. Len(ss)
      BY <2>2
    <2>5. n # 1 => f[n - 1] = g[n - 1]
      BY <2>1, <2>2, <2>4
    <2> QED
      BY <2>2, <2>3, <2>5
  <1>3. \A i \in 1 .. Len(ss) : f[i] = g[i]
    BY <1>2
  <1> QED
    BY <1>1, <1>3

\* Up to place k there is such a function.
Joinable(S, ss, k) ==
  \E f \in [1 .. Len(ss) -> Seq(S)] :
    \A i \in 1 .. k : f[i] = IF i = 1 THEN ss[i] ELSE f[i - 1] \o ss[i]

LEMMA JoinsExists ==
  ASSUME NEW S, NEW ss \in Seq(Seq(S)), ss # <<>>
  PROVE  \E f \in [1 .. Len(ss) -> Seq(S)] : Joins(ss, f)
  <1> DEFINE N == 1 .. Len(ss)
             Missing == {k \in N : ~Joinable(S, ss, k)}
  <1>1. Len(ss) \in Nat \ {0} /\ \A i \in N : ss[i] \in Seq(S)
    BY EmptySeq, LenProperties, ElementOfSeq
  <1>2. ASSUME Missing # {}
        PROVE  FALSE
    <2>1. PICK n \in Missing : \A m \in Missing : n <= m
      <3>1. Missing \in SUBSET Nat
        BY <1>1
      <3> HIDE DEF Missing
      <3> QED
        BY <1>2, <3>1, Least
    <2>2. n \in N /\ n \in Nat /\ n >= 1 /\ ~Joinable(S, ss, n)
      BY <1>1
    <2>3. CASE n = 1
      <3> DEFINE f == [i \in N |-> ss[1]]
      <3>1. 1 \in N /\ f \in [N -> Seq(S)]
        <4>1. ss[1] \in Seq(S)
          BY <1>1
        <4> QED
          BY <1>1, <4>1
      <3>2. \A i \in 1 .. 1 : f[i] = IF i = 1 THEN ss[i] ELSE f[i - 1] \o ss[i]
        BY <3>1
      <3> QED
        BY <2>2, <2>3, <3>1, <3>2 DEF Joinable
    <2>4. CASE n # 1
      <3>1. n - 1 \in N /\ n - 1 \notin Missing
        BY <1>1, <2>1, <2>2, <2>4
      <3>2. PICK f \in [N -> Seq(S)] :
                   \A i \in 1 .. n - 1 : f[i] = IF i = 1 THEN ss[i] ELSE f[i - 1] \o ss[i]
        BY <3>1 DEF Joinable
      <3> DEFINE g == [f EXCEPT ![n] = f[n - 1] \o ss[n]]
      <3>3. f[n - 1] \o ss[n] \in Seq(S)
        <4>1. f[n - 1] \in Seq(S) /\ ss[n] \in Seq(S)
          BY <1>1, <2>2, <3>1
        <4> QED
          BY <4>1, ConcatProperties
      <3>4. g \in [N -> Seq(S)]
        BY <2>2, <3>3
      <3>5. ASSUME NEW i \in 1 .. n
            PROVE  g[i] = IF i = 1 THEN ss[i] ELSE g[i - 1] \o ss[i]
        <4>1. i \in Nat /\ i \in N
          BY <1>1, <2>2
        <4>2. CASE i = n
          BY <2>2, <2>4, <3>1, <4>1, <4>2
        <4>3. CASE i # n
          <5>1. i \in 1 .. n - 1
            BY <2>2, <4>1, <4>3
          <5>2. i # 1 => i - 1 \in N /\ i - 1 # n
            BY <1>1, <2>2, <4>1, <5>1
          <5> QED
            BY <3>2, <4>1, <4>3, <5>1, <5>2
        <4> QED
          BY <4>2, <4>3
      <3> HIDE DEF g
      <3> QED
        BY <2>2, <3>4, <3>5 DEF Joinable
    <2> QED
      BY <2>3, <2>4
  <1>3. Joinable(S, ss, Len(ss))
    <2>1. Len(ss) \in N /\ Len(ss) \notin Missing
      BY <1>1, <1>2
    <2> QED
      BY <2>1
  <1>4. PICK f \in [N -> Seq(S)] :
               \A i \in 1 .. Len(ss) : f[i] = IF i = 1 THEN ss[i] ELSE f[i - 1] \o ss[i]
    BY <1>3 DEF Joinable
  <1>5. Joins(ss, f)
    BY <1>4 DEF Joins
  <1> QED
    BY <1>5

LEMMA FlattenIs ==
  ASSUME NEW S, NEW ss \in Seq(Seq(S)), ss # <<>>, NEW f, Joins(ss, f)
  PROVE  FlattenSeq(ss) = f[Len(ss)]
  <1>1. Len(ss) \in Nat \ {0}
    BY EmptySeq, LenProperties
  <1> DEFINE g == CHOOSE g : Joins(ss, g)
  <1>2. Joins(ss, g)
    OBVIOUS
  <1>3. g = f
    BY <1>1, <1>2, JoinsOnce
  <1>4. FlattenSeq(ss) = g[Len(ss)]
    BY <1>1 DEF FlattenSeq, Joins
  <1> QED
    BY <1>3, <1>4

LEMMA FlattenEmpty == FlattenSeq(<<>>) = <<>>
  BY EmptySeq DEF FlattenSeq

LEMMA FlattenType ==
  ASSUME NEW S, NEW ss \in Seq(Seq(S))
  PROVE  FlattenSeq(ss) \in Seq(S)
  <1>1. CASE ss = <<>>
    BY <1>1, FlattenEmpty, EmptySeq
  <1>2. CASE ss # <<>>
    <2>1. PICK f \in [1 .. Len(ss) -> Seq(S)] : Joins(ss, f)
      BY <1>2, JoinsExists
    <2>2. Len(ss) \in 1 .. Len(ss)
      BY <1>2, EmptySeq, LenProperties
    <2>3. FlattenSeq(ss) = f[Len(ss)]
      BY <1>2, <2>1, FlattenIs
    <2> QED
      BY <2>1, <2>2, <2>3
  <1> QED
    BY <1>1, <1>2

\* A message behind the others adds its bytes behind theirs.
LEMMA FlattenAppend ==
  ASSUME NEW S, NEW ss \in Seq(Seq(S)), NEW s \in Seq(S)
  PROVE  FlattenSeq(Append(ss, s)) = FlattenSeq(ss) \o s
  <1> DEFINE n == Len(ss)
             more == Append(ss, s)
  <1>1. /\ n \in Nat /\ more \in Seq(Seq(S)) /\ more # <<>> /\ Len(more) = n + 1
        /\ \A i \in 1 .. n : more[i] = ss[i]
        /\ more[n + 1] = s
    BY AppendProperties, LenProperties
  <1> HIDE DEF more
  <1>2. CASE ss = <<>>
    <2> DEFINE f == [i \in 1 .. Len(more) |-> s]
    <2>1. n = 0
      BY <1>2, EmptySeq
    <2>2. Joins(more, f)
      BY <1>1, <2>1 DEF Joins
    <2>3. FlattenSeq(more) = f[Len(more)]
      BY <1>1, <2>2, FlattenIs
    <2>4. FlattenSeq(more) = s
      BY <1>1, <2>1, <2>3
    <2> QED
      BY <1>2, <2>4, FlattenEmpty, ConcatEmptySeq DEF more
  <1>3. CASE ss # <<>>
    <2>1. PICK f \in [1 .. n -> Seq(S)] : Joins(ss, f)
      BY <1>3, JoinsExists
    <2>2. n \in 1 .. n
      BY <1>1, <1>3, EmptySeq
    <2> DEFINE g == [i \in 1 .. Len(more) |-> IF i = n + 1 THEN f[n] \o s ELSE f[i]]
    <2>3. ASSUME NEW i \in 1 .. n + 1
          PROVE  g[i] = IF i = 1 THEN more[i] ELSE g[i - 1] \o more[i]
      <3>1. CASE i = n + 1
        <4>1. i # 1 /\ i - 1 = n /\ n \in 1 .. Len(more) /\ n # n + 1
          BY <1>1, <2>2, <3>1
        <4>2. g[i] = f[n] \o s /\ g[i - 1] = f[n]
          BY <1>1, <3>1, <4>1
        <4> QED
          BY <1>1, <3>1, <4>1, <4>2
      <3>2. CASE i # n + 1
        <4>1. i \in 1 .. n
          BY <1>1, <3>2
        <4>2. f[i] = IF i = 1 THEN ss[i] ELSE f[i - 1] \o ss[i]
          BY <2>1, <4>1 DEF Joins
        <4>3. g[i] = f[i] /\ (i # 1 => g[i - 1] = f[i - 1])
          BY <1>1, <4>1, SMTT(30)
        <4> QED
          BY <1>1, <4>1, <4>2, <4>3
      <3> QED
        BY <3>1, <3>2
    <2>4. Joins(more, g)
      <3>1. g = [i \in 1 .. Len(more) |-> g[i]]
        OBVIOUS
      <3> HIDE DEF g
      <3> QED
        BY <1>1, <2>3, <3>1 DEF Joins
    <2>5. FlattenSeq(more) = g[n + 1]
      <3> HIDE DEF g
      <3> QED
        BY <1>1, <2>4, FlattenIs
    <2>6. g[n + 1] = f[n] \o s
      BY <1>1
    <2>7. FlattenSeq(ss) = f[n]
      BY <1>3, <2>1, FlattenIs
    <2> QED
      BY <2>5, <2>6, <2>7 DEF more
  <1> QED
    BY <1>2, <1>3

\* The bytes of the first message come before those of the others.
LEMMA FlattenHead ==
  ASSUME NEW S, NEW ss \in Seq(Seq(S)), ss # <<>>
  PROVE  FlattenSeq(ss) = Head(ss) \o FlattenSeq(Tail(ss))
  <1> DEFINE n == Len(ss)
             rest == Tail(ss)
             first == ss[1]
  <1>1. /\ n \in Nat \ {0} /\ rest \in Seq(Seq(S)) /\ Len(rest) = n - 1
        /\ \A i \in 1 .. n - 1 : rest[i] = ss[i + 1]
        /\ Head(ss) = first /\ first \in Seq(S)
        /\ \A i \in 1 .. n : ss[i] \in Seq(S)
    BY EmptySeq, LenProperties, ElementOfSeq, HeadTailProperties
  <1> HIDE DEF rest, first
  <1>2. CASE rest = <<>>
    <2>1. n = 1
      BY <1>1, <1>2, EmptySeq
    <2> DEFINE f == [i \in 1 .. Len(ss) |-> first]
    <2>2. Joins(ss, f)
      BY <1>1, <2>1 DEF Joins, first
    <2>3. FlattenSeq(ss) = first
      BY <1>1, <2>1, <2>2, FlattenIs
    <2> QED
      BY <1>1, <1>2, <2>3, FlattenEmpty, ConcatEmptySeq DEF rest
  <1>3. CASE rest # <<>>
    <2>1. n >= 2
      BY <1>1, <1>3, EmptySeq
    <2>2. PICK g : Joins(rest, g) /\ \A i \in 1 .. Len(rest) : g[i] \in Seq(S)
      BY <1>1, <1>3, JoinsExists
    <2> DEFINE f == [i \in 1 .. Len(ss) |-> IF i = 1 THEN first ELSE first \o g[i - 1]]
    <2>a. f = [i \in 1 .. Len(ss) |-> f[i]]
          /\ \A i \in 1 .. n : f[i] = IF i = 1 THEN first ELSE first \o g[i - 1]
      OBVIOUS
    <2>b. \A i \in 1 .. Len(rest) : /\ g[i] = IF i = 1 THEN rest[i] ELSE g[i - 1] \o rest[i]
                                    /\ g[i] \in Seq(S)
      BY <2>2 DEF Joins
    <2> HIDE DEF f, n
    <2>3. ASSUME NEW i \in 1 .. n
          PROVE  f[i] = IF i = 1 THEN ss[i] ELSE f[i - 1] \o ss[i]
      <3>1. CASE i = 1
        BY <3>1, <2>a DEF first
      <3>2. CASE i = 2
        <4>1. 1 \in 1 .. n /\ 1 \in 1 .. Len(rest) /\ 1 + 1 = 2 /\ i - 1 = 1 /\ i # 1
              /\ 1 \in 1 .. n - 1
          BY <1>1, <2>1, <3>2
        <4>2. g[1] = rest[1] /\ rest[1] = ss[2]
          BY <1>1, <2>b, <4>1
        <4>3. f[i] = first \o g[1] /\ f[1] = first
          BY <2>a, <4>1
        <4> QED
          BY <3>2, <4>1, <4>2, <4>3
      <3>3. CASE i > 2
        <4>1. /\ i - 1 \in 1 .. Len(rest) /\ i - 2 \in 1 .. Len(rest) /\ (i - 1) - 1 = i - 2
              /\ i - 1 \in 1 .. n /\ i - 1 # 1 /\ i # 1 /\ (i - 1) + 1 = i /\ i - 1 \in 1 .. n - 1
          BY <1>1, <3>3
        <4>2. g[i - 1] = g[i - 2] \o rest[i - 1]
          BY <2>b, <4>1
        <4>3. rest[i - 1] = ss[i]
          BY <1>1, <4>1
        <4>4. f[i] = first \o g[i - 1] /\ f[i - 1] = first \o g[i - 2]
          BY <2>a, <4>1
        <4>5. g[i - 2] \in Seq(S) /\ ss[i] \in Seq(S) /\ first \in Seq(S)
          BY <1>1, <2>b, <4>1
        <4>6. (first \o g[i - 2]) \o ss[i] = first \o (g[i - 2] \o ss[i])
          <5> DEFINE a == g[i - 2]
                     b == ss[i]
          <5>1. first \in Seq(S) /\ a \in Seq(S) /\ b \in Seq(S)
            BY <4>5
          <5> HIDE DEF a, b
          <5>2. (first \o a) \o b = first \o (a \o b)
            BY <5>1
          <5> QED
            BY <5>2 DEF a, b
        <4> QED
          BY <4>1, <4>2, <4>3, <4>4, <4>6
      <3>4. i = 1 \/ i = 2 \/ i > 2
        BY <1>1
      <3> QED
        BY <3>1, <3>2, <3>3, <3>4
    <2>4. Joins(ss, f)
      BY <2>3, <2>a DEF Joins, n
    <2>5. FlattenSeq(ss) = f[n]
      BY <2>4, FlattenIs DEF n
    <2>6. f[n] = first \o g[Len(rest)]
      <3>1. n \in 1 .. n /\ n # 1 /\ n - 1 = Len(rest)
        BY <1>1, <2>1
      <3> QED
        BY <2>a, <3>1
    <2>7. FlattenSeq(rest) = g[Len(rest)]
      BY <1>1, <1>3, <2>2, FlattenIs
    <2> QED
      BY <1>1, <2>5, <2>6, <2>7 DEF rest
  <1> QED
    BY <1>2, <1>3

-------------------------------------------------------------------------------
(* The invariant *)

Short == {s \in Seq(Bytes) : Len(s) \in 1 .. TSize}

TxTypes == Tx!TypeOK /\ txMsgBuf \in Seq(Short) /\ peer \in {"silent", "asked", "answering"}

CopyTypes ==
  /\ buf \in Seq(Bytes) /\ Len(buf) <= BufSize
  /\ written \in 0 .. Len(buf)
  /\ dst \in Seq(Bytes) /\ Len(dst) <= DstSize
  /\ rxStreamBuf \in Seq(Bytes) /\ delivered \in Seq(Bytes)
  /\ sequenceNum \in 0 .. Len(Lengths)

\* The buffer is that of the transfer from the moment its length is set.
Transfer ==
  /\ txPc \in {"pack", "enable"} => txDmaBuf # <<>>
  /\ txPc = "enable" => dmaPos = 0
  /\ txPc \in {"enable", "wait"} => dmaLen = Len(txDmaBuf)
  /\ streamOn => dmaPos < dmaLen

\* Only a waiting task has a transfer under way or is told of its end.
EndKnownOnce ==
  /\ streamOn \/ dmaTC \/ notified => txPc = "wait"
  /\ ~(streamOn /\ dmaTC) /\ ~(streamOn /\ notified) /\ ~(dmaTC /\ notified)

\* In full duplex there is nothing to drive and nobody to ask.
FullDuplex == ~halfDuplex => ~driving /\ peer = "silent"

Busy == dr # <<>> \/ shift # <<>> \/ streamOn

\* The line belongs to the task from the moment it has set up a transfer.
Transmitting ==
  /\ Busy => /\ txPc = "wait" /\ driving /\ ~notified /\ ~uartTC
             /\ txMsgBuf = <<>> /\ peer = "silent"
  /\ txPc \in {"read", "pack"} => ~driving
  /\ txPc \in {"pack", "enable"} => txMsgBuf = <<>> /\ peer = "silent"
  /\ txPc = "enable" => driving

\* The end of a transmission is one event, too.
SentOnce ==
  /\ uartTC => txPc = "wait"
  /\ ~(uartTC /\ notified)

\* A master writes one request at a time.
OneRequest ==
  /\ Len(txMsgBuf) <= 1
  /\ txMsgBuf # <<>> => peer = "silent"

\* Once a drive was asked, the task is on its way back to its first statement
\* and arrives there before the drive answers.
Asked ==
  /\ peer # "silent" => \/ txPc \in {"read", "turn"}
                        \/ txPc = "wait" /\ (uartTC \/ notified)
  /\ peer = "answering" => txPc = "read"

HalfDuplex == halfDuplex => Transmitting /\ SentOnce /\ OneRequest /\ Asked

TxInv == TxTypes /\ Transfer /\ EndKnownOnce /\ FullDuplex /\ HalfDuplex
IInv == TxInv /\ CopyTypes

USE DEF TxInv, TxTypes, Tx!TypeOK, Transfer, EndKnownOnce, FullDuplex, HalfDuplex, Busy,
        Transmitting, SentOnce, OneRequest, Asked, Tx!dmaVars, Tx!uartVars

-------------------------------------------------------------------------------
(* Sequences *)

\* What a message buffer gives, and what it keeps.
LEMMA TakeMessage ==
  ASSUME TxInv, txMsgBuf # <<>>
  PROVE  /\ Head(txMsgBuf) \in Seq(Bytes) /\ Len(Head(txMsgBuf)) \in 1 .. TSize
         /\ Head(txMsgBuf) # <<>>
         /\ Tail(txMsgBuf) \in Seq(Short) /\ Tail(txMsgBuf) \in Seq(Seq(Bytes))
         /\ Len(Tail(txMsgBuf)) \in Nat /\ Len(Tail(txMsgBuf)) <= MsgBufLen
         /\ Len(txMsgBuf) <= 1 => Tail(txMsgBuf) = <<>>
  <1>1. Head(txMsgBuf) \in Short /\ Tail(txMsgBuf) \in Seq(Short)
        /\ Len(Tail(txMsgBuf)) = Len(txMsgBuf) - 1
    BY HeadTailProperties
  <1>2. Tail(txMsgBuf) \in Seq(Seq(Bytes))
    BY HeadTailProperties
  <1>3. Len(txMsgBuf) \in Nat \ {0}
    BY EmptySeq
  <1>4. MsgBufLen \in Nat
    BY SizesAssumption
  <1>5. Tail(txMsgBuf) # <<>> => Len(Tail(txMsgBuf)) \in Nat \ {0}
    BY <1>2, EmptySeq
  <1>6. Head(txMsgBuf) # <<>>
    BY <1>1, EmptySeq DEF Short
  <1> QED
    BY <1>1, <1>2, <1>3, <1>4, <1>5, <1>6 DEF Short

\* Nothing in the UART means that no transfer is set up or under way.
LEMMA NothingInUart ==
  ASSUME TxInv, InUart = <<>>
  PROVE  ~Busy /\ txPc \notin {"pack", "enable"}
  <1>1. ASSUME NEW r \in {dr, shift}
        PROVE  r \in Seq(Bytes)
    <2>1. CASE r = <<>>
      BY <2>1, EmptySeq
    <2>2. CASE \E b \in Bytes : r = <<b>>
      BY <2>2
    <2> QED
      BY <2>1, <2>2
  <1>2. Tx!Unmoved \in Seq(Bytes)
        /\ txPc = "wait" => Len(Tx!Unmoved) = dmaLen - dmaPos
    BY SubSeqProperties, ElementOfSeq, EmptySeq DEF Tx!Unmoved
  <1>3. shift = <<>> /\ dr = <<>> /\ Tx!Unmoved = <<>>
    BY <1>1, <1>2, ConcatProperties, ConcatEqualIffEmpty DEF InUart
  <1>4. txPc \notin {"pack", "enable"}
    BY <1>3 DEF Tx!Unmoved
  <1>5. ~streamOn
    BY <1>2, <1>3
  <1> QED
    BY <1>3, <1>4, <1>5

-------------------------------------------------------------------------------
(* txFunc *)

LEMMA ReadFirstOK == TxInv /\ Tx!ReadFirst /\ UNCHANGED peer => TxInv'
  <1> SUFFICES ASSUME TxInv, Tx!ReadFirst /\ UNCHANGED peer
               PROVE  TxInv'
    OBVIOUS
  <1> USE DEF Tx!ReadFirst
  <1>1. TxTypes'
    BY TakeMessage, SizesAssumption
  <1>2. Transfer' /\ FullDuplex'
    BY TakeMessage
  <1>3. EndKnownOnce'
    OBVIOUS
  <1>4. halfDuplex => Transmitting' /\ SentOnce'
    BY TakeMessage
  <1>5. halfDuplex => OneRequest' /\ Asked'
    BY TakeMessage, EmptySeq
  <1> QED
    BY <1>1, <1>2, <1>3, <1>4, <1>5

\* In half duplex there is no other message.
LEMMA ReadNextOK == TxInv /\ Tx!ReadNext /\ UNCHANGED peer => TxInv'
  <1> SUFFICES ASSUME TxInv, Tx!ReadNext /\ UNCHANGED peer
               PROVE  TxInv'
    OBVIOUS
  <1> USE DEF Tx!ReadNext, Tx!NextFits
  <1>a. txDmaBuf' \in Seq(Bytes) /\ txDmaBuf' # <<>> /\ Len(txDmaBuf') <= TSize
    <2>1. txDmaBuf \in Seq(Bytes) /\ Head(txMsgBuf) \in Seq(Bytes)
      BY TakeMessage
    <2> QED
      BY <2>1, ConcatProperties, ConcatEqualIffEmpty
  <1>b. ~halfDuplex
    OBVIOUS
  <1>1. TxTypes'
    BY <1>a, TakeMessage
  <1>2. Transfer' /\ FullDuplex'
    BY <1>a
  <1>3. EndKnownOnce'
    OBVIOUS
  <1>4. halfDuplex => Transmitting' /\ SentOnce'
    BY <1>b
  <1>5. halfDuplex => OneRequest' /\ Asked'
    BY <1>b
  <1> QED
    BY <1>1, <1>2, <1>3, <1>4, <1>5

\* The stream is not enabled, so the program is not halted.
LEMMA SetUpOK == TxInv /\ Tx!SetUp /\ UNCHANGED peer => TxInv'
  <1> SUFFICES ASSUME TxInv, Tx!SetUp /\ UNCHANGED peer
               PROVE  TxInv'
    OBVIOUS
  <1> USE DEF Tx!SetUp
  <1>a. Len(txDmaBuf) \in 0 .. TSize /\ ~streamOn
    BY LenProperties
  <1>1. TxTypes'
    BY <1>a
  <1>2. Transfer' /\ FullDuplex'
    BY <1>a
  <1>3. EndKnownOnce'
    BY <1>a
  <1>4. halfDuplex => Transmitting' /\ SentOnce'
    BY <1>a
  <1>5. halfDuplex => OneRequest' /\ Asked'
    BY <1>a
  <1> QED
    BY <1>1, <1>2, <1>3, <1>4, <1>5

LEMMA EnableStreamOK == TxInv /\ Tx!EnableStream /\ UNCHANGED peer => TxInv'
  <1> SUFFICES ASSUME TxInv, Tx!EnableStream /\ UNCHANGED peer
               PROVE  TxInv'
    OBVIOUS
  <1> USE DEF Tx!EnableStream
  <1>a. Len(txDmaBuf) \in Nat \ {0}
    BY EmptySeq
  <1>1. TxTypes'
    OBVIOUS
  <1>2. Transfer' /\ FullDuplex'
    BY <1>a
  <1>3. EndKnownOnce'
    OBVIOUS
  <1>4. halfDuplex => Transmitting' /\ SentOnce'
    OBVIOUS
  <1>5. halfDuplex => OneRequest' /\ Asked'
    OBVIOUS
  <1> QED
    BY <1>1, <1>2, <1>3, <1>4, <1>5

LEMMA TakeNotificationOK == TxInv /\ Tx!TakeNotification /\ UNCHANGED peer => TxInv'
  <1> SUFFICES ASSUME TxInv, Tx!TakeNotification /\ UNCHANGED peer
               PROVE  TxInv'
    OBVIOUS
  <1> USE DEF Tx!TakeNotification
  <1>1. TxTypes'
    OBVIOUS
  <1>2. Transfer' /\ FullDuplex'
    OBVIOUS
  <1>3. EndKnownOnce'
    OBVIOUS
  <1>4. halfDuplex => Transmitting' /\ SentOnce'
    OBVIOUS
  <1>5. halfDuplex => OneRequest' /\ Asked'
    OBVIOUS
  <1> QED
    BY <1>1, <1>2, <1>3, <1>4, <1>5

LEMMA TurnRoundOK == TxInv /\ Tx!TurnRound /\ UNCHANGED peer => TxInv'
  <1> SUFFICES ASSUME TxInv, Tx!TurnRound /\ UNCHANGED peer
               PROVE  TxInv'
    OBVIOUS
  <1> USE DEF Tx!TurnRound
  <1>1. TxTypes'
    OBVIOUS
  <1>2. Transfer' /\ FullDuplex'
    OBVIOUS
  <1>3. EndKnownOnce'
    OBVIOUS
  <1>4. halfDuplex => Transmitting' /\ SentOnce'
    OBVIOUS
  <1>5. halfDuplex => OneRequest' /\ Asked'
    OBVIOUS
  <1> QED
    BY <1>1, <1>2, <1>3, <1>4, <1>5

-------------------------------------------------------------------------------
(* Hardware and interrupts *)

LEMMA DmaFeedsOK == TxInv /\ Tx!DmaFeeds /\ UNCHANGED peer => TxInv'
  <1> SUFFICES ASSUME TxInv, Tx!DmaFeeds /\ UNCHANGED peer
               PROVE  TxInv'
    OBVIOUS
  <1> USE DEF Tx!DmaFeeds
  <1>a. txDmaBuf[dmaPos + 1] \in Bytes
    BY ElementOfSeq
  <1>1. TxTypes'
    BY <1>a
  <1>2. Transfer' /\ FullDuplex'
    OBVIOUS
  <1>3. EndKnownOnce'
    OBVIOUS
  <1>4. halfDuplex => Transmitting' /\ SentOnce'
    OBVIOUS
  <1>5. halfDuplex => OneRequest' /\ Asked'
    OBVIOUS
  <1> QED
    BY <1>1, <1>2, <1>3, <1>4, <1>5

LEMMA ShiftStartsOK == TxInv /\ Tx!ShiftStarts /\ UNCHANGED peer => TxInv'
  <1> SUFFICES ASSUME TxInv, Tx!ShiftStarts /\ UNCHANGED peer
               PROVE  TxInv'
    OBVIOUS
  <1> USE DEF Tx!ShiftStarts
  <1>1. TxTypes'
    OBVIOUS
  <1>2. Transfer' /\ FullDuplex'
    OBVIOUS
  <1>3. EndKnownOnce'
    OBVIOUS
  <1>4. halfDuplex => Transmitting' /\ SentOnce'
    OBVIOUS
  <1>5. halfDuplex => OneRequest' /\ Asked'
    OBVIOUS
  <1> QED
    BY <1>1, <1>2, <1>3, <1>4, <1>5

\* The last byte of a request has left: the flag is set, and the drive was asked.
LEMMA ArriveOK == TxInv /\ Arrive => TxInv'
  <1> SUFFICES ASSUME TxInv, Arrive
               PROVE  TxInv'
    OBVIOUS
  <1> USE DEF Arrive, Tx!ShiftEnds
  <1>1. TxTypes'
    OBVIOUS
  <1>2. Transfer' /\ FullDuplex'
    OBVIOUS
  <1>3. EndKnownOnce'
    OBVIOUS
  <1>4. halfDuplex => Transmitting' /\ SentOnce'
    OBVIOUS
  <1>5. halfDuplex => OneRequest' /\ Asked'
    OBVIOUS
  <1> QED
    BY <1>1, <1>2, <1>3, <1>4, <1>5

LEMMA DmaTxCallbackOK == TxInv /\ Tx!dmaTxCallback /\ UNCHANGED peer => TxInv'
  <1> SUFFICES ASSUME TxInv, Tx!dmaTxCallback /\ UNCHANGED peer
               PROVE  TxInv'
    OBVIOUS
  <1> USE DEF Tx!dmaTxCallback
  <1>1. TxTypes'
    OBVIOUS
  <1>2. Transfer' /\ FullDuplex'
    OBVIOUS
  <1>3. EndKnownOnce'
    OBVIOUS
  <1>4. halfDuplex => Transmitting' /\ SentOnce'
    OBVIOUS
  <1>5. halfDuplex => OneRequest' /\ Asked'
    OBVIOUS
  <1> QED
    BY <1>1, <1>2, <1>3, <1>4, <1>5

LEMMA UartTcCallbackOK == TxInv /\ Tx!uartTcCallback /\ UNCHANGED peer => TxInv'
  <1> SUFFICES ASSUME TxInv, Tx!uartTcCallback /\ UNCHANGED peer
               PROVE  TxInv'
    OBVIOUS
  <1> USE DEF Tx!uartTcCallback
  <1>1. TxTypes'
    OBVIOUS
  <1>2. Transfer' /\ FullDuplex'
    OBVIOUS
  <1>3. EndKnownOnce'
    OBVIOUS
  <1>4. halfDuplex => Transmitting' /\ SentOnce'
    OBVIOUS
  <1>5. halfDuplex => OneRequest' /\ Asked'
    OBVIOUS
  <1> QED
    BY <1>1, <1>2, <1>3, <1>4, <1>5

-------------------------------------------------------------------------------
(* The two ends *)

\* The next message, of a length the buffer of the transfer has room for.
LEMMA NextMessage ==
  ASSUME CopyTypes, sequenceNum < Len(Lengths)
  PROVE  Message(sequenceNum + 1) \in Short
  <1> DEFINE m == sequenceNum + 1
  <1>1. Len(Lengths) \in Nat
    BY SizesAssumption, LenProperties
  <1>2. m \in 1 .. Len(Lengths)
    BY <1>1 DEF CopyTypes
  <1>3. Lengths[m] \in 1 .. TSize
    BY <1>2, ElementOfSeq, SizesAssumption
  <1> HIDE DEF m
  <1>4. TSize \in Nat
    BY SizesAssumption
  <1>5. \A i \in 1 .. Lengths[m] : <<m, i>> \in Bytes
    BY <1>2, <1>3, <1>4 DEF Bytes
  <1>6. Message(m) \in [1 .. Lengths[m] -> Bytes]
    BY <1>5 DEF Message
  <1>7. Message(m) \in Seq(Bytes) /\ Len(Message(m)) = Lengths[m]
    BY <1>3, <1>4, <1>6
  <1> QED
    BY <1>3, <1>7 DEF Short, m

LEMMA ProduceOK == TxInv /\ CopyTypes /\ Produce => TxInv' /\ CopyTypes'
  <1> SUFFICES ASSUME TxInv, CopyTypes, Produce
               PROVE  TxInv' /\ CopyTypes'
    OBVIOUS
  <1> DEFINE msg == Message(sequenceNum + 1)
  <1>1. msg \in Short
    BY NextMessage DEF Produce
  <1>2. txMsgBuf' = Append(txMsgBuf, msg) /\ Len(txMsgBuf) < MsgBufLen
    BY DEF Produce, Tx!write
  <1> HIDE DEF msg
  <1>3. txMsgBuf' \in Seq(Short) /\ txMsgBuf' \in Seq(Seq(Bytes))
        /\ Len(txMsgBuf') = Len(txMsgBuf) + 1 /\ Len(txMsgBuf) \in Nat
    BY <1>1, <1>2, AppendProperties, LenProperties DEF Short
  <1>4. MsgBufLen \in Nat
    BY SizesAssumption
  <1>5. halfDuplex => /\ ~Busy /\ txPc \notin {"pack", "enable"}
                      /\ txMsgBuf = <<>> /\ peer = "silent"
    BY NothingInUart DEF Produce
  <1> USE DEF Produce, Tx!write
  <1>6. TxTypes'
    BY <1>2, <1>3, <1>4
  <1>7. Transfer' /\ EndKnownOnce' /\ FullDuplex'
    OBVIOUS
  <1>8. halfDuplex => Transmitting' /\ SentOnce'
    BY <1>5
  <1>9. halfDuplex => OneRequest' /\ Asked'
    BY <1>3, <1>5, EmptySeq
  <1>10. CopyTypes'
    BY LenProperties, SizesAssumption DEF CopyTypes, copyVars
  <1> QED
    BY <1>6, <1>7, <1>8, <1>9, <1>10

LEMMA PeerAnswersOK == TxInv /\ PeerAnswers => TxInv'
  <1> SUFFICES ASSUME TxInv, PeerAnswers
               PROVE  TxInv'
    OBVIOUS
  <1> USE DEF PeerAnswers, txVars
  <1>1. TxTypes' /\ Transfer' /\ EndKnownOnce' /\ FullDuplex'
    OBVIOUS
  <1>2. halfDuplex => txPc = "read" /\ txMsgBuf = <<>> /\ ~Busy
    BY DEF Tx!TxTaskHasRun
  <1>3. halfDuplex => Transmitting' /\ SentOnce' /\ OneRequest' /\ Asked'
    BY <1>2
  <1> QED
    BY <1>1, <1>3

LEMMA PeerSilentOK == TxInv /\ PeerSilent => TxInv'
  BY DEF PeerSilent, txVars

LEMMA OthersOK == TxInv /\ UNCHANGED <<txVars, peer>> => TxInv'
  BY DEF txVars
-------------------------------------------------------------------------------
(* Copying *)

LEMMA Part ==
  ASSUME NEW s \in Seq(Bytes), NEW m \in Nat \ {0}, NEW n \in 0 .. Len(s)
  PROVE  /\ SubSeq(s, m, n) \in Seq(Bytes)
         /\ Len(SubSeq(s, m, n)) = IF m <= n THEN n - m + 1 ELSE 0
  <1>1. Len(s) \in Nat /\ m \in Int /\ n \in Int
    BY LenProperties
  <1>2. \A i \in m .. n : s[i] \in Bytes
    BY <1>1, ElementOfSeq
  <1> QED
    BY <1>1, <1>2, SubSeqProperties

LEMMA ArriveCopies == TxInv /\ CopyTypes /\ Arrive => CopyTypes'
  <1> SUFFICES ASSUME TxInv, CopyTypes, Arrive
               PROVE  CopyTypes'
    OBVIOUS
  <1>1. shift \in Seq(Bytes)
    <2>1. CASE shift = <<>>
      BY <2>1, EmptySeq
    <2>2. CASE \E b \in Bytes : shift = <<b>>
      BY <2>2
    <2> QED
      BY <2>1, <2>2
  <1>2. rxStreamBuf' \in Seq(Bytes)
    BY <1>1, ConcatProperties DEF Arrive, CopyTypes
  <1> QED
    BY <1>2 DEF Arrive, CopyTypes, copyVars

LEMMA CopyBytesCopies == CopyTypes /\ CopyBytes => CopyTypes'
  <1> SUFFICES ASSUME CopyTypes, CopyBytes
               PROVE  CopyTypes'
    OBVIOUS
  <1>0. BufSize \in Nat /\ DstSize \in Nat
    BY SizesAssumption
  <1>1. Len(buf) \in Nat /\ Len(dst) \in Nat /\ Len(rxStreamBuf) \in Nat
    BY LenProperties DEF CopyTypes
  <1>2. CASE Copy!Read
    <2> DEFINE len == Copy!Smaller(BufSize, Len(rxStreamBuf))
    <2>1. len \in 0 .. Len(rxStreamBuf) /\ len <= BufSize
      BY <1>0, <1>1 DEF Copy!Smaller
    <2>2. buf' = SubSeq(rxStreamBuf, 1, len)
          /\ rxStreamBuf' = SubSeq(rxStreamBuf, len + 1, Len(rxStreamBuf))
          /\ written' = 0 /\ dst' = dst
      BY <1>2 DEF Copy!Read
    <2> HIDE DEF len
    <2>3. buf' \in Seq(Bytes) /\ Len(buf') = len
      BY <1>1, <2>1, <2>2, Part DEF CopyTypes
    <2>4. rxStreamBuf' \in Seq(Bytes)
      BY <1>1, <2>1, <2>2, Part DEF CopyTypes
    <2> QED
      BY <2>1, <2>2, <2>3, <2>4 DEF CopyTypes, CopyBytes
  <1>3. CASE Copy!Write
    <2> DEFINE k == Copy!Smaller(Len(buf) - written, DstSize - Len(dst))
               piece == SubSeq(buf, written + 1, written + k)
    <2>1. written \in Nat /\ k \in Nat /\ written + k <= Len(buf) /\ Len(dst) + k <= DstSize
      BY <1>0, <1>1, <1>3 DEF Copy!Smaller, CopyTypes, Copy!Write
    <2>2. dst' = dst \o piece /\ written' = written + k
          /\ buf' = buf /\ rxStreamBuf' = rxStreamBuf
      BY <1>3 DEF Copy!Write
    <2> HIDE DEF k
    <2>3. piece \in Seq(Bytes) /\ Len(piece) = k
      BY <1>1, <2>1, Part DEF CopyTypes
    <2> HIDE DEF piece
    <2>4. dst' \in Seq(Bytes) /\ Len(dst') = Len(dst) + k
      BY <2>2, <2>3, ConcatProperties DEF CopyTypes
    <2> QED
      BY <1>1, <2>1, <2>2, <2>4 DEF CopyTypes, CopyBytes
  <1> QED
    BY <1>2, <1>3 DEF CopyBytes, Copy!func

LEMMA ConsumeCopies == CopyTypes /\ Consume => CopyTypes'
  <1> SUFFICES ASSUME CopyTypes, Consume
               PROVE  CopyTypes'
    OBVIOUS
  <1>1. PICK n \in 1 .. Len(dst) : /\ delivered' = delivered \o SubSeq(dst, 1, n)
                                   /\ dst' = SubSeq(dst, n + 1, Len(dst))
    BY DEF Consume
  <1>2. Len(dst) \in Nat /\ DstSize \in Nat
    BY LenProperties, SizesAssumption DEF CopyTypes
  <1>3. SubSeq(dst, 1, n) \in Seq(Bytes)
    BY <1>2, Part DEF CopyTypes
  <1>4. dst' \in Seq(Bytes) /\ Len(dst') <= Len(dst) /\ Len(dst') \in Nat
    BY <1>1, <1>2, Part DEF CopyTypes
  <1>5. delivered' \in Seq(Bytes)
    BY <1>1, <1>3, ConcatProperties DEF CopyTypes
  <1>6. Len(dst) <= DstSize /\ Len(dst') <= DstSize
    BY <1>2, <1>4 DEF CopyTypes
  <1>7. /\ buf' = buf /\ written' = written /\ rxStreamBuf' = rxStreamBuf
        /\ sequenceNum' = sequenceNum
    BY DEF Consume
  <1> QED
    BY <1>4, <1>5, <1>6, <1>7 DEF CopyTypes

-------------------------------------------------------------------------------
(* The specification *)

LEMMA Invariance == Spec => []IInv
  <1>1. Init => IInv
    <2> SUFFICES ASSUME Init PROVE IInv
      OBVIOUS
    <2> USE DEF Init, Tx!Init, Copy!Init
    <2>1. <<>> \in Seq(Bytes) /\ <<>> \in Seq(Short) /\ <<>> \in Seq(Seq(Bytes)) /\ Len(<<>>) = 0
      BY EmptySeq
    <2>2. {TSize, MsgBufLen, BufSize, DstSize} \subseteq Nat /\ Len(Lengths) \in Nat
      BY SizesAssumption, LenProperties
    <2>3. TxTypes
      <3>1. 0 <= MsgBufLen /\ 0 <= TSize /\ 0 \in 0 .. TSize /\ 0 \in 0 .. 0
        BY <2>2
      <3>2. txMsgBuf \in Seq(Short) /\ txMsgBuf \in Seq(Seq(Bytes)) /\ Len(txMsgBuf) <= MsgBufLen
        BY <2>1, <3>1, Zenon
      <3>3. txDmaBuf \in Seq(Bytes) /\ Len(txDmaBuf) <= TSize
        BY <2>1, <3>1, Zenon
      <3>4. dmaLen \in 0 .. TSize /\ dmaPos \in 0 .. dmaLen
        BY <3>1, Zenon
      <3>5. dr \in Seq(Bytes) /\ shift \in Seq(Bytes) /\ Len(dr) <= 1 /\ Len(shift) <= 1
        BY <2>1
      <3> QED
        BY <3>2, <3>3, <3>4, <3>5
    <2>4. CopyTypes
      BY <2>1, <2>2 DEF CopyTypes
    <2>5. Transfer /\ EndKnownOnce /\ FullDuplex
      OBVIOUS
    <2>6. Transmitting /\ SentOnce /\ OneRequest /\ Asked
      BY <2>1
    <2> QED
      BY <2>3, <2>4, <2>5, <2>6 DEF IInv
  <1>2. IInv /\ [Next]_vars => IInv'
    <2> SUFFICES ASSUME TxInv, CopyTypes, [Next]_vars
                 PROVE  TxInv' /\ CopyTypes'
      BY DEF IInv
    <2> HIDE DEF TxInv
    <2>1. CASE Produce
      BY <2>1, ProduceOK
    <2>2. CASE Transmit
      <3>1. TxInv'
        BY <2>2, ReadFirstOK, ReadNextOK, SetUpOK, EnableStreamOK, TakeNotificationOK,
           TurnRoundOK, DmaFeedsOK, ShiftStartsOK DEF Transmit, Tx!txFunc
      <3> QED
        BY <2>2, <3>1 DEF Transmit, CopyTypes, copyVars
    <2>3. CASE Interrupt
      <3>1. TxInv'
        BY <2>3, DmaTxCallbackOK, UartTcCallbackOK DEF Interrupt
      <3> QED
        BY <2>3, <3>1 DEF Interrupt, CopyTypes, copyVars
    <2>4. CASE Arrive
      BY <2>4, ArriveOK, ArriveCopies
    <2>5. CASE PeerAnswers
      BY <2>5, PeerAnswersOK DEF PeerAnswers, CopyTypes, copyVars
    <2>6. CASE PeerSilent
      BY <2>6, PeerSilentOK DEF PeerSilent, CopyTypes, copyVars
    <2>7. CASE CopyBytes
      BY <2>7, OthersOK, CopyBytesCopies DEF CopyBytes
    <2>8. CASE Consume
      BY <2>8, OthersOK, ConsumeCopies DEF Consume
    <2>9. CASE UNCHANGED vars
      <3>1. TxInv'
        BY <2>9, OthersOK DEF vars
      <3> QED
        BY <2>9, <3>1 DEF vars, CopyTypes, copyVars
    <2> QED
      BY <2>1, <2>2, <2>3, <2>4, <2>5, <2>6, <2>7, <2>8, <2>9 DEF Next, TimesOut
  <1> QED
    BY <1>1, <1>2, PTL DEF Spec

\* The task is never halted by a stream that is still enabled, every transfer
\* fits in txDmaBuf, and neither a chunk nor the destination overflows: what
\* txFunc and Coupling's func do with their buffers, for any lengths.
THEOREM TypeCorrect == Spec => []TypeOK
  <1>1. IInv => TypeOK
    BY DEF IInv, CopyTypes, TypeOK
  <1> QED
    BY <1>1, Invariance, PTL

\* In half duplex (txMode, rxMode) the line is driven while one of its bytes is
\* on it, and given back before a drive answers.
THEOREM LineHasOneDriver == Spec => []OneEndDrives
  <1>1. IInv => OneEndDrives
    BY DEF IInv, OneEndDrives
  <1> QED
    BY <1>1, Invariance, PTL

\* While the DMA reads txDmaBuf (streamOn), txFunc packs nothing into it and sets
\* up no other transfer.
THEOREM BufferHeldByDma == Spec => [][streamOn => UNCHANGED <<txDmaBuf, dmaLen>>]_vars
  <1>1. IInv /\ [Next]_vars => [streamOn => UNCHANGED <<txDmaBuf, dmaLen>>]_vars
    <2> SUFFICES ASSUME IInv, Next, streamOn
                 PROVE  UNCHANGED <<txDmaBuf, dmaLen>>
      OBVIOUS
    <2>1. txPc = "wait"
      BY DEF IInv
    <2>2. CASE Transmit
      BY <2>1, <2>2 DEF Transmit, Tx!txFunc, Tx!ReadFirst, Tx!ReadNext, Tx!SetUp,
         Tx!EnableStream, Tx!TakeNotification, Tx!TurnRound, Tx!DmaFeeds, Tx!ShiftStarts
    <2> QED
      BY <2>2 DEF Next, Produce, Tx!write, Interrupt, Tx!dmaTxCallback, Tx!uartTcCallback,
         Arrive, Tx!ShiftEnds, PeerAnswers, PeerSilent, CopyBytes, Consume, TimesOut, vars, txVars
  <1> QED
    BY <1>1, Invariance, PTL DEF Spec

-------------------------------------------------------------------------------
(* The abstract channel *)

HIDE DEF TxInv, TxTypes, Tx!TypeOK, Transfer, EndKnownOnce, FullDuplex, HalfDuplex, Busy,
         Transmitting, SentOnce, OneRequest, Asked, Tx!dmaVars, Tx!uartVars

\* A transfer that is not under way any more has moved every byte.
AllMoved == txPc = "wait" /\ ~streamOn => dmaPos = dmaLen

LEMMA AllMovedStep ==
  ASSUME IInv, AllMoved, [Next]_vars
  PROVE  AllMoved'
  <1>1. dmaTC => txPc = "wait"
    BY DEF IInv, TxInv, EndKnownOnce
  <1>2. dmaPos \in Nat /\ dmaLen \in Nat /\ (streamOn => dmaPos < dmaLen /\ txPc = "wait")
    BY SizesAssumption DEF IInv, TxInv, TxTypes, Tx!TypeOK, Transfer, EndKnownOnce
  <1>3. CASE Transmit
    <2>1. CASE Tx!EnableStream
      BY <1>1, <2>1 DEF AllMoved, Tx!EnableStream
    <2>2. CASE Tx!DmaFeeds
      <3>1. /\ dmaPos' = dmaPos + 1 /\ dmaLen' = dmaLen
            /\ streamOn' = (dmaPos + 1 < dmaLen) /\ dmaPos < dmaLen
        BY <1>2, <2>2 DEF Tx!DmaFeeds
      <3> QED
        <4>1. ~streamOn' => dmaPos' = dmaLen'
          <5>1. ~streamOn' => ~(dmaPos + 1 < dmaLen)
            BY <3>1
          <5>2. ~(dmaPos + 1 < dmaLen) => dmaPos + 1 = dmaLen
            BY <1>2, <3>1
          <5> QED
            BY <3>1, <5>1, <5>2
        <4> QED
          BY <4>1 DEF AllMoved
    <2>3. CASE Tx!ReadFirst \/ Tx!SetUp \/ Tx!TakeNotification \/ Tx!TurnRound
      BY <2>3 DEF AllMoved, Tx!ReadFirst, Tx!SetUp, Tx!TakeNotification, Tx!TurnRound
    <2>4. CASE Tx!ReadNext \/ Tx!ShiftStarts
      BY <2>4 DEF AllMoved, Tx!ReadNext, Tx!ShiftStarts, Tx!dmaVars
    <2> QED
      BY <1>3, <2>1, <2>2, <2>3, <2>4 DEF Transmit, Tx!txFunc
  <1>4. CASE ~Transmit
    <2>1. UNCHANGED <<txPc, streamOn, dmaPos, dmaLen>>
      BY <1>4 DEF Next, Produce, Tx!write, Interrupt, Tx!dmaTxCallback, Tx!uartTcCallback,
         Arrive, Tx!ShiftEnds, PeerAnswers, PeerSilent, CopyBytes, Consume, TimesOut, vars, txVars,
         Tx!dmaVars
    <2> QED
      BY <2>1 DEF AllMoved
  <1> QED
    BY <1>3, <1>4

LEMMA PartsOfTheLine ==
  ASSUME IInv
  PROVE  /\ dst \in Seq(Bytes) /\ rxStreamBuf \in Seq(Bytes) /\ delivered \in Seq(Bytes)
         /\ buf \in Seq(Bytes) /\ written \in 0 .. Len(buf)
         /\ shift \in Seq(Bytes) /\ dr \in Seq(Bytes)
         /\ txDmaBuf \in Seq(Bytes) /\ txMsgBuf \in Seq(Seq(Bytes))
         /\ Copy!Unwritten \in Seq(Bytes) /\ Tx!Unmoved \in Seq(Bytes)
         /\ FlattenSeq(txMsgBuf) \in Seq(Bytes)
         /\ dmaPos \in Nat /\ dmaLen \in Nat
         /\ txPc \in {"enable", "wait"} => dmaLen = Len(txDmaBuf)
         /\ txPc = "enable" => dmaPos = 0
         /\ streamOn => txPc = "wait" /\ dmaPos < dmaLen
         /\ notified => txPc = "wait" /\ ~streamOn
         /\ dmaPos <= dmaLen /\ dmaLen \in 0 .. TSize
  <1>1. /\ dst \in Seq(Bytes) /\ rxStreamBuf \in Seq(Bytes) /\ delivered \in Seq(Bytes)
        /\ buf \in Seq(Bytes) /\ written \in 0 .. Len(buf)
    BY DEF IInv, CopyTypes
  <1>2. /\ txDmaBuf \in Seq(Bytes) /\ txMsgBuf \in Seq(Seq(Bytes))
        /\ dmaPos \in 0 .. dmaLen /\ dmaLen \in 0 .. TSize
        /\ txPc \in {"read", "pack", "enable", "wait", "turn"}
    BY DEF IInv, TxInv, TxTypes, Tx!TypeOK
  <1>3. ASSUME NEW r \in {dr, shift}
        PROVE  r \in Seq(Bytes)
    <2>1. r = <<>> \/ \E b \in Bytes : r = <<b>>
      BY DEF IInv, TxInv, TxTypes, Tx!TypeOK
    <2>2. CASE r = <<>>
      BY <2>2, EmptySeq
    <2>3. CASE \E b \in Bytes : r = <<b>>
      BY <2>3
    <2> QED
      BY <2>1, <2>2, <2>3
  <1>4. /\ txPc \in {"enable", "wait"} => dmaLen = Len(txDmaBuf)
        /\ txPc = "enable" => dmaPos = 0
        /\ streamOn => txPc = "wait" /\ dmaPos < dmaLen
        /\ notified => txPc = "wait" /\ ~streamOn
    BY DEF IInv, TxInv, Transfer, EndKnownOnce
  <1>5. FlattenSeq(txMsgBuf) \in Seq(Bytes)
    BY <1>2, FlattenType
  <1>6. Copy!Unwritten \in Seq(Bytes)
    <2>1. written + 1 \in Nat \ {0} /\ Len(buf) \in 0 .. Len(buf)
      BY <1>1, LenProperties
    <2> QED
      BY <1>1, <2>1, Part DEF Copy!Unwritten
  <1>7. Tx!Unmoved \in Seq(Bytes)
    <2>1. CASE txPc = "wait"
      <3>1. dmaPos + 1 \in Nat \ {0} /\ dmaLen \in 0 .. Len(txDmaBuf)
        BY <1>2, <1>4, <2>1
      <3>2. Tx!Unmoved = SubSeq(txDmaBuf, dmaPos + 1, dmaLen)
        BY <2>1 DEF Tx!Unmoved
      <3> QED
        BY <1>2, <3>1, <3>2, Part
    <2>2. CASE txPc \in {"pack", "enable"}
      BY <1>2, <2>2 DEF Tx!Unmoved
    <2>3. CASE txPc \notin {"wait", "pack", "enable"}
      BY <2>3, EmptySeq DEF Tx!Unmoved
    <2> QED
      BY <2>1, <2>2, <2>3
  <1>8. dmaPos \in Nat /\ dmaLen \in Nat /\ dmaPos <= dmaLen
    BY <1>2
  <1> QED
    BY <1>1, <1>2, <1>3, <1>4, <1>5, <1>6, <1>7, <1>8

\* Sequences of bytes and how they are joined, as an algebra.
ByteStrings == Seq(Bytes)
Cat(s, t) == s \o t

LEMMA CatWord ==
  ASSUME NEW s \in Seq(Bytes), NEW t \in Seq(Bytes)
  PROVE  s \o t \in Seq(Bytes)
  BY ConcatProperties

LEMMA CatAssoc ==
  ASSUME NEW s \in Seq(Bytes), NEW t \in Seq(Bytes), NEW u \in Seq(Bytes)
  PROVE  (s \o t) \o u = s \o (t \o u)
  BY ConcatAssociative

LEMMA CatEmpty ==
  ASSUME NEW s \in Seq(Bytes)
  PROVE  s \o <<>> = s /\ <<>> \o s = s
  BY ConcatEmptySeq

LEMMA Algebra ==
  /\ <<>> \in ByteStrings
  /\ \A s, t \in ByteStrings : Cat(s, t) \in ByteStrings
  /\ \A s, t, u \in ByteStrings : Cat(Cat(s, t), u) = Cat(s, Cat(t, u))
  /\ \A s \in ByteStrings : Cat(s, <<>>) = s /\ Cat(<<>>, s) = s
  <1>1. <<>> \in ByteStrings
    BY EmptySeq DEF ByteStrings
  <1>2. ASSUME NEW s \in ByteStrings, NEW t \in ByteStrings
        PROVE  Cat(s, t) \in ByteStrings
    BY CatWord DEF ByteStrings, Cat
  <1>3. ASSUME NEW s \in ByteStrings, NEW t \in ByteStrings, NEW u \in ByteStrings
        PROVE  Cat(Cat(s, t), u) = Cat(s, Cat(t, u))
    BY CatAssoc DEF ByteStrings, Cat
  <1>4. ASSUME NEW s \in ByteStrings
        PROVE  Cat(s, <<>>) = s /\ Cat(<<>>, s) = s
    BY CatEmpty DEF ByteStrings, Cat
  <1> QED
    BY <1>1, <1>2, <1>3, <1>4

\* How the line is put together.
Uart(s, d, u) == Cat(Cat(s, d), u)
Line(a, b, c, u, f) == Cat(Cat(Cat(Cat(a, b), c), u), f)

LEMMA OnTheWayIs ==
  OnTheWay = Line(dst, Copy!Unwritten, rxStreamBuf, Uart(shift, dr, Tx!Unmoved),
                  FlattenSeq(txMsgBuf))
  BY DEF OnTheWay, InUart, Line, Uart, Cat

LEMMA UartMoves ==
  ASSUME NEW s \in ByteStrings, NEW d \in ByteStrings, NEW u \in ByteStrings
  PROVE  /\ Uart(s, d, u) \in ByteStrings
         /\ Uart(s, <<>>, Cat(d, u)) = Uart(s, d, u)
         /\ Uart(<<>>, d, u) = Uart(d, <<>>, u)
         /\ Uart(s, d, u) = Cat(s, Uart(<<>>, d, u))
         /\ \A k \in ByteStrings : Cat(Uart(s, d, u), k) = Uart(s, d, Cat(u, k))
  <1>1. <<>> \in ByteStrings /\ Cat(s, d) \in ByteStrings /\ Cat(d, u) \in ByteStrings
        /\ Cat(s, <<>>) = s /\ Cat(<<>>, d) = d /\ Cat(d, <<>>) = d
    BY Algebra
  <1>2. Uart(s, d, u) \in ByteStrings
    BY <1>1, Algebra DEF Uart
  <1>3. Cat(Cat(s, d), u) = Cat(s, Cat(d, u))
    BY Algebra
  <1>4. Uart(s, <<>>, Cat(d, u)) = Uart(s, d, u)
    BY <1>1, <1>3 DEF Uart
  <1>5. Uart(<<>>, d, u) = Uart(d, <<>>, u) /\ Uart(s, d, u) = Cat(s, Uart(<<>>, d, u))
    BY <1>1, <1>3 DEF Uart
  <1>6. ASSUME NEW k \in ByteStrings
        PROVE  Cat(Uart(s, d, u), k) = Uart(s, d, Cat(u, k))
    <2>1. Cat(Cat(Cat(s, d), u), k) = Cat(Cat(s, d), Cat(u, k))
      BY <1>1, Algebra
    <2> QED
      BY <2>1 DEF Uart
  <1> QED
    BY <1>2, <1>4, <1>5, <1>6

LineWords(a, b, c, u, f, k) ==
  a \in ByteStrings /\ b \in ByteStrings /\ c \in ByteStrings /\ u \in ByteStrings /\ f \in ByteStrings /\ k \in ByteStrings

\* Bytes move from one part of the line to the one before it: the UART takes a
\* message, the far end a byte of the UART, the Coupling a chunk and its
\* destination a piece of that; what is written goes behind, what is read was
\* in front.
LEMMA LineMoves ==
  \A a, b, c, u, f, k : LineWords(a, b, c, u, f, k) =>
    /\ Line(a, b, c, u, f) \in ByteStrings
    /\ Line(a, b, c, u, Cat(k, f)) = Line(a, b, c, Cat(u, k), f)
    /\ Line(a, b, c, Cat(k, u), f) = Line(a, b, Cat(c, k), u, f)
    /\ Line(a, <<>>, Cat(k, c), u, f) = Line(a, k, c, u, f)
    /\ Line(a, Cat(k, b), c, u, f) = Line(Cat(a, k), b, c, u, f)
    /\ Line(a, b, c, u, Cat(f, k)) = Cat(Line(a, b, c, u, f), k)
    /\ Line(Cat(k, a), b, c, u, f) = Cat(k, Line(a, b, c, u, f))
  <1> SUFFICES ASSUME NEW a, NEW b, NEW c, NEW u, NEW f, NEW k, LineWords(a, b, c, u, f, k)
               PROVE  /\ Line(a, b, c, u, f) \in ByteStrings
                      /\ Line(a, b, c, u, Cat(k, f)) = Line(a, b, c, Cat(u, k), f)
                      /\ Line(a, b, c, Cat(k, u), f) = Line(a, b, Cat(c, k), u, f)
                      /\ Line(a, <<>>, Cat(k, c), u, f) = Line(a, k, c, u, f)
                      /\ Line(a, Cat(k, b), c, u, f) = Line(Cat(a, k), b, c, u, f)
                      /\ Line(a, b, c, u, Cat(f, k)) = Cat(Line(a, b, c, u, f), k)
                      /\ Line(Cat(k, a), b, c, u, f) = Cat(k, Line(a, b, c, u, f))
    OBVIOUS
  <1> DEFINE p == Cat(a, b)
             q == Cat(p, c)
             r == Cat(q, u)
  <1>1. a \in ByteStrings /\ b \in ByteStrings /\ c \in ByteStrings /\ u \in ByteStrings /\ f \in ByteStrings /\ k \in ByteStrings
    BY DEF LineWords
  <1>2. p \in ByteStrings /\ q \in ByteStrings /\ r \in ByteStrings
    BY <1>1, Algebra
  <1>3. Cat(Cat(k, a), b) = Cat(k, p) /\ Cat(a, Cat(k, b)) = Cat(Cat(a, k), b)
        /\ Cat(Cat(a, <<>>), Cat(k, c)) = Cat(Cat(a, k), c)
    BY <1>1, Algebra
  <1> HIDE DEF p
  <1>4. Cat(Cat(k, p), c) = Cat(k, q) /\ Cat(Cat(p, c), k) = Cat(p, Cat(c, k))
    BY <1>1, <1>2, Algebra
  <1> HIDE DEF q
  <1>5. Cat(Cat(k, q), u) = Cat(k, r) /\ Cat(q, Cat(k, u)) = Cat(Cat(q, k), u)
        /\ Cat(q, Cat(u, k)) = Cat(r, k)
    BY <1>1, <1>2, Algebra
  <1> HIDE DEF r
  <1>6. /\ Cat(r, f) \in ByteStrings /\ Cat(Cat(k, r), f) = Cat(k, Cat(r, f))
        /\ Cat(r, Cat(k, f)) = Cat(Cat(r, k), f) /\ Cat(r, Cat(f, k)) = Cat(Cat(r, f), k)
    BY <1>1, <1>2, Algebra
  <1>7. Line(a, b, c, u, f) = Cat(r, f)
    BY DEF Line, p, q, r
  <1>8. Line(a, b, c, u, Cat(k, f)) = Line(a, b, c, Cat(u, k), f)
    BY <1>5, <1>6 DEF Line, p, q, r
  <1>9. Line(a, b, c, Cat(k, u), f) = Line(a, b, Cat(c, k), u, f)
    BY <1>4, <1>5 DEF Line, p, q
  <1>10. /\ Line(a, <<>>, Cat(k, c), u, f) = Line(a, k, c, u, f)
         /\ Line(a, Cat(k, b), c, u, f) = Line(Cat(a, k), b, c, u, f)
    BY <1>3 DEF Line
  <1>11. Line(a, b, c, u, Cat(f, k)) = Cat(Line(a, b, c, u, f), k)
    BY <1>6 DEF Line, p, q, r
  <1>12. Line(Cat(k, a), b, c, u, f) = Cat(k, Line(a, b, c, u, f))
    BY <1>3, <1>4, <1>5, <1>6 DEF Line, p, q, r
  <1> QED
    BY <1>6, <1>7, <1>8, <1>9, <1>10, <1>11, <1>12

LEMMA CutBehind ==
  ASSUME NEW s \in Seq(Bytes), NEW t \in Seq(Bytes)
  PROVE  /\ SubSeq(s \o t, 1, Len(s)) = s
         /\ SubSeq(s \o t, Len(s) + 1, Len(s \o t)) = t
         /\ s \o t \in Seq(Bytes) /\ Len(s \o t) = Len(s) + Len(t)
         /\ Len(s) \in Nat /\ Len(t) \in Nat
  <1>1. /\ s \o t \in Seq(Bytes) /\ Len(s \o t) = Len(s) + Len(t)
        /\ \A i \in 1 .. Len(s) + Len(t) :
             (s \o t)[i] = IF i <= Len(s) THEN s[i] ELSE t[i - Len(s)]
        /\ Len(s) \in Nat /\ Len(t) \in Nat
    BY ConcatProperties, LenProperties
  <1> DEFINE st == s \o t
             one == SubSeq(st, 1, Len(s))
             two == SubSeq(st, Len(s) + 1, Len(st))
  <1>2. \A i \in 1 .. Len(st) : st[i] \in Bytes
    BY <1>1, ElementOfSeq
  <1> HIDE DEF st
  <1>3. /\ one \in Seq(Bytes) /\ Len(one) = Len(s)
        /\ \A i \in 1 .. Len(s) : one[i] = st[i]
    <2>1. \A i \in 1 .. Len(s) : st[i] \in Bytes
      BY <1>1, <1>2 DEF st
    <2>2. Len(s) \in Int /\ Len(s) - 1 + 1 = Len(s) /\ (1 > Len(s) => Len(s) = 0)
      BY <1>1
    <2>3. /\ one \in Seq(Bytes) /\ Len(one) = (IF 1 <= Len(s) THEN Len(s) - 1 + 1 ELSE 0)
          /\ \A i \in 1 .. Len(s) - 1 + 1 : one[i] = st[1 + i - 1]
      BY <2>1, <2>2, SubSeqProperties
    <2> QED
      BY <1>1, <2>2, <2>3
  <1>4. /\ two \in Seq(Bytes) /\ Len(two) = Len(t)
        /\ \A i \in 1 .. Len(t) : two[i] = st[Len(s) + i]
    <2> DEFINE m == Len(s) + 1
               n == Len(st)
    <2>1. m \in Int /\ n \in Int /\ n = Len(s) + Len(t)
      BY <1>1 DEF st
    <2>2. \A i \in m .. n : st[i] \in Bytes
      BY <1>1, <1>2, <2>1
    <2>3. /\ two \in Seq(Bytes) /\ Len(two) = (IF m <= n THEN n - m + 1 ELSE 0)
          /\ \A i \in 1 .. n - m + 1 : two[i] = st[m + i - 1]
      <3> HIDE DEF m, n
      <3>1. /\ SubSeq(st, m, n) \in Seq(Bytes)
            /\ Len(SubSeq(st, m, n)) = (IF m <= n THEN n - m + 1 ELSE 0)
            /\ \A i \in 1 .. n - m + 1 : SubSeq(st, m, n)[i] = st[m + i - 1]
        BY <2>1, <2>2, SubSeqProperties
      <3> QED
        BY <3>1 DEF m, n
    <2> HIDE DEF two
    <2>4. n - m + 1 = Len(t) /\ (m <= n <=> 1 <= Len(t)) /\ (\A i \in 1 .. Len(t) : m + i - 1 = Len(s) + i)
      BY <1>1, <2>1
    <2> HIDE DEF m, n
    <2> QED
      BY <1>1, <2>3, <2>4
  <1> HIDE DEF one, two
  <1>5. one = s
    <2>1. \A i \in 1 .. Len(s) : one[i] = s[i]
      BY <1>1, <1>3 DEF st
    <2> QED
      BY <1>3, <2>1, SeqEqual
  <1>6. two = t
    <2>1. \A i \in 1 .. Len(t) : two[i] = t[i]
      BY <1>1, <1>4 DEF st
    <2> QED
      BY <1>4, <2>1, SeqEqual
  <1> QED
    BY <1>1, <1>5, <1>6 DEF one, two, st

\* The line as a function of what the transmit side changes.
OutOfUart == Line(dst, Copy!Unwritten, rxStreamBuf, Uart(shift, dr, Tx!Unmoved),
                  FlattenSeq(txMsgBuf))

LEMMA WordsOfTheLine ==
  ASSUME IInv
  PROVE  /\ dst \in ByteStrings /\ Copy!Unwritten \in ByteStrings /\ rxStreamBuf \in ByteStrings
         /\ shift \in ByteStrings /\ dr \in ByteStrings /\ Tx!Unmoved \in ByteStrings
         /\ FlattenSeq(txMsgBuf) \in ByteStrings /\ txDmaBuf \in ByteStrings
         /\ Uart(shift, dr, Tx!Unmoved) \in ByteStrings
  <1>1. /\ dst \in ByteStrings /\ Copy!Unwritten \in ByteStrings /\ rxStreamBuf \in ByteStrings
        /\ shift \in ByteStrings /\ dr \in ByteStrings /\ Tx!Unmoved \in ByteStrings
        /\ FlattenSeq(txMsgBuf) \in ByteStrings /\ txDmaBuf \in ByteStrings
    BY PartsOfTheLine DEF ByteStrings
  <1> QED
    BY <1>1, UartMoves

LEMMA FirstMessage ==
  ASSUME IInv, txMsgBuf # <<>>
  PROVE  /\ Head(txMsgBuf) \in ByteStrings /\ FlattenSeq(Tail(txMsgBuf)) \in ByteStrings
         /\ FlattenSeq(txMsgBuf) = Cat(Head(txMsgBuf), FlattenSeq(Tail(txMsgBuf)))
  <1>1. txMsgBuf \in Seq(Seq(Bytes))
    BY PartsOfTheLine
  <1>2. Head(txMsgBuf) \in Seq(Bytes) /\ Tail(txMsgBuf) \in Seq(Seq(Bytes))
    BY <1>1, HeadTailProperties
  <1>3. FlattenSeq(Tail(txMsgBuf)) \in Seq(Bytes)
    BY <1>2, FlattenType
  <1>4. FlattenSeq(txMsgBuf) = Head(txMsgBuf) \o FlattenSeq(Tail(txMsgBuf))
    BY <1>1, FlattenHead
  <1> QED
    BY <1>2, <1>3, <1>4 DEF ByteStrings, Cat

\* A message that is packed stays on the line.
LEMMA PackKeeps ==
  ASSUME IInv, Tx!ReadFirst \/ Tx!ReadNext
  PROVE  Line(dst, Copy!Unwritten, rxStreamBuf, Uart(shift, dr, Tx!Unmoved'),
              FlattenSeq(txMsgBuf')) = OutOfUart
  <1>1. txMsgBuf # <<>> /\ txMsgBuf' = Tail(txMsgBuf)
    BY DEF Tx!ReadFirst, Tx!ReadNext, Tx!NextFits
  <1>2. Tx!Unmoved' = Cat(Tx!Unmoved, Head(txMsgBuf))
    <2>1. CASE Tx!ReadFirst
      <3>1. Tx!Unmoved = <<>> /\ Tx!Unmoved' = Head(txMsgBuf)
        BY <2>1 DEF Tx!ReadFirst, Tx!Unmoved
      <3> QED
        BY <1>1, <3>1, FirstMessage, Algebra
    <2>2. CASE Tx!ReadNext
      BY <2>2 DEF Tx!ReadNext, Tx!Unmoved, Cat
    <2> QED
      BY <2>1, <2>2
  <1> QED
    <2> DEFINE h == Head(txMsgBuf)
               f == FlattenSeq(Tail(txMsgBuf))
               u == Tx!Unmoved
    <2>1. h \in ByteStrings /\ f \in ByteStrings /\ u \in ByteStrings /\ FlattenSeq(txMsgBuf) = Cat(h, f)
          /\ FlattenSeq(txMsgBuf') = f /\ Tx!Unmoved' = Cat(u, h)
      BY <1>1, <1>2, FirstMessage, WordsOfTheLine
    <2>2. OutOfUart = Line(dst, Copy!Unwritten, rxStreamBuf, Uart(shift, dr, u), Cat(h, f))
      BY <2>1 DEF OutOfUart
    <2> HIDE DEF h, f, u
    <2>a. LineWords(dst, Copy!Unwritten, rxStreamBuf, Uart(shift, dr, u), f, h)
          /\ Cat(Uart(shift, dr, u), h) = Uart(shift, dr, Cat(u, h))
      <3>1. shift \in ByteStrings /\ dr \in ByteStrings /\ dst \in ByteStrings /\ Copy!Unwritten \in ByteStrings
            /\ rxStreamBuf \in ByteStrings
        BY WordsOfTheLine
      <3>2. h \in ByteStrings /\ f \in ByteStrings /\ u \in ByteStrings
        BY <2>1
      <3>3. Uart(shift, dr, u) \in ByteStrings
            /\ Cat(Uart(shift, dr, u), h) = Uart(shift, dr, Cat(u, h))
        BY <3>1, <3>2, UartMoves
      <3> QED
        BY <3>1, <3>2, <3>3 DEF LineWords
    <2>3. Line(dst, Copy!Unwritten, rxStreamBuf, Uart(shift, dr, u), Cat(h, f)) =
            Line(dst, Copy!Unwritten, rxStreamBuf, Cat(Uart(shift, dr, u), h), f)
      BY <2>a, LineMoves
    <2> QED
      BY <2>1, <2>2, <2>3, <2>a

\* Setting a transfer up and taking note of its end move no byte.
LEMMA TaskKeeps ==
  ASSUME IInv, AllMoved,
         Tx!SetUp \/ Tx!EnableStream \/ Tx!TakeNotification \/ Tx!TurnRound
  PROVE  Tx!Unmoved' = Tx!Unmoved
  <1>1. /\ txDmaBuf \in Seq(Bytes) /\ (streamOn => txPc = "wait")
        /\ (txPc \in {"enable", "wait"} => dmaLen = Len(txDmaBuf))
        /\ (txPc = "enable" => dmaPos = 0) /\ dmaPos \in Nat /\ dmaLen \in Nat
        /\ (notified => txPc = "wait" /\ ~streamOn)
    BY PartsOfTheLine
  <1>2. CASE Tx!SetUp
    BY <1>1, <1>2 DEF Tx!SetUp, Tx!Unmoved
  <1>3. CASE Tx!EnableStream
    <2>1. Tx!Unmoved = txDmaBuf /\ Tx!Unmoved' = SubSeq(txDmaBuf, dmaPos + 1, dmaLen)
      BY <1>3 DEF Tx!EnableStream, Tx!Unmoved
    <2>2. dmaPos + 1 = 1 /\ dmaLen = Len(txDmaBuf)
      BY <1>1, <1>3 DEF Tx!EnableStream
    <2>3. SubSeq(txDmaBuf, 1, Len(txDmaBuf)) = txDmaBuf
      BY <1>1, SubSeqFull
    <2> QED
      BY <2>1, <2>2, <2>3
  <1>4. CASE Tx!TakeNotification
    <2>1. Tx!Unmoved = SubSeq(txDmaBuf, dmaPos + 1, dmaLen) /\ Tx!Unmoved' = <<>>
      BY <1>4 DEF Tx!TakeNotification, Tx!Unmoved
    <2>2. dmaPos + 1 \in Int /\ dmaLen \in Int /\ dmaLen < dmaPos + 1
      BY <1>1, <1>4 DEF AllMoved, Tx!TakeNotification
    <2>3. SubSeq(txDmaBuf, dmaPos + 1, dmaLen) = <<>>
      BY <2>2, SubSeqEmpty
    <2> QED
      BY <2>1, <2>3
  <1>5. CASE Tx!TurnRound
    BY <1>5 DEF Tx!TurnRound, Tx!Unmoved
  <1> QED
    BY <1>2, <1>3, <1>4, <1>5

\* The hardware moves bytes without losing or swapping one.
LEMMA HardwareKeeps ==
  ASSUME IInv, Tx!DmaFeeds \/ Tx!ShiftStarts
  PROVE  Uart(shift', dr', Tx!Unmoved') = Uart(shift, dr, Tx!Unmoved)
  <1>1. CASE Tx!DmaFeeds
    <2> DEFINE b == txDmaBuf[dmaPos + 1]
    <2>1. /\ txPc = "wait" /\ dmaPos < dmaLen /\ txDmaBuf \in Seq(Bytes)
          /\ dmaLen = Len(txDmaBuf) /\ dmaPos \in Nat /\ dmaLen \in Nat
      BY <1>1, PartsOfTheLine DEF Tx!DmaFeeds
    <2>2. /\ dr = <<>> /\ dr' = <<b>> /\ shift' = shift
          /\ txPc' = txPc /\ txDmaBuf' = txDmaBuf /\ dmaLen' = dmaLen /\ dmaPos' = dmaPos + 1
      BY <1>1 DEF Tx!DmaFeeds
    <2>3. dmaPos + 1 \in 1 .. Len(txDmaBuf) /\ dmaLen \in dmaPos + 1 .. Len(txDmaBuf)
      BY <2>1
    <2>4. /\ Tx!Unmoved = SubSeq(txDmaBuf, dmaPos + 1, dmaLen)
          /\ Tx!Unmoved' = SubSeq(txDmaBuf, (dmaPos + 1) + 1, dmaLen)
      BY <2>1, <2>2 DEF Tx!Unmoved
    <2>5. SubSeq(txDmaBuf, dmaPos + 1, dmaLen) =
            <<b>> \o SubSeq(txDmaBuf, (dmaPos + 1) + 1, dmaLen)
      BY <2>1, <2>3, SubSeqRecursiveFirst
    <2>6. <<b>> \in ByteStrings
      <3>1. b \in Bytes
        BY <2>1, <2>3, ElementOfSeq
      <3> HIDE DEF b
      <3> QED
        BY <3>1 DEF ByteStrings
    <2>7. SubSeq(txDmaBuf, (dmaPos + 1) + 1, dmaLen) \in ByteStrings
      <3>1. (dmaPos + 1) + 1 \in Nat \ {0} /\ dmaLen \in 0 .. Len(txDmaBuf)
        BY <2>1
      <3> QED
        BY <2>1, <3>1, Part DEF ByteStrings
    <2> HIDE DEF b
    <2>8. Tx!Unmoved = Cat(dr', Tx!Unmoved') /\ dr' \in ByteStrings /\ Tx!Unmoved' \in ByteStrings
      BY <2>2, <2>4, <2>5, <2>6, <2>7 DEF Cat
    <2> QED
      BY <2>2, <2>8, WordsOfTheLine, UartMoves
  <1>2. CASE Tx!ShiftStarts
    <2>1. shift = <<>> /\ shift' = dr /\ dr' = <<>>
      BY <1>2 DEF Tx!ShiftStarts
    <2>2. Tx!Unmoved' = Tx!Unmoved
      BY <1>2 DEF Tx!ShiftStarts, Tx!Unmoved, Tx!dmaVars
    <2> QED
      BY <2>1, <2>2, WordsOfTheLine, UartMoves
  <1> QED
    BY <1>1, <1>2

LEMMA TransmitKeeps ==
  ASSUME IInv, AllMoved, Transmit
  PROVE  OnTheWay' = OnTheWay /\ delivered' = delivered
  <1>1. /\ rxStreamBuf' = rxStreamBuf /\ dst' = dst /\ delivered' = delivered
        /\ Copy!Unwritten' = Copy!Unwritten
    BY DEF Transmit, copyVars, Copy!Unwritten
  <1>2. OutOfUart' = OutOfUart
    <2>1. CASE Tx!ReadFirst \/ Tx!ReadNext
      <3>1. shift' = shift /\ dr' = dr
        BY <2>1 DEF Tx!ReadFirst, Tx!ReadNext, Tx!uartVars
      <3> QED
        BY <1>1, <2>1, <3>1, PackKeeps DEF OutOfUart
    <2>2. CASE Tx!SetUp \/ Tx!EnableStream \/ Tx!TakeNotification \/ Tx!TurnRound
      <3>1. shift' = shift /\ dr' = dr /\ txMsgBuf' = txMsgBuf
        BY <2>2 DEF Tx!SetUp, Tx!EnableStream, Tx!TakeNotification, Tx!TurnRound, Tx!uartVars
      <3> QED
        BY <1>1, <2>2, <3>1, TaskKeeps DEF OutOfUart
    <2>3. CASE Tx!DmaFeeds \/ Tx!ShiftStarts
      <3>1. txMsgBuf' = txMsgBuf
        BY <2>3 DEF Tx!DmaFeeds, Tx!ShiftStarts
      <3> QED
        BY <1>1, <2>3, <3>1, HardwareKeeps DEF OutOfUart
    <2> QED
      BY <2>1, <2>2, <2>3 DEF Transmit, Tx!txFunc
  <1> QED
    BY <1>1, <1>2, OnTheWayIs DEF OnTheWay, InUart, OutOfUart, Line, Uart, Cat

LEMMA InterruptKeeps ==
  ASSUME Interrupt
  PROVE  OnTheWay' = OnTheWay /\ delivered' = delivered
  BY DEF Interrupt, Tx!dmaTxCallback, Tx!uartTcCallback, OnTheWay, InUart, Tx!Unmoved,
     Copy!Unwritten, copyVars, Tx!dmaVars, Tx!uartVars

LEMMA ArriveKeeps ==
  ASSUME IInv, Arrive
  PROVE  OnTheWay' = OnTheWay /\ delivered' = delivered
  <1>1. /\ rxStreamBuf' = Cat(rxStreamBuf, shift) /\ shift' = <<>> /\ dr' = dr
        /\ dst' = dst /\ delivered' = delivered /\ txMsgBuf' = txMsgBuf
        /\ Copy!Unwritten' = Copy!Unwritten /\ Tx!Unmoved' = Tx!Unmoved
    BY DEF Arrive, Tx!ShiftEnds, Tx!dmaVars, Tx!Unmoved, copyVars, Copy!Unwritten, Cat
  <1>2. OnTheWay' = Line(dst, Copy!Unwritten, Cat(rxStreamBuf, shift),
                         Uart(<<>>, dr, Tx!Unmoved), FlattenSeq(txMsgBuf))
    BY <1>1 DEF OnTheWay, InUart, Line, Uart, Cat
  <1> QED
    <2> DEFINE u == Uart(<<>>, dr, Tx!Unmoved)
               f == FlattenSeq(txMsgBuf)
    <2>1. LineWords(dst, Copy!Unwritten, rxStreamBuf, u, f, shift)
          /\ Uart(shift, dr, Tx!Unmoved) = Cat(shift, u)
      BY WordsOfTheLine, UartMoves, Algebra DEF LineWords
    <2> HIDE DEF u, f
    <2>2. Line(dst, Copy!Unwritten, rxStreamBuf, Cat(shift, u), f) =
            Line(dst, Copy!Unwritten, Cat(rxStreamBuf, shift), u, f)
      BY <2>1, LineMoves
    <2> QED
      BY <1>1, <1>2, <2>1, <2>2, OnTheWayIs DEF u, f

LEMMA CopyKeeps ==
  ASSUME IInv, CopyBytes
  PROVE  OnTheWay' = OnTheWay /\ delivered' = delivered
  <1> DEFINE u == Uart(shift, dr, Tx!Unmoved)
             f == FlattenSeq(txMsgBuf)
  <1>0. /\ UNCHANGED <<txMsgBuf, txDmaBuf, txPc, dmaPos, dmaLen, shift, dr, delivered>>
    BY DEF CopyBytes, txVars
  <1>1. Tx!Unmoved' = Tx!Unmoved
    BY <1>0 DEF Tx!Unmoved
  <1>2. OnTheWay' = Line(dst', Copy!Unwritten', rxStreamBuf', u, f)
    BY <1>0, <1>1 DEF OnTheWay, InUart, Line, Uart, Cat
  <1>3. OnTheWay = Line(dst, Copy!Unwritten, rxStreamBuf, u, f)
    BY OnTheWayIs
  <1>4. u \in ByteStrings /\ f \in ByteStrings
    BY WordsOfTheLine
  <1> HIDE DEF u, f
  <1>5. /\ Len(buf) \in Nat /\ Len(dst) \in Nat /\ Len(rxStreamBuf) \in Nat
        /\ BufSize \in Nat \ {0} /\ DstSize \in Nat \ {0}
        /\ written \in 0 .. Len(buf)
    BY PartsOfTheLine, LenProperties, SizesAssumption
  <1>6. CASE Copy!Read
    <2> DEFINE len == Copy!Smaller(BufSize, Len(rxStreamBuf))
               k == SubSeq(rxStreamBuf, 1, len)
               c == SubSeq(rxStreamBuf, len + 1, Len(rxStreamBuf))
    <2>1. rxStreamBuf # <<>> /\ written = Len(buf)
          /\ buf' = k /\ rxStreamBuf' = c /\ written' = 0 /\ dst' = dst
      BY <1>6 DEF Copy!Read
    <2>2. rxStreamBuf \in Seq(Bytes) /\ Len(rxStreamBuf) >= 1
      BY <1>5, <2>1, PartsOfTheLine, EmptySeq
    <2>3. len \in 1 .. Len(rxStreamBuf)
      BY <1>5, <2>2 DEF Copy!Smaller
    <2> HIDE DEF len
    <2>4. k \in Seq(Bytes) /\ c \in Seq(Bytes)
      <3>1. len + 1 \in Nat \ {0} /\ Len(rxStreamBuf) \in 0 .. Len(rxStreamBuf)
            /\ len \in 0 .. Len(rxStreamBuf)
        BY <1>5, <2>3
      <3> QED
        BY <2>2, <3>1, Part
    <2>5. k \o c = rxStreamBuf
      <3>1. /\ 1 \in 1 .. Len(rxStreamBuf) + 1 /\ len \in 1 - 1 .. Len(rxStreamBuf)
            /\ Len(rxStreamBuf) \in len .. Len(rxStreamBuf)
        BY <1>5, <2>3
      <3>2. k \o c = SubSeq(rxStreamBuf, 1, Len(rxStreamBuf))
        BY <2>2, <3>1, ConcatAdjacentSubSeq
      <3> QED
        BY <2>2, <3>2, SubSeqFull
    <2> HIDE DEF k, c
    <2>6. Copy!Unwritten = <<>>
      <3>1. written + 1 \in Int /\ Len(buf) \in Int /\ Len(buf) < written + 1
        BY <1>5, <2>1
      <3> QED
        BY <3>1, SubSeqEmpty DEF Copy!Unwritten
    <2>7. Copy!Unwritten' = k
      <3>1. Copy!Unwritten' = SubSeq(k, 1, Len(k))
        BY <2>1 DEF Copy!Unwritten
      <3> QED
        BY <2>4, <3>1, SubSeqFull
    <2>8. k \in ByteStrings /\ c \in ByteStrings /\ rxStreamBuf = Cat(k, c)
      BY <2>4, <2>5 DEF ByteStrings, Cat
    <2> QED
      <3>1. LineWords(dst, k, c, u, f, k)
        BY <1>4, <2>8, WordsOfTheLine DEF LineWords
      <3>2. Line(dst, <<>>, Cat(k, c), u, f) = Line(dst, k, c, u, f)
        BY <3>1, LineMoves
      <3> QED
        BY <1>0, <1>2, <1>3, <2>1, <2>6, <2>7, <2>8, <3>2
  <1>7. CASE Copy!Write
    <2> DEFINE n == Copy!Smaller(Len(buf) - written, DstSize - Len(dst))
               k == SubSeq(buf, written + 1, written + n)
               b == SubSeq(buf, written + n + 1, Len(buf))
    <2>1. /\ written < Len(buf) /\ Len(dst) < DstSize
          /\ dst' = dst \o k /\ written' = written + n /\ buf' = buf /\ rxStreamBuf' = rxStreamBuf
      BY <1>7 DEF Copy!Write
    <2>2. n \in 1 .. Len(buf) - written
      BY <1>5, <2>1 DEF Copy!Smaller
    <2> HIDE DEF n
    <2>3. buf \in Seq(Bytes)
      BY PartsOfTheLine
    <2>4. k \in Seq(Bytes) /\ b \in Seq(Bytes)
      <3>1. written + 1 \in Nat \ {0} /\ written + n \in 0 .. Len(buf)
            /\ written + n + 1 \in Nat \ {0} /\ Len(buf) \in 0 .. Len(buf)
        BY <1>5, <2>2
      <3> QED
        BY <2>3, <3>1, Part
    <2>5. Copy!Unwritten = k \o b
      <3>1. /\ written + 1 \in 1 .. Len(buf) + 1 /\ written + n \in (written + 1) - 1 .. Len(buf)
            /\ Len(buf) \in written + n .. Len(buf)
        BY <1>5, <2>2
      <3>2. k \o b = SubSeq(buf, written + 1, Len(buf))
        BY <2>3, <3>1, ConcatAdjacentSubSeq
      <3> QED
        BY <3>2 DEF Copy!Unwritten
    <2>6. Copy!Unwritten' = b
      BY <2>1 DEF Copy!Unwritten
    <2> HIDE DEF k, b
    <2>7. k \in ByteStrings /\ b \in ByteStrings /\ Copy!Unwritten = Cat(k, b) /\ dst' = Cat(dst, k)
      BY <2>1, <2>4, <2>5 DEF ByteStrings, Cat
    <2> QED
      <3>1. LineWords(dst, b, rxStreamBuf, u, f, k)
        BY <1>4, <2>7, WordsOfTheLine DEF LineWords
      <3>2. Line(dst, Cat(k, b), rxStreamBuf, u, f) = Line(Cat(dst, k), b, rxStreamBuf, u, f)
        BY <3>1, LineMoves
      <3> QED
        BY <1>0, <1>2, <1>3, <2>1, <2>6, <2>7, <3>2
  <1> QED
    BY <1>6, <1>7 DEF CopyBytes, Copy!func

\* A message that is written is accepted behind everything that is on its way.
LEMMA ProduceAccepts ==
  ASSUME IInv, Produce
  PROVE  Channel!Accept
  <1> DEFINE m == Message(sequenceNum + 1)
  <1>1. m \in Seq(Bytes)
    BY NextMessage DEF Produce, IInv, Short
  <1> HIDE DEF m
  <1>2. /\ txMsgBuf' = Append(txMsgBuf, m) /\ delivered' = delivered
        /\ UNCHANGED <<txDmaBuf, txPc, dmaPos, dmaLen, shift, dr, rxStreamBuf, dst, buf, written>>
    BY DEF Produce, Tx!write, Tx!dmaVars, Tx!uartVars, copyVars, m
  <1>3. Tx!Unmoved' = Tx!Unmoved /\ Copy!Unwritten' = Copy!Unwritten
    BY <1>2 DEF Tx!Unmoved, Copy!Unwritten
  <1>4. FlattenSeq(txMsgBuf') = Cat(FlattenSeq(txMsgBuf), m)
    BY <1>1, <1>2, PartsOfTheLine, FlattenAppend DEF Cat
  <1>5. OnTheWay' = Line(dst, Copy!Unwritten, rxStreamBuf, Uart(shift, dr, Tx!Unmoved),
                         Cat(FlattenSeq(txMsgBuf), m))
    BY <1>2, <1>3, <1>4 DEF OnTheWay, InUart, Line, Uart, Cat
  <1>6. m \in ByteStrings
    BY <1>1 DEF ByteStrings
  <1>7. OnTheWay' = Cat(OnTheWay, m) /\ OnTheWay \in ByteStrings
    <2> DEFINE u == Uart(shift, dr, Tx!Unmoved)
               f == FlattenSeq(txMsgBuf)
    <2>1. OnTheWay = Line(dst, Copy!Unwritten, rxStreamBuf, u, f)
          /\ OnTheWay' = Line(dst, Copy!Unwritten, rxStreamBuf, u, Cat(f, m))
      BY <1>5, OnTheWayIs
    <2>2. LineWords(dst, Copy!Unwritten, rxStreamBuf, u, f, m)
      BY <1>6, WordsOfTheLine DEF LineWords
    <2> HIDE DEF u, f
    <2>3. /\ Line(dst, Copy!Unwritten, rxStreamBuf, u, Cat(f, m)) =
               Cat(Line(dst, Copy!Unwritten, rxStreamBuf, u, f), m)
          /\ Line(dst, Copy!Unwritten, rxStreamBuf, u, f) \in ByteStrings
      BY <2>2, LineMoves
    <2> QED
      BY <2>1, <2>3
  <1>8. OnTheWay' = OnTheWay \o m /\ OnTheWay \in Seq(Bytes)
    BY <1>7 DEF ByteStrings, Cat
  <1>9. /\ OnTheWay' \in Seq(Bytes) /\ Len(OnTheWay) <= Len(OnTheWay')
        /\ OnTheWay = SubSeq(OnTheWay', 1, Len(OnTheWay))
    <2>1. /\ SubSeq(OnTheWay \o m, 1, Len(OnTheWay)) = OnTheWay /\ OnTheWay \o m \in Seq(Bytes)
          /\ Len(OnTheWay \o m) = Len(OnTheWay) + Len(m) /\ Len(OnTheWay) \in Nat /\ Len(m) \in Nat
      BY <1>1, <1>8, CutBehind
    <2> QED
      BY <1>8, <2>1
  <1> QED
    BY <1>2, <1>9 DEF Channel!Accept

\* What the reader takes is the beginning of what is on its way.
LEMMA ConsumeDelivers ==
  ASSUME IInv, Consume
  PROVE  Channel!Deliver
  <1>1. PICK n \in 1 .. Len(dst) : /\ delivered' = delivered \o SubSeq(dst, 1, n)
                                   /\ dst' = SubSeq(dst, n + 1, Len(dst))
    BY DEF Consume
  <1> DEFINE k == SubSeq(dst, 1, n)
             a == SubSeq(dst, n + 1, Len(dst))
             u == Uart(shift, dr, Tx!Unmoved)
             f == FlattenSeq(txMsgBuf)
             rest == Line(a, Copy!Unwritten, rxStreamBuf, u, f)
  <1>2. dst \in Seq(Bytes) /\ Len(dst) \in Nat
    BY PartsOfTheLine, LenProperties
  <1>3. k \in Seq(Bytes) /\ a \in Seq(Bytes) /\ Len(k) = n
    <2>1. n + 1 \in Nat \ {0} /\ Len(dst) \in 0 .. Len(dst) /\ n \in 0 .. Len(dst)
      BY <1>2
    <2>2. Len(k) = IF 1 <= n THEN n - 1 + 1 ELSE 0
      BY <1>2, <2>1, Part
    <2>3. n \in Nat /\ 1 <= n
      BY <1>2
    <2>4. Len(k) = n
      <3> HIDE DEF k
      <3> QED
        BY <2>2, <2>3
    <2> QED
      BY <1>2, <2>1, <2>4, Part
  <1>4. dst = k \o a
    <2>1. /\ 1 \in 1 .. Len(dst) + 1 /\ n \in 1 - 1 .. Len(dst) /\ Len(dst) \in n .. Len(dst)
      BY <1>2
    <2>2. k \o a = SubSeq(dst, 1, Len(dst))
      BY <1>2, <2>1, ConcatAdjacentSubSeq
    <2> QED
      BY <1>2, <2>2, SubSeqFull
  <1>5. Tx!Unmoved' = Tx!Unmoved /\ Copy!Unwritten' = Copy!Unwritten
    BY DEF Consume, txVars, Tx!Unmoved, Copy!Unwritten
  <1>6. OnTheWay' = rest
    BY <1>1, <1>5 DEF Consume, txVars, OnTheWay, InUart, Line, Uart, Cat
  <1>7. k \in ByteStrings /\ a \in ByteStrings /\ dst = Cat(k, a) /\ u \in ByteStrings /\ f \in ByteStrings
    BY <1>3, <1>4, WordsOfTheLine DEF ByteStrings, Cat
  <1>8. OnTheWay = Line(Cat(k, a), Copy!Unwritten, rxStreamBuf, u, f)
    BY <1>7, OnTheWayIs
  <1>9. dst' = a /\ delivered' = delivered \o k
    BY <1>1
  <1> HIDE DEF k, a, u, f
  <1>10. OnTheWay = Cat(k, rest) /\ rest \in ByteStrings
    <2>1. LineWords(a, Copy!Unwritten, rxStreamBuf, u, f, k)
      BY <1>7, WordsOfTheLine DEF LineWords
    <2>2. /\ Line(Cat(k, a), Copy!Unwritten, rxStreamBuf, u, f) =
               Cat(k, Line(a, Copy!Unwritten, rxStreamBuf, u, f))
          /\ Line(a, Copy!Unwritten, rxStreamBuf, u, f) \in ByteStrings
      BY <2>1, LineMoves
    <2> QED
      BY <1>8, <2>2 DEF rest
  <1> HIDE DEF rest
  <1>11. OnTheWay = k \o rest /\ rest \in Seq(Bytes)
    BY <1>10 DEF ByteStrings, Cat
  <1>12. /\ SubSeq(OnTheWay, 1, n) = k /\ SubSeq(OnTheWay, n + 1, Len(OnTheWay)) = rest
         /\ n \in 1 .. Len(OnTheWay)
    <2>1. /\ SubSeq(k \o rest, 1, Len(k)) = k
          /\ SubSeq(k \o rest, Len(k) + 1, Len(k \o rest)) = rest
          /\ Len(k \o rest) = Len(k) + Len(rest) /\ Len(rest) \in Nat
      BY <1>3, <1>11, CutBehind
    <2>2. n \in Nat /\ 1 <= n
      BY <1>2
    <2> QED
      BY <1>3, <1>11, <2>1, <2>2
  <1> QED
    BY <1>6, <1>9, <1>12 DEF Channel!Deliver

LEMMA ChannelStep ==
  ASSUME IInv, AllMoved, [Next]_vars
  PROVE  [Channel!Accept \/ Channel!Deliver]_<<OnTheWay, delivered>>
  <1>1. CASE Produce
    BY <1>1, ProduceAccepts
  <1>2. CASE Transmit \/ Interrupt \/ Arrive \/ CopyBytes
    BY <1>2, TransmitKeeps, InterruptKeeps, ArriveKeeps, CopyKeeps
  <1>3. CASE Consume
    BY <1>3, ConsumeDelivers
  <1>4. CASE PeerAnswers \/ PeerSilent \/ UNCHANGED vars
    BY <1>4 DEF PeerAnswers, PeerSilent, vars, txVars, copyVars, OnTheWay, InUart, Tx!Unmoved,
       Copy!Unwritten
  <1> QED
    BY <1>1, <1>2, <1>3, <1>4 DEF Next, TimesOut

\* The line from the writer of messages to the reader of bytes implements the
\* channel of ByteChannel: whatever the lengths of the messages and the sizes of
\* the five buffers on the way, each byte comes out once and in order, though
\* txFunc fills txDmaBuf while the UART still sends and Coupling's writes are cut.
THEOREM LineIsAChannel == Spec => ImplementsChannel
  <1>1. Init => Channel!ChannelInit
    <2> SUFFICES ASSUME Init
                 PROVE  OnTheWay = <<>> /\ delivered = <<>>
      BY DEF Channel!ChannelInit
    <2>1. /\ dst = <<>> /\ buf = <<>> /\ written = 0 /\ rxStreamBuf = <<>>
          /\ shift = <<>> /\ dr = <<>> /\ txPc = "read" /\ txMsgBuf = <<>> /\ delivered = <<>>
      BY DEF Init, Tx!Init, Copy!Init
    <2>2. Tx!Unmoved = <<>> /\ FlattenSeq(txMsgBuf) = <<>>
      BY <2>1, FlattenEmpty DEF Tx!Unmoved
    <2>3. Copy!Unwritten = <<>>
      <3>1. Copy!Unwritten = SubSeq(<<>>, 1, 0)
        BY <2>1, EmptySeq DEF Copy!Unwritten
      <3> QED
        BY <3>1, SubSeqEmpty
    <2>4. OnTheWay = Line(<<>>, <<>>, <<>>, Uart(<<>>, <<>>, <<>>), <<>>)
      BY <2>1, <2>2, <2>3, OnTheWayIs
    <2>5. Cat(<<>>, <<>>) = <<>>
      BY Algebra
    <2> QED
      BY <2>1, <2>4, <2>5 DEF Line, Uart
  <1>2. Init => AllMoved
    BY DEF Init, Tx!Init, AllMoved
  <1>3. IInv /\ AllMoved /\ [Next]_vars => AllMoved'
    BY AllMovedStep
  <1>4. IInv /\ AllMoved /\ [Next]_vars =>
          [Channel!Accept \/ Channel!Deliver]_<<OnTheWay, delivered>>
    BY ChannelStep
  <1> QED
    BY <1>1, <1>2, <1>3, <1>4, Invariance, PTL
       DEF Spec, ImplementsChannel, Channel!ChannelSpec, Channel!channelVars

-------------------------------------------------------------------------------
(* The Modbus driver and the simulated drive on a line (ModbusLink) *)

-------------------------------------------------------------------------------
(* The CRC of a frame *)

LEMMA WordIs ==
  ASSUME NEW n \in Words
  PROVE  n \in Nat /\ n <= 65535
  <1>1. UINT16_MAX \in Nat
    BY DEF UINT16_MAX
  <1>2. n \in Nat /\ n <= UINT16_MAX
    BY <1>1 DEF Words
  <1> QED
    BY <1>2 DEF UINT16_MAX

LEMMA IsWord ==
  ASSUME NEW n \in Nat, n <= 65535
  PROVE  n \in Words
  <1>1. UINT16_MAX \in Nat /\ n <= UINT16_MAX
    BY DEF UINT16_MAX
  <1> QED
    BY <1>1 DEF Words

LEMMA MaxIsWord == UINT16_MAX \in Words
  <1>1. UINT16_MAX \in Nat
    BY DEF UINT16_MAX
  <1> QED
    BY <1>1 DEF Words

LEMMA XorBitType ==
  ASSUME NEW x \in Byte, NEW byte \in Byte, NEW w \in {1, 2, 4, 8, 16, 32, 64, 128}
  PROVE  XorBit(x, byte, w) \in Byte
  <1>1. x \in Nat /\ x <= 255
    BY DEF Byte
  <1> DEFINE flipped == FlipBit(x, w)
  <1>2. flipped \in Nat /\ flipped <= 255
    <2>1. CASE w = 1
      BY <1>1, <2>1 DEF FlipBit
    <2>2. CASE w = 2
      BY <1>1, <2>2 DEF FlipBit
    <2>3. CASE w = 4
      BY <1>1, <2>3 DEF FlipBit
    <2>4. CASE w = 8
      BY <1>1, <2>4 DEF FlipBit
    <2>5. CASE w = 16
      BY <1>1, <2>5 DEF FlipBit
    <2>6. CASE w = 32
      BY <1>1, <2>6 DEF FlipBit
    <2>7. CASE w = 64
      BY <1>1, <2>7 DEF FlipBit
    <2>8. CASE w = 128
      BY <1>1, <2>8 DEF FlipBit
    <2> QED
      BY <2>1, <2>2, <2>3, <2>4, <2>5, <2>6, <2>7, <2>8
  <1> HIDE DEF flipped
  <1>3. flipped \in Byte
    BY <1>2 DEF Byte
  <1>4. XorBit(x, byte, w) \in {x, flipped}
    BY DEF XorBit, flipped
  <1> QED
    BY <1>3, <1>4

LEMMA XorByteType ==
  ASSUME NEW byte \in Byte, NEW x \in Byte
  PROVE  XorByte[byte][x] \in Byte
  <1> DEFINE x1 == XorBit(x, byte, 1)
             x2 == XorBit(x1, byte, 2)
             x3 == XorBit(x2, byte, 4)
             x4 == XorBit(x3, byte, 8)
             x5 == XorBit(x4, byte, 16)
             x6 == XorBit(x5, byte, 32)
             x7 == XorBit(x6, byte, 64)
             x8 == XorBit(x7, byte, 128)
  <1>1. x1 \in Byte
    BY XorBitType
  <1>2. x2 \in Byte
    BY <1>1, XorBitType
  <1>3. x3 \in Byte
    BY <1>2, XorBitType
  <1>4. x4 \in Byte
    BY <1>3, XorBitType
  <1>5. x5 \in Byte
    BY <1>4, XorBitType
  <1>6. x6 \in Byte
    BY <1>5, XorBitType
  <1>7. x7 \in Byte
    BY <1>6, XorBitType
  <1>8. x8 \in Byte
    BY <1>7, XorBitType
  <1>9. XorByte[byte][x] = x8
    BY DEF XorByte, Byte
  <1> QED
    BY <1>8, <1>9

LEMMA ShiftBitType ==
  ASSUME NEW reg \in Words
  PROVE  ShiftBit(reg) \in Words
  <1> DEFINE rest == reg \div 2
             r1 == FlipBit(rest, 32768)
             r2 == FlipBit(r1, 8192)
             r3 == FlipBit(r2, 1)
  <1>1. rest \in Nat /\ rest <= 32767
    BY WordIs
  <1>2. r1 \in Nat /\ r1 <= 65535
    <2> HIDE DEF rest
    <2> QED
      BY <1>1 DEF FlipBit
  <1>3. r2 \in Nat /\ r2 <= 65535
    <2> HIDE DEF r1
    <2> QED
      BY <1>2 DEF FlipBit
  <1>4. r3 \in Nat /\ r3 <= 65535
    <2> HIDE DEF r2
    <2> QED
      BY <1>3 DEF FlipBit
  <1>5. ShiftBit(reg) \in {rest, r3}
    BY DEF ShiftBit
  <1>6. rest <= 65535
    BY <1>1
  <1> HIDE DEF rest, r3
  <1>7. rest \in Words /\ r3 \in Words
    BY <1>1, <1>4, <1>6, IsWord
  <1> QED
    BY <1>5, <1>7

LEMMA ShiftByteType ==
  ASSUME NEW reg \in Words
  PROVE  ShiftByte[reg] \in Words
  <1> DEFINE r1 == ShiftBit(reg)
             r2 == ShiftBit(r1)
             r3 == ShiftBit(r2)
             r4 == ShiftBit(r3)
             r5 == ShiftBit(r4)
             r6 == ShiftBit(r5)
             r7 == ShiftBit(r6)
             r8 == ShiftBit(r7)
  <1>1. r1 \in Words
    BY ShiftBitType
  <1>2. r2 \in Words
    BY <1>1, ShiftBitType
  <1>3. r3 \in Words
    BY <1>2, ShiftBitType
  <1>4. r4 \in Words
    BY <1>3, ShiftBitType
  <1>5. r5 \in Words
    BY <1>4, ShiftBitType
  <1>6. r6 \in Words
    BY <1>5, ShiftBitType
  <1>7. r7 \in Words
    BY <1>6, ShiftBitType
  <1>8. r8 \in Words
    BY <1>7, ShiftBitType
  <1>9. ShiftByte[reg] = r8
    BY DEF ShiftByte
  <1> QED
    BY <1>8, <1>9

LEMMA FeedByteType ==
  ASSUME NEW byte \in Byte, NEW reg \in Words
  PROVE  FeedByte(byte)[reg] \in Words
  <1> DEFINE high == reg \div 256
             low == XorByte[byte][reg % 256]
  <1>1. high \in Byte /\ reg % 256 \in Byte
    BY WordIs DEF Byte
  <1>2. low \in Byte
    BY <1>1, XorByteType
  <1>3. 256 * high + low \in Words
    <2> HIDE DEF low, high
    <2>1. 256 * high + low \in Nat /\ 256 * high + low <= 65535
      BY <1>1, <1>2 DEF Byte
    <2> QED
      BY <2>1, IsWord
  <1>4. FeedByte(byte)[reg] = ShiftByte[256 * high + low]
    BY DEF FeedByte
  <1> QED
    BY <1>3, <1>4, ShiftByteType

\* The values of the CRC register while the first k bytes of data go in.
Feeds(data, k, f) ==
  /\ f \in [0 .. k -> Words]
  /\ f[0] = UINT16_MAX
  /\ \A n \in 1 .. k : f[n] = FeedByte(data[n])[f[n - 1]]

LEMMA FeedsExists ==
  ASSUME NEW data \in Seq(Byte)
  PROVE  \E f : Feeds(data, Len(data), f)
  <1> DEFINE Missing == {k \in 0 .. Len(data) : ~ \E f : Feeds(data, k, f)}
  <1>1. Len(data) \in Nat /\ \A n \in 1 .. Len(data) : data[n] \in Byte
    BY LenProperties, ElementOfSeq
  <1>2. ASSUME Missing # {}
        PROVE  FALSE
    <2>1. PICK k \in Missing : \A m \in Missing : k <= m
      <3>1. Missing \in SUBSET Nat
        BY <1>1
      <3> HIDE DEF Missing
      <3> QED
        BY <1>2, <3>1, Least
    <2>2. k \in 0 .. Len(data) /\ k \in Nat /\ ~ \E f : Feeds(data, k, f)
      BY <1>1
    <2>3. CASE k = 0
      <3>1. Feeds(data, 0, [n \in 0 .. 0 |-> UINT16_MAX])
        BY MaxIsWord DEF Feeds
      <3> QED
        BY <2>2, <2>3, <3>1
    <2>4. CASE k # 0
      <3>1. k - 1 \in 0 .. Len(data) /\ k - 1 \notin Missing
        BY <1>1, <2>1, <2>2, <2>4
      <3>2. PICK f : Feeds(data, k - 1, f)
        BY <3>1
      <3> DEFINE last == FeedByte(data[k])[f[k - 1]]
                 g == [n \in 0 .. k |-> IF n = k THEN last ELSE f[n]]
      <3>3. last \in Words
        <4>1. f[k - 1] \in Words /\ data[k] \in Byte
          BY <1>1, <2>2, <2>4, <3>2 DEF Feeds
        <4> QED
          BY <4>1, FeedByteType
      <3>4. g \in [0 .. k -> Words]
        <4>1. ASSUME NEW n \in 0 .. k, n # k
              PROVE  f[n] \in Words
          <5>1. n \in 0 .. k - 1
            BY <2>2, <4>1
          <5>2. f \in [0 .. k - 1 -> Words]
            BY <3>2 DEF Feeds
          <5> QED
            BY <5>1, <5>2
        <4> HIDE DEF last
        <4> QED
          BY <3>3, <4>1
      <3>5. g[0] = UINT16_MAX
        BY <2>2, <2>4, <3>2 DEF Feeds
      <3>6. ASSUME NEW n \in 1 .. k
            PROVE  g[n] = FeedByte(data[n])[g[n - 1]]
        <4>1. n \in 0 .. k /\ n - 1 \in 0 .. k /\ n - 1 # k /\ g[n - 1] = f[n - 1]
          BY <2>2
        <4>2. CASE n = k
          BY <4>1, <4>2
        <4>3. CASE n # k
          <5>1. n \in 1 .. k - 1 /\ g[n] = f[n]
            BY <2>2, <4>1, <4>3
          <5> QED
            BY <3>2, <4>1, <5>1 DEF Feeds
        <4> QED
          BY <4>2, <4>3
      <3> HIDE DEF g
      <3>7. Feeds(data, k, g)
        BY <3>4, <3>5, <3>6 DEF Feeds
      <3> QED
        BY <2>2, <3>7
    <2> QED
      BY <2>3, <2>4
  <1>3. Len(data) \in 0 .. Len(data) /\ Len(data) \notin Missing
    BY <1>1, <1>2
  <1> QED
    BY <1>3

\* The function whose last value crc16 returns.
Registers(data, f) ==
  f = [n \in 0 .. Len(data) |->
         IF n = 0 THEN UINT16_MAX ELSE FeedByte(data[n])[f[n - 1]]]

\* What crc16 computes fits into its two bytes.
LEMMA CrcType ==
  ASSUME NEW data \in Seq(Byte)
  PROVE  crc16(data) \in Words
  <1>1. Len(data) \in Nat /\ \A n \in 1 .. Len(data) : data[n] \in Byte
    BY LenProperties, ElementOfSeq
  <1>2. \E f : Registers(data, f)
    <2>1. PICK f : Feeds(data, Len(data), f)
      BY FeedsExists
    <2>2. f = [n \in 0 .. Len(data) |-> f[n]]
      BY <2>1 DEF Feeds
    <2>3. \A n \in 0 .. Len(data) : n # 0 => n \in 1 .. Len(data)
      BY <1>1
    <2> QED
      BY <2>1, <2>2, <2>3 DEF Feeds, Registers
  <1> DEFINE g == CHOOSE f : Registers(data, f)
  <1>3. Registers(data, g)
    BY <1>2
  <1>4. crc16(data) = g[Len(data)]
    BY DEF crc16, Registers
  <1> HIDE DEF g
  <1> DEFINE Wrong == {n \in 0 .. Len(data) : g[n] \notin Words}
  <1>5. ASSUME Wrong # {}
        PROVE  FALSE
    <2>1. PICK n \in Wrong : \A m \in Wrong : n <= m
      <3>1. Wrong \in SUBSET Nat
        BY <1>1
      <3> HIDE DEF Wrong
      <3> QED
        BY <1>5, <3>1, Least
    <2>2. n \in 0 .. Len(data) /\ g[n] \notin Words
      OBVIOUS
    <2>3. n # 0
      BY <1>3, <2>2, MaxIsWord DEF Registers
    <2>4. n \in 1 .. Len(data) /\ n - 1 \in 0 .. Len(data) /\ ~(n <= n - 1)
      BY <1>1, <2>2, <2>3
    <2>5. g[n - 1] \in Words
      BY <2>1, <2>4
    <2>6. g[n] = FeedByte(data[n])[g[n - 1]]
      BY <1>3, <2>2, <2>3 DEF Registers
    <2>7. data[n] \in Byte
      BY <1>1, <2>4
    <2> QED
      BY <2>2, <2>5, <2>6, <2>7, FeedByteType
  <1>6. Len(data) \in 0 .. Len(data)
    BY <1>1
  <1> QED
    BY <1>4, <1>5, <1>6

-------------------------------------------------------------------------------
(* The bytes of a frame *)

Str == Seq(Byte)

\* Words go to the wire two bytes each.
LEMMA FlattenPairs ==
  ASSUME NEW S, NEW ss \in Seq(Seq(S)), \A i \in 1 .. Len(ss) : Len(ss[i]) = 2
  PROVE  /\ Len(FlattenSeq(ss)) = 2 * Len(ss)
         /\ \A i \in 1 .. Len(ss) : /\ FlattenSeq(ss)[2 * i - 1] = ss[i][1]
                                    /\ FlattenSeq(ss)[2 * i] = ss[i][2]
  <1>1. CASE ss = <<>>
    BY <1>1, FlattenEmpty, EmptySeq
  <1>2. CASE ss # <<>>
    <2> DEFINE n == Len(ss)
    <2>1. n \in Nat \ {0} /\ \A i \in 1 .. n : ss[i] \in Seq(S)
      BY <1>2, EmptySeq, LenProperties, ElementOfSeq
    <2>2. PICK f \in [1 .. n -> Seq(S)] : Joins(ss, f)
      BY <1>2, JoinsExists
    <2> DEFINE Paired(k) == /\ Len(f[k]) = 2 * k
                            /\ \A i \in 1 .. k : /\ f[k][2 * i - 1] = ss[i][1]
                                                 /\ f[k][2 * i] = ss[i][2]
               Wrong == {k \in 1 .. n : ~Paired(k)}
    <2>3. ASSUME Wrong # {}
          PROVE  FALSE
      <3>1. PICK k \in Wrong : \A m \in Wrong : k <= m
        <4>1. Wrong \in SUBSET Nat
          BY <2>1
        <4> HIDE DEF Wrong
        <4> QED
          BY <2>3, <4>1, Least
      <3>2. k \in 1 .. n /\ k \in Nat
        BY <2>1
      <3>a. ~Paired(k)
        OBVIOUS
      <3>3. ss[k] \in Seq(S) /\ Len(ss[k]) = 2
        BY <2>1, <3>2
      <3>4. CASE k = 1
        <4>1. f[k] = ss[1]
          BY <2>2, <3>2, <3>4 DEF Joins
        <4> QED
          BY <3>2, <3>a, <3>3, <3>4, <4>1
      <3>5. CASE k # 1
        <4>1. k - 1 \in 1 .. n /\ k - 1 \notin Wrong
          <5>1. k - 1 \in 1 .. n /\ ~(k <= k - 1)
            BY <2>1, <3>2, <3>5
          <5> HIDE DEF Wrong
          <5> QED
            BY <3>1, <5>1
        <4>2. Paired(k - 1)
          BY <4>1
        <4>3. f[k] = f[k - 1] \o ss[k]
          BY <2>2, <3>2, <3>5 DEF Joins
        <4>4. f[k - 1] \in Seq(S)
          BY <2>2, <4>1
        <4> DEFINE a == f[k - 1]
                   b == ss[k]
        <4>5. /\ Len(a \o b) = 2 * (k - 1) + 2
              /\ \A j \in 1 .. 2 * k :
                   (a \o b)[j] = IF j <= 2 * (k - 1) THEN a[j] ELSE b[j - 2 * (k - 1)]
          <5>1. a \in Seq(S) /\ b \in Seq(S) /\ Len(a) = 2 * (k - 1) /\ Len(b) = 2
            BY <3>3, <4>2, <4>4
          <5> HIDE DEF a, b
          <5>2. Len(a) + Len(b) = 2 * k
            BY <3>2, <5>1
          <5>3. /\ Len(a \o b) = Len(a) + Len(b)
                /\ \A j \in 1 .. Len(a) + Len(b) :
                     (a \o b)[j] = IF j <= Len(a) THEN a[j] ELSE b[j - Len(a)]
            BY <5>1, ConcatProperties
          <5>4. \A j \in 1 .. 2 * k : (a \o b)[j] = IF j <= Len(a) THEN a[j] ELSE b[j - Len(a)]
            BY <5>2, <5>3
          <5>5. \A j \in 1 .. 2 * k :
                   (a \o b)[j] = IF j <= 2 * (k - 1) THEN a[j] ELSE b[j - 2 * (k - 1)]
            BY <5>1, <5>4
          <5> QED
            BY <5>1, <5>3, <5>5
        <4>6. ASSUME NEW i \in 1 .. k
              PROVE  f[k][2 * i - 1] = ss[i][1] /\ f[k][2 * i] = ss[i][2]
          <5>1. /\ 2 * i - 1 \in 1 .. 2 * k /\ 2 * i \in 1 .. 2 * k
                /\ i \in Nat /\ 1 <= i /\ i <= k
            <6>1. k \in Nat /\ i \in Nat /\ 1 <= i /\ i <= k
              BY <3>2
            <6> HIDE DEF n, Wrong, Paired
            <6> QED
              BY <6>1
          <5>2. CASE i = k
            <6>1. /\ 2 * i - 1 - 2 * (k - 1) = 1 /\ 2 * i - 2 * (k - 1) = 2
                  /\ ~(2 * i - 1 <= 2 * (k - 1)) /\ ~(2 * i <= 2 * (k - 1))
              BY <3>2, <5>2
            <6> HIDE DEF a
            <6> QED
              BY <4>3, <4>5, <5>1, <5>2, <6>1 DEF a
          <5>3. CASE i # k
            <6>1. i \in 1 .. k - 1 /\ 2 * i - 1 <= 2 * (k - 1) /\ 2 * i <= 2 * (k - 1)
              <7>1. k \in Nat /\ i \in Nat /\ 1 <= i /\ i < k
                BY <3>2, <5>1, <5>3
              <7> HIDE DEF n, Wrong, Paired
              <7> QED
                BY <7>1
            <6>2. a[2 * i - 1] = ss[i][1] /\ a[2 * i] = ss[i][2]
              BY <4>2, <6>1
            <6> HIDE DEF a
            <6> QED
              BY <4>3, <4>5, <5>1, <6>1, <6>2 DEF a
          <5> QED
            BY <5>2, <5>3
        <4>7. Len(f[k]) = 2 * k
          BY <3>2, <4>3, <4>5
        <4> QED
          BY <3>a, <4>6, <4>7
      <3> QED
        BY <3>4, <3>5
    <2>4. n \in 1 .. n /\ n \notin Wrong
      BY <2>1, <2>3
    <2>5. Paired(n)
      BY <2>4
    <2>6. FlattenSeq(ss) = f[n]
      BY <1>2, <2>2, FlattenIs
    <2> QED
      BY <2>5, <2>6
  <1> QED
    BY <1>1, <1>2

LEMMA SameFlatten == \A s : FlattenSeq(s) = FlattenSeq(s)
  BY DEF FlattenSeq, FlattenSeq

LEMMA HighLow ==
  ASSUME NEW w \in Words
  PROVE  /\ w \div 256 \in Byte /\ w % 256 \in Byte
         /\ Word(w \div 256, w % 256) = w
  <1>1. w \in Nat /\ w <= 65535
    BY WordIs
  <1> DEFINE h == w \div 256
             l == w % 256
  <1>2. h \in Nat /\ h <= 255
    BY <1>1
  <1>3. l \in Nat /\ l <= 255
    BY <1>1
  <1>4. l = w - 256 * h
    BY <1>1
  <1> HIDE DEF h, l
  <1>5. h * 256 + l = w
    BY <1>1, <1>2, <1>3, <1>4
  <1>6. h \in Byte /\ l \in Byte
    BY <1>2, <1>3 DEF Byte
  <1>7. Word(h, l) = w
    BY <1>5 DEF Word
  <1> QED
    BY <1>6, <1>7 DEF h, l

LEMMA WordsOnWire ==
  ASSUME NEW words \in Seq(Words)
  PROVE  /\ OnWire(words) \in Str
         /\ Len(OnWire(words)) = 2 * Len(words)
         /\ \A i \in 1 .. Len(words) :
              /\ OnWire(words)[2 * i - 1] = words[i] \div 256
              /\ OnWire(words)[2 * i] = words[i] % 256
  <1> DEFINE ss == [i \in DOMAIN words |-> <<words[i] \div 256, words[i] % 256>>]
  <1>1. Len(words) \in Nat /\ DOMAIN words = 1 .. Len(words)
    BY LenProperties
  <1>2. ASSUME NEW i \in 1 .. Len(words)
        PROVE  /\ ss[i] \in Str /\ Len(ss[i]) = 2
               /\ ss[i][1] = words[i] \div 256 /\ ss[i][2] = words[i] % 256
    <2> DEFINE h == words[i] \div 256
               l == words[i] % 256
    <2>1. h \in Byte /\ l \in Byte
      BY ElementOfSeq, HighLow
    <2>2. ss[i] = <<h, l>>
      BY <1>1
    <2> HIDE DEF h, l, ss
    <2>3. <<h, l>> \in Str /\ Len(<<h, l>>) = 2
      BY <2>1 DEF Str
    <2> QED
      BY <2>2, <2>3 DEF h, l
  <1>3. ss \in Seq(Str) /\ Len(ss) = Len(words)
    <2>1. ss \in [1 .. Len(words) -> Str]
      BY <1>1, <1>2
    <2> HIDE DEF ss
    <2> QED
      BY <1>1, <2>1
  <1>4. OnWire(words) = FlattenSeq(ss)
    BY SameFlatten DEF OnWire
  <1> HIDE DEF ss
  <1>5. FlattenSeq(ss) \in Str
    BY <1>3, FlattenType DEF Str
  <1>6. /\ Len(FlattenSeq(ss)) = 2 * Len(ss)
        /\ \A i \in 1 .. Len(ss) : /\ FlattenSeq(ss)[2 * i - 1] = ss[i][1]
                                   /\ FlattenSeq(ss)[2 * i] = ss[i][2]
    BY <1>2, <1>3, FlattenPairs, SMTT(30) DEF Str
  <1> QED
    BY <1>2, <1>3, <1>4, <1>5, <1>6

\* The bytes of a body come first, and the CRC behind them is right.
LEMMA PreparedIs ==
  ASSUME NEW body \in Str
  PROVE  LET frame == Prepared(body) IN
         /\ frame \in Str
         /\ Len(frame) = Len(body) + 2
         /\ \A i \in 1 .. Len(body) : frame[i] = body[i]
         /\ modbusValidCrc(frame)
  <1> DEFINE crc == crc16(body)
             low == crc % 256
             high == crc \div 256
             frame == Prepared(body)
             n == Len(body)
  <1>1. crc \in Words
    BY CrcType DEF Str
  <1>2. low \in Byte /\ high \in Byte /\ Word(high, low) = crc
    <2> HIDE DEF crc
    <2> QED
      BY <1>1, WordIs, HighLow
  <1>3. frame = body \o <<low, high>> /\ n \in Nat
    BY LenProperties DEF Prepared, Str
  <1> HIDE DEF crc, low, high, frame
  <1>4. /\ frame \in Str /\ Len(frame) = n + 2
        /\ \A i \in 1 .. n + 2 : frame[i] = IF i <= n THEN body[i] ELSE <<low, high>>[i - n]
    <2>1. <<low, high>> \in Str /\ Len(<<low, high>>) = 2
      BY <1>2 DEF Str
    <2> DEFINE tail == <<low, high>>
    <2> HIDE DEF tail
    <2>2. tail \in Str /\ Len(tail) = 2
      BY <2>1 DEF tail
    <2>3. /\ body \o tail \in Str /\ Len(body \o tail) = n + 2
          /\ \A i \in 1 .. n + 2 : (body \o tail)[i] = IF i <= n THEN body[i] ELSE tail[i - n]
      <3>1. /\ body \o tail \in Str /\ Len(body \o tail) = Len(body) + Len(tail)
            /\ \A i \in 1 .. Len(body) + Len(tail) :
                 (body \o tail)[i] = IF i <= Len(body) THEN body[i] ELSE tail[i - Len(body)]
        BY <2>2, ConcatProperties DEF Str
      <3> QED
        BY <2>2, <3>1
    <2> QED
      BY <1>3, <2>3 DEF tail
  <1>5. frame[n + 1] = low /\ frame[n + 2] = high
    <2>1. n + 1 \in 1 .. n + 2 /\ n + 2 \in 1 .. n + 2 /\ n + 1 - n = 1 /\ n + 2 - n = 2
          /\ ~(n + 1 <= n) /\ ~(n + 2 <= n)
      BY <1>3
    <2> QED
      BY <1>4, <2>1
  <1>6. SubSeq(frame, 1, Len(frame) - 2) = body
    <2>1. \A i \in 1 .. n : frame[i] = body[i] /\ body[i] \in Byte
      BY <1>3, <1>4, ElementOfSeq DEF Str
    <2>2. Len(frame) - 2 = n
      BY <1>3, <1>4
    <2>3. /\ SubSeq(frame, 1, n) \in Str
          /\ Len(SubSeq(frame, 1, n)) = n
          /\ \A i \in 1 .. n : SubSeq(frame, 1, n)[i] = body[i]
      BY <1>3, <2>1, SubSeqProperties DEF Str
    <2> QED
      BY <2>2, <2>3, SeqEqual DEF Str
  <1>7. modbusValidCrc(frame)
    <2>1. Len(frame) - 1 = n + 1
      BY <1>3, <1>4
    <2>2. Word(frame[Len(frame)], frame[Len(frame) - 1]) = Word(high, low)
      BY <1>4, <1>5, <2>1
    <2> QED
      BY <1>2, <1>6, <2>2 DEF modbusValidCrc, crc
  <1> QED
    BY <1>3, <1>4, <1>7 DEF frame

-------------------------------------------------------------------------------
(* The frames of requests and of the status *)

\* Both ends make their frames with the same code.
LEMMA DriverCrc ==
  \A s : Driver!crc16(s) = crc16(s)
  <1>1. Driver!Byte = Byte /\ Driver!Words = Words
        /\ Driver!UINT16_MAX = UINT16_MAX
    BY DEF Byte, Driver!Byte, Words, Driver!Words,
           UINT16_MAX, Driver!UINT16_MAX
  <1>2. \A x, w : Driver!FlipBit(x, w) = FlipBit(x, w)
    BY DEF FlipBit, Driver!FlipBit
  <1>3. \A x, byte, w : Driver!XorBit(x, byte, w) = XorBit(x, byte, w)
    BY <1>2 DEF XorBit, Driver!XorBit
  <1>4. Driver!XorByte = XorByte
    BY <1>1, <1>3 DEF XorByte, Driver!XorByte
  <1>5. \A reg : Driver!ShiftBit(reg) = ShiftBit(reg)
    BY <1>2 DEF ShiftBit, Driver!ShiftBit
  <1>6. Driver!ShiftByte = ShiftByte
    BY <1>1, <1>5 DEF ShiftByte, Driver!ShiftByte
  <1>7. \A byte : Driver!FeedByte(byte) = FeedByte(byte)
    BY <1>1, <1>4, <1>6 DEF FeedByte, Driver!FeedByte
  <1> QED
    BY <1>1, <1>7 DEF crc16, Driver!crc16

LEMMA ServerCrc ==
  \A s : Server!crc16(s) = crc16(s)
  <1>1. Server!Byte = Byte /\ Server!Words = Words
        /\ Server!UINT16_MAX = UINT16_MAX
    BY DEF Byte, Server!Byte, Words, Server!Words,
           UINT16_MAX, Server!UINT16_MAX
  <1>2. \A x, w : Server!FlipBit(x, w) = FlipBit(x, w)
    BY DEF FlipBit, Server!FlipBit
  <1>3. \A x, byte, w : Server!XorBit(x, byte, w) = XorBit(x, byte, w)
    BY <1>2 DEF XorBit, Server!XorBit
  <1>4. Server!XorByte = XorByte
    BY <1>1, <1>3 DEF XorByte, Server!XorByte
  <1>5. \A reg : Server!ShiftBit(reg) = ShiftBit(reg)
    BY <1>2 DEF ShiftBit, Server!ShiftBit
  <1>6. Server!ShiftByte = ShiftByte
    BY <1>1, <1>5 DEF ShiftByte, Server!ShiftByte
  <1>7. \A byte : Server!FeedByte(byte) = FeedByte(byte)
    BY <1>1, <1>4, <1>6 DEF FeedByte, Server!FeedByte
  <1> QED
    BY <1>1, <1>7 DEF crc16, Server!crc16

LEMMA SameCheck ==
  \A s : /\ Driver!modbusValidCrc(s) = modbusValidCrc(s)
         /\ Server!modbusValidCrc(s) = modbusValidCrc(s)
         /\ Driver!Prepared(s) = Prepared(s)
         /\ Server!Prepared(s) = Prepared(s)
  BY DriverCrc, ServerCrc
     DEF modbusValidCrc, Driver!modbusValidCrc, Server!modbusValidCrc,
         Prepared, Driver!Prepared, Server!Prepared,
         Word, Driver!Word, Server!Word

LEMMA SameOnWire ==
  \A w : Driver!OnWire(w) = OnWire(w) /\ Server!OnWire(w) = OnWire(w)
  BY DEF OnWire, Driver!OnWire, Server!OnWire,
         FlattenSeq, Driver!FlattenSeq, Server!FlattenSeq

LEMMA SameRequest ==
  \A r : Driver!RequestFrame(r) = RequestFrame(r)
  BY SameCheck, SameOnWire
     DEF RequestFrame, Driver!RequestFrame, ModbusPacket,
         Driver!ModbusPacket, WriteSingleRegister, Driver!WriteSingleRegister,
         frequencyRegAddress, Driver!frequencyRegAddress, paramReg,
         Driver!paramReg, statusRegAddress, Driver!statusRegAddress,
         statusRegNum, Driver!statusRegNum

\* What the drive finds in the frame of a request.
LEMMA RequestIs ==
  ASSUME RequestsOK, NEW r \in Requests
  PROVE  LET frame == RequestFrame(r) IN
         /\ frame \in Str /\ Len(frame) = 8
         /\ frame[1] = r.node /\ frame[2] = r.command
         /\ modbusValidCrc(frame)
         /\ r.command = 6 => /\ Word(frame[3], frame[4]) = 170
                             /\ Word(frame[5], frame[6]) = r.data
         /\ r.command = 3 => /\ Word(frame[3], frame[4]) = 8448
                             /\ Word(frame[5], frame[6]) = 8
  <1>1. /\ r.node \in Addresses /\ r.node \in Byte
        /\ r.data \in Words /\ r.command \in {3, 6}
    BY DEF RequestsOK, ReadMultipleRegisters, WriteSingleRegister
  <1> DEFINE first == IF r.command = 6 THEN 170 ELSE 8448
             second == IF r.command = 6 THEN r.data ELSE 8
             head == <<r.node, r.command>>
             wire == OnWire(<<first, second>>)
             body == head \o wire
             frame == RequestFrame(r)
  <1>2. first \in Words /\ second \in Words
    <2>1. 170 \in Words /\ 8448 \in Words /\ 8 \in Words
      BY IsWord
    <2> QED
      BY <1>1, <2>1
  <1>3. head \in Str /\ Len(head) = 2
    BY <1>1 DEF Str, Byte
  <1>4. frame = Prepared(body)
    <2>1. frequencyRegAddress = 170
      BY DEF frequencyRegAddress, paramReg
    <2>2. head \o <<>> = head
      BY <1>3, ConcatEmptySeq DEF Str
    <2>3. frame = Prepared((head \o <<>>) \o wire)
      BY <1>1, <2>1
         DEF RequestFrame, ModbusPacket, WriteSingleRegister,
             statusRegAddress, statusRegNum
    <2> QED
      BY <2>2, <2>3
  <1> HIDE DEF first, second, head, frame
  <1>5. /\ wire \in Str /\ Len(wire) = 4
        /\ wire[1] = first \div 256 /\ wire[2] = first % 256
        /\ wire[3] = second \div 256 /\ wire[4] = second % 256
    <2> DEFINE words == <<first, second>>
    <2>1. words \in Seq(Words) /\ Len(words) = 2 /\ words[1] = first /\ words[2] = second
      BY <1>2
    <2> HIDE DEF words
    <2>2. /\ OnWire(words) \in Str /\ Len(OnWire(words)) = 4
          /\ \A i \in 1 .. 2 : /\ OnWire(words)[2 * i - 1] = words[i] \div 256
                               /\ OnWire(words)[2 * i] = words[i] % 256
      <3>1. /\ OnWire(words) \in Str /\ Len(OnWire(words)) = 2 * Len(words)
            /\ \A i \in 1 .. Len(words) : /\ OnWire(words)[2 * i - 1] = words[i] \div 256
                                          /\ OnWire(words)[2 * i] = words[i] % 256
        BY <2>1, WordsOnWire, ZenonT(40)
      <3> QED
        BY <2>1, <3>1
    <2>3. /\ 1 \in 1 .. 2 /\ 2 \in 1 .. 2 /\ 2 * 1 - 1 = 1 /\ 2 * 1 = 2
          /\ 2 * 2 - 1 = 3 /\ 2 * 2 = 4
      OBVIOUS
    <2> DEFINE onWire == OnWire(words)
    <2> HIDE DEF onWire
    <2>4. /\ onWire[1] = words[1] \div 256 /\ onWire[2] = words[1] % 256
      <3>1. onWire[2 * 1 - 1] = words[1] \div 256 /\ onWire[2 * 1] = words[1] % 256
        BY <2>2, <2>3 DEF onWire
      <3> QED
        BY <2>3, <3>1
    <2>5. /\ onWire[3] = words[2] \div 256 /\ onWire[4] = words[2] % 256
      <3>1. onWire[2 * 2 - 1] = words[2] \div 256 /\ onWire[2 * 2] = words[2] % 256
        BY <2>2, <2>3 DEF onWire
      <3> QED
        BY <2>3, <3>1
    <2> QED
      BY <2>1, <2>2, <2>4, <2>5 DEF onWire, words
  <1> HIDE DEF wire
  <1>6. /\ body \in Str /\ Len(body) = 6 /\ body[1] = head[1] /\ body[2] = head[2]
        /\ \A i \in 1 .. 4 : body[i + 2] = wire[i]
    <2>0. head \in Seq(Byte) /\ wire \in Seq(Byte)
      BY <1>3, <1>5 DEF Str
    <2>1. /\ body \in Str /\ Len(body) = Len(head) + Len(wire)
          /\ \A i \in 1 .. Len(head) + Len(wire) :
               body[i] = IF i <= Len(head) THEN head[i] ELSE wire[i - Len(head)]
      BY <2>0, ConcatProperties DEF Str
    <2>2. Len(head) + Len(wire) = 6
      BY <1>3, <1>5
    <2>3. \A i \in 1 .. 6 : body[i] = IF i <= 2 THEN head[i] ELSE wire[i - 2]
      BY <1>3, <2>1, <2>2
    <2>4. body[1] = head[1] /\ body[2] = head[2]
      <3>1. 1 \in 1 .. 6 /\ 2 \in 1 .. 6 /\ 1 <= 2 /\ 2 <= 2
        OBVIOUS
      <3> HIDE DEF body
      <3> QED
        BY <2>3, <3>1
    <2>5. ASSUME NEW i \in 1 .. 4
          PROVE  body[i + 2] = wire[i]
      <3>1. i + 2 \in 1 .. 6 /\ ~(i + 2 <= 2) /\ (i + 2) - 2 = i
        OBVIOUS
      <3> QED
        BY <2>3, <3>1
    <2> QED
      BY <2>1, <2>2, <2>4, <2>5
  <1>7. body[3] = wire[1] /\ body[4] = wire[2] /\ body[5] = wire[3] /\ body[6] = wire[4]
    <2>1. /\ 1 \in 1 .. 4 /\ 2 \in 1 .. 4 /\ 3 \in 1 .. 4 /\ 4 \in 1 .. 4
          /\ 1 + 2 = 3 /\ 2 + 2 = 4 /\ 3 + 2 = 5 /\ 4 + 2 = 6
      OBVIOUS
    <2> QED
      BY <1>6, <2>1
  <1> HIDE DEF body
  <1>8. /\ frame \in Str /\ Len(frame) = 8 /\ modbusValidCrc(frame)
        /\ \A i \in 1 .. 6 : frame[i] = body[i]
    <2>1. /\ Prepared(body) \in Str /\ Len(Prepared(body)) = Len(body) + 2
          /\ \A i \in 1 .. Len(body) : Prepared(body)[i] = body[i]
          /\ modbusValidCrc(Prepared(body))
      BY <1>6, PreparedIs
    <2> QED
      BY <1>4, <1>6, <2>1
  <1>9. frame[1] = head[1] /\ frame[2] = head[2]
    BY <1>6, <1>8
  <1>10. /\ Word(frame[3], frame[4]) = first
         /\ Word(frame[5], frame[6]) = second
    <2>1. /\ frame[3] = wire[1] /\ frame[4] = wire[2] /\ frame[5] = wire[3] /\ frame[6] = wire[4]
      BY <1>7, <1>8
    <2>2. /\ Word(first \div 256, first % 256) = first
          /\ Word(second \div 256, second % 256) = second
      BY <1>2, HighLow
    <2> QED
      BY <1>5, <2>1, <2>2
  <1>11. frame[1] = r.node /\ frame[2] = r.command
    BY <1>9 DEF head
  <1>12. /\ r.command = 6 => /\ Word(frame[3], frame[4]) = 170
                             /\ Word(frame[5], frame[6]) = r.data
         /\ r.command = 3 => /\ Word(frame[3], frame[4]) = 8448
                             /\ Word(frame[5], frame[6]) = 8
    BY <1>10 DEF first, second
  <1> QED
    BY <1>8, <1>11, <1>12 DEF frame

\* The answer to a read of the status has the frequency in its bytes 8 and 9.
LEMMA StatusIs ==
  ASSUME NEW node \in Byte, frequencies[node] \in Words
  PROVE  LET frame == Server!StatusResponse(node) IN
         /\ frame \in Str /\ Len(frame) = 21
         /\ frame[1] = node /\ frame[2] = 3
         /\ modbusValidCrc(frame)
         /\ Word(frame[8], frame[9]) = frequencies[node]
  <1> DEFINE f == frequencies[node]
             registers == [r \in 1 .. 8 |-> IF r \in {3, 4} THEN f ELSE 21845]
             head == <<node, 3>> \o <<16>>
             wire == OnWire(registers)
             body == head \o wire
             frame == Server!StatusResponse(node)
  <1>1. frame = Prepared(body)
    <2>1. frame = Server!Prepared(head \o Server!OnWire(registers))
      BY DEF Server!StatusResponse, Server!ModbusPacket, Server!statusRegNum,
             Server!ReadMultipleRegisters
    <2> QED
      BY <2>1, SameCheck, SameOnWire
  <1>2. registers \in Seq(Words) /\ Len(registers) = 8 /\ registers[3] = f
    <2>1. 21845 \in Words
      BY IsWord
    <2>2. registers \in [1 .. 8 -> Words]
      BY <2>1
    <2> QED
      BY <2>2
  <1>3. head \in Str /\ Len(head) = 3 /\ head[1] = node /\ head[2] = 3
    BY DEF Str, Byte
  <1> HIDE DEF registers, head, f, frame
  <1>4. /\ wire \in Str /\ Len(wire) = 16
        /\ wire[5] = f \div 256 /\ wire[6] = f % 256
    <2>1. /\ wire \in Str /\ Len(wire) = 2 * Len(registers)
          /\ \A i \in 1 .. Len(registers) : /\ wire[2 * i - 1] = registers[i] \div 256
                                            /\ wire[2 * i] = registers[i] % 256
      BY <1>2, WordsOnWire
    <2>2. 3 \in 1 .. Len(registers) /\ 2 * 3 - 1 = 5 /\ 2 * 3 = 6 /\ 2 * Len(registers) = 16
      BY <1>2
    <2> HIDE DEF wire
    <2>3. wire[2 * 3 - 1] = registers[3] \div 256 /\ wire[2 * 3] = registers[3] % 256
      BY <2>1, <2>2
    <2> QED
      BY <1>2, <2>1, <2>2, <2>3
  <1> HIDE DEF wire
  <1>5. /\ body \in Str /\ Len(body) = 19 /\ body[1] = node /\ body[2] = 3
        /\ body[8] = wire[5] /\ body[9] = wire[6]
    <2>0. head \in Seq(Byte) /\ wire \in Seq(Byte)
      BY <1>3, <1>4 DEF Str
    <2>1. /\ body \in Str /\ Len(body) = Len(head) + Len(wire)
          /\ \A i \in 1 .. Len(head) + Len(wire) :
               body[i] = IF i <= Len(head) THEN head[i] ELSE wire[i - Len(head)]
      BY <2>0, ConcatProperties DEF Str
    <2>2. Len(head) + Len(wire) = 19
      BY <1>3, <1>4
    <2>3. \A i \in 1 .. 19 : body[i] = IF i <= 3 THEN head[i] ELSE wire[i - 3]
      BY <1>3, <2>1, <2>2
    <2>4. body[1] = head[1] /\ body[2] = head[2]
      <3>1. 1 \in 1 .. 19 /\ 2 \in 1 .. 19 /\ 1 <= 3 /\ 2 <= 3
        OBVIOUS
      <3> HIDE DEF body
      <3> QED
        BY <2>3, <3>1
    <2>5. body[8] = wire[5] /\ body[9] = wire[6]
      <3>1. /\ 8 \in 1 .. 19 /\ 9 \in 1 .. 19 /\ ~(8 <= 3) /\ ~(9 <= 3)
            /\ 8 - 3 = 5 /\ 9 - 3 = 6
        OBVIOUS
      <3> QED
        BY <2>3, <3>1
    <2> QED
      BY <1>3, <2>1, <2>2, <2>4, <2>5
  <1> HIDE DEF body
  <1>6. /\ frame \in Str /\ Len(frame) = 21 /\ modbusValidCrc(frame)
        /\ \A i \in 1 .. 19 : frame[i] = body[i]
    <2>1. /\ Prepared(body) \in Str /\ Len(Prepared(body)) = Len(body) + 2
          /\ \A i \in 1 .. Len(body) : Prepared(body)[i] = body[i]
          /\ modbusValidCrc(Prepared(body))
      BY <1>5, PreparedIs
    <2> QED
      BY <1>1, <1>5, <2>1
  <1>7. /\ frame[1] = node /\ frame[2] = 3 /\ frame[8] = f \div 256 /\ frame[9] = f % 256
    BY <1>4, <1>5, <1>6
  <1>8. Word(f \div 256, f % 256) = f
    BY HighLow DEF f
  <1> QED
    BY <1>6, <1>7, <1>8 DEF frame, f

-------------------------------------------------------------------------------
(* Requests on the line *)

Frames(p) == FlattenSeq([i \in DOMAIN p |-> RequestFrame(p[i])])

LEMMA FramesEmpty == Frames(<<>>) = <<>>
  <1>1. [i \in DOMAIN <<>> |-> RequestFrame(<<>>[i])] = <<>>
    OBVIOUS
  <1> QED
    BY <1>1, SameFlatten, FlattenEmpty DEF Frames

LEMMA FramesAre ==
  ASSUME RequestsOK, NEW p \in Seq(Requests)
  PROVE  LET ss == [i \in DOMAIN p |-> RequestFrame(p[i])] IN
         /\ ss \in Seq(Str) /\ Len(ss) = Len(p)
         /\ \A i \in 1 .. Len(p) : ss[i] = RequestFrame(p[i])
         /\ Frames(p) = FlattenSeq(ss)
         /\ Frames(p) \in Str
  <1> DEFINE ss == [i \in DOMAIN p |-> RequestFrame(p[i])]
  <1>1. Len(p) \in Nat /\ DOMAIN p = 1 .. Len(p)
    BY LenProperties
  <1>2. \A i \in 1 .. Len(p) : RequestFrame(p[i]) \in Str
    BY ElementOfSeq, RequestIs
  <1>3. ss \in [1 .. Len(p) -> Str]
    BY <1>1, <1>2
  <1>4. \A i \in 1 .. Len(p) : ss[i] = RequestFrame(p[i])
    BY <1>1
  <1>5. Frames(p) = FlattenSeq(ss)
    BY SameFlatten DEF Frames
  <1> HIDE DEF ss
  <1>6. ss \in Seq(Str) /\ Len(ss) = Len(p)
    BY <1>1, <1>3
  <1>7. FlattenSeq(ss) \in Str
    BY <1>6, FlattenType DEF Str
  <1> QED
    BY <1>4, <1>5, <1>6, <1>7 DEF ss

LEMMA FramesHead ==
  ASSUME RequestsOK, NEW p \in Seq(Requests), p # <<>>
  PROVE  Frames(p) = RequestFrame(Head(p)) \o Frames(Tail(p))
  <1> DEFINE ss == [i \in DOMAIN p |-> RequestFrame(p[i])]
             rest == Tail(p)
             tt == [i \in DOMAIN rest |-> RequestFrame(rest[i])]
  <1>1. /\ rest \in Seq(Requests) /\ Len(rest) = Len(p) - 1 /\ Len(p) \in Nat \ {0}
        /\ \A i \in 1 .. Len(rest) : rest[i] = p[i + 1]
        /\ Head(p) = p[1]
    BY HeadTailProperties, EmptySeq
  <1> HIDE DEF rest
  <1>2. /\ ss \in Seq(Str) /\ Len(ss) = Len(p)
        /\ \A i \in 1 .. Len(p) : ss[i] = RequestFrame(p[i])
        /\ Frames(p) = FlattenSeq(ss)
    BY FramesAre
  <1>3. /\ tt \in Seq(Str) /\ Len(tt) = Len(rest)
        /\ \A i \in 1 .. Len(rest) : tt[i] = RequestFrame(rest[i])
        /\ Frames(rest) = FlattenSeq(tt)
    BY <1>1, FramesAre
  <1> HIDE DEF ss, tt
  <1>4. ss # <<>>
    BY <1>1, <1>2, EmptySeq
  <1>5. Head(ss) = RequestFrame(Head(p))
    <2>1. Head(ss) = ss[1] /\ 1 \in 1 .. Len(p)
      BY <1>1, <1>2, <1>4, HeadTailProperties
    <2> QED
      BY <1>1, <1>2, <2>1
  <1>6. Tail(ss) = tt
    <2>1. /\ Tail(ss) \in Seq(Str) /\ Len(Tail(ss)) = Len(ss) - 1
          /\ \A i \in 1 .. Len(Tail(ss)) : Tail(ss)[i] = ss[i + 1]
      BY <1>2, <1>4, HeadTailProperties
    <2>2. Len(Tail(ss)) = Len(tt)
      BY <1>1, <1>2, <1>3, <2>1
    <2>3. ASSUME NEW i \in 1 .. Len(tt)
          PROVE  Tail(ss)[i] = tt[i]
      <3>1. i \in 1 .. Len(rest) /\ i \in 1 .. Len(Tail(ss)) /\ i + 1 \in 1 .. Len(p)
        BY <1>1, <1>3, <2>2
      <3> QED
        BY <1>1, <1>2, <1>3, <2>1, <3>1
    <2> DEFINE uu == Tail(ss)
    <2> HIDE DEF uu
    <2>4. uu \in Seq(Str) /\ Len(uu) = Len(tt) /\ \A i \in 1 .. Len(uu) : uu[i] = tt[i]
      BY <2>1, <2>2, <2>3 DEF uu
    <2>5. uu = tt
      BY <1>3, <2>4, SeqEqual
    <2> QED
      BY <2>5 DEF uu
  <1>7. FlattenSeq(ss) = Head(ss) \o FlattenSeq(Tail(ss))
    BY <1>2, <1>4, FlattenHead DEF Str
  <1> QED
    BY <1>2, <1>3, <1>5, <1>6, <1>7 DEF rest

LEMMA FramesAppend ==
  ASSUME RequestsOK, NEW p \in Seq(Requests), NEW r \in Requests
  PROVE  Frames(Append(p, r)) = Frames(p) \o RequestFrame(r)
  <1> DEFINE ss == [i \in DOMAIN p |-> RequestFrame(p[i])]
             more == Append(p, r)
             tt == [i \in DOMAIN more |-> RequestFrame(more[i])]
             frame == RequestFrame(r)
  <1>1. /\ more \in Seq(Requests) /\ Len(more) = Len(p) + 1 /\ Len(p) \in Nat
        /\ \A i \in 1 .. Len(p) : more[i] = p[i]
        /\ more[Len(p) + 1] = r
    BY AppendProperties, LenProperties
  <1> HIDE DEF more
  <1>2. /\ ss \in Seq(Str) /\ Len(ss) = Len(p)
        /\ \A i \in 1 .. Len(p) : ss[i] = RequestFrame(p[i])
        /\ Frames(p) = FlattenSeq(ss)
    BY FramesAre
  <1>3. /\ tt \in Seq(Str) /\ Len(tt) = Len(more)
        /\ \A i \in 1 .. Len(more) : tt[i] = RequestFrame(more[i])
        /\ Frames(more) = FlattenSeq(tt)
    BY <1>1, FramesAre
  <1>4. frame \in Str
    BY RequestIs
  <1> HIDE DEF ss, tt, frame
  <1>5. Append(ss, frame) = tt
    <2> DEFINE uu == Append(ss, frame)
    <2>1. /\ uu \in Seq(Str) /\ Len(uu) = Len(p) + 1
          /\ \A i \in 1 .. Len(p) : uu[i] = ss[i]
          /\ uu[Len(p) + 1] = frame
      BY <1>2, <1>4, AppendProperties
    <2> HIDE DEF uu
    <2>2. ASSUME NEW i \in 1 .. Len(uu)
          PROVE  uu[i] = tt[i]
      <3>1. i \in 1 .. Len(p) \/ i = Len(p) + 1
        BY <1>1, <2>1
      <3>2. i \in 1 .. Len(more)
        BY <1>1, <2>1
      <3> QED
        BY <1>1, <1>2, <1>3, <2>1, <3>1, <3>2 DEF frame
    <2>3. Len(uu) = Len(tt)
      BY <1>1, <1>3, <2>1
    <2> QED
      BY <1>3, <2>1, <2>2, <2>3, SeqEqual DEF uu
  <1>6. FlattenSeq(Append(ss, frame)) = FlattenSeq(ss) \o frame
    BY <1>2, <1>4, FlattenAppend DEF Str
  <1> QED
    BY <1>2, <1>3, <1>5, <1>6 DEF more, frame

\* The first two bytes tell the server how long a request is.
LEMMA ParseIs ==
  ASSUME RequestsOK, NEW p \in Seq(Requests), NEW s \in Str, NEW t \in Str,
         s \o t = Frames(p)
  PROVE  /\ Server!parseRequestToServer(s) = IF Len(s) < 8 THEN 0 ELSE 8
         /\ s # <<>> => p # <<>>
  <1>1. Len(s) \in Nat /\ Len(t) \in Nat
    BY LenProperties DEF Str
  <1>2. ASSUME s # <<>>
        PROVE  p # <<>>
    <2>1. s \o t # <<>>
      BY <1>2, ConcatEqualIffEmpty DEF Str
    <2> QED
      BY <2>1, FramesEmpty
  <1>3. CASE Len(s) <= 4
    BY <1>1, <1>2, <1>3 DEF Server!parseRequestToServer, Server!ModbusHeaderAndCrcSize
  <1>4. CASE Len(s) > 4
    <2>1. p # <<>>
      BY <1>2, <1>4, EmptySeq
    <2> DEFINE frame == RequestFrame(Head(p))
               rest == Frames(Tail(p))
    <2>2. Head(p) \in Requests /\ Tail(p) \in Seq(Requests)
      BY <2>1, HeadTailProperties
    <2>3. frame \in Str /\ Len(frame) = 8 /\ frame[2] = Head(p).command
      BY <2>2, RequestIs
    <2>4. Head(p).command \in {3, 6}
      BY <2>2 DEF RequestsOK, ReadMultipleRegisters, WriteSingleRegister
    <2>5. rest \in Str
      BY <2>2, FramesAre
    <2>6. s \o t = frame \o rest
      BY <2>1, FramesHead
    <2> HIDE DEF frame, rest
    <2>7. (s \o t)[2] = s[2]
      <3>1. 2 \in 1 .. Len(s) + Len(t) /\ 2 <= Len(s)
        BY <1>1, <1>4
      <3> QED
        BY <3>1, ConcatProperties DEF Str
    <2>8. (frame \o rest)[2] = frame[2]
      <3>1. Len(rest) \in Nat
        BY <2>5, LenProperties DEF Str
      <3>2. 2 \in 1 .. Len(frame) + Len(rest) /\ 2 <= Len(frame)
        BY <2>3, <3>1
      <3> QED
        BY <2>3, <2>5, <3>2, ConcatProperties DEF Str
    <2>9. s[2] \in {3, 6}
      BY <2>3, <2>4, <2>6, <2>7, <2>8
    <2> QED
      BY <1>1, <1>2, <1>4, <2>9
         DEF Server!parseRequestToServer, Server!ModbusHeaderAndCrcSize,
             Server!ReadMultipleRegisters, Server!WriteSingleRegister,
             Server!WriteMultipleRegisters
  <1> QED
    BY <1>1, <1>2, <1>3, <1>4

LEMMA Cut ==
  ASSUME NEW t \in Str, NEW n \in 0 .. Len(t)
  PROVE  /\ SubSeq(t, 1, n) \in Str /\ SubSeq(t, n + 1, Len(t)) \in Str
         /\ Len(SubSeq(t, 1, n)) = n /\ Len(SubSeq(t, n + 1, Len(t))) = Len(t) - n
         /\ SubSeq(t, 1, n) \o SubSeq(t, n + 1, Len(t)) = t
  <1>1. Len(t) \in Nat /\ \A i \in 1 .. Len(t) : t[i] \in Byte
    BY LenProperties, ElementOfSeq DEF Str
  <1>2. SubSeq(t, 1, n) \in Str /\ Len(SubSeq(t, 1, n)) = n
    <2>1. \A i \in 1 .. n : t[i] \in Byte
      BY <1>1
    <2> QED
      BY <1>1, <2>1, SubSeqProperties DEF Str
  <1>3. SubSeq(t, n + 1, Len(t)) \in Str /\ Len(SubSeq(t, n + 1, Len(t))) = Len(t) - n
    <2>1. \A i \in n + 1 .. Len(t) : t[i] \in Byte
      BY <1>1
    <2> QED
      BY <1>1, <2>1, SubSeqProperties DEF Str
  <1>4. SubSeq(t, 1, n) \o SubSeq(t, n + 1, Len(t)) = SubSeq(t, 1, Len(t))
    <2>1. /\ 1 \in 1 .. Len(t) + 1 /\ n \in 1 - 1 .. Len(t) /\ Len(t) \in n .. Len(t)
      BY <1>1
    <2> QED
      BY <2>1, ConcatAdjacentSubSeq DEF Str
  <1>5. SubSeq(t, 1, Len(t)) = t
    BY SubSeqFull DEF Str
  <1> QED
    BY <1>2, <1>3, <1>4, <1>5

LEMMA CutEqual ==
  ASSUME NEW a \in Str, NEW b \in Str, NEW c \in Str, NEW d \in Str,
         Len(a) = Len(c), a \o b = c \o d
  PROVE  a = c /\ b = d
  <1>1. Len(a) \in Nat /\ Len(b) \in Nat /\ Len(d) \in Nat
    BY LenProperties DEF Str
  <1>2. /\ Len(a \o b) = Len(a) + Len(b) /\ Len(c \o d) = Len(c) + Len(d)
        /\ \A i \in 1 .. Len(a) + Len(b) : (a \o b)[i] = IF i <= Len(a) THEN a[i] ELSE b[i - Len(a)]
        /\ \A i \in 1 .. Len(c) + Len(d) : (c \o d)[i] = IF i <= Len(c) THEN c[i] ELSE d[i - Len(c)]
    BY ConcatProperties DEF Str
  <1>3. a = c
    <2>1. ASSUME NEW i \in 1 .. Len(a)
          PROVE  a[i] = c[i]
      <3>1. i \in 1 .. Len(a) + Len(b) /\ i \in 1 .. Len(c) + Len(d) /\ i <= Len(a) /\ i <= Len(c)
        BY <1>1
      <3> QED
        BY <1>2, <3>1
    <2> QED
      BY <2>1, SeqEqual DEF Str
  <1>4. b = d
    <2>1. Len(b) = Len(d)
      BY <1>1, <1>2
    <2>2. ASSUME NEW i \in 1 .. Len(b)
          PROVE  b[i] = d[i]
      <3> DEFINE j == Len(a) + i
      <3>1. /\ j \in 1 .. Len(a) + Len(b) /\ j \in 1 .. Len(c) + Len(d)
            /\ ~(j <= Len(a)) /\ ~(j <= Len(c)) /\ j - Len(a) = i /\ j - Len(c) = i
        BY <1>1, <2>1
      <3> HIDE DEF j
      <3>2. (a \o b)[j] = b[i] /\ (c \o d)[j] = d[i]
        BY <1>2, <3>1
      <3> QED
        BY <3>2
    <2> QED
      BY <2>1, <2>2, SeqEqual DEF Str
  <1> QED
    BY <1>3, <1>4

LEMMA Associate ==
  ASSUME NEW a \in Str, NEW b \in Str, NEW c \in Str
  PROVE  (a \o b) \o c = a \o (b \o c) /\ a \o b \in Str /\ Len(a \o b) = Len(a) + Len(b)
  BY ConcatAssociative, ConcatProperties DEF Str

LEMMA WithEmpty ==
  ASSUME NEW s \in Str
  PROVE  s \o <<>> = s /\ <<>> \o s = s /\ <<>> \in Str
  BY ConcatEmptySeq, EmptySeq DEF Str

LEMMA FramesLength ==
  ASSUME RequestsOK, NEW p \in Seq(Requests)
  PROVE  /\ p # <<>> => Len(Frames(p)) >= 8
         /\ Len(p) <= 2 => Len(Frames(p)) <= 16
  <1>1. ASSUME NEW q \in Seq(Requests), q # <<>>
        PROVE  /\ Tail(q) \in Seq(Requests) /\ Len(Tail(q)) = Len(q) - 1
               /\ Frames(Tail(q)) \in Str
               /\ Len(Frames(q)) = 8 + Len(Frames(Tail(q)))
    <2>1. Head(q) \in Requests /\ Tail(q) \in Seq(Requests) /\ Len(Tail(q)) = Len(q) - 1
      BY <1>1, HeadTailProperties
    <2> DEFINE frame == RequestFrame(Head(q))
               rest == Frames(Tail(q))
    <2>2. frame \in Str /\ Len(frame) = 8
      BY <2>1, RequestIs
    <2>a. rest \in Str
      BY <2>1, FramesAre
    <2>3. Frames(q) = frame \o rest
      BY <1>1, FramesHead
    <2> HIDE DEF frame, rest
    <2> QED
      BY <2>1, <2>2, <2>a, <2>3, Associate DEF rest
  <1>2. Len(p) \in Nat /\ (p = <<>> <=> Len(p) = 0)
    BY EmptySeq, LenProperties
  <1>3. Frames(p) \in Str /\ \A s \in Str : Len(s) \in Nat
    BY FramesAre, LenProperties DEF Str
  <1>4. Len(Frames(<<>>)) = 0
    BY FramesEmpty, EmptySeq
  <1>5. CASE p = <<>>
    BY <1>4, <1>5
  <1>6. CASE p # <<>>
    <2> DEFINE q == Tail(p)
    <2>1. /\ q \in Seq(Requests) /\ Len(q) = Len(p) - 1 /\ Len(q) \in Nat
          /\ Len(Frames(q)) \in Nat /\ Len(Frames(p)) = 8 + Len(Frames(q))
      BY <1>1, <1>3, <1>6, LenProperties
    <2> HIDE DEF q
    <2>2. CASE q = <<>>
      BY <1>4, <2>1, <2>2
    <2>3. CASE q # <<>>
      <3>1. /\ Tail(q) \in Seq(Requests) /\ Len(Tail(q)) = Len(q) - 1
            /\ Len(Frames(q)) = 8 + Len(Frames(Tail(q)))
        BY <1>1, <2>1, <2>3
      <3>2. Len(p) <= 2 => Tail(q) = <<>>
        <4>1. Len(Tail(q)) \in Nat /\ (Tail(q) = <<>> <=> Len(Tail(q)) = 0)
          BY <3>1, EmptySeq, LenProperties
        <4> QED
          BY <2>1, <3>1, <4>1, <1>2
      <3>3. Len(Frames(Tail(q))) \in Nat
        BY <1>3, <3>1, FramesAre
      <3>4. Len(p) <= 2 => Len(Frames(Tail(q))) = 0
        BY <1>4, <3>2
      <3> QED
        BY <2>1, <3>1, <3>3, <3>4
    <2> QED
      BY <2>2, <2>3
  <1> QED
    BY <1>5, <1>6

-------------------------------------------------------------------------------
(* The server finds the requests (ServedInOrder) *)

\* What was sent and not handled is in the server's buffer and on the line, and the
\* server waits for more only if it has no whole request.
Served ==
  /\ lost \in BOOLEAN
  /\ pending \in Seq(Requests)
  /\ ~lost => /\ index = 0
              /\ srvBuf \in Str /\ toServer \in Str
              /\ srvBuf \o toServer = Frames(pending)
              /\ srvPc = "read" => Len(srvBuf) < 8

LEMMA ServedInit == RequestsOK /\ LinkInit => Served
  <1> SUFFICES ASSUME RequestsOK, LinkInit PROVE Served
    OBVIOUS
  <1>1. /\ lost = FALSE /\ pending = <<>> /\ index = 0
        /\ srvBuf = <<>> /\ toServer = <<>> /\ srvPc = "read"
    BY DEF LinkInit, Server!Init
  <1>2. <<>> \in Str /\ Len(<<>>) = 0 /\ <<>> \in Seq(Requests)
    BY EmptySeq DEF Str
  <1>3. <<>> \o <<>> = <<>>
    BY <1>2, WithEmpty
  <1>4. srvBuf \o toServer = Frames(pending)
    BY <1>1, <1>3, FramesEmpty
  <1>5. srvBuf \in Str /\ toServer \in Str /\ pending \in Seq(Requests) /\ Len(srvBuf) < 8
    BY <1>1, <1>2
  <1> QED
    BY <1>1, <1>4, <1>5 DEF Served

LEMMA ServedSend == RequestsOK /\ Served /\ Send => Served'
  <1> SUFFICES ASSUME RequestsOK, Served, Send PROVE Served'
    OBVIOUS
  <1>1. PICK r \in Requests :
               /\ request' = r
               /\ toServer' = toServer \o RequestFrame(r)
    BY SameRequest DEF Send, Driver!SendRequest
  <1>2. /\ pending' = IF lost THEN <<>> ELSE Append(pending, r)
        /\ UNCHANGED <<lost, index, srvBuf, srvPc>>
    BY <1>1 DEF Send, srvVars
  <1>3. CASE lost
    BY <1>2, <1>3, EmptySeq DEF Served
  <1>4. CASE ~lost
    <2> DEFINE frame == RequestFrame(r)
    <2>1. frame \in Str
      BY RequestIs
    <2>2. pending' \in Seq(Requests) /\ Frames(pending') = Frames(pending) \o frame
      BY <1>2, <1>4, AppendProperties, FramesAppend DEF Served
    <2> HIDE DEF frame
    <2>3. /\ srvBuf \in Str /\ toServer \in Str /\ srvBuf \o toServer = Frames(pending)
      BY <1>4 DEF Served
    <2>4. /\ toServer \o frame \in Str
          /\ srvBuf \o (toServer \o frame) = Frames(pending) \o frame
      <3>1. toServer \o frame \in Str
        BY <2>1, <2>3, Associate
      <3>2. (srvBuf \o toServer) \o frame = srvBuf \o (toServer \o frame)
        BY <2>1, <2>3, Associate
      <3> QED
        BY <2>3, <3>1, <3>2
    <2>5. toServer' = toServer \o frame
      BY <1>1 DEF frame
    <2> QED
      BY <1>2, <1>4, <2>2, <2>4, <2>5 DEF Served
  <1> QED
    BY <1>3, <1>4 DEF Served

LEMMA ServedRead == RequestsOK /\ Served /\ ServerReads => Served'
  <1> SUFFICES ASSUME RequestsOK, Served, ServerReads PROVE Served'
    OBVIOUS
  <1>1. UNCHANGED <<lost, pending>>
    BY DEF ServerReads, history
  <1>2. CASE lost
    BY <1>1, <1>2 DEF Served
  <1>3. CASE ~lost
    <2>1. /\ index = 0 /\ srvBuf \in Str /\ toServer \in Str
          /\ srvBuf \o toServer = Frames(pending) /\ pending \in Seq(Requests)
      BY <1>3 DEF Served
    <2>2. Server!parsedLen = IF Len(srvBuf) < 8 THEN 0 ELSE 8
      <3>1. SubSeq(srvBuf, index + 1, Len(srvBuf)) = srvBuf
        BY <2>1, SubSeqFull DEF Str
      <3>2. Server!parseRequestToServer(srvBuf) = IF Len(srvBuf) < 8 THEN 0 ELSE 8
        BY <2>1, ParseIs
      <3> QED
        BY <3>1, <3>2 DEF Server!parsedLen
    <2>3. CASE Server!Read
      <3>1. PICK n \in (ReadSizes \union {Len(toServer)}) \ {0} :
                   /\ n <= Len(toServer)
                   /\ srvBuf' = srvBuf \o SubSeq(toServer, 1, n)
                   /\ toServer' = SubSeq(toServer, n + 1, Len(toServer))
        BY <2>3 DEF Server!Read
      <3>2. n \in 0 .. Len(toServer)
        <4>1. n \in Nat
          BY <2>1, <3>1, LenProperties DEF RequestsOK, Str
        <4>2. Len(toServer) \in Nat
          BY <2>1, LenProperties DEF Str
        <4> QED
          BY <3>1, <4>1, <4>2
      <3> DEFINE a == SubSeq(toServer, 1, n)
                 b == SubSeq(toServer, n + 1, Len(toServer))
      <3>3. a \in Str /\ b \in Str /\ a \o b = toServer
        BY <2>1, <3>2, Cut
      <3>4. srvBuf' = srvBuf \o a /\ toServer' = b
        BY <3>1
      <3> HIDE DEF a, b
      <3>5. srvBuf \o a \in Str /\ (srvBuf \o a) \o b = srvBuf \o toServer
        <4>1. srvBuf \o a \in Str /\ (srvBuf \o a) \o b = srvBuf \o (a \o b)
          <5>1. srvBuf \in Str /\ a \in Str /\ b \in Str
            BY <2>1, <3>3
          <5> QED
            BY <5>1, Associate, ZenonT(40)
        <4> QED
          BY <3>3, <4>1
      <3>6. index' = index /\ srvPc' = "parse"
        BY <2>3 DEF Server!Read
      <3> QED
        BY <1>1, <2>1, <3>3, <3>4, <3>5, <3>6 DEF Served
    <2>4. CASE Server!AwaitBytes
      <3>1. ~Server!Enough \/ Server!parsedLen = 0
        BY <2>4 DEF Server!AwaitBytes
      <3>2. Len(srvBuf) < 8
        BY <2>1, <2>2, <3>1, LenProperties
           DEF Server!Enough, Server!ModbusHeaderAndCrcSize, Str
      <3>3. UNCHANGED <<toServer, srvBuf, index>>
        BY <2>4 DEF Server!AwaitBytes
      <3> QED
        BY <1>1, <2>1, <3>2, <3>3 DEF Served
    <2>5. CASE Server!SkipByte
      <3>1. Server!parsedLen = -1
        BY <2>5 DEF Server!SkipByte
      <3> QED
        BY <2>2, <3>1
    <2>6. CASE Server!Respond
      <3>1. UNCHANGED <<toServer, srvBuf, index>> /\ srvPc' = "parse"
        BY <2>6 DEF Server!Respond
      <3> QED
        BY <1>1, <2>1, <3>1 DEF Served
    <2> QED
      BY <2>3, <2>4, <2>5, <2>6 DEF ServerReads
  <1> QED
    BY <1>2, <1>3 DEF Served

\* A request is taken out of the buffer: what remains begins with the next.
LEMMA TakesHead ==
  ASSUME RequestsOK, Served, ~lost, Len(pending) <= 2, Server!TakeRequest
  PROVE  /\ pending # <<>> /\ Len(srvBuf) >= 8
         /\ Server!inPkt = RequestFrame(Head(pending))
         /\ srvBuf' \in Str /\ srvBuf' \o toServer = Frames(Tail(pending))
         /\ index' = 0 /\ toServer' = toServer /\ srvPc' # "read"
  <1>1. /\ index = 0 /\ srvBuf \in Str /\ toServer \in Str
        /\ srvBuf \o toServer = Frames(pending) /\ pending \in Seq(Requests)
    BY DEF Served
  <1>a. srvBuf # <<>> => pending # <<>>
    BY <1>1, ParseIs
  <1>2. Server!parseRequestToServer(srvBuf) = IF Len(srvBuf) < 8 THEN 0 ELSE 8
    BY <1>1, ParseIs
  <1>3. Server!parsedLen = 8 /\ Len(srvBuf) >= 8
    <2>1. SubSeq(srvBuf, index + 1, Len(srvBuf)) = srvBuf
      BY <1>1, SubSeqFull DEF Str
    <2>2. Server!parsedLen = IF Len(srvBuf) < 8 THEN 0 ELSE 8
      BY <1>2, <2>1 DEF Server!parsedLen
    <2>3. Server!parsedLen > 0
      BY DEF Server!TakeRequest
    <2>4. Len(srvBuf) \in Nat
      BY <1>1, LenProperties DEF Str
    <2> QED
      BY <2>2, <2>3, <2>4
  <1>4. pending # <<>>
    BY <1>a, <1>3, EmptySeq
  <1> DEFINE a == SubSeq(srvBuf, 1, 8)
             b == SubSeq(srvBuf, 8 + 1, Len(srvBuf))
             frame == RequestFrame(Head(pending))
             rest == Frames(Tail(pending))
  <1>5. Len(srvBuf) \in Nat /\ 8 \in 0 .. Len(srvBuf)
    BY <1>1, <1>3, LenProperties DEF Str
  <1>6. a \in Str /\ b \in Str /\ Len(a) = 8 /\ a \o b = srvBuf
    BY <1>1, <1>5, Cut
  <1>7. frame \in Str /\ Len(frame) = 8 /\ rest \in Str
    <2>1. Head(pending) \in Requests /\ Tail(pending) \in Seq(Requests)
      BY <1>1, <1>4, HeadTailProperties
    <2>2. frame \in Str /\ Len(frame) = 8
      BY <2>1, RequestIs
    <2>3. rest \in Str
      BY <2>1, FramesAre
    <2> QED
      BY <2>2, <2>3
  <1>8. srvBuf \o toServer = frame \o rest
    BY <1>1, <1>4, FramesHead
  <1>9. Len(srvBuf) <= 16
    <2>1. Len(Frames(pending)) <= 16
      BY <1>1, FramesLength
    <2>2. Len(srvBuf \o toServer) = Len(srvBuf) + Len(toServer) /\ Len(toServer) \in Nat
      BY <1>1, Associate, LenProperties DEF Str
    <2> QED
      BY <1>1, <1>5, <2>1, <2>2
  <1>10. srvBuf' = b /\ index' = 0
    <2>1. srvBuf' = Server!Remaining(index + Server!parsedLen) /\ index' = 0
      BY DEF Server!TakeRequest, Server!DiscardConsumed
    <2>2. index + Server!parsedLen = 8
      BY <1>1, <1>3
    <2>3. Server!Remaining(8) = b
      BY <1>5, <1>9 DEF Server!Remaining
    <2> QED
      BY <2>1, <2>2, <2>3
  <1>11. Server!inPkt = a
    BY <1>1, <1>3 DEF Server!inPkt
  <1>12. toServer' = toServer /\ srvPc' # "read"
    BY DEF Server!TakeRequest
  <1> HIDE DEF a, b, frame, rest
  <1>13. a = frame /\ b \o toServer = rest
    <2>0. (a \o b) \o toServer = a \o (b \o toServer) /\ b \o toServer \in Str
      <3>1. a \in Str /\ b \in Str /\ toServer \in Str
        BY <1>1, <1>6
      <3> QED
        BY <3>1, Associate, ZenonT(40)
    <2>1. a \o (b \o toServer) = frame \o rest /\ b \o toServer \in Str
      BY <1>6, <1>8, <2>0
    <2> QED
      BY <1>6, <1>7, <2>1, CutEqual
  <1> QED
    BY <1>3, <1>4, <1>6, <1>10, <1>11, <1>12, <1>13 DEF frame, rest

LEMMA ServedHandle ==
  RequestsOK /\ Served /\ Len(pending) <= 2 /\ ServerHandles => Served'
  <1> SUFFICES ASSUME RequestsOK, Served, Len(pending) <= 2, ServerHandles
               PROVE  Served'
    OBVIOUS
  <1>1. /\ Server!TakeRequest
        /\ pending' = IF pending = <<>> THEN <<>> ELSE Tail(pending)
        /\ lost' = lost
    BY DEF ServerHandles
  <1>2. lost' \in BOOLEAN /\ pending' \in Seq(Requests)
    BY <1>1, EmptySeq, HeadTailProperties DEF Served
  <1>3. CASE lost
    BY <1>1, <1>2, <1>3 DEF Served
  <1>4. CASE ~lost
    <2>1. /\ pending # <<>>
          /\ srvBuf' \in Str /\ srvBuf' \o toServer = Frames(Tail(pending))
          /\ index' = 0 /\ toServer' = toServer /\ srvPc' # "read"
      BY <1>1, <1>4, TakesHead
    <2>2. toServer \in Str
      BY <1>4 DEF Served
    <2> QED
      BY <1>1, <1>2, <1>4, <2>1, <2>2 DEF Served
  <1> QED
    BY <1>3, <1>4 DEF Served

LEMMA ServedStep ==
  RequestsOK /\ Served /\ Len(pending) <= 2 /\ [LinkNext]_linkVars => Served'
  <1> SUFFICES ASSUME RequestsOK, Served, Len(pending) <= 2, [LinkNext]_linkVars
               PROVE  Served'
    OBVIOUS
  <1>1. CASE UNCHANGED <<toServer, srvBuf, index, srvPc, lost, pending>>
    BY <1>1 DEF Served
  <1>2. CASE Send
    BY <1>2, ServedSend
  <1>3. CASE DriverReads
    BY <1>1, <1>3 DEF DriverReads, Driver!ReadBytes, srvVars, history
  <1>4. CASE Deadline
    BY <1>1, <1>4 DEF Deadline, Driver!Expire, srvVars, history
  <1>5. CASE Succeed
    BY <1>1, <1>5 DEF Succeed, Driver!EndResponse, srvVars, history
  <1>6. CASE DriverGoesOn
    BY <1>1, <1>6 DEF DriverGoesOn, Driver!EndEcho, Driver!BadEcho,
       Driver!BadResponse, Driver!EndResponse, srvVars, history
  <1>7. CASE ServerReads
    BY <1>7, ServedRead
  <1>8. CASE ServerHandles
    BY <1>8, ServedHandle
  <1>9. CASE Disturb
    <2>1. CASE lost' = TRUE /\ pending' = <<>>
      BY <2>1, EmptySeq DEF Served
    <2>2. CASE UNCHANGED <<toServer, lost, pending>>
      BY <1>1, <1>9, <2>2 DEF Disturb, srvVars
    <2> QED
      BY <1>9, <2>1, <2>2 DEF Disturb, history
  <1>10. CASE Refuse
    BY <1>1, <1>10 DEF Refuse, history
  <1>11. CASE UNCHANGED linkVars
    BY <1>1, <1>11 DEF linkVars, srvVars, history
  <1> QED
    BY <1>2, <1>3, <1>4, <1>5, <1>6, <1>7, <1>8, <1>9, <1>10, <1>11 DEF LinkNext

LEMMA ServedSays == Served => ServedInOrder
  BY DEF Served, ServedInOrder, Frames

\* While no more than two requests wait, what the server takes for requests is
\* what the driver sent, each once and in order, for any requests, any cuts of
\* its reads and any size of its buffer.
THEOREM RequestsServed == LinkSpec /\ [](Len(pending) <= 2) => []ServedInOrder
  <1> SUFFICES ASSUME RequestsOK
               PROVE  LinkSpec /\ [](Len(pending) <= 2) => []ServedInOrder
    BY RequestsAssumption
  <1>1. LinkInit => Served
    BY ServedInit
  <1>2. Served /\ Len(pending) <= 2 /\ [LinkNext]_linkVars => Served'
    BY ServedStep
  <1>3. Served => ServedInOrder
    BY ServedSays
  <1> QED
    BY <1>1, <1>2, <1>3, PTL DEF LinkSpec

\* A request follows another that waits only at the cost of a fault.
OneWaits ==
  /\ faultsLeft \in Nat /\ faultsLeft <= MaxFaults
  /\ lost => pending = <<>>
  /\ Len(pending) <= 1 + (MaxFaults - faultsLeft)

LEMMA NothingWaits ==
  ASSUME RequestsOK, Served, ~lost, ServerIsDone
  PROVE  pending = <<>> /\ srvBuf = <<>> /\ toServer = <<>>
  <1>1. /\ srvBuf \in Str /\ toServer = <<>> /\ Len(srvBuf) < 8
        /\ srvBuf \o toServer = Frames(pending) /\ pending \in Seq(Requests)
    BY DEF Served, ServerIsDone
  <1>2. srvBuf = Frames(pending)
    BY <1>1, WithEmpty
  <1>3. pending = <<>>
    <2>1. Len(srvBuf) \in Nat
      BY <1>1, LenProperties DEF Str
    <2> QED
      BY <1>1, <1>2, <2>1, FramesLength
  <1> QED
    BY <1>1, <1>2, <1>3, FramesEmpty

LEMMA OneWaitsStep ==
  RequestsOK /\ Served /\ OneWaits /\ [LinkNext]_linkVars => OneWaits'
  <1> SUFFICES ASSUME RequestsOK, Served, OneWaits, [LinkNext]_linkVars
               PROVE  OneWaits'
    OBVIOUS
  <1>0. MaxFaults \in Nat /\ faultsLeft \in Nat /\ pending \in Seq(Requests) /\ Len(pending) \in Nat
        /\ Len(<<>>) = 0
    BY LenProperties, EmptySeq DEF RequestsOK, OneWaits, Served
  <1>1. CASE UNCHANGED <<faultsLeft, lost, pending>>
    BY <1>1 DEF OneWaits
  <1>2. CASE Send
    <2>1. PICK r \in Requests :
                 /\ pending' = IF lost THEN <<>> ELSE Append(pending, r)
                 /\ \/ ServerIsDone /\ faultsLeft' = faultsLeft
                    \/ faultsLeft > 0 /\ faultsLeft' = faultsLeft - 1
      BY <1>2 DEF Send, Driver!SendRequest
    <2>2. lost' = lost
      BY <1>2 DEF Send
    <2>3. CASE lost
      BY <1>0, <2>1, <2>2, <2>3 DEF OneWaits
    <2>4. CASE ~lost
      <3>1. Len(pending') = Len(pending) + 1
        BY <1>0, <2>1, <2>4, AppendProperties
      <3>2. ServerIsDone => Len(pending) = 0
        BY <1>0, <2>4, NothingWaits
      <3> QED
        BY <1>0, <2>1, <2>2, <2>4, <3>1, <3>2 DEF OneWaits
    <2> QED
      BY <2>3, <2>4 DEF Served
  <1>3. CASE DriverReads
    BY <1>1, <1>3 DEF DriverReads, history
  <1>4. CASE Deadline
    BY <1>1, <1>4 DEF Deadline, history
  <1>5. CASE Succeed
    BY <1>1, <1>5 DEF Succeed, history
  <1>6. CASE DriverGoesOn
    BY <1>1, <1>6 DEF DriverGoesOn, history
  <1>7. CASE ServerReads
    BY <1>1, <1>7 DEF ServerReads, history
  <1>8. CASE ServerHandles
    <2>1. /\ pending' = IF pending = <<>> THEN <<>> ELSE Tail(pending)
          /\ UNCHANGED <<faultsLeft, lost>>
      BY <1>8 DEF ServerHandles
    <2>2. CASE pending = <<>>
      BY <2>1, <2>2 DEF OneWaits
    <2>3. CASE pending # <<>>
      <3>1. Len(pending') = Len(pending) - 1 /\ ~lost
        BY <1>0, <2>1, <2>3, HeadTailProperties DEF OneWaits
      <3> QED
        BY <1>0, <2>1, <3>1 DEF OneWaits
    <2> QED
      BY <2>2, <2>3
  <1>9. CASE Disturb
    <2>1. faultsLeft > 0 /\ faultsLeft' = faultsLeft - 1
      BY <1>9 DEF Disturb
    <2>2. CASE pending' = <<>>
      BY <1>0, <2>1, <2>2 DEF OneWaits
    <2>3. CASE UNCHANGED <<lost, pending>>
      BY <1>0, <2>1, <2>3 DEF OneWaits
    <2> QED
      BY <1>9, <2>2, <2>3 DEF Disturb, history
  <1>10. CASE Refuse
    BY <1>0, <1>10 DEF Refuse, history, OneWaits
  <1>11. CASE UNCHANGED linkVars
    BY <1>1, <1>11 DEF linkVars, history
  <1> QED
    BY <1>2, <1>3, <1>4, <1>5, <1>6, <1>7, <1>8, <1>9, <1>10, <1>11 DEF LinkNext

\* With at most one disturbance, refusal or request sent too early, never do more than
\* two requests wait, and what the server takes for requests is what the driver sent
\* (FakeVfdTask::func).  With two requests sent too early three may wait, and the
\* server loses its place (Remaining).
THEOREM RequestsServedInOrder == MaxFaults <= 1 => (LinkSpec => []ServedInOrder)
  <1> SUFFICES ASSUME RequestsOK, MaxFaults <= 1
               PROVE  LinkSpec => []ServedInOrder
    BY RequestsAssumption
  <1>1. LinkInit => Served /\ OneWaits
    <2>1. LinkInit => OneWaits
      BY EmptySeq DEF LinkInit, OneWaits, RequestsOK
    <2> QED
      BY <2>1, ServedInit
  <1>2. Served /\ OneWaits => Len(pending) <= 2
    <2>1. Served /\ OneWaits => Len(pending) \in Nat
      BY LenProperties DEF Served
    <2> QED
      BY <2>1 DEF OneWaits, RequestsOK
  <1>3. Served /\ OneWaits /\ [LinkNext]_linkVars => Served' /\ OneWaits'
    BY <1>2, ServedStep, OneWaitsStep
  <1> QED
    BY <1>1, <1>3, ServedSays, PTL DEF LinkSpec

-------------------------------------------------------------------------------
(* What the driver accepts is true (AcceptedIsTrue) *)

LEMMA Behind ==
  ASSUME NEW s \in Str, NEW k \in Nat
  PROVE  /\ SubSeq(s, k + 1, Len(s)) \in Str
         /\ Len(SubSeq(s, k + 1, Len(s))) <= Len(s)
  <1>1. Len(s) \in Nat /\ \A i \in 1 .. Len(s) : s[i] \in Byte
    BY LenProperties, ElementOfSeq DEF Str
  <1>2. \A i \in k + 1 .. Len(s) : s[i] \in Byte
    BY <1>1
  <1>3. /\ SubSeq(s, k + 1, Len(s)) \in Str
        /\ Len(SubSeq(s, k + 1, Len(s))) = IF k + 1 <= Len(s) THEN Len(s) - (k + 1) + 1 ELSE 0
    BY <1>1, <1>2, SubSeqProperties DEF Str
  <1> QED
    BY <1>1, <1>3

\* Losses and changes on the line only take bytes away from it.
LEMMA DisturbedIs ==
  ASSUME RequestsOK, NEW s \in Str, NEW t \in Disturbed(s)
  PROVE  t \in Str /\ Len(t) <= Len(s)
  <1>1. Len(s) \in Nat /\ (\A i \in 1 .. Len(s) : s[i] \in Byte) /\ DOMAIN s = 1 .. Len(s)
    BY LenProperties, ElementOfSeq DEF Str
  <1>2. ASSUME NEW n \in LossSizes, NEW i \in 1 .. Len(s), t = Without(s, i, n)
        PROVE  t \in Str /\ Len(t) <= Len(s)
    <2>1. n \in Nat /\ n >= 1 /\ i \in Nat
      BY DEF RequestsOK
    <2> DEFINE a == SubSeq(s, 1, i - 1)
               b == SubSeq(s, i + n, Len(s))
    <2>2. a \in Str /\ Len(a) = i - 1
      <3>1. i - 1 \in 0 .. Len(s)
        BY <1>1
      <3> QED
        BY <3>1, Cut
    <2>3. b \in Str /\ Len(b) = IF i + n <= Len(s) THEN Len(s) - (i + n) + 1 ELSE 0
      <3>1. i + n \in Int /\ \A j \in i + n .. Len(s) : s[j] \in Byte
        BY <1>1, <2>1
      <3> QED
        BY <1>1, <3>1, SubSeqProperties DEF Str
    <2>4. t = a \o b
      BY <1>2 DEF Without
    <2> HIDE DEF a, b
    <2>5. t \in Str /\ Len(t) = Len(a) + Len(b)
      BY <2>2, <2>3, <2>4, Associate
    <2> QED
      BY <1>1, <2>1, <2>2, <2>3, <2>5
  <1>3. ASSUME NEW i \in 1 .. Len(s), t = [s EXCEPT ![i] = FlipBit(@, 1)]
        PROVE  t \in Str /\ Len(t) <= Len(s)
    <2> DEFINE e == FlipBit(s[i], 1)
    <2>1. e \in Byte
      <3> DEFINE b == s[i]
                 f == FlipBit(b, 1)
      <3>1. b \in Byte
        BY <1>1
      <3> HIDE DEF b
      <3>2. f \in Nat /\ f <= 255
        BY <3>1 DEF FlipBit, Byte
      <3> HIDE DEF f
      <3>3. f \in Byte
        BY <3>2 DEF Byte
      <3> QED
        BY <3>3 DEF b, f
    <2>2. t = [s EXCEPT ![i] = e]
      BY <1>3
    <2> HIDE DEF e
    <2>3. [s EXCEPT ![i] = e] \in Str /\ Len([s EXCEPT ![i] = e]) = Len(s)
      BY <2>1, ExceptSeq DEF Str
    <2> QED
      BY <1>1, <2>2, <2>3
  <1> QED
    BY <1>1, <1>2, <1>3 DEF Disturbed

\* What the drive may answer to a request: nothing to a broadcast, or an exception.
Answers(r) ==
  {<<>>} \union {e \in Str : Len(e) = 5}
    \union IF r.command = 6 THEN {RequestFrame(r)} ELSE {Server!StatusResponse(r.node)}

\* An answer can still be refused, once.
Refusable(a) == a # <<>> => Len(a) = 5 \/ (Len(a) >= 2 /\ a[2] <= 127)

LEMMA HandleCommandIs ==
  ASSUME RequestsOK, NEW r \in Requests, frequencies \in [Addresses -> Words],
         outPkt = <<>>, Server!HandleCommand(RequestFrame(r))
  PROVE  /\ frequencies' \in [Addresses -> Words]
         /\ r.command = 6 => frequencies'[r.node] = r.data
         /\ outPkt' \in Str /\ outPkt' \in Answers(r)' /\ Refusable(outPkt')
  <1> DEFINE frame == RequestFrame(r)
  <1>1. /\ frame \in Str /\ Len(frame) = 8
        /\ frame[1] = r.node /\ frame[2] = r.command
        /\ r.command = 6 => /\ Word(frame[3], frame[4]) = 170
                            /\ Word(frame[5], frame[6]) = r.data
        /\ r.command = 3 => /\ Word(frame[3], frame[4]) = 8448
                            /\ Word(frame[5], frame[6]) = 8
    BY RequestIs
  <1>2. /\ r.node \in Addresses /\ r.node \in Byte /\ r.data \in Words
        /\ r.command \in {3, 6} /\ 0 \in Addresses /\ (r.node = 0 => r.command = 6)
    BY DEF RequestsOK, ReadMultipleRegisters, WriteSingleRegister
  <1> HIDE DEF frame
  <1>3. \A x, y : Server!Word(x, y) = Word(x, y)
    BY DEF Server!Word, Word
  <1>4. Server!frequencyRegAddress = 170
    BY DEF Server!frequencyRegAddress, Server!paramReg
  <1>5. frame # <<>>
    <2>1. frame \in Str /\ Len(frame) = 8
      BY <1>1
    <2> QED
      BY <2>1, EmptySeq, SMTT(30)
  <1>6. Server!HandleCommand(frame)
    BY DEF frame
  <1>7. CASE r.command = 3
    <2>1. Server!IsStatusRead(frame) /\ ~Server!IsFrequencyWrite(frame)
      BY <1>1, <1>3, <1>7
         DEF Server!IsStatusRead, Server!IsFrequencyWrite,
             Server!ReadMultipleRegisters, Server!WriteSingleRegister,
             Server!statusRegAddress, Server!statusRegNum
    <2>2. outPkt' = Server!StatusResponse(r.node) /\ frequencies' = frequencies
      BY <1>1, <1>6, <2>1 DEF Server!HandleCommand
    <2>3. Server!StatusResponse(r.node)' = Server!StatusResponse(r.node)
      BY <2>2 DEF Server!StatusResponse
    <2> DEFINE status == Server!StatusResponse(r.node)
    <2>4. status \in Str /\ Len(status) = 21 /\ status[2] = 3
      <3>1. frequencies[r.node] \in Words
        BY <1>2
      <3> QED
        BY <1>2, <3>1, StatusIs
    <2>5. outPkt' \in Answers(r)'
      BY <1>7, <2>2, <2>3 DEF Answers
    <2> HIDE DEF status
    <2>6. outPkt' = status
      BY <2>2 DEF status
    <2>7. status \in Str /\ Refusable(status)
      BY <2>4 DEF Refusable, status
    <2>8. frequencies' \in [Addresses -> Words]
      BY <2>2
    <2> QED
      BY <1>7, <2>5, <2>6, <2>7, <2>8
  <1>8. CASE r.command = 6
    <2>1. ~Server!IsStatusRead(frame) /\ Server!IsFrequencyWrite(frame)
      BY <1>1, <1>3, <1>4, <1>8
         DEF Server!IsStatusRead, Server!IsFrequencyWrite,
             Server!ReadMultipleRegisters, Server!WriteSingleRegister
    <2>2. Server!Word(frame[5], frame[6]) = r.data
      BY <1>1, <1>3, <1>8
    <2>3. CASE r.node = 0
      <3>1. frequencies' = [a \in Addresses |-> r.data] /\ outPkt' = <<>>
        BY <1>1, <1>6, <2>1, <2>2, <2>3 DEF Server!HandleCommand
      <3>2. <<>> \in Str
        BY EmptySeq DEF Str
      <3> QED
        BY <1>2, <3>1, <3>2 DEF Answers, Refusable
    <2>4. CASE r.node # 0
      <3>1. frequencies' = [frequencies EXCEPT ![r.node] = r.data] /\ outPkt' = frame
        BY <1>1, <1>6, <2>1, <2>2, <2>4 DEF Server!HandleCommand
      <3>2. frequencies' \in [Addresses -> Words] /\ frequencies'[r.node] = r.data
        BY <1>2, <3>1
      <3>3. outPkt' \in Answers(r)'
        BY <1>8, <3>1 DEF Answers, frame
      <3>4. frame \in Str /\ Refusable(frame)
        BY <1>1, <1>8 DEF Refusable
      <3>5. outPkt' \in Str /\ Refusable(outPkt')
        BY <3>1, <3>4
      <3> QED
        BY <3>2, <3>3, <3>5
    <2> QED
      BY <2>3, <2>4
  <1> QED
    BY <1>2, <1>7, <1>8

\* No byte was disturbed on the way to the server, no request was sent too early.
Alone == ~lost /\ ~overlapped

\* At most the request of the driver waits then, and what came back since it was
\* sent, the echo that the driver took included, is no more than what the server has.
Taken == IF drvPc = "response" THEN 8 ELSE 0

Sides ==
  /\ drvBuf \in Str /\ toDriver \in Str /\ outPkt \in Str
  /\ frequencies \in [Addresses -> Words]
  /\ outPkt # <<>> <=> srvPc = "respond"
  /\ Refusable(outPkt)
  /\ Len(pending) <= 1
  /\ pending # <<>> => Head(pending) = request /\ srvPc # "respond"

Asking ==
  drvPc # "idle" =>
    /\ drvPc \in {"echo", "response"}
    /\ request \in Requests /\ outBuf = RequestFrame(request)
    /\ pending # <<>> => Len(drvBuf) + Len(toDriver) + Taken <= Len(srvBuf)
    /\ pending = <<>> /\ request.command = 6 => frequencies[request.node] = request.data

Exchange == Served /\ Sides /\ Asking

\* What came back, if nothing was disturbed on that way either.
Echo == IF drvPc = "echo" THEN outBuf ELSE <<>>

Returned ==
  drvPc # "idle" =>
    /\ pending # <<>> /\ drvPc = "echo" => drvBuf \o toDriver = srvBuf
    /\ pending = <<>> =>
         \E a \in Answers(request) :
           /\ drvBuf \o toDriver = Echo \o a
           /\ srvPc = "respond" => a = <<>> /\ outPkt \in Answers(request)

LEMMA AloneBefore == [LinkNext]_linkVars /\ Alone' => Alone
  <1> SUFFICES ASSUME [LinkNext]_linkVars, Alone' PROVE Alone
    OBVIOUS
  <1>1. CASE UNCHANGED <<lost, overlapped>>
    BY <1>1 DEF Alone
  <1>2. CASE Send
    BY <1>1, <1>2 DEF Send, Alone
  <1>3. CASE DriverReads
    BY <1>1, <1>3 DEF DriverReads, history
  <1>4. CASE Deadline
    BY <1>1, <1>4 DEF Deadline, history
  <1>5. CASE Succeed
    BY <1>1, <1>5 DEF Succeed, history
  <1>6. CASE DriverGoesOn
    BY <1>1, <1>6 DEF DriverGoesOn, history
  <1>7. CASE ServerReads
    BY <1>1, <1>7 DEF ServerReads, history
  <1>8. CASE ServerHandles
    BY <1>1, <1>8 DEF ServerHandles
  <1>9. CASE Disturb
    BY <1>1, <1>9 DEF Disturb, history, Alone
  <1>10. CASE Refuse
    BY <1>1, <1>10 DEF Refuse, history
  <1>11. CASE UNCHANGED linkVars
    BY <1>1, <1>11 DEF linkVars, history
  <1> QED
    BY <1>2, <1>3, <1>4, <1>5, <1>6, <1>7, <1>8, <1>9, <1>10, <1>11 DEF LinkNext

LEMMA ExchangeInit == RequestsOK /\ LinkInit => Exchange /\ Returned
  <1> SUFFICES ASSUME RequestsOK, LinkInit PROVE Exchange /\ Returned
    OBVIOUS
  <1>1. /\ drvBuf = <<>> /\ toDriver = <<>> /\ outPkt = <<>> /\ pending = <<>>
        /\ srvPc = "read" /\ drvPc = "idle" /\ frequencies = [a \in Addresses |-> 0]
    BY DEF LinkInit, Server!Init, Driver!Init
  <1>2. <<>> \in Str /\ Len(<<>>) = 0
    BY EmptySeq DEF Str
  <1>3. 0 \in Words
    BY IsWord
  <1>4. Sides
    BY <1>1, <1>2, <1>3 DEF Sides, Refusable
  <1>5. Asking /\ Returned
    BY <1>1 DEF Asking, Returned
  <1> QED
    BY <1>4, <1>5, ServedInit DEF Exchange

\* Only the status of a drive is longer than a request.
LEMMA AnswersAre ==
  ASSUME RequestsOK, NEW r \in Requests, frequencies \in [Addresses -> Words],
         NEW a \in Answers(r)
  PROVE  /\ a \in Str
         /\ Len(a) >= 9 => r.command # 6 /\ a = Server!StatusResponse(r.node) /\ Len(a) = 21
  <1>1. CASE a = <<>>
    BY <1>1, EmptySeq DEF Str
  <1>2. CASE a \in {e \in Str : Len(e) = 5}
    <2>1. a \in Str /\ Len(a) = 5
      BY <1>2
    <2> QED
      BY <2>1
  <1>3. CASE r.command = 6 /\ a = RequestFrame(r)
    <2> DEFINE frame == RequestFrame(r)
    <2>1. frame \in Str /\ Len(frame) = 8
      BY RequestIs
    <2> HIDE DEF frame
    <2>2. a = frame
      BY <1>3 DEF frame
    <2>3. a \in Str /\ Len(a) = 8
      BY <2>1, <2>2
    <2> QED
      BY <2>3
  <1>4. CASE r.command # 6 /\ a = Server!StatusResponse(r.node)
    <2>1. r.node \in Addresses /\ r.node \in Byte /\ frequencies[r.node] \in Words
      BY DEF RequestsOK
    <2>2. /\ Server!StatusResponse(r.node) \in Str
          /\ Len(Server!StatusResponse(r.node)) = 21
      BY <2>1, StatusIs
    <2> QED
      BY <1>4, <2>2
  <1> QED
    BY <1>1, <1>2, <1>3, <1>4 DEF Answers

\* At most one request is on its way, in the server's buffer and on the line.
LEMMA OneOnTheLine ==
  ASSUME RequestsOK, Alone, Exchange
  PROVE  /\ srvBuf \in Str /\ toServer \in Str
         /\ Len(srvBuf) \in Nat /\ Len(toServer) \in Nat
         /\ pending = <<>> => Len(srvBuf) + Len(toServer) = 0
         /\ pending # <<>> => Len(srvBuf) + Len(toServer) = 8
         /\ pending # <<>> => /\ request \in Requests
                              /\ srvBuf \o toServer = RequestFrame(request)
  <1>1. /\ srvBuf \in Str /\ toServer \in Str /\ pending \in Seq(Requests)
        /\ srvBuf \o toServer = Frames(pending)
    BY DEF Alone, Exchange, Served
  <1>2. /\ Len(srvBuf) \in Nat /\ Len(toServer) \in Nat
        /\ Len(srvBuf \o toServer) = Len(srvBuf) + Len(toServer)
    BY <1>1, Associate, LenProperties DEF Str
  <1>3. ASSUME pending = <<>>
        PROVE  Len(srvBuf) + Len(toServer) = 0
    <2>1. Len(<<>>) = 0
      BY EmptySeq
    <2> QED
      BY <1>1, <1>2, <1>3, <2>1, FramesEmpty
  <1>4. ASSUME pending # <<>>
        PROVE  /\ Len(srvBuf) + Len(toServer) = 8
               /\ request \in Requests /\ srvBuf \o toServer = RequestFrame(request)
    <2>1. /\ Head(pending) = request /\ Len(pending) <= 1 /\ Len(pending) \in Nat \ {0}
          /\ Head(pending) \in Requests
          /\ Tail(pending) \in Seq(Requests) /\ Len(Tail(pending)) = Len(pending) - 1
      BY <1>1, <1>4, HeadTailProperties, EmptySeq, LenProperties DEF Exchange, Sides
    <2>2. Tail(pending) = <<>>
      BY <2>1, EmptySeq
    <2> DEFINE frame == RequestFrame(request)
    <2>3. frame \in Str /\ Len(frame) = 8
      BY <2>1, RequestIs
    <2>4. Frames(pending) = frame \o <<>>
      BY <1>1, <1>4, <2>1, <2>2, FramesHead, FramesEmpty
    <2> HIDE DEF frame
    <2>5. Frames(pending) = frame
      BY <2>3, <2>4, WithEmpty
    <2>6. Len(srvBuf) + Len(toServer) = 8 /\ srvBuf \o toServer = frame
      BY <1>1, <1>2, <2>3, <2>5
    <2>7. request \in Requests
      BY <2>1
    <2> QED
      BY <2>6, <2>7 DEF frame
  <1> QED
    BY <1>1, <1>2, <1>3, <1>4

\* A request is sent when nothing of an exchange is left.
LEMMA ExchangeSend ==
  ASSUME RequestsOK, Alone, Alone', Exchange, Send
  PROVE  Sides' /\ Asking' /\ Returned'
  <1>1. ~lost /\ ~overlapped'
    BY DEF Alone
  <1>2. PICK arrived \in {0, Len(toDriver)}, r \in Requests :
               /\ Driver!SendRequest(r, arrived)
               /\ ServerIsDone /\ arrived = Len(toDriver)
    BY <1>1 DEF Send
  <1>3. /\ request' = r /\ drvBuf' = <<>> /\ drvPc' = "echo"
        /\ toDriver' = SubSeq(toDriver, arrived + 1, Len(toDriver))
        /\ outBuf' = RequestFrame(r)
    BY <1>2, SameRequest DEF Driver!SendRequest, Driver!flushInput
  <1>4. pending = <<>> /\ srvBuf = <<>>
    BY <1>1, <1>2, NothingWaits DEF Exchange
  <1>5. /\ pending' = Append(pending, r)
        /\ UNCHANGED <<srvBuf, srvPc, outPkt, frequencies>>
    BY <1>1, <1>3 DEF Send, srvVars
  <1>6. /\ drvBuf \in Str /\ toDriver \in Str /\ outPkt \in Str
        /\ frequencies \in [Addresses -> Words]
        /\ outPkt # <<>> <=> srvPc = "respond"
        /\ Refusable(outPkt)
    BY DEF Exchange, Sides
  <1>7. toDriver' = <<>>
    <2>1. Len(toDriver) \in Nat
      BY <1>6, LenProperties DEF Str
    <2> DEFINE n == Len(toDriver)
               behind == SubSeq(toDriver, n + 1, Len(toDriver))
    <2>2. n \in 0 .. Len(toDriver) /\ Len(toDriver) - n = 0
      BY <2>1
    <2> HIDE DEF n
    <2>3. behind \in Str /\ Len(behind) = 0
      <3>1. toDriver \in Str
        BY <1>6
      <3> QED
        BY <2>2, <3>1, Cut
    <2> HIDE DEF behind
    <2>4. behind = <<>>
      BY <2>3, EmptySeq DEF Str
    <2> QED
      BY <1>2, <1>3, <2>4 DEF behind, n
  <1>8. /\ Len(pending') = 1 /\ Head(pending') = r /\ pending' # <<>>
    <2>1. pending \in Seq(Requests) /\ Len(pending) = 0
      BY <1>4, EmptySeq
    <2>2. /\ pending' \in Seq(Requests) /\ Len(pending') = 1 /\ pending'[1] = r
      BY <1>5, <2>1, AppendProperties
    <2> QED
      BY <2>2, EmptySeq, HeadTailProperties
  <1>9. <<>> \in Str /\ Len(<<>>) = 0 /\ <<>> \o <<>> = <<>>
    BY EmptySeq, WithEmpty DEF Str
  <1>10. srvPc = "read"
    BY <1>2 DEF ServerIsDone
  <1>11. Sides'
    <2>1. drvBuf' \in Str /\ toDriver' \in Str /\ outPkt' \in Str
      BY <1>3, <1>5, <1>6, <1>7, <1>9
    <2>2. /\ frequencies' \in [Addresses -> Words]
          /\ outPkt' # <<>> <=> srvPc' = "respond"
          /\ Refusable(outPkt)'
      BY <1>5, <1>6 DEF Refusable
    <2>3. Len(pending') <= 1 /\ Head(pending') = request' /\ srvPc' # "respond"
      BY <1>3, <1>5, <1>8, <1>10
    <2> QED
      BY <2>1, <2>2, <2>3 DEF Sides
  <1>12. Asking'
    BY <1>3, <1>4, <1>5, <1>7, <1>8, <1>9 DEF Asking, Taken
  <1>13. Returned'
    BY <1>3, <1>4, <1>5, <1>7, <1>8, <1>9 DEF Returned
  <1> QED
    BY <1>11, <1>12, <1>13

LEMMA ExchangeDriverReads ==
  ASSUME RequestsOK, Exchange, DriverReads
  PROVE  Sides' /\ Asking' /\ (Returned => Returned')
  <1>1. PICK n \in ReadSizes \union {Len(toDriver)} :
               /\ n <= Len(toDriver)
               /\ drvBuf' = drvBuf \o SubSeq(toDriver, 1, n)
               /\ toDriver' = SubSeq(toDriver, n + 1, Len(toDriver))
    BY DEF DriverReads, Driver!ReadBytes, Driver!TakeBytes
  <1>2. UNCHANGED <<drvPc, request, outBuf, srvBuf, srvPc, outPkt, frequencies, pending>>
    BY DEF DriverReads, Driver!ReadBytes, srvVars, history
  <1>3. /\ drvBuf \in Str /\ toDriver \in Str
    BY DEF Exchange, Sides
  <1>4. n \in 0 .. Len(toDriver)
    <2>1. n \in Nat /\ Len(toDriver) \in Nat
      BY <1>1, <1>3, LenProperties DEF RequestsOK, Str
    <2> QED
      BY <1>1, <2>1
  <1> DEFINE a == SubSeq(toDriver, 1, n)
             b == SubSeq(toDriver, n + 1, Len(toDriver))
  <1>5. a \in Str /\ b \in Str /\ a \o b = toDriver
    BY <1>3, <1>4, Cut
  <1>6. drvBuf' = drvBuf \o a /\ toDriver' = b
    BY <1>1
  <1> HIDE DEF a, b
  <1>7. /\ drvBuf \o a \in Str /\ (drvBuf \o a) \o b = drvBuf \o toDriver
        /\ Len(drvBuf \o a) + Len(b) = Len(drvBuf) + Len(toDriver)
    <2>0. drvBuf \in Str /\ a \in Str /\ b \in Str
      BY <1>3, <1>5
    <2>1. /\ (drvBuf \o a) \o b = drvBuf \o (a \o b) /\ drvBuf \o a \in Str
          /\ Len(drvBuf \o a) = Len(drvBuf) + Len(a)
      BY <2>0, Associate
    <2>2. Len(a \o b) = Len(a) + Len(b)
      BY <1>5, Associate
    <2>3. Len(drvBuf) \in Nat /\ Len(a) \in Nat /\ Len(b) \in Nat
      BY <1>3, <1>5, LenProperties DEF Str
    <2> QED
      BY <1>5, <2>1, <2>2, <2>3
  <1>8. Sides'
    BY <1>2, <1>5, <1>6, <1>7 DEF Exchange, Sides, Refusable
  <1>9. Asking'
    BY <1>2, <1>6, <1>7 DEF Exchange, Asking, Taken
  <1>10. ASSUME Returned
         PROVE  Returned'
    <2>1. Answers(request)' = Answers(request)
      BY <1>2 DEF Answers, Server!StatusResponse
    <2>2. Echo' = Echo /\ drvBuf' \o toDriver' = drvBuf \o toDriver
      BY <1>2, <1>6, <1>7 DEF Echo
    <2> QED
      BY <1>2, <1>10, <2>1, <2>2 DEF Returned
  <1> QED
    BY <1>8, <1>9, <1>10

\* After a bad echo and after a response nothing is asked.
LEMMA ExchangeEnds ==
  ASSUME Exchange,
         Succeed \/ (DriverGoesOn /\ (Driver!BadEcho \/ Driver!BadResponse))
  PROVE  Sides' /\ Asking' /\ Returned'
  <1>1. /\ drvPc' = "idle"
        /\ UNCHANGED <<toDriver, request, srvPc, outPkt, frequencies, pending>>
    BY DEF Succeed, DriverGoesOn, Driver!BadEcho, Driver!BadResponse,
           Driver!EndResponse, srvVars, history
  <1>2. drvBuf \in Str
    BY DEF Exchange, Sides
  <1>3. \/ drvBuf' = <<>>
        \/ \E k \in Nat : drvBuf' = SubSeq(drvBuf, k + 1, Len(drvBuf))
    <2>1. Len(drvBuf) \in Nat
      BY <1>2, LenProperties DEF Str
    <2>2. Driver!expectedResponseLen \in Nat /\ Driver!ModbusExceptionPktSize \in Nat
      BY DEF Driver!expectedResponseLen, Driver!modbusExpectedResponseLength,
             Driver!ModbusHeaderAndCrcSize, Driver!statusRegNum,
             Driver!ModbusExceptionPktSize
    <2>3. CASE Succeed
      BY <2>2, <2>3 DEF Succeed, Driver!GoodResponse, Driver!shiftOutConsumedBytes
    <2>4. CASE Driver!BadEcho
      BY <2>1, <2>4 DEF Driver!BadEcho, Driver!shiftOutConsumedBytes
    <2>5. CASE Driver!BadResponse
      BY <2>2, <2>5
         DEF Driver!BadResponse, Driver!ExceptionResponse, Driver!NotEnoughBytes,
             Driver!MalformedPacket, Driver!shiftOutConsumedBytes
    <2> QED
      BY <2>3, <2>4, <2>5
  <1>4. drvBuf' \in Str
    <2>1. <<>> \in Str
      BY EmptySeq DEF Str
    <2> QED
      BY <1>2, <1>3, <2>1, Behind
  <1>5. Sides'
    BY <1>1, <1>4 DEF Exchange, Sides, Refusable
  <1> QED
    BY <1>1, <1>5 DEF Asking, Returned

LEMMA ExchangeEcho ==
  ASSUME RequestsOK, Exchange, DriverGoesOn, Driver!EndEcho
  PROVE  Sides' /\ Asking' /\ (Returned => Returned')
  <1>1. /\ drvPc = "echo" /\ drvPc' \in {"idle", "response"}
        /\ Len(drvBuf) >= Len(outBuf) /\ SubSeq(drvBuf, 1, Len(outBuf)) = outBuf
        /\ drvBuf' = SubSeq(drvBuf, Len(outBuf) + 1, Len(drvBuf))
        /\ UNCHANGED <<toDriver, request, outBuf>>
    BY DEF Driver!EndEcho, Driver!EchoMatches, Driver!outLen,
           Driver!shiftOutConsumedBytes
  <1>2. UNCHANGED <<srvBuf, srvPc, outPkt, frequencies, pending>>
    BY DEF DriverGoesOn, srvVars, history
  <1>3. /\ drvBuf \in Str /\ toDriver \in Str
    BY DEF Exchange, Sides
  <1>4. /\ request \in Requests /\ outBuf = RequestFrame(request)
        /\ pending # <<>> => Len(drvBuf) + Len(toDriver) + 0 <= Len(srvBuf)
        /\ pending = <<>> /\ request.command = 6 => frequencies[request.node] = request.data
    BY <1>1 DEF Exchange, Asking, Taken
  <1>5. outBuf \in Str /\ Len(outBuf) = 8
    BY <1>4, RequestIs
  <1> DEFINE b == SubSeq(drvBuf, Len(outBuf) + 1, Len(drvBuf))
  <1>6. /\ Len(drvBuf) \in Nat /\ Len(toDriver) \in Nat /\ Len(outBuf) \in 0 .. Len(drvBuf)
    BY <1>1, <1>3, <1>5, LenProperties DEF Str
  <1>7. b \in Str /\ Len(b) = Len(drvBuf) - 8 /\ outBuf \o b = drvBuf
    BY <1>1, <1>3, <1>5, <1>6, Cut
  <1>8. drvBuf' = b
    BY <1>1
  <1> HIDE DEF b
  <1>9. Sides'
    BY <1>1, <1>2, <1>7, <1>8 DEF Exchange, Sides, Refusable
  <1>10. Asking'
    <2>1. /\ request' \in Requests /\ outBuf' = RequestFrame(request')
          /\ pending' = <<>> /\ request'.command = 6
               => frequencies'[request'.node] = request'.data
      BY <1>1, <1>2, <1>4
    <2>2. drvPc' = "response" => Taken' = 8
      BY DEF Taken
    <2>3. pending' # <<>> => Len(drvBuf') + Len(toDriver') + 8 <= Len(srvBuf')
      <3>1. Len(b) + 8 = Len(drvBuf)
        BY <1>6, <1>7
      <3>2. Len(b) \in Nat
        BY <1>7, LenProperties DEF Str
      <3>3. /\ pending # <<>> => Len(drvBuf) + Len(toDriver) <= Len(srvBuf)
            /\ Len(b) + Len(toDriver) + 8 = Len(drvBuf) + Len(toDriver)
        BY <1>4, <1>6, <3>1, <3>2
      <3> QED
        BY <1>1, <1>2, <1>8, <3>3
    <2> QED
      BY <1>1, <2>1, <2>2, <2>3 DEF Asking
  <1>11. ASSUME Returned, drvPc' = "response", pending' = <<>>
         PROVE  \E a \in Answers(request)' :
                  /\ drvBuf' \o toDriver' = Echo' \o a
                  /\ srvPc' = "respond" => a = <<>> /\ outPkt' \in Answers(request)'
    <2>1. PICK a \in Answers(request) :
                 /\ drvBuf \o toDriver = outBuf \o a
                 /\ srvPc = "respond" => a = <<>> /\ outPkt \in Answers(request)
      BY <1>1, <1>2, <1>11 DEF Returned, Echo
    <2>2. Answers(request)' = Answers(request)
      BY <1>1, <1>2 DEF Answers, Server!StatusResponse
    <2>3. a \in Str
      BY <1>4, AnswersAre DEF Exchange, Sides
    <2>4. (outBuf \o b) \o toDriver = outBuf \o (b \o toDriver) /\ b \o toDriver \in Str
      <3>1. outBuf \in Str /\ b \in Str /\ toDriver \in Str
        BY <1>3, <1>5, <1>7
      <3> QED
        BY <3>1, Associate, ZenonT(40)
    <2>5. b \o toDriver = a
      <3>1. outBuf \o (b \o toDriver) = outBuf \o a
        BY <1>7, <2>1, <2>4
      <3> QED
        BY <1>5, <2>3, <2>4, <3>1, CutEqual
    <2>6. Echo' = <<>> /\ <<>> \o a = a
      BY <1>11, <2>3, WithEmpty DEF Echo
    <2> QED
      BY <1>1, <1>2, <1>8, <2>1, <2>2, <2>5, <2>6
  <1>12. Returned => Returned'
    BY <1>1, <1>11 DEF Returned
  <1> QED
    BY <1>9, <1>10, <1>12

LEMMA ExchangeServerReads ==
  ASSUME RequestsOK, Alone, Exchange, ServerReads
  PROVE  Sides' /\ Asking' /\ (Returned => Returned')
  <1>1. UNCHANGED <<drvBuf, drvPc, request, outBuf, pending>>
    BY DEF ServerReads, drvVars, history
  <1>2. /\ drvBuf \in Str /\ toDriver \in Str /\ outPkt \in Str
        /\ pending # <<>> => srvPc # "respond"
        /\ outPkt # <<>> <=> srvPc = "respond"
    BY DEF Exchange, Sides
  <1>3. CASE UNCHANGED <<toDriver, srvBuf, outPkt, frequencies>> /\ srvPc # "respond" /\ srvPc' # "respond"
    <2>1. Answers(request)' = Answers(request)
      BY <1>1, <1>3 DEF Answers, Server!StatusResponse
    <2>2. Sides'
      BY <1>1, <1>3 DEF Exchange, Sides, Refusable
    <2>3. Asking'
      BY <1>1, <1>3 DEF Exchange, Asking, Taken
    <2>4. Returned => Returned'
      BY <1>1, <1>3, <2>1 DEF Returned, Echo
    <2> QED
      BY <2>2, <2>3, <2>4
  <1>4. CASE Server!Read
    <2>1. PICK n \in (ReadSizes \union {Len(toServer)}) \ {0} :
                 /\ n <= Len(toServer)
                 /\ srvBuf' = srvBuf \o SubSeq(toServer, 1, n)
                 /\ toDriver' = toDriver \o SubSeq(toServer, 1, n)
      BY <1>4 DEF Server!Read
    <2>2. srvBuf \in Str /\ toServer \in Str /\ Len(toServer) \in Nat /\ Len(srvBuf) \in Nat
      BY OneOnTheLine
    <2>3. n \in 0 .. Len(toServer) /\ n # 0
      <3>1. n \in Nat
        BY <2>1, <2>2 DEF RequestsOK
      <3> QED
        BY <2>1, <2>2, <3>1
    <2> DEFINE a == SubSeq(toServer, 1, n)
    <2>4. a \in Str /\ Len(a) = n
      BY <2>2, <2>3, Cut
    <2>5. srvBuf' = srvBuf \o a /\ toDriver' = toDriver \o a
      BY <2>1
    <2> HIDE DEF a
    <2>6. pending # <<>>
      <3>1. pending = <<>> => Len(srvBuf) + Len(toServer) = 0
        BY OneOnTheLine
      <3> QED
        BY <2>2, <2>3, <3>1
    <2>7. /\ srvBuf \o a \in Str /\ Len(srvBuf \o a) = Len(srvBuf) + n
          /\ toDriver \o a \in Str /\ Len(toDriver \o a) = Len(toDriver) + n
      <3>1. srvBuf \o a \in Str /\ Len(srvBuf \o a) = Len(srvBuf) + Len(a)
        BY <2>2, <2>4, Associate
      <3>2. toDriver \o a \in Str /\ Len(toDriver \o a) = Len(toDriver) + Len(a)
        BY <1>2, <2>4, Associate
      <3> QED
        BY <2>4, <3>1, <3>2
    <2>8. UNCHANGED <<outPkt, frequencies>> /\ srvPc = "read" /\ srvPc' = "parse"
      BY <1>4 DEF Server!Read
    <2>9. Sides'
      <3>1. Head(pending) = request
        BY <2>6 DEF Exchange, Sides
      <3> QED
        BY <1>1, <1>2, <2>5, <2>7, <2>8, <3>1 DEF Exchange, Sides, Refusable
    <2>10. Asking'
      <3>1. Len(drvBuf) \in Nat /\ Len(toDriver) \in Nat /\ n \in Nat
        BY <1>2, <2>2, <2>3, LenProperties DEF Str
      <3>2. Taken \in Nat /\ Taken' = Taken
        BY <1>1 DEF Taken
      <3>3. drvPc # "idle" => Len(drvBuf) + Len(toDriver) + Taken <= Len(srvBuf)
        BY <2>6 DEF Exchange, Asking
      <3>4. drvPc # "idle" => Len(drvBuf') + Len(toDriver') + Taken' <= Len(srvBuf')
        BY <1>1, <2>2, <2>5, <2>7, <3>1, <3>2, <3>3
      <3> QED
        BY <1>1, <2>6, <2>8, <3>4 DEF Exchange, Asking
    <2>11. ASSUME Returned, drvPc = "echo"
           PROVE  drvBuf' \o toDriver' = srvBuf'
      <3>1. drvBuf \o toDriver = srvBuf
        BY <2>6, <2>11 DEF Returned
      <3>2. (drvBuf \o toDriver) \o a = drvBuf \o (toDriver \o a)
        <4>1. drvBuf \in Str /\ toDriver \in Str /\ a \in Str
          BY <1>2, <2>4
        <4> QED
          BY <4>1, Associate, ZenonT(40)
      <3> QED
        BY <1>1, <2>5, <3>1, <3>2
    <2>12. Returned => Returned'
      BY <1>1, <2>6, <2>11 DEF Returned
    <2> QED
      BY <2>9, <2>10, <2>12
  <1>5. CASE Server!Respond
    <2>1. /\ srvPc = "respond" /\ srvPc' = "parse"
          /\ toDriver' = toDriver \o outPkt /\ outPkt' = <<>>
          /\ UNCHANGED <<srvBuf, frequencies>>
      BY <1>5 DEF Server!Respond
    <2>2. pending = <<>>
      BY <1>2, <2>1
    <2>3. toDriver \o outPkt \in Str /\ <<>> \in Str
      BY <1>2, Associate, WithEmpty
    <2>4. Sides'
      BY <1>1, <2>1, <2>2, <2>3 DEF Exchange, Sides, Refusable
    <2>5. Asking'
      BY <1>1, <2>1, <2>2 DEF Exchange, Asking, Taken
    <2>6. ASSUME Returned, drvPc # "idle"
          PROVE  \E a \in Answers(request)' : drvBuf' \o toDriver' = Echo' \o a
      <3>1. PICK a \in Answers(request) :
                   /\ drvBuf \o toDriver = Echo \o a
                   /\ a = <<>> /\ outPkt \in Answers(request)
        BY <2>1, <2>2, <2>6 DEF Returned
      <3>2. Answers(request)' = Answers(request)
        BY <1>1, <2>1 DEF Answers, Server!StatusResponse
      <3>3. Echo \in Str
        <4>1. outBuf \in Str
          BY <2>6, RequestIs DEF Exchange, Asking
        <4> QED
          BY <2>3, <4>1 DEF Echo
      <3>4. Echo \o a = Echo
        BY <3>1, <3>3, WithEmpty
      <3>5. (drvBuf \o toDriver) \o outPkt = drvBuf \o (toDriver \o outPkt)
        BY <1>2, Associate, ZenonT(40)
      <3>6. Echo' = Echo
        BY <1>1 DEF Echo
      <3> QED
        BY <1>1, <2>1, <3>1, <3>2, <3>4, <3>5, <3>6
    <2>7. Returned => Returned'
      BY <1>1, <2>1, <2>2, <2>6 DEF Returned
    <2> QED
      BY <2>4, <2>5, <2>7
  <1>6. CASE Server!AwaitBytes \/ Server!SkipByte
    BY <1>3, <1>6 DEF Server!AwaitBytes, Server!SkipByte
  <1> QED
    BY <1>4, <1>5, <1>6 DEF ServerReads

\* The server does what it was asked to and nothing waits any more.
LEMMA ExchangeHandles ==
  ASSUME RequestsOK, Alone, Exchange, ServerHandles
  PROVE  Sides' /\ Asking' /\ (Returned => Returned')
  <1>1. /\ Server!TakeRequest
        /\ pending' = IF pending = <<>> THEN <<>> ELSE Tail(pending)
        /\ UNCHANGED <<drvBuf, drvPc, request, outBuf>>
    BY DEF ServerHandles, drvVars
  <1>2. /\ drvBuf \in Str /\ toDriver \in Str /\ outPkt \in Str
        /\ frequencies \in [Addresses -> Words]
        /\ outPkt # <<>> <=> srvPc = "respond"
        /\ pending \in Seq(Requests) /\ Len(pending) <= 1 /\ Len(pending) \in Nat
    BY LenProperties DEF Exchange, Sides, Served
  <1>3. /\ pending # <<>> /\ Len(srvBuf) >= 8
        /\ Server!inPkt = RequestFrame(Head(pending))
    <2>1. Len(pending) <= 2
      BY <1>2
    <2> QED
      BY <1>1, <2>1, TakesHead DEF Exchange, Alone
  <1>4. Head(pending) = request /\ request \in Requests
    BY <1>3, OneOnTheLine DEF Exchange, Sides
  <1>5. pending' = <<>>
    <2>1. Tail(pending) \in Seq(Requests) /\ Len(Tail(pending)) = Len(pending) - 1
      BY <1>2, <1>3, HeadTailProperties
    <2>2. Len(pending) # 0
      BY <1>2, <1>3, EmptySeq
    <2>3. Len(Tail(pending)) = 0
      BY <1>2, <2>1, <2>2
    <2>4. Tail(pending) = <<>>
      BY <2>1, <2>3, EmptySeq
    <2> QED
      BY <1>1, <1>3, <2>4
  <1>6. PICK r \in Requests : r = request
    BY <1>4
  <1>7. Server!modbusValidCrc(Server!inPkt)
    <2>1. modbusValidCrc(RequestFrame(r))
      BY RequestIs
    <2> QED
      BY <1>3, <1>4, <1>6, <2>1, SameCheck
  <1>8. /\ srvPc = "parse"
        /\ Server!HandleCommand(RequestFrame(r))
        /\ srvPc' = IF outPkt' # <<>> THEN "respond" ELSE "parse"
        /\ toDriver' = toDriver
    BY <1>1, <1>3, <1>4, <1>6, <1>7 DEF Server!TakeRequest
  <1>9. outPkt = <<>>
    BY <1>2, <1>8
  <1>10. /\ frequencies' \in [Addresses -> Words]
         /\ r.command = 6 => frequencies'[r.node] = r.data
         /\ outPkt' \in Str /\ outPkt' \in Answers(r)' /\ Refusable(outPkt')
    BY <1>2, <1>8, <1>9, HandleCommandIs
  <1>11. Sides'
    <2>1. Len(pending') <= 1
      BY <1>5, EmptySeq
    <2>2. Refusable(outPkt)'
      BY <1>10 DEF Refusable
    <2>3. outPkt' # <<>> <=> srvPc' = "respond"
      BY <1>8
    <2> QED
      BY <1>1, <1>2, <1>5, <1>8, <1>10, <2>1, <2>2, <2>3 DEF Sides
  <1>12. Asking'
    BY <1>1, <1>5, <1>6, <1>10 DEF Exchange, Asking, Taken
  <1>13. ASSUME Returned, drvPc # "idle"
         PROVE  \E a \in Answers(request)' :
                  /\ drvBuf' \o toDriver' = Echo' \o a
                  /\ srvPc' = "respond" => a = <<>> /\ outPkt' \in Answers(request)'
    <2>1. Answers(request)' = Answers(r)'
      BY <1>1, <1>6 DEF Answers, Server!StatusResponse
    <2>2. <<>> \in Answers(request)'
      BY DEF Answers
    <2>3. drvBuf' \o toDriver' = drvBuf \o toDriver /\ Echo' = Echo
      BY <1>1, <1>8 DEF Echo
    <2>4. /\ outBuf = RequestFrame(request) /\ drvPc \in {"echo", "response"}
          /\ Len(drvBuf) + Len(toDriver) + Taken <= Len(srvBuf)
      BY <1>3, <1>13 DEF Exchange, Asking
    <2>5. /\ srvBuf \in Str /\ toServer \in Str
          /\ Len(srvBuf) \in Nat /\ Len(toServer) \in Nat
          /\ Len(srvBuf) + Len(toServer) = 8
          /\ srvBuf \o toServer = RequestFrame(request)
      BY <1>3, OneOnTheLine
    <2>6. Len(toServer) = 0 /\ Len(srvBuf) = 8
      <3>1. ASSUME NEW m \in Nat, NEW n \in Nat, m + n = 8, m >= 8
            PROVE  n = 0 /\ m = 8
        BY <3>1
      <3> QED
        BY <1>3, <2>5, <3>1
    <2>7. srvBuf = RequestFrame(request)
      <3>1. toServer = <<>>
        BY <2>5, <2>6, EmptySeq DEF Str
      <3>2. srvBuf \o <<>> = srvBuf
        BY <2>5, WithEmpty
      <3> QED
        BY <2>5, <3>1, <3>2
    <2>8. drvBuf \o toDriver = Echo
      <3>1. CASE drvPc = "echo"
        BY <1>3, <1>13, <2>4, <2>7, <3>1 DEF Returned, Echo
      <3>2. CASE drvPc = "response"
        <4>1. Taken = 8 /\ Len(drvBuf) \in Nat /\ Len(toDriver) \in Nat
          BY <1>2, <3>2, LenProperties DEF Taken, Str
        <4>2. Len(drvBuf) = 0 /\ Len(toDriver) = 0
          BY <2>4, <2>6, <4>1
        <4>3. drvBuf = <<>> /\ toDriver = <<>>
          BY <1>2, <4>2, EmptySeq DEF Str
        <4>4. <<>> \o <<>> = <<>>
          BY <2>5, WithEmpty
        <4> QED
          BY <3>2, <4>3, <4>4 DEF Echo
      <3> QED
        BY <2>4, <3>1, <3>2
    <2>9. Echo \o <<>> = Echo
      <3>1. drvBuf \o toDriver \in Str
        BY <1>2, Associate
      <3> QED
        BY <2>8, <3>1, WithEmpty
    <2> QED
      BY <1>10, <2>1, <2>2, <2>3, <2>8, <2>9
  <1>14. Returned => Returned'
    BY <1>1, <1>5, <1>13 DEF Returned
  <1> QED
    BY <1>11, <1>12, <1>14

\* A disturbance on the way back takes nothing from the drive.
LEMMA ExchangeDisturb ==
  ASSUME RequestsOK, Alone, Alone', Exchange, Disturb
  PROVE  Sides' /\ Asking'
  <1>1. /\ toDriver' \in Disturbed(toDriver)
        /\ UNCHANGED <<pending, drvBuf, drvPc, request, outBuf, srvBuf, srvPc, outPkt, frequencies>>
    BY DEF Disturb, history, drvVars, srvVars, Alone
  <1>2. drvBuf \in Str /\ toDriver \in Str
    BY DEF Exchange, Sides
  <1>3. toDriver' \in Str /\ Len(toDriver') <= Len(toDriver)
    BY <1>1, <1>2, DisturbedIs
  <1>4. Sides'
    BY <1>1, <1>3 DEF Exchange, Sides, Refusable
  <1>5. ASSUME drvPc # "idle", pending # <<>>
        PROVE  Len(drvBuf') + Len(toDriver') + Taken' <= Len(srvBuf')
    <2>1. /\ Len(drvBuf) \in Nat /\ Len(toDriver) \in Nat /\ Len(toDriver') \in Nat
          /\ Len(srvBuf) \in Nat
      BY <1>2, <1>3, OneOnTheLine, LenProperties DEF Str
    <2>2. Taken \in Nat /\ Taken' = Taken
      BY <1>1 DEF Taken
    <2>3. Len(drvBuf) + Len(toDriver) + Taken <= Len(srvBuf)
      BY <1>5 DEF Exchange, Asking
    <2>4. Len(drvBuf') = Len(drvBuf) /\ Len(srvBuf') = Len(srvBuf)
      BY <1>1
    <2> QED
      BY <1>3, <2>1, <2>2, <2>3, <2>4
  <1>6. Asking'
    BY <1>1, <1>5 DEF Exchange, Asking
  <1> QED
    BY <1>4, <1>6

\* A refusal takes the place of the answer.
LEMMA ExchangeRefuse ==
  ASSUME Exchange, Refuse
  PROVE  Sides' /\ Asking' /\ (Returned => Returned')
  <1>1. /\ srvPc = "respond" /\ Len(outPkt) # 5
        /\ outPkt' = Prepared(<<outPkt[1], outPkt[2] + 128, 1>>)
        /\ UNCHANGED <<toDriver, drvBuf, drvPc, request, outBuf, srvBuf, srvPc, frequencies, pending>>
    BY DEF Refuse, drvVars, history, ModbusExceptionPktSize, Exception
  <1>2. /\ outPkt \in Str /\ outPkt # <<>>
        /\ Len(outPkt) >= 2 /\ outPkt[2] <= 127
    BY <1>1 DEF Exchange, Sides, Refusable
  <1>3. outPkt' \in Str /\ Len(outPkt') = 5
    <2> DEFINE x == outPkt[1]
               y == outPkt[2] + 128
    <2>1. x \in Byte /\ y \in Byte
      <3> DEFINE z == outPkt[2]
      <3>1. x \in Byte /\ z \in Byte /\ z <= 127
        <4>1. Len(outPkt) \in Nat /\ 1 \in 1 .. Len(outPkt) /\ 2 \in 1 .. Len(outPkt)
          BY <1>2, LenProperties DEF Str
        <4> QED
          BY <1>2, <4>1, ElementOfSeq DEF Str
      <3> HIDE DEF x, z
      <3>2. z + 128 \in Byte
        BY <3>1 DEF Byte
      <3> QED
        BY <3>1, <3>2 DEF z
    <2> HIDE DEF x, y
    <2> DEFINE body == <<x, y, 1>>
    <2>2. body \in Str /\ Len(body) = 3
      <3>1. 1 \in Byte
        BY DEF Byte
      <3> QED
        BY <2>1, <3>1 DEF Str
    <2> HIDE DEF body
    <2>3. Prepared(body) \in Str /\ Len(Prepared(body)) = 5
      <3> DEFINE frame == Prepared(body)
      <3>1. frame \in Str /\ Len(frame) = Len(body) + 2
        BY <2>2, PreparedIs
      <3> HIDE DEF frame
      <3>2. frame \in Str /\ Len(frame) = 5
        BY <2>2, <3>1
      <3> QED
        BY <3>2 DEF frame
    <2> QED
      BY <1>1, <2>3 DEF body, x, y
  <1>4. Answers(request)' = Answers(request) /\ outPkt' \in Answers(request)
    BY <1>1, <1>3 DEF Answers, Server!StatusResponse
  <1>5. outPkt' # <<>>
    BY <1>3, EmptySeq DEF Str
  <1>6. Sides'
    <2>1. Refusable(outPkt)'
      BY <1>3 DEF Refusable
    <2> QED
      BY <1>1, <1>3, <1>5, <2>1 DEF Exchange, Sides
  <1>7. Asking'
    BY <1>1 DEF Exchange, Asking, Taken
  <1>8. Returned => Returned'
    BY <1>1, <1>4 DEF Returned, Echo
  <1> QED
    BY <1>6, <1>7, <1>8

LEMMA ExchangeStep ==
  ASSUME RequestsOK, Alone, Alone', Exchange, [LinkNext]_linkVars
  PROVE  Exchange' /\ (Returned /\ ~Disturb => Returned')
  <1>1. Served'
    <2>1. Served /\ Len(pending) <= 2
      <3>1. Len(pending) \in Nat /\ Len(pending) <= 1
        BY LenProperties DEF Exchange, Served, Sides
      <3> QED
        BY <3>1 DEF Exchange
    <2> QED
      BY <2>1, ServedStep
  <1>2. CASE Send
    BY <1>1, <1>2, ExchangeSend DEF Exchange
  <1>3. CASE DriverReads
    BY <1>1, <1>3, ExchangeDriverReads DEF Exchange
  <1>4. CASE UNCHANGED <<toDriver, drvBuf, drvPc, request, outBuf, srvBuf, srvPc, outPkt,
                         frequencies, pending>>
    <2>1. Answers(request)' = Answers(request)
      BY <1>4 DEF Answers, Server!StatusResponse
    <2>2. Sides' /\ Asking'
      BY <1>4 DEF Exchange, Sides, Asking, Taken, Refusable
    <2>3. Returned => Returned'
      BY <1>4, <2>1 DEF Returned, Echo
    <2> QED
      BY <1>1, <2>2, <2>3 DEF Exchange
  <1>5. CASE Deadline
    BY <1>4, <1>5 DEF Deadline, Driver!Expire, srvVars, history
  <1>6. CASE Succeed
    BY <1>1, <1>6, ExchangeEnds DEF Exchange
  <1>7. CASE DriverGoesOn
    <2>1. CASE Driver!EndEcho
      BY <1>1, <1>7, <2>1, ExchangeEcho DEF Exchange
    <2>2. CASE Driver!BadEcho \/ Driver!BadResponse
      BY <1>1, <1>7, <2>2, ExchangeEnds DEF Exchange
    <2> QED
      BY <1>7, <2>1, <2>2 DEF DriverGoesOn
  <1>8. CASE ServerReads
    BY <1>1, <1>8, ExchangeServerReads DEF Exchange
  <1>9. CASE ServerHandles
    BY <1>1, <1>9, ExchangeHandles DEF Exchange
  <1>10. CASE Disturb
    BY <1>1, <1>10, ExchangeDisturb DEF Exchange
  <1>11. CASE Refuse
    BY <1>1, <1>11, ExchangeRefuse DEF Exchange
  <1>12. CASE UNCHANGED linkVars
    BY <1>4, <1>12 DEF linkVars, drvVars, srvVars, history
  <1> QED
    BY <1>2, <1>3, <1>5, <1>6, <1>7, <1>8, <1>9, <1>10, <1>11, <1>12 DEF LinkNext

\* Nothing that the server has not handled is long enough for a response to it.
LEMMA HandledFirst ==
  ASSUME RequestsOK, Alone, Exchange, drvPc = "response", Len(drvBuf) >= 8
  PROVE  pending = <<>>
  <1> SUFFICES ASSUME pending # <<>> PROVE FALSE
    OBVIOUS
  <1>1. Len(drvBuf) + Len(toDriver) + 8 <= Len(srvBuf)
    BY DEF Exchange, Asking, Taken
  <1>2. Len(srvBuf) + Len(toServer) = 8 /\ Len(srvBuf) \in Nat /\ Len(toServer) \in Nat
    BY OneOnTheLine
  <1>3. Len(drvBuf) \in Nat /\ Len(toDriver) \in Nat
    BY LenProperties DEF Exchange, Sides, Str
  <1> QED
    BY <1>1, <1>2, <1>3

\* A response that the driver accepts is at least as long as it expects.
LEMMA SucceedIs ==
  Succeed => /\ drvPc = "response"
                  /\ Len(drvBuf) >= IF request.command = 3 THEN 21 ELSE 8
  BY DEF Succeed, Driver!EndResponse, Driver!GoodResponse,
         Driver!expectedResponseLen, Driver!modbusExpectedResponseLength,
         Driver!ReadMultipleRegisters, Driver!ModbusHeaderAndCrcSize,
         Driver!statusRegNum

\* A write that the driver accepts (ModbusDriver::sendRequest) was done and is in force,
\* if no byte was disturbed on the way to the server and no request was sent before an
\* exchange was over.
WrittenIsTrue ==
  [][Succeed /\ Alone /\ request.command = WriteSingleRegister
       => frequencies[request.node] = request.data]_linkVars

\* So it is, whatever is lost or changed on the way back and however late the server:
\* the driver waits for as many bytes as echo and answer have (sendRequest), and the
\* server did the write before it answered.
THEOREM WritesAreTrue == LinkSpec => WrittenIsTrue
  <1> SUFFICES ASSUME RequestsOK PROVE LinkSpec => WrittenIsTrue
    BY RequestsAssumption
  <1> DEFINE Inv == Alone => Exchange
             Accepted == Succeed /\ Alone /\ request.command = WriteSingleRegister
                       => frequencies[request.node] = request.data
  <1>1. LinkInit => Inv
    BY ExchangeInit
  <1>2. Inv /\ [LinkNext]_linkVars => Inv'
    BY AloneBefore, ExchangeStep
  <1>3. Inv /\ [LinkNext]_linkVars => [Accepted]_linkVars
    <2> SUFFICES ASSUME Inv, Succeed, Alone, request.command = WriteSingleRegister
                 PROVE  frequencies[request.node] = request.data
      OBVIOUS
    <2>1. Exchange /\ request.command = 6
      BY DEF WriteSingleRegister
    <2>2. drvPc = "response" /\ Len(drvBuf) >= 8
      BY <2>1, SucceedIs
    <2>3. pending = <<>>
      BY <2>1, <2>2, HandledFirst
    <2> QED
      BY <2>1, <2>2, <2>3 DEF Exchange, Asking
  <1> HIDE DEF Inv, Accepted
  <1>4. LinkSpec => [][Accepted]_linkVars
    BY <1>1, <1>2, <1>3, PTL DEF LinkSpec
  <1> QED
    BY <1>4 DEF WrittenIsTrue, Accepted

\* Up to the first request that is sent into an unfinished exchange (overlapped), what
\* the driver accepts is true of the drive when it accepts it, a status too, if no
\* byte is disturbed on the line: however late the server, whatever it refuses,
\* wherever the reads of either cut the bytes.
THEOREM ResponsesAreTrue == LinkSpec /\ [][~Disturb]_linkVars => AcceptedIsTrue
  <1> SUFFICES ASSUME RequestsOK
               PROVE  LinkSpec /\ [][~Disturb]_linkVars => AcceptedIsTrue
    BY RequestsAssumption
  <1> DEFINE Inv == ~lost /\ (Alone => Exchange /\ Returned)
             Accepted == Succeed /\ ~overlapped =>
                       IF request.command = WriteSingleRegister
                       THEN frequencies[request.node] = request.data
                       ELSE Word(drvBuf[8], drvBuf[9]) = frequencies[request.node]
  <1>1. LinkInit => Inv
    BY ExchangeInit DEF LinkInit
  <1>2. ASSUME Inv, [LinkNext]_linkVars, [~Disturb]_linkVars
        PROVE  Inv'
    <2>1. ~Disturb
      <3>1. Disturb => faultsLeft' # faultsLeft
        BY DEF Disturb, RequestsOK
      <3> QED
        BY <1>2, <3>1 DEF linkVars
    <2>2. ~lost'
      <3>1. lost' = lost
        BY <1>2, <2>1
           DEF LinkNext, Send, DriverReads, Deadline, Succeed,
               DriverGoesOn, ServerReads, ServerHandles, Refuse,
               history, linkVars
      <3> QED
        BY <1>2, <3>1
    <2>3. Alone' => Exchange' /\ Returned'
      BY <1>2, <2>1, AloneBefore, ExchangeStep
    <2> QED
      BY <2>2, <2>3
  <1>3. ASSUME Inv, Succeed, ~overlapped
        PROVE  IF request.command = WriteSingleRegister
               THEN frequencies[request.node] = request.data
               ELSE Word(drvBuf[8], drvBuf[9]) = frequencies[request.node]
    <2>1. Alone /\ Exchange /\ Returned
      BY <1>3 DEF Alone
    <2>2. drvPc = "response" /\ Len(drvBuf) >= 8
      BY <1>3, SucceedIs
    <2>3. pending = <<>>
      BY <2>1, <2>2, HandledFirst
    <2>4. request \in Requests
      BY <2>1, <2>2 DEF Exchange, Asking
    <2>5. CASE request.command = 6
      BY <2>1, <2>2, <2>3, <2>5 DEF Exchange, Asking, WriteSingleRegister
    <2>6. CASE request.command = 3
      <3>1. PICK a \in Answers(request) : drvBuf \o toDriver = <<>> \o a
        BY <2>1, <2>2, <2>3 DEF Returned, Echo
      <3>2. /\ drvBuf \in Str /\ toDriver \in Str
            /\ frequencies \in [Addresses -> Words]
        BY <2>1 DEF Exchange, Sides
      <3>3. PICK r \in Requests : r = request
        BY <2>4
      <3>4. /\ a \in Str
            /\ Len(a) >= 9 => a = Server!StatusResponse(r.node) /\ Len(a) = 21
        BY <3>1, <3>2, <3>3, AnswersAre
      <3>5. drvBuf \o toDriver = a
        BY <3>1, <3>4, WithEmpty
      <3>6. /\ Len(drvBuf) >= 21 /\ Len(drvBuf) \in Nat /\ Len(toDriver) \in Nat
            /\ Len(a) = Len(drvBuf) + Len(toDriver)
        <4>1. Len(drvBuf) >= 21
          BY <1>3, <2>6, SucceedIs
        <4>2. Len(drvBuf \o toDriver) = Len(drvBuf) + Len(toDriver)
          BY <3>2, Associate
        <4> QED
          BY <3>2, <3>5, <4>1, <4>2, LenProperties DEF Str
      <3>7. Len(a) = 21 /\ Len(toDriver) = 0
        BY <3>4, <3>6
      <3>8. drvBuf = a
        <4>1. toDriver = <<>>
          BY <3>2, <3>7, EmptySeq DEF Str
        <4>2. drvBuf \o <<>> = drvBuf
          BY <3>2, WithEmpty
        <4> QED
          BY <3>5, <4>1, <4>2
      <3>9. r.node \in Byte /\ frequencies[r.node] \in Words
        BY <3>2 DEF RequestsOK
      <3> DEFINE status == Server!StatusResponse(r.node)
      <3>10. Word(status[8], status[9]) = frequencies[r.node]
        BY <3>9, StatusIs
      <3>11. drvBuf = status
        BY <3>4, <3>7, <3>8
      <3> HIDE DEF status
      <3> QED
        BY <2>6, <3>3, <3>10, <3>11 DEF WriteSingleRegister
    <2> QED
      BY <2>4, <2>5, <2>6
         DEF RequestsOK, ReadMultipleRegisters, WriteSingleRegister
  <1>4. Inv /\ [LinkNext]_linkVars => [Accepted]_linkVars
    BY <1>3
  <1> HIDE DEF Inv, Accepted
  <1>5. LinkSpec /\ [][~Disturb]_linkVars => [][Accepted]_linkVars
    BY <1>1, <1>2, <1>4, PTL DEF LinkSpec
  <1> QED
    BY <1>5 DEF AcceptedIsTrue, Accepted
===============================================================================
