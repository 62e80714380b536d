-------------------------- MODULE PacketParserProofs --------------------------
(***************************************************************************)
(* Theorems about PacketParser for every stream, every packet format, any  *)
(* buffer of at least one packet and any way the stream is cut into reads, *)
(* down to that the way it is cut does not matter; and about PacketLayout, *)
(* where the limits of the format come from.                               *)
(***************************************************************************)
EXTENDS PacketParser, PacketLayout, SequenceTheorems, WellFoundedInduction, TLAPS

USE DEF MinWrapped, MaxWrapped, Lengths, Kinds

\* The state of the sequence check: the last number is that of the last packet
\* delivered, and nothing has been reported at or beyond the cursor.
LastSeqCurrent ==
    lastSeqNum = IF Len(delivered) = 0 THEN 0
                 ELSE wire[delivered[Len(delivered)]].seq

ErrorsBehindCursor == \A k \in 1 .. Len(errors) : errors[k].at < Cursor

IInv == /\ TypeOK
        /\ AccountsBalance
        /\ LeftoverLeavesRoom
        /\ NoPacketLost
        /\ DeliveredInOrder
        /\ LastSeqCurrent
        /\ ErrorsBehindCursor
        /\ SequenceErrorsExact

-------------------------------------------------------------------------------
\* A header whose bytes are in buf is one of Headers, at a position of the
\* stream, and its length field has a length's value.
LEMMA HeaderFound ==
    ASSUME TypeOK, HeaderBuffered
    PROVE  /\ Cursor \in Positions
           /\ Header \in Headers
           /\ Header.kind \in Kinds
           /\ Header.len \in Lengths
           /\ Header.seq \in Nat
           /\ WrappedSize(Header) \in MinWrapped .. MaxWrapped
<1>1. Cursor \in Positions
  BY LengthAssumption, StreamAssumption
  DEF TypeOK, HeaderBuffered, BufferedBytes, Cursor, Positions
<1>2. Header \in Headers
  BY <1>1 DEF TypeOK, Header
<1>3. Header \in [kind : Kinds, len : Lengths, seq : Nat]
  BY <1>2, StreamAssumption
<1> QED
  BY <1>1, <1>2, <1>3, LengthAssumption DEF WrappedSize

LEMMA TypeInit == Init => TypeOK
<1> SUFFICES ASSUME Init PROVE TypeOK
  OBVIOUS
<1>1. /\ wire \in [Positions -> Headers]
      /\ delivered \in Seq(Positions)
      /\ errors \in Seq(ErrorReports)
  BY DEF Init
<1>2. /\ received \in 0 .. StreamLen
      /\ Cursor <= received
      /\ BufferedBytes <= BufSize
  BY LengthAssumption, StreamAssumption, BufferAssumption
  DEF Init, Cursor, BufferedBytes
<1> QED
  BY <1>1, <1>2 DEF Init, TypeOK

LEMMA TypeStep ==
    ASSUME TypeOK, AccountsBalance, LeftoverLeavesRoom, Next
    PROVE  TypeOK'
<1> USE LengthAssumption, StreamAssumption, BufferAssumption
<1>1. CASE Feed
  BY <1>1 DEF Feed, TypeOK, AccountsBalance, Cursor, BufferedBytes
<1>2. CASE NoStartWord
  BY <1>2, HeaderFound
  DEF NoStartWord, SkipByte, TypeOK, Cursor, BufferedBytes, HeaderBuffered
<1>3. CASE InvalidHeader
  <2>1. [kind |-> Header.kind, at |-> Cursor] \in ErrorReports
    BY <1>3, HeaderFound DEF InvalidHeader, ErrorReports
  <2> QED
    BY <1>3, <2>1, HeaderFound
    DEF InvalidHeader, SkipByte, TypeOK, Cursor, BufferedBytes, HeaderBuffered
<1>4. CASE InvalidCrc
  <2>1. [kind |-> "badCrc", at |-> Cursor] \in ErrorReports
    BY <1>4, HeaderFound DEF InvalidCrc, ErrorReports
  <2> QED
    BY <1>4, <2>1, HeaderFound
    DEF InvalidCrc, SkipByte, TypeOK, Cursor, BufferedBytes, HeaderBuffered
<1>5. CASE ValidPacket
  <2>1. [kind |-> "badSequence", at |-> Cursor] \in ErrorReports
    BY <1>5, HeaderFound DEF ValidPacket, ErrorReports
  <2>2. /\ wire' \in [Positions -> Headers]
        /\ delivered' \in Seq(Positions)
        /\ errors' \in Seq(ErrorReports)
    BY <1>5, <2>1, HeaderFound DEF ValidPacket, TypeOK
  <2>3. WrappedSize(Header) \in Nat /\ Header.seq \in Nat
    BY <1>5, HeaderFound DEF ValidPacket
  <2>4. /\ offset' \in Nat
        /\ deliveredBytes' \in Nat
        /\ droppedBytes' \in Nat
        /\ lastSeqNum' \in Nat
    BY <1>5, <2>3 DEF ValidPacket, TypeOK
  <2>5. Cursor' <= received'
    BY <1>5, <2>3
    DEF ValidPacket, TypeOK, Cursor, BufferedBytes, PacketBuffered
  <2> QED
    BY <1>5, <2>2, <2>4, <2>5 DEF ValidPacket, TypeOK, BufferedBytes
<1>6. CASE Finish
  <2>1. /\ base' \in Nat
        /\ Cursor' <= received'
        /\ BufferedBytes' <= BufSize
        /\ droppedBytes' \in Nat
    BY <1>6 DEF Finish, TypeOK, Cursor, BufferedBytes
  <2> QED
    BY <1>6, <2>1 DEF Finish, TypeOK
<1> QED
  BY <1>1, <1>2, <1>3, <1>4, <1>5, <1>6 DEF Next, Parse

-------------------------------------------------------------------------------
\* What each action does to the cursor and to what has been handed over: the
\* abstract view on which the remaining invariants rest.
Moves ==
    \/ UNCHANGED <<Cursor, delivered, errors, lastSeqNum>>
    \/ /\ HeaderBuffered
       /\ Header.kind # "good"
       /\ Cursor' = Cursor + 1
       /\ \/ errors' = errors
          \/ /\ Header.kind # "noise"
             /\ errors' = Append(errors, [kind |-> Header.kind, at |-> Cursor])
       /\ UNCHANGED <<delivered, lastSeqNum>>
    \/ /\ HeaderBuffered
       /\ Header.kind = "good"
       /\ Cursor' = Cursor + WrappedSize(Header)
       /\ delivered' = Append(delivered, Cursor)
       /\ errors' = IF Header.seq # NextSeq(lastSeqNum)
                    THEN Append(errors, [kind |-> "badSequence", at |-> Cursor])
                    ELSE errors
       /\ lastSeqNum' = Header.seq

LEMMA EveryStepMoves ==
    ASSUME TypeOK, AccountsBalance, Next
    PROVE  Moves /\ wire' = wire
<1> USE DEF Moves
<1>1. CASE Feed
  BY <1>1 DEF Feed, Cursor, AccountsBalance
<1>2. CASE NoStartWord
  BY <1>2 DEF NoStartWord, SkipByte, Cursor, TypeOK
<1>3. CASE InvalidHeader
  BY <1>3 DEF InvalidHeader, SkipByte, Cursor, TypeOK
<1>4. CASE InvalidCrc
  BY <1>4 DEF InvalidCrc, SkipByte, Cursor, TypeOK
<1>5. CASE ValidPacket
  <2>1. WrappedSize(Header) \in Nat
    BY <1>5, HeaderFound, LengthAssumption DEF ValidPacket
  <2>2. Cursor' = Cursor + WrappedSize(Header)
    BY <1>5, <2>1 DEF ValidPacket, Cursor, TypeOK
  <2> QED
    BY <1>5, <2>2 DEF ValidPacket
<1>6. CASE Finish
  BY <1>6 DEF Finish, Cursor, TypeOK
<1> QED
  BY <1>1, <1>2, <1>3, <1>4, <1>5, <1>6 DEF Next, Parse

LEMMA BalanceStep ==
    ASSUME TypeOK, AccountsBalance, Next
    PROVE  AccountsBalance'
<1> USE DEF AccountsBalance, Cursor
<1>1. CASE Feed
  BY <1>1 DEF Feed, TypeOK
<1>2. CASE NoStartWord \/ InvalidHeader \/ InvalidCrc
  <2>1. SkipByte /\ parsing
    BY <1>2 DEF NoStartWord, InvalidHeader, InvalidCrc
  <2> QED
    BY <2>1 DEF SkipByte, TypeOK
<1>3. CASE ValidPacket
  <2>1. WrappedSize(Header) \in Nat
    BY <1>3, HeaderFound, LengthAssumption DEF ValidPacket
  <2>2. parsing'
    BY <1>3 DEF ValidPacket
  <2>3. /\ droppedBytes' = droppedBytes + skippedBytes
        /\ skippedBytes' = 0
        /\ deliveredBytes' = deliveredBytes + WrappedSize(Header)
        /\ base' = base
        /\ offset' = offset + WrappedSize(Header)
    BY <1>3 DEF ValidPacket
  <2>4. /\ droppedBytes \in Nat /\ skippedBytes \in Nat
        /\ deliveredBytes \in Nat /\ base \in Nat /\ offset \in Nat
        /\ droppedBytes + skippedBytes + deliveredBytes = base + offset
    BY DEF TypeOK
  <2>5. droppedBytes' + skippedBytes' + deliveredBytes' = base' + offset'
    <3> HIDE DEF AccountsBalance, Cursor
    <3> QED
      BY <2>1, <2>3, <2>4
  <2> QED
    BY <2>2, <2>5
<1>4. CASE Finish
  BY <1>4 DEF Finish, TypeOK
<1> QED
  BY <1>1, <1>2, <1>3, <1>4 DEF Next, Parse

LEMMA RoomStep ==
    ASSUME TypeOK, LeftoverLeavesRoom, Next
    PROVE  LeftoverLeavesRoom'
<1> USE LengthAssumption DEF LeftoverLeavesRoom
<1>1. CASE Feed
  BY <1>1 DEF Feed
<1>2. CASE NoStartWord \/ InvalidHeader \/ InvalidCrc
  BY <1>2 DEF NoStartWord, InvalidHeader, InvalidCrc, SkipByte
<1>3. CASE ValidPacket
  BY <1>3 DEF ValidPacket
<1>4. CASE Finish
  <2>1. BufferedBytes' = BufferedBytes - offset
    BY <1>4 DEF Finish, BufferedBytes, TypeOK
  <2>2. CASE ~HeaderBuffered
    BY <2>1, <2>2 DEF HeaderBuffered, BufferedBytes, TypeOK
  <2>3. CASE HeaderBuffered /\ ~PacketBuffered
    <3>1. WrappedSize(Header) \in MinWrapped .. MaxWrapped
      BY <2>3, HeaderFound
    <3> QED
      BY <2>1, <2>3, <3>1 DEF PacketBuffered, BufferedBytes, TypeOK
  <2> QED
    BY <1>4, <2>2, <2>3 DEF Finish, LoopEnds
<1> QED
  BY <1>1, <1>2, <1>3, <1>4 DEF Next, Parse

\* What the invariants say of the packets and reports behind the cursor.
Settled == /\ NoPacketLost
           /\ DeliveredInOrder
           /\ LastSeqCurrent
           /\ ErrorsBehindCursor
           /\ SequenceErrorsExact

\* delivered and errors only ever grow at the end.
LEMMA AppendFacts ==
    ASSUME NEW S, NEW s \in Seq(S), NEW e \in S
    PROVE  /\ Len(s) \in Nat
           /\ Len(Append(s, e)) = Len(s) + 1
           /\ \A i \in 1 .. Len(s) : Append(s, e)[i] = s[i]
           /\ Append(s, e)[Len(s) + 1] = e
           /\ Append(s, e) \in Seq(S)
OBVIOUS

LEMMA DeliveredFacts ==
    ASSUME TypeOK, NEW i \in 1 .. Len(delivered)
    PROVE  /\ delivered[i] \in Positions
           /\ wire[delivered[i]].len \in Nat
           /\ wire[delivered[i]].seq \in Nat
           /\ WrappedSize(wire[delivered[i]]) \in Nat \ {0}
<1>1. delivered[i] \in Positions
  BY DEF TypeOK
<1>2. wire[delivered[i]] \in Headers
  BY <1>1 DEF TypeOK
<1>3. wire[delivered[i]] \in [kind : Kinds, len : Lengths, seq : Nat]
  BY <1>2, StreamAssumption
<1> QED
  BY <1>1, <1>3, LengthAssumption DEF WrappedSize

LEMMA ErrorFacts ==
    ASSUME TypeOK, NEW k \in 1 .. Len(errors)
    PROVE  errors[k].at \in Positions
<1>1. errors[k] \in ErrorReports
  BY DEF TypeOK
<1> QED
  BY <1>1 DEF ErrorReports

LEMMA SettledStutter ==
    ASSUME Settled, UNCHANGED <<wire, Cursor, delivered, errors, lastSeqNum>>
    PROVE  Settled'
BY DEF Settled, NoPacketLost, DeliveredInOrder, LastSeqCurrent,
       ErrorsBehindCursor, SequenceErrorsExact, PreviousSeq, Covers

LEMMA SettledSkip ==
    ASSUME TypeOK, Settled, HeaderBuffered, Header.kind # "good",
           Cursor' = Cursor + 1,
           \/ errors' = errors
           \/ /\ Header.kind # "noise"
              /\ errors' = Append(errors, [kind |-> Header.kind, at |-> Cursor]),
           UNCHANGED <<wire, delivered, lastSeqNum>>
    PROVE  Settled'
<1>1. /\ Cursor \in Positions /\ Cursor \in Nat
      /\ Header.kind # "badSequence"
      /\ wire[Cursor].kind # "good"
  BY HeaderFound, StreamAssumption DEF Positions, Header
<1>2. Positions \subseteq Nat
  BY StreamAssumption DEF Positions
<1>3. NoPacketLost'
  <2>1. ASSUME NEW p \in Positions, p < Cursor', wire[p].kind = "good"
        PROVE  p < Cursor
    BY <1>1, <1>2, <2>1
  <2> QED
    BY <2>1 DEF Settled, NoPacketLost, Covers
<1>4. DeliveredInOrder'
  <2>1. ASSUME NEW i \in 1 .. Len(delivered)
        PROVE  /\ delivered[i] \in Nat
               /\ wire[delivered[i]].len \in Nat
    BY <1>2, DeliveredFacts
  <2>2. ASSUME NEW i \in 1 .. Len(delivered)
        PROVE  delivered[i] + WrappedSize(wire[delivered[i]]) <= Cursor'
    <3>1. WrappedSize(wire[delivered[i]]) \in Nat
      BY <2>1, LengthAssumption DEF WrappedSize
    <3>2. delivered[i] + WrappedSize(wire[delivered[i]]) <= Cursor
      BY DEF Settled, DeliveredInOrder
    <3> QED
      BY <1>1, <2>1, <3>1, <3>2
  <2> QED
    BY <2>2 DEF Settled, DeliveredInOrder
<1>5. LastSeqCurrent'
  BY DEF Settled, LastSeqCurrent
<1> DEFINE report == [kind |-> Header.kind, at |-> Cursor]
<1>6. \/ errors' = errors
      \/ errors' = Append(errors, report) /\ report \in ErrorReports
  BY <1>1, HeaderFound DEF ErrorReports
<1>7. \/ errors' = errors
      \/ /\ Len(errors) \in Nat
         /\ Len(errors') = Len(errors) + 1
         /\ \A k \in 1 .. Len(errors) : errors'[k] = errors[k]
         /\ errors'[Len(errors) + 1] = report
  <2> HIDE DEF report
  <2> QED
    BY SMTT(30), <1>6, AppendFacts DEF TypeOK
<1>8. ErrorsBehindCursor'
  <2>1. ASSUME NEW k \in 1 .. Len(errors)
        PROVE  errors[k].at \in Nat /\ errors[k].at < Cursor
    BY <1>2, ErrorFacts DEF Settled, ErrorsBehindCursor
  <2> QED
    BY <1>1, <1>6, <1>7, <2>1 DEF ErrorsBehindCursor
<1>9. SequenceErrorsExact'
  <2>0. \A p : report # [kind |-> "badSequence", at |-> p]
    BY <1>1
  <2> HIDE DEF report
  <2>1. ASSUME NEW i \in 1 .. Len(delivered)
        PROVE  (\E k \in 1 .. Len(errors) :
                    errors[k] = [kind |-> "badSequence", at |-> delivered[i]])
               <=> (\E k \in 1 .. Len(errors') :
                    errors'[k] = [kind |-> "badSequence", at |-> delivered[i]])
    BY <1>7, <2>0
  <2> QED
    BY <2>1 DEF Settled, SequenceErrorsExact, PreviousSeq
<1> QED
  BY <1>3, <1>4, <1>5, <1>8, <1>9 DEF Settled

LEMMA SettledDeliver ==
    ASSUME TypeOK, TypeOK', Settled, HeaderBuffered, Header.kind = "good",
           Cursor' = Cursor + WrappedSize(Header),
           delivered' = Append(delivered, Cursor),
           errors' = IF Header.seq # NextSeq(lastSeqNum)
                     THEN Append(errors, [kind |-> "badSequence", at |-> Cursor])
                     ELSE errors,
           lastSeqNum' = Header.seq,
           wire' = wire
    PROVE  Settled'
<1> DEFINE n == Len(delivered)
           W == WrappedSize(Header)
           report == [kind |-> "badSequence", at |-> Cursor]
<1>1. /\ Cursor \in Positions /\ Cursor \in Nat
      /\ W \in Nat \ {0}
      /\ wire[Cursor] = Header
  BY HeaderFound, StreamAssumption, LengthAssumption DEF Positions, Header
<1>2. Positions \subseteq Nat
  BY StreamAssumption DEF Positions
<1>3. /\ n \in Nat
      /\ Len(delivered') = n + 1
      /\ \A i \in 1 .. n : delivered'[i] = delivered[i]
      /\ delivered'[n + 1] = Cursor
  BY <1>1, AppendFacts DEF TypeOK
<1>4. \A i \in 1 .. n : /\ delivered[i] \in Nat
                        /\ WrappedSize(wire[delivered[i]]) \in Nat \ {0}
  <2> SUFFICES ASSUME NEW i \in 1 .. n
               PROVE  /\ delivered[i] \in Nat
                      /\ WrappedSize(wire[delivered[i]]) \in Nat \ {0}
    OBVIOUS
  <2> QED
    BY <1>2, DeliveredFacts
<1>5. \A i \in 1 .. n : delivered[i] + WrappedSize(wire[delivered[i]]) <= Cursor
  BY DEF Settled, DeliveredInOrder
<1>6. NoPacketLost'
  <2> DEFINE CoversNext(i, p) ==
                 /\ delivered'[i] <= p
                 /\ p < delivered'[i] + WrappedSize(wire'[delivered'[i]])
  <2> SUFFICES ASSUME NEW p \in Positions, p < Cursor + W, wire[p].kind = "good"
               PROVE  \E i \in 1 .. n + 1 : CoversNext(i, p)
    BY <1>3 DEF NoPacketLost, Covers
  <2>1. CASE p < Cursor
    <3>1. PICK i \in 1 .. n : Covers(i, p)
      BY <2>1 DEF Settled, NoPacketLost
    <3> QED
      BY <1>3, <3>1 DEF Covers
  <2>2. CASE p >= Cursor
    <3>1. CoversNext(n + 1, p)
      BY <1>1, <1>2, <1>3, <2>2
    <3> QED
      BY <1>3, <3>1
  <2> QED
    BY <1>1, <1>2, <2>1, <2>2
<1>7. DeliveredInOrder'
  <2> HIDE DEF W
  <2>1. \A i \in 1 .. n + 1 :
            /\ wire'[delivered'[i]].kind = "good"
            /\ delivered'[i] + WrappedSize(wire'[delivered'[i]]) <= Cursor'
    <3> SUFFICES ASSUME NEW i \in 1 .. n + 1
                 PROVE  /\ wire'[delivered'[i]].kind = "good"
                        /\ delivered'[i] + WrappedSize(wire'[delivered'[i]])
                                <= Cursor'
      OBVIOUS
    <3>1. CASE i \in 1 .. n
      <4>1. wire[delivered[i]].kind = "good"
        BY <3>1 DEF Settled, DeliveredInOrder
      <4>2. Cursor' \in Nat /\ Cursor <= Cursor'
        BY <1>1 DEF W
      <4> QED
        BY <1>1, <1>3, <1>4, <1>5, <3>1, <4>1, <4>2
    <3>2. CASE i = n + 1
      BY <1>1, <1>3, <3>2 DEF W
    <3> QED
      BY <1>3, <3>1, <3>2
  <2>2. \A i, j \in 1 .. n + 1 :
            i < j => delivered'[i] + WrappedSize(wire'[delivered'[i]])
                        <= delivered'[j]
    <3> SUFFICES ASSUME NEW i \in 1 .. n + 1, NEW j \in 1 .. n + 1, i < j
                 PROVE  delivered'[i] + WrappedSize(wire'[delivered'[i]])
                            <= delivered'[j]
      OBVIOUS
    <3>1. i \in 1 .. n /\ delivered'[i] = delivered[i]
      BY <1>3
    <3>2. CASE j \in 1 .. n
      BY <1>3, <3>1, <3>2 DEF Settled, DeliveredInOrder
    <3>3. CASE j = n + 1
      BY <1>3, <1>5, <3>1, <3>3
    <3> QED
      BY <1>3, <3>2, <3>3
  <2> QED
    BY <1>3, <2>1, <2>2 DEF DeliveredInOrder
<1>8. LastSeqCurrent'
  BY <1>1, <1>3 DEF LastSeqCurrent
<1>9. ErrorsBehindCursor /\ report \in ErrorReports
  BY <1>1 DEF Settled, ErrorReports
<1>10. /\ Len(errors) \in Nat
       /\ Header.seq # NextSeq(lastSeqNum)
             => /\ Len(errors') = Len(errors) + 1
                /\ \A k \in 1 .. Len(errors) : errors'[k] = errors[k]
                /\ errors'[Len(errors) + 1] = report
  <2> HIDE DEF report
  <2> QED
    BY <1>9, AppendFacts DEF TypeOK, report
<1>11. \A k \in 1 .. Len(errors) : errors[k].at \in Nat /\ errors[k].at < Cursor
  BY <1>2, <1>9, ErrorFacts DEF ErrorsBehindCursor
<1>12. ErrorsBehindCursor'
  <2>1. Cursor < Cursor'
    BY <1>1
  <2>2. \A k \in 1 .. Len(errors) : errors[k].at < Cursor'
    BY <1>1, <1>11, <2>1
  <2> QED
    BY <1>10, <2>1, <2>2 DEF ErrorsBehindCursor
<1> DEFINE Reported(p) == \E k \in 1 .. Len(errors) :
                              errors[k] = [kind |-> "badSequence", at |-> p]
           ReportedNext(p) == \E k \in 1 .. Len(errors') :
                              errors'[k] = [kind |-> "badSequence", at |-> p]
<1>13. \A p : ReportedNext(p)
               <=> (Reported(p) \/ (p = Cursor
                                     /\ Header.seq # NextSeq(lastSeqNum)))
  BY <1>10
<1>14. ~Reported(Cursor)
  BY <1>1, <1>11
<1>15. SequenceErrorsExact'
  <2> SUFFICES ASSUME NEW i \in 1 .. n + 1
               PROVE  wire[delivered'[i]].seq
                          # (PreviousSeq(i)' + 1) % SeqModulus
                      <=> ReportedNext(delivered'[i])
    BY <1>3 DEF SequenceErrorsExact
  <2> HIDE DEF Reported, ReportedNext
  <2>1. CASE i \in 1 .. n
    <3>1. delivered[i] # Cursor
      BY <1>1, <1>4, <1>5, <2>1
    <3>2. PreviousSeq(i)' = PreviousSeq(i)
      BY <1>3, <2>1 DEF PreviousSeq
    <3>3. wire[delivered[i]].seq # (PreviousSeq(i) + 1) % SeqModulus
              <=> Reported(delivered[i])
      BY <2>1 DEF Settled, SequenceErrorsExact, Reported
    <3> QED
      BY <1>3, <1>13, <2>1, <3>1, <3>2, <3>3
  <2>2. CASE i = n + 1
    <3>1. PreviousSeq(i)' = lastSeqNum
      BY <1>3, <2>2 DEF PreviousSeq, Settled, LastSeqCurrent
    <3> QED
      BY <1>1, <1>3, <1>13, <1>14, <2>2, <3>1 DEF NextSeq
  <2> QED
    BY <1>3, <2>1, <2>2
<1> QED
  BY <1>6, <1>7, <1>8, <1>12, <1>15 DEF Settled

-------------------------------------------------------------------------------
LEMMA InvInit == Init => IInv
<1> SUFFICES ASSUME Init PROVE IInv
  OBVIOUS
<1>1. TypeOK
  BY TypeInit
<1>2. AccountsBalance /\ LeftoverLeavesRoom
  BY LengthAssumption
  DEF Init, AccountsBalance, LeftoverLeavesRoom, Cursor, BufferedBytes
<1>3. Len(delivered) = 0 /\ Len(errors) = 0 /\ Cursor = 0
  BY DEF Init, Cursor
<1>4. NoPacketLost
  BY <1>3, StreamAssumption DEF NoPacketLost, Positions
<1>5. DeliveredInOrder /\ ErrorsBehindCursor /\ SequenceErrorsExact
  BY <1>3 DEF DeliveredInOrder, ErrorsBehindCursor, SequenceErrorsExact
<1>6. LastSeqCurrent
  BY <1>3 DEF LastSeqCurrent, Init
<1> QED
  BY <1>1, <1>2, <1>4, <1>5, <1>6 DEF IInv

LEMMA InvStep == IInv /\ [Next]_vars => IInv'
<1> SUFFICES ASSUME IInv, [Next]_vars PROVE IInv'
  OBVIOUS
<1> USE DEF IInv
<1>1. CASE Next
  <2>1. TypeOK' /\ AccountsBalance' /\ LeftoverLeavesRoom'
    BY <1>1, TypeStep, BalanceStep, RoomStep
  <2>2. Settled
    BY DEF Settled
  <2>3. Moves /\ wire' = wire
    BY <1>1, EveryStepMoves
  <2>4. Settled'
    BY <2>1, <2>2, <2>3, SettledStutter, SettledSkip, SettledDeliver DEF Moves
  <2> QED
    BY <2>1, <2>4 DEF Settled
<1>2. CASE UNCHANGED vars
  BY <1>2 DEF vars, TypeOK, AccountsBalance, LeftoverLeavesRoom, NoPacketLost,
      DeliveredInOrder, LastSeqCurrent, ErrorsBehindCursor, SequenceErrorsExact,
      PreviousSeq, Covers, Cursor, BufferedBytes
<1> QED
  BY <1>1, <1>2

\* The strengthened invariant holds in every reachable state.
THEOREM Invariance == Spec => []IInv
BY InvInit, InvStep, PTL DEF Spec

\* The scan stays inside the bytes that were read, and the reads inside buf.
THEOREM TypeCorrect == Spec => []TypeOK
<1>1. IInv => TypeOK
  BY DEF IInv
<1> QED
  BY <1>1, Invariance, PTL

\* Every byte consumed is in one delivered packet or one DroppedBytes report.
THEOREM AccountsAlwaysBalance == Spec => []AccountsBalance
<1>1. IInv => AccountsBalance
  BY DEF IInv
<1> QED
  BY <1>1, Invariance, PTL

\* After every call of extractPackets the intake has room for the next read.
THEOREM RoomForNextRead == Spec => []LeftoverLeavesRoom
<1>1. IInv => LeftoverLeavesRoom
  BY DEF IInv
<1> QED
  BY <1>1, Invariance, PTL

\* Whatever noise and damage surrounds it, no good packet is passed over.
THEOREM GoodPacketsSurvive == Spec => []NoPacketLost
<1>1. IInv => NoPacketLost
  BY DEF IInv
<1> QED
  BY <1>1, Invariance, PTL

\* What is delivered is good, whole, disjoint and in stream order.
THEOREM DeliveryOrder == Spec => []DeliveredInOrder
<1>1. IInv => DeliveredInOrder
  BY DEF IInv
<1> QED
  BY <1>1, Invariance, PTL

\* Sequence errors mark exactly the breaks in the delivered numbering.
THEOREM SequenceReports == Spec => []SequenceErrorsExact
<1>1. IInv => SequenceErrorsExact
  BY DEF IInv
<1> QED
  BY <1>1, Invariance, PTL

-------------------------------------------------------------------------------
LEMMA StreamStep ==
    ASSUME IInv, [Next]_vars
    PROVE  [Stream!StreamNext]_(Stream!streamVars)
<1> USE DEF IInv, Stream!StreamNext, Stream!streamVars
<1>1. CASE Feed
  <2>1. base' + offset' = base + offset
    BY <1>1 DEF Feed, AccountsBalance
  <2>2. received' \in received + 1 .. StreamLen
    BY <1>1, StreamAssumption, BufferAssumption, LengthAssumption
    DEF Feed, TypeOK, BufferedBytes, Cursor
  <2>3. Stream!Arrive
    BY <1>1, <2>1, <2>2 DEF Feed, Stream!Arrive
  <2> QED
    BY <2>3
<1>2. CASE NoStartWord \/ InvalidHeader \/ InvalidCrc
  <2>1. HeaderBuffered /\ SkipByte /\ Header.kind # "good"
    BY <1>2 DEF NoStartWord, InvalidHeader, InvalidCrc
  <2>2. Cursor \in Positions /\ Cursor + MinWrapped <= received
    BY <2>1, HeaderFound, LengthAssumption
    DEF TypeOK, HeaderBuffered, BufferedBytes, Cursor
  <2>3. base' + offset' = (base + offset) + 1
    BY <2>1 DEF SkipByte, TypeOK
  <2>4. Stream!Discard
    BY <2>1, <2>2, <2>3
    DEF Stream!Discard, Stream!Positions, Positions, Stream!MinWrapped,
        SkipByte, Cursor, Header
  <2> QED
    BY <2>4
<1>3. CASE ValidPacket
  <2> DEFINE W == WrappedSize(Header)
  <2>1. Cursor \in Positions /\ W \in Nat
    BY <1>3, HeaderFound, LengthAssumption DEF ValidPacket
  <2>2. Cursor + W <= received
    BY <1>3, <2>1 DEF ValidPacket, PacketBuffered, BufferedBytes, Cursor, TypeOK
  <2>3. base' + offset' = (base + offset) + W
    BY <1>3, <2>1 DEF ValidPacket, TypeOK
  <2>4. W = Stream!WrappedSize(wire[base + offset])
    BY DEF WrappedSize, Stream!WrappedSize, Header, Cursor
  <2>5. Stream!Deliver
    BY <1>3, <2>1, <2>2, <2>3, <2>4
    DEF Stream!Deliver, Stream!Positions, Positions, Stream!MinWrapped,
        ValidPacket, Cursor, Header
  <2> QED
    BY <2>5
<1>4. CASE Finish
  BY <1>4 DEF Finish, TypeOK
<1>5. CASE UNCHANGED vars
  BY <1>5 DEF vars
<1> QED
  BY <1>1, <1>2, <1>3, <1>4, <1>5 DEF Next, Parse

\* Seen through the cursor base + offset, buffers, calls and chunks disappear:
\* the parser is the abstract packet stream.
THEOREM Refinement == Spec => ImplementsStream
<1>1. Init => Stream!StreamInit
  BY DEF Init, Stream!StreamInit, Stream!Positions, Positions,
         Stream!MinWrapped
<1>2. IInv /\ [Next]_vars => [Stream!StreamNext]_(Stream!streamVars)
  BY StreamStep
<1> QED
  BY <1>1, <1>2, Invariance, PTL DEF Spec, ImplementsStream, Stream!StreamSpec

-------------------------------------------------------------------------------
(* However the stream is cut: OneShot and Rejected are recursive functions,  *)
(* so that there are such functions, and of what type, is shown through the  *)
(* least place that would be an exception.                                   *)

\* Every set of natural numbers that is not empty has a least one.
LEMMA Least ==
    ASSUME NEW S \in SUBSET Nat, S # {}
    PROVE  \E n \in S : \A m \in S : n <= m
<1> DEFINE Less == OpToRel(<, Nat)
<1>1. IsWellFoundedOn(Less, Nat)
  BY NatLessThanWellFounded
<1>2. \A x, y \in Nat : x < y => <<x, y>> \in Less
  BY DEF OpToRel
<1> HIDE DEF Less
<1>3. PICK n \in S : \A m \in S : ~(<<m, n>> \in Less)
  BY <1>1, WFMin
<1>4. ASSUME NEW m \in S PROVE n <= m
  <2>1. n \in Nat /\ m \in Nat
    OBVIOUS
  <2>2. ~(m < n)
    BY <2>1, <1>2, <1>3
  <2> QED
    BY <2>1, <2>2
<1> QED
  BY <1>4

\* One step of the scan of OneShot, given the results further on.
ScanStep(n, f, p) ==
    LET stop == [stop |-> p, delivered |-> <<>>, rejected |-> <<>>]
        reject(rest) == [rest EXCEPT !.rejected =
                            <<[kind |-> wire[p].kind, at |-> p]>> \o @]
        whole == p + WrappedSize(wire[p]) <= n
    IN  CASE p + MinWrapped > n -> stop
          [] OTHER ->
             CASE wire[p].kind = "noise" -> f[p + 1]
               [] wire[p].kind \in {"badLength", "badId"} -> reject(f[p + 1])
               [] wire[p].kind = "badCrc" /\ whole -> reject(f[p + 1])
               [] wire[p].kind = "good" /\ whole ->
                    [f[p + WrappedSize(wire[p])] EXCEPT !.delivered = <<p>> \o @]
               [] OTHER -> stop

Scans(n, f) == f = [p \in 0 .. StreamLen |-> ScanStep(n, f, p)]

LEMMA OneShotIs ==
    ASSUME NEW n, \E f : Scans(n, f)
    PROVE  Scans(n, OneShot(n))
<1> DEFINE g == CHOOSE f : Scans(n, f)
<1>1. Scans(n, g)
  OBVIOUS
<1>2. g = OneShot(n)
  BY DEF OneShot, Scans, ScanStep
<1> QED
  BY <1>1, <1>2

\* The steps of the scan, and where each of them looks further.
LEMMA ScanCases ==
    ASSUME wire \in [Positions -> Headers], NEW n \in 0 .. StreamLen,
           NEW p \in 0 .. StreamLen, NEW f
    PROVE  LET stop == [stop |-> p, delivered |-> <<>>, rejected |-> <<>>]
               reject == [f[p + 1] EXCEPT !.rejected =
                            <<[kind |-> wire[p].kind, at |-> p]>> \o @]
               w == WrappedSize(wire[p])
               deliver == [f[p + w] EXCEPT !.delivered = <<p>> \o @]
           IN  \/ p + MinWrapped > n /\ ScanStep(n, f, p) = stop
               \/ /\ p + MinWrapped <= n /\ p \in Positions
                  /\ wire[p] \in Headers /\ wire[p].kind \in Kinds
                  /\ w \in MinWrapped .. MaxWrapped /\ p + 1 \in 0 .. StreamLen
                  /\ \/ wire[p].kind = "noise" /\ ScanStep(n, f, p) = f[p + 1]
                     \/ /\ wire[p].kind \in {"badLength", "badId"}
                        /\ ScanStep(n, f, p) = reject
                     \/ /\ wire[p].kind = "badCrc" /\ p + w <= n
                        /\ ScanStep(n, f, p) = reject
                     \/ /\ wire[p].kind = "good" /\ p + w <= n
                        /\ p + w \in 0 .. StreamLen
                        /\ ScanStep(n, f, p) = deliver
                     \/ /\ wire[p].kind \in {"badCrc", "good"} /\ p + w > n
                        /\ ScanStep(n, f, p) = stop
<1>1. p \in Nat /\ n \in Nat /\ MinWrapped \in Nat \ {0}
  BY LengthAssumption, StreamAssumption
<1>2. CASE p + MinWrapped > n
  BY <1>2 DEF ScanStep
<1>3. CASE ~(p + MinWrapped > n)
  <2>1. p + MinWrapped <= n /\ p \in Positions /\ p + 1 \in 0 .. StreamLen
    BY <1>1, <1>3, StreamAssumption DEF Positions
  <2>2. wire[p] \in Headers
    BY <2>1
  <2>3. wire[p] \in [kind : Kinds, len : Lengths, seq : Nat]
    BY <2>2, StreamAssumption
  <2>4. wire[p].kind \in Kinds /\ WrappedSize(wire[p]) \in MinWrapped .. MaxWrapped
    BY <2>3, LengthAssumption DEF WrappedSize
  <2> DEFINE w == WrappedSize(wire[p])
             k == wire[p].kind
  <2>5. w \in Nat /\ w >= 1 /\ (p + w <= n => p + w \in 0 .. StreamLen)
        /\ (p + w <= n \/ p + w > n)
    BY <1>1, <2>4, LengthAssumption, StreamAssumption
  <2>6. k \in {"noise", "badLength", "badId", "badCrc", "good"}
    BY <2>4
  <2>7. CASE k = "noise"
    <3>1. ScanStep(n, f, p) = f[p + 1]
      BY <1>3, <2>7 DEF ScanStep
    <3> QED
      BY <2>1, <2>2, <2>4, <2>7, <3>1
  <2>8. CASE k \in {"badLength", "badId"}
    <3>1. ScanStep(n, f, p) = [f[p + 1] EXCEPT !.rejected =
                                 <<[kind |-> wire[p].kind, at |-> p]>> \o @]
      BY <1>3, <2>8 DEF ScanStep
    <3> QED
      BY <2>1, <2>2, <2>4, <2>8, <3>1
  <2>9. CASE k = "badCrc" /\ p + w <= n
    <3>1. ScanStep(n, f, p) = [f[p + 1] EXCEPT !.rejected =
                                 <<[kind |-> wire[p].kind, at |-> p]>> \o @]
      BY <1>3, <2>9 DEF ScanStep
    <3> QED
      BY <2>1, <2>2, <2>4, <2>9, <3>1
  <2>10. CASE k = "good" /\ p + w <= n
    <3>1. ScanStep(n, f, p) = [f[p + w] EXCEPT !.delivered = <<p>> \o @]
      BY <1>3, <2>10 DEF ScanStep
    <3> QED
      BY <2>1, <2>2, <2>4, <2>5, <2>10, <3>1
  <2>11. CASE k \in {"badCrc", "good"} /\ p + w > n
    <3>1. ~(p + w <= n)
      BY <1>1, <2>5, <2>11
    <3>2. ScanStep(n, f, p) = [stop |-> p, delivered |-> <<>>, rejected |-> <<>>]
      BY <1>3, <2>11, <3>1 DEF ScanStep
    <3> QED
      BY <2>1, <2>2, <2>4, <2>11, <3>2
  <2> QED
    BY <2>5, <2>6, <2>7, <2>8, <2>9, <2>10, <2>11
<1> QED
  BY <1>2, <1>3

\* What a scan may find.
Findings == [stop : Nat, delivered : Seq(Positions), rejected : Seq(ErrorReports)]

\* From the last k positions on there is such a function.
Scannable(n, k) ==
    \E f \in [0 .. StreamLen -> Findings] :
        \A p \in 0 .. StreamLen : p >= StreamLen - k => f[p] = ScanStep(n, f, p)

\* A step only looks further on, and adds a finding to those it is given.
LEMMA StepLooksOn ==
    ASSUME wire \in [Positions -> Headers], NEW n \in 0 .. StreamLen,
           NEW p \in 0 .. StreamLen, NEW f, NEW g,
           \A q \in 0 .. StreamLen : q > p => f[q] = g[q]
    PROVE  ScanStep(n, f, p) = ScanStep(n, g, p)
<1> DEFINE w == WrappedSize(wire[p])
<1>1. p \in Nat /\ (p + 1 \in 0 .. StreamLen => f[p + 1] = g[p + 1])
  BY StreamAssumption
<1>2. w \in MinWrapped .. MaxWrapped /\ p + w \in 0 .. StreamLen => f[p + w] = g[p + w]
  BY LengthAssumption, StreamAssumption
<1> HIDE DEF w
<1>3. CASE p + MinWrapped > n
  BY <1>3 DEF ScanStep
<1>4. CASE ~(p + MinWrapped > n)
  <2>1. p + 1 \in 0 .. StreamLen /\ w \in MinWrapped .. MaxWrapped
        /\ (p + w <= n => p + w \in 0 .. StreamLen)
    <3>1. p + 1 \in 0 .. StreamLen /\ w \in MinWrapped .. MaxWrapped
      BY <1>1, <1>4, ScanCases, LengthAssumption, StreamAssumption DEF w
    <3>2. w \in Nat /\ p \in Nat /\ n \in 0 .. StreamLen
      BY <3>1, LengthAssumption, StreamAssumption
    <3> QED
      BY <3>1, <3>2, StreamAssumption
  <2>2. f[p + 1] = g[p + 1] /\ (p + w <= n => f[p + w] = g[p + w])
    BY <1>1, <1>2, <2>1
  <2> QED
    BY <2>2 DEF ScanStep, w
<1> QED
  BY <1>3, <1>4

LEMMA StepFinds ==
    ASSUME wire \in [Positions -> Headers], NEW n \in 0 .. StreamLen,
           NEW p \in 0 .. StreamLen, NEW f,
           \A q \in 0 .. StreamLen : q > p => f[q] \in Findings
    PROVE  ScanStep(n, f, p) \in Findings
<1> DEFINE w == WrappedSize(wire[p])
<1>1. p \in Nat /\ (p + 1 \in 0 .. StreamLen => f[p + 1] \in Findings)
  BY StreamAssumption
<1>2. w \in MinWrapped .. MaxWrapped /\ p + w \in 0 .. StreamLen => f[p + w] \in Findings
  BY LengthAssumption, StreamAssumption
<1>3. [stop |-> p, delivered |-> <<>>, rejected |-> <<>>] \in Findings
  BY <1>1 DEF Findings
<1>4. ASSUME NEW x \in Findings, NEW e \in ErrorReports
      PROVE  [x EXCEPT !.rejected = <<e>> \o @] \in Findings
  <2>1. x.rejected \in Seq(ErrorReports) /\ <<e>> \in Seq(ErrorReports)
    BY DEF Findings
  <2>2. <<e>> \o x.rejected \in Seq(ErrorReports)
    BY <2>1, ConcatProperties
  <2> QED
    BY <2>2 DEF Findings
<1>5. ASSUME NEW x \in Findings, p \in Positions
      PROVE  [x EXCEPT !.delivered = <<p>> \o @] \in Findings
  <2>1. x.delivered \in Seq(Positions) /\ <<p>> \in Seq(Positions)
    BY <1>5 DEF Findings
  <2>2. <<p>> \o x.delivered \in Seq(Positions)
    BY <2>1, ConcatProperties
  <2> QED
    BY <2>2 DEF Findings
<1>6. p \in Positions /\ wire[p].kind \in {"badLength", "badId", "badCrc"}
        => [kind |-> wire[p].kind, at |-> p] \in ErrorReports
  BY DEF ErrorReports
<1> QED
  BY <1>1, <1>2, <1>3, <1>4, <1>5, <1>6, ScanCases

LEMMA ScanExists ==
    ASSUME wire \in [Positions -> Headers], NEW n \in 0 .. StreamLen
    PROVE  /\ Scans(n, OneShot(n))
           /\ \A p \in 0 .. StreamLen : OneShot(n)[p] \in Findings
<1> DEFINE D == 0 .. StreamLen
           Missing == {k \in D : ~Scannable(n, k)}
<1>1. ASSUME Missing # {}
      PROVE  FALSE
  <2>1. PICK k \in Missing : \A m \in Missing : k <= m
    <3>1. Missing \in SUBSET Nat
      BY StreamAssumption
    <3> HIDE DEF Missing
    <3> QED
      BY <1>1, <3>1, Least
  <2> DEFINE p == StreamLen - k
  <2>2. k \in Nat /\ k \in D /\ p \in D /\ p \in Nat /\ ~Scannable(n, k)
    BY StreamAssumption
  <2>3. \E f \in [D -> Findings] :
            \A q \in D : q > p => f[q] = ScanStep(n, f, q)
    <3>1. CASE k = 0
      <4>1. [stop |-> 0, delivered |-> <<>>, rejected |-> <<>>] \in Findings
        BY DEF Findings
      <4> DEFINE f == [q \in D |-> [stop |-> 0, delivered |-> <<>>, rejected |-> <<>>]]
      <4>2. f \in [D -> Findings]
        BY <4>1
      <4>3. \A q \in D : ~(q > p)
        BY <2>2, <3>1, StreamAssumption
      <4> QED
        BY <4>2, <4>3
    <3>2. CASE k # 0
      <4>1. k - 1 \in D /\ ~(k <= k - 1)
        BY <2>2, <3>2, StreamAssumption
      <4>4. k - 1 \notin Missing
        BY <2>1, <4>1
      <4>2. PICK f \in [D -> Findings] :
                   \A q \in D : q >= StreamLen - (k - 1) => f[q] = ScanStep(n, f, q)
        BY <4>1, <4>4 DEF Scannable
      <4>3. \A q \in D : q > p => q >= StreamLen - (k - 1)
        BY <2>2, StreamAssumption
      <4> QED
        BY <4>2, <4>3
    <3> QED
      BY <3>1, <3>2
  <2>4. PICK f \in [D -> Findings] : \A q \in D : q > p => f[q] = ScanStep(n, f, q)
    BY <2>3
  <2> DEFINE g == [f EXCEPT ![p] = ScanStep(n, f, p)]
  <2>5. ScanStep(n, f, p) \in Findings
    BY <2>2, <2>4, StepFinds
  <2>6. g \in [D -> Findings] /\ \A q \in D : g[q] = IF q = p THEN ScanStep(n, f, p) ELSE f[q]
    BY <2>2, <2>4, <2>5
  <2> HIDE DEF g
  <2>7. ASSUME NEW q \in D, q >= p
        PROVE  g[q] = ScanStep(n, g, q)
    <3>1. q \in Nat /\ \A r \in D : r > q => r # p /\ f[r] = g[r]
      <4>1. \A r \in D : r \in Nat
        BY StreamAssumption
      <4> QED
        BY <2>2, <2>6, <2>7, <4>1
    <3>2. ScanStep(n, f, q) = ScanStep(n, g, q)
      BY <3>1, StepLooksOn
    <3>3. g[q] = ScanStep(n, f, q)
      BY <2>2, <2>4, <2>6, <2>7, <3>1
    <3> QED
      BY <3>2, <3>3
  <2> QED
    BY <2>2, <2>6, <2>7 DEF Scannable
<1>2. Scannable(n, StreamLen)
  <2>1. StreamLen \in D /\ StreamLen \notin Missing
    BY <1>1, StreamAssumption
  <2> QED
    BY <2>1
<1>3. \E f : Scans(n, f)
  <2>1. PICK f \in [D -> Findings] :
               \A p \in D : p >= StreamLen - StreamLen => f[p] = ScanStep(n, f, p)
    BY <1>2 DEF Scannable
  <2>2. \A p \in D : p >= StreamLen - StreamLen
    BY StreamAssumption
  <2>3. f = [p \in D |-> ScanStep(n, f, p)]
    BY <2>1, <2>2
  <2> QED
    BY <2>3 DEF Scans
<1>4. Scans(n, OneShot(n))
  BY <1>3, OneShotIs
<1> DEFINE f == OneShot(n)
           Bad == {k \in D : f[StreamLen - k] \notin Findings}
<1>5. \A p \in D : f[p] = ScanStep(n, f, p)
  BY <1>4 DEF Scans
<1> HIDE DEF f
<1>6. ASSUME Bad # {}
      PROVE  FALSE
  <2>1. PICK k \in Bad : \A m \in Bad : k <= m
    <3>1. Bad \in SUBSET Nat
      BY StreamAssumption
    <3> HIDE DEF Bad
    <3> QED
      BY <1>6, <3>1, Least
  <2> DEFINE p == StreamLen - k
  <2>2. k \in Nat /\ k \in D /\ p \in D /\ p \in Nat /\ f[p] \notin Findings
    BY StreamAssumption
  <2>3. ASSUME NEW q \in D, q > p
        PROVE  f[q] \in Findings
    <3>1. StreamLen - q \in D /\ ~(k <= StreamLen - q) /\ StreamLen - (StreamLen - q) = q
      BY <2>2, <2>3, StreamAssumption
    <3>2. StreamLen - q \notin Bad
      BY <2>1, <3>1
    <3> QED
      BY <3>1, <3>2
  <2>4. ScanStep(n, f, p) \in Findings
    BY <2>2, <2>3, StepFinds
  <2> QED
    BY <1>5, <2>2, <2>4
<1>7. ASSUME NEW p \in D
      PROVE  f[p] \in Findings
  <2>1. StreamLen - p \in D /\ StreamLen - (StreamLen - p) = p
    BY StreamAssumption
  <2> QED
    BY <1>6, <2>1
<1> QED
  BY <1>4, <1>7 DEF f

LEMMA ScanUnfolds ==
    ASSUME wire \in [Positions -> Headers], NEW n \in 0 .. StreamLen,
           NEW p \in 0 .. StreamLen
    PROVE  OneShot(n)[p] = ScanStep(n, OneShot(n), p) /\ OneShot(n)[p] \in Findings
<1>1. Scans(n, OneShot(n)) /\ OneShot(n)[p] \in Findings
  BY ScanExists
<1> HIDE DEF OneShot
<1>2. \A f : Scans(n, f) => f[p] = ScanStep(n, f, p)
  BY DEF Scans
<1> QED
  BY <1>1, <1>2

-------------------------------------------------------------------------------
\* What is kept of the first k reports, given what is kept of those before.
KeptStep(s, f, k) ==
    CASE k = 0 -> <<>>
      [] k > 0 /\ s[k].kind = "badSequence" -> f[k - 1]
      [] OTHER -> Append(f[k - 1], s[k])

Keeps(s, f) == f = [k \in 0 .. Len(s) |-> KeptStep(s, f, k)]

LEMMA RejectedIs ==
    ASSUME NEW s, \E f : Keeps(s, f)
    PROVE  Keeps(s, Rejected(s))
<1> DEFINE g == CHOOSE f : Keeps(s, f)
<1>1. Keeps(s, g)
  OBVIOUS
<1>2. g = Rejected(s)
  BY DEF Rejected, Keeps, KeptStep
<1> QED
  BY <1>1, <1>2

LEMMA KeptType ==
    ASSUME NEW s \in Seq(ErrorReports), NEW f, NEW k \in 0 .. Len(s),
           k # 0 => f[k - 1] \in Seq(ErrorReports)
    PROVE  KeptStep(s, f, k) \in Seq(ErrorReports)
<1>1. CASE k = 0
  BY <1>1 DEF KeptStep
<1>2. CASE k # 0
  <2>1. k > 0 /\ s[k] \in ErrorReports /\ f[k - 1] \in Seq(ErrorReports)
    BY <1>2
  <2>2. KeptStep(s, f, k) = f[k - 1] \/ KeptStep(s, f, k) = Append(f[k - 1], s[k])
    BY <1>2, <2>1 DEF KeptStep
  <2>3. Append(f[k - 1], s[k]) \in Seq(ErrorReports)
    <3> HIDE DEF ErrorReports
    <3> QED
      BY <2>1, AppendFacts
  <2> QED
    BY <2>1, <2>2, <2>3
<1> QED
  BY <1>1, <1>2

KeptUpTo(s, n) ==
    \E f \in [0 .. Len(s) -> Seq(ErrorReports)] :
        \A k \in 0 .. n : f[k] = KeptStep(s, f, k)

LEMMA KeptExists ==
    ASSUME NEW s \in Seq(ErrorReports)
    PROVE  /\ Keeps(s, Rejected(s))
           /\ \A k \in 0 .. Len(s) : Rejected(s)[k] \in Seq(ErrorReports)
<1> DEFINE N == 0 .. Len(s)
           Missing == {k \in N : ~KeptUpTo(s, k)}
<1>1. Len(s) \in Nat
  OBVIOUS
<1>2. ASSUME Missing # {}
      PROVE  FALSE
  <2>1. PICK n \in Missing : \A m \in Missing : n <= m
    <3>1. Missing \in SUBSET Nat
      BY <1>1
    <3> HIDE DEF Missing
    <3> QED
      BY <1>2, <3>1, Least
  <2>2. n \in Nat /\ n \in N /\ ~KeptUpTo(s, n)
    BY <1>1
  <2>3. \E f \in [N -> Seq(ErrorReports)] :
            \A k \in N : k < n => f[k] = KeptStep(s, f, k)
    <3>1. CASE n = 0
      <4> DEFINE f == [k \in N |-> <<>>]
      <4>1. f \in [N -> Seq(ErrorReports)] /\ \A k \in N : ~(k < n)
        BY <3>1, <1>1
      <4> QED
        BY <4>1
    <3>2. CASE n # 0
      <4>1. n - 1 \in N /\ n - 1 \notin Missing
        BY <1>1, <2>1, <2>2, <3>2
      <4>2. \A k \in N : k < n => k \in 0 .. n - 1
        BY <1>1, <2>2
      <4> QED
        BY <4>1, <4>2 DEF KeptUpTo
    <3> QED
      BY <3>1, <3>2
  <2>4. PICK f \in [N -> Seq(ErrorReports)] :
               \A k \in N : k < n => f[k] = KeptStep(s, f, k)
    BY <2>3
  <2> DEFINE g == [f EXCEPT ![n] = KeptStep(s, f, n)]
  <2>5. KeptStep(s, f, n) \in Seq(ErrorReports)
    <3>1. n # 0 => n - 1 \in N
      BY <1>1, <2>2
    <3>2. n # 0 => f[n - 1] \in Seq(ErrorReports)
      BY <2>4, <3>1
    <3> QED
      BY <2>2, <3>2, KeptType
  <2>6. g \in [N -> Seq(ErrorReports)]
        /\ \A k \in N : g[k] = IF k = n THEN KeptStep(s, f, n) ELSE f[k]
    BY <2>2, <2>4, <2>5
  <2> HIDE DEF g
  <2>7. ASSUME NEW k \in 0 .. n
        PROVE  g[k] = KeptStep(s, g, k)
    <3>1. k \in Nat /\ k \in N /\ (k # 0 => k - 1 \in N /\ k - 1 # n)
      BY <1>1, <2>2
    <3>2. k # 0 => f[k - 1] = g[k - 1]
      BY <2>6, <3>1
    <3>3. KeptStep(s, f, k) = KeptStep(s, g, k)
      BY <3>2 DEF KeptStep
    <3>4. g[k] = KeptStep(s, f, k)
      BY <1>1, <2>2, <2>4, <2>6, <3>1
    <3> QED
      BY <3>3, <3>4
  <2> QED
    BY <2>2, <2>6, <2>7 DEF KeptUpTo
<1>3. KeptUpTo(s, Len(s))
  <2>1. Len(s) \in N /\ Len(s) \notin Missing
    BY <1>1, <1>2
  <2> QED
    BY <2>1
<1>4. \E f : Keeps(s, f)
  <2>1. PICK f \in [N -> Seq(ErrorReports)] : \A k \in N : f[k] = KeptStep(s, f, k)
    BY <1>3 DEF KeptUpTo
  <2>2. f = [k \in N |-> KeptStep(s, f, k)]
    BY <2>1
  <2> QED
    BY <2>2 DEF Keeps
<1>5. Keeps(s, Rejected(s))
  BY <1>4, RejectedIs
<1> DEFINE f == Rejected(s)
           Bad == {k \in N : f[k] \notin Seq(ErrorReports)}
<1>6. \A k \in N : f[k] = KeptStep(s, f, k)
  BY <1>5 DEF Keeps
<1> HIDE DEF f
<1>7. ASSUME Bad # {}
      PROVE  FALSE
  <2>1. PICK k \in Bad : \A m \in Bad : k <= m
    <3>1. Bad \in SUBSET Nat
      BY <1>1
    <3> HIDE DEF Bad
    <3> QED
      BY <1>7, <3>1, Least
  <2>2. k \in N /\ k \in Nat /\ f[k] \notin Seq(ErrorReports)
    BY <1>1
  <2>3. k # 0 => f[k - 1] \in Seq(ErrorReports)
    <3>1. k # 0 => k - 1 \in N /\ ~(k <= k - 1)
      BY <1>1, <2>2
    <3> QED
      BY <2>1, <3>1
  <2> QED
    BY <1>6, <2>2, <2>3, KeptType
<1> QED
  BY <1>5, <1>7 DEF f

\* A report at the end is kept unless it is one of a broken sequence.
LEMMA RejectedAppend ==
    ASSUME NEW s \in Seq(ErrorReports), NEW e \in ErrorReports
    PROVE  LET more == Append(s, e)
           IN  /\ Rejected(s)[Len(s)] \in Seq(ErrorReports)
               /\ Rejected(more)[Len(more)] =
                    IF e.kind = "badSequence" THEN Rejected(s)[Len(s)]
                    ELSE Append(Rejected(s)[Len(s)], e)
<1> DEFINE more == Append(s, e)
           f == Rejected(s)
           g == Rejected(more)
           n == Len(s)
           Differ == {k \in 0 .. n : f[k] # g[k]}
<1>1. /\ n \in Nat /\ more \in Seq(ErrorReports) /\ Len(more) = n + 1
      /\ more[n + 1] = e /\ \A k \in 1 .. n : more[k] = s[k]
  BY AppendFacts
<1>2. /\ \A k \in 0 .. n : f[k] = KeptStep(s, f, k) /\ f[k] \in Seq(ErrorReports)
      /\ \A k \in 0 .. n + 1 : g[k] = KeptStep(more, g, k)
  <2>1. Keeps(s, f) /\ Keeps(more, g)
        /\ \A k \in 0 .. n : f[k] \in Seq(ErrorReports)
    BY <1>1, KeptExists
  <2> HIDE DEF f, g, more
  <2> QED
    BY <1>1, <2>1 DEF Keeps
<1> HIDE DEF f, g, more
<1>3. ASSUME Differ # {}
      PROVE  FALSE
  <2>1. PICK k \in Differ : \A m \in Differ : k <= m
    <3>1. Differ \in SUBSET Nat
      BY <1>1
    <3> HIDE DEF Differ
    <3> QED
      BY <1>3, <3>1, Least
  <2>2. k \in 0 .. n /\ k \in 0 .. n + 1 /\ k \in Nat /\ f[k] # g[k]
    BY <1>1
  <2>3. k # 0 => f[k - 1] = g[k - 1] /\ more[k] = s[k]
    <3>1. k # 0 => k - 1 \in 0 .. n /\ ~(k <= k - 1) /\ k \in 1 .. n
      BY <1>1, <2>2
    <3> QED
      BY <1>1, <2>1, <3>1
  <2>4. KeptStep(s, f, k) = KeptStep(more, g, k)
    BY <2>3 DEF KeptStep
  <2> QED
    BY <1>2, <2>2, <2>4
<1>4. f[n] = g[n] /\ n \in 0 .. n /\ n + 1 \in 0 .. n + 1 /\ n + 1 > 0 /\ n + 1 - 1 = n
  BY <1>1, <1>3
<1>5. g[n + 1] = IF e.kind = "badSequence" THEN g[n] ELSE Append(g[n], e)
  BY <1>1, <1>2, <1>4 DEF KeptStep
<1> QED
  BY <1>1, <1>2, <1>4, <1>5 DEF f, g, more

-------------------------------------------------------------------------------
LEMMA AppendThen ==
    ASSUME NEW S, NEW s \in Seq(S), NEW e \in S, NEW x \in Seq(S)
    PROVE  Append(s, e) \o x = s \o (<<e>> \o x)
<1>1. <<e>> \in Seq(S)
  OBVIOUS
<1>2. Append(s, e) = s \o <<e>>
  BY AppendIsConcat
<1>3. (s \o <<e>>) \o x = s \o (<<e>> \o x)
  BY <1>1, ConcatAssociative
<1> QED
  BY <1>2, <1>3

LEMMA AppendReport ==
    \A s, x \in Seq(ErrorReports), e \in ErrorReports :
        Append(s, e) \o x = s \o (<<e>> \o x)
<1> TAKE s, x \in Seq(ErrorReports), e \in ErrorReports
<1> QED
  BY AppendThen

LEMMA AppendPosition ==
    \A s, x \in Seq(Positions), e \in Positions :
        Append(s, e) \o x = s \o (<<e>> \o x)
<1> TAKE s, x \in Seq(Positions), e \in Positions
<1> QED
  BY AppendThen

\* Whatever more arrives, one call on all of it would find what was found so far
\* and go on from the cursor; and between calls nothing more can be decided.
OnTrack ==
    \A m \in received .. StreamLen :
        LET all  == OneShot(m)[0]
            rest == OneShot(m)[Cursor]
        IN  /\ all.stop = rest.stop
            /\ all.delivered = delivered \o rest.delivered
            /\ all.rejected = Rejections \o rest.rejected

AllDecided == ~parsing => LoopEnds

\* One call on at least the bytes that were read makes the scan's next move.
LEMMA ScanMoves ==
    ASSUME TypeOK, HeaderBuffered, NEW m \in received .. StreamLen
    PROVE  LET f == OneShot(m)
               rest == f[Cursor]
               next == f[Cursor + 1]
               w == WrappedSize(Header)
               after == f[Cursor + w]
           IN  /\ m \in 0 .. StreamLen /\ Cursor \in 0 .. StreamLen
               /\ rest \in Findings
               /\ Header.kind # "good" => next \in Findings
               /\ Header.kind = "good" /\ PacketBuffered => after \in Findings
               /\ Header.kind = "noise" => rest = next
               /\ (Header.kind \in {"badLength", "badId"}
                   \/ (Header.kind = "badCrc" /\ PacketBuffered))
                  => /\ rest.stop = next.stop /\ rest.delivered = next.delivered
                     /\ rest.rejected =
                          <<[kind |-> Header.kind, at |-> Cursor]>> \o next.rejected
               /\ Header.kind = "good" /\ PacketBuffered
                  => /\ rest.stop = after.stop /\ rest.rejected = after.rejected
                     /\ rest.delivered = <<Cursor>> \o after.delivered
<1> DEFINE f == OneShot(m)
           c == Cursor
           w == WrappedSize(Header)
<1>1. /\ wire \in [Positions -> Headers] /\ m \in 0 .. StreamLen /\ m >= received
      /\ c \in Positions /\ c \in 0 .. StreamLen /\ c + 1 \in 0 .. StreamLen
      /\ c + MinWrapped <= m /\ ~(c + MinWrapped > m) /\ w \in MinWrapped .. MaxWrapped
  BY HeaderFound, LengthAssumption, StreamAssumption
  DEF TypeOK, HeaderBuffered, BufferedBytes, Cursor, Positions
<1>2. PacketBuffered => c + w <= m /\ c + w \in 0 .. StreamLen /\ ~(c + w > m)
  BY SMTT(30), <1>1, LengthAssumption, StreamAssumption
  DEF TypeOK, PacketBuffered, BufferedBytes, Cursor
<1>3. f[c] = ScanStep(m, f, c) /\ f[c] \in Findings /\ f[c + 1] \in Findings
      /\ (PacketBuffered => f[c + w] \in Findings)
  BY <1>1, <1>2, ScanUnfolds
<1>4. Header = wire[c] /\ w = WrappedSize(wire[c])
  BY DEF Header
<1> HIDE DEF f, c
<1>5. Header.kind = "noise" => f[c] = f[c + 1]
  BY <1>1, <1>3, <1>4, ScanCases
<1>6. (Header.kind \in {"badLength", "badId"} \/ (Header.kind = "badCrc" /\ PacketBuffered))
      => f[c] = [f[c + 1] EXCEPT !.rejected = <<[kind |-> Header.kind, at |-> c]>> \o @]
  <2>1. CASE Header.kind \in {"badLength", "badId"}
    BY <1>1, <1>3, <1>4, <2>1, ScanCases
  <2>2. CASE Header.kind = "badCrc" /\ PacketBuffered
    BY <1>1, <1>2, <1>3, <1>4, <2>2, ScanCases
  <2> QED
    BY <2>1, <2>2
<1>7. Header.kind = "good" /\ PacketBuffered
      => f[c] = [f[c + w] EXCEPT !.delivered = <<c>> \o @]
  BY <1>1, <1>2, <1>3, <1>4, ScanCases
<1>8. ASSUME NEW x \in Findings, NEW d
      PROVE  /\ [x EXCEPT !.rejected = d \o @].stop = x.stop
             /\ [x EXCEPT !.rejected = d \o @].delivered = x.delivered
             /\ [x EXCEPT !.rejected = d \o @].rejected = d \o x.rejected
             /\ [x EXCEPT !.delivered = d \o @].stop = x.stop
             /\ [x EXCEPT !.delivered = d \o @].delivered = d \o x.delivered
             /\ [x EXCEPT !.delivered = d \o @].rejected = x.rejected
  BY DEF Findings
<1> HIDE DEF w
<1>9. ASSUME Header.kind \in {"badLength", "badId"} \/ (Header.kind = "badCrc" /\ PacketBuffered)
      PROVE  /\ f[c].stop = f[c + 1].stop /\ f[c].delivered = f[c + 1].delivered
             /\ f[c].rejected = <<[kind |-> Header.kind, at |-> c]>> \o f[c + 1].rejected
  <2> DEFINE x == f[c + 1]
             d == <<[kind |-> Header.kind, at |-> c]>>
  <2>1. x \in Findings /\ f[c] = [x EXCEPT !.rejected = d \o @]
    BY <1>3, <1>6, <1>9
  <2> HIDE DEF x, d
  <2>2. f[c].stop = x.stop /\ f[c].delivered = x.delivered /\ f[c].rejected = d \o x.rejected
    BY <1>8, <2>1
  <2> QED
    BY <2>2 DEF x, d
<1>10. ASSUME Header.kind = "good" /\ PacketBuffered
       PROVE  /\ f[c].stop = f[c + w].stop /\ f[c].rejected = f[c + w].rejected
              /\ f[c].delivered = <<c>> \o f[c + w].delivered
  <2> DEFINE x == f[c + w]
  <2>1. x \in Findings /\ f[c] = [x EXCEPT !.delivered = <<c>> \o @]
    BY <1>3, <1>7, <1>10
  <2> HIDE DEF x
  <2>2. f[c].stop = x.stop /\ f[c].rejected = x.rejected /\ f[c].delivered = <<c>> \o x.delivered
    BY <1>8, <2>1
  <2> QED
    BY <2>2 DEF x
<1> QED
  BY <1>1, <1>3, <1>5, <1>9, <1>10 DEF f, c, w

LEMMA TrackInit == Init => OnTrack /\ AllDecided
<1> SUFFICES ASSUME Init PROVE OnTrack /\ AllDecided
  OBVIOUS
<1>1. wire \in [Positions -> Headers] /\ Cursor = 0 /\ received = 0
      /\ errors = <<>> /\ errors \in Seq(ErrorReports) /\ Len(errors) = 0
      /\ delivered = <<>>
  BY DEF Init, Cursor
<1>2. Rejections = <<>>
  <2>1. Keeps(errors, Rejected(errors))
    BY <1>1, KeptExists
  <2>2. \A f : Keeps(errors, f) => f[0] = <<>>
    BY <1>1 DEF Keeps, KeptStep
  <2> QED
    BY <1>1, <2>1, <2>2 DEF Rejections
<1>3. OnTrack
  <2> SUFFICES ASSUME NEW m \in 0 .. StreamLen
               PROVE  /\ OneShot(m)[0].delivered = <<>> \o OneShot(m)[0].delivered
                      /\ OneShot(m)[0].rejected = <<>> \o OneShot(m)[0].rejected
    BY <1>1, <1>2 DEF OnTrack
  <2>1. OneShot(m)[0] \in Findings
    BY <1>1, ScanUnfolds, StreamAssumption
  <2>2. OneShot(m)[0].delivered \in Seq(Positions)
        /\ OneShot(m)[0].rejected \in Seq(ErrorReports)
    BY <2>1 DEF Findings
  <2> QED
    BY <2>2, ConcatEmptySeq
<1>4. AllDecided
  BY LengthAssumption DEF Init, AllDecided, LoopEnds, HeaderBuffered, BufferedBytes
<1> QED
  BY <1>3, <1>4

LEMMA TrackStep == IInv /\ OnTrack /\ AllDecided /\ [Next]_vars => (OnTrack /\ AllDecided)'
<1> SUFFICES ASSUME IInv, OnTrack, AllDecided, [Next]_vars
             PROVE  OnTrack' /\ AllDecided'
  OBVIOUS
<1>1. TypeOK /\ delivered \in Seq(Positions) /\ errors \in Seq(ErrorReports)
      /\ received \in 0 .. StreamLen /\ AccountsBalance
  BY DEF IInv, TypeOK
<1>2. wire' = wire
  BY <1>1, EveryStepMoves DEF vars
<1>3. ASSUME NEW m PROVE OneShot(m)' = OneShot(m)
  BY <1>2 DEF OneShot
<1>4. Rejections \in Seq(ErrorReports)
  BY <1>1, KeptExists DEF Rejections
<1>5. received' \in Nat /\ received' >= received /\ (~Feed => received' = received)
  BY <1>1, LengthAssumption
  DEF Next, Parse, Feed, NoStartWord, InvalidHeader, InvalidCrc, ValidPacket, Finish,
      SkipByte, vars, TypeOK
<1>6. \A m \in received' .. StreamLen : m \in received .. StreamLen
  BY <1>1, <1>5
<1> DEFINE Track(m, c, d, r) ==
             /\ OneShot(m)[0].stop = OneShot(m)[c].stop
             /\ OneShot(m)[0].delivered = d \o OneShot(m)[c].delivered
             /\ OneShot(m)[0].rejected = r \o OneShot(m)[c].rejected
<1>8. \A m \in received .. StreamLen : Track(m, Cursor, delivered, Rejections)
  BY DEF OnTrack
<1>9. ASSUME \A m \in received' .. StreamLen : Track(m, Cursor', delivered', Rejections')
      PROVE  OnTrack'
  BY <1>3, <1>9 DEF OnTrack
<1>10. ASSUME UNCHANGED <<Cursor, delivered, errors>>
       PROVE  OnTrack'
  <2>1. Rejections' = Rejections
    BY <1>10 DEF Rejections
  <2>2. ASSUME NEW m \in received' .. StreamLen
        PROVE  Track(m, Cursor', delivered', Rejections')
    BY <1>6, <1>8, <1>10, <2>1, <2>2
  <2> HIDE DEF Track
  <2> QED
    BY <1>9, <2>2
<1>11. ASSUME NoStartWord \/ InvalidHeader \/ InvalidCrc
       PROVE  OnTrack'
  <2> DEFINE e == [kind |-> Header.kind, at |-> Cursor]
  <2>1. HeaderBuffered /\ SkipByte /\ Header.kind \in Kinds
    BY <1>1, <1>11, HeaderFound DEF NoStartWord, InvalidHeader, InvalidCrc
  <2>2. delivered' = delivered /\ Cursor' = Cursor + 1
    BY <1>1, <2>1 DEF SkipByte, Cursor, TypeOK
  <2>3. ASSUME NEW m \in received' .. StreamLen
        PROVE  Track(m, Cursor + 1, delivered, Rejections')
    <3>1. m \in received .. StreamLen /\ Track(m, Cursor, delivered, Rejections)
      BY <1>6, <1>8
    <3>2. CASE Header.kind = "noise"
      <4>1. errors' = errors
        BY <1>11, <3>2 DEF NoStartWord, InvalidHeader, InvalidCrc
      <4>2. OneShot(m)[Cursor] = OneShot(m)[Cursor + 1]
        BY <1>1, <2>1, <3>1, <3>2, ScanMoves
      <4> QED
        BY <3>1, <4>1, <4>2 DEF Rejections
    <3>3. CASE Header.kind # "noise"
      <4>1. errors' = Append(errors, e) /\ Header.kind \in {"badLength", "badId", "badCrc"}
            /\ (Header.kind = "badCrc" => PacketBuffered)
        BY <1>11, <3>3 DEF NoStartWord, InvalidHeader, InvalidCrc
      <4>2. e \in ErrorReports /\ e.kind # "badSequence"
        BY <1>1, <2>1, <4>1, HeaderFound DEF ErrorReports
      <4>3. Rejections' = Append(Rejections, e)
        BY <1>1, <4>1, <4>2, RejectedAppend DEF Rejections
      <4> HIDE DEF e
      <4>4. /\ OneShot(m)[Cursor].stop = OneShot(m)[Cursor + 1].stop
            /\ OneShot(m)[Cursor].delivered = OneShot(m)[Cursor + 1].delivered
            /\ OneShot(m)[Cursor].rejected = <<e>> \o OneShot(m)[Cursor + 1].rejected
            /\ OneShot(m)[Cursor + 1] \in Findings
        <5>1. (Header.kind \in {"badLength", "badId"} \/ (Header.kind = "badCrc" /\ PacketBuffered))
              /\ Header.kind # "good"
          BY <4>1
        <5> QED
          BY <1>1, <2>1, <3>1, <5>1, ScanMoves DEF e
      <4>5. OneShot(m)[Cursor + 1].rejected \in Seq(ErrorReports)
        BY <4>4 DEF Findings
      <4>6. Append(Rejections, e) \o OneShot(m)[Cursor + 1].rejected
              = Rejections \o (<<e>> \o OneShot(m)[Cursor + 1].rejected)
        <5> DEFINE x == OneShot(m)[Cursor + 1].rejected
        <5>1. x \in Seq(ErrorReports) /\ Rejections \in Seq(ErrorReports) /\ e \in ErrorReports
          BY <1>4, <4>2, <4>5
        <5> HIDE DEF x
        <5>2. Append(Rejections, e) \o x = Rejections \o (<<e>> \o x)
          BY <5>1, AppendReport
        <5> QED
          BY <5>2 DEF x
      <4> QED
        BY <3>1, <4>3, <4>4, <4>6
    <3> QED
      BY <3>2, <3>3
  <2> HIDE DEF Track
  <2> QED
    BY <1>9, <2>2, <2>3
<1>12. ASSUME ValidPacket
       PROVE  OnTrack'
  <2> DEFINE w == WrappedSize(Header)
             e == [kind |-> "badSequence", at |-> Cursor]
  <2>1. HeaderBuffered /\ PacketBuffered /\ Header.kind = "good"
        /\ delivered' = Append(delivered, Cursor)
        /\ (errors' = errors \/ errors' = Append(errors, e))
    BY <1>12 DEF ValidPacket
  <2>2. Cursor \in Positions /\ w \in Nat /\ Cursor' = Cursor + w /\ e \in ErrorReports
    <3>1. Cursor \in Positions /\ w \in Nat
      BY <1>1, <2>1, HeaderFound, LengthAssumption
    <3>2. Cursor' = Cursor + w
      BY <1>1, <1>12, <3>1 DEF ValidPacket, Cursor, TypeOK
    <3>3. e \in ErrorReports
      BY <3>1 DEF ErrorReports
    <3> QED
      BY <3>1, <3>2, <3>3
  <2>3. Rejections' = Rejections
    BY <1>1, <2>1, <2>2, RejectedAppend DEF Rejections
  <2>4. ASSUME NEW m \in received' .. StreamLen
        PROVE  Track(m, Cursor + w, Append(delivered, Cursor), Rejections)
    <3>1. m \in received .. StreamLen /\ Track(m, Cursor, delivered, Rejections)
      BY <1>6, <1>8
    <3>2. /\ OneShot(m)[Cursor].stop = OneShot(m)[Cursor + w].stop
          /\ OneShot(m)[Cursor].rejected = OneShot(m)[Cursor + w].rejected
          /\ OneShot(m)[Cursor].delivered = <<Cursor>> \o OneShot(m)[Cursor + w].delivered
          /\ OneShot(m)[Cursor + w] \in Findings
      BY <1>1, <2>1, <3>1, ScanMoves
    <3>3. OneShot(m)[Cursor + w].delivered \in Seq(Positions)
      BY <3>2 DEF Findings
    <3>4. Append(delivered, Cursor) \o OneShot(m)[Cursor + w].delivered
            = delivered \o (<<Cursor>> \o OneShot(m)[Cursor + w].delivered)
      <4> DEFINE x == OneShot(m)[Cursor + w].delivered
      <4>1. x \in Seq(Positions) /\ delivered \in Seq(Positions) /\ Cursor \in Positions
        BY <1>1, <2>2, <3>3
      <4> HIDE DEF x
      <4>2. Append(delivered, Cursor) \o x = delivered \o (<<Cursor>> \o x)
        BY <4>1, AppendPosition
      <4> QED
        BY <4>2 DEF x
    <3> QED
      BY <3>1, <3>2, <3>4
  <2> HIDE DEF Track
  <2> QED
    BY <1>9, <2>1, <2>2, <2>3, <2>4
<1>13. AllDecided'
  <2>1. CASE Feed \/ NoStartWord \/ InvalidHeader \/ InvalidCrc \/ ValidPacket
    <3>1. parsing'
      BY <2>1 DEF Feed, NoStartWord, InvalidHeader, InvalidCrc, ValidPacket, SkipByte
    <3> QED
      BY <3>1 DEF AllDecided
  <2>2. CASE Finish
    <3>1. Cursor' = Cursor /\ received' = received /\ base' = base + offset /\ offset' = 0
          /\ LoopEnds
      BY <1>1, <2>2 DEF Finish, Cursor, TypeOK
    <3>2. Header' = Header
      BY <1>2, <3>1 DEF Header
    <3>3. HeaderBuffered' <=> HeaderBuffered
      BY <1>1, <3>1, LengthAssumption DEF HeaderBuffered, BufferedBytes, TypeOK
    <3>4. HeaderBuffered => (PacketBuffered' <=> PacketBuffered)
      <4> SUFFICES ASSUME HeaderBuffered PROVE PacketBuffered' <=> PacketBuffered
        OBVIOUS
      <4>1. WrappedSize(Header) \in Nat /\ WrappedSize(Header)' = WrappedSize(Header)
        BY <1>1, <3>2, HeaderFound, LengthAssumption DEF WrappedSize
      <4> QED
        BY <1>1, <3>1, <4>1 DEF PacketBuffered, BufferedBytes, TypeOK
    <3> QED
      BY <3>1, <3>2, <3>3, <3>4 DEF AllDecided, LoopEnds
  <2>3. CASE UNCHANGED vars
    BY <2>3 DEF vars, AllDecided, LoopEnds, HeaderBuffered, PacketBuffered, BufferedBytes,
                Header, Cursor
  <2> QED
    BY <2>1, <2>2, <2>3 DEF Next, Parse
<1>14. ASSUME Feed \/ Finish \/ UNCHANGED vars
       PROVE  OnTrack'
  <2>1. UNCHANGED <<Cursor, delivered, errors>>
    BY <1>1, <1>14 DEF Feed, Finish, vars, Cursor, TypeOK, AccountsBalance
  <2> QED
    BY <1>10, <2>1
<1> QED
  BY <1>11, <1>12, <1>13, <1>14 DEF Next, Parse

LEMMA TrackAlways == Spec => [](OnTrack /\ AllDecided)
BY Invariance, TrackInit, TrackStep, PTL DEF Spec

\* However the stream is cut into reads, and whatever is on it, what the parser
\* has delivered and rejected between two calls is what one call on all of the
\* stream read so far would have.
THEOREM ChunkingNeverMatters == Spec => []ChunkingIndependent
<1>1. IInv /\ OnTrack /\ AllDecided => ChunkingIndependent
  <2> SUFFICES ASSUME IInv, OnTrack, AllDecided, ~parsing
               PROVE  OneShot(received)[0] = [stop |-> base, delivered |-> delivered,
                                              rejected |-> Rejections]
    BY DEF ChunkingIndependent
  <2> DEFINE all == OneShot(received)[0]
             rest == OneShot(received)[base]
             none == [stop |-> base, delivered |-> <<>>, rejected |-> <<>>]
  <2>1. /\ TypeOK /\ wire \in [Positions -> Headers] /\ received \in 0 .. StreamLen
        /\ received \in received .. StreamLen /\ 0 \in 0 .. StreamLen
        /\ base \in 0 .. StreamLen /\ offset = 0 /\ Cursor = base /\ base \in Nat
        /\ delivered \in Seq(Positions) /\ errors \in Seq(ErrorReports) /\ LoopEnds
    BY StreamAssumption DEF IInv, TypeOK, AccountsBalance, AllDecided, Cursor
  <2>2. rest = ScanStep(received, OneShot(received), base) /\ all \in Findings
    BY <2>1, ScanUnfolds
  <2>3. rest = none
    <3>1. CASE ~HeaderBuffered
      <4>1. base + MinWrapped > received
        BY <2>1, <3>1, LengthAssumption DEF HeaderBuffered, BufferedBytes
      <4> QED
        BY <2>2, <4>1 DEF ScanStep
    <3>2. CASE HeaderBuffered
      <4>1. Header = wire[base] /\ Header.kind \in {"badCrc", "good"} /\ ~PacketBuffered
        BY <2>1, <3>2 DEF LoopEnds, Header
      <4>2. WrappedSize(Header) \in Nat
        BY <2>1, <3>2, HeaderFound, LengthAssumption
      <4>3. ~(base + WrappedSize(wire[base]) <= received)
        BY <2>1, <4>1, <4>2 DEF PacketBuffered, BufferedBytes
      <4>4. ~(base + MinWrapped > received)
        BY <2>1, <3>2, LengthAssumption DEF HeaderBuffered, BufferedBytes
      <4> QED
        BY <2>2, <4>1, <4>3, <4>4 DEF ScanStep
    <3> QED
      BY <3>1, <3>2
  <2>4. Rejections \in Seq(ErrorReports)
    BY <2>1, KeptExists DEF Rejections
  <2>5. /\ all.stop = rest.stop /\ all.delivered = delivered \o rest.delivered
        /\ all.rejected = Rejections \o rest.rejected
    BY <2>1 DEF OnTrack
  <2> HIDE DEF all, rest
  <2>6. all.stop = base /\ all.delivered = delivered \o <<>> /\ all.rejected = Rejections \o <<>>
    BY <2>3, <2>5
  <2>7. delivered \o <<>> = delivered /\ Rejections \o <<>> = Rejections
    BY <2>1, <2>4, ConcatEmptySeq
  <2>8. all = [stop |-> all.stop, delivered |-> all.delivered, rejected |-> all.rejected]
    BY <2>2 DEF Findings
  <2> QED
    BY <2>6, <2>7, <2>8 DEF all
<1> QED
  BY <1>1, Invariance, TrackAlways, PTL

-------------------------------------------------------------------------------
(* The lengths the parser is given are those of PacketLayout. *)

LEMMA AlignedWord ==
  ASSUME NEW n \in Nat
  PROVE  /\ Aligned(n, 4) \in Nat
         /\ Aligned(n, 4) >= n /\ Aligned(n, 4) < n + 4
         /\ Aligned(n, 4) % 4 = 0
         /\ Aligned(Aligned(n, 4), 4) = Aligned(n, 4)
  BY DEF Aligned

LEMMA Sizes ==
  /\ LogMessage.size \in Nat /\ LogMessage.align = 4
  /\ LogMessage.size >= 4 + maxLogMsgLength /\ LogMessage.size < 8 + maxLogMsgLength
  /\ LogMessage.size = Aligned(4 + maxLogMsgLength, 4)
  /\ invalidCRC = Type(8, 4) /\ WatchdogTimeout = Type(20, 4)
  /\ VfdSetFrequency = Type(4, 2) /\ VfdStatus = Type(17, 1)
  /\ DummyPacket = Type(68, 4) /\ ModbusError = Type(12, 1)
  <1>1. Behind(0, uint32_t) = 4 /\ Behind(4, uint32_t) = 8
    BY DEF Behind, Aligned, uint32_t, Type
  <1>2. LogMessage = Type(Aligned(4 + maxLogMsgLength, 4), 4)
    BY <1>1, MaxLogMsgAssumption DEF LogMessage, Struct, Behind, Array, Aligned, uint8_t, Type
  <1>3. LogMessage.size = Aligned(4 + maxLogMsgLength, 4) /\ LogMessage.align = 4
    BY <1>2 DEF Type
  <1>4. invalidCRC = Type(8, 4)
    BY <1>1 DEF invalidCRC, Struct, Aligned
  <1>5. Behind(4, Array(uint8_t, 16)) = 20 /\ Behind(4, Array(uint8_t, 64)) = 68
    BY DEF Behind, Array, Aligned, uint8_t, Type
  <1>6. WatchdogTimeout = Type(20, 4) /\ DummyPacket = Type(68, 4)
    BY <1>1, <1>5 DEF WatchdogTimeout, DummyPacket, Struct, Aligned
  <1>7. Behind(0, uint8_t) = 1 /\ Behind(1, uint16_t) = 4
    BY DEF Behind, Aligned, uint8_t, uint16_t, Type
  <1>8. VfdSetFrequency = Type(4, 2)
    BY <1>7 DEF VfdSetFrequency, Struct, Aligned
  <1>9. VfdStatus = Type(17, 1) /\ ModbusError = Type(12, 1)
    BY DEF VfdStatus, ModbusError, Packed, uint8_t, uint16_t, uint32_t, Type
  <1> QED
    BY <1>3, <1>4, <1>6, <1>8, <1>9, AlignedWord, MaxLogMsgAssumption

\* The union of the bodies is as long as the log message, and aligned to words.
LEMMA LongestBody ==
  \A b \in Bodies : b.size <= body.size /\ b.align <= body.align
  <1>1. \A b \in Bodies \ {LogMessage} : b.size <= 68 /\ b.align <= 4
    BY Sizes DEF Bodies, ParsingError, Type
  <1>2. LogMessage.size >= 68 /\ LogMessage.align = 4
    BY Sizes, MaxLogMsgAssumption
  <1> QED
    BY <1>1, <1>2, Sizes DEF body, Bodies, ParsingError, Type

\* What the limits are: the header ends where the body begins, with or without
\* the wrapper, so a packet that consists of minPacketLength bytes has a header
\* and no part of a body, whatever the length of a log message.
THEOREM LimitsAreOffsets ==
  /\ minPacketLength = offsetofBody /\ offsetofBody = 16
  /\ wrapperLength = offsetofPacket /\ offsetofPacket = 8
  /\ minWrappedPacketLength = wrapperLength + minPacketLength
  /\ maxWrappedPacketLength = wrapperLength + Packet.size
  /\ Packet.size = minPacketLength + body.size
  <1>1. Behind(0, uint32_t) = 4 /\ Behind(4, uint32_t) = 8 /\ Behind(8, uint32_t) = 12
        /\ Behind(12, uint32_t) = 16
    BY DEF Behind, Aligned, uint32_t, Type
  <1>2. offsetofBody = 16
    BY <1>1, Sizes DEF offsetofBody, body, Aligned
  <1>3. body.size \in Nat /\ body.size % 4 = 0
    BY Sizes, AlignedWord, MaxLogMsgAssumption DEF body
  <1>4. Aligned(16 + body.size, 4) = 16 + body.size
    BY <1>3 DEF Aligned
  <1>5. Packet = Type(16 + body.size, 4)
    BY <1>2, <1>4 DEF Packet, Struct
  <1>6. Packet.size = 16 + body.size /\ Packet.align = 4
    BY <1>5 DEF Type
  <1>7. offsetofPacket = 8
    BY <1>1, <1>6 DEF offsetofPacket, Aligned
  <1>8. Aligned(24 + body.size, 4) = 24 + body.size
    BY <1>3 DEF Aligned
  <1>9. WrappedPacket.size = 24 + body.size
    BY <1>3, <1>6, <1>7, <1>8 DEF WrappedPacket, Struct, Type
  <1> QED
    BY <1>2, <1>3, <1>6, <1>7, <1>9 DEF minPacketLength, wrapperLength,
       minWrappedPacketLength, maxWrappedPacketLength

LEMMA BodyFits ==
  ASSUME NEW id \in PacketIDs
  PROVE  /\ packetBodySizeFromID(id) \in Nat
         /\ packetBodySizeFromID(id) <= body.size
         /\ id # "LogMessage" => packetBodySizeFromID(id) <= 68
  <1>1. body.size \in Nat /\ body.size >= 68 /\ body.size = LogMessage.size
    BY Sizes, MaxLogMsgAssumption DEF body
  <1>2. id # "LogMessage" =>
          packetBodySizeFromID(id) \in {0, 4, 8, 12, 17, 20, 68}
    BY Sizes DEF packetBodySizeFromID, invalidSequence, PacketIDs, uint32_t, Type
  <1>3. id = "LogMessage" => packetBodySizeFromID(id) = LogMessage.size
    BY DEF packetBodySizeFromID
  <1> QED
    BY <1>1, <1>2, <1>3

\* The parser refuses no length a sender computes from an ID, although it knows
\* two limits only and the sender a size for each ID; and the assumption under
\* which the parser is proved (PacketFormat) is met.
THEOREM EveryLengthAccepted ==
  /\ wrapperLength \in Nat \ {0} /\ minPacketLength \in Nat \ {0}
  /\ Packet.size \in Nat
  /\ \A id \in PacketIDs :
       /\ minPacketLength <= packetSizeFromID(id) /\ packetSizeFromID(id) <= Packet.size
       /\ wrappedPacketSizeFromID(id) = wrapperLength + packetSizeFromID(id)
  <1>1. body.size \in Nat
    BY Sizes DEF body
  <1> QED
    BY <1>1, LimitsAreOffsets, BodyFits DEF packetSizeFromID, wrappedPacketSizeFromID

\* No packet is too long for a buffer on its way, whatever its ID: sent to an
\* empty buffer it fits, so no writer retries for ever what can never be written.
\* The buffer of UsbTask sets a limit to the length of a log message.
THEOREM EveryPacketFits ==
  ASSUME maxLogMsgLength <= 256
  PROVE  \A id \in PacketIDs :
           /\ packetSizeFromID(id) + uint32_t.size <= msgbufSize
           /\ 2 * wrappedPacketSizeFromID(id) + 2 * uint32_t.size <= UsbTaskTSize
  <1>1. body.size \in Nat /\ body.size < 8 + maxLogMsgLength
    BY Sizes DEF body
  <1> QED
    BY <1>1, LimitsAreOffsets, BodyFits, MaxLogMsgAssumption
       DEF packetSizeFromID, wrappedPacketSizeFromID, msgbufSize, UsbTaskTSize, uint32_t, Type
===============================================================================
