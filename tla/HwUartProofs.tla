----------------------------- MODULE HwUartProofs -----------------------------
(***************************************************************************)
(* Theorems about HwUart, for FIFOs of any size, any transfers, texts and  *)
(* line settings, and any base clock.                                      *)
(***************************************************************************)
EXTENDS HwUart, SequenceTheorems, TLAPS

-----------------------------------------------------------------------------
(* Sequences.                                                              *)

\* The numbers from 1 up to n, in order.
UpTo(n) == [i \in 1 .. n |-> i]

\* One more number at the end.
LEMMA UpToNext ==
  ASSUME NEW n \in Nat
  PROVE  UpTo(n) \in Seq(Nat) /\ Append(UpTo(n), n + 1) = UpTo(n + 1)
<1>1. UpTo(n) \in Seq(Nat) /\ Len(UpTo(n)) = n
  BY DEF UpTo
<1>2. UpTo(n + 1) \in Seq(Nat) /\ Len(UpTo(n + 1)) = n + 1
  BY DEF UpTo
<1>3. /\ Append(UpTo(n), n + 1) \in Seq(Nat)
      /\ Len(Append(UpTo(n), n + 1)) = n + 1
      /\ \A i \in 1 .. n + 1 : Append(UpTo(n), n + 1)[i] = i
  BY <1>1, AppendProperties DEF UpTo
<1>4. \A i \in 1 .. n + 1 : UpTo(n + 1)[i] = i
  BY DEF UpTo
<1> QED BY <1>1, <1>2, <1>3, <1>4, SeqEqual

\* A character appended to the last of two sequences is appended to both.
LEMMA AppendToLast ==
  ASSUME NEW s \in Seq(Nat), NEW t \in Seq(Nat), NEW e \in Nat
  PROVE  s \o Append(t, e) = Append(s \o t, e)
<1>1. Append(t, e) = t \o <<e>> /\ <<e>> \in Seq(Nat)
  BY AppendIsConcat
<1>2. s \o (t \o <<e>>) = (s \o t) \o <<e>>
  BY <1>1, ConcatAssociative
<1>3. s \o t \in Seq(Nat)
  BY ConcatProperties
<1>4. Append(s \o t, e) = (s \o t) \o <<e>>
  BY <1>3, AppendIsConcat
<1> QED BY <1>1, <1>2, <1>4

\* The first character of the second of two sequences moved to the first.
LEMMA HeadMoves ==
  ASSUME NEW s \in Seq(Nat), NEW t \in Seq(Nat), t # <<>>
  PROVE  /\ Head(t) \in Nat /\ Tail(t) \in Seq(Nat) /\ Len(Tail(t)) = Len(t) - 1
         /\ t = <<Head(t)>> \o Tail(t)
         /\ Append(s, Head(t)) \o Tail(t) = s \o t
<1>1. Head(t) \in Nat /\ Tail(t) \in Seq(Nat) /\ Len(Tail(t)) = Len(t) - 1
  BY HeadTailProperties
<1>2. <<Head(t)>> \in Seq(Nat)
  BY <1>1
<1>3. t = <<Head(t)>> \o Tail(t)
  <2>1. Len(t) \in Nat /\ Len(t) >= 1
    BY EmptySeq
  <2>2. t = SubSeq(t, 1, Len(t)) /\ Tail(t) = SubSeq(t, 2, Len(t))
    BY SubSeqFull, TailIsSubSeq
  <2>3. SubSeq(t, 1, Len(t)) = <<t[1]>> \o SubSeq(t, 1 + 1, Len(t))
    BY <2>1, SubSeqRecursiveFirst
  <2>4. Head(t) = t[1]
    OBVIOUS
  <2> QED BY <2>2, <2>3, <2>4
<1>4. Append(s, Head(t)) = s \o <<Head(t)>>
  BY <1>1, AppendIsConcat
<1>5. (s \o <<Head(t)>>) \o Tail(t) = s \o (<<Head(t)>> \o Tail(t))
  BY <1>1, <1>2, ConcatAssociative
<1> QED BY <1>1, <1>3, <1>4, <1>5

-----------------------------------------------------------------------------
(* Types.                                                                  *)

\* A step of channel c keeps the types if what it makes of the channel is of
\* the right type and the other channels stay as they are.
LEMMA SvcUpdate ==
  ASSUME SvcTypeOK, NEW c \in Channels,
         mode' \in [Channels -> {"idle", "stopped", "running"}],
         left' \in [Channels -> Nat],
         request' \in [Channels -> Requests \cup {NoRequest}],
         \A d \in Channels \ {c} :
           mode'[d] = mode[d] /\ left'[d] = left[d] /\ request'[d] = request[d],
         left'[c] <= request'[c].rows,
         mode'[c] = "idle" <=> left'[c] = 0
  PROVE  SvcTypeOK'
BY DEF SvcTypeOK

\* Preparing, starting and moving a row keep the types of the channels.
LEMMA SvcStep ==
  ASSUME SvcTypeOK, NEW c \in Channels,
         (\E r \in Requests : Prepare(c, r)) \/ Start(c) \/ Move(c)
  PROVE  SvcTypeOK'
<1>1. /\ mode \in [Channels -> {"idle", "stopped", "running"}]
      /\ left \in [Channels -> Nat]
      /\ request \in [Channels -> Requests \cup {NoRequest}]
      /\ left[c] <= request[c].rows
      /\ mode[c] = "idle" <=> left[c] = 0
  BY DEF SvcTypeOK
<1>2. \A r \in Requests : r.rows \in Nat /\ r.rows # 0
  BY UartAssumption
<1>3. NoRequest.rows = 0
  BY UartAssumption
<1>4. CASE \E r \in Requests : Prepare(c, r)
  <2>1. PICK r \in Requests : Prepare(c, r)
    BY <1>4
  <2>2. /\ mode' \in [Channels -> {"idle", "stopped", "running"}]
        /\ left' \in [Channels -> Nat]
        /\ request' \in [Channels -> Requests \cup {NoRequest}]
    BY <1>1, <1>2, <2>1 DEF Prepare
  <2>3. mode'[c] = "stopped" /\ left'[c] = r.rows /\ request'[c] = r
    BY <1>1, <2>1 DEF Prepare
  <2>4. \A d \in Channels \ {c} :
          mode'[d] = mode[d] /\ left'[d] = left[d] /\ request'[d] = request[d]
    BY <1>1, <2>1 DEF Prepare
  <2>5. left'[c] <= request'[c].rows /\ (mode'[c] = "idle" <=> left'[c] = 0)
    BY <1>2, <2>3
  <2> QED BY <2>2, <2>4, <2>5, SvcUpdate
<1>5. CASE Start(c)
  <2>1. mode' \in [Channels -> {"idle", "stopped", "running"}] /\ mode'[c] = "running"
    BY <1>1, <1>5 DEF Start
  <2>2. left' = left /\ request' = request /\ \A d \in Channels \ {c} : mode'[d] = mode[d]
    BY <1>1, <1>5 DEF Start
  <2>3. left[c] # 0
    BY <1>1, <1>5 DEF Start
  <2> QED BY <1>1, <2>1, <2>2, <2>3, SvcUpdate
<1>6. CASE Move(c)
  <2>1. request' = request /\ mode[c] = "running"
    BY <1>6 DEF Move
  <2>2. CASE left[c] > 1 /\ left' = [left EXCEPT ![c] = left[c] - 1] /\ mode' = mode
    <3>1. left'[c] = left[c] - 1 /\ left' \in [Channels -> Nat]
      BY <1>1, <2>2
    <3>2. \A d \in Channels \ {c} : left'[d] = left[d]
      BY <1>1, <2>2
    <3>3. left'[c] <= request[c].rows /\ left'[c] # 0
      <4>1. request[c].rows \in Nat /\ left[c] \in Nat
        BY <1>1, <1>2, <1>3
      <4> QED BY <1>1, <2>2, <3>1, <4>1
    <3> QED BY <1>1, <2>1, <2>2, <3>1, <3>2, <3>3, SvcUpdate
  <2>3. CASE /\ left[c] = 1 /\ left' = [left EXCEPT ![c] = request[c].rows]
             /\ mode' = mode
    <3>1. request[c].rows \in Nat /\ request[c].rows # 0
      BY <1>1, <1>2, <1>3, <2>3
    <3>2. left'[c] = request[c].rows /\ left' \in [Channels -> Nat]
      BY <1>1, <2>3, <3>1
    <3>3. \A d \in Channels \ {c} : left'[d] = left[d]
      BY <1>1, <2>3
    <3> QED BY <1>1, <2>1, <2>3, <3>1, <3>2, <3>3, SvcUpdate
  <2>4. CASE /\ left[c] = 1 /\ left' = [left EXCEPT ![c] = 0]
             /\ mode' = [mode EXCEPT ![c] = "idle"]
    <3>1. /\ left'[c] = 0 /\ left' \in [Channels -> Nat] /\ mode'[c] = "idle"
          /\ mode' \in [Channels -> {"idle", "stopped", "running"}]
      BY <1>1, <2>4
    <3>2. \A d \in Channels \ {c} : left'[d] = left[d] /\ mode'[d] = mode[d]
      BY <1>1, <2>4
    <3>3. 0 <= request[c].rows
      BY <1>1, <1>2, <1>3
    <3> QED BY <1>1, <2>1, <3>1, <3>2, <3>3, SvcUpdate
  <2> QED BY <1>6, <2>2, <2>3, <2>4 DEF Move
<1> QED BY <1>4, <1>5, <1>6

-----------------------------------------------------------------------------
(* Who changes what.                                                       *)

\* The channels change only when the program prepares or starts a transfer and
\* when the DMA engine moves a row.
LEMMA SvcFrame ==
  ASSUME UartNext
  PROVE  \/ UNCHANGED svcVars
         \/ \E c \in Channels :
              (\E r \in Requests : Prepare(c, r)) \/ Start(c) \/ Move(c)
<1> USE UartAssumption
<1>1. CASE \E r \in Requests \cup {NoRequest} : DmaStartSend(r) \/ DmaStartRecv(r)
  BY <1>1 DEF DmaStartSend, DmaStartRecv, PrepareTransfer
<1>2. CASE \E d \in Channels : StartTransfer(d)
  BY <1>2 DEF StartTransfer
<1>3. CASE DmaSendRow \/ DmaRecvRow
  BY <1>3 DEF DmaSendRow, DmaRecvRow
<1>4. CASE InitBegin \/ InitDivisor \/ InitFrame \/ InitFinish
  BY <1>4 DEF InitBegin, InitDivisor, InitFrame, InitFinish
<1>5. CASE (\E istx \in BOOLEAN : DmaAssign(istx)) \/ TrySendChar \/ Poll \/ SendWrite
  BY <1>5 DEF DmaAssign, TrySendChar, Poll, SendWrite
<1>6. CASE (\E n \in 0 .. MaxSent : Printf(n)) \/ TryRecvChar \/ RecvRead
  BY <1>6 DEF Printf, TryRecvChar, RecvRead
<1>7. CASE Transmit \/ Arrive
  BY <1>7 DEF Transmit, Arrive
<1> QED BY <1>1, <1>2, <1>3, <1>4, <1>5, <1>6, <1>7 DEF UartNext

\* The transmitter changes only when it is given a character and when it moves
\* one itself.
LEMMA TxFrame ==
  ASSUME UartNext
  PROVE  UNCHANGED txSide \/ SendWrite \/ Transmit \/ DmaSendRow
<1>1. CASE InitBegin \/ InitDivisor \/ InitFrame \/ InitFinish
  BY <1>1 DEF InitBegin, InitDivisor, InitFrame, InitFinish
<1>2. CASE (\E istx \in BOOLEAN : DmaAssign(istx)) \/ TrySendChar \/ Poll
  BY <1>2 DEF DmaAssign, TrySendChar, Poll
<1>3. CASE (\E n \in 0 .. MaxSent : Printf(n)) \/ TryRecvChar \/ RecvRead
  BY <1>3 DEF Printf, TryRecvChar, RecvRead
<1>4. CASE \E r \in Requests \cup {NoRequest} : DmaStartSend(r) \/ DmaStartRecv(r)
  BY <1>4 DEF DmaStartSend, DmaStartRecv
<1>5. CASE (\E d \in Channels : StartTransfer(d)) \/ Arrive \/ DmaRecvRow
  BY <1>5 DEF StartTransfer, Arrive, DmaRecvRow
<1> QED BY <1>1, <1>2, <1>3, <1>4, <1>5 DEF UartNext

\* The receiver changes only when a character arrives or is taken.
LEMMA RxFrame ==
  ASSUME UartNext
  PROVE  UNCHANGED rxSide \/ RecvRead \/ Arrive \/ DmaRecvRow
<1>1. CASE InitBegin \/ InitDivisor \/ InitFrame \/ InitFinish
  BY <1>1 DEF InitBegin, InitDivisor, InitFrame, InitFinish
<1>2. CASE (\E istx \in BOOLEAN : DmaAssign(istx)) \/ TrySendChar \/ Poll
  BY <1>2 DEF DmaAssign, TrySendChar, Poll
<1>3. CASE (\E n \in 0 .. MaxSent : Printf(n)) \/ TryRecvChar \/ SendWrite
  BY <1>3 DEF Printf, TryRecvChar, SendWrite
<1>4. CASE \E r \in Requests \cup {NoRequest} : DmaStartSend(r) \/ DmaStartRecv(r)
  BY <1>4 DEF DmaStartSend, DmaStartRecv
<1>5. CASE (\E d \in Channels : StartTransfer(d)) \/ Transmit \/ DmaSendRow
  BY <1>5 DEF StartTransfer, Transmit, DmaSendRow
<1> QED BY <1>1, <1>2, <1>3, <1>4, <1>5 DEF UartNext

\* The settings of the line change only in Init.
LEMMA LineFrame ==
  ASSUME UartNext
  PROVE  \/ UNCHANGED lineVars /\ UNCHANGED initialized
            /\ (pc' = pc \/ (pc \in {"idle", "poll", "senddr", "recvdr", "starttx", "startrx"}
                             /\ pc' \notin {"divisor", "frame", "init"}))
         \/ InitBegin \/ InitDivisor \/ InitFrame \/ InitFinish
<1>1. CASE (\E istx \in BOOLEAN : DmaAssign(istx)) \/ TrySendChar \/ Poll
  BY <1>1 DEF DmaAssign, TrySendChar, Poll, Others, Ready, LookForRoom
<1>2. CASE (\E n \in 0 .. MaxSent : Printf(n)) \/ TryRecvChar \/ SendWrite \/ RecvRead
  BY <1>2 DEF Printf, TryRecvChar, SendWrite, RecvRead, Others, Ready, LookForChar
<1>3. CASE \E r \in Requests \cup {NoRequest} : DmaStartSend(r) \/ DmaStartRecv(r)
  BY <1>3 DEF DmaStartSend, DmaStartRecv, Others, Ready
<1>4. CASE \E d \in Channels : StartTransfer(d)
  BY <1>4 DEF StartTransfer, Others
<1>5. CASE Transmit \/ DmaSendRow \/ Arrive \/ DmaRecvRow
  BY <1>5 DEF Transmit, DmaSendRow, Arrive, DmaRecvRow, program
<1> QED BY <1>1, <1>2, <1>3, <1>4, <1>5 DEF UartNext

-----------------------------------------------------------------------------
(* Types.                                                                  *)

\* What a conjunct of the type invariant says of each variable of the program
\* holds after every step.
LEMMA ProgramStep ==
  ASSUME ProgramTypeOK, RxTypeOK, UartNext
  PROVE  ProgramTypeOK'
<1> USE UartAssumption
<1>1. CASE InitBegin
  BY <1>1 DEF InitBegin, ProgramTypeOK
<1>2. CASE InitDivisor
  <2>1. asked \in LineSettings /\ HWUART_BASE_CLOCK \in Nat
    BY DEF ProgramTypeOK
  <2>2. asked.baudrate \in Nat \ {0}
    BY <2>1 DEF LineSettings
  <2>3. Divisor(asked.baudrate) \in Nat
    BY <2>1, <2>2 DEF Divisor
  <2> QED BY <1>2, <2>3 DEF InitDivisor, ProgramTypeOK
<1>3. CASE InitFrame
  <2> DEFINE bits == IF asked.databits > 8 THEN 8
                     ELSE IF asked.databits < 5 THEN 5 ELSE asked.databits
  <2>1. asked \in LineSettings /\ BRD \in Nat
    BY DEF ProgramTypeOK
  <2>2. bits \in 5 .. 8
    BY <2>1 DEF LineSettings
  <2>3. asked' = [asked EXCEPT !.databits = bits]
    BY <1>3 DEF InitFrame
  <2>4. asked' \in LineSettings
    <3> HIDE DEF bits
    <3> QED BY <2>1, <2>2, <2>3 DEF LineSettings
  <2>5. line' \in [divisor : Nat, databits : 5 .. 8, stopbits : {1, 2},
                   parity : {"none", "odd", "even"}]
    <3>1. line' = [divisor |-> BRD, databits |-> bits,
                   stopbits |-> IF asked.halfstopbits > 2 THEN 2 ELSE 1,
                   parity |-> IF ~asked.parity THEN "none"
                              ELSE IF asked.oddparity THEN "odd" ELSE "even"]
      BY <1>3 DEF InitFrame
    <3> HIDE DEF bits
    <3> QED BY <2>1, <2>2, <3>1
  <2> QED BY <1>3, <2>4, <2>5 DEF InitFrame, ProgramTypeOK
<1>4. CASE InitFinish
  BY <1>4 DEF InitFinish, SwitchOn, ProgramTypeOK, lineVars
<1>5. CASE \E istx \in BOOLEAN : DmaAssign(istx)
  BY <1>5 DEF DmaAssign, Others, ProgramTypeOK, lineVars
<1>6. CASE TrySendChar \/ TryRecvChar
  BY <1>6 DEF TrySendChar, TryRecvChar, LookForRoom, LookForChar, Others,
              ProgramTypeOK, lineVars
<1>7. CASE Poll
  BY <1>7 DEF Poll, LookForRoom, Others, ProgramTypeOK, lineVars
<1>8. CASE SendWrite
  BY <1>8 DEF SendWrite, ProgramTypeOK, lineVars
<1>9. CASE \E n \in 0 .. MaxSent : Printf(n)
  BY <1>9 DEF Printf, ProgramTypeOK, lineVars
<1>10. CASE RecvRead
  BY <1>10 DEF RecvRead, Others, ProgramTypeOK, lineVars
<1>11. CASE \E r \in Requests \cup {NoRequest} : DmaStartSend(r) \/ DmaStartRecv(r)
  <2>1. UNCHANGED <<initialized, txdma, rxdma, todo, BRD, line, asked, UARTEN>>
    BY <1>11 DEF DmaStartSend, DmaStartRecv, Others, lineVars
  <2>2. /\ result' = FALSE \/ UNCHANGED result
        /\ pc' \in {"starttx", "startrx"} \/ UNCHANGED pc
        /\ DMACR' = DMACR \cup {"tx"} \/ DMACR' = DMACR \cup {"rx"} \/ UNCHANGED DMACR
    BY <1>11 DEF DmaStartSend, DmaStartRecv, EnableRequests
  <2>3. expected' \in Nat
    <3>1. \A r \in Requests \cup {NoRequest} : r.rows \in Nat
      OBVIOUS
    <3>2. Len(received) \in Nat
      BY DEF RxTypeOK
    <3> QED BY <1>11, <3>1, <3>2 DEF DmaStartSend, DmaStartRecv, ProgramTypeOK
  <2> QED BY <2>1, <2>2, <2>3 DEF ProgramTypeOK
<1>12. CASE \E d \in Channels : StartTransfer(d)
  BY <1>12 DEF StartTransfer, Others, ProgramTypeOK, lineVars
<1>13. CASE Transmit \/ Arrive \/ DmaSendRow \/ DmaRecvRow
  BY <1>13 DEF Transmit, Arrive, DmaSendRow, DmaRecvRow, ProgramTypeOK, program,
               lineVars
<1> QED BY <1>1, <1>2, <1>3, <1>4, <1>5, <1>6, <1>7, <1>8, <1>9, <1>10, <1>11,
           <1>12, <1>13 DEF UartNext

\* The transmitter keeps its types, and the FIFO its size.
LEMMA TxTypeStep ==
  ASSUME TxTypeOK, UartNext
  PROVE  TxTypeOK'
<1>1. FifoSize \in Nat /\ FifoSize >= 1
  BY UartAssumption
<1>2. CASE WriteDR /\ UNCHANGED <<shift, wire>>
  <2>1. CASE TXFF
    BY <1>2, <2>1 DEF WriteDR, TxTypeOK
  <2>2. CASE ~TXFF
    <3>1. txfifo' = Append(txfifo, accepted + 1) /\ accepted' = accepted + 1
      BY <1>2, <2>2 DEF WriteDR
    <3>2. txfifo' \in Seq(Nat) /\ Len(txfifo') = Len(txfifo) + 1
      BY <3>1, AppendProperties DEF TxTypeOK
    <3>3. Len(txfifo') <= FifoSize
      BY <1>1, <2>2, <3>2 DEF TXFF, TxTypeOK
    <3> QED BY <1>2, <3>1, <3>2, <3>3 DEF TxTypeOK
  <2> QED BY <2>1, <2>2
<1>3. CASE Transmit
  <2>1. CASE /\ txfifo # <<>> /\ shift' = <<Head(txfifo)>>
             /\ txfifo' = Tail(txfifo) /\ UNCHANGED wire
    <3>1. Head(txfifo) \in Nat /\ txfifo' \in Seq(Nat) /\ Len(txfifo') = Len(txfifo) - 1
      BY <2>1, HeadMoves DEF TxTypeOK
    <3>2. shift' \in Seq(Nat) /\ Len(shift') = 1
      BY <2>1, <3>1
    <3>3. Len(txfifo') <= FifoSize
      BY <1>1, <3>1 DEF TxTypeOK
    <3> QED BY <1>3, <2>1, <3>1, <3>2, <3>3 DEF TxTypeOK, Transmit
  <2>2. CASE wire' = wire \o shift /\ shift' = <<>> /\ UNCHANGED txfifo
    <3>1. wire' \in Seq(Nat) /\ shift' \in Seq(Nat) /\ Len(shift') = 0
      BY <2>2, ConcatProperties DEF TxTypeOK
    <3> QED BY <1>3, <2>2, <3>1 DEF TxTypeOK, Transmit
  <2> QED BY <1>3, <2>1, <2>2 DEF Transmit
<1>4. CASE UNCHANGED txSide
  BY <1>4 DEF txSide, TxTypeOK
<1> QED BY <1>2, <1>3, <1>4, TxFrame DEF SendWrite, DmaSendRow

\* The receiver keeps its types, and the FIFO its size.
LEMMA RxTypeStep ==
  ASSUME RxTypeOK, UartNext
  PROVE  RxTypeOK'
<1>1. FifoSize \in Nat /\ FifoSize >= 1 /\ MaxArrivals \in Nat
  BY UartAssumption
<1>2. CASE ReadDR /\ UNCHANGED <<arrived, overrun>>
  <2>1. CASE RXFE
    <3>1. received' = Append(received, 0) /\ rxfifo' = rxfifo
      BY <1>2, <2>1 DEF ReadDR
    <3>2. received' \in Seq(Nat)
      BY <3>1, AppendProperties DEF RxTypeOK
    <3> QED BY <1>2, <3>1, <3>2 DEF RxTypeOK
  <2>2. CASE ~RXFE
    <3>1. /\ rxfifo' \in Seq(Nat) /\ Len(rxfifo') = Len(rxfifo) - 1
          /\ Head(rxfifo) \in Nat
      BY <1>2, <2>2, HeadMoves DEF ReadDR, RXFE, RxTypeOK
    <3>2. received' \in Seq(Nat)
      BY <1>2, <2>2, <3>1, AppendProperties DEF ReadDR, RxTypeOK
    <3>3. Len(rxfifo') <= FifoSize
      BY <1>1, <3>1 DEF RxTypeOK
    <3> QED BY <1>2, <3>1, <3>2, <3>3 DEF RxTypeOK
  <2> QED BY <2>1, <2>2
<1>3. CASE Arrive
  <2>1. /\ arrived' = arrived + 1 /\ arrived' \in 0 .. MaxArrivals
        /\ UNCHANGED received
    BY <1>1, <1>3 DEF Arrive, RxTypeOK
  <2>2. overrun' \subseteq 1 .. arrived'
    <3>1. overrun' = overrun \/ overrun' = overrun \cup {arrived + 1}
      BY <1>3 DEF Arrive
    <3>2. overrun \subseteq 1 .. arrived /\ arrived \in Nat
      BY DEF RxTypeOK
    <3>3. 1 .. arrived \subseteq 1 .. arrived + 1 /\ arrived + 1 \in 1 .. arrived + 1
      BY <3>2
    <3>4. overrun' \subseteq 1 .. arrived + 1
      BY <3>1, <3>2, <3>3, Zenon
    <3> QED BY <2>1, <3>4
  <2>3. rxfifo' \in Seq(Nat) /\ Len(rxfifo') <= FifoSize
    <3>1. CASE Len(rxfifo) < FifoSize /\ rxfifo' = Append(rxfifo, arrived + 1)
      <4>1. rxfifo' \in Seq(Nat) /\ Len(rxfifo') = Len(rxfifo) + 1
        BY <3>1, AppendProperties DEF RxTypeOK
      <4> QED BY <1>1, <3>1, <4>1 DEF RxTypeOK
    <3>2. CASE UNCHANGED rxfifo
      BY <3>2 DEF RxTypeOK
    <3> QED BY <1>3, <3>1, <3>2 DEF Arrive
  <2> QED BY <1>3, <2>1, <2>2, <2>3 DEF RxTypeOK, Arrive
<1> QED BY <1>2, <1>3, RxFrame DEF RecvRead, DmaRecvRow, rxSide, RxTypeOK

-----------------------------------------------------------------------------
(* The invariant of the calls.                                             *)

\* While a call is about to touch a FIFO, no DMA transfer runs in its
\* direction, so that what the call saw in FR still holds: there is room for
\* the character it writes, or a character to read.
CallInv ==
  /\ pc \in {"poll", "senddr"} => mode["tx"] # "running"
  /\ pc = "senddr" => ~TXFF
  /\ pc = "recvdr" => mode["rx"] # "running" /\ ~RXFE

\* Every step keeps the invariant of the calls.
LEMMA CallStep ==
  ASSUME UartTypeOK, CallInv, UartNext
  PROVE  CallInv'
<1> USE UartAssumption
<1>1. CASE InitBegin \/ InitDivisor \/ InitFrame \/ InitFinish
  BY <1>1 DEF InitBegin, InitDivisor, InitFrame, InitFinish, CallInv
<1>2. CASE (\E istx \in BOOLEAN : DmaAssign(istx)) \/ SendWrite \/ RecvRead
  <2>1. pc' \in {"idle", "poll"} /\ mode' = mode /\ (pc' = "poll" => pc = "senddr")
    BY <1>2 DEF DmaAssign, SendWrite, RecvRead, Ready, svcVars
  <2> QED BY <2>1 DEF CallInv
<1>3. CASE TrySendChar \/ Poll
  BY <1>3 DEF TrySendChar, Poll, LookForRoom, CallInv, svcVars, txSide, rxSide, TXFF, RXFE, Ready
<1>4. CASE TryRecvChar
  BY <1>4 DEF TryRecvChar, LookForChar, CallInv, svcVars, txSide, rxSide, TXFF, RXFE, Ready
<1>5. CASE \E n \in 0 .. MaxSent : Printf(n)
  BY <1>5 DEF Printf, CallInv, svcVars, Ready
<1>6. CASE \E r \in Requests \cup {NoRequest} : DmaStartSend(r) \/ DmaStartRecv(r)
  <2>1. pc' \in {"idle", "starttx", "startrx"}
    BY <1>6 DEF DmaStartSend, DmaStartRecv, Ready
  <2> QED BY <2>1 DEF CallInv
<1>7. CASE \E d \in Channels : StartTransfer(d)
  BY <1>7 DEF StartTransfer, CallInv
<1>8. CASE Transmit
  <2>1. pc' = pc /\ mode' = mode /\ rxfifo' = rxfifo
    BY <1>8 DEF Transmit, svcVars, program, rxSide
  <2>2. ASSUME ~TXFF PROVE ~TXFF'
    <3>1. txfifo' = txfifo \/ (txfifo # <<>> /\ txfifo' = Tail(txfifo))
      BY <1>8 DEF Transmit
    <3>2. CASE txfifo # <<>> /\ txfifo' = Tail(txfifo)
      <4>1. Len(txfifo') = Len(txfifo) - 1 /\ Len(txfifo) <= FifoSize
            /\ Len(txfifo) \in Nat
        BY <3>2, HeadMoves DEF UartTypeOK, TxTypeOK
      <4> QED BY <4>1 DEF TXFF
    <3> QED BY <2>2, <3>1, <3>2 DEF TXFF
  <2> QED BY <2>1, <2>2 DEF CallInv, RXFE
<1>9. CASE Arrive
  <2>1. pc' = pc /\ mode' = mode /\ txfifo' = txfifo
    BY <1>9 DEF Arrive, svcVars, program, txSide
  <2>2. ASSUME ~RXFE PROVE ~RXFE'
    <3>1. rxfifo' = rxfifo \/ rxfifo' = Append(rxfifo, arrived + 1)
      BY <1>9 DEF Arrive
    <3>2. CASE rxfifo' = Append(rxfifo, arrived + 1)
      BY <3>2, AppendProperties DEF UartTypeOK, RxTypeOK, RXFE
    <3> QED BY <2>2, <3>1, <3>2 DEF RXFE
  <2> QED BY <2>1, <2>2 DEF CallInv, TXFF
<1>10. CASE DmaSendRow
  <2>1. /\ pc' = pc /\ rxfifo' = rxfifo /\ mode["tx"] = "running"
        /\ mode'["rx"] = mode["rx"]
    BY <1>10 DEF DmaSendRow, Move, program, rxSide, UartTypeOK, SvcTypeOK
  <2> QED BY <2>1 DEF CallInv, RXFE
<1>11. CASE DmaRecvRow
  <2>1. /\ pc' = pc /\ txfifo' = txfifo /\ mode["rx"] = "running"
        /\ mode'["tx"] = mode["tx"]
    BY <1>11 DEF DmaRecvRow, Move, program, txSide, UartTypeOK, SvcTypeOK
  <2> QED BY <2>1 DEF CallInv, TXFF
<1> QED BY <1>1, <1>2, <1>3, <1>4, <1>5, <1>6, <1>7, <1>8, <1>9, <1>10, <1>11
        DEF UartNext

-----------------------------------------------------------------------------
(* Characters.                                                             *)

\* A character written to a FIFO with room is the next one to leave after
\* those before it, and moving to the shifter and to the wire keeps the order.
LEMMA SentStep ==
  ASSUME TxTypeOK, CallInv, SentInOrder, UartNext
  PROVE  SentInOrder'
<1> DEFINE out == wire \o shift
<1>1. out \in Seq(Nat) /\ out \o txfifo = UpTo(accepted)
  BY ConcatProperties DEF TxTypeOK, SentInOrder, UpTo
<1>2. CASE WriteDR /\ UNCHANGED <<shift, wire>> /\ ~TXFF
  <2>1. txfifo' = Append(txfifo, accepted + 1) /\ accepted' = accepted + 1
    BY <1>2 DEF WriteDR
  <2>2. out' = out
    BY <1>2
  <2>3. accepted + 1 \in Nat /\ txfifo \in Seq(Nat) /\ accepted \in Nat
    BY DEF TxTypeOK
  <2> HIDE DEF out
  <2>4. out \o Append(txfifo, accepted + 1) = Append(out \o txfifo, accepted + 1)
    BY <1>1, <2>3, AppendToLast
  <2>5. out' \o txfifo' = UpTo(accepted')
    BY <1>1, <2>1, <2>2, <2>3, <2>4, UpToNext
  <2> QED BY <2>5 DEF SentInOrder, UpTo, out
<1>3. CASE Transmit
  <2>1. /\ wire \in Seq(Nat) /\ shift \in Seq(Nat) /\ txfifo \in Seq(Nat)
        /\ accepted' = accepted
    BY <1>3 DEF TxTypeOK, Transmit
  <2>2. CASE /\ shift = <<>> /\ txfifo # <<>> /\ shift' = <<Head(txfifo)>>
             /\ txfifo' = Tail(txfifo) /\ wire' = wire
    <3>1. /\ Head(txfifo) \in Nat
          /\ Append(wire, Head(txfifo)) \o Tail(txfifo) = wire \o txfifo
      BY <2>1, <2>2, HeadMoves
    <3>2. wire \o <<Head(txfifo)>> = Append(wire, Head(txfifo))
      BY <2>1, <3>1, AppendIsConcat
    <3>3. wire \o shift = wire
      BY <2>1, <2>2, ConcatEmptySeq
    <3>4. (wire' \o shift') \o txfifo' = wire \o txfifo
      BY <2>2, <3>1, <3>2
    <3> QED BY <2>1, <3>3, <3>4 DEF SentInOrder
  <2>3. CASE wire' = wire \o shift /\ shift' = <<>> /\ txfifo' = txfifo
    <3>1. wire' \o shift' = wire \o shift
      BY <1>1, <2>3, ConcatEmptySeq
    <3> QED BY <2>1, <2>3, <3>1 DEF SentInOrder
  <2> QED BY <1>3, <2>2, <2>3 DEF Transmit
<1>4. CASE UNCHANGED txSide
  BY <1>4 DEF txSide, SentInOrder
<1>5. CASE SendWrite
  BY <1>2, <1>5 DEF SendWrite, CallInv
<1>6. CASE DmaSendRow
  BY <1>2, <1>6 DEF DmaSendRow
<1> QED BY <1>3, <1>4, <1>5, <1>6, TxFrame

\* A character that arrives is behind all that came before it, unless there
\* is no room and it counts as dropped; taking one moves it across.
LEMMA ReceivedStep ==
  ASSUME RxTypeOK, CallInv, ReceivedInOrder, UartNext
  PROVE  ReceivedInOrder'
<1> DEFINE got == received \o rxfifo
<1>1. /\ got \in Seq(Nat) /\ Len(got) \in Nat /\ arrived \in Nat
      /\ received \in Seq(Nat) /\ rxfifo \in Seq(Nat) /\ overrun \subseteq 1 .. arrived
  BY ConcatProperties DEF RxTypeOK
<1>2. /\ \A i, j \in 1 .. Len(got) : i < j => got[i] < got[j]
      /\ {got[i] : i \in 1 .. Len(got)} = (1 .. arrived) \ overrun
  BY DEF ReceivedInOrder
<1>3. CASE got' = got /\ arrived' = arrived /\ overrun' = overrun
  <2> HIDE DEF got
  <2>1. /\ \A i, j \in 1 .. Len(got') : i < j => got'[i] < got'[j]
        /\ {got'[i] : i \in 1 .. Len(got')} = (1 .. arrived') \ overrun'
    BY <1>2, <1>3
  <2> QED BY <2>1 DEF ReceivedInOrder, got
<1>4. CASE ReadDR /\ ~RXFE /\ arrived' = arrived /\ overrun' = overrun
  <2>1. received' = Append(received, Head(rxfifo)) /\ rxfifo' = Tail(rxfifo)
        /\ rxfifo # <<>>
    BY <1>4 DEF ReadDR, RXFE
  <2>2. received' \o rxfifo' = received \o rxfifo
    BY <1>1, <2>1, HeadMoves
  <2> QED BY <1>3, <1>4, <2>2
<1>5. CASE Arrive
  <2>1. received' = received /\ arrived' = arrived + 1
    BY <1>5 DEF Arrive
  <2>2. CASE rxfifo' = Append(rxfifo, arrived + 1) /\ overrun' = overrun
    <3>1. got' = Append(got, arrived + 1)
      BY <1>1, <2>1, <2>2, AppendToLast, arrived + 1 \in Nat
    <3> HIDE DEF got
    <3>2. /\ Len(got') = Len(got) + 1 /\ got'[Len(got) + 1] = arrived + 1
          /\ \A i \in 1 .. Len(got) : got'[i] = got[i]
      BY <1>1, <3>1, AppendProperties
    <3>3. \A i \in 1 .. Len(got) : got[i] \in 1 .. arrived
      BY <1>2
    <3>4. ASSUME NEW i \in 1 .. Len(got'), NEW j \in 1 .. Len(got'), i < j
          PROVE  got'[i] < got'[j]
      <4>1. i \in 1 .. Len(got)
        BY <1>1, <3>2, <3>4
      <4>2. CASE j = Len(got) + 1
        <5>1. got'[i] \in 1 .. arrived /\ got'[j] = arrived + 1
          BY <3>2, <3>3, <4>1, <4>2
        <5> QED BY <1>1, <5>1
      <4>3. CASE j # Len(got) + 1
        <5>1. j \in 1 .. Len(got)
          BY <1>1, <3>2, <4>3
        <5> QED BY <1>2, <3>2, <3>4, <4>1, <5>1
      <4> QED BY <4>2, <4>3
    <3>5. {got'[i] : i \in 1 .. Len(got')} = {got[i] : i \in 1 .. Len(got)} \cup {arrived + 1}
      <4>1. 1 .. Len(got') = (1 .. Len(got)) \cup {Len(got) + 1}
        BY <1>1, <3>2
      <4> QED BY <3>2, <4>1
    <3>6. (1 .. arrived') \ overrun' = ((1 .. arrived) \ overrun) \cup {arrived + 1}
      <4>1. 1 .. arrived' = (1 .. arrived) \cup {arrived + 1}
        BY <1>1, <2>1
      <4>2. arrived + 1 \notin overrun
        BY <1>1
      <4> QED BY <2>2, <4>1, <4>2
    <3>7. {got'[i] : i \in 1 .. Len(got')} = (1 .. arrived') \ overrun'
      BY <1>2, <3>5, <3>6
    <3> QED BY <3>4, <3>7 DEF ReceivedInOrder, got
  <2>3. CASE overrun' = overrun \cup {arrived + 1} /\ rxfifo' = rxfifo
    <3>1. got' = got
      BY <2>1, <2>3
    <3>2. (1 .. arrived') \ overrun' = (1 .. arrived) \ overrun
      <4>1. 1 .. arrived' = (1 .. arrived) \cup {arrived + 1}
        BY <1>1, <2>1
      <4>2. arrived + 1 \notin 1 .. arrived
        BY <1>1
      <4> QED BY <2>3, <4>1, <4>2
    <3> HIDE DEF got
    <3>3. /\ \A i, j \in 1 .. Len(got') : i < j => got'[i] < got'[j]
          /\ {got'[i] : i \in 1 .. Len(got')} = (1 .. arrived') \ overrun'
      BY <1>2, <3>1, <3>2
    <3> QED BY <3>3 DEF ReceivedInOrder, got
  <2> QED BY <1>5, <2>2, <2>3 DEF Arrive
<1>6. CASE UNCHANGED rxSide
  BY <1>3, <1>6 DEF rxSide
<1>7. CASE RecvRead
  BY <1>4, <1>7 DEF RecvRead, CallInv
<1>8. CASE DmaRecvRow
  BY <1>4, <1>8 DEF DmaRecvRow
<1> QED BY <1>5, <1>6, <1>7, <1>8, RxFrame

\* What a DmaStartRecv asked for and is not yet received is still left to its
\* transfer, which is stopped only until the call starts it.
RecvInv ==
  /\ expected <= Len(received) + left["rx"]
  /\ mode["rx"] = "stopped" => pc = "startrx"
  /\ mode["rx"] # "idle" => rxdma

\* Every step keeps the invariant of the transfers received.
LEMMA RecvStep ==
  ASSUME UartTypeOK, RecvInv, UartNext
  PROVE  RecvInv'
<1> USE UartAssumption
<1>1. /\ left["rx"] \in Nat /\ Len(received) \in Nat /\ expected \in Nat
      /\ mode \in [Channels -> {"idle", "stopped", "running"}]
      /\ left \in [Channels -> Nat]
      /\ request["rx"] \in Requests \cup {NoRequest}
      /\ \A r \in Requests \cup {NoRequest} : r.rows \in Nat
  BY DEF UartTypeOK, SvcTypeOK, RxTypeOK, ProgramTypeOK
<1>2. CASE InitBegin \/ InitDivisor \/ InitFrame \/ InitFinish
  BY <1>2 DEF InitBegin, InitDivisor, InitFrame, InitFinish, RecvInv, svcVars, rxSide
<1>3. CASE (\E istx \in BOOLEAN : DmaAssign(istx)) \/ TrySendChar \/ Poll \/ SendWrite
  <2>1. /\ pc # "startrx" /\ expected' = expected /\ received' = received
        /\ mode' = mode /\ left' = left /\ (rxdma' = rxdma \/ rxdma' = TRUE)
    BY <1>3 DEF DmaAssign, TrySendChar, Poll, SendWrite, Ready, svcVars, rxSide
  <2> QED BY <2>1 DEF RecvInv
<1>4. CASE (\E n \in 0 .. MaxSent : Printf(n)) \/ TryRecvChar
  <2>1. /\ pc # "startrx" /\ expected' = expected /\ received' = received
        /\ mode' = mode /\ left' = left /\ rxdma' = rxdma
    BY <1>4 DEF Printf, TryRecvChar, Ready, svcVars, rxSide
  <2> QED BY <2>1 DEF RecvInv
<1>5. CASE RecvRead
  <2>1. /\ pc = "recvdr" /\ expected' = expected /\ mode' = mode /\ left' = left
        /\ rxdma' = rxdma /\ Len(received') = Len(received) + 1
    BY <1>5, AppendProperties DEF RecvRead, ReadDR, svcVars, UartTypeOK, RxTypeOK, RXFE
  <2> QED BY <1>1, <2>1 DEF RecvInv
<1>6. CASE \E r \in Requests \cup {NoRequest} : DmaStartSend(r)
  <2>1. /\ pc = "idle" /\ expected' = expected /\ received' = received
        /\ rxdma' = rxdma /\ mode'["rx"] = mode["rx"] /\ left'["rx"] = left["rx"]
    BY <1>1, <1>6 DEF DmaStartSend, PrepareTransfer, Prepare, svcVars, rxSide, Ready
  <2> QED BY <2>1 DEF RecvInv
<1>7. CASE \E r \in Requests \cup {NoRequest} : DmaStartRecv(r)
  <2>1. PICK r \in Requests \cup {NoRequest} : DmaStartRecv(r)
    BY <1>7
  <2>2. pc = "idle" /\ rxdma' = rxdma /\ received' = received
    BY <2>1 DEF DmaStartRecv, Ready, rxSide
  <2>3. CASE UNCHANGED <<svcVars, pc, DMACR, expected>>
    BY <2>2, <2>3 DEF RecvInv, svcVars
  <2>4. CASE /\ rxdma /\ pc' = "startrx" /\ expected' = Len(received) + r.rows
             /\ PrepareTransfer("rx", r)
    <3>1. left'["rx"] \in Nat /\ r.rows <= left'["rx"]
      <4>1. CASE r \in Requests /\ Prepare("rx", r)
        BY <1>1, <4>1 DEF Prepare
      <4>2. CASE r = NoRequest /\ UNCHANGED svcVars
        BY <1>1, <4>2 DEF svcVars
      <4> QED BY <2>4, <4>1, <4>2 DEF PrepareTransfer
    <3>2. expected' <= Len(received') + left'["rx"]
      BY <1>1, <2>2, <2>4, <3>1
    <3> QED BY <2>2, <2>4, <3>2 DEF RecvInv
  <2> QED BY <2>1, <2>3, <2>4 DEF DmaStartRecv
<1>8. CASE \E d \in Channels : StartTransfer(d)
  <2>1. PICK d \in Channels : StartTransfer(d)
    BY <1>8
  <2>2. /\ left' = left /\ expected' = expected /\ received' = received
        /\ rxdma' = rxdma /\ pc' = "idle"
    BY <2>1 DEF StartTransfer, Start, svcVars, rxSide
  <2>3. mode'["rx"] # "stopped" /\ (mode'["rx"] # "idle" => mode["rx"] # "idle")
    BY <1>1, <2>1 DEF StartTransfer, Start, svcVars, RecvInv
  <2> QED BY <2>2, <2>3 DEF RecvInv
<1>9. CASE Transmit \/ Arrive
  BY <1>9 DEF Transmit, Arrive, svcVars, program, rxSide, RecvInv
<1>10. CASE DmaSendRow
  <2>1. /\ pc' = pc /\ expected' = expected /\ received' = received /\ rxdma' = rxdma
        /\ mode'["rx"] = mode["rx"] /\ left'["rx"] = left["rx"]
    BY <1>1, <1>10 DEF DmaSendRow, Move, program, rxSide
  <2> QED BY <2>1 DEF RecvInv
<1>11. CASE DmaRecvRow
  <2>1. /\ pc' = pc /\ expected' = expected /\ rxdma' = rxdma /\ mode["rx"] = "running"
        /\ mode'["rx"] \in {"idle", "running"}
    BY <1>1, <1>11 DEF DmaRecvRow, Move, program
  <2>2. Len(received') = Len(received) + 1
    BY <1>11, AppendProperties DEF DmaRecvRow, ReadDR, UartTypeOK, RxTypeOK, RXFE
  <2>3. left'["rx"] \in Nat /\ left["rx"] <= left'["rx"] + 1
    BY <1>1, <1>11 DEF DmaRecvRow, Move
  <2>4. expected' <= Len(received') + left'["rx"]
    BY <1>1, <2>1, <2>2, <2>3 DEF RecvInv
  <2> QED BY <2>1, <2>4 DEF RecvInv
<1> QED BY <1>2, <1>3, <1>4, <1>5, <1>6, <1>7, <1>8, <1>9, <1>10, <1>11 DEF UartNext

-----------------------------------------------------------------------------
(* The line.                                                               *)

\* Init has the divisor in the register before it writes the frame, and has
\* put both into effect when it switches the UART on.
LineInv ==
  /\ initialized => pc \notin {"divisor", "frame", "init"}
  /\ pc = "frame" => BRD = Divisor(asked.baudrate)
  /\ pc = "init" \/ initialized => LineMatches

\* The divisor gives the rate asked for or the nearest one above it.
LEMMA NearestRate ==
  ASSUME NEW a \in Nat, NEW r \in Nat \ {0}
  PROVE  /\ a \div r \in Nat
         /\ (a \div r) * r <= a
         /\ a < (a \div r + 1) * r
OBVIOUS

\* Every step keeps the invariant of the line.
LEMMA LineStep ==
  ASSUME ProgramTypeOK, LineInv, UartNext
  PROVE  LineInv'
<1>1. CASE InitBegin
  BY <1>1 DEF InitBegin, LineInv
<1>2. CASE InitDivisor
  BY <1>2 DEF InitDivisor, LineInv
<1>3. CASE InitFrame
  <2> DEFINE bits == IF asked.databits > 8 THEN 8
                     ELSE IF asked.databits < 5 THEN 5 ELSE asked.databits
  <2>1. asked \in LineSettings /\ HWUART_BASE_CLOCK \in Nat
    BY UartAssumption DEF ProgramTypeOK
  <2>2. asked.baudrate \in Nat \ {0} /\ asked.halfstopbits \in Int
    BY <2>1 DEF LineSettings
  <2>3. BRD = (4 * HWUART_BASE_CLOCK) \div asked.baudrate
    BY <1>3 DEF InitFrame, LineInv, Divisor
  <2>4. /\ asked' = [asked EXCEPT !.databits = bits]
        /\ line' = [divisor |-> BRD, databits |-> bits,
                    stopbits |-> IF asked.halfstopbits > 2 THEN 2 ELSE 1,
                    parity |-> IF ~asked.parity THEN "none"
                               ELSE IF asked.oddparity THEN "odd" ELSE "even"]
    BY <1>3 DEF InitFrame
  <2> HIDE DEF bits
  <2>5. /\ asked'.baudrate = asked.baudrate /\ asked'.databits = bits
        /\ asked'.halfstopbits = asked.halfstopbits
        /\ asked'.parity = asked.parity /\ asked'.oddparity = asked.oddparity
    BY <2>1, <2>4 DEF LineSettings
  <2>6. /\ line'.divisor = BRD /\ line'.databits = bits
        /\ line'.stopbits = IF asked.halfstopbits > 2 THEN 2 ELSE 1
        /\ line'.parity = IF ~asked.parity THEN "none"
                          ELSE IF asked.oddparity THEN "odd" ELSE "even"
    BY <2>4
  <2>7. /\ line'.divisor * asked'.baudrate <= 4 * HWUART_BASE_CLOCK
        /\ 4 * HWUART_BASE_CLOCK < (line'.divisor + 1) * asked'.baudrate
    <3>1. 4 * HWUART_BASE_CLOCK \in Nat
      BY <2>1
    <3> QED BY <2>2, <2>3, <2>5, <2>6, <3>1, NearestRate
  <2>8. line'.stopbits = 1 <=> asked'.halfstopbits <= 2
    BY <2>2, <2>5, <2>6
  <2>9. /\ line'.parity = "none" <=> ~asked'.parity
        /\ line'.parity # "none" => (line'.parity = "odd" <=> asked'.oddparity)
    BY <2>5, <2>6
  <2>10. LineMatches'
    BY <2>5, <2>6, <2>7, <2>8, <2>9 DEF LineMatches
  <2>11. pc' = "init" /\ ~initialized /\ initialized' = initialized
    BY <1>3 DEF InitFrame, LineInv
  <2> QED BY <2>10, <2>11 DEF LineInv
<1>4. CASE InitFinish
  BY <1>4 DEF InitFinish, LineInv, LineMatches, lineVars
<1>5. CASE /\ UNCHANGED lineVars /\ UNCHANGED initialized
           /\ (pc' = pc \/ (pc \in {"idle", "poll", "senddr", "recvdr", "starttx", "startrx"}
                            /\ pc' \notin {"divisor", "frame", "init"}))
  BY <1>5 DEF LineInv, LineMatches, lineVars
<1> QED BY <1>1, <1>2, <1>3, <1>4, <1>5, LineFrame

-----------------------------------------------------------------------------
(* The theorems.                                                           *)

\* The inductive invariant: the types, the invariants of the calls, of the
\* transfers received and of the line, and the order of the characters.
UartInv ==
  UartTypeOK /\ CallInv /\ RecvInv /\ LineInv /\ SentInOrder /\ ReceivedInOrder

\* The UART as it starts satisfies the inductive invariant.
LEMMA UartInvInit == UartInit => UartInv
<1> SUFFICES ASSUME UartInit PROVE UartInv
  OBVIOUS
<1> USE UartAssumption
<1>1. SvcTypeOK
  BY DEF UartInit, SvcInit, SvcTypeOK
<1>2. TxTypeOK /\ RxTypeOK
  BY DEF UartInit, TxTypeOK, RxTypeOK
<1>3. ProgramTypeOK
  <2>1. line \in [divisor : Nat, databits : 5 .. 8, stopbits : {1, 2},
                  parity : {"none", "odd", "even"}]
    BY DEF UartInit
  <2>2. asked \in LineSettings /\ todo \in 0 .. FMT_BUFFER_SIZE - 1
    BY DEF UartInit
  <2> QED BY <2>1, <2>2 DEF UartInit, ProgramTypeOK
<1>4. CallInv /\ RecvInv /\ LineInv
  BY DEF UartInit, SvcInit, CallInv, RecvInv, LineInv
<1>5. SentInOrder
  <2>1. (<<>> \o <<>>) \o <<>> = <<>> /\ <<>> = [i \in 1 .. 0 |-> i]
    OBVIOUS
  <2> QED BY <2>1 DEF UartInit, SentInOrder
<1>6. ReceivedInOrder
  <2>1. <<>> \o <<>> = <<>> /\ Len(<<>>) = 0 /\ 1 .. 0 = {}
    OBVIOUS
  <2>2. received \o rxfifo = <<>> /\ (1 .. arrived) \ overrun = {}
    BY <2>1 DEF UartInit
  <2> QED BY <2>1, <2>2 DEF ReceivedInOrder
<1> QED BY <1>1, <1>2, <1>3, <1>4, <1>5, <1>6 DEF UartInv, UartTypeOK

\* Every step keeps the inductive invariant.
LEMMA UartInvStep == UartInv /\ [UartNext]_uartVars => UartInv'
<1> SUFFICES ASSUME UartInv, [UartNext]_uartVars PROVE UartInv'
  OBVIOUS
<1> USE DEF UartInv
<1>1. CASE UartNext
  <2>1. SvcTypeOK'
    <3>1. CASE UNCHANGED svcVars
      BY <3>1 DEF svcVars, UartTypeOK, SvcTypeOK
    <3> QED BY <1>1, <3>1, SvcFrame, SvcStep DEF UartTypeOK
  <2>2. TxTypeOK' /\ RxTypeOK' /\ ProgramTypeOK'
    BY <1>1, TxTypeStep, RxTypeStep, ProgramStep DEF UartTypeOK
  <2>3. CallInv' /\ RecvInv' /\ LineInv'
    BY <1>1, CallStep, RecvStep, LineStep DEF UartTypeOK
  <2>4. SentInOrder' /\ ReceivedInOrder'
    BY <1>1, SentStep, ReceivedStep DEF UartTypeOK
  <2> QED BY <2>1, <2>2, <2>3, <2>4 DEF UartTypeOK
<1>2. CASE UNCHANGED uartVars
  <2> USE <1>2 DEF uartVars, svcVars, program, lineVars, txSide, rxSide
  <2>1. UartTypeOK'
    BY DEF UartTypeOK, SvcTypeOK, TxTypeOK, RxTypeOK, ProgramTypeOK
  <2>2. CallInv' /\ RecvInv' /\ LineInv'
    BY DEF CallInv, RecvInv, LineInv, LineMatches, TXFF, RXFE
  <2>3. SentInOrder' /\ ReceivedInOrder'
    BY DEF SentInOrder, ReceivedInOrder
  <2> QED BY <2>1, <2>2, <2>3
<1> QED BY <1>1, <1>2

\* The inductive invariant holds of every state the UART reaches.
THEOREM UartCorrect == UartSpec => []UartInv
BY UartInvInit, UartInvStep, PTL DEF UartSpec

\* The FIFOs never hold more than their size, what is left of a transfer never
\* exceeds what was asked for, and a channel is idle exactly when nothing is.
THEOREM UartTypeCorrect == UartSpec => []UartTypeOK
<1>1. UartInv => UartTypeOK
  BY DEF UartInv
<1> QED BY <1>1, UartCorrect, PTL

\* No character given to the transmitter is lost, doubled or overtaken,
\* whichever way TrySendChar, printf and the DMA transfers alternate.
THEOREM SentCorrect == UartSpec => []SentInOrder
<1>1. UartInv => SentInOrder
  BY DEF UartInv
<1> QED BY <1>1, UartCorrect, PTL

\* What the program and its DMA receive is what came in, in order, each
\* character once, without any but the ones the receiver dropped.
THEOREM ReceivedCorrect == UartSpec => []ReceivedInOrder
<1>1. UartInv => ReceivedInOrder
  BY DEF UartInv
<1> QED BY <1>1, UartCorrect, PTL

\* DmaRecvCompleted does not return true before all characters the last
\* DmaStartRecv asked for are received.
THEOREM RecvCompletedCorrect == UartSpec => []RecvCompletedMeansReceived
<1>1. UartInv => RecvCompletedMeansReceived
  <2> SUFFICES ASSUME UartInv, pc = "idle", DmaRecvCompleted
               PROVE  Len(received) >= expected
    BY DEF RecvCompletedMeansReceived
  <2>1. mode["rx"] \in {"idle", "stopped", "running"} /\ left["rx"] \in Nat
    BY UartAssumption DEF UartInv, UartTypeOK, SvcTypeOK
  <2>2. mode["rx"] = "idle"
    BY <2>1 DEF UartInv, RecvInv, DmaRecvCompleted
  <2>3. left["rx"] = 0
    BY <2>2, UartAssumption DEF UartInv, UartTypeOK, SvcTypeOK
  <2>4. Len(received) \in Nat /\ expected \in Nat
    BY DEF UartInv, UartTypeOK, RxTypeOK, ProgramTypeOK
  <2> QED BY <2>3, <2>4 DEF UartInv, RecvInv
<1> QED BY <1>1, UartCorrect, PTL

\* While the UART is on, the line runs at the rate nearest above the one the
\* object asks for, and with its frame.
THEOREM LineCorrect == UartSpec => []LineAsAsked
<1>1. UartInv => LineAsAsked
  BY DEF UartInv, LineInv, LineAsAsked
<1> QED BY <1>1, UartCorrect, PTL

\* The UART uses its channels only as the service of the DMA channels allows:
\* what it sees of them is a behaviour of DmaService.
THEOREM UartUsesService == UartSpec => SvcInit /\ [][SvcNext]_svcVars
<1>1. UartInit => SvcInit
  BY DEF UartInit
<1>2. [UartNext]_uartVars => [SvcNext]_svcVars
  <2>1. UartNext => [SvcNext]_svcVars
    BY SvcFrame DEF SvcNext
  <2>2. UNCHANGED uartVars => UNCHANGED svcVars
    BY DEF uartVars
  <2> QED BY <2>1, <2>2
<1> QED BY <1>1, <1>2, PTL DEF UartSpec
=============================================================================
