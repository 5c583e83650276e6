------------------------------- MODULE HwUart -------------------------------
(***************************************************************************)
(* A UART of hwuart_broadcom with its two DMA channels: the calls of a     *)
(* single-threaded program, register access by register access, beside     *)
(* the transmitter, the receiver and the DMA engine, which move characters *)
(* in and out of the two FIFOs on their own.                               *)
(*                                                                         *)
(* The DMA channels are those of DmaService, which HwDma implements.       *)
(* Characters are numbered in the order in which they are sent, and in     *)
(* which they arrive.  Of the line, what Init makes of the settings of the *)
(* object is modelled: rate, data bits, stop bits and parity.              *)
(*                                                                         *)
(* Contract of the callers, which the code does not check: the UART is     *)
(* initialised before it is used and not again while it sends or while a   *)
(* DMA transfer runs; a direction in which a DMA transfer runs is left to  *)
(* the DMA.                                                                *)
(***************************************************************************)
EXTENDS DmaService, Sequences

CONSTANTS
  FifoSize,     \* characters in each FIFO
  Settings,     \* what the program may ask of the line: the fields of the object
  HWUART_BASE_CLOCK, FMT_BUFFER_SIZE,
  MaxSent,      \* bound: characters the program sends
  MaxArrivals   \* bound: characters that arrive on the line

\* Variant: the fraction is lost, as if only whole divisors existed.
Divisor_Whole(rate) == 64 * ((HWUART_BASE_CLOCK \div 16) \div rate)

\* baseclock / (16 * rate) in units of 1/64: IBRD holds the whole part and
\* FBRD the other six bits.
Divisor(rate) == (4 * HWUART_BASE_CLOCK) \div rate

LineSettings == [baudrate : Nat \ {0}, databits : Int, halfstopbits : Int,
                 parity : BOOLEAN, oddparity : BOOLEAN]

ASSUME UartAssumption ==
  /\ Channels = {"tx", "rx"}
  /\ \A r \in Requests : r.rows \in Nat \ {0} /\ r.loop \in BOOLEAN
  /\ NoRequest.rows = 0 /\ NoRequest \notin Requests
  /\ FifoSize \in Nat \ {0} /\ MaxSent \in Nat /\ MaxArrivals \in Nat
  /\ HWUART_BASE_CLOCK \in Nat /\ FMT_BUFFER_SIZE \in Nat \ {0}
  /\ Settings \subseteq LineSettings

\* Contract: the rate is one whose divisor fits in IBRD.
ASSUME RateAssumption ==
  \A s \in Settings : Divisor(s.baudrate) \in 64 .. 65535 * 64

VARIABLES
  initialized,
  txdma, rxdma,   \* TRUE when a DMA channel is assigned to the direction
  UARTEN,         \* the UART is enabled (register CR)
  DMACR,          \* directions whose DMA requests are enabled
  BRD,            \* registers IBRD and FBRD: the divisor in units of 1/64
  line,           \* the divisor and the frame in effect
  txfifo, rxfifo,
  shift,          \* the character being shifted out, or none: a sequence
  pc,             \* next register access of the running call, "idle" for none
  todo,           \* characters printf has not yet sent
  result,         \* what the last call returned
  asked,          \* the settings Init works with
  accepted,       \* history: characters given to the transmitter
  wire,           \* history: characters that left
  arrived,        \* history: characters that came in
  overrun,        \* history: of these, those the receiver dropped
  received,       \* history: characters the program or its DMA has got
  expected        \* history: length of received when the last DmaStartRecv is done

lineVars == <<BRD, line, asked>>
program == <<initialized, txdma, rxdma, pc, todo, result, expected, lineVars>>
txSide == <<txfifo, shift, accepted, wire>>
rxSide == <<rxfifo, arrived, overrun, received>>
uartVars == <<svcVars, program, UARTEN, DMACR, txSide, rxSide>>

UartInit ==
  /\ SvcInit
  /\ initialized = FALSE /\ txdma = FALSE /\ rxdma = FALSE
  /\ UARTEN = FALSE /\ DMACR = {}
  /\ BRD = 0 /\ asked \in Settings
  /\ line = [divisor |-> 0, databits |-> 5, stopbits |-> 1, parity |-> "none"]
  /\ txfifo = <<>> /\ rxfifo = <<>> /\ shift = <<>>
  /\ pc = "idle" /\ todo = 0 /\ result = FALSE
  /\ accepted = 0 /\ wire = <<>>
  /\ arrived = 0 /\ overrun = {} /\ received = <<>> /\ expected = 0

-----------------------------------------------------------------------------
(* External: the UART and the DMA engine.                                  *)

\* Flags of register FR.
TXFF == Len(txfifo) = FifoSize
RXFE == rxfifo = <<>>
BUSY == txfifo # <<>> \/ shift # <<>>

\* Writing to DR puts a character into the FIFO; it is lost when it is full.
WriteDR ==
  /\ accepted' = accepted + 1
  /\ txfifo' = IF TXFF THEN txfifo ELSE Append(txfifo, accepted + 1)

\* Reading DR takes a character from the FIFO; an empty one yields nothing
\* that came in (0).
ReadDR ==
  /\ received' = Append(received, IF RXFE THEN 0 ELSE Head(rxfifo))
  /\ rxfifo' = IF RXFE THEN rxfifo ELSE Tail(rxfifo)

\* The transmitter takes a character, or has sent the one it had.
Transmit ==
  /\ UARTEN
  /\ \/ /\ shift = <<>> /\ txfifo # <<>>
        /\ shift' = <<Head(txfifo)>>
        /\ txfifo' = Tail(txfifo)
        /\ UNCHANGED wire
     \/ /\ shift # <<>>
        /\ wire' = wire \o shift
        /\ shift' = <<>>
        /\ UNCHANGED txfifo
  /\ UNCHANGED <<svcVars, program, UARTEN, DMACR, accepted, rxSide>>

\* A character arrives.  Without room for it, or with the UART off, it is lost.
Arrive ==
  /\ arrived < MaxArrivals
  /\ arrived' = arrived + 1
  /\ \/ /\ UARTEN /\ Len(rxfifo) < FifoSize
        /\ rxfifo' = Append(rxfifo, arrived + 1)
        /\ UNCHANGED overrun
     \/ /\ ~UARTEN \/ Len(rxfifo) = FifoSize
        /\ overrun' = overrun \cup {arrived + 1}
        /\ UNCHANGED rxfifo
  /\ UNCHANGED <<svcVars, program, UARTEN, DMACR, txSide, received>>

\* The DMA engine moves a row when the UART asks for it (DREQ).
DmaSendRow ==
  /\ "tx" \in DMACR /\ ~TXFF
  /\ Move("tx")
  /\ WriteDR
  /\ UNCHANGED <<program, UARTEN, DMACR, shift, wire, rxSide>>

DmaRecvRow ==
  /\ "rx" \in DMACR /\ ~RXFE
  /\ Move("rx")
  /\ ReadDR
  /\ UNCHANGED <<program, UARTEN, DMACR, txSide, arrived, overrun>>

-----------------------------------------------------------------------------
(* The program.                                                            *)

\* A call of a usable UART can begin.
Ready == pc = "idle" /\ initialized

\* Variant: DMACR is left as it is.
EnableRequests_Forgotten(d) == UNCHANGED DMACR

\* DMACR |= the bit of direction d.
EnableRequests(d) == DMACR' = DMACR \cup {d}

\* What the calls other than Init and printf leave alone.
Others == UNCHANGED <<initialized, todo, lineVars, UARTEN>>

\* Init for a device number that is not a PL011, or without a mapping, fails;
\* otherwise its first store switches the UART off.
InitBegin ==
  /\ pc = "idle"
  /\ ~BUSY /\ \A d \in Channels : mode[d] # "running"
  /\ initialized' = FALSE
  /\ \/ /\ result' = FALSE
        /\ UNCHANGED <<pc, asked, UARTEN>>
     \/ /\ pc' = "divisor"
        /\ asked' \in Settings     \* public fields, set before
        /\ UARTEN' = FALSE
        /\ UNCHANGED result
  /\ UNCHANGED <<svcVars, txdma, rxdma, todo, expected, BRD, line, DMACR, txSide,
                 rxSide>>

\* The stores to IBRD and FBRD ...
InitDivisor ==
  /\ pc = "divisor"
  /\ BRD' = Divisor(asked.baudrate)
  /\ pc' = "frame"
  /\ UNCHANGED <<svcVars, initialized, txdma, rxdma, todo, result, expected, line,
                 asked, UARTEN, DMACR, txSide, rxSide>>

\* ... and to LCRH, which puts the divisor into effect as well.  databits is
\* corrected in the object.
InitFrame ==
  /\ pc = "frame"
  /\ LET bits == IF asked.databits > 8 THEN 8
                 ELSE IF asked.databits < 5 THEN 5 ELSE asked.databits
     IN  /\ asked' = [asked EXCEPT !.databits = bits]
         /\ line' = [divisor |-> BRD, databits |-> bits,
                     stopbits |-> IF asked.halfstopbits > 2 THEN 2 ELSE 1,
                     parity |-> IF ~asked.parity THEN "none"
                                ELSE IF asked.oddparity THEN "odd" ELSE "even"]
  /\ pc' = "init"
  /\ UNCHANGED <<svcVars, initialized, txdma, rxdma, todo, result, expected, BRD,
                 UARTEN, DMACR, txSide, rxSide>>

\* Variant: the last store leaves the UART switched off.
SwitchOn_Forgotten == UNCHANGED UARTEN

SwitchOn == UARTEN' = TRUE

\* DMA requests are disabled, the UART is switched on.
InitFinish ==
  /\ pc = "init"
  /\ DMACR' = {}
  /\ SwitchOn
  /\ initialized' = TRUE
  /\ result' = TRUE
  /\ pc' = "idle"
  /\ UNCHANGED <<svcVars, txdma, rxdma, todo, expected, lineVars, txSide, rxSide>>

DmaAssign(istx) ==
  /\ Ready
  /\ \/ istx /\ txdma' = TRUE /\ UNCHANGED rxdma
     \/ ~istx /\ rxdma' = TRUE /\ UNCHANGED txdma
  /\ Others
  /\ UNCHANGED <<svcVars, pc, result, expected, DMACR, txSide, rxSide>>

\* Variant: FR is not looked at.
LookForRoom_NoCheck == pc' = "senddr" /\ UNCHANGED result

\* TrySendChar looks at FR.
LookForRoom ==
  \/ TXFF /\ result' = FALSE /\ UNCHANGED pc
  \/ ~TXFF /\ pc' = "senddr" /\ UNCHANGED result

TrySendChar ==
  /\ Ready /\ mode["tx"] # "running" /\ accepted < MaxSent
  /\ LookForRoom
  /\ Others
  /\ UNCHANGED <<svcVars, txdma, rxdma, expected, DMACR, txSide, rxSide>>

\* printf of a text of n characters, of which the buffer holds all but the
\* last byte; SendChar is printf of one.
Printf(n) ==
  /\ Ready /\ mode["tx"] # "running" /\ accepted + n <= MaxSent
  /\ todo' = IF n < FMT_BUFFER_SIZE THEN n ELSE FMT_BUFFER_SIZE - 1
  /\ pc' = IF todo' = 0 THEN "idle" ELSE "poll"
  /\ UNCHANGED <<svcVars, initialized, txdma, rxdma, result, expected, lineVars,
                 UARTEN, DMACR, txSide, rxSide>>

\* SendChar calls TrySendChar until it succeeds.
Poll ==
  /\ pc = "poll"
  /\ LookForRoom
  /\ Others
  /\ UNCHANGED <<svcVars, txdma, rxdma, expected, DMACR, txSide, rxSide>>

\* TrySendChar stores the character; in printf the next one follows.
SendWrite ==
  /\ pc = "senddr"
  /\ WriteDR
  /\ result' = TRUE
  /\ todo' = IF todo = 0 THEN 0 ELSE todo - 1
  /\ pc' = IF todo' = 0 THEN "idle" ELSE "poll"
  /\ UNCHANGED <<svcVars, initialized, txdma, rxdma, expected, lineVars, UARTEN,
                 DMACR, shift, wire, rxSide>>

\* Variant: FR is not looked at.
LookForChar_NoCheck ==
  Len(received) < MaxArrivals /\ pc' = "recvdr" /\ UNCHANGED result

LookForChar ==
  \/ RXFE /\ result' = FALSE /\ UNCHANGED pc
  \/ ~RXFE /\ pc' = "recvdr" /\ UNCHANGED result

\* TryRecvChar looks at FR ...
TryRecvChar ==
  /\ Ready /\ mode["rx"] # "running"
  /\ LookForChar
  /\ Others
  /\ UNCHANGED <<svcVars, txdma, rxdma, expected, DMACR, txSide, rxSide>>

\* ... and takes the character.
RecvRead ==
  /\ pc = "recvdr"
  /\ ReadDR
  /\ result' = TRUE
  /\ pc' = "idle"
  /\ Others
  /\ UNCHANGED <<svcVars, txdma, rxdma, expected, DMACR, txSide, arrived, overrun>>

\* Variant: the channel is started without the transfer having been prepared.
PrepareTransfer_StartOnly(d, r) == Start(d) \/ (mode[d] # "stopped" /\ UNCHANGED svcVars)

\* Variant: a transfer of no rows is prepared like any other.
PrepareTransfer_NoZeroCheck(d, r) == Prepare(d, r)

\* PrepareTransfer of channel d; a transfer of no rows prepares nothing.
PrepareTransfer(d, r) ==
  \/ r \in Requests /\ Prepare(d, r)
  \/ r = NoRequest /\ UNCHANGED svcVars

\* DmaStartSend: without a channel it returns false; otherwise DMA requests
\* are enabled and the transfer is prepared ...
DmaStartSend(r) ==
  /\ Ready /\ mode["tx"] # "running" /\ accepted + r.rows <= MaxSent
  /\ \/ ~txdma /\ result' = FALSE /\ UNCHANGED <<svcVars, pc, DMACR>>
     \/ /\ txdma
        /\ EnableRequests("tx")
        /\ PrepareTransfer("tx", r)
        /\ pc' = "starttx"
        /\ UNCHANGED result
  /\ Others
  /\ UNCHANGED <<txdma, rxdma, expected, txSide, rxSide>>

\* ... and DmaStartRecv likewise ...
DmaStartRecv(r) ==
  /\ Ready /\ mode["rx"] # "running"
  /\ \/ ~rxdma /\ result' = FALSE /\ UNCHANGED <<svcVars, pc, DMACR, expected>>
     \/ /\ rxdma
        /\ EnableRequests("rx")
        /\ PrepareTransfer("rx", r)
        /\ pc' = "startrx"
        /\ expected' = Len(received) + r.rows
        /\ UNCHANGED result
  /\ Others
  /\ UNCHANGED <<txdma, rxdma, txSide, rxSide>>

\* ... then the channel is started.  One with nothing prepared does not start.
StartTransfer(d) ==
  /\ pc = (IF d = "tx" THEN "starttx" ELSE "startrx")
  /\ Start(d) \/ (mode[d] # "stopped" /\ UNCHANGED svcVars)
  /\ result' = TRUE
  /\ pc' = "idle"
  /\ Others
  /\ UNCHANGED <<txdma, rxdma, expected, DMACR, txSide, rxSide>>

\* The polls change nothing.  SendFinished reads bit 3 of FR, which is BUSY.
SendFinished == BUSY
DmaSendCompleted == ~(txdma /\ mode["tx"] = "running") /\ SendFinished
DmaRecvCompleted == ~(rxdma /\ mode["rx"] = "running")

UartNext ==
  \/ InitBegin \/ InitDivisor \/ InitFrame \/ InitFinish
  \/ \E istx \in BOOLEAN : DmaAssign(istx)
  \/ TrySendChar \/ Poll \/ SendWrite
  \/ \E n \in 0 .. MaxSent : Printf(n)
  \/ TryRecvChar \/ RecvRead
  \/ \E r \in Requests \cup {NoRequest} : DmaStartSend(r) \/ DmaStartRecv(r)
  \/ \E d \in Channels : StartTransfer(d)
  \/ Transmit \/ Arrive \/ DmaSendRow \/ DmaRecvRow

UartSpec == UartInit /\ [][UartNext]_uartVars

\* The transmitter and the DMA engine do not stop, nor does the program inside
\* a call; nothing is assumed about what arrives or what the program calls.
UartLiveSpec ==
  /\ UartSpec
  /\ WF_uartVars(Transmit) /\ WF_uartVars(DmaSendRow) /\ WF_uartVars(DmaRecvRow)
  /\ WF_uartVars(InitDivisor) /\ WF_uartVars(InitFrame) /\ WF_uartVars(InitFinish)
  /\ WF_uartVars(Poll) /\ WF_uartVars(SendWrite) /\ WF_uartVars(RecvRead)
  /\ \A d \in Channels : WF_uartVars(StartTransfer(d))

-----------------------------------------------------------------------------
(* Properties.                                                             *)

TxTypeOK ==
  /\ txfifo \in Seq(Nat) /\ Len(txfifo) <= FifoSize
  /\ shift \in Seq(Nat) /\ Len(shift) <= 1
  /\ wire \in Seq(Nat) /\ accepted \in Nat

RxTypeOK ==
  /\ rxfifo \in Seq(Nat) /\ Len(rxfifo) <= FifoSize
  /\ received \in Seq(Nat)
  /\ arrived \in 0 .. MaxArrivals /\ overrun \subseteq 1 .. arrived

ProgramTypeOK ==
  /\ {initialized, txdma, rxdma, UARTEN, result} \subseteq BOOLEAN
  /\ DMACR \subseteq Channels /\ expected \in Nat
  /\ pc \in {"idle", "divisor", "frame", "init", "poll", "senddr", "recvdr",
             "starttx", "startrx"}
  /\ todo \in 0 .. FMT_BUFFER_SIZE - 1 /\ (pc = "poll" => todo > 0)
  /\ BRD \in Nat /\ asked \in LineSettings
  /\ line \in [divisor : Nat, databits : 5 .. 8, stopbits : {1, 2},
              parity : {"none", "odd", "even"}]

\* The variables keep their types, the FIFOs their size, and a channel is idle
\* exactly when it has nothing left to move.
UartTypeOK == SvcTypeOK /\ TxTypeOK /\ RxTypeOK /\ ProgramTypeOK

\* Every character that TrySendChar or the DMA has given to the transmitter
\* leaves exactly once and in order, however the two alternate: it is on the
\* wire, in the shifter or in the FIFO.
SentInOrder == wire \o shift \o txfifo = [i \in 1 .. accepted |-> i]

\* What the program or its DMA receives is what arrived, in order, each
\* character once and without gaps other than those the receiver dropped.
ReceivedInOrder ==
  LET got == received \o rxfifo
  IN  /\ \A i, j \in 1 .. Len(got) : i < j => got[i] < got[j]
      /\ {got[i] : i \in 1 .. Len(got)} = (1 .. arrived) \ overrun

\* When DmaRecvCompleted() returns true after a DmaStartRecv, all characters
\* of that transfer have been received.
RecvCompletedMeansReceived ==
  pc = "idle" /\ DmaRecvCompleted => Len(received) >= expected

\* A transfer started by DmaStartSend ends: the UART asks for its characters.
SendTransfersEnd == mode["tx"] = "running" ~> mode["tx"] # "running"

\* What the transmitter was given leaves, in the end all of it (the program
\* sends at most MaxSent characters).
SentEventually == []<>(Len(wire) = accepted)

\* printf, which waits for room in the FIFO without a time limit, returns.
PrintfReturns == todo > 0 ~> todo = 0

\* The rate is the nearest one not below what was asked for; the frame has the
\* asked data bits (5 to 8), stop bits and parity.
LineMatches ==
  /\ line.divisor * asked.baudrate <= 4 * HWUART_BASE_CLOCK
  /\ 4 * HWUART_BASE_CLOCK < (line.divisor + 1) * asked.baudrate
  /\ line.databits = asked.databits
  /\ line.stopbits = 1 <=> asked.halfstopbits <= 2
  /\ line.parity = "none" <=> ~asked.parity
  /\ line.parity # "none" => (line.parity = "odd" <=> asked.oddparity)

\* While the UART is on, the line is as the settings of the last Init ask.
LineAsAsked == UARTEN /\ initialized => LineMatches

\* When DmaSendCompleted() returns true, everything given to the transmitter
\* has left ("SendFinished", hwuart_broadcom.h:71).
SendCompletedMeansSent ==
  pc = "idle" /\ initialized /\ DmaSendCompleted => Len(wire) = accepted
=============================================================================
