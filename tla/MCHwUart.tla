------------------------------ MODULE MCHwUart ------------------------------
(* Instances of HwUart for TLC: FIFOs of two characters, transfers that     *)
(* fit one and transfers that do not, two settings of the line.            *)
EXTENDS HwUart

MCChannels == {"tx", "rx"}
MCRequests == [rows : {1, 3}, loop : {FALSE}]
MCNoRequest == [rows |-> 0, loop |-> FALSE]

\* 115200 baud with nine data bits, which become eight, and two stop bits;
\* 9600 baud with odd parity.
MCSettings ==
  {[baudrate |-> 115200, databits |-> 9, halfstopbits |-> 4,
    parity |-> FALSE, oddparity |-> TRUE],
   [baudrate |-> 9600, databits |-> 7, halfstopbits |-> 2,
    parity |-> TRUE, oddparity |-> TRUE]}
=============================================================================
