---------------------------- MODULE ClockService ----------------------------
(***************************************************************************)
(* What clockcnt() promises: a reading of a clock is a value the clock had *)
(* while the call ran.                                                     *)
(***************************************************************************)
EXTENDS Integers

VARIABLES
  time,     \* the clock
  reading,  \* TRUE while a call runs
  begun,    \* the clock when the running or last call began
  value     \* the result of the last call

clkVars == <<time, reading, begun, value>>

ClkInit ==
  /\ time \in Nat
  /\ reading = FALSE
  /\ begun = time
  /\ value = 0

Advance ==
  /\ time' = time + 1
  /\ UNCHANGED <<reading, begun, value>>

Begin ==
  /\ ~reading
  /\ reading' = TRUE
  /\ begun' = time
  /\ UNCHANGED <<time, value>>

End ==
  /\ reading
  /\ value' \in begun .. time
  /\ reading' = FALSE
  /\ UNCHANGED <<time, begun>>

ClkNext == Advance \/ Begin \/ End

ClkSpec == ClkInit /\ [][ClkNext]_clkVars
=============================================================================
