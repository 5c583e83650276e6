--------------------------- MODULE ClockCntProofs ---------------------------
(***************************************************************************)
(* Theorems about clockcnt() and delay_clocks(), for registers of any      *)
(* width, any delay and a timer that advances at any speed.                *)
(***************************************************************************)
EXTENDS ClockCnt, TLAPS

\* Two halves within their ranges make a natural number.
LEMMA HalvesNat ==
  ASSUME NEW h \in Nat, NEW l \in Nat
  PROVE  h * LowMod + l \in Nat
<1>1. h * LowMod \in Nat
  BY ClockAssumption
<1> QED BY <1>1

\* ... and one that fits the two registers.
LEMMA HalvesFit ==
  ASSUME NEW h \in 0 .. HighMod - 1, NEW l \in 0 .. LowMod - 1
  PROVE  h * LowMod + l \in Times
<1> USE ClockAssumption
<1>1. h * LowMod + l \in Nat
  BY HalvesNat
<1>2. PICK k \in Nat : HighMod = h + 1 + k
  <2>1. HighMod - 1 - h \in Nat
    OBVIOUS
  <2> QED BY <2>1
<1>3. HighMod * LowMod = h * LowMod + LowMod + k * LowMod
  BY <1>2
<1>4. k * LowMod \in Nat /\ h * LowMod \in Nat /\ HighMod * LowMod \in Nat
  BY <1>2
<1>5. h * LowMod + l <= HighMod * LowMod - 1
  BY <1>3, <1>4
<1> QED BY <1>1, <1>4, <1>5 DEF Times

\* A tick advances the time by one, be there a carry or not; the program does
\* not touch the timer.
LEMMA TimeSteps ==
  ASSUME ClockTypeOK, [ClockNext]_clockVars
  PROVE  /\ Tick => now' = now + 1
         /\ ~Tick => UNCHANGED <<hi, lo>> /\ now' = now
<1> USE ClockAssumption DEF ClockTypeOK
<1>1. ASSUME Tick PROVE now' = now + 1
  <2>1. CASE lo < LowMod - 1 /\ lo' = lo + 1 /\ hi' = hi
    <3>1. hi * LowMod \in Nat
      BY HalvesNat
    <3> QED BY <2>1, <3>1 DEF now
  <2>2. CASE lo = LowMod - 1 /\ lo' = 0 /\ hi' = hi + 1
    <3>1. (hi + 1) * LowMod = hi * LowMod + LowMod
      OBVIOUS
    <3>2. hi * LowMod \in Nat
      BY HalvesNat
    <3> QED BY <2>2, <3>1, <3>2 DEF now
  <2> QED BY <1>1, <2>1, <2>2 DEF Tick
<1>2. ASSUME ~Tick PROVE UNCHANGED <<hi, lo>>
  BY <1>2 DEF ClockNext, Running, Clockcnt, delay_clocks, clockcnt_init, ReadHigh,
     ReadLow, Retry, Return, DelayLoop, clockVars, timer
<1> QED BY <1>1, <1>2 DEF now

\* The variables keep their types.
THEOREM ClockTypeCorrect == ClockSpec => []ClockTypeOK
<1> USE ClockAssumption
<1>1. ClockInit => ClockTypeOK
  <2> SUFFICES ASSUME ClockInit PROVE ClockTypeOK
    OBVIOUS
  <2>1. now \in Times /\ 0 \in Times
    BY HalvesFit DEF ClockInit, now, Times
  <2>2. hw_system_timer \in BOOLEAN
    BY DEF ClockInit
  <2>3. /\ high \in 0 .. HighMod - 1 /\ low \in 0 .. LowMod - 1
        /\ sinceCarry \in 0 .. StepsPerCarry
    BY DEF ClockInit
  <2> QED BY <2>1, <2>2, <2>3 DEF ClockInit, ClockTypeOK
<1>2. ClockTypeOK /\ [ClockNext]_clockVars => ClockTypeOK'
  <2> SUFFICES ASSUME ClockTypeOK, [ClockNext]_clockVars
               PROVE  ClockTypeOK'
    OBVIOUS
  <2> USE DEF ClockTypeOK
  <2>1. now \in Times
    BY HalvesFit DEF now
  <2>2. Combined \in Times
    BY HalvesFit DEF Combined
  <2>3. CASE Tick
    BY <2>3 DEF Tick, locals
  <2>4. CASE Clockcnt
    BY <2>1, <2>4 DEF Clockcnt, EnterClockcnt, ReaderStep, timer, locals
  <2>5. ASSUME NEW n \in Amounts, delay_clocks(n)
        PROVE  ClockTypeOK'
    BY <2>1, <2>5 DEF delay_clocks, EnterClockcnt, ReaderStep, timer
  <2>6. CASE clockcnt_init
    <3>1. /\ hw_system_timer' \in BOOLEAN
          /\ pc' \in {"high", "dead"}
      BY <2>6 DEF clockcnt_init
    <3>2. sinceCarry' \in 0 .. StepsPerCarry
      BY <2>6 DEF clockcnt_init, ReaderStep
    <3> QED BY <2>6, <3>1, <3>2 DEF clockcnt_init, timer, locals
  <2>7. CASE ReadHigh \/ ReadLow \/ Retry
    BY <2>7 DEF ReadHigh, ReadLow, Retry, ReaderStep, timer, locals
  <2>8. CASE Return
    BY <2>2, <2>8 DEF Return, ReaderStep, timer, locals
  <2>9. CASE DelayLoop
    <3>1. /\ UNCHANGED <<hi, lo, hw_system_timer, high, low, remaining, value,
                         delayBegun>>
          /\ sinceCarry' \in 0 .. StepsPerCarry
      BY <2>9 DEF DelayLoop, ReaderStep, timer
    <3>2. t0' \in Times
      BY <2>9 DEF DelayLoop
    <3>3. /\ pc' \in {"idle", "high", "init"} /\ caller' \in {"user", "t0", "poll"}
          /\ callBegun' \in Times /\ passes' \in Nat
      BY <2>1, <2>9 DEF DelayLoop, EnterClockcnt
    <3> QED BY <3>1, <3>2, <3>3
  <2>10. CASE UNCHANGED clockVars
    BY <2>10 DEF clockVars, timer, locals
  <2> QED
    BY <2>3, <2>4, <2>5, <2>6, <2>7, <2>8, <2>9, <2>10 DEF ClockNext, Running
<1> QED BY <1>1, <1>2, PTL DEF ClockSpec

-----------------------------------------------------------------------------

\* While CHI still is what the first read gave, the two halves belong
\* together: no carry came between the reads.
THEOREM ClockInvCorrect == ClockSpec => []ClockInv
<1> USE ClockAssumption
<1>1. ClockInit => ClockInv
  BY HalvesNat DEF ClockInit, ClockInv, now
<1>2. ClockTypeOK /\ ClockInv /\ [ClockNext]_clockVars => ClockInv'
  <2> SUFFICES ASSUME ClockTypeOK, ClockInv, [ClockNext]_clockVars
               PROVE  ClockInv'
    OBVIOUS
  <2> USE DEF ClockInv
  <2>1. /\ now \in Nat
        /\ Tick => now' = now + 1
        /\ ~Tick => now' = now
    BY HalvesNat, TimeSteps DEF ClockTypeOK, Times, now
  <2>2. /\ hi \in Nat /\ high \in Nat
        /\ callBegun \in Nat /\ delayBegun \in Nat
        /\ t0 \in Nat /\ value \in Nat
        /\ Combined \in Nat
    BY HalvesNat DEF ClockTypeOK, Times, Combined
  <2>3. CASE Tick
    <3>1. /\ UNCHANGED <<pc, caller, high, low, t0, remaining, value, callBegun,
                         delayBegun>>
          /\ Combined' = Combined
          /\ hi' = hi \/ hi' = hi + 1
      BY <2>3 DEF Tick, locals, Combined
    <3> QED BY <2>1, <2>2, <2>3, <3>1
  <2>4. CASE Clockcnt
    BY <2>1, <2>2, <2>4 DEF Clockcnt, EnterClockcnt, timer, locals, now
  <2>5. ASSUME NEW n \in Amounts, delay_clocks(n)
        PROVE  ClockInv'
    BY <2>1, <2>2, <2>5 DEF delay_clocks, EnterClockcnt, timer, now
  <2>6. CASE clockcnt_init
    BY <2>1, <2>2, <2>6 DEF clockcnt_init, timer, locals, now
  <2>7. CASE ReadHigh
    BY <2>1, <2>2, <2>7 DEF ReadHigh, timer, now
  <2>8. CASE ReadLow
    <3>1. high = hi => Combined' = now
      BY <2>8 DEF ReadLow, Combined, now
    <3> QED BY <2>1, <2>2, <2>8, <3>1 DEF ReadLow, timer, now
  <2>9. CASE Retry
    BY <2>1, <2>2, <2>9 DEF Retry, timer, locals, now
  <2>10. CASE Return
    BY <2>1, <2>2, <2>10 DEF Return, timer, locals, now
  <2>11. CASE DelayLoop
    BY <2>1, <2>2, <2>11 DEF DelayLoop, EnterClockcnt, timer, now
  <2>12. CASE UNCHANGED clockVars
    BY <2>12 DEF clockVars, timer, locals, now, Combined
  <2> QED
    BY <2>3, <2>4, <2>5, <2>6, <2>7, <2>8, <2>9, <2>10, <2>11, <2>12
       DEF ClockNext, Running
<1> QED BY <1>1, <1>2, ClockTypeCorrect, PTL DEF ClockSpec

\* clockcnt() implements the clock whose reading is a value of the time of
\* the call.
THEOREM ClockRefines == ClockSpec => ReadsTheClock
<1> USE ClockAssumption
<1>1. ClockInit => Clock!ClkInit
  BY HalvesNat DEF ClockInit, Clock!ClkInit, InClockcnt, now
<1>2. ClockTypeOK /\ ClockInv /\ [ClockNext]_clockVars
        => [Clock!ClkNext]_(Clock!clkVars)
  <2> SUFFICES ASSUME ClockTypeOK, ClockInv, [ClockNext]_clockVars
               PROVE  [Clock!ClkNext]_(Clock!clkVars)
    OBVIOUS
  <2> USE DEF Clock!clkVars, InClockcnt
  <2>1. /\ Tick => now' = now + 1
        /\ ~Tick => now' = now
    BY TimeSteps
  <2>2. CASE Tick
    BY <2>1, <2>2 DEF Tick, Clock!ClkNext, Clock!Advance
  <2>3. CASE Clockcnt \/ \E n \in Amounts : delay_clocks(n)
    <3>1. Clock!Begin
      BY <2>3 DEF Clockcnt, delay_clocks, EnterClockcnt, timer, locals, now,
         Clock!Begin
    <3> QED BY <3>1 DEF Clock!ClkNext
  <2>4. CASE clockcnt_init \/ ReadHigh \/ ReadLow \/ Retry
    <3>1. /\ UNCHANGED <<hi, lo, callBegun, value>>
          /\ pc \in {"init", "high", "low", "high2", "dead"}
          /\ pc' \in {"init", "high", "low", "high2", "dead"}
      BY <2>4 DEF clockcnt_init, ReadHigh, ReadLow, Retry, timer
    <3>2. InClockcnt' = InClockcnt
      BY <3>1
    <3> QED BY <3>1, <3>2 DEF now
  <2>5. CASE Return
    <3>1. callBegun \in Nat /\ now \in Nat /\ Combined \in Nat
      BY HalvesNat DEF ClockTypeOK, Times, now, Combined
    <3>2. /\ pc = "high2" /\ pc' \notin {"init", "high", "low", "high2", "dead"}
          /\ value' = Combined
          /\ callBegun <= Combined /\ Combined <= now
          /\ now' = now /\ callBegun' = callBegun
      BY <2>5 DEF Return, ClockInv, timer, now
    <3>3. Clock!End
      BY <3>1, <3>2 DEF Clock!End
    <3> QED BY <3>3 DEF Clock!ClkNext
  <2>6. CASE DelayLoop
    <3>1. CASE pc' = "idle"
      BY <2>6, <3>1 DEF DelayLoop, EnterClockcnt, timer, now
    <3>2. CASE EnterClockcnt("poll")
      <4>1. Clock!Begin
        BY <2>6, <3>2 DEF DelayLoop, EnterClockcnt, timer, now, Clock!Begin
      <4> QED BY <4>1 DEF Clock!ClkNext
    <3> QED BY <2>6, <3>1, <3>2 DEF DelayLoop
  <2>7. CASE UNCHANGED clockVars
    BY <2>7 DEF clockVars, timer, now
  <2> QED
    BY <2>2, <2>3, <2>4, <2>5, <2>6, <2>7 DEF ClockNext, Running
<1> QED
  BY <1>1, <1>2, ClockTypeCorrect, ClockInvCorrect, PTL
     DEF ClockSpec, ReadsTheClock, Clock!ClkSpec

\* delay_clocks() never returns early.
THEOREM DelayCorrect == ClockSpec => DelayNotEarly
<1>1. ClockTypeOK /\ ClockInv /\ [ClockNext]_clockVars
        => [pc = "delay" /\ pc' = "idle" => now - delayBegun >= remaining]_clockVars
  <2> SUFFICES ASSUME ClockTypeOK, ClockInv, [ClockNext]_clockVars,
                      pc = "delay", pc' = "idle"
               PROVE  now - delayBegun >= remaining
    BY DEF clockVars
  <2>1. DelayLoop
    BY DEF ClockNext, Running, Tick, Clockcnt, delay_clocks, clockcnt_init,
       ReadHigh, ReadLow, Retry, Return, clockVars
  <2>2. caller = "poll" /\ ClockMinus(value, t0) >= remaining
    BY <2>1 DEF DelayLoop, EnterClockcnt, ClockTypeOK, Times
  <2>3. /\ now \in Nat /\ t0 \in Nat /\ value \in Nat /\ remaining \in Nat
        /\ delayBegun \in Nat /\ callBegun \in Nat
    BY HalvesNat, ClockAssumption DEF ClockTypeOK, Times, now
  <2>4. t0 <= value /\ value <= now /\ delayBegun <= t0
    BY <2>2, <2>3 DEF ClockInv
  <2> QED BY <2>2, <2>3, <2>4 DEF ClockMinus
<1> QED
  BY <1>1, ClockTypeCorrect, ClockInvCorrect, PTL DEF ClockSpec, DelayNotEarly

\* clockcnt() reads each register at most four times, if the reader takes at
\* least five steps between two carries.
THEOREM PassesBounded ==
  ASSUME StepsPerCarry >= 5
  PROVE  ClockSpec => []AtMostTwoPasses
<1> USE ClockAssumption
<1>1. ClockInit => PassInv
  BY DEF ClockInit, PassInv, AtMostTwoPasses
<1>2. ClockTypeOK /\ PassInv /\ [ClockNext]_clockVars => PassInv'
  <2> SUFFICES ASSUME ClockTypeOK, PassInv, [ClockNext]_clockVars
               PROVE  PassInv'
    OBVIOUS
  <2> USE StepsPerCarry >= 5 DEF PassInv, AtMostTwoPasses
  <2>1. /\ hi \in Nat /\ high \in Nat /\ passes \in Nat
        /\ sinceCarry \in 0 .. StepsPerCarry /\ StepsPerCarry \in Nat
    BY DEF ClockTypeOK, Times
  <2>2. CASE Tick
    BY <2>1, <2>2 DEF Tick, locals
  <2>3. CASE Clockcnt \/ \E n \in Amounts : delay_clocks(n)
    BY <2>1, <2>3 DEF Clockcnt, delay_clocks, EnterClockcnt
  <2>4. CASE clockcnt_init
    BY <2>1, <2>4 DEF clockcnt_init
  <2>5. CASE ReadHigh
    BY <2>1, <2>5 DEF ReadHigh, ReaderStep, timer
  <2>6. CASE ReadLow
    BY <2>1, <2>6 DEF ReadLow, ReaderStep, timer
  <2>7. CASE Retry
    BY <2>1, <2>7 DEF Retry, ReaderStep, timer
  <2>8. CASE Return
    BY <2>1, <2>8 DEF Return
  <2>9. CASE DelayLoop
    BY <2>1, <2>9 DEF DelayLoop, EnterClockcnt
  <2>10. CASE UNCHANGED clockVars
    BY <2>10 DEF clockVars, timer, locals
  <2> QED
    BY <2>2, <2>3, <2>4, <2>5, <2>6, <2>7, <2>8, <2>9, <2>10
       DEF ClockNext, Running
<1>3. PassInv => AtMostTwoPasses
  BY DEF PassInv
<1> QED BY <1>1, <1>2, <1>3, ClockTypeCorrect, PTL DEF ClockSpec
=============================================================================
