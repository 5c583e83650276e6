------------------------------ MODULE ClockCnt ------------------------------
(***************************************************************************)
(* clockcnt() and delay_clocks(): reading the 64 bit free running timer    *)
(* through its two 32 bit registers CHI and CLO while it runs, and waiting *)
(* for an amount of time by polling it.                                    *)
(*                                                                         *)
(* Every register read is a step of its own; the timer may advance by any  *)
(* amount between two of them.                                             *)
(***************************************************************************)
EXTENDS Integers

CONSTANTS
  LowMod,         \* values of the CLO register (2^32 in the chip)
  HighMod,        \* values of the CHI register (2^32)
  Amounts,        \* clocks that delay_clocks is asked to wait for
  MapFails,       \* TRUE: the mapping of the timer may fail
  StepsPerCarry   \* the reader takes at least that many steps between two
                  \* carries from CLO to CHI (71 minutes in the chip)

ASSUME ClockAssumption ==
  /\ LowMod \in Nat \ {0} /\ HighMod \in Nat \ {0}
  /\ Amounts \subseteq Nat
  /\ MapFails \in BOOLEAN
  /\ StepsPerCarry \in Nat

VARIABLES
  hi, lo,           \* the timer
  hw_system_timer,  \* TRUE when the timer's registers are mapped
  pc,               \* next statement of clockcnt: "idle" when not inside
  caller,           \* who called it: "user", or delay_clocks for "t0" or "poll"
  high, low,        \* locals of clockcnt
  t0, remaining,    \* locals of delay_clocks
  value,            \* what clockcnt returned last
  callBegun,        \* history: the time when the clockcnt call began
  delayBegun,       \* history: the time when the delay_clocks call began
  passes,           \* history: passes of the loop of the clockcnt call
  sinceCarry        \* steps of the reader since the last carry, up to the bound

timer == <<hi, lo>>
locals == <<high, low, t0, remaining>>
clockVars == <<timer, hw_system_timer, pc, caller, locals, value, callBegun,
               delayBegun, passes, sinceCarry>>

now == hi * LowMod + lo

\* a - b in the unsigned 64 bit type clockcnt_t.
ClockMinus(a, b) == IF b <= a THEN a - b ELSE a - b + HighMod * LowMod

ClockInit ==
  /\ hi \in 0 .. HighMod - 1 /\ lo \in 0 .. LowMod - 1
  /\ hw_system_timer = FALSE
  /\ pc = "idle" /\ caller = "user"
  /\ high = 0 /\ low = 0
  /\ t0 = 0 /\ remaining = 0
  /\ value = 0
  /\ callBegun = now /\ delayBegun = now
  /\ passes = 0
  /\ sinceCarry = StepsPerCarry

-----------------------------------------------------------------------------
(* External: the system timer.  It does not run out of its 64 bits (584,000 *)
(* years).                                                                  *)

Tick ==
  /\ \/ /\ lo < LowMod - 1
        /\ lo' = lo + 1
        /\ UNCHANGED <<hi, sinceCarry>>
     \/ /\ lo = LowMod - 1
        /\ hi < HighMod - 1
        /\ pc # "idle" => sinceCarry >= StepsPerCarry
        /\ lo' = 0
        /\ hi' = hi + 1
        /\ sinceCarry' = 0
  /\ UNCHANGED <<hw_system_timer, pc, caller, locals, value, callBegun,
                 delayBegun, passes>>

-----------------------------------------------------------------------------
(* The program.                                                            *)

ReaderStep ==
  sinceCarry' = IF sinceCarry < StepsPerCarry THEN sinceCarry + 1 ELSE sinceCarry

\* clockcnt is entered on behalf of who.
EnterClockcnt(who) ==
  /\ caller' = who
  /\ callBegun' = now
  /\ passes' = 0
  /\ pc' = IF hw_system_timer THEN "high" ELSE "init"

\* A call from the application.
Clockcnt ==
  /\ pc = "idle"
  /\ EnterClockcnt("user")
  /\ ReaderStep
  /\ UNCHANGED <<timer, hw_system_timer, locals, value, delayBegun>>

delay_clocks(aclocks) ==
  /\ pc = "idle"
  /\ remaining' = aclocks
  /\ delayBegun' = now
  /\ EnterClockcnt("t0")
  /\ ReaderStep
  /\ UNCHANGED <<timer, hw_system_timer, high, low, t0, value>>

\* The result of the mapping is not checked: a null pointer is fatal at the
\* first read.
clockcnt_init ==
  /\ pc = "init"
  /\ hw_system_timer' \in {TRUE} \cup (IF MapFails THEN {FALSE} ELSE {})
  /\ pc' = IF hw_system_timer' THEN "high" ELSE "dead"
  /\ ReaderStep
  /\ UNCHANGED <<timer, caller, locals, value, callBegun, delayBegun, passes>>

ReadHigh ==
  /\ pc = "high"
  /\ high' = hi
  /\ pc' = "low"
  /\ passes' = passes + 1
  /\ ReaderStep
  /\ UNCHANGED <<timer, hw_system_timer, caller, low, t0, remaining, value,
                 callBegun, delayBegun>>

ReadLow ==
  /\ pc = "low"
  /\ low' = lo
  /\ pc' = "high2"
  /\ ReaderStep
  /\ UNCHANGED <<timer, hw_system_timer, caller, high, t0, remaining, value,
                 callBegun, delayBegun, passes>>

\* Variant: the pass is also repeated when CLO has moved on.
Retry_AnyChange ==
  /\ pc = "high2" /\ (hi # high \/ lo # low)
  /\ pc' = "high"
  /\ ReaderStep
  /\ UNCHANGED <<timer, hw_system_timer, caller, locals, value, callBegun,
                 delayBegun, passes>>

\* The second read of CHI differs from the first: another pass.
Retry ==
  /\ pc = "high2" /\ hi # high
  /\ pc' = "high"
  /\ ReaderStep
  /\ UNCHANGED <<timer, hw_system_timer, caller, locals, value, callBegun,
                 delayBegun, passes>>

\* Variant: the high half is shifted one bit too far.
Combined_ShiftTooFar == high * (2 * LowMod) + low

\* What the reads of the two registers make.
Combined == high * LowMod + low

\* Variant: the second read of CHI is not compared with the first.
Return_NoCompare ==
  /\ pc = "high2"
  /\ value' = Combined
  /\ pc' = IF caller = "user" THEN "idle" ELSE "delay"
  /\ ReaderStep
  /\ UNCHANGED <<timer, hw_system_timer, caller, locals, callBegun, delayBegun,
                 passes>>

Return ==
  /\ pc = "high2" /\ hi = high
  /\ value' = Combined
  /\ pc' = IF caller = "user" THEN "idle" ELSE "delay"
  /\ ReaderStep
  /\ UNCHANGED <<timer, hw_system_timer, caller, locals, callBegun, delayBegun,
                 passes>>

\* Variant: the reference is not taken, that of an earlier delay stays.
DelayLoop_StaleT0 ==
  /\ pc = "delay"
  /\ UNCHANGED t0
  /\ \/ caller = "t0" /\ EnterClockcnt("poll")
     \/ /\ caller = "poll" /\ ClockMinus(value, t0) < remaining
        /\ EnterClockcnt("poll")
     \/ /\ caller = "poll" /\ ClockMinus(value, t0) >= remaining
        /\ pc' = "idle"
        /\ UNCHANGED <<caller, callBegun, passes>>
  /\ ReaderStep
  /\ UNCHANGED <<timer, hw_system_timer, high, low, remaining, value, delayBegun>>

\* Variant: the reference moves with every poll.
DelayLoop_Rebase ==
  /\ pc = "delay"
  /\ t0' = value
  /\ \/ caller = "t0" /\ EnterClockcnt("poll")
     \/ /\ caller = "poll" /\ ClockMinus(value, t0) < remaining
        /\ EnterClockcnt("poll")
     \/ /\ caller = "poll" /\ ClockMinus(value, t0) >= remaining
        /\ pc' = "idle"
        /\ UNCHANGED <<caller, callBegun, passes>>
  /\ ReaderStep
  /\ UNCHANGED <<timer, hw_system_timer, high, low, remaining, value, delayBegun>>

\* delay_clocks has a value: the first is its reference, with any other it
\* polls again while the difference is too small.
DelayLoop ==
  /\ pc = "delay"
  /\ \/ caller = "t0" /\ t0' = value /\ EnterClockcnt("poll")
     \/ /\ caller = "poll" /\ ClockMinus(value, t0) < remaining
        /\ EnterClockcnt("poll")
        /\ UNCHANGED t0
     \/ /\ caller = "poll" /\ ClockMinus(value, t0) >= remaining
        /\ pc' = "idle"
        /\ UNCHANGED <<t0, caller, callBegun, passes>>
  /\ ReaderStep
  /\ UNCHANGED <<timer, hw_system_timer, high, low, remaining, value, delayBegun>>

\* The statements of a call that has begun.
Running == clockcnt_init \/ ReadHigh \/ ReadLow \/ Retry \/ Return \/ DelayLoop

ClockNext ==
  \/ Tick
  \/ Clockcnt
  \/ \E n \in Amounts : delay_clocks(n)
  \/ Running

ClockSpec == ClockInit /\ [][ClockNext]_clockVars

\* The timer runs and so does the thread inside a call.
ClockLiveSpec == ClockSpec /\ WF_clockVars(Tick) /\ WF_clockVars(Running)

-----------------------------------------------------------------------------
(* Properties.                                                             *)

\* What fits the timer's two registers.
Times == 0 .. HighMod * LowMod - 1

\* The variables keep their types: what clockcnt returns, and all that is
\* derived from it, is a value the two registers can hold.
ClockTypeOK ==
  /\ hi \in 0 .. HighMod - 1 /\ lo \in 0 .. LowMod - 1
  /\ hw_system_timer \in BOOLEAN
  /\ pc \in {"idle", "init", "high", "low", "high2", "delay", "dead"}
  /\ caller \in {"user", "t0", "poll"}
  /\ high \in 0 .. HighMod - 1 /\ low \in 0 .. LowMod - 1
  /\ t0 \in Times /\ value \in Times /\ remaining \in Nat
  /\ callBegun \in Times /\ delayBegun \in Times
  /\ passes \in Nat
  /\ sinceCarry \in 0 .. StepsPerCarry

\* A call of clockcnt is under way.
InClockcnt == pc \in {"init", "high", "low", "high2", "dead"}

Clock == INSTANCE ClockService WITH
  time <- now, reading <- InClockcnt, begun <- callBegun, value <- value

\* The invariant behind the next two properties: while CHI has not moved since
\* its first read, the two halves belong together; times recorded along a
\* delay are in order.
ClockInv ==
  /\ callBegun <= now
  /\ pc = "low" => high <= hi
  /\ pc = "high2" =>
       /\ high <= hi
       /\ high = hi => callBegun <= Combined /\ Combined <= now
  /\ pc = "delay" => callBegun <= value /\ value <= now /\ caller # "user"
  /\ caller # "user" /\ pc # "idle" => delayBegun <= callBegun
  /\ caller = "poll" /\ pc # "idle" => delayBegun <= t0 /\ t0 <= callBegun

\* clockcnt() returns a value that the timer had during the call, although it
\* reads the two halves at different times: never one that is 2^32 off.
ReadsTheClock == Clock!ClkSpec

\* delay_clocks never returns before the time it was asked for has passed
\* since its call.
DelayNotEarly ==
  [][pc = "delay" /\ pc' = "idle" => now - delayBegun >= remaining]_clockVars

\* The loop of clockcnt() runs at most twice, if there are at least five
\* reader steps between two carries.
AtMostTwoPasses == passes <= 2

\* The invariant behind it: a second pass follows a carry by so few steps that
\* the next one cannot come before the pass is over.
PassInv ==
  /\ AtMostTwoPasses
  /\ pc = "init" => passes = 0
  /\ pc = "high" => passes = 0 \/ (passes = 1 /\ sinceCarry <= 2)
  /\ pc = "low" => \/ passes = 1 /\ (hi = high \/ sinceCarry = 0)
                   \/ passes = 2 /\ hi = high /\ sinceCarry <= 3
  /\ pc = "high2" => \/ passes = 1 /\ (hi = high \/ sinceCarry <= 1)
                     \/ passes = 2 /\ hi = high /\ sinceCarry <= 4

\* A delay that ends before the timer does comes to its end, the timer being mapped by
\* then.
DelayEnds ==
  (caller = "poll" /\ pc # "idle" /\ t0 + remaining < HighMod * LowMod)
    ~> pc = "idle"
=============================================================================
