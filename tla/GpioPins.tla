------------------------------- MODULE GpioPins -------------------------------
(***************************************************************************)
(* The pins of hwpins_broadcom: processes that configure and drive their   *)
(* pins through one set of registers.                                      *)
(*                                                                         *)
(* Function and pull of a pin are fields of registers shared with other    *)
(* pins; PinSetup and SwitchDirection read such a register, change the     *)
(* field and write the register back, each access a step.  Levels are      *)
(* written with stores that concern one pin only.                          *)
(*                                                                         *)
(* Contract of the callers, which the code does not check: a pin is used   *)
(* by one process, and GpioSet is called with the number of a pin.         *)
(* The rest is as the code allows it: no lock keeps two processes from     *)
(* changing a register at a time, no alternate function is refused, and a  *)
(* pin object is driven through the pointers it has, the old ones after a  *)
(* failed Assign.                                                          *)
(***************************************************************************)
EXTENDS Integers

CONSTANTS
  Actors,       \* processes
  MAX_PIN_NUMBER,
  FselPins,     \* pins whose function is in one GPFSEL register (10)
  PullPins,     \* pins whose pull is in one PUP_PDN_CNTRL register (16)
  Owner,        \* the process that uses a pin
  Flags,        \* flag words each process calls PinSetup with
  SetupArgs,    \* pin numbers, valid or not, each process calls PinSetup with,
  AssignArgs,   \* the same for Assign, and
  SetArgs,      \* pins each process calls GpioSet with
  MapFails      \* TRUE: the mapping of the registers may fail

Pins == 0 .. MAX_PIN_NUMBER

\* A flag word, as far as PinSetup looks at it.  af is -1 for none.
FlagWords == [init : {0, 1}, af : -1 .. 15, output : BOOLEAN, pull : 0 .. 2]

ASSUME GpioAssumption ==
  /\ MAX_PIN_NUMBER \in 0 .. 254
  /\ FselPins \in Nat \ {0} /\ PullPins \in Nat \ {0}
  /\ Owner \in [Pins -> Actors]
  /\ Flags \in [Actors -> SUBSET FlagWords]
  /\ SetupArgs \in [Actors -> SUBSET Int] /\ AssignArgs \in [Actors -> SUBSET Int]
  /\ SetArgs \in [Actors -> SUBSET Pins]
  /\ MapFails \in BOOLEAN

VARIABLES
  GPFSEL,    \* function of each pin: 0 input, 1 output, 2 .. 7 alternate
  PUP_PDN,   \* pull of each pin: 0 none, 1 up, 2 down
  latch,     \* level that each pin drives as an output
  regs,      \* processes that have the registers mapped
  object,    \* the TGpioPin object of each process
  pc,        \* next register access of the running call, "idle" for none
  op,        \* pin, values and register copy of the running call
  asked,     \* history: function and pull last asked for each pin
  past,      \* history: all functions ever asked for each pin
  functionExposed,  \* history: pins whose function others could disturb, and
  pullExposed,      \* the same for the pull: see WriteFunction and WritePull
  driven,    \* history: level last asked for each pin
  astray     \* history: pins that were asked for a level nobody can be sure of

chip == <<GPFSEL, PUP_PDN, latch>>
setupHistory == <<asked, past, functionExposed, pullExposed>>
levelHistory == <<driven, astray>>
gpioVars == <<chip, regs, object, pc, op, setupHistory, levelHistory>>

-----------------------------------------------------------------------------
(* Registers and fields.                                                   *)

\* The fields of the register that holds the function, or the pull, of pin p.
FselRegister(p) ==
  [q \in {q \in Pins : q \div FselPins = p \div FselPins} |-> GPFSEL[q]]
PullRegister(p) ==
  [q \in {q \in Pins : q \div PullPins = p \div PullPins} |-> PUP_PDN[q]]

\* The registers after a changed copy has been written back.
WrittenBack(registers, copy) ==
  [q \in Pins |-> IF q \in DOMAIN copy THEN copy[q] ELSE registers[q]]

\* The value of sel that PinSetup computes for the function.
Select(flags) ==
  CASE flags.af # -1 -> 2 + (flags.af % 8)
    [] flags.af = -1 /\ flags.output -> 1
    [] OTHER -> 0

\* Variant: the mask that clears the field is one bit too wide.
SetFunction_WideMask(copy, p, sel) ==
  [q \in DOMAIN copy |->
     CASE q = p -> sel % 8
       [] q = p + 1 -> copy[q] - (copy[q] % 2)
       [] OTHER -> copy[q]]

\* The three bits of pin p become sel.  A sel of four bits reaches into the
\* lowest bit of the next pin's field.
SetFunction(copy, p, sel) ==
  [q \in DOMAIN copy |->
     CASE q = p -> sel % 8
       [] q = p + 1 /\ sel >= 8 /\ copy[q] % 2 = 0 -> copy[q] + 1
       [] OTHER -> copy[q]]

\* What reading the level of a pin can give: that of the latch for an output.
Levels(p) == IF GPFSEL[p] = 1 THEN {latch[p]} ELSE {0, 1}

-----------------------------------------------------------------------------
(* State.                                                                  *)

\* No Set1 and Set0 pointers yet; otherwise the pin whose registers they point
\* into and the level that Set1 gives it.
NoTarget == [pin |-> -1, on |-> 1]
Target(p, ainvert) == [pin |-> p, on |-> IF ainvert THEN 0 ELSE 1]

FreshPin == [pinnum |-> 255, inverted |-> FALSE, regs |-> FALSE, target |-> NoTarget]

NoOp == [pin |-> 0, sel |-> 0, pull |-> 0, level |-> 0,
         copy |-> [q \in {} |-> 0]]

GpioInit ==
  /\ GPFSEL = [p \in Pins |-> 0]
  /\ PUP_PDN = [p \in Pins |-> 0]
  /\ latch = [p \in Pins |-> 0]
  /\ regs = {}
  /\ object = [a \in Actors |-> FreshPin]
  /\ pc = [a \in Actors |-> "idle"]
  /\ op = [a \in Actors |-> NoOp]
  /\ asked = [p \in Pins |-> [sel |-> 0, pull |-> 0]]
  /\ past = [p \in Pins |-> {0}]
  /\ functionExposed = {} /\ pullExposed = {}
  /\ driven = [p \in Pins |-> 0]
  /\ astray = {}

\* The call of process a goes on at the statement called at.
Goto(a, at) == pc' = [pc EXCEPT ![a] = at]
Ends(a) == Goto(a, "idle") /\ op' = [op EXCEPT ![a] = NoOp]

\* A store to GPSET or GPCLR gives pin p level v and changes no other pin.
Store(p, v) == latch' = [latch EXCEPT ![p] = v]

\* What is asked for pin p: function and pull, a level, the opposite level.
AskSetup(p, setup) ==
  /\ asked' = [asked EXCEPT ![p] = setup]
  /\ past' = [past EXCEPT ![p] = @ \cup {setup.sel}]
  /\ UNCHANGED <<functionExposed, pullExposed>>
AskLevel(p, v) ==
  driven' = [driven EXCEPT ![p] = v] /\ astray' = astray \ {p}
AskToggle(p, certain) ==
  /\ driven' = [driven EXCEPT ![p] = 1 - @]
  /\ astray' = IF certain THEN astray ELSE astray \cup {p}

\* Contract: process a may call with number n when the pin is its own, or there
\* is none.
Mine(a, n) == n \in Pins => Owner[n] = a

-----------------------------------------------------------------------------
(* THwPinCtrl.                                                             *)

\* The registers are mapped on first use.
GetGpioRegs(a) ==
  \/ regs' = regs \cup {a}
  \/ MapFails /\ a \notin regs /\ UNCHANGED regs

\* PinSetup: level v is stored first, then function and pull are set.
\* It returns false, changing nothing, without a mapping or for a wrong number.
PinSetupStoring(a, n, flags, v) ==
  /\ pc[a] = "idle" /\ Mine(a, n)
  /\ GetGpioRegs(a)
  /\ \/ /\ a \in regs' /\ n \in Pins
        /\ Store(n, v) /\ AskLevel(n, flags.init)
        /\ AskSetup(n, [sel |-> Select(flags), pull |-> flags.pull])
        /\ op' = [op EXCEPT ![a] = [NoOp EXCEPT
                    !.pin = n, !.sel = Select(flags), !.pull = flags.pull,
                    !.level = flags.init]]
        /\ Goto(a, "readfunction")
     \/ /\ a \notin regs' \/ n \notin Pins
        /\ UNCHANGED <<latch, op, pc, setupHistory, levelHistory>>
  /\ UNCHANGED <<GPFSEL, PUP_PDN, object>>

\* Variant: the initial level is not stored beforehand.
PinSetup_NoLevel(a, n, flags) ==
  PinSetupStoring(a, n, flags, IF n \in Pins THEN latch[n] ELSE 0)

PinSetup(a, n, flags) == PinSetupStoring(a, n, flags, flags.init)

\* Setup of the pin object; nothing happens when no number was assigned.
Setup(a, flags) ==
  /\ object[a].pinnum # FreshPin.pinnum
  /\ PinSetup(a, object[a].pinnum, flags)

ReadFunction(a) ==
  /\ pc[a] = "readfunction"
  /\ op' = [op EXCEPT ![a].copy = FselRegister(op[a].pin)]
  /\ Goto(a, "writefunction")
  /\ UNCHANGED <<chip, regs, object, setupHistory, levelHistory>>

\* Another process has read the register that process a writes, and not yet
\* written it back: with its copy it will undo what a does.
FunctionRaced(a) ==
  \E b \in Actors \ {a} : /\ pc[b] \in {"writefunction", "writedirection"}
                          /\ op[b].pin \div FselPins = op[a].pin \div FselPins
PullRaced(a) ==
  \E b \in Actors \ {a} : /\ pc[b] = "writepull"
                          /\ op[b].pin \div PullPins = op[a].pin \div PullPins

\* The fields that process a spoils with a function of more than three bits.
Spoilt(a) ==
  {q \in DOMAIN op[a].copy : op[a].sel >= 8 /\ q \in {op[a].pin, op[a].pin + 1}}

\* PinSetup and SwitchDirection write the changed register back.
WriteFunction(a) ==
  /\ GPFSEL' = WrittenBack(GPFSEL, SetFunction(op[a].copy, op[a].pin, op[a].sel))
  /\ functionExposed' = {q \in functionExposed : q # op[a].pin} \cup Spoilt(a)
                          \cup {q \in {op[a].pin} : FunctionRaced(a)}
  /\ \/ pc[a] = "writefunction" /\ Goto(a, "readpull") /\ UNCHANGED op
     \/ pc[a] = "writedirection" /\ Ends(a)
  /\ UNCHANGED <<PUP_PDN, latch, regs, object, asked, past, pullExposed, levelHistory>>

ReadPull(a) ==
  /\ pc[a] = "readpull"
  /\ op' = [op EXCEPT ![a].copy = PullRegister(op[a].pin)]
  /\ Goto(a, "writepull")
  /\ UNCHANGED <<chip, regs, object, setupHistory, levelHistory>>

WritePull(a) ==
  /\ pc[a] = "writepull"
  /\ PUP_PDN' = WrittenBack(PUP_PDN, [op[a].copy EXCEPT ![op[a].pin] = op[a].pull])
  /\ pullExposed' = {q \in pullExposed : q # op[a].pin}
                      \cup {q \in {op[a].pin} : PullRaced(a)}
  /\ Ends(a)
  /\ UNCHANGED <<GPFSEL, latch, regs, object, asked, past, functionExposed, levelHistory>>

\* GpioSet with a level.  Without a mapping any store is fatal.
GpioSet(a, p, value) ==
  /\ pc[a] = "idle" /\ Mine(a, p)
  /\ \/ a \in regs /\ Store(p, value) /\ AskLevel(p, value) /\ UNCHANGED pc
     \/ a \notin regs /\ Goto(a, "dead") /\ UNCHANGED <<latch, levelHistory>>
  /\ UNCHANGED <<GPFSEL, PUP_PDN, regs, object, op, setupHistory>>

\* GpioSet with a value that asks to toggle: the level to be changed is read
\* from GPSET, a register for writing, so that either may come out ...
GpioSetToggle(a, p) ==
  /\ pc[a] = "idle" /\ Mine(a, p)
  /\ \/ /\ a \in regs
        /\ \E v \in {0, 1} : op' = [op EXCEPT ![a] = [NoOp EXCEPT !.pin = p, !.level = v]]
        /\ Goto(a, "gpioset")
        /\ AskToggle(p, FALSE)
     \/ a \notin regs /\ Goto(a, "dead") /\ UNCHANGED <<op, levelHistory>>
  /\ UNCHANGED <<chip, regs, object, setupHistory>>

\* ... and the other one is stored.
GpioSetStore(a) ==
  /\ pc[a] = "gpioset"
  /\ Store(op[a].pin, 1 - op[a].level)
  /\ Ends(a)
  /\ UNCHANGED <<GPFSEL, PUP_PDN, regs, object, setupHistory, levelHistory>>

-----------------------------------------------------------------------------
(* TGpioPin.                                                               *)

\* Assign, for a range of valid numbers and the pointers it computes.  It
\* stores number, as an unsigned char, and inversion before it finds out whether
\* the pin can be used; the pointers stay when it cannot.
AssignWithin(valid, a, n, ainvert, target) ==
  /\ pc[a] = "idle" /\ Mine(a, n)
  /\ GetGpioRegs(a)
  /\ object' = [object EXCEPT ![a] =
       [pinnum |-> n % 256, inverted |-> ainvert,
        regs |-> a \in regs' /\ n \in valid,
        target |-> IF a \in regs' /\ n \in valid THEN target ELSE @.target]]
  /\ UNCHANGED <<chip, pc, op, setupHistory, levelHistory>>

\* Variant: only the branch of an inverted pin sets the pointers' polarity.
Assign_KeepsPolarity(a, n, ainvert) ==
  AssignWithin(Pins, a, n, ainvert,
    IF ainvert THEN Target(n, TRUE) ELSE [object[a].target EXCEPT !.pin = n])

\* Variant: the range is one too wide.
Assign_OffByOne(a, n, ainvert) ==
  AssignWithin(0 .. MAX_PIN_NUMBER + 1, a, n, ainvert, Target(n, ainvert))

Assign(a, n, ainvert) == AssignWithin(Pins, a, n, ainvert, Target(n, ainvert))

\* Without pointers a load or store is fatal.
NullPointer(a) ==
  /\ pc[a] = "idle"
  /\ object[a].target = NoTarget
  /\ Goto(a, "dead")
  /\ UNCHANGED <<chip, regs, object, op, setupHistory, levelHistory>>

\* Set1, Set0 and SetTo: a store through the object's pointers.  After a failed
\* Assign they lead to a pin that nobody asks a level for.
SetTo(a, value) ==
  LET o == object[a]
  IN  /\ pc[a] = "idle" /\ o.target # NoTarget
      /\ Store(o.target.pin, IF value = 1 THEN o.target.on ELSE 1 - o.target.on)
      /\ \/ o.regs /\ AskLevel(o.pinnum, IF o.inverted THEN 1 - value ELSE value)
         \/ ~o.regs /\ astray' = astray \cup {o.target.pin} /\ UNCHANGED driven
      /\ UNCHANGED <<GPFSEL, PUP_PDN, regs, object, pc, op, setupHistory>>

\* Toggle reads the level of the pin, which knows nothing of the inversion, and
\* for a pin that is no output nothing of the latch ...
Toggle(a) ==
  LET o == object[a]
      p == o.target.pin
  IN  /\ pc[a] = "idle" /\ o.target # NoTarget
      /\ \E v \in Levels(p) : op' = [op EXCEPT ![a] = [NoOp EXCEPT !.pin = p, !.level = v]]
      /\ Goto(a, "toggle")
      /\ AskToggle(p, o.regs /\ ~o.inverted /\ GPFSEL[p] = 1)
      /\ UNCHANGED <<chip, regs, object, setupHistory>>

\* ... and calls Set0 or Set1, which do.
ToggleStore(a) ==
  /\ pc[a] = "toggle"
  /\ Store(op[a].pin, IF op[a].level = 1 THEN 1 - object[a].target.on
                                         ELSE object[a].target.on)
  /\ Ends(a)
  /\ UNCHANGED <<GPFSEL, PUP_PDN, regs, object, setupHistory, levelHistory>>

\* SwitchDirection reads the function register of the object's pin; without
\* registers that is fatal.
SwitchDirection(a, adirection) ==
  LET p == object[a].pinnum
      sel == adirection % 2
  IN  /\ pc[a] = "idle"
      /\ \/ /\ object[a].regs
            /\ AskSetup(p, [asked[p] EXCEPT !.sel = sel])
            /\ op' = [op EXCEPT ![a] =
                 [NoOp EXCEPT !.pin = p, !.sel = sel, !.copy = FselRegister(p)]]
            /\ Goto(a, "writedirection")
         \/ ~object[a].regs /\ Goto(a, "dead") /\ UNCHANGED <<op, setupHistory>>
      /\ UNCHANGED <<chip, regs, object, levelHistory>>

PinCalls(a) ==
  \/ \E n \in SetupArgs[a], f \in Flags[a] : PinSetup(a, n, f)
  \/ \E f \in Flags[a] : Setup(a, f)
  \/ \E p \in SetArgs[a], v \in {0, 1} : GpioSet(a, p, v)
  \/ \E p \in SetArgs[a] : GpioSetToggle(a, p)
  \/ \E n \in AssignArgs[a], b \in BOOLEAN : Assign(a, n, b)
  \/ \E v \in {0, 1} : SetTo(a, v) \/ SwitchDirection(a, v)
  \/ Toggle(a)
  \/ NullPointer(a)

PinSteps(a) ==
  \/ ReadFunction(a) \/ WriteFunction(a) \/ ReadPull(a) \/ WritePull(a)
  \/ GpioSetStore(a) \/ ToggleStore(a)

GpioNext == \E a \in Actors : PinCalls(a) \/ PinSteps(a)

GpioSpec == GpioInit /\ [][GpioNext]_gpioVars

-----------------------------------------------------------------------------
(* Properties.                                                             *)

Statements == {"idle", "readfunction", "writefunction", "writedirection", "readpull",
               "writepull", "gpioset", "toggle", "dead"}
Copies == UNION {[P -> 0 .. 7] : P \in SUBSET Pins}
Ops == [pin : Pins, sel : 0 .. 9, pull : 0 .. 2, level : {0, 1}, copy : Copies]
PinObjects == [pinnum : 0 .. 255, inverted : BOOLEAN, regs : BOOLEAN,
               target : [pin : Pins, on : {0, 1}] \cup {NoTarget}]

\* The pointers and the running call of process a lead to pins of its own, the
\* pointers as its object was last assigned; what it has read as pulls are some.
OwnPins(a) ==
  /\ object[a].target # NoTarget => Owner[object[a].target.pin] = a
  /\ object[a].regs => object[a].target = Target(object[a].pinnum, object[a].inverted)
  /\ pc[a] \notin {"idle", "dead"} => Owner[op[a].pin] = a
  /\ pc[a] = "writepull" => \A q \in DOMAIN op[a].copy : op[a].copy[q] \in 0 .. 2

\* Functions fit into three bits and pulls into two, pointers lead to the
\* process's own pin, also after failed assignments and in the middle of calls.
GpioTypeOK ==
  /\ GPFSEL \in [Pins -> 0 .. 7]
  /\ PUP_PDN \in [Pins -> 0 .. 2]
  /\ latch \in [Pins -> {0, 1}] /\ driven \in [Pins -> {0, 1}]
  /\ asked \in [Pins -> [sel : 0 .. 9, pull : 0 .. 2]]
  /\ past \in [Pins -> SUBSET (0 .. 9)]
  /\ functionExposed \subseteq Pins /\ pullExposed \subseteq Pins
  /\ astray \subseteq Pins
  /\ regs \subseteq Actors
  /\ object \in [Actors -> PinObjects]
  /\ op \in [Actors -> Ops]
  /\ pc \in [Actors -> Statements]
  /\ \A a \in Actors : OwnPins(a)

\* The process that uses pin p is at one of these statements of a call for it.
At(p, statements) == pc[Owner[p]] \in statements /\ op[Owner[p]].pin = p

FunctionPending(p) == At(p, {"readfunction", "writefunction", "writedirection"})
PullPending(p) == At(p, {"readfunction", "writefunction", "readpull", "writepull"})
TogglePending(p) == At(p, {"gpioset", "toggle"})

\* A pin keeps the function and the pull last asked for it through everything
\* that is done to other pins of the same registers, with two exceptions: when
\* its own set-up wrote the register, another process was between reading and
\* writing it, or a function beyond three bits was asked for it or for the pin
\* before it (hwpins_broadcom.cpp:87, 100-103, 119-122, 222-225).
SetupKept ==
  \A p \in Pins :
    /\ ~FunctionPending(p) /\ p \notin functionExposed => GPFSEL[p] = asked[p].sel
    /\ ~PullPending(p) /\ p \notin pullExposed => PUP_PDN[p] = asked[p].pull

\* Processes racing for a register can bring an old function of a pin back, but
\* never one that was not asked for that pin at some time, as long as all the
\* functions asked for fit into three bits (hwpins_broadcom.cpp:100-103, 222-225).
OnlyPastFunctions ==
  (\A p \in Pins : past[p] \subseteq 0 .. 7) => \A p \in Pins : GPFSEL[p] \in past[p]

\* The level of a pin is the one last asked for, with the inversion its object
\* was last assigned; a toggle asks for the opposite of the level before.  It
\* cannot be relied on after a GpioSet that toggles, a Toggle of an inverted
\* object or of a pin that is no output, and what an object does after a failed
\* Assign, up to the next level that is asked for (hwpins_broadcom.cpp:132-212,
\* hwpins.h:137).
LevelAsAsked ==
  \A p \in Pins : p \notin astray /\ ~TogglePending(p) => latch[p] = driven[p]

\* When PinSetup makes a pin an output, its initial level is there already
\* ("to avoid possible glitches", hwpins_broadcom.cpp:71).
NoGlitch ==
  [][\A a \in Actors :
       pc[a] = "writefunction" /\ pc'[a] # pc[a] /\ GPFSEL'[op[a].pin] = 1 =>
         latch[op[a].pin] = op[a].level]_gpioVars

\* Toggle, "generic code without hw toggle support" (hwpins_broadcom.cpp:203),
\* changes the level of an output, be its object inverted or not.
ToggleToggles ==
  [][\A a \in Actors :
       pc[a] = "toggle" /\ pc'[a] = "idle" /\ GPFSEL[op[a].pin] = 1 =>
         latch'[op[a].pin] = 1 - latch[op[a].pin]]_gpioVars
=============================================================================
