--------------------------- MODULE GpioPinsProofs ---------------------------
(***************************************************************************)
(* Theorems about GpioPins, for any number of pins, of pins per register   *)
(* and of processes, any flags, and any pin numbers the contract allows.   *)
(***************************************************************************)
EXTENDS GpioPins, TLAPS

\* The pins that share a register with pin p.
FselMates(p) == {q \in Pins : q \div FselPins = p \div FselPins}
PullMates(p) == {q \in Pins : q \div PullPins = p \div PullPins}

\* A copy of a register is a copy, of the fields of its pins.
LEMMA RegistersAreCopies ==
  ASSUME GpioTypeOK, NEW p \in Pins
  PROVE  /\ FselRegister(p) \in Copies /\ DOMAIN FselRegister(p) = FselMates(p)
         /\ \A q \in FselMates(p) : FselRegister(p)[q] = GPFSEL[q]
         /\ PullRegister(p) \in Copies /\ DOMAIN PullRegister(p) = PullMates(p)
         /\ \A q \in PullMates(p) : PullRegister(p)[q] = PUP_PDN[q]
         /\ p \in FselMates(p) /\ p \in PullMates(p)
<1>1. FselRegister(p) = [q \in FselMates(p) |-> GPFSEL[q]]
  BY DEF FselRegister, FselMates
<1>2. PullRegister(p) = [q \in PullMates(p) |-> PUP_PDN[q]]
  BY DEF PullRegister, PullMates
<1>3. /\ FselMates(p) \in SUBSET Pins /\ PullMates(p) \in SUBSET Pins
      /\ p \in FselMates(p) /\ p \in PullMates(p)
  BY DEF FselMates, PullMates
<1>4. \A q \in Pins : GPFSEL[q] \in 0 .. 7 /\ PUP_PDN[q] \in 0 .. 7
  BY DEF GpioTypeOK
<1>5. FselRegister(p) \in [FselMates(p) -> 0 .. 7] /\ PullRegister(p) \in [PullMates(p) -> 0 .. 7]
  BY <1>1, <1>2, <1>3, <1>4
<1> QED BY <1>1, <1>2, <1>3, <1>5 DEF Copies

\* What a process without a running call has is typed like the rest.
LEMMA NoOpIsOp == NoOp \in Ops
<1>1. [q \in {} |-> 0] \in [{} -> 0 .. 7]
  OBVIOUS
<1>2. [q \in {} |-> 0] \in Copies
  BY <1>1 DEF Copies
<1> QED BY <1>2, GpioAssumption DEF NoOp, Ops, Pins

\* What a flag word asks for.
LEMMA SelectFits ==
  ASSUME NEW a \in Actors, NEW flags \in Flags[a]
  PROVE  /\ Select(flags) \in 0 .. 9
         /\ flags.init \in {0, 1} /\ flags.pull \in 0 .. 2
<1>1. flags \in FlagWords
  BY GpioAssumption
<1>2. CASE flags.af = -1 /\ flags.output
  BY <1>1, <1>2 DEF Select, FlagWords
<1>3. CASE flags.af = -1 /\ ~flags.output
  BY <1>1, <1>3 DEF Select, FlagWords
<1>4. CASE flags.af # -1
  <2>1. flags.af \in 0 .. 15 /\ flags.af % 8 \in 0 .. 7
    BY <1>1, <1>4 DEF FlagWords
  <2>2. Select(flags) = 2 + (flags.af % 8)
    BY <1>4 DEF Select
  <2> QED BY <1>1, <2>1, <2>2 DEF FlagWords
<1> QED BY <1>1, <1>2, <1>3, <1>4 DEF FlagWords

\* A changed copy has the fields of the copy; only that of the pin, and for a
\* function of more than three bits that of the next pin, are others.
LEMMA FunctionSet ==
  ASSUME NEW copy \in Copies, NEW p \in Pins, NEW sel \in 0 .. 9
  PROVE  LET new == SetFunction(copy, p, sel)
         IN  /\ new \in Copies /\ DOMAIN new = DOMAIN copy
             /\ p \in DOMAIN copy => new[p] = sel % 8
             /\ \A q \in DOMAIN copy :
                  q # p /\ ~(sel >= 8 /\ q = p + 1) => new[q] = copy[q]
<1> DEFINE new == SetFunction(copy, p, sel)
<1>1. PICK P \in SUBSET Pins : copy \in [P -> 0 .. 7]
  BY DEF Copies
<1>2. sel % 8 \in 0 .. 7
  OBVIOUS
<1>3. \A q \in P : q \in Int /\ copy[q] \in 0 .. 7
  BY <1>1, GpioAssumption DEF Pins
<1>4. /\ DOMAIN new = P
      /\ \A q \in P : /\ new[q] \in 0 .. 7
                      /\ q = p => new[q] = sel % 8
                      /\ q # p /\ ~(sel >= 8 /\ q = p + 1) => new[q] = copy[q]
  <2>1. DOMAIN new = P
    BY <1>1 DEF SetFunction
  <2>2. ASSUME NEW q \in P, q = p PROVE new[q] = sel % 8
    <3>1. new = [r \in P |->
                  CASE r = p -> sel % 8
                    [] r = p + 1 /\ sel >= 8 /\ copy[r] % 2 = 0 -> copy[r] + 1
                    [] OTHER -> copy[r]]
      BY <1>1 DEF SetFunction
    <3> HIDE DEF new
    <3>2. new[q] = CASE q = p -> sel % 8
                     [] q = p + 1 /\ sel >= 8 /\ copy[q] % 2 = 0 -> copy[q] + 1
                     [] OTHER -> copy[q]
      BY <3>1
    <3>3. ~(q = p + 1)
      BY <1>3, <2>2
    <3> QED BY <2>2, <3>2, <3>3
  <2>3. ASSUME NEW q \in P, q # p, ~(q = p + 1 /\ sel >= 8 /\ copy[q] % 2 = 0)
        PROVE  new[q] = copy[q]
    BY <1>1, <2>3 DEF SetFunction
  <2>4. ASSUME NEW q \in P, q # p, q = p + 1 /\ sel >= 8 /\ copy[q] % 2 = 0
        PROVE  new[q] \in 0 .. 7
    <3>1. new[q] = copy[q] + 1
      BY <1>1, <2>4 DEF SetFunction
    <3>2. copy[q] \in 0 .. 6
      BY <1>3, <2>4
    <3> QED BY <3>1, <3>2
  <2> QED BY <1>2, <1>3, <2>1, <2>2, <2>3, <2>4
<1>5. new = [q \in P |-> new[q]]
  BY <1>1 DEF SetFunction
<1> HIDE DEF new
<1>6. new \in [P -> 0 .. 7]
  BY <1>4, <1>5
<1>7. new \in Copies
  BY <1>6 DEF Copies
<1> QED BY <1>1, <1>4, <1>7 DEF new

-----------------------------------------------------------------------------
(* Types.                                                                  *)

\* A step of process a does not touch calls and objects of others, nor levels
\* and requests of their pins.
Undisturbed(a) ==
  /\ \A b \in Actors \ {a} : pc'[b] = pc[b] /\ op'[b] = op[b] /\ object'[b] = object[b]
  /\ \A q \in Pins : Owner[q] # a =>
       /\ latch'[q] = latch[q] /\ driven'[q] = driven[q] /\ asked'[q] = asked[q]
       /\ (q \in astray' <=> q \in astray)

\* What a step of process a owes to the types of calls and objects, of levels and
\* requests, and of registers and what is recorded about them.
CallKept(a) ==
  /\ pc' \in [Actors -> Statements] /\ op' \in [Actors -> Ops]
  /\ object' \in [Actors -> PinObjects] /\ regs' \in SUBSET Actors
  /\ \A b \in Actors \ {a} : pc'[b] = pc[b] /\ op'[b] = op[b] /\ object'[b] = object[b]
  /\ \A b \in Actors : OwnPins(b)'
LevelsKept(a) ==
  /\ latch' \in [Pins -> {0, 1}] /\ driven' \in [Pins -> {0, 1}]
  /\ asked' \in [Pins -> [sel : 0 .. 9, pull : 0 .. 2]] /\ astray' \in SUBSET Pins
  /\ \A q \in Pins : Owner[q] # a =>
       /\ latch'[q] = latch[q] /\ driven'[q] = driven[q] /\ asked'[q] = asked[q]
       /\ (q \in astray' <=> q \in astray)
RegistersKept ==
  /\ GPFSEL' \in [Pins -> 0 .. 7] /\ PUP_PDN' \in [Pins -> 0 .. 2]
  /\ past' \in [Pins -> SUBSET (0 .. 9)]
  /\ functionExposed' \in SUBSET Pins /\ pullExposed' \in SUBSET Pins

\* Together that is what a step owes.
LEMMA TypeStep ==
  ASSUME NEW a \in Actors, CallKept(a), LevelsKept(a), RegistersKept
  PROVE  GpioTypeOK' /\ Undisturbed(a)
BY DEF CallKept, LevelsKept, RegistersKept, GpioTypeOK, Undisturbed

\* A step that leaves the registers, or the levels and requests, alone.
LEMMA NothingKept ==
  ASSUME GpioTypeOK, NEW a \in Actors
  PROVE  /\ UNCHANGED <<GPFSEL, PUP_PDN, setupHistory>> => RegistersKept
         /\ UNCHANGED <<latch, asked, levelHistory>> => LevelsKept(a)
BY DEF GpioTypeOK, RegistersKept, LevelsKept, setupHistory, levelHistory

\* The call of process a goes on at a statement with values of its own.
LEMMA CallStep ==
  ASSUME GpioTypeOK, NEW a \in Actors, UNCHANGED object, regs' \in SUBSET Actors,
         NEW at \in Statements, pc' = [pc EXCEPT ![a] = at],
         NEW x \in Ops, op' = [op EXCEPT ![a] = x],
         at \notin {"idle", "dead"} => Owner[x.pin] = a,
         at = "writepull" => \A q \in DOMAIN x.copy : x.copy[q] \in 0 .. 2
  PROVE  CallKept(a) /\ pc'[a] = at /\ op'[a] = x
<1>1. /\ pc' \in [Actors -> Statements] /\ pc'[a] = at
      /\ op' \in [Actors -> Ops] /\ op'[a] = x
      /\ \A b \in Actors \ {a} : pc'[b] = pc[b] /\ op'[b] = op[b] /\ object'[b] = object[b]
  BY DEF GpioTypeOK
<1>2. \A b \in Actors : OwnPins(b)'
  BY <1>1 DEF GpioTypeOK, OwnPins
<1> QED BY <1>1, <1>2 DEF CallKept, GpioTypeOK

\* A level, or a request, of a pin of process a changes.
LEMMA LevelsStep ==
  ASSUME GpioTypeOK, NEW a \in Actors, NEW p \in Pins, Owner[p] = a,
         UNCHANGED latch \/ \E v \in {0, 1} : latch' = [latch EXCEPT ![p] = v],
         UNCHANGED driven \/ \E v \in {0, 1} : driven' = [driven EXCEPT ![p] = v],
         \/ UNCHANGED asked
         \/ \E w \in [sel : 0 .. 9, pull : 0 .. 2] : asked' = [asked EXCEPT ![p] = w],
         astray' \in {astray, astray \cup {p}, astray \ {p}}
  PROVE  LevelsKept(a)
<1>1. latch' \in [Pins -> {0, 1}] /\ driven' \in [Pins -> {0, 1}]
  BY DEF GpioTypeOK
<1>2. asked' \in [Pins -> [sel : 0 .. 9, pull : 0 .. 2]]
  BY DEF GpioTypeOK
<1>3. astray' \in SUBSET Pins
  BY DEF GpioTypeOK
<1>4. ASSUME NEW q \in Pins, Owner[q] # a
      PROVE  /\ latch'[q] = latch[q] /\ driven'[q] = driven[q] /\ asked'[q] = asked[q]
             /\ (q \in astray' <=> q \in astray)
  BY <1>4 DEF GpioTypeOK
<1> QED BY <1>1, <1>2, <1>3, <1>4 DEF LevelsKept

\* What asking for a level, or for a toggle, of a pin of process a changes.
LEMMA AskStep ==
  ASSUME GpioTypeOK, NEW a \in Actors, NEW p \in Pins, Owner[p] = a, UNCHANGED asked,
         UNCHANGED latch \/ \E v \in {0, 1} : latch' = [latch EXCEPT ![p] = v],
         \/ UNCHANGED driven /\ astray' \in {astray, astray \cup {p}}
         \/ \E v \in {0, 1} : AskLevel(p, v)
         \/ \E certain \in BOOLEAN : AskToggle(p, certain)
  PROVE  LevelsKept(a)
<1>1. driven[p] \in {0, 1} /\ 1 - driven[p] \in {0, 1}
  BY DEF GpioTypeOK
<1>2. UNCHANGED driven \/ \E v \in {0, 1} : driven' = [driven EXCEPT ![p] = v]
  BY <1>1 DEF AskLevel, AskToggle
<1>3. astray' \in {astray, astray \cup {p}, astray \ {p}}
  BY DEF AskLevel, AskToggle
<1> QED BY <1>2, <1>3, LevelsStep

\* There is a pin.
LEMMA SomePin == 0 \in Pins
BY GpioAssumption DEF Pins

\* What a process has got may be stored as it is.
LEMMA OwnState ==
  ASSUME GpioTypeOK, NEW a \in Actors
  PROVE  /\ op[a] \in Ops /\ object[a] \in PinObjects /\ pc[a] \in Statements
         /\ op = [op EXCEPT ![a] = op[a]] /\ object = [object EXCEPT ![a] = object[a]]
         /\ pc = [pc EXCEPT ![a] = pc[a]]
         /\ object[a].target # NoTarget =>
              Owner[object[a].target.pin] = a /\ object[a].target.pin \in Pins
         /\ object[a].regs => object[a].target = Target(object[a].pinnum, object[a].inverted)
         /\ pc[a] \notin {"idle", "dead"} => Owner[op[a].pin] = a
         /\ op[a].pin \in Pins /\ op[a].sel \in 0 .. 9 /\ op[a].pull \in 0 .. 2
         /\ op[a].level \in {0, 1} /\ op[a].copy \in Copies
         /\ object[a].target.on \in {0, 1} /\ object[a].inverted \in BOOLEAN
<1>1. op[a] \in Ops /\ object[a] \in PinObjects /\ pc[a] \in Statements /\ OwnPins(a)
  BY DEF GpioTypeOK
<1>2. object[a].target \in [pin : Pins, on : {0, 1}] \cup {NoTarget}
  BY <1>1 DEF PinObjects
<1>3. object[a].target.on \in {0, 1}
  BY <1>2 DEF NoTarget
<1>4. op = [op EXCEPT ![a] = op[a]] /\ object = [object EXCEPT ![a] = object[a]]
      /\ pc = [pc EXCEPT ![a] = pc[a]]
  BY DEF GpioTypeOK
<1>5. object[a].target # NoTarget => object[a].target.pin \in Pins
  BY <1>2
<1> QED BY <1>1, <1>3, <1>4, <1>5 DEF OwnPins, Ops, PinObjects

\* Through an assigned object its own pin is driven, in its own polarity.
LEMMA DrivenPin ==
  ASSUME GpioTypeOK, NEW a \in Actors, object[a].regs
  PROVE  /\ object[a].pinnum \in Pins /\ Owner[object[a].pinnum] = a
         /\ object[a].target # NoTarget /\ object[a].target.pin = object[a].pinnum
         /\ object[a].target.on = IF object[a].inverted THEN 0 ELSE 1
<1>1. object[a] \in PinObjects /\ object[a].target = Target(object[a].pinnum, object[a].inverted)
  BY OwnState
<1>2. object[a].pinnum \in 0 .. 255
  BY <1>1 DEF PinObjects
<1>3. object[a].target.pin = object[a].pinnum /\ object[a].target # NoTarget
  BY <1>1, <1>2 DEF Target, NoTarget
<1>4. object[a].target.on = IF object[a].inverted THEN 0 ELSE 1
  BY <1>1 DEF Target
<1> QED BY <1>3, <1>4, OwnState

\* No call goes on, or one is fatal.
LEMMA CallStays ==
  ASSUME GpioTypeOK, NEW a \in Actors, UNCHANGED <<op, object>>, regs' \in SUBSET Actors,
         UNCHANGED pc \/ Goto(a, "dead")
  PROVE  CallKept(a)
<1>1. op[a] \in Ops /\ pc[a] \in Statements /\ op' = [op EXCEPT ![a] = op[a]]
  BY OwnState
<1>2. CASE Goto(a, "dead")
  BY <1>1, <1>2, CallStep DEF Goto, Statements
<1>3. CASE UNCHANGED pc
  BY <1>3 DEF CallKept, OwnPins, GpioTypeOK
<1> QED BY <1>2, <1>3

\* PinSetup begins a set-up, or changes nothing but the mapping.
LEMMA PinSetupType ==
  ASSUME GpioTypeOK, NEW a \in Actors, NEW n, NEW f \in Flags[a], PinSetup(a, n, f)
  PROVE  GpioTypeOK' /\ Undisturbed(a)
<1>1. /\ pc[a] = "idle" /\ Mine(a, n) /\ regs' \in SUBSET Actors
      /\ UNCHANGED <<GPFSEL, PUP_PDN, object>>
  BY DEF PinSetup, PinSetupStoring, GetGpioRegs, GpioTypeOK
<1>2. CASE UNCHANGED <<latch, op, pc, setupHistory, levelHistory>>
  <2>1. LevelsKept(a) /\ RegistersKept
    BY <1>1, <1>2, NothingKept DEF setupHistory
  <2>2. CallKept(a)
    BY <1>1, <1>2, CallStays
  <2> QED BY <2>1, <2>2, TypeStep
<1>3. CASE n \in Pins /\ Store(n, f.init) /\ AskLevel(n, f.init)
           /\ AskSetup(n, [sel |-> Select(f), pull |-> f.pull])
           /\ op' = [op EXCEPT ![a] = [NoOp EXCEPT
                    !.pin = n, !.sel = Select(f), !.pull = f.pull, !.level = f.init]]
           /\ Goto(a, "readfunction")
  <2> DEFINE x == [NoOp EXCEPT !.pin = n, !.sel = Select(f), !.pull = f.pull,
                               !.level = f.init]
             w == [sel |-> Select(f), pull |-> f.pull]
  <2>1. x \in Ops /\ x.pin = n /\ w \in [sel : 0 .. 9, pull : 0 .. 2] /\ w.sel \in 0 .. 9
        /\ f.init \in {0, 1}
    BY <1>3, SelectFits, NoOpIsOp DEF Ops, NoOp
  <2>2. /\ op' = [op EXCEPT ![a] = x] /\ pc' = [pc EXCEPT ![a] = "readfunction"]
        /\ latch' = [latch EXCEPT ![n] = f.init] /\ driven' = [driven EXCEPT ![n] = f.init]
        /\ astray' = astray \ {n}
        /\ asked' = [asked EXCEPT ![n] = w] /\ past' = [past EXCEPT ![n] = @ \cup {w.sel}]
        /\ UNCHANGED <<functionExposed, pullExposed>>
    BY <1>3 DEF Store, AskLevel, AskSetup, Goto
  <2> HIDE DEF x, w
  <2>3. RegistersKept
    BY <1>1, <2>1, <2>2 DEF GpioTypeOK, RegistersKept
  <2>4. Owner[n] = a
    BY <1>1, <1>3 DEF Mine
  <2>5. CallKept(a)
    BY <1>1, <2>1, <2>2, <2>4, CallStep DEF Statements
  <2>6. LevelsKept(a)
    BY <1>3, <2>1, <2>2, <2>4, LevelsStep
  <2> QED BY <2>3, <2>5, <2>6, TypeStep
<1> QED BY <1>2, <1>3 DEF PinSetup, PinSetupStoring

\* The accesses of a set-up to the registers.
LEMMA SetupStepType ==
  ASSUME GpioTypeOK, NEW a \in Actors,
         ReadFunction(a) \/ WriteFunction(a) \/ ReadPull(a) \/ WritePull(a)
  PROVE  GpioTypeOK' /\ Undisturbed(a)
<1> DEFINE p == op[a].pin
<1>1. /\ UNCHANGED <<latch, regs, object, asked, past, levelHistory>>
      /\ regs' \in SUBSET Actors /\ Owner[p] = a
  BY OwnState DEF ReadFunction, WriteFunction, ReadPull, WritePull, chip, setupHistory, GpioTypeOK
<1>2. LevelsKept(a)
  BY <1>1, NothingKept
<1>3. ASSUME NEW copy \in Copies
      PROVE  /\ [op[a] EXCEPT !.copy = copy] \in Ops
             /\ [op[a] EXCEPT !.copy = copy].pin = p
             /\ [op[a] EXCEPT !.copy = copy].copy = copy
  BY OwnState DEF Ops
<1>4. p \in Pins /\ op[a].copy \in Copies /\ DOMAIN op[a].copy \in SUBSET Pins
  BY OwnState DEF Copies
<1>5. CASE ReadFunction(a)
  <2> DEFINE x == [op[a] EXCEPT !.copy = FselRegister(p)]
  <2>1. x \in Ops /\ x.pin = p
    BY <1>3, <1>4, RegistersAreCopies
  <2>2. op' = [op EXCEPT ![a] = x] /\ pc' = [pc EXCEPT ![a] = "writefunction"]
        /\ UNCHANGED <<GPFSEL, PUP_PDN, setupHistory>>
    BY <1>5 DEF ReadFunction, Goto, chip
  <2> HIDE DEF x, p
  <2>3. CallKept(a)
    BY <1>1, <2>1, <2>2, CallStep DEF Statements
  <2> QED BY <1>2, <2>2, <2>3, NothingKept, TypeStep
<1>6. CASE ReadPull(a)
  <2> DEFINE x == [op[a] EXCEPT !.copy = PullRegister(p)]
  <2>1. x \in Ops /\ x.pin = p /\ x.copy = PullRegister(p)
    BY <1>3, <1>4, RegistersAreCopies
  <2>2. op' = [op EXCEPT ![a] = x] /\ pc' = [pc EXCEPT ![a] = "writepull"]
        /\ UNCHANGED <<GPFSEL, PUP_PDN, setupHistory>>
    BY <1>6 DEF ReadPull, Goto, chip
  <2> HIDE DEF x, p
  <2>3. \A q \in DOMAIN x.copy : x.copy[q] \in 0 .. 2
    <3>1. \A q \in PullMates(p) : PullRegister(p)[q] \in 0 .. 2
      BY <1>4, RegistersAreCopies DEF GpioTypeOK, PullMates
    <3>2. DOMAIN PullRegister(p) = PullMates(p)
      BY <1>4, RegistersAreCopies
    <3> QED BY <2>1, <3>1, <3>2
  <2>4. CallKept(a)
    BY <1>1, <2>1, <2>2, <2>3, CallStep DEF Statements
  <2> QED BY <1>2, <2>2, <2>4, NothingKept, TypeStep
<1>7. CASE WriteFunction(a)
  <2>1. GPFSEL' \in [Pins -> 0 .. 7]
    <3> DEFINE new == SetFunction(op[a].copy, p, op[a].sel)
    <3>1. new \in Copies
      BY OwnState, FunctionSet
    <3>2. GPFSEL' = WrittenBack(GPFSEL, new)
      BY <1>7 DEF WriteFunction
    <3> HIDE DEF new
    <3>3. \A q \in DOMAIN new : new[q] \in 0 .. 7
      BY <3>1 DEF Copies
    <3> QED BY <3>2, <3>3 DEF WrittenBack, GpioTypeOK
  <2>2. functionExposed' \in SUBSET Pins /\ UNCHANGED <<PUP_PDN, pullExposed>>
    BY <1>4, <1>7 DEF WriteFunction, Spoilt, GpioTypeOK
  <2>3. RegistersKept
    BY <1>1, <2>1, <2>2 DEF RegistersKept, GpioTypeOK
  <2>4. CASE Goto(a, "readpull") /\ op' = op
    <3>1. /\ op[a] \in Ops /\ op' = [op EXCEPT ![a] = op[a]]
          /\ pc' = [pc EXCEPT ![a] = "readpull"] /\ "readpull" \in Statements
      BY <2>4, OwnState DEF Goto, Statements
    <3>2. CallKept(a)
      BY <1>1, <3>1, CallStep
    <3> QED BY <1>2, <2>3, <3>2, TypeStep
  <2>5. CASE Ends(a)
    <3>1. CallKept(a)
      BY <1>1, <2>5, NoOpIsOp, CallStep DEF Statements, Ends, Goto
    <3> QED BY <1>2, <2>3, <3>1, TypeStep
  <2> QED BY <1>7, <2>4, <2>5 DEF WriteFunction
<1>8. CASE WritePull(a)
  <2>1. PUP_PDN' \in [Pins -> 0 .. 2]
    <3> DEFINE new == [op[a].copy EXCEPT ![p] = op[a].pull]
    <3>1. PUP_PDN' = WrittenBack(PUP_PDN, new)
      BY <1>8 DEF WritePull
    <3>2. \A q \in DOMAIN op[a].copy : op[a].copy[q] \in 0 .. 2
      BY <1>8 DEF WritePull, GpioTypeOK, OwnPins
    <3>3. op[a].pull \in 0 .. 2
      BY OwnState
    <3>4. DOMAIN new = DOMAIN op[a].copy /\ \A q \in DOMAIN new : new[q] \in 0 .. 2
      BY <3>2, <3>3
    <3> HIDE DEF new
    <3> QED BY <3>1, <3>4 DEF WrittenBack, GpioTypeOK
  <2>2. pullExposed' \in SUBSET Pins /\ UNCHANGED <<GPFSEL, functionExposed>>
    BY <1>4, <1>8 DEF WritePull, GpioTypeOK
  <2>3. RegistersKept
    BY <1>1, <2>1, <2>2 DEF RegistersKept, GpioTypeOK
  <2>4. CallKept(a)
    BY <1>1, <1>8, NoOpIsOp, CallStep DEF WritePull, Statements, Ends, Goto
  <2> QED BY <1>2, <2>3, <2>4, TypeStep
<1> QED BY <1>5, <1>6, <1>7, <1>8

\* GpioSet, with a level or to toggle, and what its toggling stores.
LEMMA GpioSetType ==
  ASSUME GpioTypeOK, NEW a \in Actors,
         \/ \E p \in Pins, v \in {0, 1} : GpioSet(a, p, v)
         \/ \E p \in Pins : GpioSetToggle(a, p)
         \/ GpioSetStore(a)
  PROVE  GpioTypeOK' /\ Undisturbed(a)
<1>1. /\ UNCHANGED <<GPFSEL, PUP_PDN, regs, object, setupHistory>>
      /\ regs' \in SUBSET Actors /\ UNCHANGED asked
  BY DEF GpioSet, GpioSetToggle, GpioSetStore, chip, setupHistory, GpioTypeOK
<1>2. RegistersKept
  BY <1>1, NothingKept
<1>3. ASSUME NEW p \in Pins, NEW v \in {0, 1}, GpioSet(a, p, v)
      PROVE  CallKept(a) /\ LevelsKept(a)
  <2>1. Owner[p] = a /\ op' = op /\ pc[a] = "idle"
    BY <1>3 DEF GpioSet, Mine
  <2>2. CASE Store(p, v) /\ AskLevel(p, v) /\ UNCHANGED pc
    <3>1. CallKept(a)
      BY <1>1, <2>1, <2>2, CallStays
    <3> QED BY <1>1, <2>1, <2>2, <3>1, AskStep DEF Store
  <2>3. CASE Goto(a, "dead") /\ UNCHANGED <<latch, levelHistory>>
    <3>1. CallKept(a)
      BY <1>1, <2>1, <2>3, CallStays
    <3> QED BY <1>1, <2>3, <3>1, NothingKept
  <2> QED BY <1>3, <2>2, <2>3 DEF GpioSet
<1>4. ASSUME NEW p \in Pins, GpioSetToggle(a, p)
      PROVE  CallKept(a) /\ LevelsKept(a)
  <2>1. Owner[p] = a /\ UNCHANGED latch
    BY <1>4 DEF GpioSetToggle, Mine, chip
  <2>2. ASSUME NEW v \in {0, 1}, Goto(a, "gpioset"), AskToggle(p, FALSE),
               op' = [op EXCEPT ![a] = [NoOp EXCEPT !.pin = p, !.level = v]]
        PROVE  CallKept(a) /\ LevelsKept(a)
    <3> DEFINE x == [NoOp EXCEPT !.pin = p, !.level = v]
    <3>1. x \in Ops /\ x.pin = p
      BY NoOpIsOp DEF Ops, NoOp
    <3> HIDE DEF x
    <3>2. CallKept(a)
      BY <1>1, <2>1, <2>2, <3>1, CallStep DEF Goto, Statements, x
    <3> QED BY <1>1, <2>1, <2>2, <3>2, AskStep
  <2>3. CASE Goto(a, "dead") /\ UNCHANGED <<op, levelHistory>>
    <3>1. CallKept(a)
      BY <1>1, <2>3, CallStays
    <3> QED BY <1>1, <2>1, <2>3, <3>1, NothingKept
  <2> QED BY <1>4, <2>2, <2>3 DEF GpioSetToggle
<1>5. CASE GpioSetStore(a)
  <2>1. /\ latch' = [latch EXCEPT ![op[a].pin] = 1 - op[a].level]
        /\ UNCHANGED levelHistory /\ Ends(a) /\ pc[a] = "gpioset"
    BY <1>5 DEF GpioSetStore, Store
  <2>2. op[a].pin \in Pins /\ Owner[op[a].pin] = a /\ 1 - op[a].level \in {0, 1}
    BY <2>1, OwnState
  <2>3. CallKept(a)
    BY <1>1, <2>1, NoOpIsOp, CallStep DEF Ends, Goto, Statements
  <2>4. LevelsKept(a)
    BY <1>1, <2>1, <2>2, AskStep DEF levelHistory
  <2> QED BY <1>2, <2>3, <2>4, TypeStep
<1> QED BY <1>2, <1>3, <1>4, <1>5, TypeStep

\* Assign leads the pointers to the process's own pin, or leaves them.
LEMMA AssignType ==
  ASSUME GpioTypeOK, NEW a \in Actors, NEW n \in Int, NEW b \in BOOLEAN, Assign(a, n, b)
  PROVE  GpioTypeOK' /\ Undisturbed(a)
<1> DEFINE valid == a \in regs' /\ n \in Pins
           o == [pinnum |-> n % 256, inverted |-> b, regs |-> valid,
                 target |-> IF valid THEN Target(n, b) ELSE object[a].target]
<1>1. /\ pc[a] = "idle" /\ (n \in Pins => Owner[n] = a)
      /\ UNCHANGED <<chip, pc, op, setupHistory, levelHistory>>
      /\ regs' \in SUBSET Actors
  BY DEF Assign, AssignWithin, Mine, GetGpioRegs, GpioTypeOK
<1>2. object' = [object EXCEPT ![a] = o]
  BY DEF Assign, AssignWithin
<1>3. object[a] \in PinObjects /\ OwnPins(a)
  BY DEF GpioTypeOK
<1>4. n \in Pins => n % 256 = n
  BY GpioAssumption DEF Pins
<1>5. n % 256 \in 0 .. 255
  OBVIOUS
<1>6. /\ o \in PinObjects
      /\ o.target # NoTarget => Owner[o.target.pin] = a
      /\ o.regs => o.target = Target(o.pinnum, o.inverted)
  <2>1. CASE valid
    <3>1. Target(n, b) \in [pin : Pins, on : {0, 1}] /\ Target(n, b).pin = n
      BY <2>1 DEF Target
    <3> QED BY <1>1, <1>4, <1>5, <2>1, <3>1 DEF PinObjects
  <2>2. CASE ~valid
    BY <1>3, <1>5, <2>2 DEF PinObjects, OwnPins
  <2> QED BY <2>1, <2>2
<1> HIDE DEF o
<1>7. /\ object' \in [Actors -> PinObjects] /\ object'[a] = o
      /\ \A c \in Actors \ {a} : pc'[c] = pc[c] /\ op'[c] = op[c] /\ object'[c] = object[c]
  BY <1>1, <1>2, <1>6 DEF GpioTypeOK
<1>8. \A c \in Actors : OwnPins(c)'
  BY <1>1, <1>6, <1>7 DEF OwnPins, GpioTypeOK
<1>9. CallKept(a)
  BY <1>1, <1>7, <1>8 DEF CallKept, GpioTypeOK
<1> QED BY <1>1, <1>9, NothingKept, TypeStep DEF chip, setupHistory

\* A null pointer ends the process.
LEMMA NullPointerType ==
  ASSUME GpioTypeOK, NEW a \in Actors, NullPointer(a)
  PROVE  GpioTypeOK' /\ Undisturbed(a)
<1>1. /\ Goto(a, "dead") /\ regs' \in SUBSET Actors
      /\ UNCHANGED <<chip, regs, object, op, setupHistory, levelHistory>>
  BY DEF NullPointer, GpioTypeOK
<1>2. CallKept(a)
  BY <1>1, CallStays
<1> QED BY <1>1, <1>2, NothingKept, TypeStep DEF chip, setupHistory

\* SetTo stores to the pin the pointers lead to.
LEMMA SetToType ==
  ASSUME GpioTypeOK, NEW a \in Actors, NEW v \in {0, 1}, SetTo(a, v)
  PROVE  GpioTypeOK' /\ Undisturbed(a)
<1> DEFINE o == object[a]
<1>1. /\ o.target # NoTarget /\ regs' \in SUBSET Actors
      /\ UNCHANGED <<GPFSEL, PUP_PDN, regs, object, pc, op, setupHistory>>
      /\ pc[a] = "idle"
  BY DEF SetTo, GpioTypeOK
<1>2. o.target.pin \in Pins /\ Owner[o.target.pin] = a /\ o.target.on \in {0, 1}
      /\ o.inverted \in BOOLEAN
  BY <1>1, OwnState
<1>3. \E w \in {0, 1} : latch' = [latch EXCEPT ![o.target.pin] = w]
  <2>1. (IF v = 1 THEN o.target.on ELSE 1 - o.target.on) \in {0, 1}
    BY <1>2
  <2> QED BY <2>1 DEF SetTo, Store
<1>4. \/ \E w \in {0, 1} : AskLevel(o.target.pin, w)
      \/ UNCHANGED driven /\ astray' = astray \cup {o.target.pin}
  <2>1. CASE o.regs
    <3>1. AskLevel(o.target.pin, IF o.inverted THEN 1 - v ELSE v)
      BY <2>1, DrivenPin DEF SetTo
    <3>2. (IF o.inverted THEN 1 - v ELSE v) \in {0, 1}
      OBVIOUS
    <3> QED BY <3>1, <3>2
  <2> QED BY <2>1 DEF SetTo
<1> HIDE DEF o
<1>5. UNCHANGED asked
  BY <1>1 DEF setupHistory
<1>6. LevelsKept(a)
  BY <1>2, <1>3, <1>4, <1>5, AskStep
<1>7. CallKept(a)
  BY <1>1, CallStays
<1> QED BY <1>1, <1>6, <1>7, NothingKept, TypeStep

\* Toggle reads a level of the pin that it is going to store to, and does.
LEMMA ToggleType ==
  ASSUME GpioTypeOK, NEW a \in Actors, Toggle(a) \/ ToggleStore(a)
  PROVE  GpioTypeOK' /\ Undisturbed(a)
<1>1. /\ UNCHANGED <<GPFSEL, PUP_PDN, regs, object, setupHistory>> /\ UNCHANGED asked
      /\ regs' \in SUBSET Actors
  BY DEF Toggle, ToggleStore, chip, setupHistory, GpioTypeOK
<1>2. RegistersKept
  BY <1>1, NothingKept
<1>3. CASE Toggle(a)
  <2> DEFINE p == object[a].target.pin
             certain == object[a].regs /\ ~object[a].inverted /\ GPFSEL[p] = 1
  <2>1. /\ p \in Pins /\ Owner[p] = a /\ UNCHANGED latch /\ Goto(a, "toggle")
        /\ AskToggle(p, certain) /\ certain \in BOOLEAN
    BY <1>3, OwnState DEF Toggle, chip
  <2>2. PICK v \in Levels(p) : op' = [op EXCEPT ![a] = [NoOp EXCEPT !.pin = p, !.level = v]]
    BY <1>3 DEF Toggle
  <2>3. v \in {0, 1}
    BY <2>1, <2>2 DEF Levels, GpioTypeOK
  <2> DEFINE x == [NoOp EXCEPT !.pin = p, !.level = v]
  <2>4. x \in Ops /\ x.pin = p /\ op' = [op EXCEPT ![a] = x]
    BY <2>1, <2>2, <2>3, NoOpIsOp DEF Ops, NoOp
  <2> HIDE DEF x, p, certain
  <2>5. CallKept(a)
    BY <1>1, <2>1, <2>4, CallStep DEF Goto, Statements
  <2>6. LevelsKept(a)
    BY <1>1, <2>1, AskStep
  <2> QED BY <1>2, <2>5, <2>6, TypeStep
<1>4. CASE ToggleStore(a)
  <2> DEFINE w == IF op[a].level = 1 THEN 1 - object[a].target.on ELSE object[a].target.on
  <2>1. /\ latch' = [latch EXCEPT ![op[a].pin] = w]
        /\ UNCHANGED levelHistory /\ Ends(a) /\ pc[a] = "toggle"
    BY <1>4 DEF ToggleStore, Store
  <2>2. op[a].pin \in Pins /\ Owner[op[a].pin] = a /\ w \in {0, 1}
    BY <2>1, OwnState
  <2> HIDE DEF w
  <2>3. CallKept(a)
    BY <1>1, <2>1, NoOpIsOp, CallStep DEF Ends, Goto, Statements
  <2>4. LevelsKept(a)
    BY <1>1, <2>1, <2>2, AskStep DEF levelHistory
  <2> QED BY <1>2, <2>3, <2>4, TypeStep
<1> QED BY <1>3, <1>4

\* SwitchDirection begins to set the function of the object's pin, or is fatal.
LEMMA SwitchDirectionType ==
  ASSUME GpioTypeOK, NEW a \in Actors, NEW v \in {0, 1}, SwitchDirection(a, v)
  PROVE  GpioTypeOK' /\ Undisturbed(a)
<1> DEFINE p == object[a].pinnum
           x == [NoOp EXCEPT !.pin = p, !.sel = v % 2, !.copy = FselRegister(p)]
           w == [asked[p] EXCEPT !.sel = v % 2]
<1>1. /\ UNCHANGED <<GPFSEL, PUP_PDN, latch, regs, object, levelHistory>>
      /\ regs' \in SUBSET Actors
  BY DEF SwitchDirection, chip, GpioTypeOK
<1>2. CASE object[a].regs /\ AskSetup(p, w) /\ op' = [op EXCEPT ![a] = x]
           /\ Goto(a, "writedirection")
  <2>1. p \in Pins /\ Owner[p] = a
    BY <1>2, DrivenPin
  <2>2. v % 2 \in 0 .. 9
    OBVIOUS
  <2>3. x \in Ops /\ x.pin = p
    <3>1. FselRegister(p) \in Copies /\ NoOp \in Ops
      BY <2>1, RegistersAreCopies, NoOpIsOp
    <3> HIDE DEF p
    <3> QED BY <2>1, <2>2, <3>1 DEF Ops
  <2>4. w \in [sel : 0 .. 9, pull : 0 .. 2] /\ w.sel \in 0 .. 9
    <3>1. asked[p] \in [sel : 0 .. 9, pull : 0 .. 2]
      BY <2>1 DEF GpioTypeOK
    <3> QED BY <2>2, <3>1
  <2> HIDE DEF x, w, p
  <2>5. /\ asked' = [asked EXCEPT ![p] = w] /\ past' = [past EXCEPT ![p] = @ \cup {w.sel}]
        /\ UNCHANGED <<functionExposed, pullExposed>>
    BY <1>2 DEF AskSetup
  <2>6. RegistersKept
    BY <1>1, <2>1, <2>4, <2>5 DEF RegistersKept, GpioTypeOK
  <2>7. LevelsKept(a)
    BY <1>1, <2>1, <2>4, <2>5, LevelsStep DEF levelHistory
  <2>8. CallKept(a)
    BY <1>1, <1>2, <2>1, <2>3, CallStep DEF Goto, Statements
  <2> QED BY <2>6, <2>7, <2>8, TypeStep
<1>3. CASE Goto(a, "dead") /\ UNCHANGED <<op, setupHistory>>
  <2>1. CallKept(a)
    BY <1>1, <1>3, CallStays
  <2>2. LevelsKept(a) /\ RegistersKept
    BY <1>1, <1>3, NothingKept DEF setupHistory
  <2> QED BY <2>1, <2>2, TypeStep
<1> QED BY <1>2, <1>3 DEF SwitchDirection

\* Every call and every step of a process keeps the types.
LEMMA ActorType ==
  ASSUME GpioTypeOK, NEW a \in Actors, PinCalls(a) \/ PinSteps(a)
  PROVE  GpioTypeOK' /\ Undisturbed(a)
<1>1. CASE PinSteps(a)
  BY <1>1, SetupStepType, GpioSetType, ToggleType DEF PinSteps
<1>2. CASE PinCalls(a)
  <2>1. AssignArgs[a] \subseteq Int /\ SetArgs[a] \subseteq Pins
    BY GpioAssumption
  <2>2. ASSUME NEW n, NEW f \in Flags[a], PinSetup(a, n, f)
        PROVE  GpioTypeOK' /\ Undisturbed(a)
    BY <2>2, PinSetupType
  <2> QED BY <1>2, <2>1, <2>2, GpioSetType, AssignType, SetToType, SwitchDirectionType,
             ToggleType, NullPointerType DEF PinCalls, Setup
<1> QED BY <1>1, <1>2

\* The types hold.
LEMMA TypeInvariant == GpioSpec => []GpioTypeOK
<1>1. GpioInit => GpioTypeOK
  <2> SUFFICES ASSUME GpioInit PROVE GpioTypeOK
    OBVIOUS
  <2>1. FreshPin \in PinObjects /\ ~FreshPin.regs /\ FreshPin.target = NoTarget
    BY DEF FreshPin, PinObjects
  <2>2. \A a \in Actors : OwnPins(a)
    BY <2>1 DEF GpioInit, OwnPins
  <2>3. [sel |-> 0, pull |-> 0] \in [sel : 0 .. 9, pull : 0 .. 2]
    OBVIOUS
  <2> QED BY <2>1, <2>2, <2>3, NoOpIsOp DEF GpioInit, GpioTypeOK, Statements
<1>2. GpioTypeOK /\ [GpioNext]_gpioVars => GpioTypeOK'
  <2> SUFFICES ASSUME GpioTypeOK, [GpioNext]_gpioVars PROVE GpioTypeOK'
    OBVIOUS
  <2>1. CASE GpioNext
    BY <2>1, ActorType DEF GpioNext
  <2>2. CASE UNCHANGED gpioVars
    BY <2>2 DEF gpioVars, chip, setupHistory, levelHistory, GpioTypeOK, OwnPins
  <2> QED BY <2>1, <2>2
<1> QED BY <1>1, <1>2, PTL DEF GpioSpec

-----------------------------------------------------------------------------
(* Set-ups.                                                                *)

\* Process a holds a copy of a register of functions, or of pulls.
HasFunctions(a) == pc[a] \in {"writefunction", "writedirection"}
HasPulls(a) == pc[a] = "writepull"

\* What pin p was asked for is what SetupKept says it has.
FunctionKnown(p) == ~FunctionPending(p) /\ p \notin functionExposed
PullKnown(p) == ~PullPending(p) /\ p \notin pullExposed

\* A copy is stale at most for pins whose set-up is not known to be kept: a
\* process that wrote while process a held its copy exposed its pin.
FunctionCopied(a) ==
  HasFunctions(a) =>
    /\ DOMAIN op[a].copy = FselMates(op[a].pin)
    /\ \A q \in FselMates(op[a].pin) \ {op[a].pin} :
         FunctionKnown(q) => op[a].copy[q] = asked[q].sel
PullCopied(a) ==
  HasPulls(a) =>
    /\ DOMAIN op[a].copy = PullMates(op[a].pin)
    /\ \A q \in PullMates(op[a].pin) \ {op[a].pin} :
         PullKnown(q) => op[a].copy[q] = asked[q].pull

\* A set-up goes to write what was asked for.
SetupAt(a) ==
  LET p == op[a].pin
  IN  /\ pc[a] \in {"readfunction", "writefunction", "writedirection"} =>
           op[a].sel = asked[p].sel
      /\ pc[a] \in {"readfunction", "writefunction", "readpull", "writepull"} =>
           op[a].pull = asked[p].pull

FunctionKept == \A p \in Pins : FunctionKnown(p) => GPFSEL[p] = asked[p].sel
PullKept == \A p \in Pins : PullKnown(p) => PUP_PDN[p] = asked[p].pull

\* The inductive invariant behind SetupKept.
SetupInv ==
  /\ FunctionKept /\ PullKept
  /\ \A a \in Actors : SetupAt(a) /\ FunctionCopied(a) /\ PullCopied(a)

\* A pin is pending while its own process is at it, whatever others do.
LEMMA Pending ==
  ASSUME GpioTypeOK, GpioTypeOK', NEW a \in Actors, Undisturbed(a), NEW q \in Pins
  PROVE  /\ Owner[q] # a => /\ FunctionPending(q)' <=> FunctionPending(q)
                            /\ PullPending(q)' <=> PullPending(q)
         /\ Owner[q] = a => /\ FunctionPending(q) <=>
                                 pc[a] \in {"readfunction", "writefunction", "writedirection"}
                                 /\ op[a].pin = q
                            /\ FunctionPending(q)' <=>
                                 pc'[a] \in {"readfunction", "writefunction", "writedirection"}
                                 /\ op'[a].pin = q
                            /\ PullPending(q) <=>
                                 pc[a] \in {"readfunction", "writefunction", "readpull", "writepull"}
                                 /\ op[a].pin = q
                            /\ PullPending(q)' <=>
                                 pc'[a] \in {"readfunction", "writefunction", "readpull", "writepull"}
                                 /\ op'[a].pin = q
<1>1. Owner[q] \in Actors
  BY GpioAssumption
<1> QED BY <1>1 DEF FunctionPending, PullPending, At, Undisturbed

\* Functions stay known when no register of functions is written: a pin is only
\* known afterwards if it was before, and new copies are true ones.
LEMMA FunctionsStay ==
  ASSUME GpioTypeOK, GpioTypeOK', SetupInv, UNCHANGED GPFSEL,
         \A q \in Pins : FunctionKnown(q)' => FunctionKnown(q) /\ asked'[q].sel = asked[q].sel,
         \A b \in Actors : HasFunctions(b)' =>
           \/ HasFunctions(b) /\ op'[b].pin = op[b].pin /\ op'[b].copy = op[b].copy
           \/ op'[b].copy = FselRegister(op'[b].pin)
  PROVE  FunctionKept' /\ \A b \in Actors : FunctionCopied(b)'
<1>1. FunctionKept'
  BY DEF FunctionKept, SetupInv
<1>2. ASSUME NEW b \in Actors, HasFunctions(b)'
      PROVE  /\ DOMAIN op'[b].copy = FselMates(op'[b].pin)
             /\ \A q \in FselMates(op'[b].pin) \ {op'[b].pin} :
                  FunctionKnown(q)' => op'[b].copy[q] = asked'[q].sel
  <2>1. op'[b].pin \in Pins
    BY DEF GpioTypeOK, Ops
  <2>2. FselMates(op'[b].pin) \subseteq Pins
    BY DEF FselMates
  <2>3. CASE HasFunctions(b) /\ op'[b].pin = op[b].pin /\ op'[b].copy = op[b].copy
    BY <2>2, <2>3 DEF SetupInv, FunctionCopied
  <2>4. CASE op'[b].copy = FselRegister(op'[b].pin)
    <3>1. /\ DOMAIN FselRegister(op'[b].pin) = FselMates(op'[b].pin)
          /\ \A q \in FselMates(op'[b].pin) : FselRegister(op'[b].pin)[q] = GPFSEL[q]
      BY <2>1, RegistersAreCopies
    <3> QED BY <1>1, <2>2, <2>4, <3>1 DEF FunctionKept
  <2> QED BY <1>2, <2>3, <2>4
<1>3. \A b \in Actors : FunctionCopied(b)'
  BY <1>2 DEF FunctionCopied, FselMates
<1> QED BY <1>1, <1>3

\* The same for pulls.
LEMMA PullsStay ==
  ASSUME GpioTypeOK, GpioTypeOK', SetupInv, UNCHANGED PUP_PDN,
         \A q \in Pins : PullKnown(q)' => PullKnown(q) /\ asked'[q].pull = asked[q].pull,
         \A b \in Actors : HasPulls(b)' =>
           \/ HasPulls(b) /\ op'[b].pin = op[b].pin /\ op'[b].copy = op[b].copy
           \/ op'[b].copy = PullRegister(op'[b].pin)
  PROVE  PullKept' /\ \A b \in Actors : PullCopied(b)'
<1>1. PullKept'
  BY DEF PullKept, SetupInv
<1>2. ASSUME NEW b \in Actors, HasPulls(b)'
      PROVE  /\ DOMAIN op'[b].copy = PullMates(op'[b].pin)
             /\ \A q \in PullMates(op'[b].pin) \ {op'[b].pin} :
                  PullKnown(q)' => op'[b].copy[q] = asked'[q].pull
  <2>1. op'[b].pin \in Pins
    BY DEF GpioTypeOK, Ops
  <2>2. PullMates(op'[b].pin) \subseteq Pins
    BY DEF PullMates
  <2>3. CASE HasPulls(b) /\ op'[b].pin = op[b].pin /\ op'[b].copy = op[b].copy
    BY <2>2, <2>3 DEF SetupInv, PullCopied
  <2>4. CASE op'[b].copy = PullRegister(op'[b].pin)
    <3>1. /\ DOMAIN PullRegister(op'[b].pin) = PullMates(op'[b].pin)
          /\ \A q \in PullMates(op'[b].pin) : PullRegister(op'[b].pin)[q] = PUP_PDN[q]
      BY <2>1, RegistersAreCopies
    <3> QED BY <1>1, <2>2, <2>4, <3>1 DEF PullKept
  <2> QED BY <1>2, <2>3, <2>4
<1>3. \A b \in Actors : PullCopied(b)'
  BY <1>2 DEF PullCopied, PullMates
<1> QED BY <1>1, <1>3

\* The set-ups of others go on as they were.
LEMMA OtherSetups ==
  ASSUME GpioTypeOK, SetupInv, NEW a \in Actors, Undisturbed(a), NEW b \in Actors \ {a}
  PROVE  SetupAt(b)'
<1>1. pc'[b] = pc[b] /\ op'[b] = op[b]
  BY DEF Undisturbed
<1>2. pc[b] \notin {"idle", "dead"} => asked'[op[b].pin] = asked[op[b].pin]
  BY OwnState DEF Undisturbed
<1> QED BY <1>1, <1>2 DEF SetupInv, SetupAt

\* A call that has nothing to do with set-ups.
LEMMA QuietSetups ==
  ASSUME GpioTypeOK, GpioTypeOK', SetupInv, NEW a \in Actors, Undisturbed(a),
         UNCHANGED <<GPFSEL, PUP_PDN, setupHistory>>,
         pc[a] \in {"idle", "gpioset", "toggle"},
         pc'[a] \in {"idle", "gpioset", "toggle", "dead"}
  PROVE  SetupInv'
<1>1. \A q \in Pins : /\ FunctionKnown(q)' => FunctionKnown(q)
                      /\ PullKnown(q)' => PullKnown(q)
                      /\ asked'[q] = asked[q]
  BY Pending DEF FunctionKnown, PullKnown, setupHistory
<1>2. \A b \in Actors : /\ HasFunctions(b)' => HasFunctions(b) /\ op'[b] = op[b]
                        /\ HasPulls(b)' => HasPulls(b) /\ op'[b] = op[b]
  BY DEF HasFunctions, HasPulls, Undisturbed
<1>3. FunctionKept' /\ \A b \in Actors : FunctionCopied(b)'
  BY <1>1, <1>2, FunctionsStay
<1>4. PullKept' /\ \A b \in Actors : PullCopied(b)'
  BY <1>1, <1>2, PullsStay
<1>5. SetupAt(a)'
  BY DEF SetupAt
<1> QED BY <1>3, <1>4, <1>5, OtherSetups DEF SetupInv

\* A set-up of pin p begins: PinSetup and SwitchDirection.
LEMMA SetupBegins ==
  ASSUME GpioTypeOK, GpioTypeOK', SetupInv, NEW a \in Actors, Undisturbed(a),
         UNCHANGED <<GPFSEL, PUP_PDN, functionExposed, pullExposed>>,
         pc[a] = "idle", NEW p \in Pins, NEW w, asked' = [asked EXCEPT ![p] = w],
         Owner[p] = a, op'[a].pin = p, op'[a].sel = w.sel,
         \/ pc'[a] = "readfunction" /\ op'[a].pull = w.pull
         \/ /\ pc'[a] = "writedirection" /\ op'[a].copy = FselRegister(p)
            /\ w.pull = asked[p].pull
  PROVE  SetupInv'
<1>1. asked'[p] = w /\ \A q \in Pins : q # p => asked'[q] = asked[q]
  BY DEF GpioTypeOK
<1>2. \A q \in Pins : FunctionKnown(q)' => FunctionKnown(q) /\ asked'[q].sel = asked[q].sel
  <2> SUFFICES ASSUME NEW q \in Pins, FunctionKnown(q)'
               PROVE  FunctionKnown(q) /\ asked'[q].sel = asked[q].sel
    OBVIOUS
  <2>1. q # p
    BY Pending DEF FunctionKnown
  <2> QED BY <1>1, <2>1, Pending DEF FunctionKnown
<1>3. \A q \in Pins : PullKnown(q)' => PullKnown(q) /\ asked'[q].pull = asked[q].pull
  <2> SUFFICES ASSUME NEW q \in Pins, PullKnown(q)'
               PROVE  PullKnown(q) /\ asked'[q].pull = asked[q].pull
    OBVIOUS
  <2>1. q = p => pc'[a] = "writedirection"
    BY Pending DEF PullKnown
  <2> QED BY <1>1, <2>1, Pending DEF PullKnown
<1>4. \A b \in Actors :
        /\ HasFunctions(b)' => \/ HasFunctions(b) /\ op'[b] = op[b]
                               \/ op'[b].copy = FselRegister(op'[b].pin)
        /\ HasPulls(b)' => HasPulls(b) /\ op'[b] = op[b]
  BY DEF HasFunctions, HasPulls, Undisturbed
<1>5. FunctionKept' /\ \A b \in Actors : FunctionCopied(b)'
  BY <1>2, <1>4, FunctionsStay
<1>6. PullKept' /\ \A b \in Actors : PullCopied(b)'
  BY <1>3, <1>4, PullsStay
<1>7. SetupAt(a)'
  BY <1>1 DEF SetupAt
<1> QED BY <1>5, <1>6, <1>7, OtherSetups DEF SetupInv

\* Reading a register gives a true copy of it.
LEMMA ReadSetups ==
  ASSUME GpioTypeOK, GpioTypeOK', SetupInv, NEW a \in Actors, Undisturbed(a),
         ReadFunction(a) \/ ReadPull(a)
  PROVE  SetupInv'
<1> DEFINE p == op[a].pin
<1>1. UNCHANGED <<GPFSEL, PUP_PDN, setupHistory>> /\ op[a] \in Ops
  BY OwnState DEF ReadFunction, ReadPull, chip
<1>2. /\ op'[a].pin = p /\ op'[a].sel = op[a].sel /\ op'[a].pull = op[a].pull
      /\ ReadFunction(a) => op'[a].copy = FselRegister(p)
      /\ ReadPull(a) => op'[a].copy = PullRegister(p)
  BY <1>1 DEF ReadFunction, ReadPull, GpioTypeOK, Ops
<1>3. \/ ReadFunction(a) /\ pc[a] = "readfunction" /\ pc'[a] = "writefunction"
      \/ ReadPull(a) /\ pc[a] = "readpull" /\ pc'[a] = "writepull"
  BY DEF ReadFunction, ReadPull, Goto, GpioTypeOK
<1> HIDE DEF p
<1>4. \A q \in Pins : /\ FunctionKnown(q)' => FunctionKnown(q)
                      /\ PullKnown(q)' => PullKnown(q)
                      /\ asked'[q] = asked[q]
  BY <1>1, <1>2, <1>3, Pending DEF FunctionKnown, PullKnown, setupHistory, p
<1>5. \A b \in Actors :
        /\ HasFunctions(b)' => \/ HasFunctions(b) /\ op'[b] = op[b]
                               \/ op'[b].copy = FselRegister(op'[b].pin)
        /\ HasPulls(b)' => \/ HasPulls(b) /\ op'[b] = op[b]
                           \/ op'[b].copy = PullRegister(op'[b].pin)
  BY <1>2, <1>3 DEF HasFunctions, HasPulls, Undisturbed
<1>6. FunctionKept' /\ \A b \in Actors : FunctionCopied(b)'
  BY <1>1, <1>4, <1>5, FunctionsStay
<1>7. PullKept' /\ \A b \in Actors : PullCopied(b)'
  BY <1>1, <1>4, <1>5, PullsStay
<1>8. SetupAt(a)'
  <2>1. SetupAt(a)
    BY DEF SetupInv
  <2> QED BY <1>1, <1>2, <1>3, <2>1 DEF SetupAt, p, setupHistory
<1> QED BY <1>6, <1>7, <1>8, OtherSetups DEF SetupInv

\* Writing a register of functions: pins that are known afterwards are those of
\* true copies, and nobody who holds a copy has an old function of them.
LEMMA WriteFunctionSetups ==
  ASSUME GpioTypeOK, GpioTypeOK', SetupInv, NEW a \in Actors, Undisturbed(a),
         WriteFunction(a)
  PROVE  SetupInv'
<1> DEFINE p == op[a].pin
           sel == op[a].sel
           copy == op[a].copy
           new == SetFunction(copy, p, sel)
<1>1. /\ HasFunctions(a) /\ UNCHANGED <<PUP_PDN, asked, past, pullExposed>>
      /\ GPFSEL' = WrittenBack(GPFSEL, new)
      /\ functionExposed' = {q \in functionExposed : q # p} \cup Spoilt(a)
                              \cup {q \in {p} : FunctionRaced(a)}
  BY DEF WriteFunction, HasFunctions
<1>2. /\ pc[a] \in {"writefunction", "writedirection"} /\ Owner[p] = a /\ p \in Pins
      /\ sel \in 0 .. 9 /\ copy \in Copies
  BY <1>1, OwnState DEF HasFunctions
<1>3. \/ pc[a] = "writefunction" /\ pc'[a] = "readpull" /\ op'[a] = op[a]
      \/ pc[a] = "writedirection" /\ pc'[a] = "idle"
  BY DEF WriteFunction, Ends, Goto, GpioTypeOK
<1>4. /\ DOMAIN copy = FselMates(p) /\ p \in FselMates(p)
      /\ \A q \in FselMates(p) \ {p} : FunctionKnown(q) => copy[q] = asked[q].sel
  BY <1>1, <1>2 DEF SetupInv, FunctionCopied, FselMates
<1>5. /\ DOMAIN new = FselMates(p) /\ new[p] = sel % 8
      /\ \A q \in FselMates(p) : q # p /\ ~(sel >= 8 /\ q = p + 1) => new[q] = copy[q]
  <2> HIDE DEF p, sel, copy
  <2>1. /\ DOMAIN new = DOMAIN copy
        /\ p \in DOMAIN copy => new[p] = sel % 8
        /\ \A q \in DOMAIN copy : q # p /\ ~(sel >= 8 /\ q = p + 1) => new[q] = copy[q]
    BY <1>2, FunctionSet
  <2> HIDE DEF new
  <2> QED BY <1>4, <2>1
<1>6. sel = asked[p].sel
  <2>1. SetupAt(a)
    BY DEF SetupInv
  <2> QED BY <1>2, <2>1 DEF SetupAt
<1>7. ASSUME NEW q \in Pins, FunctionKnown(q)', q # p
      PROVE  /\ FunctionKnown(q)
             /\ q \in FselMates(p) => ~(sel >= 8 /\ q = p + 1)
  <2>1. q \notin functionExposed /\ q \notin Spoilt(a)
    BY <1>1, <1>7 DEF FunctionKnown
  <2>2. ~FunctionPending(q)
    BY <1>7, Pending DEF FunctionKnown
  <2> QED BY <1>4, <2>1, <2>2 DEF FunctionKnown, Spoilt
<1>8. ASSUME NEW q \in Pins, FunctionKnown(q)', q = p
      PROVE  sel % 8 = sel /\ ~FunctionRaced(a)
  <2>1. q \notin Spoilt(a) /\ ~FunctionRaced(a)
    BY <1>1, <1>8 DEF FunctionKnown
  <2>2. ~(sel >= 8)
    BY <1>4, <1>8, <2>1 DEF Spoilt
  <2> QED BY <1>2, <2>1, <2>2
<1> HIDE DEF p, sel, copy, new
<1>9. FunctionKept'
  <2> SUFFICES ASSUME NEW q \in Pins, FunctionKnown(q)' PROVE GPFSEL'[q] = asked[q].sel
    BY <1>1 DEF FunctionKept
  <2>1. GPFSEL'[q] = IF q \in FselMates(p) THEN new[q] ELSE GPFSEL[q]
    BY <1>1, <1>5 DEF WrittenBack
  <2>2. CASE q = p
    BY <1>4, <1>5, <1>6, <1>8, <2>1, <2>2
  <2>3. CASE q # p
    BY <1>4, <1>5, <1>7, <2>1, <2>3 DEF SetupInv, FunctionKept
  <2> QED BY <2>2, <2>3
<1>10. ASSUME NEW b \in Actors PROVE FunctionCopied(b)'
  <2> SUFFICES ASSUME HasFunctions(b)'
               PROVE  /\ DOMAIN op'[b].copy = FselMates(op'[b].pin)
                      /\ \A q \in FselMates(op'[b].pin) \ {op'[b].pin} :
                           FunctionKnown(q)' => op'[b].copy[q] = asked[q].sel
    BY <1>1 DEF FunctionCopied, FselMates
  <2>1. b # a /\ HasFunctions(b) /\ op'[b] = op[b]
    BY <1>3 DEF HasFunctions, Undisturbed
  <2>2. /\ DOMAIN op[b].copy = FselMates(op[b].pin)
        /\ \A q \in FselMates(op[b].pin) \ {op[b].pin} :
             FunctionKnown(q) => op[b].copy[q] = asked[q].sel
    BY <2>1 DEF SetupInv, FunctionCopied
  <2>3. p \in FselMates(op[b].pin) => FunctionRaced(a)
    BY <2>1 DEF FunctionRaced, HasFunctions, FselMates, p
  <2>4. \A q \in FselMates(op[b].pin) : q \in Pins
    BY DEF FselMates
  <2> QED BY <1>7, <1>8, <2>1, <2>2, <2>3, <2>4
<1>11. PullKept' /\ \A b \in Actors : PullCopied(b)'
  <2>1. \A q \in Pins : PullKnown(q)' => PullKnown(q)
    BY <1>1, <1>2, <1>3, Pending DEF PullKnown, p
  <2>2. \A b \in Actors : HasPulls(b)' => HasPulls(b) /\ op'[b] = op[b]
    BY <1>3 DEF HasPulls, Undisturbed
  <2> QED BY <1>1, <2>1, <2>2, PullsStay
<1>12. SetupAt(a)'
  <2>1. SetupAt(a)
    BY DEF SetupInv
  <2> QED BY <1>1, <1>3, <2>1 DEF SetupAt
<1> QED BY <1>9, <1>10, <1>11, <1>12, OtherSetups DEF SetupInv

\* Writing a register of pulls, of which each fits into its field.
LEMMA WritePullSetups ==
  ASSUME GpioTypeOK, GpioTypeOK', SetupInv, NEW a \in Actors, Undisturbed(a), WritePull(a)
  PROVE  SetupInv'
<1> DEFINE p == op[a].pin
           copy == op[a].copy
           new == [copy EXCEPT ![p] = op[a].pull]
<1>1. /\ HasPulls(a) /\ UNCHANGED <<GPFSEL, asked, past, functionExposed>>
      /\ PUP_PDN' = WrittenBack(PUP_PDN, new)
      /\ pullExposed' = {q \in pullExposed : q # p} \cup {q \in {p} : PullRaced(a)}
  BY DEF WritePull, HasPulls
<1>2. pc[a] = "writepull" /\ Owner[p] = a /\ p \in Pins /\ copy \in Copies
  BY <1>1, OwnState DEF HasPulls
<1>3. pc'[a] = "idle"
  BY DEF WritePull, Ends, Goto, GpioTypeOK
<1>4. /\ DOMAIN copy = PullMates(p) /\ p \in PullMates(p)
      /\ \A q \in PullMates(p) \ {p} : PullKnown(q) => copy[q] = asked[q].pull
  BY <1>1, <1>2 DEF SetupInv, PullCopied, PullMates
<1>5. /\ DOMAIN new = PullMates(p) /\ new[p] = asked[p].pull
      /\ \A q \in PullMates(p) \ {p} : new[q] = copy[q]
  <2>1. SetupAt(a)
    BY DEF SetupInv
  <2> QED BY <1>2, <1>4, <2>1 DEF SetupAt
<1>6. \A q \in Pins : PullKnown(q)' => \/ q # p /\ PullKnown(q)
                                       \/ q = p /\ ~PullRaced(a)
  <2> SUFFICES ASSUME NEW q \in Pins, PullKnown(q)', q # p PROVE PullKnown(q)
    BY <1>1 DEF PullKnown
  <2>1. q \notin pullExposed
    BY <1>1 DEF PullKnown
  <2> QED BY <2>1, Pending DEF PullKnown
<1> HIDE DEF p, copy, new
<1>7. PullKept'
  <2> SUFFICES ASSUME NEW q \in Pins, PullKnown(q)' PROVE PUP_PDN'[q] = asked[q].pull
    BY <1>1 DEF PullKept
  <2>1. PUP_PDN'[q] = IF q \in PullMates(p) THEN new[q] ELSE PUP_PDN[q]
    BY <1>1, <1>5 DEF WrittenBack
  <2> QED BY <1>4, <1>5, <1>6, <2>1 DEF SetupInv, PullKept
<1>8. ASSUME NEW b \in Actors PROVE PullCopied(b)'
  <2> SUFFICES ASSUME HasPulls(b)'
               PROVE  /\ DOMAIN op'[b].copy = PullMates(op'[b].pin)
                      /\ \A q \in PullMates(op'[b].pin) \ {op'[b].pin} :
                           PullKnown(q)' => op'[b].copy[q] = asked[q].pull
    BY <1>1 DEF PullCopied, PullMates
  <2>1. b # a /\ HasPulls(b) /\ op'[b] = op[b]
    BY <1>3 DEF HasPulls, Undisturbed
  <2>2. /\ DOMAIN op[b].copy = PullMates(op[b].pin)
        /\ \A q \in PullMates(op[b].pin) \ {op[b].pin} :
             PullKnown(q) => op[b].copy[q] = asked[q].pull
    BY <2>1 DEF SetupInv, PullCopied
  <2>3. p \in PullMates(op[b].pin) => PullRaced(a)
    BY <2>1 DEF PullRaced, HasPulls, PullMates, p
  <2>4. \A q \in PullMates(op[b].pin) : q \in Pins
    BY DEF PullMates
  <2> QED BY <1>6, <2>1, <2>2, <2>3, <2>4
<1>9. FunctionKept' /\ \A b \in Actors : FunctionCopied(b)'
  <2>1. \A q \in Pins : FunctionKnown(q)' => FunctionKnown(q)
    BY <1>1, <1>2, <1>3, Pending DEF FunctionKnown, p
  <2>2. \A b \in Actors : HasFunctions(b)' => HasFunctions(b) /\ op'[b] = op[b]
    BY <1>3 DEF HasFunctions, Undisturbed
  <2> QED BY <1>1, <2>1, <2>2, FunctionsStay
<1>10. SetupAt(a)'
  BY <1>3 DEF SetupAt
<1> QED BY <1>7, <1>8, <1>9, <1>10, OtherSetups DEF SetupInv

\* A step that has nothing to do with set-ups, and PinSetup when it begins one.
IsQuiet(a) ==
  /\ UNCHANGED <<GPFSEL, PUP_PDN, setupHistory>>
  /\ pc[a] \in {"idle", "gpioset", "toggle"}
  /\ pc'[a] \in {"idle", "gpioset", "toggle", "dead"}
BeginsSetup(a, n, f) ==
  /\ pc[a] = "idle" /\ Owner[n] = a /\ Goto(a, "readfunction")
  /\ UNCHANGED <<GPFSEL, PUP_PDN, object>>
  /\ AskSetup(n, [sel |-> Select(f), pull |-> f.pull])
  /\ AskLevel(n, f.init) /\ Store(n, f.init)
  /\ op' = [op EXCEPT ![a] = [NoOp EXCEPT
       !.pin = n, !.sel = Select(f), !.pull = f.pull, !.level = f.init]]

\* What a step of a process is, as far as set-ups go.
LEMMA QuietCalls ==
  ASSUME GpioTypeOK, NEW a \in Actors, PinCalls(a) \/ PinSteps(a)
  PROVE  \/ IsQuiet(a)
         \/ ReadFunction(a) \/ WriteFunction(a) \/ ReadPull(a) \/ WritePull(a)
         \/ \E n \in Pins, f \in Flags[a] : BeginsSetup(a, n, f)
         \/ \E v \in {0, 1} : /\ SwitchDirection(a, v) /\ Goto(a, "writedirection")
                              /\ object[a].regs
<1>1. ASSUME NEW n, NEW f \in Flags[a], PinSetup(a, n, f)
      PROVE  \/ UNCHANGED <<GPFSEL, PUP_PDN, setupHistory, pc>> /\ pc[a] = "idle"
             \/ n \in Pins /\ BeginsSetup(a, n, f)
  BY <1>1 DEF PinSetup, PinSetupStoring, BeginsSetup, Mine
<1>2. ASSUME NEW p, NEW v, GpioSet(a, p, v)
      PROVE  /\ UNCHANGED <<GPFSEL, PUP_PDN, setupHistory>> /\ pc[a] = "idle"
             /\ UNCHANGED pc \/ Goto(a, "dead")
  BY <1>2 DEF GpioSet
<1>3. ASSUME NEW p, GpioSetToggle(a, p)
      PROVE  /\ UNCHANGED <<GPFSEL, PUP_PDN, setupHistory>> /\ pc[a] = "idle"
             /\ Goto(a, "gpioset") \/ Goto(a, "dead")
  BY <1>3 DEF GpioSetToggle, chip
<1>4. ASSUME NEW v, SwitchDirection(a, v)
      PROVE  \/ /\ UNCHANGED <<GPFSEL, PUP_PDN, setupHistory>> /\ pc[a] = "idle"
                /\ Goto(a, "dead")
             \/ Goto(a, "writedirection") /\ object[a].regs
  BY <1>4 DEF SwitchDirection, chip
<1>5. ASSUME \/ Toggle(a) \/ NullPointer(a) \/ GpioSetStore(a) \/ ToggleStore(a)
             \/ \E n, b : Assign(a, n, b)
             \/ \E v : SetTo(a, v)
      PROVE  /\ UNCHANGED <<GPFSEL, PUP_PDN, setupHistory>>
             /\ pc[a] \in {"idle", "gpioset", "toggle"}
             /\ UNCHANGED pc \/ Goto(a, "toggle") \/ Goto(a, "dead") \/ Goto(a, "idle")
  BY <1>5 DEF Toggle, NullPointer, GpioSetStore, ToggleStore, Assign, AssignWithin, SetTo,
              Ends, chip
<1>6. /\ UNCHANGED pc => pc'[a] = pc[a]
      /\ \A at : Goto(a, at) => pc'[a] = at
  BY DEF Goto, GpioTypeOK
<1>7. CASE \E n : \E f \in Flags[a] : PinSetup(a, n, f)
  BY <1>1, <1>6, <1>7 DEF IsQuiet
<1>8. CASE \E p \in Pins : \E v : GpioSet(a, p, v)
  BY <1>2, <1>6, <1>8 DEF IsQuiet
<1>9. CASE \E p \in Pins : GpioSetToggle(a, p)
  BY <1>3, <1>6, <1>9 DEF IsQuiet
<1>10. CASE \E v \in {0, 1} : SwitchDirection(a, v)
  BY <1>4, <1>6, <1>10 DEF IsQuiet
<1>11. CASE \/ Toggle(a) \/ NullPointer(a) \/ GpioSetStore(a) \/ ToggleStore(a)
            \/ \E n, b : Assign(a, n, b)
            \/ \E v : SetTo(a, v)
  BY <1>5, <1>6, <1>11 DEF IsQuiet
<1>12. SetArgs[a] \subseteq Pins
  BY GpioAssumption
<1>13. CASE PinSteps(a)
  BY <1>11, <1>13 DEF PinSteps
<1>14. CASE PinCalls(a)
  <2>1. \/ \E n : \E f \in Flags[a] : PinSetup(a, n, f)
        \/ \E p \in Pins : \E v : GpioSet(a, p, v)
        \/ \E p \in Pins : GpioSetToggle(a, p)
        \/ \E n, b : Assign(a, n, b)
        \/ \E v : SetTo(a, v)
        \/ \E v \in {0, 1} : SwitchDirection(a, v)
        \/ Toggle(a) \/ NullPointer(a)
    BY <1>12, <1>14 DEF PinCalls, Setup
  <2> QED BY <1>7, <1>8, <1>9, <1>10, <1>11, <2>1
<1> QED BY <1>13, <1>14

\* Every step keeps the invariant of set-ups.
LEMMA SetupStep ==
  ASSUME GpioTypeOK, SetupInv, NEW a \in Actors, PinCalls(a) \/ PinSteps(a)
  PROVE  SetupInv'
<1>1. GpioTypeOK' /\ Undisturbed(a)
  BY ActorType
<1>2. CASE IsQuiet(a)
  BY <1>1, <1>2, QuietSetups DEF IsQuiet
<1>3. CASE ReadFunction(a) \/ ReadPull(a)
  BY <1>1, <1>3, ReadSetups
<1>4. CASE WriteFunction(a)
  BY <1>1, <1>4, WriteFunctionSetups
<1>5. CASE WritePull(a)
  BY <1>1, <1>5, WritePullSetups
<1>6. ASSUME NEW n \in Pins, NEW f \in Flags[a], BeginsSetup(a, n, f)
      PROVE  SetupInv'
  <2> DEFINE w == [sel |-> Select(f), pull |-> f.pull]
  <2>1. /\ op'[a].pin = n /\ op'[a].sel = w.sel /\ op'[a].pull = w.pull
        /\ pc'[a] = "readfunction"
    BY <1>6 DEF BeginsSetup, Goto, NoOp, GpioTypeOK
  <2>2. /\ asked' = [asked EXCEPT ![n] = w] /\ Owner[n] = a /\ pc[a] = "idle"
        /\ UNCHANGED <<GPFSEL, PUP_PDN, functionExposed, pullExposed>>
    BY <1>6 DEF BeginsSetup, AskSetup
  <2> HIDE DEF w
  <2> QED BY <1>1, <2>1, <2>2, SetupBegins
<1>7. ASSUME NEW v \in {0, 1}, SwitchDirection(a, v), Goto(a, "writedirection"), object[a].regs
      PROVE  SetupInv'
  <2> DEFINE p == object[a].pinnum
             w == [asked[p] EXCEPT !.sel = v % 2]
  <2>1. p \in Pins /\ Owner[p] = a
    BY <1>7, DrivenPin
  <2>2. /\ pc[a] = "idle" /\ UNCHANGED <<GPFSEL, PUP_PDN, functionExposed, pullExposed>>
        /\ asked' = [asked EXCEPT ![p] = w] /\ pc'[a] = "writedirection"
        /\ op' = [op EXCEPT ![a] =
             [NoOp EXCEPT !.pin = p, !.sel = v % 2, !.copy = FselRegister(p)]]
    BY <1>7 DEF SwitchDirection, AskSetup, Goto, chip, GpioTypeOK
  <2>3. op'[a].pin = p /\ op'[a].sel = v % 2 /\ op'[a].copy = FselRegister(p)
    BY <2>2 DEF NoOp, GpioTypeOK
  <2>4. w.sel = v % 2 /\ w.pull = asked[p].pull
    BY <2>1 DEF GpioTypeOK
  <2> HIDE DEF w, p
  <2> QED BY <1>1, <2>1, <2>2, <2>3, <2>4, SetupBegins
<1> QED BY <1>2, <1>3, <1>4, <1>5, <1>6, <1>7, QuietCalls

\* The invariant of set-ups holds.
LEMMA SetupInvariant == GpioSpec => []SetupInv
<1>1. GpioInit => SetupInv
  <2> SUFFICES ASSUME GpioInit PROVE SetupInv
    OBVIOUS
  <2>1. FunctionKept /\ PullKept
    BY DEF GpioInit, FunctionKept, PullKept
  <2>2. \A a \in Actors : SetupAt(a) /\ FunctionCopied(a) /\ PullCopied(a)
    BY DEF GpioInit, SetupAt, FunctionCopied, PullCopied, HasFunctions, HasPulls
  <2> QED BY <2>1, <2>2 DEF SetupInv
<1>2. GpioTypeOK /\ SetupInv /\ [GpioNext]_gpioVars => SetupInv'
  <2> SUFFICES ASSUME GpioTypeOK, SetupInv, [GpioNext]_gpioVars PROVE SetupInv'
    OBVIOUS
  <2>1. CASE GpioNext
    BY <2>1, SetupStep DEF GpioNext
  <2>2. CASE UNCHANGED gpioVars
    <3> USE <2>2 DEF gpioVars, chip, setupHistory, FunctionKnown, PullKnown,
                     FunctionPending, PullPending, At
    <3>1. FunctionKept' /\ PullKept'
      BY DEF SetupInv, FunctionKept, PullKept
    <3>2. ASSUME NEW a \in Actors PROVE SetupAt(a)' /\ FunctionCopied(a)' /\ PullCopied(a)'
      BY DEF SetupInv, SetupAt, FunctionCopied, PullCopied, HasFunctions, HasPulls,
             FselMates, PullMates
    <3> QED BY <3>1, <3>2 DEF SetupInv
  <2> QED BY <2>1, <2>2
<1> QED BY <1>1, <1>2, TypeInvariant, PTL DEF GpioSpec

-----------------------------------------------------------------------------
(* Functions of the past.                                                  *)

Fitting == \A p \in Pins : past[p] \subseteq 0 .. 7

\* What is going to be written has been asked for; as long as every function
\* fits into its field, so has all that is in registers and copies of them.
PastInv ==
  /\ \A a \in Actors : pc[a] \in {"readfunction", "writefunction", "writedirection"} =>
       op[a].sel \in past[op[a].pin]
  /\ Fitting =>
       /\ \A p \in Pins : GPFSEL[p] \in past[p]
       /\ \A a \in Actors : HasFunctions(a) =>
            \A q \in FselMates(op[a].pin) : op[a].copy[q] \in past[q]

\* The invariant survives when registers stay and new copies are true ones.
LEMMA PastStays ==
  ASSUME GpioTypeOK, GpioTypeOK', PastInv, NEW a \in Actors, Undisturbed(a),
         \A p \in Pins : past[p] \subseteq past'[p],
         UNCHANGED GPFSEL,
         HasFunctions(a)' => op'[a].copy = FselRegister(op'[a].pin),
         pc'[a] \in {"readfunction", "writefunction", "writedirection"} =>
           op'[a].sel \in past'[op'[a].pin]
  PROVE  PastInv'
<1>1. \A b \in Actors : op[b].pin \in Pins /\ op'[b].pin \in Pins
  BY DEF GpioTypeOK, Ops
<1>2. ASSUME NEW b \in Actors, pc'[b] \in {"readfunction", "writefunction", "writedirection"}
      PROVE  op'[b].sel \in past'[op'[b].pin]
  BY <1>1, <1>2 DEF PastInv, Undisturbed
<1>3. ASSUME Fitting' PROVE Fitting /\ \A p \in Pins : GPFSEL'[p] \in past'[p]
  BY <1>3 DEF PastInv, Fitting
<1>4. ASSUME Fitting', NEW b \in Actors, HasFunctions(b)', NEW q \in FselMates(op'[b].pin)
      PROVE  op'[b].copy[q] \in past'[q]
  <2>1. q \in Pins
    BY DEF FselMates
  <2>2. CASE b = a
    BY <1>1, <1>3, <1>4, <2>1, <2>2, RegistersAreCopies
  <2>3. CASE b # a
    BY <1>3, <1>4, <2>1, <2>3 DEF PastInv, Undisturbed, HasFunctions
  <2> QED BY <2>2, <2>3
<1> QED BY <1>2, <1>3, <1>4 DEF PastInv, FselMates

\* Every step keeps it.
LEMMA PastStep ==
  ASSUME GpioTypeOK, SetupInv, PastInv, NEW a \in Actors, PinCalls(a) \/ PinSteps(a)
  PROVE  PastInv'
<1>1. GpioTypeOK' /\ Undisturbed(a)
  BY ActorType
<1>2. CASE IsQuiet(a)
  BY <1>1, <1>2, PastStays DEF IsQuiet, setupHistory, HasFunctions
<1>3. CASE ReadFunction(a) \/ ReadPull(a) \/ WritePull(a)
  <2>1. UNCHANGED <<GPFSEL, past>>
    BY <1>3 DEF ReadFunction, ReadPull, WritePull, chip, setupHistory
  <2>2. CASE ReadFunction(a)
    <3>1. op[a] \in Ops /\ pc[a] = "readfunction" /\ pc'[a] = "writefunction"
          /\ op'[a] = [op[a] EXCEPT !.copy = FselRegister(op[a].pin)]
      BY <2>2 DEF ReadFunction, Goto, GpioTypeOK
    <3>2. /\ op'[a].pin = op[a].pin /\ op'[a].sel = op[a].sel
          /\ op'[a].copy = FselRegister(op[a].pin)
      BY <3>1 DEF Ops
    <3>3. op[a].sel \in past[op[a].pin]
      BY <3>1 DEF PastInv
    <3> QED BY <1>1, <2>1, <3>2, <3>3, PastStays
  <2>3. CASE ReadPull(a) \/ WritePull(a)
    <3>1. pc'[a] \in {"idle", "writepull"}
      BY <2>3 DEF ReadPull, WritePull, Goto, Ends, GpioTypeOK
    <3> QED BY <1>1, <2>1, <3>1, PastStays DEF HasFunctions
  <2> QED BY <1>3, <2>2, <2>3
<1>4. CASE WriteFunction(a)
  <2>1. /\ HasFunctions(a) /\ UNCHANGED past /\ Fitting' = Fitting
        /\ GPFSEL' = WrittenBack(GPFSEL, SetFunction(op[a].copy, op[a].pin, op[a].sel))
        /\ op[a].pin \in Pins /\ op[a].copy \in Copies /\ op[a].sel \in 0 .. 9
    BY <1>4, OwnState DEF WriteFunction, HasFunctions, Fitting
  <2>2. PICK p \in Pins, sel \in 0 .. 9, copy \in Copies :
          p = op[a].pin /\ sel = op[a].sel /\ copy = op[a].copy
    BY <2>1
  <2>3. DOMAIN copy = FselMates(p) /\ p \in FselMates(p)
    BY <2>1, <2>2 DEF SetupInv, FunctionCopied, FselMates
  <2>4. ASSUME Fitting, NEW q \in Pins PROVE GPFSEL'[q] \in past[q]
    <3> DEFINE new == SetFunction(copy, p, sel)
    <3>1. sel \in past[p]
      BY <2>1, <2>2 DEF PastInv, HasFunctions
    <3>2. sel \in 0 .. 7
      BY <2>4, <3>1 DEF Fitting
    <3>3. sel % 8 = sel /\ ~(sel >= 8)
      BY <3>2
    <3>4. /\ DOMAIN new = FselMates(p) /\ new[p] = sel % 8
          /\ \A r \in FselMates(p) : r # p /\ ~(sel >= 8 /\ r = p + 1) => new[r] = copy[r]
      <4>1. /\ DOMAIN new = DOMAIN copy
            /\ p \in DOMAIN copy => new[p] = sel % 8
            /\ \A r \in DOMAIN copy : r # p /\ ~(sel >= 8 /\ r = p + 1) => new[r] = copy[r]
        BY FunctionSet
      <4> HIDE DEF new
      <4> QED BY <2>3, <4>1
    <3>5. GPFSEL' = WrittenBack(GPFSEL, new)
      BY <2>1, <2>2
    <3> HIDE DEF new
    <3>6. GPFSEL'[q] = IF q \in FselMates(p) THEN new[q] ELSE GPFSEL[q]
      BY <3>4, <3>5 DEF WrittenBack
    <3>7. /\ GPFSEL[q] \in past[q]
          /\ q \in FselMates(p) => copy[q] \in past[q]
      BY <2>1, <2>2, <2>4 DEF PastInv
    <3> QED BY <3>1, <3>3, <3>4, <3>6, <3>7
  <2>5. pc'[a] \in {"readpull", "idle"}
    BY <1>4 DEF WriteFunction, Ends, Goto, GpioTypeOK
  <2>6. \A b \in Actors :
          /\ HasFunctions(b)' => HasFunctions(b) /\ op'[b] = op[b]
          /\ pc'[b] \in {"readfunction", "writefunction", "writedirection"} =>
               pc'[b] = pc[b] /\ op'[b] = op[b]
    BY <1>1, <2>5 DEF HasFunctions, Undisturbed
  <2> QED BY <2>1, <2>4, <2>6 DEF PastInv, FselMates
<1>5. ASSUME NEW n \in Pins, NEW f \in Flags[a], BeginsSetup(a, n, f)
      PROVE  PastInv'
  <2> DEFINE w == [sel |-> Select(f), pull |-> f.pull]
  <2>1. /\ op'[a].pin = n /\ op'[a].sel = w.sel
        /\ pc'[a] = "readfunction" /\ UNCHANGED GPFSEL
    BY <1>5 DEF BeginsSetup, Goto, NoOp, GpioTypeOK
  <2>2. past' = [past EXCEPT ![n] = @ \cup {w.sel}]
    BY <1>5 DEF BeginsSetup, AskSetup
  <2> HIDE DEF w
  <2>3. w.sel \in past'[n] /\ \A p \in Pins : past[p] \subseteq past'[p]
    BY <2>2 DEF GpioTypeOK
  <2> QED BY <1>1, <2>1, <2>3, PastStays DEF HasFunctions
<1>6. ASSUME NEW v \in {0, 1}, SwitchDirection(a, v), Goto(a, "writedirection"), object[a].regs
      PROVE  PastInv'
  <2> DEFINE p == object[a].pinnum
             w == [asked[p] EXCEPT !.sel = v % 2]
  <2>1. p \in Pins
    BY <1>6, DrivenPin
  <2>2. /\ UNCHANGED GPFSEL /\ pc'[a] = "writedirection"
        /\ past' = [past EXCEPT ![p] = @ \cup {w.sel}]
        /\ op' = [op EXCEPT ![a] =
             [NoOp EXCEPT !.pin = p, !.sel = v % 2, !.copy = FselRegister(p)]]
    BY <1>6 DEF SwitchDirection, AskSetup, Goto, chip, GpioTypeOK
  <2>3. op'[a].pin = p /\ op'[a].sel = v % 2 /\ op'[a].copy = FselRegister(p)
    BY <2>2 DEF NoOp, GpioTypeOK
  <2>4. w.sel = v % 2
    BY <2>1 DEF GpioTypeOK
  <2> HIDE DEF w, p
  <2>5. w.sel \in past'[p] /\ \A q \in Pins : past[q] \subseteq past'[q]
    BY <2>1, <2>2 DEF GpioTypeOK
  <2> QED BY <1>1, <2>2, <2>3, <2>4, <2>5, PastStays
<1> QED BY <1>2, <1>3, <1>4, <1>5, <1>6, QuietCalls

\* The invariant of past functions holds.
LEMMA PastInvariant == GpioSpec => []PastInv
<1>1. GpioInit => PastInv
  BY DEF GpioInit, PastInv, HasFunctions
<1>2. GpioTypeOK /\ SetupInv /\ PastInv /\ [GpioNext]_gpioVars => PastInv'
  <2> SUFFICES ASSUME GpioTypeOK, SetupInv, PastInv, [GpioNext]_gpioVars PROVE PastInv'
    OBVIOUS
  <2>1. CASE GpioNext
    BY <2>1, PastStep DEF GpioNext
  <2>2. CASE UNCHANGED gpioVars
    BY <2>2 DEF gpioVars, chip, setupHistory, PastInv, Fitting, HasFunctions, FselMates
  <2> QED BY <2>1, <2>2
<1> QED BY <1>1, <1>2, TypeInvariant, SetupInvariant, PTL DEF GpioSpec

-----------------------------------------------------------------------------
(* Levels.                                                                 *)

\* A pin whose function is about to be changed has its initial level already; a
\* toggle in progress that can be relied on is going to store what it should.
LevelAt(a) ==
  LET p == op[a].pin
  IN  /\ pc[a] \in {"readfunction", "writefunction"} => latch[p] = op[a].level
      /\ pc[a] = "gpioset" => p \in astray
      /\ pc[a] = "toggle" /\ p \notin astray =>
           object[a].target.on = 1 /\ op[a].level = 1 - driven[p]

LevelKept(p) == p \notin astray /\ ~TogglePending(p) => latch[p] = driven[p]

\* The inductive invariant behind LevelAsAsked.
LevelInv ==
  /\ \A p \in Pins : LevelKept(p)
  /\ \A a \in Actors : LevelAt(a)

\* What holds for the pins of other processes stays when a process takes a step;
\* its own toggles are those it is in.
LEMMA LevelsOfOthers ==
  ASSUME GpioTypeOK, LevelInv, NEW a \in Actors, Undisturbed(a)
  PROVE  /\ \A b \in Actors \ {a} : LevelAt(b)'
         /\ \A q \in Pins : Owner[q] # a => LevelKept(q)'
         /\ \A q \in Pins : Owner[q] = a =>
              /\ TogglePending(q) <=> pc[a] \in {"gpioset", "toggle"} /\ op[a].pin = q
              /\ TogglePending(q)' <=> pc'[a] \in {"gpioset", "toggle"} /\ op'[a].pin = q
<1>1. \A q \in Pins : Owner[q] \in Actors
  BY GpioAssumption
<1>2. ASSUME NEW b \in Actors \ {a} PROVE LevelAt(b)'
  <2>1. pc'[b] = pc[b] /\ op'[b] = op[b] /\ object'[b] = object[b]
    BY DEF Undisturbed
  <2>2. LevelAt(b)
    BY DEF LevelInv
  <2>3. CASE pc[b] \in {"readfunction", "writefunction", "gpioset", "toggle"}
    <3>1. op[b].pin \in Pins /\ Owner[op[b].pin] = b
      BY <2>3, OwnState
    <3>2. /\ latch'[op[b].pin] = latch[op[b].pin] /\ driven'[op[b].pin] = driven[op[b].pin]
          /\ (op[b].pin \in astray' <=> op[b].pin \in astray)
      BY <3>1 DEF Undisturbed
    <3> QED BY <2>1, <2>2, <3>2 DEF LevelAt
  <2>4. CASE pc[b] \notin {"readfunction", "writefunction", "gpioset", "toggle"}
    BY <2>1, <2>4 DEF LevelAt
  <2> QED BY <2>3, <2>4
<1>3. ASSUME NEW q \in Pins, Owner[q] # a PROVE LevelKept(q)'
  <2>1. /\ latch'[q] = latch[q] /\ driven'[q] = driven[q] /\ (q \in astray' <=> q \in astray)
        /\ TogglePending(q)' <=> TogglePending(q)
    BY <1>1, <1>3 DEF Undisturbed, TogglePending, At
  <2>2. q \notin astray /\ ~TogglePending(q) => latch[q] = driven[q]
    BY DEF LevelInv, LevelKept
  <2>3. q \notin astray' /\ ~TogglePending(q)' => latch'[q] = driven'[q]
    BY <2>1, <2>2
  <2> QED BY <2>3 DEF LevelKept
<1>4. \A q \in Pins : Owner[q] = a =>
        /\ TogglePending(q) <=> pc[a] \in {"gpioset", "toggle"} /\ op[a].pin = q
        /\ TogglePending(q)' <=> pc'[a] \in {"gpioset", "toggle"} /\ op'[a].pin = q
  BY DEF TogglePending, At
<1> QED BY <1>2, <1>3, <1>4

\* A step that has to do with the level of pin p only keeps what holds for the
\* levels of process a if it does for that of p.
LEMMA LevelOf ==
  ASSUME GpioTypeOK, LevelInv, NEW a \in Actors, Undisturbed(a), NEW p \in Pins,
         Owner[p] = a,
         \A q \in Pins : q # p => /\ latch'[q] = latch[q] /\ driven'[q] = driven[q]
                                  /\ (q \in astray' <=> q \in astray),
         pc[a] \in {"gpioset", "toggle"} => op[a].pin = p,
         pc'[a] \in {"gpioset", "toggle"} => op'[a].pin = p,
         p \in astray' \/ pc'[a] \in {"gpioset", "toggle"} \/ latch'[p] = driven'[p],
         LevelAt(a)'
  PROVE  LevelInv'
<1>1. ASSUME NEW q \in Pins, Owner[q] = a, q # p PROVE LevelKept(q)'
  <2>1. ~TogglePending(q) /\ ~TogglePending(q)'
    BY <1>1, LevelsOfOthers
  <2>2. q \notin astray => latch[q] = driven[q]
    BY <2>1 DEF LevelInv, LevelKept
  <2>3. q \notin astray' => latch'[q] = driven'[q]
    BY <1>1, <2>2
  <2> QED BY <2>3 DEF LevelKept
<1>2. LevelKept(p)'
  <2>1. TogglePending(p)' <=> pc'[a] \in {"gpioset", "toggle"} /\ op'[a].pin = p
    BY LevelsOfOthers
  <2> QED BY <2>1 DEF LevelKept
<1> QED BY <1>1, <1>2, LevelsOfOthers DEF LevelInv

\* A step that has nothing to do with levels.
LEMMA LevelsStay ==
  ASSUME GpioTypeOK, LevelInv, NEW a \in Actors, Undisturbed(a),
         UNCHANGED <<latch, levelHistory>>,
         pc[a] \notin {"gpioset", "toggle"}, pc'[a] \notin {"gpioset", "toggle"},
         pc'[a] \in {"readfunction", "writefunction"} =>
           /\ pc[a] \in {"readfunction", "writefunction"}
           /\ op'[a].pin = op[a].pin /\ op'[a].level = op[a].level
  PROVE  LevelInv'
<1>1. LevelAt(a)'
  BY DEF LevelInv, LevelAt
<1>2. ASSUME NEW q \in Pins, Owner[q] = a PROVE LevelKept(q)'
  BY <1>2, LevelsOfOthers DEF LevelInv, LevelKept, levelHistory
<1> QED BY <1>1, <1>2, LevelsOfOthers DEF LevelInv

\* PinSetup stores the initial level when it begins a set-up.
LEMMA SetupLevels ==
  ASSUME GpioTypeOK, LevelInv, NEW a \in Actors, Undisturbed(a),
         NEW n, NEW f \in Flags[a], PinSetup(a, n, f)
  PROVE  LevelInv'
<1>1. CASE UNCHANGED <<latch, levelHistory, pc>>
  BY <1>1, LevelsStay DEF PinSetup, PinSetupStoring
<1>2. CASE n \in Pins /\ BeginsSetup(a, n, f)
  <2>1. /\ pc[a] = "idle" /\ pc'[a] = "readfunction" /\ Owner[n] = a
        /\ op'[a].pin = n /\ op'[a].level = f.init
    BY <1>2 DEF BeginsSetup, Goto, NoOp, GpioTypeOK
  <2>2. /\ latch' = [latch EXCEPT ![n] = f.init] /\ driven' = [driven EXCEPT ![n] = f.init]
        /\ astray' = astray \ {n}
    BY <1>2 DEF BeginsSetup, Store, AskLevel
  <2>3. latch'[n] = f.init /\ driven'[n] = f.init
    BY <1>2, <2>2 DEF GpioTypeOK
  <2>4. \A q \in Pins : q # n => /\ latch'[q] = latch[q] /\ driven'[q] = driven[q]
                                 /\ (q \in astray' <=> q \in astray)
    BY <2>2 DEF GpioTypeOK
  <2>5. LevelAt(a)'
    BY <2>1, <2>3 DEF LevelAt
  <2> QED BY <1>2, <2>1, <2>3, <2>4, <2>5, LevelOf
<1> QED BY <1>1, <1>2 DEF PinSetup, PinSetupStoring, BeginsSetup, Mine

\* The accesses of a set-up have nothing to do with levels.
LEMMA SetupStepLevels ==
  ASSUME GpioTypeOK, LevelInv, NEW a \in Actors, Undisturbed(a),
         ReadFunction(a) \/ WriteFunction(a) \/ ReadPull(a) \/ WritePull(a)
  PROVE  LevelInv'
<1>1. UNCHANGED <<latch, levelHistory>> /\ pc[a] \notin {"gpioset", "toggle"} /\ op[a] \in Ops
  BY OwnState DEF ReadFunction, WriteFunction, ReadPull, WritePull, chip
<1>2. CASE ReadFunction(a)
  <2>1. pc[a] = "readfunction" /\ pc'[a] = "writefunction"
        /\ op'[a] = [op[a] EXCEPT !.copy = FselRegister(op[a].pin)]
    BY <1>2 DEF ReadFunction, Goto, GpioTypeOK
  <2>2. op'[a].pin = op[a].pin /\ op'[a].level = op[a].level
    BY <1>1, <2>1 DEF Ops
  <2> QED BY <1>1, <2>1, <2>2, LevelsStay
<1>3. CASE WriteFunction(a) \/ ReadPull(a) \/ WritePull(a)
  <2>1. pc'[a] \in {"readpull", "writepull", "idle"}
    BY <1>3 DEF WriteFunction, ReadPull, WritePull, Ends, Goto, GpioTypeOK
  <2> QED BY <1>1, <2>1, LevelsStay
<1> QED BY <1>2, <1>3

\* GpioSet stores what it is asked for; when it toggles, nobody relies on it.
LEMMA GpioSetLevels ==
  ASSUME GpioTypeOK, LevelInv, NEW a \in Actors, Undisturbed(a),
         \/ \E p \in Pins, v \in {0, 1} : GpioSet(a, p, v)
         \/ \E p \in Pins : GpioSetToggle(a, p)
         \/ GpioSetStore(a)
  PROVE  LevelInv'
<1>1. ASSUME NEW p \in Pins, NEW v \in {0, 1}, GpioSet(a, p, v) PROVE LevelInv'
  <2>1. pc[a] = "idle" /\ Owner[p] = a
    BY <1>1 DEF GpioSet, Mine
  <2>2. CASE Store(p, v) /\ AskLevel(p, v) /\ UNCHANGED pc
    <3>1. latch'[p] = v /\ driven'[p] = v
      BY <2>2 DEF Store, AskLevel, GpioTypeOK
    <3>2. \A q \in Pins : q # p => /\ latch'[q] = latch[q] /\ driven'[q] = driven[q]
                                   /\ (q \in astray' <=> q \in astray)
      BY <2>2 DEF Store, AskLevel, GpioTypeOK
    <3>3. LevelAt(a)'
      BY <2>1, <2>2 DEF LevelAt
    <3> QED BY <2>1, <2>2, <3>1, <3>2, <3>3, LevelOf
  <2>3. CASE Goto(a, "dead") /\ UNCHANGED <<latch, levelHistory>>
    BY <2>1, <2>3, LevelsStay DEF Goto, GpioTypeOK
  <2> QED BY <1>1, <2>2, <2>3 DEF GpioSet
<1>2. ASSUME NEW p \in Pins, GpioSetToggle(a, p) PROVE LevelInv'
  <2>1. pc[a] = "idle" /\ Owner[p] = a /\ UNCHANGED latch
    BY <1>2 DEF GpioSetToggle, Mine, chip
  <2>2. ASSUME NEW v \in {0, 1}, Goto(a, "gpioset"), AskToggle(p, FALSE),
               op' = [op EXCEPT ![a] = [NoOp EXCEPT !.pin = p, !.level = v]]
        PROVE  LevelInv'
    <3>1. pc'[a] = "gpioset" /\ op'[a].pin = p
      BY <2>2 DEF Goto, NoOp, GpioTypeOK
    <3>2. p \in astray'
      BY <2>2 DEF AskToggle
    <3>3. \A q \in Pins : q # p => /\ latch'[q] = latch[q] /\ driven'[q] = driven[q]
                                   /\ (q \in astray' <=> q \in astray)
      BY <2>1, <2>2 DEF AskToggle, GpioTypeOK
    <3>4. LevelAt(a)'
      BY <3>1, <3>2 DEF LevelAt
    <3> QED BY <2>1, <3>1, <3>2, <3>3, <3>4, LevelOf
  <2>3. CASE Goto(a, "dead") /\ UNCHANGED <<op, levelHistory>>
    BY <2>1, <2>3, LevelsStay DEF Goto, GpioTypeOK
  <2> QED BY <1>2, <2>2, <2>3 DEF GpioSetToggle
<1>3. CASE GpioSetStore(a)
  <2>1. /\ latch' = [latch EXCEPT ![op[a].pin] = 1 - op[a].level]
        /\ UNCHANGED levelHistory /\ pc[a] = "gpioset" /\ pc'[a] = "idle"
    BY <1>3 DEF GpioSetStore, Store, Ends, Goto, GpioTypeOK
  <2>2. PICK p \in Pins : p = op[a].pin /\ Owner[p] = a
    BY <2>1, OwnState
  <2>3. p \in astray'
    BY <2>1, <2>2 DEF LevelInv, LevelAt, levelHistory
  <2>4. \A q \in Pins : q # p => /\ latch'[q] = latch[q] /\ driven'[q] = driven[q]
                                 /\ (q \in astray' <=> q \in astray)
    BY <2>1, <2>2 DEF levelHistory, GpioTypeOK
  <2>5. LevelAt(a)'
    BY <2>1 DEF LevelAt
  <2> QED BY <2>1, <2>2, <2>3, <2>4, <2>5, LevelOf
<1> QED BY <1>1, <1>2, <1>3

\* SetTo stores the level asked for, or one that nobody relies on.
LEMMA SetToLevels ==
  ASSUME GpioTypeOK, LevelInv, NEW a \in Actors, Undisturbed(a), NEW v \in {0, 1},
         SetTo(a, v)
  PROVE  LevelInv'
<1> DEFINE o == object[a]
           w == IF v = 1 THEN o.target.on ELSE 1 - o.target.on
<1>1. /\ pc[a] = "idle" /\ pc'[a] = "idle" /\ o.target # NoTarget
      /\ latch' = [latch EXCEPT ![o.target.pin] = w]
  BY DEF SetTo, Store
<1>2. PICK p \in Pins : p = o.target.pin /\ Owner[p] = a
  BY <1>1, OwnState
<1>3. CASE o.regs
  <2>1. AskLevel(p, IF o.inverted THEN 1 - v ELSE v)
    BY <1>2, <1>3, DrivenPin DEF SetTo
  <2>2. w = (IF o.inverted THEN 1 - v ELSE v)
    BY <1>3, DrivenPin
  <2> HIDE DEF w, o
  <2>3. latch'[p] = driven'[p]
    BY <1>1, <1>2, <2>1, <2>2 DEF AskLevel, GpioTypeOK
  <2>4. \A q \in Pins : q # p => /\ latch'[q] = latch[q] /\ driven'[q] = driven[q]
                                 /\ (q \in astray' <=> q \in astray)
    BY <1>1, <1>2, <2>1 DEF AskLevel, GpioTypeOK
  <2>5. LevelAt(a)'
    BY <1>1 DEF LevelAt
  <2> QED BY <1>1, <1>2, <2>3, <2>4, <2>5, LevelOf
<1>4. CASE ~o.regs
  <2>1. astray' = astray \cup {p} /\ UNCHANGED driven
    BY <1>2, <1>4 DEF SetTo
  <2> HIDE DEF w, o
  <2>2. \A q \in Pins : q # p => /\ latch'[q] = latch[q] /\ driven'[q] = driven[q]
                                 /\ (q \in astray' <=> q \in astray)
    BY <1>1, <1>2, <2>1 DEF GpioTypeOK
  <2>3. LevelAt(a)'
    BY <1>1 DEF LevelAt
  <2> QED BY <1>1, <1>2, <2>1, <2>2, <2>3, LevelOf
<1> QED BY <1>3, <1>4

\* A toggle of an output through an object that is not inverted reads the level
\* last asked for and stores the other one.
LEMMA ToggleLevels ==
  ASSUME GpioTypeOK, LevelInv, NEW a \in Actors, Undisturbed(a),
         Toggle(a) \/ ToggleStore(a)
  PROVE  LevelInv'
<1>1. CASE Toggle(a)
  <2>1. PICK p \in Pins : p = object[a].target.pin /\ Owner[p] = a
    BY <1>1, OwnState DEF Toggle
  <2> DEFINE certain == object[a].regs /\ ~object[a].inverted /\ GPFSEL[p] = 1
  <2>2. /\ pc[a] = "idle" /\ pc'[a] = "toggle" /\ UNCHANGED <<latch, object>>
        /\ AskToggle(p, certain)
    BY <1>1, <2>1 DEF Toggle, Goto, chip, GpioTypeOK
  <2>3. PICK v \in Levels(p) : op' = [op EXCEPT ![a] = [NoOp EXCEPT !.pin = p, !.level = v]]
    BY <1>1, <2>1 DEF Toggle
  <2>4. op'[a].pin = p /\ op'[a].level = v
    BY <2>3 DEF NoOp, GpioTypeOK
  <2>5. \A q \in Pins : q # p => /\ latch'[q] = latch[q] /\ driven'[q] = driven[q]
                                 /\ (q \in astray' <=> q \in astray)
    BY <2>2 DEF AskToggle, GpioTypeOK
  <2>6. ASSUME p \notin astray'
        PROVE  object[a].target.on = 1 /\ v = 1 - driven'[p]
    <3>1. certain /\ p \notin astray /\ driven'[p] = 1 - driven[p] /\ driven[p] \in {0, 1}
      BY <2>2, <2>6 DEF AskToggle, GpioTypeOK
    <3>2. object[a].target.on = 1
      BY <3>1, DrivenPin
    <3>3. v = latch[p]
      BY <3>1 DEF Levels
    <3>4. ~TogglePending(p)
      BY <2>1, <2>2, LevelsOfOthers
    <3>5. latch[p] = driven[p]
      BY <3>1, <3>4 DEF LevelInv, LevelKept
    <3> QED BY <3>1, <3>2, <3>3, <3>5
  <2>7. LevelAt(a)'
    BY <2>2, <2>4, <2>6 DEF LevelAt
  <2> QED BY <2>1, <2>2, <2>4, <2>5, <2>7, LevelOf
<1>2. CASE ToggleStore(a)
  <2> DEFINE w == IF op[a].level = 1 THEN 1 - object[a].target.on ELSE object[a].target.on
  <2>1. /\ latch' = [latch EXCEPT ![op[a].pin] = w]
        /\ UNCHANGED levelHistory /\ pc[a] = "toggle" /\ pc'[a] = "idle"
    BY <1>2 DEF ToggleStore, Store, Ends, Goto, GpioTypeOK
  <2>2. PICK p \in Pins : p = op[a].pin /\ Owner[p] = a
    BY <2>1, OwnState
  <2>3. p \notin astray => w = driven[p]
    <3>1. p \notin astray => object[a].target.on = 1 /\ op[a].level = 1 - driven[p]
      BY <2>1, <2>2 DEF LevelInv, LevelAt
    <3>2. driven[p] \in {0, 1}
      BY DEF GpioTypeOK
    <3> QED BY <3>1, <3>2
  <2> HIDE DEF w
  <2>4. p \in astray' \/ latch'[p] = driven'[p]
    BY <2>1, <2>2, <2>3 DEF levelHistory, GpioTypeOK
  <2>5. \A q \in Pins : q # p => /\ latch'[q] = latch[q] /\ driven'[q] = driven[q]
                                 /\ (q \in astray' <=> q \in astray)
    BY <2>1, <2>2 DEF levelHistory, GpioTypeOK
  <2>6. LevelAt(a)'
    BY <2>1 DEF LevelAt
  <2> QED BY <2>1, <2>2, <2>4, <2>5, <2>6, LevelOf
<1> QED BY <1>1, <1>2

\* Every step keeps the invariant of levels.
LEMMA LevelStep ==
  ASSUME GpioTypeOK, LevelInv, NEW a \in Actors, PinCalls(a) \/ PinSteps(a)
  PROVE  LevelInv'
<1>1. Undisturbed(a)
  BY ActorType
<1>2. ASSUME NEW n, NEW f \in Flags[a], PinSetup(a, n, f) PROVE LevelInv'
  BY <1>1, <1>2, SetupLevels
<1>3. ASSUME \/ NullPointer(a)
             \/ \E n, b : Assign(a, n, b)
             \/ \E v : SwitchDirection(a, v)
      PROVE  LevelInv'
  <2>1. UNCHANGED <<latch, levelHistory>> /\ pc[a] = "idle"
    BY <1>3 DEF NullPointer, Assign, AssignWithin, SwitchDirection, chip
  <2>2. pc'[a] \in {"idle", "dead", "writedirection"}
    BY <1>3, <2>1 DEF NullPointer, Assign, AssignWithin, SwitchDirection, Goto, GpioTypeOK
  <2> QED BY <1>1, <2>1, <2>2, LevelsStay
<1>4. SetArgs[a] \subseteq Pins
  BY GpioAssumption
<1>5. CASE PinSteps(a)
  BY <1>1, <1>5, SetupStepLevels, GpioSetLevels, ToggleLevels DEF PinSteps
<1>6. CASE PinCalls(a)
  <2>1. \/ \E n : \E f \in Flags[a] : PinSetup(a, n, f)
        \/ \E p \in Pins, v \in {0, 1} : GpioSet(a, p, v)
        \/ \E p \in Pins : GpioSetToggle(a, p)
        \/ \E v \in {0, 1} : SetTo(a, v)
        \/ Toggle(a)
        \/ NullPointer(a) \/ (\E n, b : Assign(a, n, b)) \/ \E v : SwitchDirection(a, v)
    BY <1>4, <1>6 DEF PinCalls, Setup
  <2> QED BY <1>1, <1>2, <1>3, <2>1, GpioSetLevels, SetToLevels, ToggleLevels
<1> QED BY <1>5, <1>6

\* The invariant of levels holds.
LEMMA LevelInvariant == GpioSpec => []LevelInv
<1>1. GpioInit => LevelInv
  BY DEF GpioInit, LevelInv, LevelKept, LevelAt
<1>2. GpioTypeOK /\ LevelInv /\ [GpioNext]_gpioVars => LevelInv'
  <2> SUFFICES ASSUME GpioTypeOK, LevelInv, [GpioNext]_gpioVars PROVE LevelInv'
    OBVIOUS
  <2>1. CASE GpioNext
    BY <2>1, LevelStep DEF GpioNext
  <2>2. CASE UNCHANGED gpioVars
    BY <2>2 DEF gpioVars, chip, levelHistory, LevelInv, LevelKept, LevelAt, TogglePending, At
  <2> QED BY <2>1, <2>2
<1> QED BY <1>1, <1>2, TypeInvariant, PTL DEF GpioSpec

-----------------------------------------------------------------------------
(* Theorems.                                                               *)

\* Registers keep their types and every pointer and running call leads to a pin
\* of its own process, also after failed assignments (hwpins_broadcom.cpp:174-198).
THEOREM GpioTypeCorrect == GpioSpec => []GpioTypeOK
BY TypeInvariant, PTL

\* A pin keeps the function and the pull last asked for it, whatever processes do
\* to the registers it shares, unless another one was between reading and writing
\* the register when its set-up wrote it, or a function beyond three bits was
\* asked for (hwpins_broadcom.cpp:87, 100-103, 119-122, 222-225).
THEOREM SetupCorrect == GpioSpec => []SetupKept
<1>1. SetupInv => SetupKept
  BY DEF SetupInv, SetupKept, FunctionKept, PullKept, FunctionKnown, PullKnown
<1> QED BY <1>1, SetupInvariant, PTL

\* In any race for a register a pin has a function that was asked for it at some
\* time (hwpins_broadcom.cpp:100-103, 222-225).
THEOREM PastCorrect == GpioSpec => []OnlyPastFunctions
<1>1. PastInv => OnlyPastFunctions
  BY DEF PastInv, OnlyPastFunctions, Fitting
<1> QED BY <1>1, PastInvariant, PTL

\* The level of a pin is the one last asked for, also by toggles of outputs that
\* are not inverted, until it is asked for in one of the ways that cannot be
\* relied on (hwpins_broadcom.cpp:132-212).
THEOREM LevelCorrect == GpioSpec => []LevelAsAsked
<1>1. LevelInv => LevelAsAsked
  BY DEF LevelInv, LevelKept, LevelAsAsked
<1> QED BY <1>1, LevelInvariant, PTL

\* The initial level is there before the pin becomes an output
\* (hwpins_broadcom.cpp:71).
THEOREM NoGlitchCorrect == GpioSpec => NoGlitch
<1> DEFINE Quiet == \A a \in Actors :
             pc[a] = "writefunction" /\ pc'[a] # pc[a] /\ GPFSEL'[op[a].pin] = 1 =>
               latch[op[a].pin] = op[a].level
<1>1. LevelInv => Quiet
  BY DEF LevelInv, LevelAt
<1> HIDE DEF Quiet
<1>2. GpioSpec => [][Quiet]_gpioVars
  BY <1>1, LevelInvariant, PTL
<1> QED BY <1>2 DEF NoGlitch, Quiet
=============================================================================
