----------------------------- MODULE MCGpioPins -----------------------------
(* Instances of GpioPins for TLC.                                          *)
EXTENDS GpioPins

MCActors == {1, 2}

\* An output that starts high; an alternate function, all bits set, with
\* pull-up; an input with pull-down; AF_7, which is one beyond three bits.
MCOutput == [init |-> 1, af |-> -1, output |-> TRUE, pull |-> 0]
MCAlternate == [init |-> 1, af |-> 5, output |-> FALSE, pull |-> 1]
MCInput == [init |-> 0, af |-> -1, output |-> FALSE, pull |-> 2]
MCBeyond == [init |-> 1, af |-> 7, output |-> FALSE, pull |-> 1]

\* Process 1 does everything with pin 0, and calls for a number beyond all
\* pins; process 2 races with it to set up pin 1, whose function and pull are in
\* the same registers and which a function of four bits for pin 0 reaches.
MCRaceOwner == [p \in 0 .. 1 |-> p + 1]
MCRaceFlags == <<{MCOutput, MCInput, MCBeyond}, {MCAlternate}>>
MCRaceSetups == <<{0, 2}, {1}>>
MCRaceAssigns == <<{0, 2}, {}>>
MCRaceSets == <<{0}, {}>>

\* One process with two pins.
MCAlone == {1}
MCAloneOwner == [p \in 0 .. 1 |-> 1]
MCAloneFlags == <<{MCOutput, MCInput, MCAlternate, MCBeyond}>>
MCAlonePins == <<{0, 1}>>
=============================================================================
