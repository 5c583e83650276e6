------------------------------- MODULE MCHwDma -------------------------------
(* Instances of HwDma for TLC: a buffer of two or three granules, of which  *)
(* the control block of each object takes one.                              *)
EXTENDS HwDma, TLC

MCHandles == 1 .. 2
MCOneHandle == {1}

\* One piece of data.
MCSizes == {32}

\* The channels, and the numbers just outside their range.
MCChannelArgs == -1 .. MAX_DMA_CHANNELS
MCValidArgs == Channels

MCPeriphAddrs == {7}
MCForeignAddrs == {5000}

\* A linear transfer and one that loops without advancing in memory; those, and
\* each flag alone; one that loops.
MCFlagSets == {{}, {"CIRCULAR", "NO_SRC_INC"}}
MCSomeFlagSets == {{}, {"NO_SRC_INC"}, {"NO_DST_INC"}, {"CIRCULAR"}, {"CIRCULAR", "NO_SRC_INC"}}
MCCircular == {{"CIRCULAR"}}

\* The objects are interchangeable.
MCSymmetry == Permutations(Objects)
=============================================================================
