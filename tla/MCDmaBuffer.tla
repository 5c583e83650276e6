---------------------------- MODULE MCDmaBuffer ----------------------------
(* Instances of DmaBuffer for TLC: a buffer of three granules.             *)
EXTENDS DmaBuffer

MCHandles == 1 .. 3
MCFewHandles == 1 .. 2

\* 0, one byte, one byte more than a granule, the whole buffer.
MCSizes == {0, 1, 33, 96}
=============================================================================
