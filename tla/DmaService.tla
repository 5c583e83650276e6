----------------------------- MODULE DmaService -----------------------------
(***************************************************************************)
(* What the DMA channels promise to the code that uses THwDmaChannel: a    *)
(* transfer is prepared as a whole, started, stopped and started again at  *)
(* any row, moves its rows one by one, and ends by itself after its last   *)
(* row, or begins again when it is circular.  Nothing here says how a      *)
(* control block is written or fetched.                                    *)
(***************************************************************************)
EXTENDS Integers

CONSTANTS
  Channels,  \* the DMA channels
  Requests,  \* the transfers a client can ask for: records with at least the
             \* fields rows (\in Nat \ {0}) and loop (\in BOOLEAN)
  NoRequest  \* what a channel holds when nothing was prepared on it

VARIABLES
  mode,      \* per channel: "idle", "stopped" or "running"
  left,      \* per channel: rows not yet moved, 0 when idle
  request    \* per channel: the transfer prepared last
svcVars == <<mode, left, request>>

SvcInit ==
  /\ mode = [c \in Channels |-> "idle"]
  /\ left = [c \in Channels |-> 0]
  /\ request = [c \in Channels |-> NoRequest]

Prepare(c, r) ==
  /\ mode[c] # "running"
  /\ mode' = [mode EXCEPT ![c] = "stopped"]
  /\ left' = [left EXCEPT ![c] = r.rows]
  /\ request' = [request EXCEPT ![c] = r]

Start(c) ==
  /\ mode[c] = "stopped"
  /\ mode' = [mode EXCEPT ![c] = "running"]
  /\ UNCHANGED <<left, request>>

Stop(c) ==
  /\ mode[c] = "running"
  /\ mode' = [mode EXCEPT ![c] = "stopped"]
  /\ UNCHANGED <<left, request>>

\* One row is moved; the last one ends the transfer or begins it again.
Move(c) ==
  /\ mode[c] = "running"
  /\ \/ /\ left[c] > 1
        /\ left' = [left EXCEPT ![c] = @ - 1]
        /\ UNCHANGED mode
     \/ /\ left[c] = 1 /\ request[c].loop
        /\ left' = [left EXCEPT ![c] = request[c].rows]
        /\ UNCHANGED mode
     \/ /\ left[c] = 1 /\ ~request[c].loop
        /\ left' = [left EXCEPT ![c] = 0]
        /\ mode' = [mode EXCEPT ![c] = "idle"]
  /\ UNCHANGED request

\* The channel is initialised: whatever it did is aborted.
Reset(c) ==
  /\ mode' = [mode EXCEPT ![c] = "idle"]
  /\ left' = [left EXCEPT ![c] = 0]
  /\ request' = [request EXCEPT ![c] = NoRequest]

SvcNext ==
  \E c \in Channels :
    \/ \E r \in Requests : Prepare(c, r)
    \/ Start(c) \/ Stop(c) \/ Move(c) \/ Reset(c)

SvcSpec == SvcInit /\ [][SvcNext]_svcVars /\ \A c \in Channels : WF_svcVars(Move(c))

\* A channel is idle exactly when it has nothing left to move, and never has
\* more left than was asked for.
SvcTypeOK ==
  /\ mode \in [Channels -> {"idle", "stopped", "running"}]
  /\ left \in [Channels -> Nat]
  /\ request \in [Channels -> Requests \cup {NoRequest}]
  /\ \A c \in Channels : left[c] <= request[c].rows /\ (mode[c] = "idle" <=> left[c] = 0)
=============================================================================
