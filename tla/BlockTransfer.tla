---------------------------- MODULE BlockTransfer ----------------------------
(***************************************************************************)
(* What loading an image promises: blocks are written at their own place,  *)
(* any number of times, and a host that waits out every flash write goes   *)
(* on to the next block only when the current one is in flash.             *)
(***************************************************************************)
EXTENDS Naturals

CONSTANT Blocks      \* how many blocks there are, 0 .. Blocks - 1

VARIABLES
  next,              \* the block the host is at
  flash,             \* whose data lies at each block's place; Blocks, nobody's
  patient            \* the host waits out every flash write

AbsInit ==
  next = 0 /\ flash = [b \in 0 .. Blocks - 1 |-> Blocks] /\ patient \in BOOLEAN

AbsWrite ==
  /\ \E b \in 0 .. Blocks - 1 : flash' = [flash EXCEPT ![b] = b]
  /\ UNCHANGED <<next, patient>>

AbsAdvance ==
  /\ next < Blocks /\ (patient => flash[next] = next)
  /\ next' = next + 1
  /\ UNCHANGED <<flash, patient>>

AbsSpec == AbsInit /\ [][AbsWrite \/ AbsAdvance]_<<next, flash, patient>>
=============================================================================
