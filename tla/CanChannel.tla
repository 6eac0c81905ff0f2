------------------------------ MODULE CanChannel ------------------------------
(* What CCanRouter promises a task that sends: a frame put is taken or       *)
(* dropped at once, dropped only behind Room frames that wait; what is taken *)
(* goes out once, in the order of the calls.                                 *)
EXTENDS Naturals, Sequences

CONSTANTS Frame, Room

VARIABLES
  waiting,   \* frames taken, oldest first
  taken,     \* the last call's fate
  wire       \* the frames gone out, the last one

channelVars == <<waiting, taken, wire>>

ChannelInit == waiting = <<>> /\ taken = TRUE /\ wire = <<>>

ChannelPut(f) ==
  /\ \/ taken' = TRUE /\ waiting' = Append(waiting, f)
     \/ Len(waiting) >= Room /\ taken' = FALSE /\ UNCHANGED waiting
  /\ UNCHANGED wire

ChannelSend ==
  /\ waiting # <<>>
  /\ wire' = <<Head(waiting)>> /\ waiting' = Tail(waiting)
  /\ UNCHANGED taken

ChannelNext == (\E f \in Frame : ChannelPut(f)) \/ ChannelSend

ChannelSpec == ChannelInit /\ [][ChannelNext]_channelVars
=============================================================================
