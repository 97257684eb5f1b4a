--------------------------- MODULE MessageChannel ---------------------------
(***************************************************************************)
(* What one direction of a connection promises its users: messages arrive  *)
(* in the order in which they were sent, none twice and none that was not  *)
(* sent, until the direction breaks; from then on nothing arrives. Until   *)
(* it breaks, everything sent arrives in the end.                          *)
(***************************************************************************)
EXTENDS Naturals, Sequences

CONSTANT Message

VARIABLES sent,     \* what was sent, in order
          arrived,  \* what has arrived, in order
          broken    \* whether the direction has broken

channelVars == <<sent, arrived, broken>>

ChannelInit == sent = <<>> /\ arrived = <<>> /\ broken = FALSE

SendMessage ==
  /\ \E m \in Message : sent' = Append(sent, m)
  /\ UNCHANGED <<arrived, broken>>

Arrive ==
  /\ ~broken
  /\ Len(arrived) < Len(sent)
  /\ arrived' = Append(arrived, sent[Len(arrived) + 1])
  /\ UNCHANGED <<sent, broken>>

Break == broken' = TRUE /\ UNCHANGED <<sent, arrived>>

ChannelNext == SendMessage \/ Arrive \/ Break

ChannelSafety == ChannelInit /\ [][ChannelNext]_channelVars

ChannelSpec == ChannelSafety /\ WF_channelVars(Arrive)
=============================================================================
