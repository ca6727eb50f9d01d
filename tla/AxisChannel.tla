----------------------------- MODULE AxisChannel -----------------------------
(***************************************************************************)
(* What a valid/ready FIFO between two AXI-Stream ports promises: the      *)
(* beats that go in come out once, in order and each whole; a beat that is *)
(* offered stays offered until it is taken; at most MaxHeld beats are      *)
(* inside; a clear empties it.  Beats are numbered as they are accepted.   *)
(***************************************************************************)
EXTENDS Integers

CONSTANT MaxHeld    \* the most beats the FIFO ever holds

VARIABLES accepted,   \* beats that entered through s_axis
          delivered,  \* number of the last beat that left, or was dropped by a clear
          offer       \* number of the beat m_axis offers, 0 when tvalid is low

channelVars == <<accepted, delivered, offer>>

ChannelInit == accepted = 0 /\ delivered = 0 /\ offer = 0

\* One clock: at most one beat in, at most the offered beat out.
Transfer ==
    /\ accepted' \in accepted..(accepted + 1)
    /\ \/ /\ delivered' = delivered
          /\ offer # 0 => offer' = offer
       \/ /\ offer # 0
          /\ delivered' = offer
    /\ offer' \in {0, delivered' + 1}
    /\ offer' <= accepted'
    /\ accepted' - delivered' <= MaxHeld

\* A clear: whatever is inside, or arrives in the same clock, is dropped.
Drop ==
    /\ accepted' \in accepted..(accepted + 1)
    /\ delivered' = accepted'
    /\ offer' = 0

ChannelSpec == ChannelInit /\ [][Transfer \/ Drop]_channelVars
==============================================================================
