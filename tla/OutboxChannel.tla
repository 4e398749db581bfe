---------------------------- MODULE OutboxChannel ----------------------------
(***************************************************************************)
(* What Session.Send promises of the messages it accepts: on each session  *)
(* the worker receives them once each, in the order they were accepted,    *)
(* and those it never receives are the last ones.                          *)
(***************************************************************************)
EXTENDS Naturals, Sequences

CONSTANTS Session, Message

VARIABLES
    accepted,   \* per session, what Send returned nil for, in order
    delivered   \* per session, what was written to the worker's stream

channelVars == <<accepted, delivered>>

ChannelInit ==
    /\ accepted = [s \in Session |-> <<>>]
    /\ delivered = [s \in Session |-> <<>>]

Accept(s, m) ==
    /\ accepted' = [accepted EXCEPT ![s] = Append(@, m)]
    /\ UNCHANGED delivered

Deliver(s) ==
    /\ Len(delivered[s]) < Len(accepted[s])
    /\ delivered' = [delivered EXCEPT ![s] = Append(@, accepted[s][Len(@) + 1])]
    /\ UNCHANGED accepted

ChannelNext == \E s \in Session : Deliver(s) \/ \E m \in Message : Accept(s, m)

ChannelSpec == ChannelInit /\ [][ChannelNext]_channelVars
=============================================================================
