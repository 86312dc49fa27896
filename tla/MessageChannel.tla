--------------------------- MODULE MessageChannel ---------------------------
(***************************************************************************)
(* What a MessageChannel of apps/relay/src/channel.ts promises each end:   *)
(* messages arrive whole, once, and in the order they were sent, until one *)
(* end is gone.                                                            *)
(***************************************************************************)
EXTENDS Naturals, Sequences

CONSTANTS
  End, Peer(_),  \* the two ends of a channel
  Payload        \* what an end may send

VARIABLES
  sent,   \* per end, the messages it sent
  inbox   \* per end, the messages it received

ChannelInit ==
  /\ sent = [e \in End |-> <<>>]
  /\ inbox = [e \in End |-> <<>>]

Send(e) ==
  /\ \E m \in Payload : sent' = [sent EXCEPT ![e] = Append(@, m)]
  /\ UNCHANGED inbox

Deliver(e) ==
  /\ Len(inbox[e]) < Len(sent[Peer(e)])
  /\ inbox' = [inbox EXCEPT ![e] = Append(@, sent[Peer(e)][Len(@) + 1])]
  /\ UNCHANGED sent

ChannelSpec ==
  ChannelInit /\ [][\E e \in End : Send(e) \/ Deliver(e)]_<<sent, inbox>>
=============================================================================
