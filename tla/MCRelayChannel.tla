--------------------------- MODULE MCRelayChannel ---------------------------
(***************************************************************************)
(* RelayChannel on small windows: a full fragment costs FULL, the smallest *)
(* MIN_COST, and a window holds only a few, so that senders stall.         *)
(***************************************************************************)
EXTENDS RelayChannel

Portable == {"client"}

\* A message of one full fragment and one of the least cost: two overrun a window.
LongShape == {[kind |-> "json", full |-> 1, tail |-> 2]}

\* The daemon says more than the client, and the client enough to overrun the daemon.
MostlyHost == [e \in End |-> IF e = "host" THEN 3 ELSE 2]

-----------------------------------------------------------------------------
\* A message that was admitted reaches the other end's reader, unless an end
\* closes: no stall on credit, parking or a missed wake-up is for ever.
Delivered ==
  \A e \in End : \A k \in 1..MaxMessages[e] :
    (Len(sent[e]) >= k) ~>
      (Len(inbox[Peer(e)]) >= k \/ ~Open(e) \/ ~Open(Peer(e)))
=============================================================================
