-------------------------- MODULE RelayLimitsProofs --------------------------
(***************************************************************************)
(* For every window, queue size, rekey interval and set of messages: both  *)
(* ends of a relay channel rekey at the same fragment, and the queue of a  *)
(* flow controlled portable client never fills.                            *)
(***************************************************************************)
EXTENDS RelayChannelProofs

-----------------------------------------------------------------------------
(* Keys. *)

\* A frame carries the key its sender had reached.
LEMMA SealedKey ==
  ASSUME NEW e, NEW f, NEW total, NEW body
  PROVE  Sealed(e, f, total, body).key = sendCount[e] \div REKEY_INTERVAL
BY DEF Sealed

\* An end whose frames and counters stand still keeps its keys.
LEMMA KeySame ==
  ASSUME NEW d \in End, KeyInv(d), ended'[d] = ended[d], net'[d] = net[d],
         receiveCount'[d] = receiveCount[d], sendCount'[Peer(d)] = sendCount[Peer(d)]
  PROVE  KeyInv(d)'
BY DEF KeyInv, Open

\* A fragment that e seals reaches its peer's wire under the key the peer will have.
LEMMA KeySend ==
  ASSUME TypeOK, NEW e \in End, KeyInv(Peer(e)), NEW f \in FlowType, NEW total \in Totals,
         NEW body \in Bodies, NEW network \in [End -> Seq(Frames)],
         network[Peer(e)] = net[Peer(e)],
         Transmit(e, f, total, body, network),
         ended' = ended, receiveCount'[Peer(e)] = receiveCount[Peer(e)]
  PROVE  /\ KeyInv(Peer(e))'
         /\ net'[e] = network[e] /\ sendCount'[Peer(e)] = sendCount[Peer(e)]
<1> DEFINE p == Peer(e)
           frame == Sealed(e, f, total, body)
<1>1. p \in End /\ p # e /\ Peer(p) = e BY PeerFacts
<1>2. frame \in Frames BY SealedType
<1>3. frame.key = sendCount[e] \div REKEY_INTERVAL BY SealedKey
<1>4. /\ net[p] \in Seq(Frames) /\ receiveCount[p] \in Nat /\ sendCount[e] \in Nat
      /\ sendCount \in [End -> Nat]
  BY <1>1 DEF TypeOK
<1>5. /\ sendCount' = [sendCount EXCEPT ![e] = @ + 1]
      /\ net' = IF Open(p) THEN [network EXCEPT ![p] = Append(@, frame)] ELSE network
  BY DEF Transmit
<1>6. KeyInv(p) /\ network[p] = net[p] /\ ended' = ended /\ receiveCount'[p] = receiveCount[p]
  OBVIOUS
<1> HIDE DEF p, frame
<1>7. sendCount'[e] = sendCount[e] + 1 /\ sendCount'[p] = sendCount[p] BY <1>1, <1>4, <1>5
<1>8. net'[e] = network[e] BY <1>1, <1>5
<1> SUFFICES KeyInv(p)' BY <1>7, <1>8 DEF p
<1>9. CASE ~Open(p) BY <1>6, <1>9 DEF KeyInv, Open
<1>10. CASE Open(p)
  <2>1. net'[p] = Append(net[p], frame) BY <1>1, <1>5, <1>6, <1>10
  <2>0. net[p] \in Seq(Frames) BY <1>4
  <2>2. PICK n \in Nat : n = Len(net[p]) BY <2>0
  <2>3. Len(net'[p]) = n + 1 BY <1>2, <1>4, <2>1, <2>2
  <2>4. receiveCount[p] + n = sendCount[e] BY <1>1, <1>6, <1>10, <2>2 DEF KeyInv
  <2>5. ASSUME NEW i \in 1..(n + 1)
        PROVE  net'[p][i].key = (receiveCount[p] + i - 1) \div REKEY_INTERVAL
    <3>1. CASE i \in 1..n
      <4>1. net'[p][i] = net[p][i] BY <1>2, <1>4, <2>1, <2>2, <3>1
      <4> QED BY <1>6, <1>10, <2>2, <3>1, <4>1 DEF KeyInv
    <3>2. CASE i = n + 1
      <4>1. net'[p][i] = frame BY <1>2, <1>4, <2>1, <2>2, <3>2
      <4>2. receiveCount[p] + i - 1 = sendCount[e] BY <1>4, <2>4, <3>2
      <4> QED BY <1>3, <4>1, <4>2
    <3> QED BY <3>1, <3>2
  <2>6. receiveCount'[p] + Len(net'[p]) = sendCount'[Peer(p)]
    <3>1. sendCount'[Peer(p)] = sendCount[e] + 1 BY <1>1, <1>7
    <3>2. receiveCount'[p] = receiveCount[p] /\ receiveCount[p] \in Nat BY <1>4, <1>6
    <3> QED BY <2>3, <2>4, <3>1, <3>2
  <2>7. ended'[p] # "decrypt" BY <1>6 DEF KeyInv
  <2>8. \A i \in 1..Len(net'[p]) :
          net'[p][i].key = (receiveCount'[p] + i - 1) \div REKEY_INTERVAL
    BY <1>6, <2>3, <2>5
  <2> QED BY <2>6, <2>7, <2>8 DEF KeyInv
<1> QED BY <1>9, <1>10

\* The end that decrypts a frame moves on to the key of the next one.
LEMMA KeyPump ==
  ASSUME TypeOK, NEW e \in End, KeyInv(e), Open(e), net[e] # <<>>,
         net'[e] = Tail(net[e]), Decrypted(e), ended' = ended,
         sendCount'[Peer(e)] = sendCount[Peer(e)]
  PROVE  KeyInv(e)'
<1>1. /\ net[e] \in Seq(Frames) /\ receiveCount[e] \in Nat /\ receiveCount \in [End -> Nat]
  BY DEF TypeOK
<1>2. receiveCount'[e] = receiveCount[e] + 1 BY <1>1 DEF Decrypted
<1>3. PICK n \in Nat : n = Len(net[e]) /\ n >= 1 BY <1>1, HeadFrame
<1>4. /\ Len(net'[e]) = n - 1 /\ \A i \in 1..(n - 1) : net'[e][i] = net[e][i+1]
  BY <1>1, <1>3, HeadFrame
<1>5. ASSUME NEW i \in 1..(n - 1)
      PROVE  net'[e][i].key = (receiveCount'[e] + i - 1) \div REKEY_INTERVAL
  <2>1. i + 1 \in 1..n BY <1>3
  <2>2. net[e][i+1].key = (receiveCount[e] + (i + 1) - 1) \div REKEY_INTERVAL
    BY <1>3, <2>1 DEF KeyInv
  <2>3. receiveCount[e] + (i + 1) - 1 = receiveCount'[e] + i - 1 BY <1>1, <1>2
  <2> QED BY <1>4, <2>2, <2>3
<1>6. receiveCount'[e] + Len(net'[e]) = sendCount'[Peer(e)]
  <2>1. receiveCount[e] + n = sendCount[Peer(e)] BY <1>3 DEF KeyInv
  <2> QED BY <1>1, <1>2, <1>3, <1>4, <2>1
<1> QED BY <1>4, <1>5, <1>6 DEF KeyInv

\* The next frame opens with the key its receiver has.
LEMMA VerdictKey ==
  ASSUME TypeOK, NEW e \in End, KeyInv(e), Open(e), net[e] # <<>>
  PROVE  Verdict(e, Head(net[e])) # "decrypt"
<1>1. net[e] \in Seq(Frames) /\ receiveCount[e] \in Nat BY DEF TypeOK
<1>2. PICK n \in Nat : n = Len(net[e]) /\ n >= 1 BY <1>1, HeadFrame
<1>3. Head(net[e]) = net[e][1] BY <1>1, HeadFrame
<1>4. 1 \in 1..n BY <1>2
<1>5. net[e][1].key = (receiveCount[e] + 1 - 1) \div REKEY_INTERVAL
  BY <1>2, <1>4 DEF KeyInv
<1>6. receiveCount[e] + 1 - 1 = receiveCount[e] BY <1>1
<1>7. Head(net[e]).key = ReceiveKey(e) BY <1>3, <1>5, <1>6 DEF ReceiveKey
<1> QED BY <1>7 DEF Verdict

\* An end that ends for another reason than a key.
LEMMA KeyFinish ==
  ASSUME TypeOK, NEW e \in End, \A d \in End : KeyInv(d),
         NEW why, why \notin {"open", "decrypt"}, Finish(e, why),
         UNCHANGED <<sendCount, receiveCount>>
  PROVE  KeyInv(e)' /\ KeyInv(Peer(e))'
<1>1. Peer(e) \in End /\ Peer(e) # e BY PeerFacts
<1>2. /\ ended'[e] = why /\ ended'[Peer(e)] = ended[Peer(e)] /\ net'[Peer(e)] = net[Peer(e)]
  BY <1>1 DEF Finish, TypeOK
<1>3. KeyInv(Peer(e))' BY <1>1, <1>2, KeySame
<1>4. KeyInv(e)' BY <1>2 DEF KeyInv, Open
<1> QED BY <1>3, <1>4

\* What a credit of e, sent or not, does to the keys.
LEMMA KeyCredit ==
  ASSUME TypeOK, NEW e \in End, \A d \in End : KeyInv(d), NEW f \in FlowType,
         NEW replies \in BOOLEAN, NEW amount \in Nat,
         NEW network \in [End -> Seq(Frames)], network[Peer(e)] = net[Peer(e)],
         SendCredit(e, replies, amount, f, network),
         ended' = ended, receiveCount'[Peer(e)] = receiveCount[Peer(e)]
  PROVE  /\ KeyInv(Peer(e))'
         /\ net'[e] = network[e] /\ sendCount'[Peer(e)] = sendCount[Peer(e)]
<1>1. Peer(e) \in End BY PeerFacts
<1>2. CASE replies
  <2> DEFINE total == [sealed[e] EXCEPT !.credit = @ + amount]
  <2>1. CreditBody(amount) \in Bodies BY DEF CreditBody, Bodies, Chunk, ChunkIds, End, Kinds
  <2>2. total \in Totals BY AddCredit DEF TypeOK
  <2>3. Transmit(e, f, total, CreditBody(amount), network) BY <1>2 DEF SendCredit
  <2> HIDE DEF total
  <2> QED BY <1>1, <2>1, <2>2, <2>3, KeySend
<1>3. CASE ~replies
  <2>1. sendCount' = sendCount /\ net' = network BY <1>3 DEF SendCredit
  <2>2. Peer(Peer(e)) = e BY PeerFacts
  <2> QED BY <1>1, <2>1, <2>2, KeySame
<1> QED BY <1>2, <1>3

\* A read keeps the keys of both ends in step.
LEMMA KeyConsume ==
  ASSUME TypeOK, NEW e \in End, \A d \in End : KeyInv(d), NEW frame \in Frames,
         Consume(e, frame), UNCHANGED <<ended, receiveCount>>
  PROVE  KeyInv(e)' /\ KeyInv(Peer(e))'
<1> DEFINE due == CreditDue(flow[e], Cost(frame))
           f == consumed(flow[e], Cost(frame))
           replies == due > 0 /\ Open(e)
<1>1. Peer(e) \in End BY PeerFacts
<1>2. Cost(frame) \in Nat /\ flow[e] \in FlowType BY FrameFields DEF TypeOK
<1>3. f \in FlowType /\ due \in Nat BY <1>2, ConsumedFacts DEF Same
<1>4. SendCredit(e, replies, due, f, net) BY DEF Consume
<1>5. net \in [End -> Seq(Frames)] BY DEF TypeOK
<1>6. replies \in BOOLEAN OBVIOUS
<1> HIDE DEF due, f, replies
<1>7. KeyInv(Peer(e))' /\ net'[e] = net[e] /\ sendCount'[Peer(e)] = sendCount[Peer(e)]
  BY <1>3, <1>4, <1>5, <1>6, KeyCredit
<1>8. KeyInv(e)' BY <1>7, KeySame
<1> QED BY <1>7, <1>8

\* Every step keeps the keys of both ends in step.
LEMMA KeyStep ==
  ASSUME TypeOK, \A d \in End : KeyInv(d), [Next]_vars
  PROVE  \A d \in End : KeyInv(d)'
<1>1. \A e \in End : \A d \in End : d = e \/ d = Peer(e) BY DEF Peer, End
<1>2. net \in [End -> Seq(Frames)] BY DEF TypeOK
<1>3. CASE FlowControl
  <2>1. PICK e \in End : e = "host" BY DEF End
  <2> DEFINE f == start(flow[e])
  <2>2. f \in FlowType BY <2>1, StartFacts DEF Same, TypeOK
  <2>3. SendCredit(e, TRUE, 0, f, net) /\ UNCHANGED <<ended, receiveCount>>
    BY <1>3, <2>1 DEF FlowControl
  <2> HIDE DEF f
  <2>4. KeyInv(Peer(e))' /\ net'[e] = net[e] /\ sendCount'[Peer(e)] = sendCount[Peer(e)]
    BY <1>2, <2>2, <2>3, KeyCredit
  <2>5. KeyInv(e)' BY <2>3, <2>4, KeySame
  <2> QED BY <1>1, <2>4, <2>5
<1>4. ASSUME NEW e \in End, SendFragment(e) PROVE \A d \in End : KeyInv(d)'
  <2> DEFINE m == Head(outbox[e])
             f == spend(flow[e], NextCost(e))
             total == IF flow[e].limited THEN [sealed[e] EXCEPT !.data = @ + NextCost(e)]
                      ELSE sealed[e]
  <2>1. NextCost(e) \in Nat /\ DataBody(e, m, offset[e] + 1) \in Bodies
    BY <1>4, NextFragment DEF SendFragment
  <2>2. f \in FlowType BY <2>1, SpendFacts DEF Same, TypeOK
  <2>3. total \in Totals
    <3>1. sealed[e] \in Totals BY DEF TypeOK
    <3>2. [sealed[e] EXCEPT !.data = @ + NextCost(e)] \in Totals BY <2>1, <3>1 DEF Totals
    <3> QED BY <3>1, <3>2
  <2>4. /\ Transmit(e, f, total, DataBody(e, m, offset[e] + 1), net)
        /\ UNCHANGED <<ended, receiveCount>>
    BY <1>4 DEF SendFragment
  <2> HIDE DEF f, total, m
  <2>5. Peer(e) \in End BY PeerFacts
  <2>6. KeyInv(Peer(e))' /\ net'[e] = net[e] /\ sendCount'[Peer(e)] = sendCount[Peer(e)]
    BY <1>2, <2>1, <2>2, <2>3, <2>4, <2>5, KeySend
  <2>7. KeyInv(e)' BY <2>4, <2>6, KeySame
  <2> QED BY <1>1, <2>6, <2>7
<1>5. ASSUME NEW e \in End, PumpCredit(e) PROVE \A d \in End : KeyInv(d)'
  <2> DEFINE f == credited(flow[e], Head(net[e]).body.amount)
             rest == [net EXCEPT ![e] = Tail(@)]
  <2>1. Open(e) /\ net[e] # <<>> BY <1>5 DEF PumpCredit, Pumping
  <2>2. Head(net[e]) \in Frames /\ Tail(net[e]) \in Seq(Frames) BY <1>2, <2>1, HeadFrame
  <2>3. Peer(e) \in End /\ Peer(e) # e BY PeerFacts
  <2>4. /\ rest \in [End -> Seq(Frames)] /\ rest[e] = Tail(net[e])
        /\ rest[Peer(e)] = net[Peer(e)]
    BY <1>2, <2>2, <2>3
  <2>5. Head(net[e]).body.amount \in Nat BY <2>2, FrameFields
  <2>6. f \in FlowType BY <2>5, CreditedFacts DEF Same, TypeOK
  <2>7. /\ SendCredit(e, StartReplies(flow[e]), 0, f, rest) /\ Decrypted(e)
        /\ ended' = ended
    BY <1>5 DEF PumpCredit
  <2>8. StartReplies(flow[e]) \in BOOLEAN BY DEF StartReplies
  <2>9. receiveCount'[Peer(e)] = receiveCount[Peer(e)] BY <2>3, <2>7 DEF Decrypted, TypeOK
  <2> HIDE DEF f, rest
  <2>10. KeyInv(Peer(e))' /\ net'[e] = rest[e] /\ sendCount'[Peer(e)] = sendCount[Peer(e)]
    BY <2>4, <2>6, <2>7, <2>8, <2>9, KeyCredit
  <2>11. KeyInv(e)' BY <2>1, <2>4, <2>7, <2>10, KeyPump
  <2> QED BY <1>1, <2>10, <2>11
<1>6. ASSUME NEW e \in End, PumpData(e) PROVE \A d \in End : KeyInv(d)'
  <2>1. Open(e) /\ net[e] # <<>> BY <1>6 DEF PumpData, Pumping
  <2>2. Peer(e) \in End /\ Peer(e) # e BY PeerFacts
  <2>3. /\ net' = [net EXCEPT ![e] = Tail(@)] /\ Decrypted(e)
        /\ UNCHANGED <<ended, sendCount>>
    BY <1>6 DEF PumpData
  <2>4. net'[e] = Tail(net[e]) /\ net'[Peer(e)] = net[Peer(e)] BY <1>2, <2>2, <2>3
  <2>5. receiveCount'[Peer(e)] = receiveCount[Peer(e)] BY <2>2, <2>3 DEF Decrypted, TypeOK
  <2>6. KeyInv(e)' BY <2>1, <2>3, <2>4, KeyPump
  <2>7. KeyInv(Peer(e))' BY <2>2, <2>3, <2>4, <2>5, KeySame
  <2> QED BY <1>1, <2>6, <2>7
<1>7. ASSUME NEW e \in End, PumpFails(e) PROVE \A d \in End : KeyInv(d)'
  <2>1. /\ Open(e) /\ net[e] # <<>> /\ Verdict(e, Head(net[e])) # "open"
        /\ Finish(e, Verdict(e, Head(net[e]))) /\ UNCHANGED <<sendCount, receiveCount>>
    BY <1>7 DEF PumpFails, Pumping
  <2>2. Verdict(e, Head(net[e])) # "decrypt" BY <2>1, VerdictKey
  <2> QED BY <1>1, <2>1, <2>2, KeyFinish
<1>8. ASSUME NEW e \in End, Close(e) PROVE \A d \in End : KeyInv(d)'
  <2>1. Finish(e, "closed") /\ UNCHANGED <<sendCount, receiveCount>> BY <1>8 DEF Close
  <2> QED BY <1>1, <2>1, KeyFinish
<1>9. ASSUME NEW e \in End, ReadQueued(e) PROVE \A d \in End : KeyInv(d)'
  <2>1. /\ plainQueue[e] # <<>> /\ Consume(e, Head(plainQueue[e]))
        /\ UNCHANGED <<ended, receiveCount>>
    BY <1>9 DEF ReadQueued
  <2>2. Head(plainQueue[e]) \in Frames BY <2>1, HeadFrame DEF TypeOK
  <2> QED BY <1>1, <2>1, <2>2, KeyConsume
<1>10. ASSUME NEW e \in End, ReadHanded(e) PROVE \A d \in End : KeyInv(d)'
  <2>1. /\ handed[e] # <<>> /\ Consume(e, Head(handed[e]))
        /\ UNCHANGED <<ended, receiveCount>>
    BY <1>10 DEF ReadHanded
  <2>2. Head(handed[e]) \in Frames BY <2>1, HeadFrame DEF TypeOK
  <2> QED BY <1>1, <2>1, <2>2, KeyConsume
<1>11. ASSUME UNCHANGED <<ended, net, sendCount, receiveCount>> PROVE \A d \in End : KeyInv(d)'
  BY <1>11, KeySame
<1>12. ASSUME NEW e \in End, Admit(e) \/ Wait(e) \/ ReadWaits(e)
       PROVE \A d \in End : KeyInv(d)'
  <2>1. UNCHANGED <<ended, net, sendCount, receiveCount>>
    BY <1>12 DEF Admit, Wait, ReadWaits, wireVars
  <2> QED BY <1>11, <2>1
<1>13. CASE UNCHANGED vars
  <2>1. UNCHANGED <<ended, net, sendCount, receiveCount>> BY <1>13 DEF vars, wireVars
  <2> QED BY <1>11, <2>1
<1> QED BY <1>3, <1>4, <1>5, <1>6, <1>7, <1>8, <1>9, <1>10, <1>12, <1>13 DEF Next

\* Both ends rekey at the same fragment, for every rekey interval and every order
\* in which credits and data are written: no frame is ever refused for its key.
THEOREM KeysAreInStep == Spec => []KeysInStep
<1> DEFINE Inv == TypeOK /\ \A e \in End : KeyInv(e)
<1>1. Init => Inv
  <2> SUFFICES ASSUME Init PROVE Inv OBVIOUS
  <2>1. TypeOK BY TypeInit
  <2>2. ASSUME NEW e \in End PROVE KeyInv(e)
    <3>1. Peer(e) \in End BY PeerFacts
    <3>2. ended[e] = "open" /\ net[e] = <<>> /\ receiveCount[e] = 0 /\ sendCount[Peer(e)] = 0
      BY <3>1 DEF Init
    <3>3. Len(net[e]) = 0 BY <3>2
    <3> QED BY <3>2, <3>3 DEF KeyInv
  <2> QED BY <2>1, <2>2
<1>2. Inv /\ [Next]_vars => Inv' BY TypeStep, KeyStep
<1>3. Inv => KeysInStep BY DEF KeyInv, KeysInStep
<1> QED BY <1>1, <1>2, <1>3, PTL DEF Spec

-----------------------------------------------------------------------------
(* What the client's queue holds. *)

\* More bytes of no more cost.
LEMMA Widen == \A s, a, b, m, c \in Int : b <= s - a /\ m <= c => b + m <= (s + c) - a
OBVIOUS

\* A suffix that grows at its end grows by as much as the next one.
LEMMA Shift == \A x, y, l, m \in Int : x = y + l => x + m = (y + m) + l
OBVIOUS

\* A step that leaves the queue and what is ahead of each fragment alone.
LEMMA RoomSame ==
  ASSUME TypeOK, NEW e \in End, Room(e),
         plainQueue'[e] = plainQueue[e], plainBytes'[e] = plainBytes[e],
         \A i \in Int : Ahead(e, i)' = Ahead(e, i), seen'[e].data = seen[e].data
  PROVE  Room(e)'
<1>1. Len(plainQueue[e]) \in Nat BY StateFacts
<1>2. PICK n \in Nat : n = Len(plainQueue[e]) BY <1>1
<1>3. PICK bytes \in [1..(n + 1) -> Int] : Holds(e, bytes) BY <1>2 DEF Room
<1>4. /\ bytes[1] = plainBytes[e] /\ bytes[n + 1] = 0
      /\ \A i \in 1..n : bytes[i] = bytes[i+1] + plainQueue[e][i].body.length
      /\ \A i \in 1..(n+1) : /\ bytes[i] <= seen[e].data - Ahead(e, i)
                             /\ (n + 1 - i) * MIN_COST <= seen[e].data - Ahead(e, i)
  BY <1>2, <1>3 DEF Holds
<1>5. ASSUME NEW i \in 1..(n+1)
      PROVE  /\ bytes[i] <= seen'[e].data - Ahead(e, i)'
             /\ (n + 1 - i) * MIN_COST <= seen'[e].data - Ahead(e, i)'
  <2>1. Ahead(e, i)' = Ahead(e, i) OBVIOUS
  <2> QED BY <1>4, <2>1
<1>6. \A i \in 1..n : bytes[i] = bytes[i+1] + plainQueue'[e][i].body.length BY <1>4
<1>7. bytes[1] = plainBytes'[e] /\ bytes[n + 1] = 0 /\ Len(plainQueue'[e]) = n BY <1>2, <1>4
<1>8. Holds(e, bytes)' BY <1>5, <1>6, <1>7 DEF Holds
<1> QED BY <1>3, <1>7, <1>8 DEF Room

\* A counted fragment joins the queue: every suffix holds and costs that much more.
LEMMA RoomPush ==
  ASSUME TypeOK, NEW e \in End, Room(e), QueueInv(e), NEW frame \in Frames,
         plainQueue'[e] = Append(plainQueue[e], frame), handed'[e] = handed[e],
         plainBytes'[e] = plainBytes[e] + frame.body.length, taken'[e] = taken[e],
         frame.data = seen[e].data + Cost(frame), seen'[e].data = frame.data
  PROVE  Room(e)'
<1>0. /\ plainQueue[e] \in Seq(Frames) /\ Len(plainQueue[e]) \in Nat
      /\ seen[e].data \in Nat
  BY StateFacts
<1>1. PICK n \in Nat : n = Len(plainQueue[e]) BY <1>0
<1>2. PICK bytes \in [1..(n + 1) -> Int] : Holds(e, bytes) BY <1>1 DEF Room
<1> DEFINE more == frame.body.length
           next == [i \in 1..(n + 2) |-> IF i = n + 2 THEN 0 ELSE bytes[i] + more]
<1>3. more \in Nat /\ Cost(frame) \in Nat /\ more <= Cost(frame) /\ MIN_COST <= Cost(frame)
  BY FrameFields, FlowAssumption DEF Cost, fragmentCost
<1>4. /\ Len(plainQueue'[e]) = n + 1 /\ plainQueue'[e][n + 1] = frame
      /\ \A i \in 1..n : plainQueue'[e][i] = plainQueue[e][i]
  BY <1>0, <1>1
<1>5. \A i \in 1..(n + 1) : Ahead(e, i)' = Ahead(e, i) BY <1>1, <1>4 DEF Ahead
<1>6. Ahead(e, n + 2)' = frame.data
  <2>1. n + 2 > 1 /\ (n + 2) - 1 = n + 1 BY <1>1
  <2> QED BY <1>4, <2>1 DEF Ahead
<1>7. Ahead(e, n + 1) = seen[e].data BY <1>1 DEF QueueInv
<1>8. /\ bytes[1] = plainBytes[e] /\ bytes[n + 1] = 0
      /\ \A i \in 1..n : bytes[i] = bytes[i+1] + plainQueue[e][i].body.length
      /\ \A i \in 1..(n+1) : /\ bytes[i] <= seen[e].data - Ahead(e, i)
                             /\ (n + 1 - i) * MIN_COST <= seen[e].data - Ahead(e, i)
  BY <1>1, <1>2 DEF Holds
<1> HIDE DEF more
<1>9. next \in [1..(n + 2) -> Int] BY <1>2, <1>3
<1>10. /\ next[n + 2] = 0 /\ \A i \in 1..(n + 1) : next[i] = bytes[i] + more
  BY <1>1
<1> HIDE DEF next
<1>11. next[1] = plainBytes'[e] BY <1>8, <1>10 DEF more
<1>12. ASSUME NEW i \in 1..(n + 1) PROVE next[i] = next[i+1] + plainQueue'[e][i].body.length
  <2>1. CASE i = n + 1
    <3>1. next[i] = 0 + more /\ next[i+1] = 0 BY <1>3, <1>8, <1>10, <2>1
    <3> QED BY <1>3, <1>4, <2>1, <3>1 DEF more
  <2>2. CASE i \in 1..n
    <3>0. plainQueue[e][i] \in Frames BY <1>0, <1>1, <2>2
    <3>9. plainQueue[e][i].body.length \in Nat BY <3>0, FrameFields
    <3>1. PICK l \in Nat : l = plainQueue[e][i].body.length BY <3>9
    <3>2. i + 1 \in 1..(n + 1) BY <2>2
    <3>3. PICK x \in Int, y \in Int : x = bytes[i] /\ y = bytes[i+1] BY <1>2, <3>2
    <3>4. x = y + l BY <1>8, <2>2, <3>1, <3>3
    <3>5. next[i] = x + more /\ next[i+1] = y + more BY <1>10, <3>2, <3>3
    <3>6. x + more = (y + more) + l BY <1>3, <3>4, Shift
    <3>7. plainQueue'[e][i] = plainQueue[e][i] BY <1>4, <2>2
    <3>8. plainQueue'[e][i].body.length = l BY <3>1, <3>7
    <3>10. next[i+1] + plainQueue'[e][i].body.length = (y + more) + l BY <3>5, <3>8, Zenon
    <3> QED BY <3>5, <3>6, <3>10, Zenon
  <2>3. i = n + 1 \/ i \in 1..n OBVIOUS
  <2> QED BY <2>1, <2>2, <2>3
<1>13. ASSUME NEW i \in 1..(n + 2)
       PROVE  /\ next[i] <= seen'[e].data - Ahead(e, i)'
              /\ (n + 2 - i) * MIN_COST <= seen'[e].data - Ahead(e, i)'
  <2>1. CASE i = n + 2
    <3>1. n + 2 - i = 0 /\ frame.data \in Nat BY <1>0, <1>3, <2>1, SMTT(30)
    <3>2. (n + 2 - i) * MIN_COST = 0 BY <3>1, FlowAssumption
    <3> QED BY <1>6, <1>10, <2>1, <3>1, <3>2
  <2>2. CASE i \in 1..(n + 1)
    <3> DEFINE a == Ahead(e, i)
               k == (n + 1 - i) * MIN_COST
    <3>1. bytes[i] <= seen[e].data - a /\ k <= seen[e].data - a BY <1>8, <2>2
    <3>2. (n + 2 - i) * MIN_COST = k + MIN_COST BY <1>1, FlowAssumption
    <3>3. k \in Int /\ MIN_COST \in Int BY <1>1, FlowAssumption
    <3>4. a \in Int
      <4>1. CASE i > 1
        <5>1. i - 1 \in 1..n BY <2>2, <4>1
        <5>2. plainQueue[e][i-1] \in Frames BY <1>0, <1>1, <5>1
        <5> QED BY <4>1, <5>2, FrameFields DEF Ahead
      <4>2. CASE ~(i > 1) /\ handed[e] # <<>>
        <5>1. handed[e][1] \in Frames BY <4>2, StateFacts, HeadFrame
        <5> QED BY <4>2, <5>1, FrameFields DEF Ahead
      <4>3. CASE ~(i > 1) /\ ~(handed[e] # <<>>) BY <4>3, StateFacts DEF Ahead
      <4> QED BY <4>1, <4>2, <4>3
    <3>5. bytes[i] \in Int BY <1>2, <2>2
    <3>6. Ahead(e, i)' = a BY <1>5, <2>2
    <3> HIDE DEF a, k
    <3>9. seen[e].data \in Int /\ more \in Int /\ Cost(frame) \in Int BY <1>0, <1>3
    <3>7. bytes[i] + more <= frame.data - a
      BY <1>3, <3>1, <3>4, <3>5, <3>9, Widen
    <3>8. k + MIN_COST <= frame.data - a
      BY <1>3, <3>1, <3>3, <3>4, <3>9, Widen
    <3> QED BY <1>10, <2>2, <3>2, <3>6, <3>7, <3>8
  <2> QED BY <2>1, <2>2
<1>14. Holds(e, next)'
  <2>1. Len(plainQueue'[e]) + 1 = n + 2 BY <1>4
  <2> QED BY <1>4, <1>10, <1>11, <1>12, <1>13, <2>1 DEF Holds
<1>15. next \in [1..(Len(plainQueue'[e]) + 1) -> Int] BY <1>4, <1>9
<1> QED BY <1>14, <1>15 DEF Room

\* A fragment is handed over: the queue stays empty.
LEMMA RoomHand ==
  ASSUME TypeOK, NEW e \in End, Room(e), QueueInv(e), NEW frame \in Frames, waiting[e],
         plainQueue'[e] = plainQueue[e], plainBytes'[e] = plainBytes[e],
         handed'[e] = <<frame>>, seen'[e].data = frame.data
  PROVE  Room(e)'
<1>1. plainQueue[e] = <<>> /\ Len(plainQueue[e]) = 0 BY DEF QueueInv
<1>2. PICK bytes \in [1..(0 + 1) -> Int] : Holds(e, bytes) BY <1>1 DEF Room
<1>3. bytes[1] = 0 /\ plainBytes[e] = 0 BY <1>1, <1>2 DEF Holds
<1>4. Ahead(e, 1)' = frame.data BY DEF Ahead
<1>5. \A i \in 1..(0 + 1) : i = 1 OBVIOUS
<1>6. frame.data \in Nat BY FrameFields
<1>7. /\ bytes[1] <= seen'[e].data - Ahead(e, 1)'
      /\ (0 + 1 - 1) * MIN_COST <= seen'[e].data - Ahead(e, 1)'
  BY <1>3, <1>4, <1>6, FlowAssumption
<1>8. Holds(e, bytes)'
  <2>1. Len(plainQueue'[e]) = 0 BY <1>1
  <2>2. \A i \in 1..(0 + 1) : /\ bytes[i] <= seen'[e].data - Ahead(e, i)'
                              /\ (0 + 1 - i) * MIN_COST <= seen'[e].data - Ahead(e, i)'
    BY <1>5, <1>7
  <2> QED BY <1>3, <2>1, <2>2 DEF Holds
<1> QED BY <1>1, <1>2, <1>8 DEF Room

\* The reader takes the head of the queue: the suffixes shift.
LEMMA RoomTakeQueued ==
  ASSUME TypeOK, NEW e \in End, Room(e), handed[e] = <<>>, plainQueue[e] # <<>>,
         plainQueue'[e] = Tail(plainQueue[e]), handed'[e] = handed[e],
         plainBytes'[e] = plainBytes[e] - plainQueue[e][1].body.length,
         taken'[e] = plainQueue[e][1].data, seen'[e] = seen[e]
  PROVE  Room(e)'
<1>0. plainQueue[e] \in Seq(Frames) /\ Len(plainQueue[e]) \in Nat /\ Len(plainQueue[e]) >= 1
  BY StateFacts, HeadFrame
<1>1. PICK n \in Nat : n + 1 = Len(plainQueue[e])
  <2>1. Len(plainQueue[e]) - 1 \in Nat /\ (Len(plainQueue[e]) - 1) + 1 = Len(plainQueue[e])
    BY <1>0
  <2> QED BY <2>1
<1>2. PICK bytes \in [1..(n + 2) -> Int] : Holds(e, bytes)
  <2>1. Len(plainQueue[e]) + 1 = n + 2 BY <1>1
  <2> QED BY <2>1 DEF Room
<1> DEFINE next == [i \in 1..(n + 1) |-> bytes[i+1]]
<1>3. /\ Len(plainQueue'[e]) = n /\ \A i \in 1..n : plainQueue'[e][i] = plainQueue[e][i + 1]
  BY <1>0, <1>1, HeadFrame
<1>4. /\ bytes[1] = plainBytes[e] /\ bytes[(n + 1) + 1] = 0
      /\ \A i \in 1..(n + 1) : bytes[i] = bytes[i+1] + plainQueue[e][i].body.length
      /\ \A i \in 1..(n + 1 + 1) :
           /\ bytes[i] <= seen[e].data - Ahead(e, i)
           /\ ((n + 1) + 1 - i) * MIN_COST <= seen[e].data - Ahead(e, i)
  BY <1>1, <1>2 DEF Holds
<1>5. next \in [1..(n + 1) -> Int] BY <1>2
<1>6. \A i \in 1..(n + 1) : next[i] = bytes[i+1] OBVIOUS
<1> HIDE DEF next
<1>7. ASSUME NEW i \in 1..(n + 1) PROVE Ahead(e, i)' = Ahead(e, i + 1)
  <2>1. i + 1 > 1 /\ (i + 1) - 1 = i OBVIOUS
  <2>2. Ahead(e, i + 1) = plainQueue[e][i].data BY <2>1 DEF Ahead
  <2>3. CASE i = 1 BY <2>2, <2>3 DEF Ahead
  <2>4. CASE i > 1
    <3>1. i - 1 \in 1..n /\ (i - 1) + 1 = i BY <2>4
    <3>2. plainQueue'[e][i - 1] = plainQueue[e][i] BY <1>3, <3>1
    <3> QED BY <2>2, <2>4, <3>2 DEF Ahead
  <2> QED BY <2>3, <2>4
<1>8. next[1] = plainBytes'[e]
  <2>1. 1 \in 1..(n + 1) /\ 1 + 1 \in 1..(n + 2) BY <1>1
  <2>2. bytes[1] = bytes[1 + 1] + plainQueue[e][1].body.length BY <1>4, <2>1
  <2>3. plainQueue[e][1].body.length \in Nat BY <1>0, HeadFrame, FrameFields
  <2>4. bytes[1] \in Int /\ bytes[1 + 1] \in Int BY <1>2, <2>1
  <2>5. next[1] = bytes[1 + 1] BY <1>6, <2>1
  <2>6. \A x, y, l \in Int : x = y + l => y = x - l OBVIOUS
  <2>7. bytes[1 + 1] = bytes[1] - plainQueue[e][1].body.length BY <2>2, <2>3, <2>4, <2>6
  <2> QED BY <1>4, <2>5, <2>7
<1>9. next[n + 1] = 0
  <2>1. n + 1 \in 1..(n + 1) BY <1>1
  <2> QED BY <1>4, <1>6, <2>1
<1>10. ASSUME NEW i \in 1..n PROVE next[i] = next[i+1] + plainQueue'[e][i].body.length
  <2>1. i + 1 \in 1..(n + 1) OBVIOUS
  <2>2. bytes[i+1] = bytes[(i+1)+1] + plainQueue[e][i+1].body.length BY <1>4, <2>1
  <2> QED BY <1>3, <1>6, <2>1, <2>2
<1>11. ASSUME NEW i \in 1..(n + 1)
       PROVE  /\ next[i] <= seen'[e].data - Ahead(e, i)'
              /\ (n + 1 - i) * MIN_COST <= seen'[e].data - Ahead(e, i)'
  <2>1. i + 1 \in 1..(n + 1 + 1) OBVIOUS
  <2>2. (n + 1) + 1 - (i + 1) = n + 1 - i BY <1>1
  <2>3. /\ bytes[i+1] <= seen[e].data - Ahead(e, i+1)
        /\ (n + 1 - i) * MIN_COST <= seen[e].data - Ahead(e, i+1)
    BY <1>4, <2>1, <2>2
  <2> QED BY <1>6, <1>7, <2>3
<1>12. Holds(e, next)' BY <1>3, <1>8, <1>9, <1>10, <1>11 DEF Holds
<1> QED BY <1>3, <1>5, <1>12 DEF Room

-----------------------------------------------------------------------------
(* Every data fragment for a client that asked is counted. *)

\* A shorter wire holds no other frames, and a longer one only the new frame.
LEMMA CountedTail ==
  ASSUME NEW q \in Seq(Frames), q # <<>>, CountedFrames(q) PROVE CountedFrames(Tail(q))
<1>1. PICK n \in Nat : n = Len(q) /\ n >= 1 BY HeadFrame
<1>2. Len(Tail(q)) = n - 1 /\ \A i \in 1..(n - 1) : Tail(q)[i] = q[i+1] BY <1>1, HeadFrame
<1>3. \A i \in 1..(n - 1) : i + 1 \in 1..n BY <1>1
<1> QED BY <1>1, <1>2, <1>3 DEF CountedFrames

\* A credit or a limited frame may follow counted frames.
LEMMA CountedAppend ==
  ASSUME NEW q \in Seq(Frames), NEW frame \in Frames, CountedFrames(q),
         frame.body.isCredit \/ frame.lim
  PROVE  CountedFrames(Append(q, frame))
<1>1. PICK n \in Nat : n = Len(q) OBVIOUS
<1>2. /\ Len(Append(q, frame)) = n + 1 /\ Append(q, frame)[n + 1] = frame
      /\ \A i \in 1..n : Append(q, frame)[i] = q[i]
  BY <1>1
<1>3. \A i \in 1..(n + 1) : i = n + 1 \/ i \in 1..n BY <1>1
<1> QED BY <1>1, <1>2, <1>3 DEF CountedFrames

\* What an end seals leaves the client's wire counted, if it is a credit, comes from
\* a limited host, or goes to the host.
LEMMA CountedSend ==
  ASSUME TypeOK, NEW e \in End, NEW f \in FlowType, NEW total \in Totals, NEW body \in Bodies,
         NEW network \in [End -> Seq(Frames)], Transmit(e, f, total, body, network),
         e = "host" => body.isCredit \/ f.limited, CountedFrames(network["client"])
  PROVE  CountedFrames(net'["client"])
<1> DEFINE frame == Sealed(e, f, total, body)
<1>1. frame \in Frames BY SealedType
<1>2. frame.body = body /\ frame.lim = f.limited BY SealedFields
<1>3. net' = IF Open(Peer(e)) THEN [network EXCEPT ![Peer(e)] = Append(@, frame)] ELSE network
  BY DEF Transmit
<1> HIDE DEF frame
<1>4. "client" \in End BY DEF End
<1>5. CASE Open(Peer(e)) /\ Peer(e) = "client"
  <2>1. e = "host" BY <1>5 DEF Peer, End
  <2>2. net'["client"] = Append(network["client"], frame) BY <1>3, <1>4, <1>5
  <2> QED BY <1>1, <1>2, <1>4, <2>1, <2>2, CountedAppend
<1>6. CASE ~(Open(Peer(e)) /\ Peer(e) = "client")
  <2>1. net'["client"] = network["client"] BY <1>3, <1>4, <1>6
  <2> QED BY <2>1
<1> QED BY <1>5, <1>6

\* Sending a credit keeps what travels to the client counted.
LEMMA CountedCredit ==
  ASSUME TypeOK, NEW e \in End, NEW f \in FlowType, NEW replies \in BOOLEAN, NEW amount \in Nat,
         NEW network \in [End -> Seq(Frames)], SendCredit(e, replies, amount, f, network),
         CountedFrames(network["client"])
  PROVE  CountedFrames(net'["client"])
<1>1. CASE replies
  <2> DEFINE total == [sealed[e] EXCEPT !.credit = @ + amount]
  <2>1. CreditBody(amount) \in Bodies BY DEF CreditBody, Bodies, Chunk, ChunkIds, End, Kinds
  <2>2. CreditBody(amount).isCredit BY DEF CreditBody
  <2>3. total \in Totals BY AddCredit DEF TypeOK
  <2>4. Transmit(e, f, total, CreditBody(amount), network) BY <1>1 DEF SendCredit
  <2> HIDE DEF total
  <2> QED BY <2>1, <2>2, <2>3, <2>4, CountedSend
<1>2. CASE ~replies
  <2>1. net' = network BY <1>2 DEF SendCredit
  <2> QED BY <2>1
<1> QED BY <1>1, <1>2

\* A read leaves the client's wire counted and the host as limited as it was.
LEMMA CountedConsume ==
  ASSUME TypeOK, NEW e \in End, NEW frame \in Frames, Consume(e, frame),
         CountedFrames(net["client"])
  PROVE  /\ CountedFrames(net'["client"])
         /\ flow'["host"].limited = flow["host"].limited
<1> DEFINE due == CreditDue(flow[e], Cost(frame))
           f == consumed(flow[e], Cost(frame))
           replies == due > 0 /\ Open(e)
<1>1. Cost(frame) \in Nat /\ flow[e] \in FlowType BY FrameFields DEF TypeOK
<1>2. f \in FlowType /\ due \in Nat /\ f.limited = flow[e].limited
  BY <1>1, ConsumedFacts DEF Same
<1>3. SendCredit(e, replies, due, f, net) /\ flow' = [flow EXCEPT ![e] = f] BY DEF Consume
<1>4. net \in [End -> Seq(Frames)] /\ "host" \in End BY DEF TypeOK, End
<1>5. replies \in BOOLEAN OBVIOUS
<1> HIDE DEF due, f, replies
<1>6. CountedFrames(net'["client"]) BY <1>2, <1>3, <1>4, <1>5, CountedCredit
<1>7. flow'["host"].limited = flow["host"].limited BY <1>2, <1>3, <1>4 DEF TypeOK
<1> QED BY <1>6, <1>7

\* The host sends nothing to a client that asked before it limits itself, and a
\* limited host stays so: every step keeps all data for the client counted.
LEMMA CountedStep ==
  ASSUME TypeOK, AllCounted, [Next]_vars
  PROVE  AllCounted'
<1> SUFFICES ASSUME asks'
             PROVE  /\ outbox'["host"] # <<>> => flow'["host"].limited
                    /\ CountedFrames(net'["client"])
  BY DEF AllCounted, CountedFrames
<1>1. /\ net \in [End -> Seq(Frames)] /\ flow \in [End -> FlowType]
      /\ outbox \in [End -> Seq(Messages)] /\ "host" \in End /\ "client" \in End
  BY DEF TypeOK, End
<1>2. asks' = asks
  BY ZenonT(60) DEF Next, vars, FlowControl, Admit, Wait, SendFragment, PumpCredit, PumpData, PumpFails,
         ReadQueued, ReadWaits, ReadHanded, Close
<1>3. (outbox["host"] # <<>> => flow["host"].limited) /\ CountedFrames(net["client"])
  BY <1>2 DEF AllCounted
<1>4. CASE FlowControl
  <2> DEFINE f == start(flow["host"])
  <2>1. f \in FlowType /\ f.limited BY <1>1, StartFacts DEF Same
  <2>2. SendCredit("host", TRUE, 0, f, net) /\ flow' = [flow EXCEPT !["host"] = f]
    BY <1>4 DEF FlowControl
  <2> HIDE DEF f
  <2>3. CountedFrames(net'["client"]) BY <1>1, <1>3, <2>1, <2>2, CountedCredit
  <2> QED BY <1>1, <2>1, <2>2, <2>3
<1>5. ASSUME NEW e \in End, Admit(e)
      PROVE  /\ outbox'["host"] # <<>> => flow'["host"].limited
             /\ CountedFrames(net'["client"])
  <2>1. net' = net /\ flow' = flow /\ MaySend(e) BY <1>5 DEF Admit, wireVars
  <2>2. CASE e = "host" BY <1>2, <1>3, <2>1, <2>2 DEF MaySend
  <2>3. CASE e # "host"
    <3>1. outbox'["host"] = outbox["host"] BY <1>1, <1>5, <2>3 DEF Admit
    <3> QED BY <1>3, <2>1, <3>1
  <2> QED BY <2>2, <2>3
<1>6. ASSUME NEW e \in End, SendFragment(e)
      PROVE  /\ outbox'["host"] # <<>> => flow'["host"].limited
             /\ CountedFrames(net'["client"])
  <2> DEFINE m == Head(outbox[e])
             body == DataBody(e, m, offset[e] + 1)
             f == spend(flow[e], NextCost(e))
             total == IF flow[e].limited THEN [sealed[e] EXCEPT !.data = @ + NextCost(e)]
                      ELSE sealed[e]
  <2>1. outbox[e] # <<>> /\ NextCost(e) \in Nat /\ body \in Bodies
    BY <1>6, NextFragment DEF SendFragment
  <2>2. f \in FlowType /\ f.limited = flow[e].limited BY <1>1, <2>1, SpendFacts DEF Same
  <2>3. total \in Totals
    <3>1. sealed[e] \in Totals BY DEF TypeOK
    <3>2. [sealed[e] EXCEPT !.data = @ + NextCost(e)] \in Totals BY <2>1, <3>1 DEF Totals
    <3> QED BY <3>1, <3>2
  <2>4. Transmit(e, f, total, body, net) /\ flow' = [flow EXCEPT ![e] = f]
    BY <1>6 DEF SendFragment
  <2>5. outbox'["host"] # <<>> => outbox["host"] # <<>>
    <3>1. CASE e = "host" BY <2>1, <3>1
    <3>2. CASE e # "host" BY <1>1, <1>6, <3>2 DEF SendFragment
    <3> QED BY <3>1, <3>2
  <2> HIDE DEF f, total, m, body
  <2>6. CountedFrames(net'["client"])
    BY <1>1, <1>3, <2>1, <2>2, <2>3, <2>4, CountedSend
  <2>7. flow'["host"].limited = flow["host"].limited BY <1>1, <2>2, <2>4
  <2> QED BY <1>3, <2>5, <2>6, <2>7
<1>7. ASSUME NEW e \in End, PumpCredit(e)
      PROVE  /\ outbox'["host"] # <<>> => flow'["host"].limited
             /\ CountedFrames(net'["client"])
  <2> DEFINE f == credited(flow[e], Head(net[e]).body.amount)
             rest == [net EXCEPT ![e] = Tail(@)]
  <2>1. net[e] # <<>> BY <1>7 DEF PumpCredit, Pumping
  <2>2. Head(net[e]) \in Frames /\ Tail(net[e]) \in Seq(Frames) BY <1>1, <2>1, HeadFrame
  <2>3. rest \in [End -> Seq(Frames)] BY <1>1, <2>2
  <2>4. Head(net[e]).body.amount \in Nat BY <2>2, FrameFields
  <2>5. f \in FlowType /\ f.limited BY <1>1, <2>4, CreditedFacts DEF Same
  <2>6. /\ SendCredit(e, StartReplies(flow[e]), 0, f, rest)
        /\ flow' = [flow EXCEPT ![e] = f] /\ outbox' = outbox
    BY <1>7 DEF PumpCredit
  <2>7. StartReplies(flow[e]) \in BOOLEAN BY DEF StartReplies
  <2>8. CountedFrames(rest["client"])
    <3>1. CASE e = "client" BY <1>1, <1>3, <2>1, <3>1, CountedTail
    <3>2. CASE e # "client" BY <1>1, <1>3, <3>2
    <3> QED BY <3>1, <3>2
  <2> HIDE DEF f, rest
  <2>9. CountedFrames(net'["client"]) BY <2>3, <2>5, <2>6, <2>7, <2>8, CountedCredit
  <2> QED BY <1>1, <1>3, <2>5, <2>6, <2>9
<1>8. ASSUME NEW e \in End, PumpData(e)
      PROVE  /\ outbox'["host"] # <<>> => flow'["host"].limited
             /\ CountedFrames(net'["client"])
  <2> DEFINE f == received(flow[e], Cost(Head(net[e])))
  <2>1. net[e] # <<>> BY <1>8 DEF PumpData, Pumping
  <2>2. Cost(Head(net[e])) \in Nat BY <1>1, <2>1, HeadFrame, FrameFields
  <2>3. f.limited = flow[e].limited BY <1>1, <2>2, ReceivedFacts DEF Same
  <2>4. /\ net' = [net EXCEPT ![e] = Tail(@)] /\ flow' = [flow EXCEPT ![e] = f]
        /\ outbox' = outbox
    BY <1>8 DEF PumpData, sendVars
  <2> HIDE DEF f
  <2>5. CountedFrames(net'["client"])
    <3>1. CASE e = "client" BY <1>1, <1>3, <2>1, <2>4, <3>1, CountedTail
    <3>2. CASE e # "client" BY <1>1, <1>3, <2>4, <3>2
    <3> QED BY <3>1, <3>2
  <2> QED BY <1>1, <1>3, <2>3, <2>4, <2>5
<1>9. ASSUME NEW e \in End, PumpFails(e) \/ Close(e)
      PROVE  /\ outbox'["host"] # <<>> => flow'["host"].limited
             /\ CountedFrames(net'["client"])
  <2>1. /\ net' = [net EXCEPT ![e] = <<>>] /\ outbox' = [outbox EXCEPT ![e] = <<>>]
        /\ flow' = flow
    BY <1>9 DEF PumpFails, Close, Finish
  <2>2. CountedFrames(net'["client"])
    <3>1. CASE e = "client"
      <4>1. Len(net'["client"]) = 0 BY <1>1, <2>1, <3>1
      <4> QED BY <4>1 DEF CountedFrames
    <3>2. CASE e # "client" BY <1>1, <1>3, <2>1, <3>2
    <3> QED BY <3>1, <3>2
  <2> QED BY <1>1, <1>3, <2>1, <2>2
<1>10. ASSUME NEW e \in End, ReadQueued(e) \/ ReadHanded(e)
       PROVE  /\ outbox'["host"] # <<>> => flow'["host"].limited
              /\ CountedFrames(net'["client"])
  <2>1. outbox' = outbox BY <1>10 DEF ReadQueued, ReadHanded, sendVars
  <2>2. PICK frame \in Frames : Consume(e, frame)
    <3>1. CASE ReadQueued(e)
      <4>1. plainQueue[e] # <<>> /\ Consume(e, Head(plainQueue[e])) BY <3>1 DEF ReadQueued
      <4> QED BY <4>1, HeadFrame DEF TypeOK
    <3>2. CASE ReadHanded(e)
      <4>1. handed[e] # <<>> /\ Consume(e, Head(handed[e])) BY <3>2 DEF ReadHanded
      <4> QED BY <4>1, HeadFrame DEF TypeOK
    <3> QED BY <1>10, <3>1, <3>2
  <2> QED BY <1>3, <2>1, <2>2, CountedConsume
<1>11. ASSUME UNCHANGED <<outbox, flow, net>>
       PROVE  /\ outbox'["host"] # <<>> => flow'["host"].limited
              /\ CountedFrames(net'["client"])
  BY <1>3, <1>11
<1>12. ASSUME NEW e \in End, Wait(e) \/ ReadWaits(e) PROVE UNCHANGED <<outbox, flow, net>>
  BY <1>12 DEF Wait, ReadWaits, sendVars, wireVars
<1>13. UNCHANGED vars => UNCHANGED <<outbox, flow, net>> BY DEF vars, sendVars, wireVars
<1> QED
  BY <1>4, <1>5, <1>6, <1>7, <1>8, <1>9, <1>10, <1>11, <1>12, <1>13 DEF Next

-----------------------------------------------------------------------------
(* The client's queue never fills. *)

\* A whole number of least costs within a whole number of them.
LEMMA Fewer ==
  ASSUME NEW a \in Nat, NEW b \in Nat, NEW m \in Nat, m > 0, a * m <= b * m
  PROVE  a <= b
<1> SUFFICES ASSUME a >= b + 1 PROVE FALSE OBVIOUS
<1>1. a * m >= (b + 1) * m
  <2>1. PICK d \in Nat : a = (b + 1) + d
    <3>1. a - (b + 1) \in Nat /\ a = (b + 1) + (a - (b + 1)) OBVIOUS
    <3> QED BY <3>1
  <2>2. a * m = (b + 1) * m + d * m BY <2>1
  <2>3. d * m \in Nat /\ (b + 1) * m \in Nat OBVIOUS
  <2> QED BY <2>2, <2>3
<1>2. (b + 1) * m = b * m + m OBVIOUS
<1>3. b * m \in Nat /\ a * m \in Nat OBVIOUS
<1> QED BY <1>1, <1>2, <1>3

\* What is queued and the next fragment are in flight together, so they fit.
LEMMA VerdictRoom ==
  ASSUME ChannelInv, RoomInv, asks, NEW e \in End, Open(e), net[e] # <<>>
  PROVE  Verdict(e, Head(net[e])) # "queue"
<1> DEFINE p == Peer(e)
           frame == net[e][1]
<1>1. p \in End BY PeerFacts
<1>2. TypeOK /\ Good(e) /\ EndInv(p) BY <1>1 DEF ChannelInv, Good
<1>3. EndInv(e) /\ WireInv(e) /\ CountInv(e) /\ QueueInv(e) BY <1>2 DEF Good
<1>4. /\ frame \in Frames /\ frame = Head(net[e])
      /\ ~frame.body.isCredit =>
           frame.data = seen[e].data + IF frame.lim THEN Cost(frame) ELSE 0
      /\ frame.data <= sealed[p].data
      /\ frame.lim => flow[p].limited
  BY <1>2, <1>3, WireHead
<1> SUFFICES ASSUME ~frame.body.isCredit, e \in PortableEnds PROVE ~QueueFull(e, frame)
  BY <1>4 DEF Verdict, QueueFull
<1>5. e = "client" BY ChannelAssumption
<1>6. frame.lim
  <2>1. CountedFrames(net[e]) BY <1>5 DEF RoomInv, AllCounted
  <2>2. PICK n \in Nat : n = Len(net[e]) /\ n >= 1 BY <1>2, StateFacts, HeadFrame
  <2>3. 1 \in 1..n BY <2>2
  <2> QED BY <2>1, <2>2, <2>3 DEF CountedFrames
<1>7. frame.data = seen[e].data + Cost(frame) BY <1>4, <1>6
<1> HIDE DEF p, frame
<1>18. plainQueue[e] \in Seq(Frames) BY <1>2, StateFacts
<1>8. PICK n \in Nat : n = Len(plainQueue[e]) BY <1>18
<1>9. PICK bytes \in [1..(n + 1) -> Int] : Holds(e, bytes) BY <1>5, <1>8 DEF RoomInv, Room
<1>10. PICK a \in Nat : a = Ahead(e, 1) /\ taken[e] <= a
  <2>1. CASE handed[e] # <<>>
    <3>1. handed[e][1] \in Frames BY <1>2, <2>1, StateFacts, HeadFrame
    <3>2. handed[e][1].data \in Nat /\ Cost(handed[e][1]) \in Nat /\ taken[e] \in Nat
      BY <1>2, <3>1, FrameFields, StateFacts
    <3>3. handed[e][1].data = taken[e] + IF handed[e][1].lim THEN Cost(handed[e][1]) ELSE 0
      BY <1>3, <2>1 DEF QueueInv, HandedInv
    <3>4. taken[e] <= handed[e][1].data BY <3>2, <3>3
    <3>5. Ahead(e, 1) = handed[e][1].data BY <2>1 DEF Ahead
    <3> QED BY <3>2, <3>4, <3>5
  <2>2. CASE handed[e] = <<>>
    <3>1. Ahead(e, 1) = taken[e] /\ taken[e] \in Nat BY <1>2, <2>2, StateFacts DEF Ahead
    <3> QED BY <3>1
  <2> QED BY <2>1, <2>2
<1>11. /\ frame.data \in Nat /\ seen[e].data \in Nat /\ Cost(frame) \in Nat /\ taken[e] \in Nat
       /\ frame.body.length \in Nat /\ sealed[p].data \in Nat /\ plainBytes[e] \in Int
       /\ sealed[e].credit \in Nat
  BY <1>1, <1>2, <1>4, FrameFields, StateFacts DEF TypeOK
<1>12. frame.body.length <= Cost(frame) /\ MIN_COST <= Cost(frame)
  BY <1>11, FlowAssumption DEF Cost, fragmentCost
<1>13. frame.data - a <= FLOW_WINDOW
  <2>1. taken[e] >= sealed[e].credit BY <1>3, <1>11 DEF CountInv
  <2>2. frame.data - sealed[e].credit <= FLOW_WINDOW
    BY <1>2, <1>3, <1>4, <1>6, <1>11, WithinPeersWindow DEF p
  <2> QED BY <1>10, <1>11, <2>1, <2>2, FlowAssumption
<1>14. 1 \in 1..(n + 1) /\ n + 1 - 1 = n BY <1>8
<1>15. plainBytes[e] <= seen[e].data - a /\ n * MIN_COST <= seen[e].data - a
  <2>1. /\ bytes[1] = plainBytes[e] /\ bytes[1] <= seen[e].data - Ahead(e, 1)
        /\ (n + 1 - 1) * MIN_COST <= seen[e].data - Ahead(e, 1)
    BY <1>8, <1>9, <1>14 DEF Holds
  <2> QED BY <1>10, <1>14, <2>1
<1>19. PICK s \in Int, c \in Int, l \in Int, x \in Int, k \in Int :
         /\ s = seen[e].data /\ c = Cost(frame) /\ l = frame.body.length
         /\ x = plainBytes[e] /\ k = n * MIN_COST
  <2>1. n * MIN_COST \in Int BY <1>8, FlowAssumption
  <2>2. /\ seen[e].data \in Int /\ Cost(frame) \in Int /\ frame.body.length \in Int
        /\ plainBytes[e] \in Int
    BY <1>11
  <2> QED BY <2>1, <2>2, Zenon
<1>20. /\ frame.data = s + c /\ l <= c /\ MIN_COST <= c /\ x <= s - a /\ k <= s - a
       /\ (s + c) - a <= FLOW_WINDOW
  BY <1>7, <1>12, <1>13, <1>15, <1>19
<1>16. plainBytes[e] + frame.body.length <= QUEUE_BYTES
  <2>1. x + l <= (s + c) - a BY <1>10, <1>20, Widen
  <2>2. FLOW_WINDOW \in Int /\ QUEUE_BYTES \in Int /\ FLOW_WINDOW <= QUEUE_BYTES
    BY FlowAssumption, ChannelAssumption, QueueAssumption
  <2>3. x + l <= QUEUE_BYTES BY <1>10, <1>20, <2>1, <2>2
  <2> QED BY <1>19, <2>3
<1>17. n + 1 <= QUEUE_COUNT
  <2>1. PICK q \in Int : q = QUEUE_COUNT * MIN_COST BY FlowAssumption, ChannelAssumption
  <2>2. FLOW_WINDOW \in Int /\ MIN_COST \in Int /\ FLOW_WINDOW <= q
    BY <2>1, FlowAssumption, QueueAssumption
  <2>3. k + MIN_COST <= (s + c) - a BY <1>10, <1>20, <2>2, Widen
  <2>4. k + MIN_COST <= q BY <1>10, <1>20, <2>2, <2>3
  <2>5. (n + 1) * MIN_COST = n * MIN_COST + MIN_COST BY <1>8, FlowAssumption
  <2>6. (n + 1) * MIN_COST <= QUEUE_COUNT * MIN_COST BY <1>19, <2>1, <2>4, <2>5
  <2>7. n + 1 \in Nat /\ QUEUE_COUNT \in Nat /\ MIN_COST \in Nat /\ MIN_COST > 0
    BY <1>8, FlowAssumption, ChannelAssumption
  <2> QED BY <2>6, <2>7, Fewer
<1>21. ~(n >= QUEUE_COUNT) BY <1>8, <1>17, ChannelAssumption
<1>22. ~(x + l > QUEUE_BYTES) BY <1>16, <1>19, ChannelAssumption, SMTT(30)
<1> QED BY <1>8, <1>19, <1>21, <1>22 DEF QueueFull

\* A data fragment arrives at the open client: it is counted, and queued or handed over.
LEMMA RoomArrival ==
  ASSUME ChannelInv, AllCounted, asks, NEW e \in End, e = "client", Open(e), Room(e),
         PumpData(e)
  PROVE  Room(e)'
<1> DEFINE frame == net[e][1]
<1>1. TypeOK /\ Good(e) BY DEF ChannelInv
<1>2. net[e] # <<>> BY DEF PumpData, Pumping
<1>3. WireInv(e) /\ QueueInv(e) BY <1>1 DEF Good
<1>4. /\ frame \in Frames /\ frame = Head(net[e])
      /\ ~frame.body.isCredit =>
           frame.data = seen[e].data + IF frame.lim THEN Cost(frame) ELSE 0
  BY <1>1, <1>2, <1>3, WireHead
<1>5. /\ ~frame.body.isCredit
      /\ seen' = [seen EXCEPT ![e] = [data |-> frame.data, credit |-> frame.credit]]
      /\ taken' = taken
  BY <1>4 DEF PumpData, Decrypted
<1>6. frame.lim
  <2>1. CountedFrames(net[e]) BY DEF AllCounted
  <2>2. PICK n \in Nat : n = Len(net[e]) /\ n >= 1 BY <1>1, <1>2, StateFacts, HeadFrame
  <2>3. 1 \in 1..n BY <2>2
  <2> QED BY <1>5, <2>1, <2>2, <2>3 DEF CountedFrames
<1>7. frame.data = seen[e].data + Cost(frame) BY <1>4, <1>5, <1>6
<1>8. seen'[e].data = frame.data BY <1>1, <1>5 DEF TypeOK
<1>9. CASE waiting[e]
  <2>1. /\ handed' = [handed EXCEPT ![e] = <<frame>>]
        /\ plainQueue' = plainQueue /\ plainBytes' = plainBytes
    BY <1>4, <1>9 DEF PumpData
  <2>2. handed'[e] = <<frame>> BY <1>1, <2>1 DEF TypeOK
  <2> QED BY <1>1, <1>3, <1>4, <1>8, <1>9, <2>1, <2>2, RoomHand
<1>10. CASE ~waiting[e]
  <2>1. /\ plainQueue' = [plainQueue EXCEPT ![e] = Append(@, frame)] /\ handed' = handed
        /\ plainBytes' = [plainBytes EXCEPT ![e] = @ + frame.body.length]
    BY <1>4, <1>10 DEF PumpData
  <2>2. /\ plainQueue'[e] = Append(plainQueue[e], frame)
        /\ plainBytes'[e] = plainBytes[e] + frame.body.length
    BY <1>1, <2>1 DEF TypeOK
  <2> QED BY <1>1, <1>3, <1>4, <1>5, <1>7, <1>8, <2>1, <2>2, RoomPush
<1> QED BY <1>9, <1>10

\* Every step leaves the open client room for what may still arrive.
LEMMA RoomStep ==
  ASSUME ChannelInv, AllCounted, asks, NEW c \in End, c = "client",
         Open(c) => Room(c), [Next]_vars
  PROVE  Open(c)' => Room(c)'
<1> SUFFICES ASSUME Open(c)' PROVE Room(c)' OBVIOUS
<1>1. TypeOK /\ Good(c) BY DEF ChannelInv
<1>2. /\ plainQueue \in [End -> Seq(Frames)] /\ plainBytes \in [End -> Int]
      /\ handed \in [End -> Seq(Frames)] /\ taken \in [End -> Nat] /\ seen \in [End -> Totals]
      /\ ended \in [End -> Reasons]
  BY <1>1 DEF TypeOK
<1>3. ASSUME Open(c), plainQueue'[c] = plainQueue[c], plainBytes'[c] = plainBytes[c],
             handed'[c] = handed[c], taken'[c] = taken[c], seen'[c].data = seen[c].data
      PROVE  Room(c)'
  <2>1. \A i \in Int : Ahead(c, i)' = Ahead(c, i) BY <1>3 DEF Ahead
  <2> QED BY <1>1, <1>3, <2>1, RoomSame
<1>4. ASSUME NEW e \in End, PumpCredit(e) PROVE Room(c)'
  <2>1. /\ UNCHANGED <<ended, plainQueue, plainBytes, handed, taken>> /\ Decrypted(e)
        /\ Open(e) /\ net[e] # <<>> /\ Head(net[e]).body.isCredit
    BY <1>4 DEF PumpCredit, Pumping, readVars
  <2>2. seen'[c].data = seen[c].data
    <3>1. CASE e # c BY <1>2, <2>1, <3>1 DEF Decrypted
    <3>2. CASE e = c
      <4>1. WireInv(c) BY <1>1, <2>1, <3>2 DEF Good
      <4>2. Head(net[c]).data = seen[c].data BY <1>1, <2>1, <3>2, <4>1, WireHead
      <4> QED BY <1>2, <2>1, <3>2, <4>2 DEF Decrypted
    <3> QED BY <3>1, <3>2
  <2>3. Open(c) BY <2>1 DEF Open
  <2> QED BY <1>3, <2>1, <2>2, <2>3
<1>5. ASSUME NEW e \in End, PumpData(e) PROVE Room(c)'
  <2>1. ended' = ended /\ taken' = taken /\ Decrypted(e) BY <1>5 DEF PumpData
  <2>2. Open(c) BY <2>1 DEF Open
  <2>3. CASE e = c BY <1>5, <2>2, <2>3, RoomArrival
  <2>4. CASE e # c
    <3>1. /\ plainQueue'[c] = plainQueue[c] /\ plainBytes'[c] = plainBytes[c]
          /\ handed'[c] = handed[c]
      BY <1>2, <1>5, <2>4 DEF PumpData
    <3>2. seen'[c] = seen[c] BY <1>2, <2>1, <2>4 DEF Decrypted
    <3> QED BY <1>3, <2>1, <2>2, <3>1, <3>2
  <2> QED BY <2>3, <2>4
<1>6. ASSUME NEW e \in End, PumpFails(e) \/ Close(e) PROVE Room(c)'
  <2>1. /\ \E why : why # "open" /\ Finish(e, why)
        /\ UNCHANGED <<handed, taken, seen>>
    BY <1>6 DEF PumpFails, Close
  <2>2. PICK why : why # "open" /\ Finish(e, why) BY <2>1
  <2>3. e # c BY <1>2, <2>2 DEF Finish, Open
  <2>4. /\ plainQueue'[c] = plainQueue[c] /\ plainBytes'[c] = plainBytes[c]
        /\ ended'[c] = ended[c]
    BY <1>2, <2>2, <2>3 DEF Finish
  <2>5. Open(c) BY <2>4 DEF Open
  <2> QED BY <1>3, <2>1, <2>4, <2>5
<1>7. ASSUME NEW e \in End, ReadQueued(e) PROVE Room(c)'
  <2> DEFINE frame == plainQueue[e][1]
  <2>1. /\ plainQueue[e] # <<>> /\ handed[e] = <<>> BY <1>7 DEF ReadQueued, ReaderFree
  <2>2. Head(plainQueue[e]) = frame BY <1>2, <2>1, HeadFrame
  <2>3. /\ plainQueue' = [plainQueue EXCEPT ![e] = Tail(@)]
        /\ plainBytes' = [plainBytes EXCEPT ![e] = plainBytes[e] - frame.body.length]
        /\ taken' = [taken EXCEPT ![e] = frame.data]
        /\ UNCHANGED <<ended, handed, seen>>
    BY <1>7, <2>2 DEF ReadQueued, Consume
  <2>4. Open(c) BY <2>3 DEF Open
  <2>5. CASE e = c
    <3>1. /\ plainQueue'[c] = Tail(plainQueue[c]) /\ taken'[c] = plainQueue[c][1].data
          /\ plainBytes'[c] = plainBytes[c] - plainQueue[c][1].body.length
      BY <1>2, <2>3, <2>5
    <3> QED BY <1>1, <2>1, <2>3, <2>4, <2>5, <3>1, RoomTakeQueued
  <2>6. CASE e # c BY <1>2, <1>3, <2>3, <2>4, <2>6
  <2> QED BY <2>5, <2>6
<1>8. ASSUME NEW e \in End, ReadHanded(e) PROVE Room(c)'
  <2> DEFINE frame == handed[e][1]
  <2>1. handed[e] # <<>> BY <1>8 DEF ReadHanded
  <2>2. Head(handed[e]) = frame BY <1>2, <2>1, HeadFrame
  <2>3. /\ handed' = [handed EXCEPT ![e] = <<>>]
        /\ taken' = [taken EXCEPT ![e] = frame.data]
        /\ UNCHANGED <<ended, plainQueue, plainBytes, seen>>
    BY <1>8, <2>2 DEF ReadHanded, Consume
  <2>4. Open(c) BY <2>3 DEF Open
  <2>5. CASE e = c
    <3>1. handed'[c] = <<>> /\ taken'[c] = handed[c][1].data BY <1>2, <2>3, <2>5
    <3>2. \A i \in Int : Ahead(c, i)' = Ahead(c, i) BY <2>1, <2>3, <2>5, <3>1 DEF Ahead
    <3> QED BY <1>1, <2>3, <2>4, <3>2, RoomSame
  <2>6. CASE e # c BY <1>2, <1>3, <2>3, <2>4, <2>6
  <2> QED BY <2>5, <2>6
<1>9. ASSUME UNCHANGED <<ended, plainQueue, plainBytes, handed, taken, seen>> PROVE Room(c)'
  <2>1. Open(c) BY <1>9 DEF Open
  <2> QED BY <1>3, <1>9, <2>1
<1>10. ASSUME NEW e \in End, Admit(e) \/ Wait(e) \/ SendFragment(e) \/ ReadWaits(e)
       PROVE  UNCHANGED <<ended, plainQueue, plainBytes, handed, taken, seen>>
  BY <1>10 DEF Admit, Wait, SendFragment, ReadWaits, readVars
<1>11. FlowControl \/ UNCHANGED vars =>
         UNCHANGED <<ended, plainQueue, plainBytes, handed, taken, seen>>
  BY DEF FlowControl, vars, readVars
<1> QED BY <1>4, <1>5, <1>6, <1>7, <1>8, <1>9, <1>10, <1>11 DEF Next

\* A portable client that asked for flow control never drops the connection because
\* its queue is full, for every window that fits 256 least costs and 1 MiB.
THEOREM QueueAlwaysFits == Spec => []QueueFits
<1> DEFINE Inv == ChannelInv /\ RoomInv
<1>1. Init => Inv
  <2> SUFFICES ASSUME Init PROVE RoomInv BY ChannelInit
  <2>1. "client" \in End /\ "host" \in End BY DEF End
  <2>2. /\ plainQueue["client"] = <<>> /\ plainBytes["client"] = 0 /\ net["client"] = <<>>
        /\ handed["client"] = <<>> /\ taken["client"] = 0 /\ seen["client"].data = 0
        /\ outbox["host"] = <<>>
    BY <2>1 DEF Init
  <2>3. Len(plainQueue["client"]) = 0 /\ Len(net["client"]) = 0 BY <2>2
  <2>4. AllCounted BY <2>2, <2>3 DEF AllCounted, CountedFrames
  <2> DEFINE bytes == [i \in 1..(0 + 1) |-> 0]
  <2>5. bytes \in [1..(0 + 1) -> Int] /\ bytes[1] = 0 OBVIOUS
  <2> HIDE DEF bytes
  <2>6. Ahead("client", 1) = 0 BY <2>2 DEF Ahead
  <2>7. ASSUME NEW i \in 1..(0 + 1)
        PROVE  bytes[i] <= 0 - Ahead("client", i) /\ (0 + 1 - i) * MIN_COST <= 0 - Ahead("client", i)
    <3>1. i = 1 OBVIOUS
    <3>2. (0 + 1 - 1) * MIN_COST = 0 BY FlowAssumption
    <3> QED BY <2>5, <2>6, <3>1, <3>2
  <2>8. Holds("client", bytes) BY <2>2, <2>3, <2>5, <2>7 DEF Holds
  <2>9. Room("client") BY <2>3, <2>5, <2>8 DEF Room
  <2>10. \A e \in End : ended[e] # "queue" BY DEF Init
  <2> QED BY <2>4, <2>9, <2>10 DEF RoomInv
<1>2. Inv /\ [Next]_vars => Inv'
  <2> SUFFICES ASSUME ChannelInv, RoomInv, [Next]_vars PROVE RoomInv' BY ChannelStep
  <2>1. TypeOK /\ AllCounted BY DEF ChannelInv, RoomInv
  <2>2. AllCounted' BY <2>1, CountedStep
  <2>3. asks' = asks
    BY ZenonT(60) DEF Next, vars, FlowControl, Admit, Wait, SendFragment, PumpCredit, PumpData, PumpFails,
           ReadQueued, ReadWaits, ReadHanded, Close
  <2>4. asks /\ Open("client")' => Room("client")'
    <3>1. "client" \in End BY DEF End
    <3> QED BY <2>1, <3>1, RoomStep DEF RoomInv
  <2>5. ASSUME asks, NEW d \in End PROVE ended'[d] # "queue"
    <3>1. ended[d] # "queue" /\ ended \in [End -> Reasons] BY <2>1, <2>5 DEF RoomInv, TypeOK
    <3>2. ASSUME NEW e \in End, PumpFails(e) PROVE ended'[d] # "queue"
      <4>1. /\ Open(e) /\ net[e] # <<>>
            /\ ended' = [ended EXCEPT ![e] = Verdict(e, Head(net[e]))]
        BY <3>2 DEF PumpFails, Pumping, Finish
      <4>2. Verdict(e, Head(net[e])) # "queue" BY <2>5, <4>1, VerdictRoom
      <4> QED BY <3>1, <4>1, <4>2
    <3>3. ASSUME NEW e \in End, Close(e) PROVE ended'[d] # "queue"
      BY <3>1, <3>3 DEF Close, Finish
    <3>4. ASSUME NEW e \in End, \/ Admit(e) \/ Wait(e) \/ SendFragment(e) \/ PumpCredit(e)
                                \/ PumpData(e) \/ ReadQueued(e) \/ ReadWaits(e) \/ ReadHanded(e)
          PROVE  ended' = ended
      BY <3>4 DEF Admit, Wait, SendFragment, PumpCredit, PumpData, ReadQueued, ReadWaits,
                  ReadHanded
    <3>5. FlowControl \/ UNCHANGED vars => ended' = ended BY DEF FlowControl, vars
    <3> QED BY <3>1, <3>2, <3>3, <3>4, <3>5 DEF Next
  <2> QED BY <2>2, <2>3, <2>4, <2>5 DEF RoomInv
<1>3. Inv => QueueFits BY DEF RoomInv, QueueFits
<1> HIDE DEF Inv
<1> QED BY <1>1, <1>2, <1>3, PTL DEF Spec
=============================================================================
