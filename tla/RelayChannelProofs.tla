------------------------- MODULE RelayChannelProofs -------------------------
(***************************************************************************)
(* For every window, cost, queue size, rekey interval and set of messages: *)
(* an end of a relay channel is never refused by its peer's accounting,    *)
(* and never has more than a window in flight.                             *)
(***************************************************************************)
EXTENDS RelayChannel, FlowCreditProofs

\* The two ends are each other's peers.
LEMMA PeerFacts ==
  \A e \in End : Peer(e) \in End /\ Peer(e) # e /\ Peer(Peer(e)) = e
BY DEF Peer, End

\* A fragment costs something.
LEMMA CostType == \A n \in Nat : fragmentCost(n) \in Nat /\ fragmentCost(n) >= MIN_COST
BY FlowAssumption DEF fragmentCost

\* A fragment sealed by a well-typed end is well typed.
LEMMA SealedType ==
  ASSUME TypeOK, NEW e \in End, NEW f \in FlowType, NEW total \in Totals, NEW body \in Bodies
  PROVE  Sealed(e, f, total, body) \in Frames
<1> DEFINE key == sendCount[e] \div REKEY_INTERVAL
<1>1. key \in Int BY ChannelAssumption, SMTT(30) DEF TypeOK
<1>2. f.limited \in BOOLEAN BY Fields
<1>3. total.data \in Nat /\ total.credit \in Nat BY DEF Totals
<1>4. Sealed(e, f, total, body) =
        [body |-> body, key |-> key, lim |-> f.limited,
         data |-> total.data, credit |-> total.credit]
  BY DEF Sealed
<1> HIDE DEF key
<1>5. \A k \in Int, b \in BOOLEAN, d \in Nat, c \in Nat :
        [body |-> body, key |-> k, lim |-> b, data |-> d, credit |-> c] \in Frames
  BY DEF Frames
<1> QED BY <1>1, <1>2, <1>3, <1>4, <1>5

\* What it writes keeps the types.
LEMMA TransmitType ==
  ASSUME TypeOK, NEW e \in End, NEW f \in FlowType, NEW total \in Totals,
         NEW body \in Bodies, NEW network \in [End -> Seq(Frames)],
         Transmit(e, f, total, body, network)
  PROVE  /\ sendCount' \in [End -> Nat]
         /\ sealed' \in [End -> Totals]
         /\ net' \in [End -> Seq(Frames)]
<1>1. Sealed(e, f, total, body) \in Frames BY SealedType
<1> DEFINE frame == Sealed(e, f, total, body)
<1>2. /\ sendCount' = [sendCount EXCEPT ![e] = @ + 1]
      /\ sealed' = [sealed EXCEPT ![e] = total]
      /\ \/ net' = network
         \/ net' = [network EXCEPT ![Peer(e)] = Append(@, frame)]
  BY DEF Transmit
<1> HIDE DEF frame
<1>3. frame \in Frames BY <1>1 DEF frame
<1>4. sendCount' \in [End -> Nat] BY <1>2, SMTT(30) DEF TypeOK
<1>5. sealed' \in [End -> Totals] BY <1>2 DEF TypeOK
<1>6. Append(network[Peer(e)], frame) \in Seq(Frames) BY <1>3, PeerFacts
<1>7. net' \in [End -> Seq(Frames)] BY <1>2, <1>6, PeerFacts
<1> QED BY <1>4, <1>5, <1>7


\* A credit written by sendCredit() is well typed.
LEMMA SendCreditType ==
  ASSUME TypeOK, NEW e \in End, NEW f \in FlowType, NEW amount \in Nat,
         NEW network \in [End -> Seq(Frames)],
         Transmit(e, f, [sealed[e] EXCEPT !.credit = @ + amount], CreditBody(amount), network)
  PROVE  /\ sendCount' \in [End -> Nat]
         /\ sealed' \in [End -> Totals]
         /\ net' \in [End -> Seq(Frames)]
<1>1. CreditBody(amount) \in Bodies BY DEF CreditBody, Bodies, Chunk, ChunkIds, End, Kinds
<1>2. sealed[e] \in Totals BY DEF TypeOK
<1>3. [sealed[e] EXCEPT !.credit = @ + amount] \in Totals BY <1>2 DEF Totals
<1> QED BY <1>1, <1>3, TransmitType

-----------------------------------------------------------------------------
(* Types. *)

\* Finish() keeps the types of what it resets.
LEMMA FinishType ==
  ASSUME TypeOK, NEW e \in End, NEW why \in Reasons, Finish(e, why),
         UNCHANGED <<asks, flow, sent, handed, asmVars, sendCount, sealed, receiveCount,
                     seen, taken>>
  PROVE  TypeOK'
<1>1. <<>> \in Seq(Frames) /\ <<>> \in Seq(Messages) OBVIOUS
<1>2. net' \in [End -> Seq(Frames)] /\ plainQueue' \in [End -> Seq(Frames)]
  BY <1>1 DEF Finish, TypeOK
<1>3. outbox' \in [End -> Seq(Messages)] BY <1>1 DEF Finish, TypeOK
<1>4. /\ ended' \in [End -> Reasons] /\ offset' \in [End -> Nat]
      /\ pendingBytes' \in [End -> Int] /\ plainBytes' \in [End -> Int]
  BY DEF Finish, TypeOK
<1>5. /\ waiting' \in [End -> BOOLEAN] /\ parked' \in [End -> BOOLEAN]
      /\ asleep' \in [End -> BOOLEAN]
  BY DEF Finish, TypeOK
<1> QED BY <1>2, <1>3, <1>4, <1>5 DEF TypeOK, asmVars

\* Admitting a message (sendData, sendBody) keeps every type.
LEMMA AdmitType == ASSUME TypeOK, NEW e \in End, Admit(e) PROVE TypeOK'
<1> DEFINE M(shape) == [kind |-> shape.kind, full |-> shape.full, tail |-> shape.tail,
                        n |-> Len(sent[e]) + 1]
<1>1. PICK shape \in Shapes :
        /\ pendingBytes' = [pendingBytes EXCEPT ![e] = @ + Size(shape)]
        /\ outbox' = [outbox EXCEPT ![e] = Append(@, M(shape))]
        /\ sent' = [sent EXCEPT ![e] = Append(@, Chunks(e, M(shape)))]
  BY DEF Admit
<1>2. shape \in [kind: Kinds, full: Nat, tail: 2..FULL] BY ChannelAssumption
<1>3. Len(sent[e]) + 1 \in Nat BY DEF TypeOK
<1>4. M(shape) \in Messages BY <1>2, <1>3 DEF Messages
<1> HIDE DEF M
<1>5. outbox' \in [End -> Seq(Messages)] BY <1>1, <1>4 DEF TypeOK
<1>6. Chunks(e, M(shape)) \in Seq(ChunkIds)
  <2>1. M(shape).full \in Nat /\ M(shape).n \in Nat BY <1>4 DEF Messages
  <2>2. \A i \in 1..(M(shape).full + 1) : Chunk(e, M(shape).n, i) \in ChunkIds
    BY <2>1 DEF Chunk, ChunkIds
  <2> QED BY <2>1, <2>2 DEF Chunks
<1>7. sent' \in [End -> Seq(Seq(ChunkIds))] BY <1>1, <1>6 DEF TypeOK
<1>8. Size(shape) \in Int BY <1>2, ChannelAssumption DEF Size
<1>9. pendingBytes' \in [End -> Int] BY <1>1, <1>8, SMTT(30) DEF TypeOK
<1> QED BY <1>5, <1>7, <1>9 DEF Admit, TypeOK, readVars, wireVars, asmVars

\* A fragment that starts to wait for credit keeps every type.
LEMMA WaitType == ASSUME TypeOK, NEW e \in End, Wait(e) PROVE TypeOK'
BY DEF Wait, TypeOK, readVars, wireVars, asmVars

\* The head message of an outbox and the fragment to write next.
LEMMA NextFragment ==
  ASSUME TypeOK, NEW e \in End, outbox[e] # <<>>
  PROVE  /\ Head(outbox[e]) \in Messages /\ Tail(outbox[e]) \in Seq(Messages)
         /\ NextLength(e) \in Nat /\ NextCost(e) \in Nat
         /\ DataBody(e, Head(outbox[e]), offset[e] + 1) \in Bodies
         /\ fragmentCost(DataBody(e, Head(outbox[e]), offset[e] + 1).length) = NextCost(e)
<1> DEFINE m == Head(outbox[e])
<1>1. m \in Messages /\ Tail(outbox[e]) \in Seq(Messages) BY DEF TypeOK
<1>2. offset[e] \in Nat BY DEF TypeOK
<1> HIDE DEF m
<1>3. m.full \in Nat /\ m.tail \in Nat /\ m.n \in Nat /\ m.kind \in Kinds
  BY <1>1, ChannelAssumption DEF Messages
<1>4. PlainLength(m, offset[e] + 1) \in Nat BY <1>3, ChannelAssumption DEF PlainLength
<1>5. Chunk(e, m.n, offset[e] + 1) \in ChunkIds BY <1>2, <1>3 DEF Chunk, ChunkIds
<1>6. DataBody(e, m, offset[e] + 1) \in Bodies BY <1>3, <1>4, <1>5 DEF DataBody, Bodies
<1>7. NextLength(e) = PlainLength(m, offset[e] + 1) BY DEF NextLength, m
<1>8. NextCost(e) \in Nat BY <1>4, <1>7, CostType DEF NextCost
<1>9. DataBody(e, m, offset[e] + 1).length = PlainLength(m, offset[e] + 1) BY DEF DataBody
<1> QED BY <1>1, <1>4, <1>6, <1>7, <1>8, <1>9 DEF m, NextCost

\* Writing a fragment keeps every type.
LEMMA SendFragmentType == ASSUME TypeOK, NEW e \in End, SendFragment(e) PROVE TypeOK'
<1> DEFINE m == Head(outbox[e])
           i == offset[e] + 1
           f == spend(flow[e], NextCost(e))
           total == IF flow[e].limited THEN [sealed[e] EXCEPT !.data = @ + NextCost(e)]
                    ELSE sealed[e]
<1>1. /\ m \in Messages /\ Tail(outbox[e]) \in Seq(Messages)
      /\ NextCost(e) \in Nat /\ DataBody(e, m, i) \in Bodies
  BY NextFragment DEF SendFragment
<1>2. f \in FlowType BY <1>1, SpendFacts DEF Same, TypeOK
<1>3. total \in Totals
  <2>1. sealed[e] \in Totals BY DEF TypeOK
  <2>2. [sealed[e] EXCEPT !.data = @ + NextCost(e)] \in Totals BY <1>1, <2>1 DEF Totals
  <2> QED BY <2>1, <2>2
<1>4. net \in [End -> Seq(Frames)] BY DEF TypeOK
<1>5. Transmit(e, f, total, DataBody(e, m, i), net) BY DEF SendFragment
<1>6. flow' = [flow EXCEPT ![e] = f] BY DEF SendFragment
<1> HIDE DEF f, total
<1>7. /\ sendCount' \in [End -> Nat] /\ sealed' \in [End -> Totals]
      /\ net' \in [End -> Seq(Frames)]
  BY <1>1, <1>2, <1>3, <1>4, <1>5, TransmitType
<1>8. flow' \in [End -> FlowType] BY <1>2, <1>6 DEF TypeOK
<1>9. offset' \in [End -> Nat] BY SMTT(30) DEF SendFragment, TypeOK
<1>10. outbox' \in [End -> Seq(Messages)] BY <1>1 DEF SendFragment, TypeOK
<1>11. Size(m) \in Int
  <2> HIDE DEF m
  <2>1. m.full \in Nat /\ m.tail \in Nat BY <1>1, ChannelAssumption DEF Messages
  <2> QED BY <2>1, ChannelAssumption DEF Size
<1>12. pendingBytes' \in [End -> Int]
  <2>1. pendingBytes \in [End -> Int] BY DEF TypeOK
  <2>2. pendingBytes' = [pendingBytes EXCEPT ![e] = IF i = m.full + 1 THEN @ - Size(m) ELSE @]
    BY DEF SendFragment
  <2> HIDE DEF m, i
  <2>3. pendingBytes[e] - Size(m) \in Int BY <1>11, <2>1
  <2> QED BY <2>1, <2>2, <2>3
<1> QED BY <1>7, <1>8, <1>9, <1>10, <1>12 DEF SendFragment, TypeOK, readVars, asmVars

\* The daemon's start of flow control keeps every type.
LEMMA FlowControlType == ASSUME TypeOK, FlowControl PROVE TypeOK'
<1> DEFINE f == start(flow["host"])
<1>1. "host" \in End BY DEF End
<1>2. f \in FlowType BY <1>1, StartFacts DEF Same, TypeOK
<1>3. Transmit("host", f, [sealed["host"] EXCEPT !.credit = @ + 0], CreditBody(0), net)
  BY DEF FlowControl, SendCredit
<1>4. flow' = [flow EXCEPT !["host"] = f] BY DEF FlowControl
<1> HIDE DEF f
<1>5. net \in [End -> Seq(Frames)] BY DEF TypeOK
<1>6. /\ sendCount' \in [End -> Nat] /\ sealed' \in [End -> Totals]
      /\ net' \in [End -> Seq(Frames)]
  BY <1>1, <1>2, <1>3, <1>5, SendCreditType
<1>7. flow' \in [End -> FlowType] BY <1>1, <1>2, <1>4 DEF TypeOK
<1> QED BY <1>6, <1>7 DEF FlowControl, TypeOK, sendVars, readVars, asmVars

\* A frame that can be pumped, and what its fields are.
LEMMA HeadFrame ==
  ASSUME NEW q \in Seq(Frames), q # <<>>
  PROVE  /\ Head(q) \in Frames /\ Head(q) = q[1] /\ Tail(q) \in Seq(Frames)
         /\ Len(q) \in Nat /\ Len(q) >= 1 /\ Len(Tail(q)) = Len(q) - 1
         /\ \A i \in 1..(Len(q) - 1) : Tail(q)[i] = q[i+1]
OBVIOUS

\* What the type of a frame says of its fields.
LEMMA FrameFields ==
  ASSUME NEW frame \in Frames
  PROVE  /\ frame.body.amount \in Nat /\ frame.body.length \in Nat
         /\ frame.body.isCredit \in BOOLEAN /\ frame.lim \in BOOLEAN
         /\ frame.data \in Nat /\ frame.credit \in Nat
         /\ frame.body.last \in BOOLEAN /\ frame.body.chunk \in ChunkIds
         /\ Cost(frame) \in Nat
<1>1. frame.body \in Bodies BY DEF Frames
<1>2. frame.body.length \in Nat BY <1>1 DEF Bodies
<1>3. Cost(frame) \in Nat BY <1>2, CostType DEF Cost
<1> QED BY <1>1, <1>2, <1>3 DEF Frames, Bodies

\* Decrypting a frame counts it and takes over its stamps.
LEMMA DecryptedType ==
  ASSUME TypeOK, NEW e \in End, net[e] # <<>>, Decrypted(e)
  PROVE  /\ receiveCount' \in [End -> Nat]
         /\ seen' \in [End -> Totals]
<1>1. Head(net[e]) \in Frames BY HeadFrame DEF TypeOK
<1>2. Head(net[e]).data \in Nat /\ Head(net[e]).credit \in Nat BY <1>1, FrameFields
<1>3. [data |-> Head(net[e]).data, credit |-> Head(net[e]).credit] \in Totals
  BY <1>2 DEF Totals
<1> QED BY <1>3, SMTT(30) DEF Decrypted, TypeOK

\* Applying a credit fragment keeps every type.
LEMMA PumpCreditType == ASSUME TypeOK, NEW e \in End, PumpCredit(e) PROVE TypeOK'
<1> DEFINE frame == Head(net[e])
           f == credited(flow[e], frame.body.amount)
           rest == [net EXCEPT ![e] = Tail(@)]
<1>1. net[e] # <<>> BY DEF PumpCredit, Pumping
<1>2. frame \in Frames /\ Tail(net[e]) \in Seq(Frames) BY <1>1, HeadFrame DEF TypeOK
<1>3. rest \in [End -> Seq(Frames)] BY <1>2 DEF TypeOK
<1>4. frame.body.amount \in Nat BY <1>2, FrameFields
<1>5. f \in FlowType BY <1>4, CreditedFacts DEF Same, TypeOK
<1>6. /\ flow' = [flow EXCEPT ![e] = f]
      /\ SendCredit(e, StartReplies(flow[e]), 0, f, rest)
      /\ Decrypted(e)
  BY DEF PumpCredit
<1> HIDE DEF f, rest
<1>7. /\ sendCount' \in [End -> Nat] /\ sealed' \in [End -> Totals]
      /\ net' \in [End -> Seq(Frames)]
  <2>1. CASE StartReplies(flow[e])
    <3>1. Transmit(e, f, [sealed[e] EXCEPT !.credit = @ + 0], CreditBody(0), rest)
      BY <1>6, <2>1 DEF SendCredit
    <3> QED BY <3>1, <1>3, <1>5, SendCreditType
  <2>2. CASE ~StartReplies(flow[e]) BY <1>3, <1>6, <2>2 DEF SendCredit, TypeOK
  <2> QED BY <2>1, <2>2
<1>8. flow' \in [End -> FlowType] BY <1>5, <1>6 DEF TypeOK
<1>9. receiveCount' \in [End -> Nat] /\ seen' \in [End -> Totals]
  BY <1>1, <1>6, DecryptedType
<1>10. asleep' \in [End -> BOOLEAN] BY DEF PumpCredit, TypeOK
<1> QED BY <1>7, <1>8, <1>9, <1>10 DEF PumpCredit, TypeOK, readVars, asmVars

\* Queueing or handing over a data fragment keeps every type.
LEMMA PumpDataType == ASSUME TypeOK, NEW e \in End, PumpData(e) PROVE TypeOK'
<1> DEFINE frame == Head(net[e])
           f == received(flow[e], Cost(frame))
<1>1. net[e] # <<>> BY DEF PumpData, Pumping
<1>2. frame \in Frames /\ Tail(net[e]) \in Seq(Frames) BY <1>1, HeadFrame DEF TypeOK
<1>3. Cost(frame) \in Nat /\ frame.body.length \in Nat BY <1>2, FrameFields
<1>4. f \in FlowType BY <1>3, ReceivedFacts DEF Same, TypeOK
<1>5. flow' = [flow EXCEPT ![e] = f] /\ Decrypted(e) BY DEF PumpData
<1> HIDE DEF f
<1>6. flow' \in [End -> FlowType] BY <1>4, <1>5 DEF TypeOK
<1>7. net' \in [End -> Seq(Frames)] BY <1>2 DEF PumpData, TypeOK
<1>8. receiveCount' \in [End -> Nat] /\ seen' \in [End -> Totals]
  BY <1>1, <1>5, DecryptedType
<1> HIDE DEF frame
<1>9. /\ waiting' \in [End -> BOOLEAN] /\ handed' \in [End -> Seq(Frames)]
      /\ plainQueue' \in [End -> Seq(Frames)] /\ plainBytes' \in [End -> Int]
      /\ parked' \in [End -> BOOLEAN]
  <2>1. CASE waiting[e]
    <3>1. /\ waiting' = [waiting EXCEPT ![e] = FALSE] /\ handed' = [handed EXCEPT ![e] = <<frame>>]
          /\ UNCHANGED <<plainQueue, plainBytes, parked>>
      BY <2>1 DEF PumpData, frame
    <3>2. <<frame>> \in Seq(Frames) BY <1>2
    <3> QED BY <3>1, <3>2 DEF TypeOK
  <2>2. CASE ~waiting[e]
    <3>1. PICK b \in BOOLEAN :
            /\ plainQueue' = [plainQueue EXCEPT ![e] = Append(@, frame)]
            /\ plainBytes' = [plainBytes EXCEPT ![e] = @ + frame.body.length]
            /\ parked' = [parked EXCEPT ![e] = b]
            /\ UNCHANGED <<waiting, handed>>
      BY <2>2 DEF PumpData, frame
    <3>2. Append(plainQueue[e], frame) \in Seq(Frames) BY <1>2 DEF TypeOK
    <3>3. plainBytes' \in [End -> Int]
      <4>0. plainBytes[e] \in Int BY DEF TypeOK
      <4>1. plainBytes[e] + frame.body.length \in Int BY <1>3, <4>0
      <4> QED BY <3>1, <4>1 DEF TypeOK
    <3>4. parked' \in [End -> BOOLEAN] BY <3>1 DEF TypeOK
    <3> QED BY <3>1, <3>2, <3>3, <3>4 DEF TypeOK
  <2> QED BY <2>1, <2>2
<1> QED BY <1>6, <1>7, <1>8, <1>9 DEF PumpData, TypeOK, sendVars, asmVars

\* What a read does to the state, whichever way the reader got its fragment.
LEMMA ConsumeType ==
  ASSUME TypeOK, NEW e \in End, NEW frame \in Frames, Consume(e, frame)
  PROVE  /\ flow' \in [End -> FlowType] /\ taken' \in [End -> Nat]
         /\ sendCount' \in [End -> Nat] /\ sealed' \in [End -> Totals]
         /\ net' \in [End -> Seq(Frames)]
         /\ partial' \in [End -> Seq(ChunkIds)] /\ inbox' \in [End -> Seq(Seq(ChunkIds))]
<1> DEFINE due == CreditDue(flow[e], Cost(frame))
           f == consumed(flow[e], Cost(frame))
<1>1. /\ Cost(frame) \in Nat /\ frame.data \in Nat /\ frame.body.chunk \in ChunkIds
      /\ flow[e] \in FlowType
  BY FrameFields DEF TypeOK
<1>2. f \in FlowType /\ due \in Nat BY <1>1, ConsumedFacts DEF Same
<1>3. /\ flow' = [flow EXCEPT ![e] = f] /\ taken' = [taken EXCEPT ![e] = frame.data]
      /\ SendCredit(e, due > 0 /\ Open(e), due, f, net)
      /\ Reassemble(e, frame)
  BY DEF Consume
<1> HIDE DEF due, f
<1>4. flow' \in [End -> FlowType] /\ taken' \in [End -> Nat] BY <1>1, <1>2, <1>3 DEF TypeOK
<1>5. net \in [End -> Seq(Frames)] BY DEF TypeOK
<1>6. /\ sendCount' \in [End -> Nat] /\ sealed' \in [End -> Totals]
      /\ net' \in [End -> Seq(Frames)]
  <2>1. CASE due > 0 /\ Open(e)
    <3>1. Transmit(e, f, [sealed[e] EXCEPT !.credit = @ + due], CreditBody(due), net)
      BY <1>3, <2>1 DEF SendCredit
    <3> QED BY <3>1, <1>2, <1>5, SendCreditType
  <2>2. CASE ~(due > 0 /\ Open(e)) BY <1>3, <2>2 DEF SendCredit, TypeOK
  <2> QED BY <2>1, <2>2
<1>7. partial' \in [End -> Seq(ChunkIds)] /\ inbox' \in [End -> Seq(Seq(ChunkIds))]
  <2> DEFINE joined == Append(partial[e], frame.body.chunk)
  <2>1. joined \in Seq(ChunkIds) /\ <<>> \in Seq(ChunkIds) BY <1>1 DEF TypeOK
  <2>2. \/ inbox' = [inbox EXCEPT ![e] = Append(@, joined)]
           /\ partial' = [partial EXCEPT ![e] = <<>>]
        \/ partial' = [partial EXCEPT ![e] = joined] /\ inbox' = inbox
    BY <1>3 DEF Reassemble
  <2> HIDE DEF joined
  <2>3. Append(inbox[e], joined) \in Seq(Seq(ChunkIds)) BY <2>1 DEF TypeOK
  <2>4. inbox \in [End -> Seq(Seq(ChunkIds))] /\ partial \in [End -> Seq(ChunkIds)]
    BY DEF TypeOK
  <2> QED BY <2>1, <2>2, <2>3, <2>4
<1> QED BY <1>4, <1>6, <1>7

\* A read of a queued fragment keeps every type.
LEMMA ReadQueuedType == ASSUME TypeOK, NEW e \in End, ReadQueued(e) PROVE TypeOK'
<1> DEFINE frame == Head(plainQueue[e])
<1>1. plainQueue[e] # <<>> /\ Consume(e, frame) BY DEF ReadQueued
<1>2. frame \in Frames /\ Tail(plainQueue[e]) \in Seq(Frames) BY <1>1, HeadFrame DEF TypeOK
<1>3. PICK b \in BOOLEAN :
        /\ plainQueue' = [plainQueue EXCEPT ![e] = Tail(@)]
        /\ plainBytes' = [plainBytes EXCEPT ![e] = plainBytes[e] - frame.body.length]
        /\ parked' = [parked EXCEPT ![e] = b]
  <2> DEFINE b == parked[e] /\ ~(2 * (plainBytes[e] - frame.body.length) < PLAIN_HIGH_WATER)
  <2>1. b \in BOOLEAN OBVIOUS
  <2>2. /\ plainQueue' = [plainQueue EXCEPT ![e] = Tail(@)]
        /\ plainBytes' = [plainBytes EXCEPT ![e] = plainBytes[e] - frame.body.length]
        /\ parked' = [parked EXCEPT ![e] = b]
    BY DEF ReadQueued
  <2> HIDE DEF b
  <2> QED BY <2>1, <2>2
<1> HIDE DEF frame
<1>4. plainBytes[e] - frame.body.length \in Int
  <2>1. plainBytes[e] \in Int /\ frame.body.length \in Nat BY <1>2, FrameFields DEF TypeOK
  <2> QED BY <2>1
<1>5. /\ plainQueue' \in [End -> Seq(Frames)] /\ plainBytes' \in [End -> Int]
      /\ parked' \in [End -> BOOLEAN]
  BY <1>2, <1>3, <1>4 DEF TypeOK
<1>6. /\ flow' \in [End -> FlowType] /\ taken' \in [End -> Nat]
      /\ sendCount' \in [End -> Nat] /\ sealed' \in [End -> Totals]
      /\ net' \in [End -> Seq(Frames)]
      /\ partial' \in [End -> Seq(ChunkIds)] /\ inbox' \in [End -> Seq(Seq(ChunkIds))]
  BY <1>1, <1>2, ConsumeType
<1> QED BY <1>5, <1>6 DEF ReadQueued, TypeOK, sendVars

\* A read of a fragment the pump handed over keeps every type.
LEMMA ReadHandedType == ASSUME TypeOK, NEW e \in End, ReadHanded(e) PROVE TypeOK'
<1> DEFINE frame == Head(handed[e])
<1>1. handed[e] # <<>> /\ Consume(e, frame) BY DEF ReadHanded
<1>2. frame \in Frames BY <1>1, HeadFrame DEF TypeOK
<1> HIDE DEF frame
<1>3. /\ flow' \in [End -> FlowType] /\ taken' \in [End -> Nat]
      /\ sendCount' \in [End -> Nat] /\ sealed' \in [End -> Totals]
      /\ net' \in [End -> Seq(Frames)]
      /\ partial' \in [End -> Seq(ChunkIds)] /\ inbox' \in [End -> Seq(Seq(ChunkIds))]
  BY <1>1, <1>2, ConsumeType
<1>4. handed' = [handed EXCEPT ![e] = <<>>] /\ <<>> \in Seq(Frames) BY DEF ReadHanded
<1>5. handed' \in [End -> Seq(Frames)] BY <1>4 DEF TypeOK
<1> QED BY <1>3, <1>5 DEF ReadHanded, TypeOK, sendVars

\* A read that waits keeps every type.
LEMMA ReadWaitsType == ASSUME TypeOK, NEW e \in End, ReadWaits(e) PROVE TypeOK'
BY DEF ReadWaits, TypeOK, sendVars, wireVars, asmVars

\* Ending the channel, for whichever reason.
LEMMA FinishesType ==
  ASSUME TypeOK, NEW e \in End, PumpFails(e) \/ Close(e) PROVE TypeOK'
<1>1. CASE PumpFails(e)
  <2>1. Verdict(e, Head(net[e])) \in Reasons BY DEF Verdict, Reasons
  <2> QED BY <1>1, <2>1, FinishType DEF PumpFails
<1>2. CASE Close(e)
  <2>1. "closed" \in Reasons BY DEF Reasons
  <2> QED BY <1>2, <2>1, FinishType DEF Close
<1> QED BY <1>1, <1>2

\* Every step keeps the types.
LEMMA TypeStep == TypeOK /\ [Next]_vars => TypeOK'
<1> SUFFICES ASSUME TypeOK, [Next]_vars PROVE TypeOK' OBVIOUS
<1>1. CASE FlowControl BY <1>1, FlowControlType
<1>2. ASSUME NEW e \in End, Admit(e) PROVE TypeOK' BY <1>2, AdmitType
<1>3. ASSUME NEW e \in End, Wait(e) PROVE TypeOK' BY <1>3, WaitType
<1>4. ASSUME NEW e \in End, SendFragment(e) PROVE TypeOK' BY <1>4, SendFragmentType
<1>5. ASSUME NEW e \in End, PumpCredit(e) PROVE TypeOK' BY <1>5, PumpCreditType
<1>6. ASSUME NEW e \in End, PumpData(e) PROVE TypeOK' BY <1>6, PumpDataType
<1>7. ASSUME NEW e \in End, ReadQueued(e) PROVE TypeOK' BY <1>7, ReadQueuedType
<1>8. ASSUME NEW e \in End, ReadWaits(e) PROVE TypeOK' BY <1>8, ReadWaitsType
<1>9. ASSUME NEW e \in End, ReadHanded(e) PROVE TypeOK' BY <1>9, ReadHandedType
<1>10. ASSUME NEW e \in End, PumpFails(e) \/ Close(e) PROVE TypeOK' BY <1>10, FinishesType
<1>11. CASE UNCHANGED vars
  BY <1>11 DEF vars, TypeOK, sendVars, readVars, wireVars, asmVars
<1> QED BY <1>1, <1>2, <1>3, <1>4, <1>5, <1>6, <1>7, <1>8, <1>9, <1>10, <1>11 DEF Next

-----------------------------------------------------------------------------
(* The wire. *)

\* The typed parts of the state that the invariant is about, before and after.
LEMMA StateFacts ==
  ASSUME TypeOK, NEW e \in End
  PROVE  /\ flow[e] \in FlowType /\ net[e] \in Seq(Frames)
         /\ plainQueue[e] \in Seq(Frames) /\ handed[e] \in Seq(Frames)
         /\ sealed[e].data \in Nat /\ sealed[e].credit \in Nat
         /\ seen[e].data \in Nat /\ seen[e].credit \in Nat /\ taken[e] \in Nat
<1>1. sealed[e] \in Totals /\ seen[e] \in Totals BY DEF TypeOK
<1>2. sealed[e].data \in Nat /\ sealed[e].credit \in Nat BY <1>1 DEF Totals
<1>3. seen[e].data \in Nat /\ seen[e].credit \in Nat BY <1>1 DEF Totals
<1> QED BY <1>2, <1>3 DEF TypeOK

\* The same facts of the next state.
LEMMA StateFactsPrime ==
  ASSUME TypeOK', NEW e \in End
  PROVE  /\ flow'[e] \in FlowType /\ net'[e] \in Seq(Frames)
         /\ plainQueue'[e] \in Seq(Frames) /\ handed'[e] \in Seq(Frames)
         /\ sealed'[e].data \in Nat /\ sealed'[e].credit \in Nat
         /\ seen'[e].data \in Nat /\ seen'[e].credit \in Nat /\ taken'[e] \in Nat
<1>1. sealed'[e] \in Totals /\ seen'[e] \in Totals BY DEF TypeOK
<1>2. sealed'[e].data \in Nat /\ sealed'[e].credit \in Nat BY <1>1 DEF Totals
<1>3. seen'[e].data \in Nat /\ seen'[e].credit \in Nat BY <1>1 DEF Totals
<1> QED BY <1>2, <1>3 DEF TypeOK

\* A frame written after the others continues the totals.
LEMMA WireAppend ==
  ASSUME TypeOK, TypeOK', NEW d \in End, WireInv(d), NEW frame \in Frames,
         net'[d] = Append(net[d], frame),
         seen'[d] = seen[d], flow'[d].counting = flow[d].counting,
         frame.data = sealed'[Peer(d)].data, frame.credit = sealed'[Peer(d)].credit,
         frame.lim <=> flow'[Peer(d)].limited,
         frame.body.isCredit =>
           /\ frame.body.amount <= FLOW_WINDOW /\ frame.lim
           /\ frame.data = sealed[Peer(d)].data
           /\ frame.credit = sealed[Peer(d)].credit + frame.body.amount,
         ~frame.body.isCredit =>
           /\ frame.lim <=> flow[Peer(d)].limited
           /\ frame.credit = sealed[Peer(d)].credit
           /\ frame.data = sealed[Peer(d)].data + IF frame.lim THEN Cost(frame) ELSE 0,
         ~frame.lim => frame.data = 0
  PROVE  WireInv(d)'
<1>0. net[d] \in Seq(Frames) /\ Len(net[d]) \in Nat BY StateFacts
<1>1. PICK n \in Nat : n = Len(net[d]) BY <1>0
<1> DEFINE L == Before(d, n + 1)
<1>2. /\ Len(net'[d]) = n + 1 /\ net'[d][n + 1] = frame
      /\ \A i \in 1..n : net'[d][i] = net[d][i] /\ net[d][i] \in Frames
  BY <1>0, <1>1
<1>3. \A i \in 1..(n + 1) : Before(d, i)' = Before(d, i)
  BY <1>1, <1>2 DEF Before
<1>4. /\ L.data = sealed[Peer(d)].data /\ L.credit = sealed[Peer(d)].credit
      /\ L.lim <=> flow[Peer(d)].limited
  BY <1>1 DEF WireInv
<1>5. Before(d, n + 2)' = [lim |-> frame.lim, data |-> frame.data, credit |-> frame.credit]
  <2>1. n + 2 # 1 /\ (n + 2) - 1 = n + 1 BY <1>1
  <2> QED BY <1>2, <2>1 DEF Before
<1>6. \A i \in 1..n :
        /\ net[d][i].data <= L.data
        /\ net[d][i].credit <= L.credit
        /\ ~L.lim => ~net[d][i].lim
  <2> SUFFICES ASSUME NEW i \in 1..n
               PROVE  /\ net[d][i].data <= L.data
                      /\ net[d][i].credit <= L.credit
                      /\ ~L.lim => ~net[d][i].lim
    OBVIOUS
  <2>1. n # 0 /\ n + 1 # 1 /\ (n + 1) - 1 = n /\ n \in 1..n /\ i <= n BY <1>1
  <2>2. L = [lim |-> net[d][n].lim, data |-> net[d][n].data, credit |-> net[d][n].credit]
    BY <2>1 DEF Before
  <2>3. /\ net[d][i].data <= net[d][n].data /\ net[d][i].credit <= net[d][n].credit
        /\ net[d][i].lim => net[d][n].lim
    BY <1>1, <2>1 DEF WireInv
  <2> QED BY <2>2, <2>3
<1>7. L.data <= frame.data /\ L.credit <= frame.credit /\ (L.lim => frame.lim)
  <2>1. Cost(frame) \in Nat /\ frame.body.amount \in Nat BY FrameFields
  <2>2. sealed[Peer(d)].data \in Nat /\ sealed[Peer(d)].credit \in Nat BY PeerFacts, StateFacts
  <2> QED BY <1>4, <2>1, <2>2
<1> HIDE DEF L
<1>8. \A i \in 1..(n + 1) : FrameInv(d, i)'
  <2>1. ASSUME NEW i \in 1..n PROVE FrameInv(d, i)'
    <3>1. FrameInv(d, i) BY <1>1, <2>1 DEF WireInv
    <3>2. net'[d][i] = net[d][i] /\ Before(d, i)' = Before(d, i) BY <1>1, <1>2, <1>3
    <3> QED BY <3>1, <3>2 DEF FrameInv
  <2>2. FrameInv(d, n + 1)'
    <3>1. net'[d][n + 1] = frame /\ Before(d, n + 1)' = L BY <1>1, <1>2, <1>3 DEF L
    <3> QED BY <3>1, <1>4 DEF FrameInv
  <2> QED BY <1>1, <2>1, <2>2
<1>9. \A i, j \in 1..(n + 1) : i <= j =>
        /\ net'[d][i].data <= net'[d][j].data
        /\ net'[d][i].credit <= net'[d][j].credit
        /\ net'[d][i].lim => net'[d][j].lim
  <2> SUFFICES ASSUME NEW i \in 1..(n + 1), NEW j \in 1..(n + 1), i <= j
               PROVE  /\ net'[d][i].data <= net'[d][j].data
                      /\ net'[d][i].credit <= net'[d][j].credit
                      /\ net'[d][i].lim => net'[d][j].lim
    OBVIOUS
  <2>1. CASE j <= n BY <1>1, <1>2, <2>1 DEF WireInv
  <2>2. CASE j = n + 1 /\ i <= n
    <3>7. i \in 1..n BY <2>2
    <3>0. /\ net[d][i].data <= L.data
          /\ net[d][i].credit <= L.credit
          /\ ~L.lim => ~net[d][i].lim
      BY <1>6, <3>7 DEF L
    <3>1. net[d][i].data \in Nat /\ net[d][i].credit \in Nat BY <1>1, <1>2, <2>2, FrameFields
    <3>2. sealed[Peer(d)].data \in Nat /\ sealed[Peer(d)].credit \in Nat
      BY PeerFacts, StateFacts
    <3>3. frame.data \in Nat /\ frame.credit \in Nat BY FrameFields
    <3>4. net'[d][i] = net[d][i] /\ net'[d][j] = frame BY <1>1, <1>2, <2>2
    <3>5. net[d][i].data <= frame.data /\ net[d][i].credit <= frame.credit
      BY <1>4, <1>7, <3>0, <3>1, <3>2, <3>3, SMTT(30) DEF L
    <3>6. net[d][i].lim => frame.lim BY <1>7, <3>0 DEF L
    <3> QED BY <3>4, <3>5, <3>6
  <2>3. CASE j = n + 1 /\ i = n + 1
    <3>1. frame.data \in Nat /\ frame.credit \in Nat BY FrameFields
    <3> QED BY <1>2, <2>3, <3>1
  <2> QED BY <1>1, <2>1, <2>2, <2>3
<1>10. LET last == Before(d, Len(net[d]) + 1)'
       IN  /\ last.data = sealed'[Peer(d)].data
           /\ last.credit = sealed'[Peer(d)].credit
           /\ last.lim <=> flow'[Peer(d)].limited
  <2>1. Len(net'[d]) + 1 = n + 2 BY <1>1, <1>2
  <2>2. Before(d, Len(net[d]) + 1)' = Before(d, n + 2)' BY <2>1 DEF Before
  <2> QED BY <1>5, <2>2
<1> QED BY <1>2, <1>8, <1>9, <1>10 DEF WireInv

\* Decrypting the first frame moves its stamps to what the end has seen.
LEMMA WirePop ==
  ASSUME TypeOK, TypeOK', NEW d \in End, WireInv(d), net[d] # <<>>,
         net'[d] = Tail(net[d]),
         seen'[d].data = net[d][1].data, seen'[d].credit = net[d][1].credit,
         flow'[d].counting <=> net[d][1].lim,
         sealed'[Peer(d)] = sealed[Peer(d)],
         flow'[Peer(d)].limited <=> flow[Peer(d)].limited
  PROVE  WireInv(d)'
<1>0. net[d] \in Seq(Frames) /\ Len(net[d]) \in Nat /\ Len(net[d]) # 0 BY StateFacts
<1>1. PICK n \in Nat : n + 1 = Len(net[d])
  <2>1. Len(net[d]) - 1 \in Nat /\ (Len(net[d]) - 1) + 1 = Len(net[d]) BY <1>0
  <2> QED BY <2>1
<1>2. /\ Len(net'[d]) = n
      /\ \A i \in 1..n : net'[d][i] = net[d][i + 1] /\ net[d][i + 1] \in Frames
  BY <1>0, <1>1, HeadFrame
<1>3. \A i \in 1..(n + 1) : /\ Before(d, i)'.data = Before(d, i + 1).data
                            /\ Before(d, i)'.credit = Before(d, i + 1).credit
                            /\ Before(d, i)'.lim <=> Before(d, i + 1).lim
  <2> SUFFICES ASSUME NEW i \in 1..(n + 1)
               PROVE  /\ Before(d, i)'.data = Before(d, i + 1).data
                      /\ Before(d, i)'.credit = Before(d, i + 1).credit
                      /\ Before(d, i)'.lim <=> Before(d, i + 1).lim
    OBVIOUS
  <2>1. i + 1 # 1 /\ (i + 1) - 1 = i BY <1>1
  <2>2. CASE i = 1 BY <2>1, <2>2 DEF Before
  <2>3. CASE i # 1
    <3>1. i - 1 \in 1..n /\ (i - 1) + 1 = i BY <1>1, <2>3
    <3>2. net'[d][i - 1] = net[d][i] BY <1>2, <3>1
    <3> QED BY <2>1, <2>3, <3>2 DEF Before
  <2> QED BY <2>2, <2>3
<1>4. \A i \in 1..n : FrameInv(d, i)'
  <2> SUFFICES ASSUME NEW i \in 1..n PROVE FrameInv(d, i)' OBVIOUS
  <2>1. i + 1 \in 1..(n + 1) /\ i \in 1..(n + 1) BY <1>1
  <2>2. FrameInv(d, i + 1) BY <1>1, <2>1 DEF WireInv
  <2>3. net'[d][i] = net[d][i + 1] BY <1>2
  <2> QED BY <1>3, <2>1, <2>2, <2>3 DEF FrameInv
<1>5. \A i, j \in 1..n : i <= j =>
        /\ net'[d][i].data <= net'[d][j].data
        /\ net'[d][i].credit <= net'[d][j].credit
        /\ net'[d][i].lim => net'[d][j].lim
  <2> SUFFICES ASSUME NEW i \in 1..n, NEW j \in 1..n, i <= j
               PROVE  /\ net'[d][i].data <= net'[d][j].data
                      /\ net'[d][i].credit <= net'[d][j].credit
                      /\ net'[d][i].lim => net'[d][j].lim
    OBVIOUS
  <2>1. i + 1 \in 1..Len(net[d]) /\ j + 1 \in 1..Len(net[d]) /\ i + 1 <= j + 1 BY <1>1
  <2> QED BY <1>2, <2>1 DEF WireInv
<1>6. LET last == Before(d, Len(net[d]) + 1)'
      IN  /\ last.data = sealed'[Peer(d)].data
          /\ last.credit = sealed'[Peer(d)].credit
          /\ last.lim <=> flow'[Peer(d)].limited
  <2>1. Before(d, Len(net[d]) + 1)' = Before(d, n + 1)' BY <1>2 DEF Before
  <2>2. n + 1 \in 1..(n + 1) /\ Len(net[d]) + 1 = (n + 1) + 1 BY <1>1
  <2>3. LET last == Before(d, (n + 1) + 1)
        IN  /\ last.data = sealed[Peer(d)].data
            /\ last.credit = sealed[Peer(d)].credit
            /\ last.lim <=> flow[Peer(d)].limited
    BY <1>1, <2>2 DEF WireInv
  <2> QED BY <1>3, <2>1, <2>2, <2>3
<1> QED BY <1>2, <1>4, <1>5, <1>6 DEF WireInv

\* A step that touches neither the wire nor its two ends' stamps.
LEMMA WireSame ==
  ASSUME NEW d \in End, WireInv(d), net'[d] = net[d],
         seen'[d] = seen[d], flow'[d].counting = flow[d].counting,
         sealed'[Peer(d)] = sealed[Peer(d)],
         flow'[Peer(d)].limited = flow[Peer(d)].limited
  PROVE  WireInv(d)'
<1>1. \A i \in Int : Before(d, i)' = Before(d, i) BY DEF Before
<1>2. \A i \in Int : FrameInv(d, i)' <=> FrameInv(d, i) BY <1>1 DEF FrameInv
<1>3. Before(d, Len(net[d]) + 1)' = Before(d, Len(net[d]) + 1) BY DEF Before
<1> QED BY <1>2, <1>3 DEF WireInv

\* What the stamps of the first frame under way say of it.
LEMMA WireHead ==
  ASSUME TypeOK, NEW d \in End, WireInv(d), net[d] # <<>>
  PROVE  LET frame == net[d][1]
         IN  /\ frame \in Frames /\ frame = Head(net[d])
             /\ frame.body.isCredit =>
                  /\ frame.body.amount <= FLOW_WINDOW /\ frame.lim
                  /\ frame.data = seen[d].data
                  /\ frame.credit = seen[d].credit + frame.body.amount
             /\ ~frame.body.isCredit =>
                  /\ frame.lim <=> flow[d].counting
                  /\ frame.credit = seen[d].credit
                  /\ frame.data = seen[d].data + IF frame.lim THEN Cost(frame) ELSE 0
             /\ ~frame.lim => frame.data = 0
             /\ frame.data <= sealed[Peer(d)].data
             /\ frame.credit <= sealed[Peer(d)].credit
             /\ frame.lim => flow[Peer(d)].limited
<1>0. net[d] \in Seq(Frames) /\ Len(net[d]) \in Nat /\ Len(net[d]) # 0 BY StateFacts
<1>1. PICK n \in Nat : n = Len(net[d]) /\ n # 0 BY <1>0
<1>2. net[d][1] \in Frames /\ net[d][1] = Head(net[d]) BY <1>0
<1>3. 1 \in 1..n /\ n \in 1..n /\ 1 <= n /\ n + 1 # 1 /\ (n + 1) - 1 = n BY <1>1
<1>4. FrameInv(d, 1) BY <1>1, <1>3 DEF WireInv
<1>5. Before(d, 1) = [lim |-> flow[d].counting, data |-> seen[d].data,
                      credit |-> seen[d].credit]
  BY DEF Before
<1>6. Before(d, n + 1) = [lim |-> net[d][n].lim, data |-> net[d][n].data,
                          credit |-> net[d][n].credit]
  BY <1>3 DEF Before
<1>7. /\ net[d][1].data <= net[d][n].data /\ net[d][1].credit <= net[d][n].credit
      /\ net[d][1].lim => net[d][n].lim
  BY <1>1, <1>3 DEF WireInv
<1>8. LET last == Before(d, n + 1)
      IN  /\ last.data = sealed[Peer(d)].data
          /\ last.credit = sealed[Peer(d)].credit
          /\ last.lim <=> flow[Peer(d)].limited
  BY <1>1 DEF WireInv
<1>9. /\ net[d][1].data <= sealed[Peer(d)].data /\ net[d][1].credit <= sealed[Peer(d)].credit
      /\ net[d][1].lim => flow[Peer(d)].limited
  BY <1>6, <1>7, <1>8
<1> QED BY <1>2, <1>4, <1>5, <1>9 DEF FrameInv

-----------------------------------------------------------------------------
(* The reader's queue. *)

\* A step that leaves the queue and its counters alone.
LEMMA QueueSame ==
  ASSUME TypeOK, NEW d \in End, QueueInv(d),
         plainQueue'[d] = plainQueue[d], handed'[d] = handed[d],
         waiting'[d] => plainQueue[d] = <<>> /\ handed[d] = <<>>,
         taken'[d] = taken[d], seen'[d].data = seen[d].data,
         flow'[d].queued = flow[d].queued, flow'[d].uncounted = flow[d].uncounted,
         flow'[d].counting = flow[d].counting
  PROVE  QueueInv(d)'
<1>1. \A i \in Int : Ahead(d, i)' = Ahead(d, i) BY DEF Ahead
<1>2. \A i \in Int : QueuedInv(d, i)' <=> QueuedInv(d, i) BY <1>1 DEF QueuedInv
<1>3. Ahead(d, Len(plainQueue[d]) + 1)' = Ahead(d, Len(plainQueue[d]) + 1) BY DEF Ahead
<1>4. HandedInv(d)' <=> HandedInv(d) BY DEF HandedInv
<1>5. plainQueue[d] \in Seq(Frames) /\ Len(plainQueue[d]) \in Nat BY StateFacts
<1>6. \A i \in 1..Len(plainQueue'[d]) : QueuedInv(d, i)' BY <1>2, <1>5 DEF QueueInv
<1> QED BY <1>3, <1>4, <1>6 DEF QueueInv

\* The peer's start: everything queued by then predates it.
LEMMA QueueStart ==
  ASSUME TypeOK, NEW d \in End, QueueInv(d), ~flow[d].counting,
         plainQueue'[d] = plainQueue[d], handed'[d] = handed[d], waiting'[d] = waiting[d],
         taken'[d] = taken[d], seen'[d].data = seen[d].data,
         flow'[d].queued = flow[d].queued, flow'[d].uncounted = flow[d].queued,
         flow'[d].counting
  PROVE  QueueInv(d)'
<1>1. \A i \in Int : Ahead(d, i)' = Ahead(d, i) BY DEF Ahead
<1>2. Ahead(d, Len(plainQueue[d]) + 1)' = Ahead(d, Len(plainQueue[d]) + 1) BY DEF Ahead
<1>3. plainQueue[d] \in Seq(Frames) /\ handed[d] \in Seq(Frames) BY StateFacts
<1>4. PICK n \in Nat, h \in Nat : n = Len(plainQueue[d]) /\ h = Len(handed[d]) BY <1>3
<1>5. flow[d].queued = n + h /\ (handed[d] # <<>> => h > 0)
  <2>1. flow[d].queued = n + h BY <1>4 DEF QueueInv
  <2>2. handed[d] # <<>> => h > 0 BY <1>3, <1>4
  <2> QED BY <2>1, <2>2
<1>6. \A i \in 1..n : QueuedInv(d, i)'
  <2> SUFFICES ASSUME NEW i \in 1..n PROVE QueuedInv(d, i)' OBVIOUS
  <2>1. QueuedInv(d, i) BY <1>4 DEF QueueInv
  <2>2. ~plainQueue[d][i].lim BY <2>1 DEF QueuedInv
  <2>3. ~(flow'[d].uncounted < i + h) BY <1>5
  <2>4. ~(flow'[d].uncounted < i + Len(handed'[d])) BY <1>4, <2>3
  <2> QED BY <1>1, <2>1, <2>2, <2>4 DEF QueuedInv
<1>7. HandedInv(d)'
  <2>1. HandedInv(d) BY DEF QueueInv
  <2>2. handed[d] # <<>> => flow'[d].uncounted # 0 BY <1>5
  <2> QED BY <2>1, <2>2 DEF HandedInv
<1>8. flow'[d].uncounted \in 0..flow'[d].queued BY <1>5
<1> QED BY <1>2, <1>4, <1>6, <1>7, <1>8 DEF QueueInv

\* A data fragment joins the queue.
LEMMA QueuePush ==
  ASSUME TypeOK, NEW d \in End, QueueInv(d), NEW frame \in Frames, ~waiting[d],
         plainQueue'[d] = Append(plainQueue[d], frame), handed'[d] = handed[d],
         waiting'[d] = waiting[d], taken'[d] = taken[d],
         frame.lim <=> flow[d].counting,
         frame.data = seen[d].data + IF frame.lim THEN Cost(frame) ELSE 0,
         seen'[d].data = frame.data,
         ~flow[d].counting => flow[d].uncounted = 0,
         flow'[d].queued = flow[d].queued + 1, flow'[d].uncounted = flow[d].uncounted,
         flow'[d].counting = flow[d].counting
  PROVE  QueueInv(d)'
<1>0. /\ plainQueue[d] \in Seq(Frames) /\ handed[d] \in Seq(Frames)
      /\ Len(plainQueue[d]) \in Nat /\ Len(handed[d]) \in Nat
  BY StateFacts
<1>1. PICK n \in Nat, h \in Nat : n = Len(plainQueue[d]) /\ h = Len(handed[d]) BY <1>0
<1>2. /\ Len(plainQueue'[d]) = n + 1 /\ plainQueue'[d][n + 1] = frame
      /\ \A i \in 1..n : plainQueue'[d][i] = plainQueue[d][i] /\ plainQueue[d][i] \in Frames
  BY <1>0, <1>1
<1>3. \A i \in 1..(n + 1) : Ahead(d, i)' = Ahead(d, i) BY <1>1, <1>2 DEF Ahead
<1>4. /\ Cost(frame) \in Nat /\ seen[d].data \in Nat /\ frame.data \in Nat
      /\ seen[d].data <= frame.data
  <2>1. Cost(frame) \in Nat /\ seen[d].data \in Nat BY FrameFields, StateFacts
  <2>2. seen[d].data <= frame.data BY <2>1
  <2> QED BY <2>1, <2>2, FrameFields
<1>5. /\ flow[d].queued = n + h /\ flow[d].uncounted \in 0..flow[d].queued
      /\ Ahead(d, n + 1) = seen[d].data
  BY <1>1 DEF QueueInv
<1>6. \A i \in 1..(n + 1) : QueuedInv(d, i)'
  <2>1. ASSUME NEW i \in 1..n PROVE QueuedInv(d, i)'
    <3>1. QueuedInv(d, i) BY <1>1, <2>1 DEF QueueInv
    <3>2. plainQueue[d][i].data \in Nat BY <1>2, <2>1, FrameFields
    <3>3. plainQueue'[d][i] = plainQueue[d][i] /\ Ahead(d, i)' = Ahead(d, i)
      BY <1>1, <1>2, <1>3, <2>1
    <3>4. plainQueue[d][i].data <= seen'[d].data BY <1>4, <3>1, <3>2 DEF QueuedInv
    <3> QED BY <3>1, <3>3, <3>4 DEF QueuedInv
  <2>2. QueuedInv(d, n + 1)'
    <3>1. plainQueue'[d][n + 1] = frame /\ Ahead(d, n + 1)' = seen[d].data
      BY <1>1, <1>2, <1>3, <1>5
    <3>2. flow[d].uncounted < (n + 1) + h BY <1>5
    <3>3. frame.data <= seen'[d].data BY <1>4
    <3> QED BY <1>1, <3>1, <3>2, <3>3 DEF QueuedInv
  <2> QED BY <2>1, <2>2
<1>7. HandedInv(d)'
  <2>1. HandedInv(d) BY DEF QueueInv
  <2>2. handed[d] # <<>> => handed[d][1].data \in Nat BY <1>0, HeadFrame, FrameFields
  <2>3. handed[d] # <<>> => handed[d][1].data <= seen'[d].data
    BY <1>4, <2>1, <2>2 DEF HandedInv
  <2> QED BY <2>1, <2>3 DEF HandedInv
<1>8. Ahead(d, Len(plainQueue[d]) + 1)' = seen'[d].data
  <2>1. Len(plainQueue'[d]) + 1 > 1 /\ (Len(plainQueue'[d]) + 1) - 1 = n + 1 BY <1>1, <1>2
  <2> QED BY <1>2, <2>1 DEF Ahead
<1>9. /\ flow'[d].queued = (n + 1) + h
      /\ flow'[d].uncounted \in 0..flow'[d].queued
  BY <1>5
<1> QED BY <1>1, <1>2, <1>6, <1>7, <1>8, <1>9 DEF QueueInv

\* A data fragment is handed to a reader that waits.
LEMMA QueueHand ==
  ASSUME TypeOK, NEW d \in End, QueueInv(d), NEW frame \in Frames, waiting[d],
         plainQueue'[d] = plainQueue[d], handed'[d] = <<frame>>,
         ~waiting'[d], taken'[d] = taken[d],
         frame.lim <=> flow[d].counting,
         frame.data = seen[d].data + IF frame.lim THEN Cost(frame) ELSE 0,
         seen'[d].data = frame.data,
         flow'[d].queued = flow[d].queued + 1, flow'[d].uncounted = flow[d].uncounted,
         flow'[d].counting = flow[d].counting
  PROVE  QueueInv(d)'
<1>1. /\ plainQueue[d] = <<>> /\ handed[d] = <<>> /\ flow[d].queued = 0
      /\ flow[d].uncounted = 0 /\ taken[d] = seen[d].data
  <2>1. plainQueue[d] = <<>> /\ handed[d] = <<>> BY DEF QueueInv
  <2>2. Len(plainQueue[d]) = 0 /\ Len(handed[d]) = 0 BY <2>1
  <2>3. flow[d].queued = 0 + 0 /\ Ahead(d, 0 + 1) = seen[d].data
        /\ flow[d].uncounted \in 0..flow[d].queued
    BY <2>2 DEF QueueInv
  <2> QED BY <2>1, <2>3 DEF Ahead
<1>2. Len(handed'[d]) = 1 /\ Len(plainQueue'[d]) = 0 /\ handed'[d] # <<>> /\ handed'[d][1] = frame
  BY <1>1
<1>3. frame.data \in Nat BY FrameFields
<1>4. HandedInv(d)' BY <1>1, <1>2, <1>3 DEF HandedInv
<1>5. Ahead(d, Len(plainQueue[d]) + 1)' = seen'[d].data BY <1>2 DEF Ahead
<1>6. flow'[d].queued = 0 + 1 /\ flow'[d].uncounted \in 0..flow'[d].queued BY <1>1
<1> QED BY <1>2, <1>4, <1>5, <1>6 DEF QueueInv

\* The counters of a FlowCredit once a fragment is read.
Takes(d) ==
  /\ flow'[d].queued = flow[d].queued - 1
  /\ flow'[d].uncounted = IF flow[d].uncounted > 0 THEN flow[d].uncounted - 1
                          ELSE flow[d].uncounted
  /\ flow'[d].counting = flow[d].counting

\* The only index of a sequence of one element.
LEMMA OnlyOne == \A k \in Nat : k >= 1 /\ k <= 1 => k = 1
OBVIOUS

\* The reader takes the fragment it was handed.
LEMMA QueueTakeHanded ==
  ASSUME TypeOK, NEW d \in End, QueueInv(d), handed[d] # <<>>,
         plainQueue'[d] = plainQueue[d], handed'[d] = <<>>, waiting'[d] = waiting[d],
         taken'[d] = handed[d][1].data, seen'[d] = seen[d], Takes(d)
  PROVE  QueueInv(d)'
<1>0. plainQueue[d] \in Seq(Frames) /\ handed[d] \in Seq(Frames) BY StateFacts
<1>1. PICK n \in Nat : n = Len(plainQueue[d]) BY <1>0
<1>2. Len(handed[d]) = 1 /\ Len(handed'[d]) = 0
  <2>1. PICK h \in Nat : h = Len(handed[d]) /\ h >= 1 BY <1>0, HeadFrame
  <2>2. h <= 1 BY <2>1 DEF QueueInv
  <2>3. h = 1 BY <2>1, <2>2, OnlyOne
  <2>4. Len(handed'[d]) = 0 OBVIOUS
  <2> QED BY <2>1, <2>3, <2>4
<1>3. flow[d].queued = n + 1 /\ flow[d].uncounted \in 0..flow[d].queued
  BY <1>1, <1>2 DEF QueueInv
<1>4. \A i \in Int : Ahead(d, i)' = Ahead(d, i) BY DEF Ahead
<1>5. \A i \in 1..n : QueuedInv(d, i)'
  <2> SUFFICES ASSUME NEW i \in 1..n PROVE QueuedInv(d, i)' OBVIOUS
  <2>1. QueuedInv(d, i) BY <1>1 DEF QueueInv
  <2>2. flow'[d].uncounted < i + 0 <=> flow[d].uncounted < i + 1 BY <1>3 DEF Takes
  <2> QED BY <1>2, <1>4, <2>1, <2>2 DEF QueuedInv, Takes
<1>6. HandedInv(d)' BY DEF HandedInv
<1>7. Ahead(d, Len(plainQueue[d]) + 1)' = seen'[d].data
  <2>1. Ahead(d, n + 1) = seen[d].data BY <1>1 DEF QueueInv
  <2>2. Ahead(d, Len(plainQueue[d]) + 1)' = Ahead(d, n + 1)' BY <1>1 DEF Ahead
  <2>3. n + 1 \in Int BY <1>1
  <2> QED BY <1>4, <2>1, <2>2, <2>3
<1>8. flow'[d].queued = n + 0 /\ flow'[d].uncounted \in 0..flow'[d].queued
  BY <1>3 DEF Takes
<1>9. ~waiting'[d] BY DEF QueueInv
<1> QED BY <1>1, <1>2, <1>5, <1>6, <1>7, <1>8, <1>9 DEF QueueInv

\* The reader takes the fragment at the head of the queue.
LEMMA QueueTakeQueued ==
  ASSUME TypeOK, NEW d \in End, QueueInv(d), handed[d] = <<>>, plainQueue[d] # <<>>,
         plainQueue'[d] = Tail(plainQueue[d]), handed'[d] = handed[d], waiting'[d] = waiting[d],
         taken'[d] = plainQueue[d][1].data, seen'[d] = seen[d], Takes(d)
  PROVE  QueueInv(d)'
<1>0. plainQueue[d] \in Seq(Frames) /\ Len(plainQueue[d]) \in Nat /\ Len(plainQueue[d]) >= 1
  BY StateFacts, HeadFrame
<1>1. PICK n \in Nat : n + 1 = Len(plainQueue[d])
  <2>1. Len(plainQueue[d]) - 1 \in Nat /\ (Len(plainQueue[d]) - 1) + 1 = Len(plainQueue[d])
    BY <1>0
  <2> QED BY <2>1
<1>2. /\ Len(plainQueue'[d]) = n /\ Len(handed[d]) = 0 /\ Len(handed'[d]) = 0
      /\ \A i \in 1..n : plainQueue'[d][i] = plainQueue[d][i + 1]
  BY <1>0, <1>1, HeadFrame
<1>3. flow[d].queued = (n + 1) + 0 /\ flow[d].uncounted \in 0..flow[d].queued
  BY <1>1, <1>2 DEF QueueInv
<1>4. \A i \in 1..(n + 1) : Ahead(d, i)' = Ahead(d, i + 1)
  <2> SUFFICES ASSUME NEW i \in 1..(n + 1) PROVE Ahead(d, i)' = Ahead(d, i + 1) OBVIOUS
  <2>1. i + 1 > 1 /\ (i + 1) - 1 = i BY <1>1
  <2>2. Ahead(d, i + 1) = plainQueue[d][i].data BY <2>1 DEF Ahead
  <2>3. CASE i = 1 BY <2>2, <2>3 DEF Ahead
  <2>4. CASE i > 1
    <3>1. i - 1 \in 1..n /\ (i - 1) + 1 = i BY <2>4
    <3> QED BY <1>2, <2>2, <2>4, <3>1 DEF Ahead
  <2> QED BY <2>3, <2>4
<1>5. \A i \in 1..n : QueuedInv(d, i)'
  <2> SUFFICES ASSUME NEW i \in 1..n PROVE QueuedInv(d, i)' OBVIOUS
  <2>1. i + 1 \in 1..(n + 1) /\ i \in 1..(n + 1) BY <1>1
  <2>2. QueuedInv(d, i + 1) BY <1>1, <2>1 DEF QueueInv
  <2>3. flow'[d].uncounted < i + 0 <=> flow[d].uncounted < (i + 1) + 0 BY <1>3 DEF Takes
  <2>4. plainQueue'[d][i] = plainQueue[d][i + 1] /\ Ahead(d, i)' = Ahead(d, i + 1)
    BY <1>2, <1>4, <2>1
  <2> QED BY <1>2, <2>2, <2>3, <2>4 DEF QueuedInv, Takes
<1>6. HandedInv(d)' BY DEF HandedInv
<1>7. Ahead(d, Len(plainQueue[d]) + 1)' = seen'[d].data
  <2>1. Ahead(d, (n + 1) + 1) = seen[d].data BY <1>1 DEF QueueInv
  <2>2. Ahead(d, Len(plainQueue[d]) + 1)' = Ahead(d, n + 1)' BY <1>2 DEF Ahead
  <2>3. n + 1 \in 1..(n + 1) BY <1>1
  <2> QED BY <1>4, <2>1, <2>2, <2>3
<1>8. flow'[d].queued = n + 0 /\ flow'[d].uncounted \in 0..flow'[d].queued
  BY <1>3 DEF Takes
<1>9. ~waiting'[d] BY DEF QueueInv
<1> QED BY <1>2, <1>5, <1>6, <1>7, <1>8, <1>9 DEF QueueInv

-----------------------------------------------------------------------------
(* The steps. *)

\* What an end has received and not credited fits the window of its peer.
LEMMA WithinPeersWindow ==
  ASSUME TypeOK, NEW e \in End, EndInv(e), EndInv(Peer(e)), NEW x \in Nat,
         x <= sealed[Peer(e)].data, flow[Peer(e)].limited
  PROVE  x - sealed[e].credit <= FLOW_WINDOW
<1> DEFINE p == Peer(e)
<1>1. p \in End /\ Peer(p) = e BY PeerFacts
<1>2. /\ sealed[e].credit \in Nat /\ sealed[p].data \in Nat /\ seen[p].credit \in Nat
      /\ flow[p].window \in Int
  BY <1>1, StateFacts, Fields
<1>3. /\ flow[p].window = FLOW_WINDOW - sealed[p].data + seen[p].credit
      /\ flow[p].window >= 0 /\ seen[p].credit <= sealed[e].credit
  BY <1>1 DEF EndInv
<1> HIDE DEF p
<1>4. x <= sealed[p].data BY DEF p
<1> QED BY <1>2, <1>3, <1>4, FlowAssumption

\* What an end seals reaches its open peer's wire as a frame with its stamps.
LEMMA TransmitFrame ==
  ASSUME TypeOK, NEW e \in End, NEW f, NEW total, NEW body, NEW network,
         network \in [End -> Seq(Frames)], Transmit(e, f, total, body, network)
  PROVE  /\ sealed'[e] = total /\ sealed'[Peer(e)] = sealed[Peer(e)]
         /\ net'[e] = network[e]
         /\ ~Open(Peer(e)) => net'[Peer(e)] = network[Peer(e)]
         /\ Open(Peer(e)) => \E frame :
              /\ net'[Peer(e)] = Append(network[Peer(e)], frame)
              /\ frame = Sealed(e, f, total, body)
<1>1. Peer(e) \in End /\ Peer(e) # e BY PeerFacts
<1>2. sealed' = [sealed EXCEPT ![e] = total] BY DEF Transmit
<1>3. sealed'[e] = total /\ sealed'[Peer(e)] = sealed[Peer(e)] BY <1>1, <1>2 DEF TypeOK
<1>4. CASE Open(Peer(e))
  <2>1. net' = [network EXCEPT ![Peer(e)] = Append(@, Sealed(e, f, total, body))]
    BY <1>4 DEF Transmit
  <2> QED BY <1>1, <1>3, <1>4, <2>1
<1>5. CASE ~Open(Peer(e)) BY <1>3, <1>5 DEF Transmit
<1> QED BY <1>4, <1>5

\* The fields of a sealed frame.
LEMMA SealedFields ==
  ASSUME NEW e, NEW f, NEW total, NEW body
  PROVE  LET frame == Sealed(e, f, total, body)
         IN  /\ frame.body = body /\ frame.lim = f.limited
             /\ frame.data = total.data /\ frame.credit = total.credit
BY DEF Sealed

\* An end whose own totals stand still.
LEMMA EndSame ==
  ASSUME TypeOK, TypeOK', NEW d \in End, EndInv(d),
         ended'[d] \notin {"overrun", "credit"},
         flow'[d].limited = flow[d].limited, flow'[d].window = flow[d].window,
         flow'[d].counting = flow[d].counting,
         seen'[d] = seen[d], sealed'[d].data = sealed[d].data,
         flow[d].limited \/ sealed'[d].credit = sealed[d].credit,
         flow[Peer(d)].limited => flow'[Peer(d)].limited,
         sealed[Peer(d)].data <= sealed'[Peer(d)].data,
         sealed[Peer(d)].credit <= sealed'[Peer(d)].credit
  PROVE  EndInv(d)'
<1>1. /\ sealed[Peer(d)].data \in Nat /\ sealed[Peer(d)].credit \in Nat
      /\ seen[d].data \in Nat /\ seen[d].credit \in Nat
  BY PeerFacts, StateFacts
<1>2. sealed'[Peer(d)].data \in Nat /\ sealed'[Peer(d)].credit \in Nat
  BY PeerFacts, StateFactsPrime
<1>3. seen'[d].data <= sealed'[Peer(d)].data /\ seen'[d].credit <= sealed'[Peer(d)].credit
  BY <1>1, <1>2 DEF EndInv
<1>4. flow'[d].counting => flow'[d].limited /\ flow'[Peer(d)].limited BY DEF EndInv
<1>5. IF flow'[d].limited
      THEN /\ flow'[d].window = FLOW_WINDOW - sealed'[d].data + seen'[d].credit
           /\ flow'[d].window >= 0
      ELSE sealed'[d].data = 0 /\ sealed'[d].credit = 0 /\ seen'[d].credit = 0
  BY DEF EndInv
<1> QED BY <1>3, <1>4, <1>5 DEF EndInv

\* The other end of a step: nothing of its own changes.
LEMMA Bystander ==
  ASSUME TypeOK, TypeOK', NEW d \in End, Good(d),
         ended'[d] = ended[d], flow'[d] = flow[d], seen'[d] = seen[d],
         taken'[d] = taken[d], sealed'[d] = sealed[d],
         plainQueue'[d] = plainQueue[d], handed'[d] = handed[d], waiting'[d] = waiting[d],
         flow[Peer(d)].limited => flow'[Peer(d)].limited,
         sealed[Peer(d)].data <= sealed'[Peer(d)].data,
         sealed[Peer(d)].credit <= sealed'[Peer(d)].credit,
         Open(d) => WireInv(d)'
  PROVE  Good(d)'
<1>1. EndInv(d)'
  <2>1. EndInv(d) BY DEF Good
  <2>2. ended'[d] \notin {"overrun", "credit"} BY <2>1 DEF EndInv
  <2> QED BY <2>1, <2>2, EndSame
<1>2. CASE Open(d)
  <2>1. WireInv(d)' BY <1>2
  <2>2. QueueInv(d) /\ CountInv(d) BY <1>2 DEF Good
  <2>3. waiting'[d] => plainQueue[d] = <<>> /\ handed[d] = <<>> BY <2>2 DEF QueueInv
  <2>4. QueueInv(d)' BY <2>2, <2>3, QueueSame
  <2>5. CountInv(d)' BY <2>2 DEF CountInv
  <2> QED BY <1>1, <2>1, <2>4, <2>5 DEF Good
<1>3. CASE ~Open(d) BY <1>1, <1>3 DEF Good, Open
<1> QED BY <1>2, <1>3

\* SendFragment(e) spends what it adds to e's total.
LEMMA SendFragmentGood ==
  ASSUME ChannelInv, TypeOK', NEW e \in End, SendFragment(e)
  PROVE  Good(e)' /\ Good(Peer(e))'
<1> DEFINE p == Peer(e)
           m == Head(outbox[e])
           i == offset[e] + 1
           f == spend(flow[e], NextCost(e))
           total == IF flow[e].limited THEN [sealed[e] EXCEPT !.data = @ + NextCost(e)]
                    ELSE sealed[e]
           body == DataBody(e, m, i)
<1>1. p \in End /\ Peer(p) = e /\ p # e BY PeerFacts
<1>2. TypeOK /\ Good(e) /\ Good(p) BY <1>1 DEF ChannelInv
<1>3. /\ Open(e) /\ allows(flow[e], NextCost(e)) /\ flow' = [flow EXCEPT ![e] = f]
      /\ Transmit(e, f, total, body, net)
      /\ UNCHANGED <<ended, plainQueue, handed, waiting, seen, taken>>
  BY DEF SendFragment, readVars
<1>4. /\ NextCost(e) \in Nat /\ body \in Bodies /\ ~body.isCredit
      /\ fragmentCost(body.length) = NextCost(e)
  <2>1. outbox[e] # <<>> BY DEF SendFragment
  <2>2. NextCost(e) \in Nat /\ body \in Bodies BY <1>2, <2>1, NextFragment
  <2> QED BY <2>2 DEF DataBody, NextCost, NextLength
<1>5. flow[e] \in FlowType BY <1>2, StateFacts
<1>6. /\ Same(flow[e], f, {"window"})
      /\ f.window = IF flow[e].limited THEN flow[e].window - NextCost(e) ELSE flow[e].window
  BY <1>4, <1>5, SpendFacts
<1>7. /\ sealed[e] \in Totals /\ sealed[e].data \in Nat /\ sealed[e].credit \in Nat
      /\ seen[e].credit \in Nat /\ flow[e].window \in Int /\ flow[e].limited \in BOOLEAN
  BY <1>2, <1>5, StateFacts, Fields DEF TypeOK
<1>8. /\ total \in Totals /\ total.credit = sealed[e].credit
      /\ total.data = sealed[e].data + IF flow[e].limited THEN NextCost(e) ELSE 0
  BY <1>4, <1>7 DEF Totals
<1> HIDE DEF p, m, i, f, total, body
<1>10. net \in [End -> Seq(Frames)] /\ flow \in [End -> FlowType] BY <1>2 DEF TypeOK
<1>9. flow'[e] = f /\ flow'[p] = flow[p] BY <1>1, <1>3, <1>10
<1>11. /\ sealed'[e] = total /\ sealed'[p] = sealed[p] /\ net'[e] = net[e]
       /\ Open(p) => net'[p] = Append(net[p], Sealed(e, f, total, body))
  BY <1>2, <1>3, <1>10, TransmitFrame DEF p
<1>12. Good(e)'
  <2>1. EndInv(e) /\ WireInv(e) /\ QueueInv(e) /\ CountInv(e) BY <1>2, <1>3 DEF Good
  <2>2. flow[e].limited => flow[e].window >= NextCost(e) BY <1>3 DEF allows
  <2>3. IF flow'[e].limited
        THEN /\ flow'[e].window = FLOW_WINDOW - sealed'[e].data + seen'[e].credit
             /\ flow'[e].window >= 0
        ELSE sealed'[e].data = 0 /\ sealed'[e].credit = 0 /\ seen'[e].credit = 0
    <3>1. CASE flow[e].limited
      <4>1. flow[e].window = FLOW_WINDOW - sealed[e].data + seen[e].credit
        BY <2>1, <3>1 DEF EndInv
      <4>2. f.window = FLOW_WINDOW - total.data + seen[e].credit /\ f.window >= 0
        BY <1>4, <1>6, <1>7, <1>8, <2>2, <3>1, <4>1, FlowAssumption
      <4> QED BY <1>3, <1>6, <1>9, <1>11, <3>1, <4>2 DEF Same
    <3>2. CASE ~flow[e].limited
      <4>1. sealed[e].data = 0 /\ sealed[e].credit = 0 /\ seen[e].credit = 0
        BY <2>1, <3>2 DEF EndInv
      <4> QED BY <1>3, <1>6, <1>7, <1>8, <1>9, <1>11, <3>2, <4>1 DEF Same
    <3> QED BY <3>1, <3>2
  <2>4. EndInv(e)' BY <1>3, <1>6, <1>9, <1>11, <2>1, <2>3 DEF EndInv, Same, p
  <2>5. WireInv(e)' BY <1>3, <1>6, <1>9, <1>11, <2>1, WireSame DEF Same, p
  <2>6. waiting'[e] => plainQueue[e] = <<>> /\ handed[e] = <<>> BY <1>3, <2>1 DEF QueueInv
  <2>7. QueueInv(e)' BY <1>2, <1>3, <1>6, <1>9, <2>1, <2>6, QueueSame DEF Same
  <2>8. CountInv(e)' BY <1>3, <1>6, <1>8, <1>9, <1>11, <2>1 DEF CountInv, Same
  <2> QED BY <2>4, <2>5, <2>7, <2>8 DEF Good
<1>13. Good(p)'
  <2>1. Open(p) => WireInv(p)'
    <3> SUFFICES ASSUME Open(p) PROVE WireInv(p)' OBVIOUS
    <3>1. WireInv(p) BY <1>2 DEF Good
    <3>2. PICK frame : frame = Sealed(e, f, total, body) OBVIOUS
    <3>3. /\ frame.body = body /\ frame.lim = f.limited
          /\ frame.data = total.data /\ frame.credit = total.credit
      BY <3>2, SealedFields
    <3>4. frame \in Frames /\ net'[p] = Append(net[p], frame)
      <4>1. net'[p] = Append(net[p], frame) BY <1>11, <3>2
      <4>2. frame \in Frames BY <1>2, <1>4, <1>6, <1>8, <3>2, SealedType DEF Same
      <4> QED BY <4>1, <4>2
    <3>5. Cost(frame) = NextCost(e) BY <1>4, <3>3 DEF Cost
    <3>6. f.limited = flow[e].limited BY <1>6 DEF Same
    <3>7. EndInv(e) BY <1>2 DEF Good
    <3>8. ~frame.lim => frame.data = 0
      BY <1>7, <1>8, <3>3, <3>6, <3>7 DEF EndInv
    <3>9. frame.data = sealed[e].data + IF frame.lim THEN Cost(frame) ELSE 0
      BY <1>8, <3>3, <3>5, <3>6
    <3>10. frame.credit = sealed[e].credit /\ ~frame.body.isCredit BY <1>4, <1>8, <3>3
    <3> QED BY <1>1, <1>2, <1>3, <1>9, <1>11, <3>1, <3>3, <3>4, <3>6, <3>8, <3>9, <3>10,
               WireAppend
  <2>2. sealed[e].data <= sealed'[e].data /\ sealed[e].credit <= sealed'[e].credit
    BY <1>4, <1>7, <1>8, <1>11
  <2>3. flow[e].limited => flow'[e].limited BY <1>6, <1>9 DEF Same
  <2> QED BY <1>1, <1>2, <1>3, <1>9, <1>11, <2>1, <2>2, <2>3, Bystander
<1> QED BY <1>12, <1>13 DEF p

\* What the end e did left its peer alone.
PeerAlone(e) ==
  LET p == Peer(e)
  IN  /\ ended'[p] = ended[p] /\ flow'[p] = flow[p] /\ seen'[p] = seen[p]
      /\ taken'[p] = taken[p] /\ plainQueue'[p] = plainQueue[p]
      /\ handed'[p] = handed[p] /\ waiting'[p] = waiting[p]

\* A credit adds to the credit total alone.
LEMMA AddCredit ==
  ASSUME NEW t \in Totals, NEW amount \in Nat
  PROVE  LET total == [t EXCEPT !.credit = @ + amount]
         IN  total \in Totals /\ total.data = t.data /\ total.credit = t.credit + amount
BY DEF Totals

\* A credit of e reaches its peer's wire and keeps the peer's invariant.
LEMMA CreditToPeer ==
  ASSUME ChannelInv, TypeOK', NEW e \in End, NEW f \in FlowType, f.limited, flow'[e] = f,
         NEW amount \in Nat, amount <= FLOW_WINDOW,
         NEW network \in [End -> Seq(Frames)], network[Peer(e)] = net[Peer(e)],
         NEW total \in Totals, total.data = sealed[e].data,
         total.credit = sealed[e].credit + amount,
         Transmit(e, f, total, CreditBody(amount), network),
         PeerAlone(e)
  PROVE  /\ Good(Peer(e))' /\ sealed'[Peer(e)] = sealed[Peer(e)] /\ net'[e] = network[e]
         /\ sealed'[e].data = sealed[e].data
         /\ sealed'[e].credit = sealed[e].credit + amount
<1> DEFINE p == Peer(e)
           body == CreditBody(amount)
<1>1. p \in End /\ Peer(p) = e /\ p # e BY PeerFacts
<1>2. TypeOK /\ Good(e) /\ Good(p) BY <1>1 DEF ChannelInv
<1>3. /\ sealed[e] \in Totals /\ sealed[e].data \in Nat /\ sealed[e].credit \in Nat
  BY <1>2, StateFacts DEF TypeOK
<1>4. total.data = sealed[e].data /\ total.credit = sealed[e].credit + amount OBVIOUS
<1>5. body \in Bodies /\ body.isCredit /\ body.amount = amount
  BY DEF CreditBody, Bodies, Chunk, ChunkIds, End, Kinds
<1> HIDE DEF p, body
<1>6. Transmit(e, f, total, body, network) BY DEF body
<1>7. /\ sealed'[e] = total /\ sealed'[p] = sealed[p] /\ net'[e] = network[e]
      /\ Open(p) => net'[p] = Append(net[p], Sealed(e, f, total, body))
  BY <1>2, <1>6, TransmitFrame DEF p
<1>8. Open(p) => WireInv(p)'
  <2> SUFFICES ASSUME Open(p) PROVE WireInv(p)' OBVIOUS
  <2>1. WireInv(p) BY <1>2 DEF Good
  <2>2. PICK frame : frame = Sealed(e, f, total, body) OBVIOUS
  <2>3. /\ frame.body = body /\ frame.lim = f.limited
        /\ frame.data = total.data /\ frame.credit = total.credit
    BY <2>2, Zenon DEF Sealed
  <2>4. net'[p] = Append(net[p], frame) BY <1>7, <2>2
  <2>5. frame \in Frames BY <1>2, <1>4, <1>5, <2>2, SealedType
  <2>6. seen'[p] = seen[p] /\ flow'[p] = flow[p] BY DEF PeerAlone, p
  <2>7. /\ frame.body.isCredit /\ frame.body.amount <= FLOW_WINDOW /\ frame.lim
        /\ frame.data = sealed[e].data /\ frame.credit = sealed[e].credit + frame.body.amount
    BY <1>4, <1>5, <2>3
  <2> QED BY <1>1, <1>2, <1>7, <2>1, <2>3, <2>4, <2>5, <2>6, <2>7, WireAppend
<1>9. sealed[e].data <= sealed'[e].data /\ sealed[e].credit <= sealed'[e].credit
  BY <1>3, <1>4, <1>7
<1>10. Good(p)' BY <1>1, <1>2, <1>7, <1>8, <1>9, Bystander DEF PeerAlone, p
<1> QED BY <1>4, <1>7, <1>10 DEF p

\* A step of e that seals nothing keeps the peer's invariant.
LEMMA QuietToPeer ==
  ASSUME ChannelInv, TypeOK', NEW e \in End, sealed' = sealed, net'[Peer(e)] = net[Peer(e)],
         flow'[e].limited = flow[e].limited, PeerAlone(e)
  PROVE  Good(Peer(e))'
<1> DEFINE p == Peer(e)
<1>1. p \in End /\ Peer(p) = e BY PeerFacts
<1>2. TypeOK /\ Good(p) BY <1>1 DEF ChannelInv
<1>3. sealed[e].data \in Nat /\ sealed[e].credit \in Nat BY <1>2, StateFacts
<1> HIDE DEF p
<1>4. PeerAlone(e) /\ net'[p] = net[p] BY DEF p
<1>5. Open(p) => WireInv(p)'
  <2> SUFFICES ASSUME Open(p) PROVE WireInv(p)' OBVIOUS
  <2>1. WireInv(p) BY <1>2 DEF Good
  <2> QED BY <1>1, <1>4, <2>1, WireSame DEF PeerAlone, p
<1>6. sealed[e].data <= sealed'[e].data /\ sealed[e].credit <= sealed'[e].credit BY <1>3
<1>7. Good(p)' BY <1>1, <1>2, <1>4, <1>5, <1>6, Bystander DEF PeerAlone, p
<1> QED BY <1>7 DEF p

\* The daemon's first credit opens its peer's count at zero.
LEMMA FlowControlGood ==
  ASSUME ChannelInv, TypeOK', NEW e \in End, e = "host", FlowControl
  PROVE  Good(e)' /\ Good(Peer(e))'
<1> DEFINE p == Peer(e)
           f == start(flow[e])
           total == [sealed[e] EXCEPT !.credit = @ + 0]
<1>1. p \in End /\ Peer(p) = e /\ p # e BY PeerFacts
<1>2. TypeOK /\ Good(e) BY DEF ChannelInv
<1>3. flow \in [End -> FlowType] /\ net \in [End -> Seq(Frames)] /\ flow[e] \in FlowType
  BY <1>2 DEF TypeOK
<1>4. /\ Same(flow[e], f, {"limited", "window"}) /\ f.limited
      /\ f.window = IF flow[e].limited THEN flow[e].window ELSE FLOW_WINDOW
  BY <1>3, StartFacts
<1>5. /\ Open(e) /\ ~flow[e].limited /\ flow' = [flow EXCEPT ![e] = f]
      /\ Transmit(e, f, total, CreditBody(0), net)
      /\ UNCHANGED <<ended, seen, taken, plainQueue, handed, waiting>>
  BY DEF FlowControl, StartReplies, SendCredit, readVars
<1>16. sealed[e] \in Totals /\ 0 \in Nat BY <1>2 DEF TypeOK
<1>17. /\ total \in Totals /\ total.data = sealed[e].data
       /\ total.credit = sealed[e].credit + 0
  BY <1>16, AddCredit
<1> HIDE DEF p, f, total
<1>6. flow'[e] = f /\ flow'[p] = flow[p] BY <1>1, <1>3, <1>5
<1>7. PeerAlone(e) BY <1>5, <1>6 DEF PeerAlone, p
<1>8. 0 \in Nat /\ 0 <= FLOW_WINDOW /\ f \in FlowType BY <1>4, FlowAssumption DEF Same
<1>9. /\ Good(p)' /\ sealed'[p] = sealed[p] /\ net'[e] = net[e]
      /\ sealed'[e].data = sealed[e].data /\ sealed'[e].credit = sealed[e].credit + 0
  BY <1>3, <1>4, <1>5, <1>6, <1>7, <1>8, <1>17, CreditToPeer DEF p
<1>10. EndInv(e) /\ WireInv(e) /\ QueueInv(e) /\ CountInv(e) BY <1>2, <1>5 DEF Good
<1>11. EndInv(e)'
  <2>1. sealed[e].data = 0 /\ seen[e].credit = 0 BY <1>5, <1>10 DEF EndInv
  <2>2. f.window = FLOW_WINDOW BY <1>4, <1>5
  <2>3. /\ flow'[e].window = FLOW_WINDOW - sealed'[e].data + seen'[e].credit
        /\ flow'[e].window >= 0
    BY <1>5, <1>6, <1>9, <2>1, <2>2, FlowAssumption
  <2> QED BY <1>4, <1>5, <1>6, <1>9, <1>10, <2>3 DEF EndInv, Same, p
<1>12. WireInv(e)' BY <1>4, <1>5, <1>6, <1>9, <1>10, WireSame DEF Same, p
<1>13. waiting'[e] => plainQueue[e] = <<>> /\ handed[e] = <<>> BY <1>5, <1>10 DEF QueueInv
<1>14. QueueInv(e)' BY <1>2, <1>4, <1>5, <1>6, <1>10, <1>13, QueueSame DEF Same
<1>15. CountInv(e)'
  <2>1. sealed'[e].credit = sealed[e].credit BY <1>2, <1>9, StateFacts
  <2> QED BY <1>4, <1>5, <1>6, <1>10, <2>1 DEF CountInv, Same
<1> QED BY <1>9, <1>11, <1>12, <1>14, <1>15 DEF Good, p

\* A credit widens e's window by what its peer repaid, and starts e's count.
LEMMA PumpCreditGood ==
  ASSUME ChannelInv, TypeOK', NEW e \in End, PumpCredit(e)
  PROVE  Good(e)' /\ Good(Peer(e))'
<1> DEFINE p == Peer(e)
           frame == net[e][1]
           amount == frame.body.amount
           f == credited(flow[e], amount)
           rest == [net EXCEPT ![e] = Tail(@)]
           total == [sealed[e] EXCEPT !.credit = @ + 0]
<1>1. p \in End /\ Peer(p) = e /\ p # e BY PeerFacts
<1>2. TypeOK /\ Good(e) BY DEF ChannelInv
<1>3. Open(e) /\ net[e] # <<>> BY DEF PumpCredit, Pumping
<1>4. EndInv(e) /\ WireInv(e) /\ QueueInv(e) /\ CountInv(e) BY <1>2, <1>3 DEF Good
<1>5. /\ frame \in Frames /\ frame = Head(net[e])
      /\ frame.body.isCredit =>
           /\ frame.body.amount <= FLOW_WINDOW /\ frame.lim
           /\ frame.data = seen[e].data
           /\ frame.credit = seen[e].credit + frame.body.amount
      /\ frame.data <= sealed[p].data /\ frame.credit <= sealed[p].credit
      /\ frame.lim => flow[p].limited
  BY <1>2, <1>3, <1>4, WireHead
<1>6. /\ frame.body.isCredit /\ flow' = [flow EXCEPT ![e] = f]
      /\ SendCredit(e, ~flow[e].limited, 0, f, rest)
      /\ seen' = [seen EXCEPT ![e] = [data |-> frame.data, credit |-> frame.credit]]
      /\ UNCHANGED <<ended, taken, plainQueue, handed, waiting>>
  BY <1>5 DEF PumpCredit, StartReplies, readVars, Decrypted
<1>7. flow \in [End -> FlowType] /\ net \in [End -> Seq(Frames)] /\ flow[e] \in FlowType
  BY <1>2 DEF TypeOK
<1>8. amount \in Nat BY <1>5, FrameFields
<1>9. /\ Same(flow[e], f, {"limited", "window", "counting", "uncounted"})
      /\ f.limited /\ f.counting
      /\ f.window = amount + IF flow[e].limited THEN flow[e].window ELSE FLOW_WINDOW
      /\ f.uncounted = IF flow[e].counting THEN flow[e].uncounted ELSE flow[e].queued
  BY <1>7, <1>8, CreditedFacts
<1>10. Tail(net[e]) \in Seq(Frames) BY <1>3, <1>7, HeadFrame
<1>11. rest \in [End -> Seq(Frames)] /\ rest[e] = Tail(net[e]) /\ rest[p] = net[p]
  BY <1>1, <1>7, <1>10
<1>12. sealed[e] \in Totals /\ 0 \in Nat BY <1>2 DEF TypeOK
<1>13. total \in Totals /\ total.data = sealed[e].data /\ total.credit = sealed[e].credit + 0
  BY <1>12, AddCredit
<1>14. ~flow[e].limited => Transmit(e, f, total, CreditBody(0), rest) BY <1>6 DEF SendCredit
<1>15. flow[e].limited => sealed' = sealed /\ net' = rest BY <1>6 DEF SendCredit
<1> HIDE DEF p, f, rest, total, amount
<1>16. flow'[e] = f /\ flow'[p] = flow[p] BY <1>1, <1>6, <1>7
<1>17. seen'[p] = seen[p] /\ seen'[e].data = frame.data /\ seen'[e].credit = frame.credit
  BY <1>1, <1>2, <1>6 DEF TypeOK
<1>18. PeerAlone(e) BY <1>6, <1>16, <1>17 DEF PeerAlone, p
<1>19. 0 \in Nat /\ 0 <= FLOW_WINDOW /\ f \in FlowType BY <1>9, FlowAssumption DEF Same
<1>20. sealed[e].data \in Nat /\ sealed[e].credit \in Nat /\ seen[e].credit \in Nat
  BY <1>2, StateFacts
<1>21. /\ Good(p)' /\ sealed'[p] = sealed[p] /\ net'[e] = Tail(net[e])
       /\ sealed'[e].data = sealed[e].data /\ sealed'[e].credit = sealed[e].credit
  <2>1. CASE flow[e].limited
    <3>1. sealed' = sealed /\ net'[e] = Tail(net[e]) /\ net'[p] = net[p]
      BY <1>11, <1>15, <2>1
    <3>2. flow'[e].limited = flow[e].limited
      <4>1. f.limited \in BOOLEAN /\ flow[e].limited \in BOOLEAN BY <1>7, <1>19, Fields
      <4> QED BY <1>9, <1>16, <2>1, <4>1
    <3> QED BY <1>18, <3>1, <3>2, QuietToPeer DEF p
  <2>2. CASE ~flow[e].limited
    <3>1. /\ Good(p)' /\ sealed'[p] = sealed[p] /\ net'[e] = rest[e]
          /\ sealed'[e].data = sealed[e].data /\ sealed'[e].credit = sealed[e].credit + 0
      BY <1>9, <1>11, <1>13, <1>14, <1>16, <1>18, <1>19, <2>2, CreditToPeer DEF p
    <3> QED BY <1>11, <1>20, <3>1
  <2> QED BY <2>1, <2>2
<1>22. EndInv(e)'
  <2>1. flow'[e].window = FLOW_WINDOW - sealed'[e].data + seen'[e].credit
        /\ flow'[e].window >= 0
    <3>1. frame.credit = seen[e].credit + amount BY <1>5, <1>6 DEF amount
    <3>2. CASE flow[e].limited
      <4>1. flow[e].window = FLOW_WINDOW - sealed[e].data + seen[e].credit
            /\ flow[e].window >= 0
        BY <1>4, <3>2 DEF EndInv
      <4>2. f.window = amount + flow[e].window BY <1>9, <3>2
      <4> QED BY <1>8, <1>16, <1>17, <1>20, <1>21, <3>1, <4>1, <4>2, FlowAssumption
    <3>3. CASE ~flow[e].limited
      <4>1. sealed[e].data = 0 /\ seen[e].credit = 0 BY <1>4, <3>3 DEF EndInv
      <4>2. f.window = amount + FLOW_WINDOW BY <1>9, <3>3
      <4> QED BY <1>8, <1>16, <1>17, <1>20, <1>21, <3>1, <4>1, <4>2, FlowAssumption
    <3> QED BY <3>2, <3>3
  <2>2. flow'[e].limited /\ flow'[p].limited BY <1>5, <1>6, <1>9, <1>16
  <2>3. seen'[e].data <= sealed'[p].data /\ seen'[e].credit <= sealed'[p].credit
    BY <1>5, <1>17, <1>21
  <2> QED BY <1>4, <1>6, <2>1, <2>2, <2>3 DEF EndInv, p
<1>23. WireInv(e)'
  <2>1. flow'[e].counting <=> net[e][1].lim BY <1>5, <1>6, <1>9, <1>16
  <2> QED BY <1>2, <1>3, <1>4, <1>16, <1>17, <1>21, <2>1, WirePop DEF p
<1>24. QueueInv(e)'
  <2>1. seen'[e].data = seen[e].data BY <1>5, <1>6, <1>17
  <2>2. waiting'[e] => plainQueue[e] = <<>> /\ handed[e] = <<>> BY <1>4, <1>6 DEF QueueInv
  <2>3. flow'[e].queued = flow[e].queued /\ flow'[e].counting BY <1>9, <1>16 DEF Same
  <2>4. CASE flow[e].counting
    <3>1. flow'[e].uncounted = flow[e].uncounted BY <1>9, <1>16, <2>4
    <3>2. flow'[e].counting = flow[e].counting BY <2>3, <2>4
    <3> QED BY <1>2, <1>4, <1>6, <2>1, <2>2, <2>3, <3>1, <3>2, QueueSame
  <2>5. CASE ~flow[e].counting
    <3>1. flow'[e].uncounted = flow[e].queued BY <1>9, <1>16, <2>5
    <3> QED BY <1>2, <1>4, <1>6, <2>1, <2>3, <2>5, <3>1, QueueStart
  <2> QED BY <2>4, <2>5
<1>25. CountInv(e)'
  <2>1. seen'[e].data = seen[e].data BY <1>5, <1>6, <1>17
  <2>2. flow'[e].counting BY <1>9, <1>16
  <2>3. flow'[e].unacked = flow[e].unacked /\ flow'[e].owed = flow[e].owed
    BY <1>9, <1>16 DEF Same
  <2> QED BY <1>4, <1>6, <1>21, <2>1, <2>2, <2>3 DEF CountInv
<1> QED BY <1>21, <1>22, <1>23, <1>24, <1>25, <1>3, <1>6 DEF Good, p

\* Data within the window joins e's queue and its count.
LEMMA PumpDataGood ==
  ASSUME ChannelInv, TypeOK', NEW e \in End, PumpData(e)
  PROVE  Good(e)' /\ Good(Peer(e))'
<1> DEFINE p == Peer(e)
           frame == net[e][1]
           f == received(flow[e], Cost(frame))
<1>1. p \in End /\ Peer(p) = e /\ p # e BY PeerFacts
<1>2. TypeOK /\ Good(e) BY DEF ChannelInv
<1>3. Open(e) /\ net[e] # <<>> BY DEF PumpData, Pumping
<1>4. EndInv(e) /\ WireInv(e) /\ QueueInv(e) /\ CountInv(e) BY <1>2, <1>3 DEF Good
<1>5. /\ frame \in Frames /\ frame = Head(net[e])
      /\ ~frame.body.isCredit =>
           /\ frame.lim <=> flow[e].counting
           /\ frame.credit = seen[e].credit
           /\ frame.data = seen[e].data + IF frame.lim THEN Cost(frame) ELSE 0
      /\ ~frame.lim => frame.data = 0
      /\ frame.data <= sealed[p].data /\ frame.credit <= sealed[p].credit
  BY <1>2, <1>3, <1>4, WireHead
<1>6. /\ ~frame.body.isCredit /\ flow' = [flow EXCEPT ![e] = f]
      /\ net' = [net EXCEPT ![e] = Tail(@)]
      /\ seen' = [seen EXCEPT ![e] = [data |-> frame.data, credit |-> frame.credit]]
      /\ UNCHANGED <<ended, taken, sealed>>
  BY <1>5 DEF PumpData, Decrypted
<1>7. /\ waiting[e] => /\ waiting' = [waiting EXCEPT ![e] = FALSE]
                       /\ handed' = [handed EXCEPT ![e] = <<frame>>]
                       /\ plainQueue' = plainQueue
      /\ ~waiting[e] => /\ plainQueue' = [plainQueue EXCEPT ![e] = Append(@, frame)]
                        /\ waiting' = waiting /\ handed' = handed
  BY <1>5 DEF PumpData
<1>8. /\ flow \in [End -> FlowType] /\ net \in [End -> Seq(Frames)] /\ flow[e] \in FlowType
      /\ plainQueue \in [End -> Seq(Frames)] /\ handed \in [End -> Seq(Frames)]
      /\ waiting \in [End -> BOOLEAN] /\ seen \in [End -> Totals]
  BY <1>2 DEF TypeOK
<1>9. Cost(frame) \in Nat /\ frame.data \in Nat BY <1>5, FrameFields
<1>10. /\ Same(flow[e], f, {"queued", "unacked"}) /\ f.queued = flow[e].queued + 1
       /\ f.unacked = IF flow[e].counting THEN flow[e].unacked + Cost(frame)
                      ELSE flow[e].unacked
  BY <1>8, <1>9, ReceivedFacts
<1> HIDE DEF p, f
<1>11. flow'[e] = f /\ flow'[p] = flow[p] BY <1>1, <1>6, <1>8
<1>12. /\ seen'[p] = seen[p] /\ seen'[e].data = frame.data /\ seen'[e].credit = frame.credit
       /\ net'[e] = Tail(net[e]) /\ net'[p] = net[p]
  BY <1>1, <1>6, <1>8
<1>13. /\ plainQueue'[p] = plainQueue[p] /\ handed'[p] = handed[p] /\ waiting'[p] = waiting[p]
  BY <1>1, <1>7, <1>8
<1>14. PeerAlone(e) BY <1>6, <1>11, <1>12, <1>13 DEF PeerAlone, p
<1>15. Good(p)' BY <1>6, <1>10, <1>11, <1>12, <1>14, QuietToPeer DEF Same, p
<1>16. EndInv(e)'
  <2>1. seen'[e].credit = seen[e].credit BY <1>5, <1>6, <1>12
  <2>2. seen'[e].data <= sealed'[p].data /\ seen'[e].credit <= sealed'[p].credit
    BY <1>5, <1>6, <1>12
  <2> QED BY <1>4, <1>6, <1>10, <1>11, <2>1, <2>2 DEF EndInv, Same, p
<1>17. WireInv(e)'
  <2>1. flow'[e].counting <=> net[e][1].lim BY <1>5, <1>6, <1>10, <1>11 DEF Same
  <2> QED BY <1>2, <1>3, <1>4, <1>6, <1>11, <1>12, <2>1, WirePop DEF p
<1>18. QueueInv(e)'
  <2>1. /\ frame.lim <=> flow[e].counting
        /\ frame.data = seen[e].data + IF frame.lim THEN Cost(frame) ELSE 0
    BY <1>5, <1>6
  <2>2. /\ flow'[e].queued = flow[e].queued + 1 /\ flow'[e].uncounted = flow[e].uncounted
        /\ flow'[e].counting = flow[e].counting
    BY <1>10, <1>11 DEF Same
  <2>3. ~flow[e].counting => flow[e].uncounted = 0 BY <1>4 DEF CountInv
  <2>4. CASE waiting[e]
    <3>1. plainQueue'[e] = plainQueue[e] /\ handed'[e] = <<frame>> /\ ~waiting'[e]
      BY <1>7, <1>8, <2>4
    <3> QED BY <1>2, <1>4, <1>5, <1>6, <1>12, <2>1, <2>2, <2>4, <3>1, QueueHand
  <2>5. CASE ~waiting[e]
    <3>1. /\ plainQueue'[e] = Append(plainQueue[e], frame) /\ handed'[e] = handed[e]
          /\ waiting'[e] = waiting[e]
      BY <1>7, <1>8, <2>5
    <3> QED BY <1>2, <1>4, <1>5, <1>6, <1>12, <2>1, <2>2, <2>3, <2>5, <3>1, QueuePush
  <2> QED BY <2>4, <2>5
<1>19. CountInv(e)'
  <2>1. /\ flow'[e].counting <=> flow[e].counting
        /\ flow'[e].uncounted = flow[e].uncounted /\ flow'[e].owed = flow[e].owed
    BY <1>10, <1>11 DEF Same
  <2>2. seen[e].data \in Nat /\ sealed[e].credit \in Nat /\ flow[e].unacked \in Int
    BY <1>2, <1>8, StateFacts, Fields
  <2>3. /\ ~flow[e].counting => seen[e].data = 0 /\ seen[e].credit = 0 /\ flow[e].uncounted = 0
        /\ flow[e].unacked = seen[e].data - sealed[e].credit
    BY <1>4 DEF CountInv
  <2>4. f.unacked = frame.data - sealed[e].credit
    <3>1. CASE flow[e].counting
      <4>1. frame.data = seen[e].data + Cost(frame) BY <1>5, <1>6, <3>1
      <4>2. f.unacked = flow[e].unacked + Cost(frame) BY <1>10, <3>1
      <4> QED BY <1>9, <2>2, <2>3, <4>1, <4>2
    <3>2. CASE ~flow[e].counting
      <4>1. frame.data = seen[e].data BY <1>5, <1>6, <2>2, <3>2
      <4> QED BY <1>10, <2>3, <3>2, <4>1
    <3> QED BY <3>1, <3>2
  <2>5. ~flow'[e].counting =>
          seen'[e].data = 0 /\ seen'[e].credit = 0 /\ flow'[e].uncounted = 0
    BY <1>5, <1>6, <1>12, <2>1, <2>3
  <2> QED BY <1>4, <1>6, <1>11, <1>12, <2>1, <2>4, <2>5 DEF CountInv
<1> QED BY <1>15, <1>16, <1>17, <1>18, <1>19 DEF Good, p

\* The verdict on the first frame is neither an overrun nor a bad credit: all
\* that e has seen and not credited, this frame included, fits its peer's window.
LEMMA VerdictGood ==
  ASSUME ChannelInv, NEW e \in End, Open(e), net[e] # <<>>
  PROVE  Verdict(e, Head(net[e])) \notin {"overrun", "credit"}
<1> DEFINE p == Peer(e)
           frame == net[e][1]
<1>1. p \in End BY PeerFacts
<1>2. TypeOK /\ Good(e) /\ EndInv(p) BY <1>1 DEF ChannelInv, Good
<1>3. EndInv(e) /\ WireInv(e) /\ CountInv(e) BY <1>2 DEF Good
<1>4. /\ frame \in Frames /\ frame = Head(net[e])
      /\ frame.body.isCredit => frame.body.amount <= FLOW_WINDOW
      /\ ~frame.body.isCredit =>
           /\ frame.lim <=> flow[e].counting
           /\ frame.data = seen[e].data + IF frame.lim THEN Cost(frame) ELSE 0
      /\ frame.data <= sealed[p].data
      /\ frame.lim => flow[p].limited
  BY <1>2, <1>3, WireHead
<1> HIDE DEF p, frame
<1>5. frame.body.isCredit => CreditOk(frame.body) BY <1>4 DEF CreditOk
<1>6. ~frame.body.isCredit => WithinWindow(flow[e], Cost(frame))
  <2> SUFFICES ASSUME ~frame.body.isCredit, flow[e].counting
               PROVE  flow[e].unacked + Cost(frame) <= FLOW_WINDOW
    BY DEF WithinWindow
  <2>1. /\ Cost(frame) \in Nat /\ frame.data \in Nat /\ seen[e].data \in Nat
        /\ sealed[e].credit \in Nat
    BY <1>2, <1>4, FrameFields, StateFacts
  <2>2. frame.data = seen[e].data + Cost(frame) /\ flow[p].limited BY <1>4
  <2>3. frame.data - sealed[e].credit <= FLOW_WINDOW
    BY <1>2, <1>3, <1>4, <2>1, <2>2, WithinPeersWindow DEF p
  <2>4. flow[e].unacked = seen[e].data - sealed[e].credit BY <1>3 DEF CountInv
  <2> QED BY <2>1, <2>2, <2>3, <2>4, FlowAssumption
<1> QED BY <1>4, <1>5, <1>6 DEF Verdict

\* An end that ends for any other reason keeps what its peer relies on.
LEMMA FinishGood ==
  ASSUME ChannelInv, TypeOK', NEW e \in End, NEW why, why \notin {"open", "overrun", "credit"},
         Finish(e, why), UNCHANGED <<flow, handed, sealed, seen, taken>>
  PROVE  Good(e)' /\ Good(Peer(e))'
<1> DEFINE p == Peer(e)
<1>1. p \in End /\ Peer(p) = e /\ p # e BY PeerFacts
<1>2. TypeOK /\ Good(e) /\ EndInv(e) BY DEF ChannelInv, Good
<1>3. /\ ended'[e] = why /\ ended'[p] = ended[p] /\ net'[p] = net[p]
      /\ plainQueue'[p] = plainQueue[p] /\ waiting'[p] = waiting[p]
  BY <1>1, <1>2 DEF Finish, TypeOK
<1> HIDE DEF p
<1>4. PeerAlone(e) BY <1>3 DEF PeerAlone, p
<1>5. Good(p)' BY <1>3, <1>4, QuietToPeer DEF p
<1>6. sealed[p].data \in Nat /\ sealed[p].credit \in Nat BY <1>1, <1>2, StateFacts
<1>7. EndInv(e)' BY <1>2, <1>3, <1>6, EndSame DEF p
<1>8. Good(e)' BY <1>3, <1>7 DEF Good, Open
<1> QED BY <1>5, <1>8 DEF p

\* A read that e's reader makes, the queue apart: what is owed grows by what is
\* taken, and a credit repays all of it.
LEMMA ConsumeGood ==
  ASSUME ChannelInv, TypeOK', NEW e \in End, NEW frame \in Frames, Consume(e, frame),
         Open(e) => /\ frame.data = taken[e] + IF frame.lim THEN Cost(frame) ELSE 0
                    /\ frame.lim <=> Counted(flow[e])
                    /\ frame.data <= seen[e].data,
         UNCHANGED <<ended, seen>>,
         plainQueue'[Peer(e)] = plainQueue[Peer(e)], handed'[Peer(e)] = handed[Peer(e)],
         waiting'[Peer(e)] = waiting[Peer(e)]
  PROVE  /\ Good(Peer(e))' /\ EndInv(e)' /\ Takes(e) /\ taken'[e] = frame.data
         /\ Open(e) => WireInv(e)' /\ CountInv(e)'
<1> DEFINE p == Peer(e)
           cost == Cost(frame)
           due == CreditDue(flow[e], cost)
           f == consumed(flow[e], cost)
           total == [sealed[e] EXCEPT !.credit = @ + due]
<1>1. p \in End /\ Peer(p) = e /\ p # e BY PeerFacts
<1>2. TypeOK /\ Good(e) /\ EndInv(e) /\ EndInv(p) BY <1>1 DEF ChannelInv, Good
<1>3. /\ flow' = [flow EXCEPT ![e] = f] /\ taken' = [taken EXCEPT ![e] = frame.data]
      /\ SendCredit(e, due > 0 /\ Open(e), due, f, net)
  BY DEF Consume
<1>4. /\ flow \in [End -> FlowType] /\ net \in [End -> Seq(Frames)] /\ taken \in [End -> Nat]
      /\ sealed[e] \in Totals /\ flow[e] \in FlowType
  BY <1>2 DEF TypeOK
<1>5. cost \in Nat /\ frame.data \in Nat BY FrameFields
<1>6. /\ Same(flow[e], f, {"queued", "uncounted", "unacked", "owed"})
      /\ f.queued = flow[e].queued - 1
      /\ f.uncounted = IF flow[e].uncounted > 0 THEN flow[e].uncounted - 1
                       ELSE flow[e].uncounted
      /\ due \in Nat
      /\ ~Counted(flow[e]) => due = 0 /\ f.owed = flow[e].owed
      /\ Counted(flow[e]) => f.owed = flow[e].owed + cost - due
      /\ flow[e].owed >= 0 => f.owed >= 0 /\ due <= flow[e].owed + cost
      /\ f.unacked = flow[e].unacked - due
  BY <1>4, <1>5, ConsumedFacts
<1>7. due \in Nat BY <1>6
<1>8. /\ total \in Totals /\ total.data = sealed[e].data
      /\ total.credit = sealed[e].credit + due
  BY <1>4, <1>7, AddCredit
<1>9. (due > 0 /\ Open(e)) => Transmit(e, f, total, CreditBody(due), net)
  BY <1>3 DEF SendCredit
<1>10. ~(due > 0 /\ Open(e)) => sealed' = sealed /\ net' = net BY <1>3 DEF SendCredit
<1>11. flow'[e] = f /\ flow'[p] = flow[p] /\ taken'[e] = frame.data /\ taken'[p] = taken[p]
  BY <1>1, <1>3, <1>4
<1> HIDE DEF p, cost, due, f, total
<1>12. PeerAlone(e) BY <1>11 DEF PeerAlone, p
<1>13. Takes(e) BY <1>6, <1>11 DEF Takes, Same
<1>14. /\ sealed[e].data \in Nat /\ sealed[e].credit \in Nat /\ seen[e].data \in Nat
       /\ taken[e] \in Nat /\ sealed[p].data \in Nat /\ sealed[p].credit \in Nat
       /\ flow[e].owed \in Int /\ flow[e].unacked \in Int
  BY <1>1, <1>2, <1>4, StateFacts, Fields
<1>15. /\ flow'[e].limited = flow[e].limited /\ flow'[e].window = flow[e].window
       /\ flow'[e].counting = flow[e].counting
  BY <1>6, <1>11 DEF Same
<1>16. ended'[e] \notin {"overrun", "credit"} BY <1>2 DEF EndInv
<1>17. CASE ~Open(e)
  <2>1. sealed' = sealed /\ net' = net BY <1>10, <1>17
  <2>2. Good(p)' BY <1>12, <1>15, <2>1, QuietToPeer DEF p
  <2>3. EndInv(e)' BY <1>2, <1>11, <1>14, <1>15, <1>16, <2>1, EndSame DEF p
  <2> QED BY <1>11, <1>13, <1>17, <2>2, <2>3 DEF p
<1>18. CASE Open(e)
  <2>1. WireInv(e) /\ CountInv(e) BY <1>2, <1>18 DEF Good
  <2>2. /\ frame.data = taken[e] + IF frame.lim THEN cost ELSE 0
        /\ frame.lim <=> Counted(flow[e])
        /\ frame.data <= seen[e].data
    BY <1>18 DEF cost
  <2>3. /\ flow[e].owed = taken[e] - sealed[e].credit /\ flow[e].owed >= 0
        /\ flow[e].unacked = seen[e].data - sealed[e].credit
    BY <2>1 DEF CountInv
  <2>4. Counted(flow[e]) => /\ flow[e].limited /\ flow[p].limited
                            /\ due <= frame.data - sealed[e].credit
    <3> SUFFICES ASSUME Counted(flow[e])
                 PROVE  /\ flow[e].limited /\ flow[p].limited
                        /\ due <= frame.data - sealed[e].credit
      OBVIOUS
    <3>1. flow[e].limited /\ flow[p].limited BY <1>2 DEF Counted, EndInv, p
    <3>2. frame.data = taken[e] + cost BY <2>2
    <3>3. due <= flow[e].owed + cost BY <1>6, <2>3
    <3>4. due <= frame.data - sealed[e].credit BY <1>5, <1>7, <1>14, <2>3, <3>2, <3>3
    <3> QED BY <3>1, <3>4
  <2>5. Counted(flow[e]) => due <= FLOW_WINDOW
    <3> SUFFICES ASSUME Counted(flow[e]) PROVE due <= FLOW_WINDOW OBVIOUS
    <3>1. frame.data <= sealed[p].data
      <4>1. seen[e].data <= sealed[p].data BY <1>2 DEF EndInv, p
      <4> QED BY <1>5, <1>14, <2>2, <4>1
    <3>2. frame.data - sealed[e].credit <= FLOW_WINDOW
      BY <1>2, <1>5, <2>4, <3>1, WithinPeersWindow DEF p
    <3>3. due <= frame.data - sealed[e].credit BY <2>4
    <3> QED BY <1>5, <1>7, <1>14, <3>2, <3>3, FlowAssumption
  <2>6. /\ Good(p)' /\ sealed'[p] = sealed[p] /\ net'[e] = net[e]
        /\ sealed'[e].data = sealed[e].data /\ sealed'[e].credit = sealed[e].credit + due
    <3>1. CASE due > 0
      <4>1. Counted(flow[e]) BY <1>6, <3>1
      <4>2. f.limited /\ f \in FlowType BY <1>6, <2>4, <4>1 DEF Same
      <4>3. Transmit(e, f, total, CreditBody(due), net) BY <1>9, <1>18, <3>1
      <4> QED BY <1>4, <1>7, <1>8, <1>11, <1>12, <2>5, <4>1, <4>2, <4>3, CreditToPeer DEF p
    <3>2. CASE ~(due > 0)
      <4>1. sealed' = sealed /\ net' = net BY <1>10, <3>2
      <4>2. Good(p)' BY <1>12, <1>15, <4>1, QuietToPeer DEF p
      <4>3. due = 0 BY <1>7, <3>2
      <4>4. sealed[e].credit = sealed[e].credit + due BY <1>14, <4>3
      <4> QED BY <4>1, <4>2, <4>4
    <3> QED BY <3>1, <3>2
  <2>7. flow[e].limited \/ sealed'[e].credit = sealed[e].credit
    <3>1. CASE Counted(flow[e]) BY <2>4, <3>1
    <3>2. CASE ~Counted(flow[e])
      <4>1. due = 0 BY <1>6, <3>2
      <4> QED BY <1>14, <2>6, <4>1
    <3> QED BY <3>1, <3>2
  <2>8. EndInv(e)'
    BY <1>2, <1>11, <1>14, <1>15, <1>16, <2>6, <2>7, EndSame DEF p
  <2>9. WireInv(e)' BY <1>11, <1>15, <2>1, <2>6, WireSame DEF p
  <2>10. CountInv(e)'
    <3>1. flow'[e].unacked = seen'[e].data - sealed'[e].credit
      BY <1>6, <1>7, <1>11, <1>14, <2>3, <2>6
    <3>2. flow'[e].owed = taken'[e] - sealed'[e].credit
      <4>1. CASE Counted(flow[e])
        <5>1. frame.data = taken[e] + cost BY <2>2, <4>1
        <5>2. f.owed = flow[e].owed + cost - due BY <1>6, <4>1
        <5> QED BY <1>5, <1>7, <1>11, <1>14, <2>3, <2>6, <5>1, <5>2
      <4>2. CASE ~Counted(flow[e])
        <5>1. frame.data = taken[e] /\ due = 0 /\ f.owed = flow[e].owed
          BY <1>6, <1>14, <2>2, <4>2
        <5> QED BY <1>11, <1>14, <2>3, <2>6, <5>1
      <4> QED BY <4>1, <4>2
    <3>3. flow'[e].owed >= 0 BY <1>6, <1>11, <2>3
    <3>4. ~flow'[e].counting =>
            seen'[e].data = 0 /\ seen'[e].credit = 0 /\ flow'[e].uncounted = 0
      BY <1>6, <1>11, <1>15, <2>1 DEF CountInv
    <3> QED BY <3>1, <3>2, <3>3, <3>4 DEF CountInv
  <2> QED BY <1>11, <1>13, <2>6, <2>8, <2>9, <2>10 DEF p
<1> QED BY <1>17, <1>18

\* A read of a queued fragment preserves the invariant of both ends.
LEMMA ReadQueuedGood ==
  ASSUME ChannelInv, TypeOK', NEW e \in End, ReadQueued(e)
  PROVE  Good(e)' /\ Good(Peer(e))'
<1> DEFINE p == Peer(e)
           frame == plainQueue[e][1]
<1>1. p \in End /\ Peer(p) = e /\ p # e BY PeerFacts
<1>2. TypeOK /\ Good(e) BY DEF ChannelInv
<1>3. /\ plainQueue \in [End -> Seq(Frames)] /\ plainQueue[e] # <<>> /\ handed[e] = <<>>
      /\ ~waiting[e]
  BY <1>2 DEF ReadQueued, ReaderFree, TypeOK
<1>4. frame \in Frames /\ frame = Head(plainQueue[e]) BY <1>3, HeadFrame
<1>5. /\ Consume(e, frame) /\ plainQueue' = [plainQueue EXCEPT ![e] = Tail(@)]
      /\ UNCHANGED <<ended, waiting, handed, seen>>
  BY <1>4 DEF ReadQueued
<1>6. plainQueue'[e] = Tail(plainQueue[e]) /\ plainQueue'[p] = plainQueue[p]
  BY <1>1, <1>3, <1>5
<1>7. Open(e) => /\ frame.data = taken[e] + IF frame.lim THEN Cost(frame) ELSE 0
                 /\ frame.lim <=> Counted(flow[e])
                 /\ frame.data <= seen[e].data
  <2> SUFFICES ASSUME Open(e)
               PROVE  /\ frame.data = taken[e] + IF frame.lim THEN Cost(frame) ELSE 0
                      /\ frame.lim <=> Counted(flow[e])
                      /\ frame.data <= seen[e].data
    OBVIOUS
  <2>1. QueueInv(e) BY <1>2 DEF Good
  <2>2. PICK n \in Nat : n = Len(plainQueue[e]) /\ n >= 1 BY <1>3, HeadFrame
  <2>3. 1 \in 1..n BY <2>2
  <2>4. QueuedInv(e, 1) BY <2>1, <2>2, <2>3 DEF QueueInv
  <2>5. Ahead(e, 1) = taken[e] BY <1>3 DEF Ahead
  <2>6. flow[e].uncounted < 1 + 0 <=> flow[e].uncounted = 0
    <3>1. flow[e].queued \in Int BY <1>2, StateFacts, Fields
    <3>2. flow[e].uncounted \in 0..flow[e].queued BY <2>1 DEF QueueInv
    <3> QED BY <3>1, <3>2
  <2>7. Len(handed[e]) = 0 BY <1>3
  <2> QED BY <2>4, <2>5, <2>6, <2>7 DEF QueuedInv, Counted
<1> HIDE DEF p, frame
<1>8. /\ Good(p)' /\ EndInv(e)' /\ Takes(e) /\ taken'[e] = frame.data
      /\ Open(e) => WireInv(e)' /\ CountInv(e)'
  BY <1>4, <1>5, <1>6, <1>7, ConsumeGood DEF p
<1>9. Open(e) => QueueInv(e)'
  <2> SUFFICES ASSUME Open(e) PROVE QueueInv(e)' OBVIOUS
  <2>1. QueueInv(e) BY <1>2 DEF Good
  <2> QED BY <1>2, <1>3, <1>5, <1>6, <1>8, <2>1, QueueTakeQueued DEF frame
<1>10. Good(e)' BY <1>5, <1>8, <1>9 DEF Good, Open
<1> QED BY <1>8, <1>10 DEF p

\* A read of a handed over fragment preserves the invariant of both ends.
LEMMA ReadHandedGood ==
  ASSUME ChannelInv, TypeOK', NEW e \in End, ReadHanded(e)
  PROVE  Good(e)' /\ Good(Peer(e))'
<1> DEFINE p == Peer(e)
           frame == handed[e][1]
<1>1. p \in End /\ Peer(p) = e /\ p # e BY PeerFacts
<1>2. TypeOK /\ Good(e) BY DEF ChannelInv
<1>3. handed \in [End -> Seq(Frames)] /\ handed[e] # <<>>
  BY <1>2 DEF ReadHanded, TypeOK
<1>4. frame \in Frames /\ frame = Head(handed[e]) BY <1>3, HeadFrame
<1>5. /\ Consume(e, frame) /\ handed' = [handed EXCEPT ![e] = <<>>]
      /\ UNCHANGED <<ended, waiting, plainQueue, seen>>
  BY <1>4 DEF ReadHanded
<1>6. handed'[e] = <<>> /\ handed'[p] = handed[p]
  BY <1>1, <1>3, <1>5
<1>7. Open(e) => /\ frame.data = taken[e] + IF frame.lim THEN Cost(frame) ELSE 0
                 /\ frame.lim <=> Counted(flow[e])
                 /\ frame.data <= seen[e].data
  <2> SUFFICES ASSUME Open(e)
               PROVE  /\ frame.data = taken[e] + IF frame.lim THEN Cost(frame) ELSE 0
                      /\ frame.lim <=> Counted(flow[e])
                      /\ frame.data <= seen[e].data
    OBVIOUS
  <2>1. HandedInv(e) BY <1>2 DEF Good, QueueInv
  <2> QED BY <1>3, <2>1 DEF HandedInv, Counted
<1> HIDE DEF p, frame
<1>8. /\ Good(p)' /\ EndInv(e)' /\ Takes(e) /\ taken'[e] = frame.data
      /\ Open(e) => WireInv(e)' /\ CountInv(e)'
  BY <1>4, <1>5, <1>6, <1>7, ConsumeGood DEF p
<1>9. Open(e) => QueueInv(e)'
  <2> SUFFICES ASSUME Open(e) PROVE QueueInv(e)' OBVIOUS
  <2>1. QueueInv(e) BY <1>2 DEF Good
  <2> QED BY <1>2, <1>3, <1>5, <1>6, <1>8, <2>1, QueueTakeHanded DEF frame
<1>10. Good(e)' BY <1>5, <1>8, <1>9 DEF Good, Open
<1> QED BY <1>8, <1>10 DEF p

\* A step that touches only what the invariant does not mention, or starts a wait
\* on an empty queue.
LEMMA IdleGood ==
  ASSUME ChannelInv, TypeOK', NEW d \in End,
         UNCHANGED <<ended, flow, plainQueue, handed, net, sealed, seen, taken>>,
         waiting'[d] => waiting[d] \/ (plainQueue[d] = <<>> /\ handed[d] = <<>>)
  PROVE  Good(d)'
<1>1. TypeOK /\ Good(d) /\ EndInv(d) BY DEF ChannelInv, Good
<1>2. Peer(d) \in End BY PeerFacts
<1>3. sealed[Peer(d)].data \in Nat /\ sealed[Peer(d)].credit \in Nat BY <1>1, <1>2, StateFacts
<1>4. EndInv(d)'
  <2>1. ended'[d] \notin {"overrun", "credit"} BY <1>1 DEF EndInv
  <2> QED BY <1>1, <1>3, <2>1, EndSame
<1>5. Open(d) => WireInv(d)' /\ QueueInv(d)' /\ CountInv(d)'
  <2> SUFFICES ASSUME Open(d) PROVE WireInv(d)' /\ QueueInv(d)' /\ CountInv(d)' OBVIOUS
  <2>1. WireInv(d) /\ QueueInv(d) /\ CountInv(d) BY <1>1 DEF Good
  <2>2. WireInv(d)' BY <2>1, WireSame
  <2>3. waiting'[d] => plainQueue[d] = <<>> /\ handed[d] = <<>> BY <2>1 DEF QueueInv
  <2>4. QueueInv(d)' BY <1>1, <2>1, <2>3, QueueSame
  <2>5. CountInv(d)' BY <2>1 DEF CountInv
  <2> QED BY <2>2, <2>4, <2>5
<1> QED BY <1>4, <1>5 DEF Good, Open

-----------------------------------------------------------------------------
(* The invariant and what it implies. *)

\* Every variable starts with its type.
LEMMA TypeInit == Init => TypeOK
<1> SUFFICES ASSUME Init PROVE TypeOK OBVIOUS
<1>1. NewFlow \in FlowType BY DEF NewFlow, FlowType
<1>2. flow \in [End -> FlowType] BY <1>1 DEF Init
<1>3. sealed \in [End -> Totals] /\ seen \in [End -> Totals] BY DEF Init, Totals
<1>4. ended \in [End -> Reasons] BY DEF Init, Reasons
<1> QED BY <1>2, <1>3, <1>4 DEF Init, TypeOK

\* A fresh channel satisfies the inductive invariant.
LEMMA ChannelInit == Init => ChannelInv
<1> SUFFICES ASSUME Init PROVE ChannelInv OBVIOUS
<1>1. TypeOK BY TypeInit
<1>2. ASSUME NEW e \in End PROVE Good(e)
  <2>1. Peer(e) \in End BY PeerFacts
  <2>2. /\ flow[e] = NewFlow /\ flow[Peer(e)] = NewFlow /\ ended[e] = "open"
        /\ sealed[e] = [data |-> 0, credit |-> 0]
        /\ sealed[Peer(e)] = [data |-> 0, credit |-> 0]
        /\ seen[e] = [data |-> 0, credit |-> 0] /\ taken[e] = 0
        /\ net[e] = <<>> /\ plainQueue[e] = <<>> /\ handed[e] = <<>> /\ ~waiting[e]
    BY <2>1 DEF Init
  <2>3. EndInv(e) BY <2>2 DEF EndInv, NewFlow
  <2>4. CountInv(e) BY <2>2 DEF CountInv, NewFlow
  <2>5. Len(net[e]) = 0 /\ Len(plainQueue[e]) = 0 /\ Len(handed[e]) = 0 BY <2>2
  <2>6. Before(e, 0 + 1) = [lim |-> FALSE, data |-> 0, credit |-> 0]
    BY <2>2 DEF Before, NewFlow
  <2>7. WireInv(e) BY <2>2, <2>5, <2>6 DEF WireInv, NewFlow
  <2>8. Ahead(e, 0 + 1) = 0 BY <2>2 DEF Ahead
  <2>9. HandedInv(e) BY <2>2 DEF HandedInv
  <2>10. flow[e].queued = 0 /\ flow[e].uncounted = 0 BY <2>2 DEF NewFlow
  <2>11. QueueInv(e) BY <2>2, <2>5, <2>8, <2>9, <2>10 DEF QueueInv
  <2> QED BY <2>3, <2>4, <2>7, <2>11 DEF Good
<1> QED BY <1>1, <1>2 DEF ChannelInv

\* Every step of the channel preserves the inductive invariant.
LEMMA ChannelStep == ChannelInv /\ [Next]_vars => ChannelInv'
<1> SUFFICES ASSUME ChannelInv, [Next]_vars PROVE ChannelInv' OBVIOUS
<1>1. TypeOK' BY TypeStep DEF ChannelInv
<1> SUFFICES \A d \in End : Good(d)' BY <1>1 DEF ChannelInv
<1>2. \A e \in End : \A d \in End : d = e \/ d = Peer(e) BY DEF Peer, End
<1>3. CASE FlowControl
  <2>1. PICK e \in End : e = "host" BY DEF End
  <2> QED BY <1>1, <1>2, <1>3, <2>1, FlowControlGood
<1>4. ASSUME NEW e \in End, SendFragment(e) PROVE \A d \in End : Good(d)'
  BY <1>1, <1>2, <1>4, SendFragmentGood
<1>5. ASSUME NEW e \in End, PumpCredit(e) PROVE \A d \in End : Good(d)'
  BY <1>1, <1>2, <1>5, PumpCreditGood
<1>6. ASSUME NEW e \in End, PumpData(e) PROVE \A d \in End : Good(d)'
  BY <1>1, <1>2, <1>6, PumpDataGood
<1>7. ASSUME NEW e \in End, PumpFails(e) PROVE \A d \in End : Good(d)'
  <2>1. Open(e) /\ net[e] # <<>> /\ Verdict(e, Head(net[e])) # "open"
    BY <1>7 DEF PumpFails, Pumping
  <2>2. Verdict(e, Head(net[e])) \notin {"open", "overrun", "credit"}
    BY <2>1, VerdictGood
  <2>3. /\ Finish(e, Verdict(e, Head(net[e])))
        /\ UNCHANGED <<flow, handed, sealed, seen, taken>>
    BY <1>7 DEF PumpFails
  <2> QED BY <1>1, <1>2, <2>2, <2>3, FinishGood
<1>8. ASSUME NEW e \in End, Close(e) PROVE \A d \in End : Good(d)'
  <2>1. Finish(e, "closed") /\ UNCHANGED <<flow, handed, sealed, seen, taken>>
    BY <1>8 DEF Close
  <2> QED BY <1>1, <1>2, <2>1, FinishGood
<1>9. ASSUME NEW e \in End, ReadQueued(e) PROVE \A d \in End : Good(d)'
  BY <1>1, <1>2, <1>9, ReadQueuedGood
<1>10. ASSUME NEW e \in End, ReadHanded(e) PROVE \A d \in End : Good(d)'
  BY <1>1, <1>2, <1>10, ReadHandedGood
<1>11. ASSUME NEW e \in End, ReadWaits(e) PROVE \A d \in End : Good(d)'
  <2>1. /\ UNCHANGED <<ended, flow, plainQueue, handed, net, sealed, seen, taken>>
        /\ waiting' = [waiting EXCEPT ![e] = TRUE]
        /\ plainQueue[e] = <<>> /\ handed[e] = <<>>
    BY <1>11 DEF ReadWaits, ReaderFree, wireVars
  <2>2. waiting \in [End -> BOOLEAN] BY DEF ChannelInv, TypeOK
  <2>3. \A d \in End : waiting'[d] => waiting[d] \/ (plainQueue[d] = <<>> /\ handed[d] = <<>>)
    BY <2>1, <2>2
  <2> QED BY <1>1, <2>1, <2>3, IdleGood
<1>12. ASSUME NEW e \in End, Admit(e) \/ Wait(e) PROVE \A d \in End : Good(d)'
  <2>1. UNCHANGED <<ended, flow, plainQueue, handed, waiting, net, sealed, seen, taken>>
    BY <1>12 DEF Admit, Wait, readVars, wireVars
  <2> QED BY <1>1, <2>1, IdleGood
<1>13. CASE UNCHANGED vars
  <2>1. UNCHANGED <<ended, flow, plainQueue, handed, waiting, net, sealed, seen, taken>>
    BY <1>13 DEF vars, readVars, wireVars
  <2> QED BY <1>1, <2>1, IdleGood
<1> QED BY <1>3, <1>4, <1>5, <1>6, <1>7, <1>8, <1>9, <1>10, <1>11, <1>12, <1>13 DEF Next

\* Every variable of the channel keeps its type, for all windows, queues, message
\* shapes and rekey intervals.
THEOREM ChannelTypes == Spec => []TypeOK
<1>1. Init => TypeOK BY TypeInit
<1>2. TypeOK /\ [Next]_vars => TypeOK' BY TypeStep
<1> QED BY <1>1, <1>2, PTL DEF Spec

\* The accounting invariant holds of every reachable state.
LEMMA ChannelSafe == Spec => []ChannelInv
<1>1. Init => ChannelInv BY ChannelInit
<1>2. ChannelInv /\ [Next]_vars => ChannelInv' BY ChannelStep
<1> QED BY <1>1, <1>2, PTL DEF Spec

\* Neither end is ever refused by the other's accounting, for any window and cost.
THEOREM WindowIsHonoured == Spec => []WindowHonoured
<1>1. ChannelInv => WindowHonoured BY DEF ChannelInv, Good, EndInv, WindowHonoured
<1> QED BY <1>1, ChannelSafe, PTL

\* What an end has sent and its open peer has not consumed is at most a window.
THEOREM InFlightIsBounded == Spec => []InFlightBounded
<1>1. ChannelInv => InFlightBounded
  <2> SUFFICES ASSUME ChannelInv, NEW e \in End, Open(e)
               PROVE  sealed[Peer(e)].data - taken[e] <= FLOW_WINDOW
    BY DEF InFlightBounded
  <2> DEFINE p == Peer(e)
  <2>1. p \in End BY PeerFacts
  <2>2. TypeOK /\ EndInv(e) /\ EndInv(p) /\ CountInv(e) BY <2>1 DEF ChannelInv, Good
  <2>3. sealed[p].data \in Nat /\ sealed[e].credit \in Nat /\ taken[e] \in Nat
    BY <2>1, <2>2, StateFacts
  <2>4. taken[e] >= sealed[e].credit BY <2>2, <2>3 DEF CountInv
  <2> HIDE DEF p
  <2>5. CASE flow[p].limited
    <3>1. sealed[p].data <= sealed[Peer(e)].data BY <2>3 DEF p
    <3>2. sealed[p].data - sealed[e].credit <= FLOW_WINDOW
      BY <2>2, <2>3, <2>5, <3>1, WithinPeersWindow DEF p
    <3>3. sealed[p].data - taken[e] <= FLOW_WINDOW BY <2>3, <2>4, <3>2, FlowAssumption
    <3> QED BY <3>3 DEF p
  <2>6. CASE ~flow[p].limited
    <3>1. sealed[p].data = 0 BY <2>2, <2>6 DEF EndInv
    <3>2. sealed[p].data - taken[e] <= FLOW_WINDOW BY <2>3, <3>1, FlowAssumption
    <3> QED BY <3>2 DEF p
  <2> QED BY <2>5, <2>6
<1> QED BY <1>1, ChannelSafe, PTL
=============================================================================
