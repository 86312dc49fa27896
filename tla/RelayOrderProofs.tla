-------------------------- MODULE RelayOrderProofs --------------------------
(***************************************************************************)
(* For every window, queue size, rekey interval and set of messages: what  *)
(* the readers of a relay channel get is what MessageChannel promises,     *)
(* messages whole, once and in the order they were sent.                   *)
(***************************************************************************)
EXTENDS RelayChannelProofs, SequenceTheorems

-----------------------------------------------------------------------------
(* Positions in what an end p sent: a message and a fragment of it.          *)

Pos == [msg: Nat, frag: Nat]

\* The frame is the fragment at position a of the messages s.
Carries(s, p, frame, a) ==
  /\ a.msg \in 1..Len(s) /\ a.frag \in 1..Len(s[a.msg])
  /\ frame.body.chunk = Chunk(p, a.msg, a.frag)
  /\ frame.body.last <=> a.frag = Len(s[a.msg])

After(s, a) ==
  IF a.frag = Len(s[a.msg]) THEN [msg |-> a.msg + 1, frag |-> 1]
  ELSE [msg |-> a.msg, frag |-> a.frag + 1]

\* A frame at position a leaves the stream at b; a credit leaves it where it was.
Moves(s, p, frame, a, b) ==
  IF frame.body.isCredit THEN b = a ELSE Carries(s, p, frame, a) /\ b = After(s, a)

\* The data frames of q are the fragments from a up to b, none missing or twice.
Stream(s, p, q, a, b) ==
  \E at \in [1..(Len(q) + 1) -> Pos] :
    /\ at[1] = a /\ at[Len(q) + 1] = b
    /\ \A i \in 1..Len(q) : Moves(s, p, q[i], at[i], at[i+1])

\* No frame, no progress.
LEMMA StreamEmpty ==
  ASSUME NEW s, NEW p, NEW a \in Pos
  PROVE  Stream(s, p, <<>>, a, a)
<1> DEFINE at == [i \in 1..1 |-> a]
<1>1. Len(<<>>) + 1 = 1 /\ 1..Len(<<>>) = {} OBVIOUS
<1>2. at \in [1..1 -> Pos] /\ at[1] = a OBVIOUS
<1> HIDE DEF at
<1>3. \E f \in [1..(Len(<<>>) + 1) -> Pos] : f[1] = a /\ f[Len(<<>>) + 1] = a
  BY <1>1, <1>2
<1> QED BY <1>1, <1>3 DEF Stream

\* A stream without frames stands still.
LEMMA StreamStill ==
  ASSUME NEW s, NEW p, NEW a, NEW b, Stream(s, p, <<>>, a, b)
  PROVE  b = a
<1>1. Len(<<>>) + 1 = 1 OBVIOUS
<1>2. PICK at : at[1] = a /\ at[Len(<<>>) + 1] = b BY DEF Stream
<1> QED BY <1>1, <1>2

\* A frame that carries the next fragment, written last, lengthens the stream.
LEMMA StreamAppend ==
  ASSUME NEW s, NEW p, NEW q \in Seq(Frames), NEW a, NEW b, NEW c \in Pos,
         NEW frame \in Frames, Stream(s, p, q, a, b), Moves(s, p, frame, b, c)
  PROVE  Stream(s, p, Append(q, frame), a, c)
<1>1. PICK n \in Nat : n = Len(q) OBVIOUS
<1>2. PICK at \in [1..(n + 1) -> Pos] :
        /\ at[1] = a /\ at[n + 1] = b
        /\ \A i \in 1..n : Moves(s, p, q[i], at[i], at[i+1])
  BY <1>1 DEF Stream
<1> DEFINE on == [i \in 1..(n + 2) |-> IF i = n + 2 THEN c ELSE at[i]]
           r == Append(q, frame)
<1>3. Len(r) = n + 1 /\ r[n + 1] = frame /\ \A i \in 1..n : r[i] = q[i] BY <1>1
<1>4. on \in [1..((n + 1) + 1) -> Pos] BY <1>2
<1>5. on[1] = a /\ on[(n + 1) + 1] = c /\ on[n + 1] = b BY <1>2
<1>6. \A i \in 1..(n + 1) : on[i] = at[i] OBVIOUS
<1> HIDE DEF on, r
<1>7. ASSUME NEW i \in 1..(n + 1) PROVE Moves(s, p, r[i], on[i], on[i+1])
  <2>1. CASE i = n + 1 BY <1>3, <1>5, <2>1
  <2>2. CASE i \in 1..n
    <3>1. i + 1 \in 1..(n + 1) BY <2>2
    <3>2. on[i] = at[i] /\ on[i+1] = at[i+1] BY <1>6, <3>1
    <3>3. r[i] = q[i] /\ Moves(s, p, q[i], at[i], at[i+1]) BY <1>2, <1>3, <2>2
    <3> QED BY <3>2, <3>3
  <2> QED BY <2>1, <2>2
<1>8. Stream(s, p, r, a, c) BY <1>3, <1>4, <1>5, <1>7 DEF Stream
<1> QED BY <1>8 DEF r

\* The frame ahead carries the first fragment, and the others go on from there.
LEMMA StreamTail ==
  ASSUME NEW s, NEW p, NEW q \in Seq(Frames), NEW a, NEW b, q # <<>>,
         Stream(s, p, q, a, b)
  PROVE  \E c \in Pos : Moves(s, p, Head(q), a, c) /\ Stream(s, p, Tail(q), c, b)
<1>1. PICK n \in Nat : n = Len(q) /\ n >= 1 BY HeadFrame
<1>2. PICK at \in [1..(n + 1) -> Pos] :
        /\ at[1] = a /\ at[n + 1] = b
        /\ \A i \in 1..n : Moves(s, p, q[i], at[i], at[i+1])
  BY <1>1 DEF Stream
<1> DEFINE on == [i \in 1..n |-> at[i+1]]
           r == Tail(q)
<1>3. Len(r) = n - 1 /\ Head(q) = q[1] /\ \A i \in 1..(n - 1) : r[i] = q[i+1]
  BY <1>1, HeadFrame
<1>4. on \in [1..((n - 1) + 1) -> Pos] BY <1>1, <1>2
<1>5. on[1] = at[2] /\ on[(n - 1) + 1] = b BY <1>1, <1>2
<1>6. Moves(s, p, Head(q), a, at[2])
  <2>1. 1 \in 1..n BY <1>1
  <2> QED BY <1>2, <1>3, <2>1
<1>7. at[2] \in Pos BY <1>1, <1>2
<1>8. ASSUME NEW i \in 1..(n - 1) PROVE Moves(s, p, r[i], on[i], on[i+1])
  <2>1. i \in 1..n /\ i + 1 \in 1..n BY <1>1
  <2>2. on[i] = at[i+1] /\ on[i+1] = at[(i+1)+1] BY <2>1
  <2>3. Moves(s, p, q[i+1], at[i+1], at[(i+1)+1]) BY <1>2, <2>1
  <2> QED BY <1>3, <2>2, <2>3
<1> HIDE DEF on, r
<1>9. Stream(s, p, r, at[2], b) BY <1>3, <1>4, <1>5, <1>8 DEF Stream
<1> QED BY <1>6, <1>7, <1>9 DEF r

\* One more message sent leaves the stream where it is.
LEMMA StreamGrow ==
  ASSUME NEW S, NEW s \in Seq(S), NEW m \in S, NEW p, NEW q \in Seq(Frames), NEW a, NEW b,
         Stream(s, p, q, a, b)
  PROVE  Stream(Append(s, m), p, q, a, b)
<1> DEFINE r == Append(s, m)
<1>1. PICK at \in [1..(Len(q) + 1) -> Pos] :
        /\ at[1] = a /\ at[Len(q) + 1] = b
        /\ \A i \in 1..Len(q) : Moves(s, p, q[i], at[i], at[i+1])
  BY DEF Stream
<1>2. Len(r) = Len(s) + 1 /\ \A i \in 1..Len(s) : r[i] = s[i] OBVIOUS
<1>3. Len(s) \in Nat OBVIOUS
<1> HIDE DEF r
<1>4. ASSUME NEW frame, NEW x, NEW y, Moves(s, p, frame, x, y) PROVE Moves(r, p, frame, x, y)
  <2>1. CASE frame.body.isCredit BY <1>4, <2>1 DEF Moves
  <2>2. CASE ~frame.body.isCredit
    <3>1. Carries(s, p, frame, x) /\ y = After(s, x) BY <1>4, <2>2 DEF Moves
    <3>2. x.msg \in 1..Len(s) BY <3>1 DEF Carries
    <3>3. x.msg \in 1..Len(r) /\ r[x.msg] = s[x.msg] BY <1>2, <1>3, <3>2
    <3>4. Carries(r, p, frame, x) BY <3>1, <3>3 DEF Carries
    <3>5. After(r, x) = After(s, x) BY <3>3 DEF After
    <3> QED BY <2>2, <3>1, <3>4, <3>5 DEF Moves
  <2> QED BY <2>1, <2>2
<1>5. \A i \in 1..Len(q) : Moves(r, p, q[i], at[i], at[i+1]) BY <1>1, <1>4
<1>6. Stream(r, p, q, a, b) BY <1>1, <1>5 DEF Stream
<1> QED BY <1>6 DEF r

-----------------------------------------------------------------------------
(* The inductive invariant.                                                  *)

\* What e's reader is to get next, and what e is to write next.
ReadPos(e) == [msg |-> Len(inbox[e]) + 1, frag |-> Len(partial[e]) + 1]
SendPos(e) == [msg |-> Len(sent[e]) - Len(outbox[e]) + 1, frag |-> offset[e] + 1]

\* The outbox of e holds the last messages it admitted, the head partly written.
OutInv(e) ==
  /\ \A k \in 1..Len(sent[e]) : \A i \in 1..Len(sent[e][k]) : sent[e][k][i] = Chunk(e, k, i)
  /\ Len(outbox[e]) <= Len(sent[e])
  /\ \A k \in 1..Len(outbox[e]) :
       /\ outbox[e][k].n = Len(sent[e]) - Len(outbox[e]) + k
       /\ sent[e][outbox[e][k].n] = Chunks(e, outbox[e][k])
  /\ IF outbox[e] = <<>> THEN offset[e] = 0 ELSE offset[e] <= outbox[e][1].full

\* What e's reader has joined is the beginning of the message it expects.
ReadInv(e) ==
  \A i \in 1..Len(partial[e]) : partial[e][i] = Chunk(Peer(e), Len(inbox[e]) + 1, i)

\* The frames for the reader of an open end, from b on, up to what its peer writes next.
Rest(e, b) ==
  \E c, d \in Pos :
    /\ Stream(sent[Peer(e)], Peer(e), plainQueue[e], b, c)
    /\ Stream(sent[Peer(e)], Peer(e), net[e], c, d)
    /\ Open(Peer(e)) => d = SendPos(Peer(e))

\* The frames under way to e continue what its reader has read.
FlowInv(e) ==
  /\ Len(handed[e]) <= 1
  /\ \A i \in 1..Len(handed[e]) : ~handed[e][i].body.isCredit
  /\ \A i \in 1..Len(plainQueue[e]) : ~plainQueue[e][i].body.isCredit
  /\ ~Open(e) => plainQueue[e] = <<>>
  /\ \E b \in Pos : /\ Stream(sent[Peer(e)], Peer(e), handed[e], ReadPos(e), b)
                    /\ Open(e) => Rest(e, b)

OrderInv == \A e \in End : OutInv(e) /\ ReadInv(e) /\ FlowInv(e)

\* The typed parts of the state that OrderInv is about.
LEMMA OrderFacts ==
  ASSUME TypeOK, NEW e \in End
  PROVE  /\ inbox[e] \in Seq(Seq(ChunkIds)) /\ sent[e] \in Seq(Seq(ChunkIds))
         /\ partial[e] \in Seq(ChunkIds) /\ outbox[e] \in Seq(Messages) /\ offset[e] \in Nat
         /\ net[e] \in Seq(Frames) /\ handed[e] \in Seq(Frames) /\ plainQueue[e] \in Seq(Frames)
BY DEF TypeOK

\* A reader that joins the fragment it expects: the message it completes, if it does,
\* is the one its peer sent.
LEMMA ReadOne ==
  ASSUME TypeOK, NEW e \in End, OutInv(Peer(e)), ReadInv(e), NEW frame \in Frames, NEW c,
         ~frame.body.isCredit, Moves(sent[Peer(e)], Peer(e), frame, ReadPos(e), c),
         Reassemble(e, frame), sent' = sent
  PROVE  /\ ReadInv(e)' /\ ReadPos(e)' = c
         /\ inbox' = inbox \/ Abstract!Deliver(e)
<1> DEFINE p == Peer(e)
           s == sent[p]
           a == ReadPos(e)
           joined == Append(partial[e], frame.body.chunk)
<1>1. p \in End BY PeerFacts
<1>2. /\ inbox[e] \in Seq(Seq(ChunkIds)) /\ partial[e] \in Seq(ChunkIds)
      /\ s \in Seq(Seq(ChunkIds))
  BY <1>1, OrderFacts
<1>3. inbox \in [End -> Seq(Seq(ChunkIds))] /\ partial \in [End -> Seq(ChunkIds)] BY DEF TypeOK
<1>4. PICK n \in Nat : n = Len(inbox[e]) BY <1>2, SMTT(30)
<1>5. PICK k \in Nat : k = Len(partial[e]) BY <1>2
<1>6. a.msg = n + 1 /\ a.frag = k + 1 BY <1>4, <1>5 DEF ReadPos
<1>7. Carries(s, p, frame, a) /\ c = After(s, a) BY DEF Moves
<1>8. /\ n + 1 \in 1..Len(s) /\ k + 1 \in 1..Len(s[n + 1])
      /\ frame.body.chunk = Chunk(p, n + 1, k + 1)
      /\ frame.body.last <=> k + 1 = Len(s[n + 1])
  BY <1>6, <1>7 DEF Carries
<1>9. frame.body.chunk \in ChunkIds BY FrameFields
<1>10. /\ joined \in Seq(ChunkIds) /\ Len(joined) = k + 1 /\ joined[k + 1] = frame.body.chunk
       /\ \A i \in 1..k : joined[i] = partial[e][i]
  BY <1>2, <1>5, <1>9
<1>11. \A i \in 1..k : partial[e][i] = Chunk(p, n + 1, i) BY <1>4, <1>5 DEF ReadInv
<1>12. \A i \in 1..(k + 1) : joined[i] = Chunk(p, n + 1, i)
  <2> SUFFICES ASSUME NEW i \in 1..(k + 1) PROVE joined[i] = Chunk(p, n + 1, i) OBVIOUS
  <2>1. CASE i = k + 1 BY <1>8, <1>10, <2>1
  <2>2. CASE i \in 1..k BY <1>10, <1>11, <2>2
  <2>3. i = k + 1 \/ i \in 1..k
    <3> HIDE DEF joined
    <3> QED OBVIOUS
  <2> QED BY <2>1, <2>2, <2>3
<1>13. Reassemble(e, frame) /\ sent' = sent OBVIOUS
<1>14. IF frame.body.last
       THEN /\ inbox' = [inbox EXCEPT ![e] = Append(@, joined)]
            /\ partial' = [partial EXCEPT ![e] = <<>>]
       ELSE partial' = [partial EXCEPT ![e] = joined] /\ inbox' = inbox
  BY <1>13 DEF Reassemble
<1>15. After(s, a) = IF k + 1 = Len(s[n + 1]) THEN [msg |-> n + 2, frag |-> 1]
                     ELSE [msg |-> n + 1, frag |-> k + 2]
  BY <1>6 DEF After
<1>16. \A i \in 1..Len(s[n + 1]) : s[n + 1][i] = Chunk(p, n + 1, i) BY <1>8 DEF OutInv
<1> HIDE DEF joined, s, a
<1>17. CASE frame.body.last
  <2>1. inbox'[e] = Append(inbox[e], joined) /\ partial'[e] = <<>> BY <1>3, <1>14, <1>17
  <2>2. Len(inbox'[e]) = n + 1 /\ Len(partial'[e]) = 0 BY <1>2, <1>4, <1>10, <2>1
  <2>3. ReadPos(e)' = [msg |-> (n + 1) + 1, frag |-> 0 + 1] BY <2>2 DEF ReadPos
  <2>4. ReadPos(e)' = c BY <1>7, <1>8, <1>15, <1>17, <2>3
  <2>5. ReadInv(e)' BY <2>2 DEF ReadInv
  <2>6. s[n + 1] \in Seq(ChunkIds) BY <1>2, <1>8
  <2>7. joined = s[n + 1]
    <3>1. Len(joined) = Len(s[n + 1]) BY <1>8, <1>10, <1>17
    <3>2. \A i \in 1..Len(joined) : joined[i] = s[n + 1][i] BY <1>10, <1>12, <1>16, <3>1
    <3> QED BY <1>10, <2>6, <3>1, <3>2, SeqEqual
  <2>8. Len(inbox[e]) < Len(sent[Peer(e)])
    <3>1. Len(s) \in Nat BY <1>2
    <3>2. n < Len(s) BY <1>8, <3>1
    <3> QED BY <1>4, <3>2 DEF s, p
  <2>9. inbox' = [inbox EXCEPT ![e] = Append(@, sent[Peer(e)][Len(@) + 1])]
    BY <1>4, <1>14, <1>17, <2>7 DEF s, p
  <2>10. Abstract!Deliver(e) BY <1>13, <2>8, <2>9 DEF Abstract!Deliver
  <2> QED BY <2>4, <2>5, <2>10
<1>18. CASE ~frame.body.last
  <2>1. inbox' = inbox /\ partial'[e] = joined BY <1>3, <1>14, <1>18
  <2>2. ReadPos(e)' = [msg |-> n + 1, frag |-> (k + 1) + 1] BY <1>4, <1>10, <2>1 DEF ReadPos
  <2>3. ReadPos(e)' = c BY <1>7, <1>8, <1>15, <1>18, <2>2
  <2>4. ReadInv(e)' BY <1>4, <1>10, <1>12, <2>1 DEF ReadInv, p
  <2> QED BY <2>1, <2>3, <2>4
<1> QED BY <1>17, <1>18

\* A direction nothing happens to but that a credit may be written, or its sender ends.
LEMMA FlowKeep ==
  ASSUME TypeOK, NEW e \in End, FlowInv(e),
         inbox'[e] = inbox[e], partial'[e] = partial[e], handed'[e] = handed[e],
         plainQueue'[e] = plainQueue[e], ended'[e] = ended[e],
         sent'[Peer(e)] = sent[Peer(e)],
         Open(Peer(e))' => /\ Open(Peer(e)) /\ outbox'[Peer(e)] = outbox[Peer(e)]
                           /\ offset'[Peer(e)] = offset[Peer(e)],
         Open(e) => \/ net'[e] = net[e]
                    \/ \E frame \in Frames : /\ frame.body.isCredit
                                             /\ net'[e] = Append(net[e], frame)
  PROVE  FlowInv(e)'
<1> DEFINE p == Peer(e)
<1>1. PICK b \in Pos : /\ Stream(sent[p], p, handed[e], ReadPos(e), b)
                       /\ Open(e) => Rest(e, b)
  BY DEF FlowInv
<1>2. Stream(sent'[p], p, handed'[e], ReadPos(e)', b) BY <1>1 DEF ReadPos
<1>3. ASSUME Open(e)' PROVE Rest(e, b)'
  <2>1. Open(e) BY <1>3 DEF Open
  <2>2. PICK c \in Pos, d \in Pos :
          /\ Stream(sent[p], p, plainQueue[e], b, c)
          /\ Stream(sent[p], p, net[e], c, d)
          /\ Open(p) => d = SendPos(p)
    BY <1>1, <2>1 DEF Rest
  <2>3. Stream(sent'[p], p, plainQueue'[e], b, c) BY <2>2
  <2>4. Stream(sent'[p], p, net'[e], c, d)
    <3>1. CASE net'[e] = net[e] BY <2>2, <3>1
    <3>2. CASE \E frame \in Frames : frame.body.isCredit /\ net'[e] = Append(net[e], frame)
      <4>1. PICK frame \in Frames : frame.body.isCredit /\ net'[e] = Append(net[e], frame)
        BY <3>2
      <4>2. Moves(sent[p], p, frame, d, d) BY <4>1 DEF Moves
      <4>3. net[e] \in Seq(Frames) BY OrderFacts
      <4>4. Stream(sent[p], p, Append(net[e], frame), c, d) BY <2>2, <4>2, <4>3, StreamAppend
      <4> QED BY <4>1, <4>4
    <3> QED BY <2>1, <3>1, <3>2
  <2>5. Open(p)' => d = SendPos(p)' BY <2>2 DEF SendPos
  <2> QED BY <2>3, <2>4, <2>5 DEF Rest
<1>4. /\ Len(handed'[e]) <= 1
      /\ \A i \in 1..Len(handed'[e]) : ~handed'[e][i].body.isCredit
      /\ \A i \in 1..Len(plainQueue'[e]) : ~plainQueue'[e][i].body.isCredit
      /\ ~Open(e)' => plainQueue'[e] = <<>>
  BY DEF FlowInv, Open
<1> QED BY <1>2, <1>3, <1>4 DEF FlowInv

\* An end that ends loses what was queued, not what its reader was handed.
LEMMA FlowFinish ==
  ASSUME TypeOK, NEW e \in End, FlowInv(e), ended'[e] # "open", plainQueue'[e] = <<>>,
         inbox' = inbox, partial' = partial, handed' = handed, sent' = sent
  PROVE  FlowInv(e)'
<1>1. PICK b \in Pos : Stream(sent[Peer(e)], Peer(e), handed[e], ReadPos(e), b) BY DEF FlowInv
<1>2. Stream(sent'[Peer(e)], Peer(e), handed'[e], ReadPos(e)', b) BY <1>1 DEF ReadPos
<1>3. ~Open(e)' BY DEF Open
<1>4. /\ Len(handed'[e]) <= 1
      /\ \A i \in 1..Len(handed'[e]) : ~handed'[e][i].body.isCredit
  BY DEF FlowInv
<1>5. Len(<<>>) = 0 OBVIOUS
<1>6. \A i \in 1..Len(plainQueue'[e]) : ~plainQueue'[e][i].body.isCredit BY <1>5
<1> QED BY <1>2, <1>3, <1>4, <1>6 DEF FlowInv

\* The frame ahead leaves the wire: a credit is applied, or a fragment queued or handed over.
LEMMA FlowPump ==
  ASSUME TypeOK, NEW e \in End, FlowInv(e), QueueInv(e), Open(e), net[e] # <<>>,
         net'[e] = Tail(net[e]), ended' = ended,
         inbox' = inbox, partial' = partial, sent' = sent, outbox' = outbox, offset' = offset,
         IF Head(net[e]).body.isCredit
         THEN handed'[e] = handed[e] /\ plainQueue'[e] = plainQueue[e]
         ELSE IF waiting[e]
         THEN handed'[e] = <<Head(net[e])>> /\ plainQueue'[e] = plainQueue[e]
         ELSE handed'[e] = handed[e] /\ plainQueue'[e] = Append(plainQueue[e], Head(net[e]))
  PROVE  FlowInv(e)'
<1> DEFINE p == Peer(e)
           s == sent[p]
           frame == Head(net[e])
<1>1. net[e] \in Seq(Frames) /\ plainQueue[e] \in Seq(Frames) /\ handed[e] \in Seq(Frames)
  BY OrderFacts
<1>2. frame \in Frames BY <1>1, HeadFrame
<1>3. PICK b \in Pos : Stream(s, p, handed[e], ReadPos(e), b) /\ Rest(e, b) BY DEF FlowInv
<1>4. PICK c \in Pos, d \in Pos :
        /\ Stream(s, p, plainQueue[e], b, c) /\ Stream(s, p, net[e], c, d)
        /\ Open(p) => d = SendPos(p)
  BY <1>3 DEF Rest
<1>5. PICK x \in Pos : Moves(s, p, frame, c, x) /\ Stream(s, p, Tail(net[e]), x, d)
  BY <1>1, <1>4, StreamTail
<1>6. /\ Len(handed[e]) <= 1 /\ \A i \in 1..Len(handed[e]) : ~handed[e][i].body.isCredit
      /\ \A i \in 1..Len(plainQueue[e]) : ~plainQueue[e][i].body.isCredit
  BY DEF FlowInv
<1>7. ReadPos(e)' = ReadPos(e) /\ sent'[p] = s /\ Open(e)' /\ (Open(p)' => d = SendPos(p)')
  BY <1>4 DEF ReadPos, SendPos, Open
<1>8. Stream(sent'[p], p, net'[e], x, d) BY <1>5
<1>9. CASE frame.body.isCredit
  <2>1. x = c BY <1>5, <1>9 DEF Moves
  <2>2. handed'[e] = handed[e] /\ plainQueue'[e] = plainQueue[e] BY <1>9
  <2>3. Rest(e, b)' BY <1>4, <1>7, <1>8, <2>1, <2>2 DEF Rest
  <2> QED BY <1>3, <1>6, <1>7, <2>2, <2>3 DEF FlowInv
<1>10. CASE ~frame.body.isCredit /\ waiting[e]
  <2>1. handed'[e] = <<frame>> /\ plainQueue'[e] = plainQueue[e] BY <1>10
  <2>2. plainQueue[e] = <<>> /\ handed[e] = <<>> BY <1>10 DEF QueueInv
  <2>3. b = ReadPos(e) /\ c = b
    <3>1. Stream(s, p, <<>>, ReadPos(e), b) /\ Stream(s, p, <<>>, b, c) BY <1>3, <1>4, <2>2
    <3> QED BY <3>1, StreamStill
  <2>4. Append(handed[e], frame) = <<frame>> BY <2>2
  <2>5. Stream(s, p, Append(handed[e], frame), ReadPos(e), x)
    BY <1>1, <1>2, <1>3, <1>5, <2>3, StreamAppend
  <2>6. Stream(s, p, handed'[e], ReadPos(e), x) BY <2>1, <2>4, <2>5
  <2>7. Stream(s, p, plainQueue'[e], x, x) BY <2>1, <2>2, StreamEmpty
  <2>8. Rest(e, x)' BY <1>7, <1>8, <2>7 DEF Rest
  <2>9. Len(handed'[e]) = 1 /\ handed'[e][1] = frame BY <2>1
  <2>10. \A i \in 1..Len(handed'[e]) : ~handed'[e][i].body.isCredit
    <3>1. ASSUME NEW i \in 1..1 PROVE i = 1 OBVIOUS
    <3> QED BY <1>10, <2>9, <3>1
  <2>11. /\ Len(handed'[e]) <= 1
         /\ \A i \in 1..Len(plainQueue'[e]) : ~plainQueue'[e][i].body.isCredit
    BY <1>6, <2>1, <2>9
  <2> QED BY <1>7, <2>6, <2>8, <2>10, <2>11 DEF FlowInv
<1>11. CASE ~frame.body.isCredit /\ ~waiting[e]
  <2>1. handed'[e] = handed[e] /\ plainQueue'[e] = Append(plainQueue[e], frame) BY <1>11
  <2>2. Stream(s, p, plainQueue'[e], b, x) BY <1>1, <1>2, <1>4, <1>5, <2>1, StreamAppend
  <2>3. Rest(e, b)' BY <1>7, <1>8, <2>2 DEF Rest
  <2>4. PICK n \in Nat : n = Len(plainQueue[e]) BY <1>1
  <2>5. /\ Len(plainQueue'[e]) = n + 1 /\ plainQueue'[e][n + 1] = frame
        /\ \A i \in 1..n : plainQueue'[e][i] = plainQueue[e][i]
    BY <1>1, <1>2, <2>1, <2>4
  <2>6. ASSUME NEW i \in 1..(n + 1) PROVE ~plainQueue'[e][i].body.isCredit
    <3>1. i = n + 1 \/ i \in 1..n OBVIOUS
    <3> QED BY <1>6, <1>11, <2>4, <2>5, <3>1
  <2> QED BY <1>3, <1>6, <1>7, <2>1, <2>3, <2>5, <2>6 DEF FlowInv
<1> QED BY <1>9, <1>10, <1>11

\* The reader takes the fragment it was handed.
LEMMA FlowTakeHanded ==
  ASSUME TypeOK, NEW e \in End, FlowInv(e), NEW b \in Pos,
         handed'[e] = <<>>, plainQueue' = plainQueue, net'[e] = net[e],
         ended' = ended, sent' = sent, outbox' = outbox, offset' = offset,
         ReadPos(e)' = b, Open(e) => Rest(e, b)
  PROVE  FlowInv(e)'
<1>1. Stream(sent'[Peer(e)], Peer(e), handed'[e], ReadPos(e)', b) BY StreamEmpty
<1>2. Open(e)' => Rest(e, b)' BY DEF Rest, Open, SendPos
<1>3. Len(<<>>) = 0 OBVIOUS
<1>4. Len(handed'[e]) <= 1 /\ \A i \in 1..Len(handed'[e]) : ~handed'[e][i].body.isCredit
  BY <1>3
<1>5. /\ \A i \in 1..Len(plainQueue'[e]) : ~plainQueue'[e][i].body.isCredit
      /\ ~Open(e)' => plainQueue'[e] = <<>>
  BY DEF FlowInv, Open
<1> QED BY <1>1, <1>2, <1>4, <1>5 DEF FlowInv

\* The reader takes the fragment ahead in the queue.
LEMMA FlowTakeQueued ==
  ASSUME TypeOK, NEW e \in End, FlowInv(e), Open(e), NEW x \in Pos, NEW c \in Pos, NEW d \in Pos,
         handed[e] = <<>>, handed' = handed, plainQueue[e] # <<>>,
         plainQueue'[e] = Tail(plainQueue[e]), net'[e] = net[e],
         ended' = ended, sent' = sent, outbox' = outbox, offset' = offset, ReadPos(e)' = x,
         Stream(sent[Peer(e)], Peer(e), Tail(plainQueue[e]), x, c),
         Stream(sent[Peer(e)], Peer(e), net[e], c, d),
         Open(Peer(e)) => d = SendPos(Peer(e))
  PROVE  FlowInv(e)'
<1>1. Stream(sent'[Peer(e)], Peer(e), handed'[e], ReadPos(e)', x) BY StreamEmpty
<1>2. Rest(e, x)' BY DEF Rest, Open, SendPos
<1>3. Len(handed'[e]) <= 1 /\ \A i \in 1..Len(handed'[e]) : ~handed'[e][i].body.isCredit
  BY DEF FlowInv
<1>4. plainQueue[e] \in Seq(Frames) BY OrderFacts
<1>5. PICK n \in Nat : n = Len(plainQueue[e]) /\ n >= 1 BY <1>4, HeadFrame
<1>6. /\ Len(plainQueue'[e]) = n - 1
      /\ \A i \in 1..(n - 1) : plainQueue'[e][i] = plainQueue[e][i+1]
  BY <1>4, <1>5, HeadFrame
<1>7. ASSUME NEW i \in 1..(n - 1) PROVE ~plainQueue'[e][i].body.isCredit
  <2>1. i + 1 \in 1..n BY <1>5
  <2> QED BY <1>5, <1>6, <2>1 DEF FlowInv
<1>8. Open(e)' BY DEF Open
<1> QED BY <1>1, <1>2, <1>3, <1>6, <1>7, <1>8 DEF FlowInv

\* The fragment an end writes is the one its stream has come to, and the outbox is
\* then the rest.
LEMMA SendNext ==
  ASSUME TypeOK, NEW p \in End, OutInv(p), SendFragment(p), NEW frame,
         frame.body = DataBody(p, Head(outbox[p]), offset[p] + 1)
  PROVE  /\ OutInv(p)' /\ SendPos(p) \in Pos /\ SendPos(p)' \in Pos
         /\ Moves(sent[p], p, frame, SendPos(p), SendPos(p)')
<1> DEFINE m == Head(outbox[p])
           s == sent[p]
           q == outbox[p]
           i == offset[p] + 1
<1>1. /\ s \in Seq(Seq(ChunkIds)) /\ q \in Seq(Messages) /\ offset[p] \in Nat
      /\ outbox \in [End -> Seq(Messages)] /\ offset \in [End -> Nat]
  BY DEF TypeOK
<1>2. q # <<>> BY DEF SendFragment
<1>3. PICK j \in Nat : j = Len(q) /\ j >= 1 BY <1>1, <1>2
<1>4. PICK k \in Nat : k = Len(s) BY <1>1
<1>5. m = q[1] /\ m.full \in Nat
  <2>1. m = q[1] /\ m \in Messages BY <1>1, <1>2
  <2> QED BY <2>1 DEF Messages
<1>6. /\ outbox' = [outbox EXCEPT ![p] = IF i = m.full + 1 THEN Tail(@) ELSE @]
      /\ offset' = [offset EXCEPT ![p] = IF i = m.full + 1 THEN 0 ELSE i]
      /\ sent' = sent
  BY DEF SendFragment
<1>7. /\ j <= k /\ \A x \in 1..j : q[x].n = k - j + x /\ s[q[x].n] = Chunks(p, q[x])
      /\ offset[p] <= m.full
      /\ \A x \in 1..k : \A y \in 1..Len(s[x]) : s[x][y] = Chunk(p, x, y)
  BY <1>2, <1>3, <1>4, <1>5 DEF OutInv
<1>8. m.n = k - j + 1 /\ s[k - j + 1] = Chunks(p, m)
  <2>1. 1 \in 1..j BY <1>3
  <2> QED BY <1>5, <1>7, <2>1
<1>9. Len(s[k - j + 1]) = m.full + 1
  <2>1. Chunks(p, m) = [y \in 1..(m.full + 1) |-> Chunk(p, m.n, y)] BY DEF Chunks
  <2>2. s[k - j + 1] \in Seq(ChunkIds) BY <1>1, <1>3, <1>4, <1>7
  <2>3. DOMAIN s[k - j + 1] = 1..(m.full + 1) BY <1>8, <2>1
  <2>4. DOMAIN s[k - j + 1] = 1..Len(s[k - j + 1]) /\ Len(s[k - j + 1]) \in Nat BY <2>2
  <2> HIDE DEF m, s, q
  <2> QED BY <1>5, <2>3, <2>4
<1>10. SendPos(p) = [msg |-> k - j + 1, frag |-> i] BY <1>3, <1>4 DEF SendPos
<1>11. /\ frame.body.isCredit = FALSE /\ frame.body.chunk = Chunk(p, k - j + 1, i)
       /\ frame.body.last = (i = m.full + 1)
  BY <1>8 DEF DataBody
<1> HIDE DEF m, s, q, i
<1>12. i \in Nat /\ i >= 1 /\ i <= m.full + 1 BY <1>1, <1>5, <1>7 DEF i
<1>13. k - j + 1 \in Nat /\ k - j + 1 \in 1..k BY <1>3, <1>7
<1>14. SendPos(p) \in Pos BY <1>10, <1>12, <1>13 DEF Pos
<1>15. Carries(s, p, frame, SendPos(p))
  <2>1. i \in 1..Len(s[k - j + 1]) BY <1>5, <1>9, <1>12
  <2>2. SendPos(p).msg = k - j + 1 /\ SendPos(p).frag = i BY <1>10
  <2>3. frame.body.last <=> SendPos(p).frag = Len(s[SendPos(p).msg]) BY <1>9, <1>11, <2>2
  <2> QED BY <1>4, <1>11, <1>13, <2>1, <2>2, <2>3 DEF Carries
<1>16. After(s, SendPos(p)) = IF i = m.full + 1 THEN [msg |-> k - j + 2, frag |-> 1]
                              ELSE [msg |-> k - j + 1, frag |-> i + 1]
  BY <1>9, <1>10, <1>13 DEF After
<1> SUFFICES OutInv(p)' /\ SendPos(p)' \in Pos /\ SendPos(p)' = After(s, SendPos(p))
  BY <1>11, <1>14, <1>15 DEF Moves, s
<1>17. sent'[p] = s BY <1>6 DEF s
<1>18. CASE i = m.full + 1
  <2>1. outbox'[p] = Tail(q) /\ offset'[p] = 0 BY <1>1, <1>6, <1>18 DEF q
  <2>2. Len(outbox'[p]) = j - 1 /\ \A x \in 1..(j - 1) : outbox'[p][x] = q[x+1]
    BY <1>1, <1>2, <1>3, <2>1
  <2>3. SendPos(p)' = [msg |-> k - (j - 1) + 1, frag |-> 0 + 1]
    BY <1>4, <1>17, <2>1, <2>2 DEF SendPos
  <2>4. k - (j - 1) + 1 = k - j + 2 /\ k - j + 2 \in Nat BY <1>3, <1>13
  <2>5. SendPos(p)' = After(s, SendPos(p)) BY <1>16, <1>18, <2>3, <2>4
  <2>6. SendPos(p)' \in Pos BY <2>3, <2>4 DEF Pos
  <2>7. ASSUME NEW x \in 1..(j - 1)
        PROVE  /\ outbox'[p][x].n = k - (j - 1) + x
               /\ s[outbox'[p][x].n] = Chunks(p, outbox'[p][x])
    <3>1. x + 1 \in 1..j /\ k - j + (x + 1) = k - (j - 1) + x BY <1>3
    <3> QED BY <1>7, <2>2, <3>1
  <2>8. IF outbox'[p] = <<>> THEN offset'[p] = 0 ELSE offset'[p] <= outbox'[p][1].full
    <3>1. CASE outbox'[p] = <<>> BY <2>1, <3>1
    <3>2. CASE outbox'[p] # <<>>
      <4>1. Tail(q) \in Seq(Messages) BY <1>1, <1>2
      <4>2. outbox'[p][1] \in Messages BY <2>1, <3>2, <4>1
      <4>3. outbox'[p][1].full \in Nat BY <4>2 DEF Messages
      <4> QED BY <2>1, <3>2, <4>3
    <3> QED BY <3>1, <3>2
  <2>9. j - 1 <= k BY <1>3, <1>7
  <2>10. OutInv(p)' BY <1>4, <1>7, <1>17, <2>2, <2>7, <2>8, <2>9 DEF OutInv
  <2> QED BY <2>5, <2>6, <2>10
<1>19. CASE i # m.full + 1
  <2>1. outbox'[p] = q /\ offset'[p] = i BY <1>1, <1>6, <1>19 DEF q
  <2>2. SendPos(p)' = [msg |-> k - j + 1, frag |-> i + 1]
    BY <1>3, <1>4, <1>17, <2>1 DEF SendPos
  <2>3. SendPos(p)' \in Pos BY <1>12, <1>13, <2>2 DEF Pos
  <2>4. i <= m.full BY <1>5, <1>12, <1>19
  <2>5. OutInv(p)' BY <1>2, <1>3, <1>4, <1>5, <1>7, <1>17, <2>1, <2>4 DEF OutInv
  <2> QED BY <1>16, <1>19, <2>2, <2>3, <2>5
<1> QED BY <1>18, <1>19

\* A fragment written to the peer of its sender.
LEMMA FlowSend ==
  ASSUME TypeOK, NEW e \in End, FlowInv(e), OutInv(Peer(e)), SendFragment(Peer(e))
  PROVE  FlowInv(e)' /\ OutInv(Peer(e))'
<1> DEFINE p == Peer(e)
           s == sent[p]
           f == spend(flow[p], NextCost(p))
           total == IF flow[p].limited THEN [sealed[p] EXCEPT !.data = @ + NextCost(p)]
                    ELSE sealed[p]
           body == DataBody(p, Head(outbox[p]), offset[p] + 1)
           frame == Sealed(p, f, total, body)
<1>1. p \in End /\ Peer(p) = e BY PeerFacts
<1>2. /\ outbox[p] # <<>> /\ Open(p) /\ Transmit(p, f, total, body, net)
      /\ UNCHANGED <<ended, sent, inbox, partial, handed, plainQueue>>
  BY DEF SendFragment, readVars, asmVars
<1>3. NextCost(p) \in Nat /\ body \in Bodies BY <1>1, <1>2, NextFragment
<1>4. f \in FlowType BY <1>1, <1>3, SpendFacts DEF Same, TypeOK
<1>5. total \in Totals
  <2>1. sealed[p] \in Totals BY <1>1 DEF TypeOK
  <2>2. [sealed[p] EXCEPT !.data = @ + NextCost(p)] \in Totals BY <1>3, <2>1 DEF Totals
  <2> QED BY <2>1, <2>2
<1> HIDE DEF f, total
<1>6. frame \in Frames BY <1>1, <1>3, <1>4, <1>5, SealedType
<1>7. frame.body = body BY SealedFields
<1> HIDE DEF frame
<1>8. /\ OutInv(p)' /\ SendPos(p)' \in Pos
      /\ Moves(s, p, frame, SendPos(p), SendPos(p)')
  BY <1>1, <1>7, SendNext
<1>9. Open(e) => net'[e] = Append(net[e], frame)
  <2>1. net \in [End -> Seq(Frames)] BY DEF TypeOK
  <2> QED BY <1>1, <1>2, <2>1 DEF Transmit, frame
<1>10. PICK b \in Pos : /\ Stream(s, p, handed[e], ReadPos(e), b)
                        /\ Open(e) => Rest(e, b)
  BY DEF FlowInv
<1>11. Stream(sent'[p], p, handed'[e], ReadPos(e)', b) BY <1>2, <1>10 DEF ReadPos
<1>12. ASSUME Open(e)' PROVE Rest(e, b)'
  <2>1. Open(e) BY <1>2, <1>12 DEF Open
  <2>2. PICK c \in Pos, d \in Pos :
          /\ Stream(s, p, plainQueue[e], b, c) /\ Stream(s, p, net[e], c, d)
          /\ Open(p) => d = SendPos(p)
    BY <1>10, <2>1 DEF Rest
  <2>3. Moves(s, p, frame, d, SendPos(p)') BY <1>2, <1>8, <2>2
  <2>4. net[e] \in Seq(Frames) BY OrderFacts
  <2>5. Stream(s, p, Append(net[e], frame), c, SendPos(p)')
    BY <1>6, <1>8, <2>2, <2>3, <2>4, StreamAppend
  <2>6. Stream(sent'[p], p, net'[e], c, SendPos(p)') BY <1>2, <1>9, <2>1, <2>5
  <2>7. Stream(sent'[p], p, plainQueue'[e], b, c) BY <1>2, <2>2
  <2> QED BY <1>8, <2>6, <2>7 DEF Rest
<1>13. /\ Len(handed'[e]) <= 1
       /\ \A i \in 1..Len(handed'[e]) : ~handed'[e][i].body.isCredit
       /\ \A i \in 1..Len(plainQueue'[e]) : ~plainQueue'[e][i].body.isCredit
       /\ ~Open(e)' => plainQueue'[e] = <<>>
  BY <1>2 DEF FlowInv, Open
<1> QED BY <1>8, <1>11, <1>12, <1>13 DEF FlowInv

\* A message admitted is the next one of the stream after all that were.
LEMMA FlowAdmit ==
  ASSUME TypeOK, NEW e \in End, FlowInv(e), OutInv(Peer(e)), Admit(Peer(e))
  PROVE  /\ FlowInv(e)' /\ OutInv(Peer(e))'
         /\ Abstract!Send(Peer(e))
<1> DEFINE p == Peer(e)
           s == sent[p]
           q == outbox[p]
           M(shape) == [kind |-> shape.kind, full |-> shape.full, tail |-> shape.tail,
                        n |-> Len(sent[p]) + 1]
<1>1. p \in End BY PeerFacts
<1>2. PICK shape \in Shapes :
        /\ outbox' = [outbox EXCEPT ![p] = Append(@, M(shape))]
        /\ sent' = [sent EXCEPT ![p] = Append(@, Chunks(p, M(shape)))]
        /\ Len(sent[p]) < MaxMessages[p]
        /\ UNCHANGED <<ended, offset, inbox, partial, handed, plainQueue, net>>
  BY DEF Admit, readVars, asmVars, wireVars
<1>3. shape.full \in Nat /\ MaxMessages[p] \in Nat BY <1>1, ChannelAssumption
<1>4. /\ s \in Seq(Seq(ChunkIds)) /\ q \in Seq(Messages) /\ offset[p] \in Nat
      /\ outbox \in [End -> Seq(Messages)] /\ sent \in [End -> Seq(Seq(ChunkIds))]
  BY <1>1 DEF TypeOK
<1>5. PICK k \in Nat : k = Len(s) BY <1>4
<1>6. PICK j \in Nat : j = Len(q) BY <1>4
<1>7. PICK m : m = M(shape) OBVIOUS
<1>8. m.full = shape.full /\ m.n = k + 1 BY <1>5, <1>7
<1>9. Chunks(p, m) = [i \in 1..(shape.full + 1) |-> Chunk(p, k + 1, i)]
  BY <1>8 DEF Chunks
<1>10. m \in Messages
  <2>1. shape \in [kind: Kinds, full: Nat, tail: 2..FULL] BY ChannelAssumption
  <2> QED BY <1>5, <1>7, <2>1 DEF Messages
<1>11. /\ Chunks(p, m) \in Seq(ChunkIds) /\ Len(Chunks(p, m)) = shape.full + 1
  <2>1. \A i \in 1..(shape.full + 1) : Chunk(p, k + 1, i) \in ChunkIds
    BY <1>1, <1>3, <1>5 DEF Chunk, ChunkIds
  <2> QED BY <1>3, <1>9, <2>1
<1>12. outbox'[p] = Append(q, m) /\ sent'[p] = Append(s, Chunks(p, m)) BY <1>1, <1>2, <1>4, <1>7
<1>13. Abstract!Send(p)
  <2>1. Chunks(p, m) \in Payload
    <3> DEFINE a == [full |-> shape.full, n |-> k + 1]
    <3>1. a \in [full: {x.full : x \in Shapes}, n: 1..MaxMessages[p]]
      BY <1>2, <1>3, <1>5
    <3>2. Chunks(p, a) = Chunks(p, m) BY <1>9 DEF Chunks
    <3> HIDE DEF a
    <3>3. Chunks(p, m) \in {Chunks(p, x) : x \in [full: {y.full : y \in Shapes},
                                                  n: 1..MaxMessages[p]]}
      BY <3>1, <3>2
    <3> QED BY <1>1, <3>3 DEF Payload
  <2>2. sent' = [sent EXCEPT ![p] = Append(@, Chunks(p, m))] BY <1>2, <1>7
  <2> QED BY <1>2, <2>1, <2>2 DEF Abstract!Send
<1> HIDE DEF M, s, q
<1>14. Len(outbox'[p]) = j + 1 /\ Len(sent'[p]) = k + 1
  BY <1>4, <1>5, <1>6, <1>10, <1>11, <1>12
<1>15. /\ \A i \in 1..k : sent'[p][i] = s[i]
       /\ sent'[p][k + 1] = Chunks(p, m)
  BY <1>4, <1>5, <1>11, <1>12
<1>16. /\ \A i \in 1..j : outbox'[p][i] = q[i]
       /\ outbox'[p][j + 1] = m
  BY <1>4, <1>6, <1>10, <1>12
<1>17. /\ j <= k /\ \A x \in 1..j : q[x].n = k - j + x /\ s[q[x].n] = Chunks(p, q[x])
       /\ \A x \in 1..k : \A y \in 1..Len(s[x]) : s[x][y] = Chunk(p, x, y)
       /\ IF q = <<>> THEN offset[p] = 0 ELSE offset[p] <= q[1].full
  BY <1>5, <1>6 DEF OutInv, s, q
<1>18. OutInv(p)'
  <2>1. ASSUME NEW x \in 1..(k + 1), NEW y \in 1..Len(sent'[p][x])
        PROVE  sent'[p][x][y] = Chunk(p, x, y)
    <3>1. x = k + 1 \/ x \in 1..k OBVIOUS
    <3>2. CASE x = k + 1 BY <1>9, <1>11, <1>15, <3>2
    <3>3. CASE x \in 1..k BY <1>15, <1>17, <3>3
    <3> QED BY <3>1, <3>2, <3>3
  <2>2. ASSUME NEW x \in 1..(j + 1)
        PROVE  /\ outbox'[p][x].n = (k + 1) - (j + 1) + x
               /\ sent'[p][outbox'[p][x].n] = Chunks(p, outbox'[p][x])
    <3>1. x = j + 1 \/ x \in 1..j OBVIOUS
    <3>2. CASE x = j + 1 BY <1>8, <1>15, <1>16, <3>2
    <3>3. CASE x \in 1..j
      <4>1. q[x].n = k - j + x /\ s[q[x].n] = Chunks(p, q[x]) BY <1>17, <3>3
      <4>2. k - j + x = (k + 1) - (j + 1) + x /\ k - j + x \in 1..k BY <1>17, <3>3
      <4>3. outbox'[p][x] = q[x] BY <1>16, <3>3
      <4> QED BY <1>15, <4>1, <4>2, <4>3
    <3> QED BY <3>1, <3>2, <3>3
  <2>3. IF outbox'[p] = <<>> THEN offset'[p] = 0 ELSE offset'[p] <= outbox'[p][1].full
    <3>1. outbox'[p] # <<>> BY <1>14
    <3>2. offset'[p] = offset[p] BY <1>2
    <3>3. CASE q = <<>>
      <4>1. j = 0 BY <1>6, <3>3
      <4>2. outbox'[p][1] = m BY <1>16, <4>1
      <4> QED BY <1>3, <1>8, <1>17, <3>1, <3>2, <3>3, <4>2
    <3>4. CASE q # <<>>
      <4>1. 1 \in 1..j BY <1>4, <1>6, <3>4
      <4> QED BY <1>16, <1>17, <3>1, <3>2, <3>4, <4>1
    <3> QED BY <3>3, <3>4
  <2>4. Len(outbox'[p]) <= Len(sent'[p]) BY <1>14, <1>17
  <2> QED BY <1>14, <2>1, <2>2, <2>3, <2>4 DEF OutInv
<1>19. SendPos(p)' = SendPos(p)
  <2>1. SendPos(p)' = [msg |-> (k + 1) - (j + 1) + 1, frag |-> offset[p] + 1]
    BY <1>2, <1>14 DEF SendPos
  <2>2. SendPos(p) = [msg |-> k - j + 1, frag |-> offset[p] + 1]
    BY <1>5, <1>6 DEF SendPos, s, q
  <2>3. (k + 1) - (j + 1) + 1 = k - j + 1 OBVIOUS
  <2> QED BY <2>1, <2>2, <2>3
<1>20. ASSUME NEW w \in Seq(Frames), NEW a, NEW b, Stream(s, p, w, a, b)
       PROVE  Stream(sent'[p], p, w, a, b)
  BY <1>4, <1>11, <1>12, <1>20, StreamGrow
<1>21. PICK b \in Pos : /\ Stream(s, p, handed[e], ReadPos(e), b)
                        /\ Open(e) => Rest(e, b)
  BY DEF FlowInv, s
<1>22. handed[e] \in Seq(Frames) /\ plainQueue[e] \in Seq(Frames) /\ net[e] \in Seq(Frames)
  BY OrderFacts
<1>23. Stream(sent'[p], p, handed'[e], ReadPos(e)', b)
  <2>1. ReadPos(e)' = ReadPos(e) /\ handed'[e] = handed[e] BY <1>2 DEF ReadPos
  <2> QED BY <1>20, <1>21, <1>22, <2>1
<1>24. ASSUME Open(e)' PROVE Rest(e, b)'
  <2>1. Open(e) BY <1>2, <1>24 DEF Open
  <2>2. PICK c \in Pos, d \in Pos :
          /\ Stream(s, p, plainQueue[e], b, c) /\ Stream(s, p, net[e], c, d)
          /\ Open(p) => d = SendPos(p)
    BY <1>21, <2>1 DEF Rest, s
  <2>3. Stream(sent'[p], p, plainQueue'[e], b, c) BY <1>2, <1>20, <1>22, <2>2
  <2>4. Stream(sent'[p], p, net'[e], c, d) BY <1>2, <1>20, <1>22, <2>2
  <2>5. Open(p)' => d = SendPos(p)' BY <1>2, <1>19, <2>2 DEF Open
  <2> QED BY <2>3, <2>4, <2>5 DEF Rest
<1>25. /\ Len(handed'[e]) <= 1
       /\ \A i \in 1..Len(handed'[e]) : ~handed'[e][i].body.isCredit
       /\ \A i \in 1..Len(plainQueue'[e]) : ~plainQueue'[e][i].body.isCredit
       /\ ~Open(e)' => plainQueue'[e] = <<>>
  BY <1>2 DEF FlowInv, Open
<1>26. FlowInv(e)' BY <1>23, <1>24, <1>25 DEF FlowInv
<1> QED BY <1>13, <1>18, <1>26

\* What sendCredit() does to the two wires: nothing, or a credit for the peer.
LEMMA CreditWire ==
  ASSUME TypeOK, NEW e \in End, NEW f \in FlowType, NEW replies \in BOOLEAN, NEW amount \in Nat,
         NEW network \in [End -> Seq(Frames)], SendCredit(e, replies, amount, f, network)
  PROVE  /\ net'[e] = network[e]
         /\ \/ net'[Peer(e)] = network[Peer(e)]
            \/ \E frame \in Frames : /\ frame.body.isCredit
                                     /\ net'[Peer(e)] = Append(network[Peer(e)], frame)
<1>1. CASE replies
  <2> DEFINE total == [sealed[e] EXCEPT !.credit = @ + amount]
             frame == Sealed(e, f, total, CreditBody(amount))
  <2>1. CreditBody(amount) \in Bodies BY DEF CreditBody, Bodies, Chunk, ChunkIds, End, Kinds
  <2>2. total \in Totals BY AddCredit DEF TypeOK
  <2>3. Transmit(e, f, total, CreditBody(amount), network) BY <1>1 DEF SendCredit
  <2> HIDE DEF total
  <2>4. frame \in Frames BY <2>1, <2>2, SealedType
  <2>5. frame.body.isCredit BY SealedFields DEF CreditBody
  <2>6. /\ net'[e] = network[e]
        /\ ~Open(Peer(e)) => net'[Peer(e)] = network[Peer(e)]
        /\ Open(Peer(e)) => net'[Peer(e)] = Append(network[Peer(e)], frame)
    BY <2>3, TransmitFrame
  <2> HIDE DEF frame
  <2> QED BY <2>4, <2>5, <2>6
<1>2. CASE ~replies BY <1>2 DEF SendCredit
<1> QED BY <1>1, <1>2

\* An outbox and a reader that nothing happens to.
LEMMA OutSame ==
  ASSUME NEW e \in End, OutInv(e), outbox'[e] = outbox[e], offset'[e] = offset[e],
         sent'[e] = sent[e]
  PROVE  OutInv(e)'
BY DEF OutInv

\* The same of a reader.
LEMMA ReadSame ==
  ASSUME NEW e \in End, ReadInv(e), partial'[e] = partial[e], inbox'[e] = inbox[e]
  PROVE  ReadInv(e)'
BY DEF ReadInv

\* An end that ends has nothing left to write.
LEMMA OrderFinish ==
  ASSUME TypeOK, OrderInv, NEW e \in End, NEW why, why # "open", Finish(e, why),
         UNCHANGED <<sent, handed, asmVars>>
  PROVE  OrderInv' /\ UNCHANGED <<sent, inbox>>
<1> DEFINE p == Peer(e)
<1>1. p \in End /\ p # e /\ Peer(p) = e BY PeerFacts
<1>2. /\ ended'[e] = why /\ ended'[p] = ended[p] /\ net'[p] = net[p]
      /\ plainQueue'[e] = <<>> /\ plainQueue'[p] = plainQueue[p]
      /\ outbox'[e] = <<>> /\ offset'[e] = 0
      /\ outbox'[p] = outbox[p] /\ offset'[p] = offset[p]
  BY <1>1 DEF Finish, TypeOK
<1>3. UNCHANGED <<sent, handed, partial, inbox>> BY DEF asmVars
<1>4. FlowInv(e) /\ FlowInv(p) /\ OutInv(e) /\ OutInv(p) /\ ReadInv(e) /\ ReadInv(p)
  BY <1>1 DEF OrderInv
<1>5. FlowInv(e)' BY <1>2, <1>3, <1>4, FlowFinish
<1>6. ~Open(e)' BY <1>2 DEF Open
<1>7. FlowInv(p)' BY <1>1, <1>2, <1>3, <1>4, <1>6, FlowKeep
<1>8. OutInv(p)' BY <1>1, <1>2, <1>3, <1>4, OutSame
<1>9. OutInv(e)'
  <2>1. Len(<<>>) = 0 OBVIOUS
  <2>2. sent[e] \in Seq(Seq(ChunkIds)) BY OrderFacts
  <2>3. Len(sent[e]) \in Nat BY <2>2
  <2> QED BY <1>2, <1>3, <1>4, <2>1, <2>3 DEF OutInv
<1>10. ReadInv(e)' /\ ReadInv(p)' BY <1>1, <1>3, <1>4, ReadSame
<1>11. \A d \in End : d = e \/ d = p BY DEF Peer, End
<1> QED BY <1>3, <1>5, <1>7, <1>8, <1>9, <1>10, <1>11 DEF OrderInv

\* A step at e that neither sends, reads nor ends, once its own stream is seen to.
LEMMA OrderQuiet ==
  ASSUME TypeOK, OrderInv, NEW e \in End, FlowInv(e)',
         UNCHANGED <<ended, outbox, offset, sent, inbox, partial>>,
         handed'[Peer(e)] = handed[Peer(e)], plainQueue'[Peer(e)] = plainQueue[Peer(e)],
         \/ net'[Peer(e)] = net[Peer(e)]
         \/ \E frame \in Frames : /\ frame.body.isCredit
                                  /\ net'[Peer(e)] = Append(net[Peer(e)], frame)
  PROVE  OrderInv'
<1> DEFINE p == Peer(e)
<1>1. p \in End /\ Peer(p) = e BY PeerFacts
<1>2. \A d \in End : FlowInv(d) /\ OutInv(d) /\ ReadInv(d) BY DEF OrderInv
<1>3. Open(e)' => Open(e) BY DEF Open
<1>4. FlowInv(p)' BY <1>1, <1>2, <1>3, FlowKeep
<1>5. \A d \in End : OutInv(d)' /\ ReadInv(d)' BY <1>2, OutSame, ReadSame
<1>6. \A d \in End : d = e \/ d = p BY DEF Peer, End
<1> QED BY <1>4, <1>5, <1>6 DEF OrderInv

\* A read of the fragment the reader expects, and the credit it may return.
LEMMA OrderConsume ==
  ASSUME TypeOK, OrderInv, NEW e \in End, NEW frame \in Frames, NEW c,
         ~frame.body.isCredit, Moves(sent[Peer(e)], Peer(e), frame, ReadPos(e), c),
         Consume(e, frame), UNCHANGED <<ended, sendVars>>,
         handed'[Peer(e)] = handed[Peer(e)], plainQueue'[Peer(e)] = plainQueue[Peer(e)]
  PROVE  /\ ReadPos(e)' = c /\ net'[e] = net[e]
         /\ FlowInv(e)' => OrderInv'
         /\ inbox' = inbox \/ Abstract!Deliver(e)
<1> DEFINE p == Peer(e)
           due == CreditDue(flow[e], Cost(frame))
           f == consumed(flow[e], Cost(frame))
           replies == due > 0 /\ Open(e)
<1>1. p \in End /\ p # e /\ Peer(p) = e BY PeerFacts
<1>2. UNCHANGED <<ended, outbox, offset, sent>> BY DEF sendVars
<1>3. \A d \in End : FlowInv(d) /\ OutInv(d) /\ ReadInv(d) BY DEF OrderInv
<1>4. Reassemble(e, frame) /\ SendCredit(e, replies, due, f, net) BY DEF Consume
<1>5. ReadInv(e)' /\ ReadPos(e)' = c /\ (inbox' = inbox \/ Abstract!Deliver(e))
  BY <1>1, <1>2, <1>3, <1>4, ReadOne
<1>6. Cost(frame) \in Nat /\ flow[e] \in FlowType /\ net \in [End -> Seq(Frames)]
  BY FrameFields DEF TypeOK
<1>7. f \in FlowType /\ due \in Nat BY <1>6, ConsumedFacts DEF Same
<1>8. replies \in BOOLEAN OBVIOUS
<1> HIDE DEF due, f, replies
<1>9. /\ net'[e] = net[e]
      /\ \/ net'[p] = net[p]
         \/ \E x \in Frames : x.body.isCredit /\ net'[p] = Append(net[p], x)
  BY <1>4, <1>6, <1>7, <1>8, CreditWire, SMTT(60)
<1>10. inbox'[p] = inbox[p] /\ partial'[p] = partial[p] BY <1>1, <1>4 DEF Reassemble, TypeOK
<1>11. Open(e)' => Open(e) BY <1>2 DEF Open
<1>12. FlowInv(p)' BY <1>1, <1>2, <1>3, <1>9, <1>10, <1>11, FlowKeep
<1>13. OutInv(e)' /\ OutInv(p)' BY <1>1, <1>2, <1>3, OutSame
<1>14. ReadInv(p)' BY <1>1, <1>3, <1>10, ReadSame
<1>15. \A d \in End : d = e \/ d = p BY DEF Peer, End
<1>16. FlowInv(e)' => OrderInv' BY <1>5, <1>12, <1>13, <1>14, <1>15 DEF OrderInv
<1> QED BY <1>5, <1>9, <1>16

\* What MessageChannel allows a step to do.
Promised == (\E e \in End : Abstract!Send(e) \/ Abstract!Deliver(e)) \/ UNCHANGED <<sent, inbox>>

\* A data fragment read from the queue, and one read by a reader that had to wait.
LEMMA OrderReadQueued ==
  ASSUME TypeOK, OrderInv, NEW e \in End, ReadQueued(e)
  PROVE  OrderInv' /\ Promised
<1> DEFINE p == Peer(e)
           s == sent[p]
           frame == Head(plainQueue[e])
<1>1. p \in End /\ p # e BY PeerFacts
<1>2. /\ handed[e] = <<>> /\ plainQueue[e] # <<>> /\ Consume(e, frame)
      /\ plainQueue' = [plainQueue EXCEPT ![e] = Tail(@)]
      /\ UNCHANGED <<ended, sendVars, handed>>
  BY DEF ReadQueued, ReaderFree
<1>3. UNCHANGED <<ended, outbox, offset, sent, handed>> BY <1>2 DEF sendVars
<1>4. FlowInv(e) BY DEF OrderInv
<1>5. Open(e) BY <1>2, <1>4 DEF FlowInv
<1>6. handed[e] \in Seq(Frames) /\ plainQueue[e] \in Seq(Frames) /\ net[e] \in Seq(Frames)
  BY OrderFacts
<1>7. frame \in Frames /\ frame = plainQueue[e][1] /\ 1 \in 1..Len(plainQueue[e])
  BY <1>2, <1>6, HeadFrame
<1>8. ~frame.body.isCredit BY <1>4, <1>7 DEF FlowInv
<1>9. PICK b \in Pos : Stream(s, p, handed[e], ReadPos(e), b) /\ Rest(e, b)
  BY <1>4, <1>5 DEF FlowInv
<1>10. PICK c \in Pos, d \in Pos :
         /\ Stream(s, p, plainQueue[e], b, c) /\ Stream(s, p, net[e], c, d)
         /\ Open(p) => d = SendPos(p)
  BY <1>9 DEF Rest
<1>11. b = ReadPos(e) BY <1>2, <1>9, StreamStill
<1>12. PICK x \in Pos : Moves(s, p, frame, b, x) /\ Stream(s, p, Tail(plainQueue[e]), x, c)
  BY <1>2, <1>6, <1>10, StreamTail
<1>13. plainQueue'[e] = Tail(plainQueue[e]) /\ plainQueue'[p] = plainQueue[p]
  BY <1>1, <1>2 DEF TypeOK
<1>14. Moves(s, p, frame, ReadPos(e), x) BY <1>11, <1>12
<1>15. handed'[p] = handed[p] BY <1>2
<1> HIDE DEF frame
<1>16. /\ ReadPos(e)' = x /\ net'[e] = net[e]
       /\ FlowInv(e)' => OrderInv'
       /\ inbox' = inbox \/ Abstract!Deliver(e)
  BY <1>2, <1>7, <1>8, <1>13, <1>14, <1>15, OrderConsume
<1>17. FlowInv(e)'
  BY <1>2, <1>3, <1>4, <1>5, <1>10, <1>12, <1>13, <1>16, FlowTakeQueued
<1>18. Promised BY <1>3, <1>16 DEF Promised
<1> QED BY <1>16, <1>17, <1>18

\* The same of the fragment the pump handed over, even past the end.
LEMMA OrderReadHanded ==
  ASSUME TypeOK, OrderInv, NEW e \in End, ReadHanded(e)
  PROVE  OrderInv' /\ Promised
<1> DEFINE p == Peer(e)
           s == sent[p]
           frame == Head(handed[e])
<1>1. p \in End /\ p # e BY PeerFacts
<1>2. /\ handed[e] # <<>> /\ Consume(e, frame)
      /\ handed' = [handed EXCEPT ![e] = <<>>]
      /\ UNCHANGED <<ended, sendVars, plainQueue>>
  BY DEF ReadHanded
<1>3. UNCHANGED <<ended, outbox, offset, sent, plainQueue>> BY <1>2 DEF sendVars
<1>4. FlowInv(e) BY DEF OrderInv
<1>5. handed[e] \in Seq(Frames) BY OrderFacts
<1>6. frame \in Frames /\ frame = handed[e][1] /\ 1 \in 1..Len(handed[e])
  BY <1>2, <1>5, HeadFrame
<1>7. ~frame.body.isCredit BY <1>4, <1>6 DEF FlowInv
<1>8. PICK b \in Pos : /\ Stream(s, p, handed[e], ReadPos(e), b)
                       /\ Open(e) => Rest(e, b)
  BY <1>4 DEF FlowInv
<1>9. PICK x \in Pos : Moves(s, p, frame, ReadPos(e), x) /\ Stream(s, p, Tail(handed[e]), x, b)
  BY <1>2, <1>5, <1>8, StreamTail
<1>10. x = b
  <2>1. Len(handed[e]) <= 1 BY <1>4 DEF FlowInv
  <2>2. Tail(handed[e]) = <<>>
    <3>1. PICK n \in Nat : n = Len(handed[e]) /\ n >= 1 BY <1>2, <1>5, HeadFrame
    <3>2. n = 1
      <4>1. n <= 1 BY <2>1, <3>1
      <4> QED BY <3>1, <4>1, OnlyOne
    <3>3. Len(Tail(handed[e])) = n - 1 /\ Tail(handed[e]) \in Seq(Frames)
      BY <1>2, <1>5, <3>1, HeadFrame
    <3>4. Len(Tail(handed[e])) = 0 BY <3>2, <3>3
    <3>5. \A q \in Seq(Frames) : q # <<>> => Len(q) # 0 BY EmptySeq
    <3> QED BY <3>3, <3>4, <3>5
  <2> QED BY <1>9, <2>2, StreamStill
<1>11. handed'[e] = <<>> /\ handed'[p] = handed[p] BY <1>1, <1>2 DEF TypeOK
<1>12. plainQueue'[p] = plainQueue[p] BY <1>2
<1> HIDE DEF frame
<1>13. /\ ReadPos(e)' = x /\ net'[e] = net[e]
       /\ FlowInv(e)' => OrderInv'
       /\ inbox' = inbox \/ Abstract!Deliver(e)
  BY <1>2, <1>6, <1>7, <1>9, <1>11, <1>12, OrderConsume
<1>14. FlowInv(e)' BY <1>3, <1>4, <1>8, <1>10, <1>11, <1>13, FlowTakeHanded
<1>15. Promised BY <1>3, <1>13 DEF Promised
<1> QED BY <1>13, <1>14, <1>15

\* A frame that leaves the wire without ending the channel.
LEMMA OrderPump ==
  ASSUME TypeOK, OrderInv, NEW e \in End, QueueInv(e), PumpCredit(e) \/ PumpData(e)
  PROVE  OrderInv' /\ UNCHANGED <<sent, inbox>>
<1> DEFINE p == Peer(e)
           frame == Head(net[e])
<1>1. p \in End /\ p # e BY PeerFacts
<1>2. FlowInv(e) /\ net[e] \in Seq(Frames) BY OrderFacts DEF OrderInv
<1>3. net \in [End -> Seq(Frames)] BY DEF TypeOK
<1>4. CASE PumpCredit(e)
  <2> DEFINE f == credited(flow[e], frame.body.amount)
             rest == [net EXCEPT ![e] = Tail(@)]
  <2>1. /\ Open(e) /\ net[e] # <<>> /\ frame.body.isCredit
        /\ SendCredit(e, StartReplies(flow[e]), 0, f, rest)
        /\ UNCHANGED <<ended, outbox, offset, sent, inbox, partial, handed, plainQueue>>
    BY <1>4 DEF PumpCredit, Pumping, readVars, asmVars
  <2>2. frame \in Frames /\ Tail(net[e]) \in Seq(Frames) BY <1>2, <2>1, HeadFrame
  <2>3. frame.body.amount \in Nat BY <2>2, FrameFields
  <2>4. f \in FlowType BY <2>3, CreditedFacts DEF Same, TypeOK
  <2>5. /\ rest \in [End -> Seq(Frames)] /\ rest[e] = Tail(net[e]) /\ rest[p] = net[p]
    BY <1>1, <1>3, <2>2
  <2>6. StartReplies(flow[e]) \in BOOLEAN BY DEF StartReplies
  <2> HIDE DEF f, rest, frame
  <2>7. /\ net'[e] = Tail(net[e])
        /\ \/ net'[p] = net[p]
           \/ \E x \in Frames : x.body.isCredit /\ net'[p] = Append(net[p], x)
    <3>1. 0 \in Nat OBVIOUS
    <3>2. /\ net'[e] = rest[e]
          /\ \/ net'[p] = rest[p]
             \/ \E x \in Frames : x.body.isCredit /\ net'[p] = Append(rest[p], x)
      BY <2>1, <2>4, <2>5, <2>6, <3>1, CreditWire, ZenonT(60)
    <3> QED BY <2>5, <3>2
  <2>8. FlowInv(e)' BY <1>2, <2>1, <2>7, FlowPump DEF frame
  <2> QED BY <2>1, <2>7, <2>8, OrderQuiet
<1>5. CASE PumpData(e)
  <2>1. /\ Open(e) /\ net[e] # <<>> /\ ~frame.body.isCredit
        /\ net' = [net EXCEPT ![e] = Tail(@)]
        /\ UNCHANGED <<ended, outbox, offset, sent, inbox, partial>>
    BY <1>5 DEF PumpData, Pumping, sendVars, asmVars
  <2>2. net'[e] = Tail(net[e]) /\ net'[p] = net[p] BY <1>1, <1>3, <2>1
  <2>3. /\ handed'[p] = handed[p] /\ plainQueue'[p] = plainQueue[p]
        /\ IF waiting[e]
           THEN handed'[e] = <<frame>> /\ plainQueue'[e] = plainQueue[e]
           ELSE handed'[e] = handed[e] /\ plainQueue'[e] = Append(plainQueue[e], frame)
    <3>1. CASE waiting[e] BY <1>1, <1>5, <3>1 DEF PumpData, TypeOK
    <3>2. CASE ~waiting[e] BY <1>1, <1>5, <3>2 DEF PumpData, TypeOK
    <3> QED BY <3>1, <3>2
  <2>4. FlowInv(e)' BY <1>2, <2>1, <2>2, <2>3, FlowPump
  <2> QED BY <2>1, <2>2, <2>3, <2>4, OrderQuiet
<1> QED BY <1>4, <1>5

\* Every step keeps the streams in order, and is one that MessageChannel allows.
LEMMA OrderStep ==
  ASSUME ChannelInv, OrderInv, [Next]_vars
  PROVE  OrderInv' /\ Promised
<1>1. TypeOK BY DEF ChannelInv
<1>2. \A e \in End : \A d \in End : d = e \/ d = Peer(e) BY DEF Peer, End
<1>3. \A e \in End : FlowInv(e) /\ OutInv(e) /\ ReadInv(e) BY DEF OrderInv
<1>4. \A e \in End : Peer(e) \in End /\ Peer(e) # e /\ Peer(Peer(e)) = e BY PeerFacts
<1>5. CASE FlowControl
  <2>1. PICK e \in End : e = "host" BY DEF End
  <2> DEFINE f == start(flow[e])
  <2>2. f \in FlowType BY <1>1, StartFacts DEF Same, TypeOK
  <2>3. /\ SendCredit(e, TRUE, 0, f, net)
        /\ UNCHANGED <<ended, outbox, offset, sent, inbox, partial, handed, plainQueue>>
    BY <1>5, <2>1 DEF FlowControl, sendVars, readVars, asmVars
  <2>4. net \in [End -> Seq(Frames)] BY <1>1 DEF TypeOK
  <2> HIDE DEF f
  <2>5. /\ net'[e] = net[e]
        /\ \/ net'[Peer(e)] = net[Peer(e)]
           \/ \E x \in Frames : x.body.isCredit /\ net'[Peer(e)] = Append(net[Peer(e)], x)
    BY <1>1, <2>2, <2>3, <2>4, CreditWire
  <2>6. Open(Peer(e))' => Open(Peer(e)) BY <2>3 DEF Open
  <2>7. FlowInv(e)' BY <1>1, <1>3, <2>3, <2>5, <2>6, FlowKeep
  <2>8. OrderInv' BY <1>1, <2>3, <2>5, <2>7, OrderQuiet
  <2> QED BY <2>3, <2>8 DEF Promised
<1>6. ASSUME NEW e \in End, SendFragment(e) PROVE OrderInv' /\ Promised
  <2> DEFINE p == Peer(e)
  <2>1. FlowInv(p)' /\ OutInv(e)'
    <3>1. p \in End /\ Peer(p) = e BY <1>4
    <3> HIDE DEF p
    <3>2. SendFragment(Peer(p)) /\ OutInv(Peer(p)) /\ FlowInv(p) BY <1>3, <1>6, <3>1
    <3>3. FlowInv(p)' /\ OutInv(Peer(p))' BY <1>1, <3>1, <3>2, FlowSend
    <3> QED BY <3>1, <3>3
  <2>2. /\ UNCHANGED <<ended, sent, inbox, partial, handed, plainQueue>>
        /\ outbox'[p] = outbox[p] /\ offset'[p] = offset[p] /\ net'[e] = net[e]
    BY <1>1, <1>4, <1>6 DEF SendFragment, Transmit, readVars, asmVars, TypeOK
  <2>3. Open(p)' => Open(p) BY <2>2 DEF Open
  <2>4. FlowInv(e)' BY <1>1, <1>3, <2>2, <2>3, FlowKeep
  <2>5. OutInv(p)' BY <1>3, <1>4, <2>2, OutSame
  <2>6. \A d \in End : ReadInv(d)' BY <1>3, <2>2, ReadSame
  <2>7. OrderInv' BY <1>2, <2>1, <2>4, <2>5, <2>6 DEF OrderInv
  <2> QED BY <2>2, <2>7 DEF Promised
<1>7. ASSUME NEW e \in End, Admit(e) PROVE OrderInv' /\ Promised
  <2> DEFINE p == Peer(e)
  <2>1. FlowInv(p)' /\ OutInv(e)' /\ Abstract!Send(e)
    <3>1. p \in End /\ Peer(p) = e BY <1>4
    <3> HIDE DEF p
    <3>2. Admit(Peer(p)) /\ OutInv(Peer(p)) /\ FlowInv(p) BY <1>3, <1>7, <3>1
    <3>3. FlowInv(p)' /\ OutInv(Peer(p))' /\ Abstract!Send(Peer(p))
      BY <1>1, <3>1, <3>2, FlowAdmit
    <3> QED BY <3>1, <3>3
  <2>2. /\ UNCHANGED <<ended, inbox, partial, handed, plainQueue, net, offset>>
        /\ outbox'[p] = outbox[p] /\ sent'[p] = sent[p]
    BY <1>1, <1>4, <1>7 DEF Admit, readVars, asmVars, wireVars, TypeOK
  <2>3. Open(p)' => Open(p) BY <2>2 DEF Open
  <2>4. FlowInv(e)' BY <1>1, <1>3, <2>2, <2>3, FlowKeep
  <2>5. OutInv(p)' BY <1>3, <1>4, <2>2, OutSame
  <2>6. \A d \in End : ReadInv(d)' BY <1>3, <2>2, ReadSame
  <2>7. OrderInv' BY <1>2, <2>1, <2>4, <2>5, <2>6 DEF OrderInv
  <2> QED BY <2>1, <2>7 DEF Promised
<1>8. ASSUME NEW e \in End, PumpCredit(e) \/ PumpData(e) PROVE OrderInv' /\ Promised
  <2>1. QueueInv(e) BY <1>8 DEF ChannelInv, Good, PumpCredit, PumpData, Pumping
  <2> QED BY <1>1, <1>8, <2>1, OrderPump DEF Promised
<1>9. ASSUME NEW e \in End, PumpFails(e) \/ Close(e) PROVE OrderInv' /\ Promised
  <2>1. PICK why : why # "open" /\ Finish(e, why) BY <1>9 DEF PumpFails, Close
  <2>2. UNCHANGED <<sent, handed, asmVars>> BY <1>9 DEF PumpFails, Close
  <2> QED BY <1>1, <2>1, <2>2, OrderFinish DEF Promised
<1>10. ASSUME NEW e \in End, ReadQueued(e) PROVE OrderInv' /\ Promised
  BY <1>1, <1>10, OrderReadQueued
<1>11. ASSUME NEW e \in End, ReadHanded(e) PROVE OrderInv' /\ Promised
  BY <1>1, <1>11, OrderReadHanded
<1>12. ASSUME UNCHANGED <<ended, outbox, offset, sent, inbox, partial, handed, plainQueue, net>>
       PROVE  OrderInv' /\ Promised
  <2>1. PICK e \in End : TRUE BY DEF End
  <2>2. Open(Peer(e))' => Open(Peer(e)) BY <1>12 DEF Open
  <2>3. FlowInv(e)' BY <1>1, <1>3, <1>12, <2>2, FlowKeep
  <2>4. OrderInv' BY <1>1, <1>12, <2>3, OrderQuiet
  <2> QED BY <1>12, <2>4 DEF Promised
<1>13. ASSUME NEW e \in End, Wait(e) \/ ReadWaits(e) PROVE OrderInv' /\ Promised
  <2>1. UNCHANGED <<ended, outbox, offset, sent, inbox, partial, handed, plainQueue, net>>
    BY <1>13 DEF Wait, ReadWaits, sendVars, readVars, wireVars, asmVars
  <2> QED BY <1>12, <2>1
<1>14. CASE UNCHANGED vars
  <2>1. UNCHANGED <<ended, outbox, offset, sent, inbox, partial, handed, plainQueue, net>>
    BY <1>14 DEF vars, sendVars, readVars, wireVars, asmVars
  <2> QED BY <1>12, <2>1
<1> QED BY <1>5, <1>6, <1>7, <1>8, <1>9, <1>10, <1>11, <1>13, <1>14 DEF Next

\* A channel starts with nothing sent, nothing read and nothing under way.
LEMMA OrderInit == Init => OrderInv
<1> SUFFICES ASSUME Init, NEW e \in End PROVE OutInv(e) /\ ReadInv(e) /\ FlowInv(e)
  BY DEF OrderInv
<1> DEFINE p == Peer(e)
<1>1. p \in End BY PeerFacts
<1>2. /\ sent[e] = <<>> /\ outbox[e] = <<>> /\ offset[e] = 0 /\ partial[e] = <<>>
      /\ inbox[e] = <<>> /\ handed[e] = <<>> /\ plainQueue[e] = <<>> /\ net[e] = <<>>
      /\ sent[p] = <<>> /\ outbox[p] = <<>> /\ offset[p] = 0
  BY <1>1 DEF Init
<1>3. Len(<<>>) = 0 OBVIOUS
<1>4. OutInv(e) /\ ReadInv(e) BY <1>2, <1>3 DEF OutInv, ReadInv
<1>5. PICK b : b = [msg |-> 1, frag |-> 1] OBVIOUS
<1>6. b \in Pos /\ ReadPos(e) = b /\ SendPos(p) = b BY <1>2, <1>3, <1>5 DEF Pos, ReadPos, SendPos
<1>7. Rest(e, b)
  <2>1. Stream(sent[p], p, <<>>, b, b) BY <1>6, StreamEmpty
  <2> QED BY <1>2, <1>6, <2>1 DEF Rest
<1>8. Stream(sent[p], p, handed[e], ReadPos(e), b) BY <1>2, <1>6, StreamEmpty
<1>9. FlowInv(e) BY <1>2, <1>3, <1>6, <1>7, <1>8 DEF FlowInv
<1> QED BY <1>4, <1>9

\* For every window, cost, queue size, rekey interval and set of messages, the channel
\* of channel.ts and portable-relay.ts implements MessageChannel: each end's reader gets
\* the messages of the other whole, once and in order, whatever credits are written
\* between their fragments, whoever waits, and whenever an end is closed.
THEOREM ChannelKeepsOrder == Spec => InOrder
<1> DEFINE Inv == ChannelInv /\ OrderInv
<1>1. Init => Inv BY ChannelInit, OrderInit
<1>2. Inv /\ [Next]_vars => Inv' BY ChannelStep, OrderStep
<1>3. Inv /\ [Next]_vars =>
        [\E e \in End : Abstract!Send(e) \/ Abstract!Deliver(e)]_<<sent, inbox>>
  BY OrderStep DEF Promised
<1>4. Init => Abstract!ChannelInit BY DEF Init, Abstract!ChannelInit
<1> QED BY <1>1, <1>2, <1>3, <1>4, PTL DEF Spec, InOrder, Abstract!ChannelSpec
=============================================================================
