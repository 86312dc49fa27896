---------------------------- MODULE RelayChannel ----------------------------
(***************************************************************************)
(* The encrypted message channel between a daemon and a client through the *)
(* relay (apps/relay/src/channel.ts; packages/client/src/portable-relay.ts *)
(* for browsers and phones).  Messages are cut into fragments, each sealed *)
(* and written in order; credit fragments jump ahead of data that waits    *)
(* for window; the receiving end decrypts as frames arrive and queues data *)
(* for a reader that returns credit as it reads.                           *)
(*                                                                         *)
(* Abstracted: plaintext is the identity of a chunk and its length; a key  *)
(* is the number of rekeys behind it; the relay and both sockets are one   *)
(* FIFO per direction that a close cuts.                                   *)
(***************************************************************************)
EXTENDS FlowCredit, Sequences

CONSTANTS
  PortableEnds,      \* ends that run portable-relay.ts; the others run channel.ts
  FULL,              \* plaintext length of a fragment that is not the last of its message
  PLAIN_HIGH_WATER,  \* channel.ts stops reading the socket past this
  QUEUE_COUNT,       \* portable-relay.ts closes past this many queued fragments
  QUEUE_BYTES,       \* ... or this many queued bytes
  PENDING_LIMIT,     \* bytes admitted to the send chain and not yet written
  REKEY_INTERVAL,    \* fragments per key, credits included
  Shapes,            \* the messages an end may send: [kind, full, tail]
  MaxMessages        \* bound: how many messages each end sends

End == {"host", "client"}
Peer(e) == IF e = "host" THEN "client" ELSE "host"
Kinds == {"json", "binary", "deflated"}

ASSUME ChannelAssumption ==
  /\ PortableEnds \subseteq {"client"}
  /\ FULL \in Nat \ {0}
  /\ PLAIN_HIGH_WATER \in Nat /\ QUEUE_COUNT \in Nat /\ QUEUE_BYTES \in Nat
  /\ PENDING_LIMIT \in Nat
  /\ REKEY_INTERVAL \in Nat \ {0}
  /\ Shapes \subseteq [kind: Kinds, full: Nat, tail: 2..FULL]
  /\ MaxMessages \in [End -> Nat]

\* The portable client's queue holds a window: 256 fragments of at least 4 KiB,
\* and 1 MiB.
ASSUME QueueAssumption ==
  FLOW_WINDOW <= QUEUE_COUNT * MIN_COST /\ FLOW_WINDOW <= QUEUE_BYTES

VARIABLES
  asks,          \* the client's hello has flowControl: ["credit"]
  \* One end's channel state.
  ended,         \* "open", or why end() / close() ran
  flow,          \* its FlowCredit
  outbox,        \* messages on the `sending` chain, the head being written
  offset,        \* fragments of the head message already written
  asleep,        \* the head fragment waits in creditWaiters
  pendingBytes,  \* bytes admitted and not yet written
  sendCount,     \* fragments sealed
  receiveCount,  \* fragments decrypted
  plainQueue,    \* data fragments decrypted and not yet read
  plainBytes,    \* their length
  waiting,       \* the reader waits for the pump
  handed,        \* the fragment the pump resolved its wait with, if not yet read
  parked,        \* the pump waits for the reader (channel.ts)
  partial,       \* fragments of the message being reassembled
  inbox,         \* whole messages the reader got, as sequences of chunks
  \* Between the ends.
  net,           \* frames on their way to an end
  \* History, for the properties only.
  sent,          \* messages each end admitted, as sequences of chunks
  sealed,        \* counted cost and credit an end has sealed, in total
  seen,          \* the totals stamped on the last frame it decrypted
  taken          \* the counted cost its reader has taken, in total

sendVars == <<outbox, offset, asleep, pendingBytes, sent>>
readVars == <<plainQueue, plainBytes, waiting, handed, parked>>
wireVars == <<net, sendCount, sealed>>
asmVars  == <<partial, inbox>>
vars == <<asks, ended, flow, sendVars, readVars, wireVars, asmVars, receiveCount, seen, taken>>

Open(e) == ended[e] = "open"

-----------------------------------------------------------------------------
(* Messages and fragments. *)

Size(shape) == shape.full * (FULL - 1) + shape.tail - 1
Chunk(e, n, i) == [end |-> e, n |-> n, i |-> i]
Chunks(e, m) == [i \in 1..(m.full + 1) |-> Chunk(e, m.n, i)]
\* Mutant: the last fragment's length is taken from the wrong multiple.
PlainLengthMisplaced(m, i) == IF i <= m.full THEN FULL ELSE Size(m) - i * FULL

PlainLength(m, i) == IF i <= m.full THEN FULL ELSE m.tail

\* A sealed fragment.  key stands for the key it is encrypted under; lim, data
\* and credit are history: whether the sender was limited, and its totals once
\* the fragment was sealed.
Sealed(e, f, total, body) ==
  [body |-> body, key |-> sendCount[e] \div REKEY_INTERVAL,
   lim |-> f.limited, data |-> total.data, credit |-> total.credit]

CreditBody(amount) ==
  [isCredit |-> TRUE, amount |-> amount, chunk |-> Chunk("host", 0, 0), kind |-> "json",
   last |-> FALSE, length |-> 5]

DataBody(e, m, i) ==
  [isCredit |-> FALSE, amount |-> 0, chunk |-> Chunk(e, m.n, i), kind |-> m.kind,
   last |-> i = m.full + 1, length |-> PlainLength(m, i)]

Cost(frame) == fragmentCost(frame.body.length)

\* seal() and the write after it.  f is the end's FlowCredit by then, total its
\* totals; what is written to an end that is gone is lost.
Transmit(e, f, total, body, network) ==
  /\ sendCount' = [sendCount EXCEPT ![e] = @ + 1]
  /\ sealed' = [sealed EXCEPT ![e] = total]
  /\ net' = IF Open(Peer(e))
            THEN [network EXCEPT ![Peer(e)] = Append(@, Sealed(e, f, total, body))]
            ELSE network

\* sendCredit(): nothing to send, or a credit written at once.
SendCredit(e, replies, amount, f, network) ==
  IF replies
  THEN Transmit(e, f, [sealed[e] EXCEPT !.credit = @ + amount], CreditBody(amount), network)
  ELSE sendCount' = sendCount /\ sealed' = sealed /\ net' = network

\* end() / close(): queues are dropped, waiters woken or rejected.  A fragment
\* already handed to the reader is still read.
Finish(e, why) ==
  /\ ended' = [ended EXCEPT ![e] = why]
  /\ net' = [net EXCEPT ![e] = <<>>]
  /\ plainQueue' = [plainQueue EXCEPT ![e] = <<>>]
  /\ plainBytes' = [plainBytes EXCEPT ![e] = 0]
  /\ waiting' = [waiting EXCEPT ![e] = FALSE]
  /\ parked' = [parked EXCEPT ![e] = FALSE]
  /\ outbox' = [outbox EXCEPT ![e] = <<>>]
  /\ offset' = [offset EXCEPT ![e] = 0]
  /\ asleep' = [asleep EXCEPT ![e] = FALSE]
  /\ pendingBytes' = [pendingBytes EXCEPT ![e] = 0]

-----------------------------------------------------------------------------
(* Sending. *)

\* Mutant: the host answers a hello before it turns flow control on.
MaySendEarly(e) == e = "host" => inbox["host"] # <<>>

\* The host reads the client's hello before it writes, and turns flow control
\* on first for a client that asked.
MaySend(e) == e = "host" => inbox["host"] # <<>> /\ (asks => flow["host"].limited)

\* sendData() / sendBody(): admit a message to the chain.  A message past the
\* pending limit is rejected and changes nothing.
Admit(e) == \E shape \in Shapes :
  LET m == [kind |-> shape.kind, full |-> shape.full, tail |-> shape.tail,
            n |-> Len(sent[e]) + 1]
  IN  /\ Open(e) /\ MaySend(e) /\ Len(sent[e]) < MaxMessages[e]
      /\ e \in PortableEnds => shape.kind = "json"
      /\ pendingBytes[e] + Size(shape) <= PENDING_LIMIT
      /\ pendingBytes' = [pendingBytes EXCEPT ![e] = @ + Size(shape)]
      /\ outbox' = [outbox EXCEPT ![e] = Append(@, m)]
      /\ sent' = [sent EXCEPT ![e] = Append(@, Chunks(e, m))]
      /\ UNCHANGED <<asks, ended, flow, offset, asleep, readVars, wireVars, asmVars,
                     receiveCount, seen, taken>>

NextLength(e) == PlainLength(Head(outbox[e]), offset[e] + 1)
NextCost(e) == fragmentCost(NextLength(e))

\* The head fragment finds no window and waits for credit.
Wait(e) ==
  /\ Open(e) /\ outbox[e] # <<>> /\ ~asleep[e]
  /\ ~allows(flow[e], NextCost(e))
  /\ asleep' = [asleep EXCEPT ![e] = TRUE]
  /\ UNCHANGED <<asks, ended, flow, outbox, offset, pendingBytes, sent, readVars, wireVars,
                 asmVars, receiveCount, seen, taken>>

\* The head fragment is spent, sealed and written in one turn.
SendFragment(e) ==
  LET m == Head(outbox[e])
      i == offset[e] + 1
      f == spend(flow[e], NextCost(e))
      total == IF flow[e].limited THEN [sealed[e] EXCEPT !.data = @ + NextCost(e)]
               ELSE sealed[e]
      done == i = m.full + 1
  IN  /\ Open(e) /\ outbox[e] # <<>> /\ ~asleep[e]
      /\ allows(flow[e], NextCost(e))
      /\ flow' = [flow EXCEPT ![e] = f]
      /\ Transmit(e, f, total, DataBody(e, m, i), net)
      /\ offset' = [offset EXCEPT ![e] = IF done THEN 0 ELSE i]
      /\ outbox' = [outbox EXCEPT ![e] = IF done THEN Tail(@) ELSE @]
      /\ pendingBytes' = [pendingBytes EXCEPT ![e] = IF done THEN @ - Size(m) ELSE @]
      /\ UNCHANGED <<asks, ended, asleep, sent, readVars, asmVars, receiveCount, seen, taken>>

\* The daemon turns flow control on once it has read a hello that asks for it.
FlowControl ==
  LET f == start(flow["host"])
  IN  /\ Open("host") /\ asks /\ inbox["host"] # <<>>
      /\ StartReplies(flow["host"])
      /\ flow' = [flow EXCEPT !["host"] = f]
      /\ SendCredit("host", TRUE, 0, f, net)
      /\ UNCHANGED <<asks, ended, sendVars, readVars, asmVars, receiveCount, seen, taken>>

-----------------------------------------------------------------------------
(* Receiving. *)

\* Mutant: the receiver rekeys one fragment early.
ReceiveKeyEarly(e) == (receiveCount[e] + 1) \div REKEY_INTERVAL

\* The key the next frame is opened with.
ReceiveKey(e) == receiveCount[e] \div REKEY_INTERVAL

\* readCredit() accepts the amount.
CreditOk(body) == body.amount <= FLOW_WINDOW

QueueFull(e, frame) ==
  /\ e \in PortableEnds
  /\ \/ Len(plainQueue[e]) >= QUEUE_COUNT
     \/ plainBytes[e] + frame.body.length > QUEUE_BYTES

\* Why the pump ends the channel on a frame, or "open" when it takes it.
Verdict(e, frame) ==
  IF frame.key # ReceiveKey(e) THEN "decrypt"
  ELSE IF frame.body.isCredit THEN IF CreditOk(frame.body) THEN "open" ELSE "credit"
  ELSE IF ~WithinWindow(flow[e], Cost(frame)) THEN "overrun"
  ELSE IF QueueFull(e, frame) THEN "queue"
  ELSE "open"

\* The pump of channel.ts and accept() of portable-relay.ts, one frame each.
Pumping(e) == Open(e) /\ ~parked[e] /\ net[e] # <<>>

Decrypted(e) ==
  /\ receiveCount' = [receiveCount EXCEPT ![e] = @ + 1]
  /\ seen' = [seen EXCEPT ![e] = [data |-> Head(net[e]).data, credit |-> Head(net[e]).credit]]

\* Mutant: credit arrives and the sender that waits for it is not woken.
PumpCreditSilent(e) ==
  LET frame == Head(net[e])
      amount == frame.body.amount
      f == credited(flow[e], amount)
  IN  /\ Pumping(e) /\ frame.body.isCredit /\ Verdict(e, frame) = "open"
      /\ Decrypted(e)
      /\ flow' = [flow EXCEPT ![e] = f]
      /\ SendCredit(e, StartReplies(flow[e]), 0, f, [net EXCEPT ![e] = Tail(@)])
      /\ UNCHANGED <<asks, ended, sendVars, readVars, asmVars, taken>>

PumpCredit(e) ==
  LET frame == Head(net[e])
      amount == frame.body.amount
      f == credited(flow[e], amount)
  IN  /\ Pumping(e) /\ frame.body.isCredit /\ Verdict(e, frame) = "open"
      /\ Decrypted(e)
      /\ flow' = [flow EXCEPT ![e] = f]
      /\ SendCredit(e, StartReplies(flow[e]), 0, f, [net EXCEPT ![e] = Tail(@)])
      /\ asleep' = [asleep EXCEPT ![e] = FALSE]
      /\ UNCHANGED <<asks, ended, outbox, offset, pendingBytes, sent, readVars, asmVars, taken>>

PumpData(e) ==
  LET frame == Head(net[e])
  IN  /\ Pumping(e) /\ ~frame.body.isCredit /\ Verdict(e, frame) = "open"
      /\ Decrypted(e)
      /\ net' = [net EXCEPT ![e] = Tail(@)]
      /\ flow' = [flow EXCEPT ![e] = received(@, Cost(frame))]
      /\ IF waiting[e]
         THEN /\ waiting' = [waiting EXCEPT ![e] = FALSE]
              /\ handed' = [handed EXCEPT ![e] = <<frame>>]
              /\ UNCHANGED <<plainQueue, plainBytes, parked>>
         ELSE /\ plainQueue' = [plainQueue EXCEPT ![e] = Append(@, frame)]
              /\ plainBytes' = [plainBytes EXCEPT ![e] = @ + frame.body.length]
              /\ parked' = [parked EXCEPT ![e] =
                   /\ e \notin PortableEnds /\ ~flow[e].counting
                   /\ plainBytes[e] + frame.body.length >= PLAIN_HIGH_WATER]
              /\ UNCHANGED <<waiting, handed>>
      /\ UNCHANGED <<asks, ended, sendVars, asmVars, sendCount, sealed, taken>>

PumpFails(e) ==
  /\ Pumping(e) /\ Verdict(e, Head(net[e])) # "open"
  /\ Finish(e, Verdict(e, Head(net[e])))
  /\ UNCHANGED <<asks, flow, sent, handed, asmVars, sendCount, sealed, receiveCount, seen, taken>>

\* receivePayload() with a fragment in hand: join it to its message.  Its checks
\* on flags, kinds and sizes refuse nothing that SendFragment writes.
Reassemble(e, frame) ==
  LET joined == Append(partial[e], frame.body.chunk)
  IN  IF frame.body.last
      THEN /\ inbox' = [inbox EXCEPT ![e] = Append(@, joined)]
           /\ partial' = [partial EXCEPT ![e] = <<>>]
      ELSE /\ partial' = [partial EXCEPT ![e] = joined]
           /\ inbox' = inbox

\* nextPlain() returns a fragment to the reader, and its credit if enough is owed.
Consume(e, frame) ==
  LET due == CreditDue(flow[e], Cost(frame))
      f == consumed(flow[e], Cost(frame))
  IN  /\ flow' = [flow EXCEPT ![e] = f]
      /\ taken' = [taken EXCEPT ![e] = frame.data]
      /\ SendCredit(e, due > 0 /\ Open(e), due, f, net)
      /\ Reassemble(e, frame)

\* Mutant: a second read starts while a fragment handed over is not yet read.
ReaderFreeEarly(e) == ~waiting[e]

\* receivePayload() admits one read at a time.
ReaderFree(e) == ~waiting[e] /\ handed[e] = <<>>

\* The reader asks while a fragment is queued.
ReadQueued(e) ==
  LET frame == Head(plainQueue[e])
      left == plainBytes[e] - frame.body.length
  IN  /\ ReaderFree(e) /\ plainQueue[e] # <<>>
      /\ Consume(e, frame)
      /\ plainQueue' = [plainQueue EXCEPT ![e] = Tail(@)]
      /\ plainBytes' = [plainBytes EXCEPT ![e] = left]
      /\ parked' = [parked EXCEPT ![e] = @ /\ ~(2 * left < PLAIN_HIGH_WATER)]
      /\ UNCHANGED <<asks, ended, sendVars, waiting, handed, receiveCount, seen>>

\* The reader asks and must wait for the pump.
ReadWaits(e) ==
  /\ Open(e) /\ ReaderFree(e) /\ plainQueue[e] = <<>>
  /\ waiting' = [waiting EXCEPT ![e] = TRUE]
  /\ UNCHANGED <<asks, ended, flow, sendVars, handed, plainQueue, plainBytes, parked, wireVars,
                 asmVars, receiveCount, seen, taken>>

\* The reader resumes with the fragment the pump handed it, even past end().
ReadHanded(e) ==
  /\ handed[e] # <<>>
  /\ Consume(e, Head(handed[e]))
  /\ handed' = [handed EXCEPT ![e] = <<>>]
  /\ UNCHANGED <<asks, ended, sendVars, waiting, plainQueue, plainBytes, parked, receiveCount, seen>>

\* Either end closes, or its socket does.
Close(e) ==
  /\ Open(e)
  /\ Finish(e, "closed")
  /\ UNCHANGED <<asks, flow, sent, handed, asmVars, sendCount, sealed, receiveCount, seen, taken>>

-----------------------------------------------------------------------------
Init ==
  /\ asks \in BOOLEAN
  /\ ended = [e \in End |-> "open"]
  /\ flow = [e \in End |-> NewFlow]
  /\ outbox = [e \in End |-> <<>>]
  /\ offset = [e \in End |-> 0]
  /\ asleep = [e \in End |-> FALSE]
  /\ pendingBytes = [e \in End |-> 0]
  /\ sendCount = [e \in End |-> 0]
  /\ receiveCount = [e \in End |-> 0]
  /\ plainQueue = [e \in End |-> <<>>]
  /\ plainBytes = [e \in End |-> 0]
  /\ waiting = [e \in End |-> FALSE]
  /\ handed = [e \in End |-> <<>>]
  /\ parked = [e \in End |-> FALSE]
  /\ partial = [e \in End |-> <<>>]
  /\ inbox = [e \in End |-> <<>>]
  /\ net = [e \in End |-> <<>>]
  /\ sent = [e \in End |-> <<>>]
  /\ sealed = [e \in End |-> [data |-> 0, credit |-> 0]]
  /\ seen = [e \in End |-> [data |-> 0, credit |-> 0]]
  /\ taken = [e \in End |-> 0]

Next ==
  \/ FlowControl
  \/ \E e \in End :
       \/ Admit(e) \/ Wait(e) \/ SendFragment(e)
       \/ PumpCredit(e) \/ PumpData(e) \/ PumpFails(e)
       \/ ReadQueued(e) \/ ReadWaits(e) \/ ReadHanded(e)
       \/ Close(e)

Spec == Init /\ [][Next]_vars

\* The sockets deliver, each end's reader loop keeps reading, the chain of
\* sends advances whenever it may, and the daemon acts on a hello it has read.
Fairness ==
  /\ WF_vars(FlowControl)
  /\ \A e \in End :
       /\ WF_vars(SendFragment(e))
       /\ WF_vars(PumpCredit(e) \/ PumpData(e) \/ PumpFails(e))
       /\ WF_vars(ReadQueued(e) \/ ReadWaits(e) \/ ReadHanded(e))

FairSpec == Spec /\ Fairness
-----------------------------------------------------------------------------
(* What makes the channel correct. *)

Reasons == {"open", "closed", "decrypt", "credit", "overrun", "queue"}
Messages == [kind: Kinds, full: Nat, tail: 2..FULL, n: Nat]
ChunkIds == [end: End, n: Nat, i: Nat]
Bodies == [isCredit: BOOLEAN, amount: Nat, chunk: ChunkIds, kind: Kinds,
           last: BOOLEAN, length: Nat]
Frames == [body: Bodies, key: Int, lim: BOOLEAN, data: Nat, credit: Nat]
Totals == [data: Nat, credit: Nat]

\* Every variable keeps its type.
TypeOK ==
  /\ asks \in BOOLEAN
  /\ ended \in [End -> Reasons]
  /\ flow \in [End -> FlowType]
  /\ outbox \in [End -> Seq(Messages)]
  /\ offset \in [End -> Nat]
  /\ asleep \in [End -> BOOLEAN]
  /\ pendingBytes \in [End -> Int] /\ plainBytes \in [End -> Int]
  /\ sendCount \in [End -> Nat] /\ receiveCount \in [End -> Nat]
  /\ plainQueue \in [End -> Seq(Frames)]
  /\ waiting \in [End -> BOOLEAN]
  /\ handed \in [End -> Seq(Frames)]
  /\ parked \in [End -> BOOLEAN]
  /\ net \in [End -> Seq(Frames)]
  /\ partial \in [End -> Seq(ChunkIds)]
  /\ sent \in [End -> Seq(Seq(ChunkIds))] /\ inbox \in [End -> Seq(Seq(ChunkIds))]
  /\ sealed \in [End -> Totals]
  /\ seen \in [End -> Totals]
  /\ taken \in [End -> Nat]

\* An end that keeps to its own accounting is never refused by its peer: no data
\* fragment overruns the window the peer counts, and no credit exceeds it.
WindowHonoured == \A e \in End : ended[e] \notin {"overrun", "credit"}

\* Both ends rekey at the same fragment, credits counted, whatever the order in
\* which credits and data were written.
KeysInStep == \A e \in End : ended[e] # "decrypt"

\* A flow controlled portable client never drops the connection because its own
\* queue of 256 fragments or 1 MiB is full.
QueueFits == asks => \A e \in End : ended[e] # "queue"

\* ADR 0110: each end sends at most a window its peer has not consumed, so that
\* is all the relay and the peer's queue can be made to hold.
InFlightBounded ==
  \A e \in End : Open(e) => sealed[Peer(e)].data - taken[e] <= FLOW_WINDOW

\* What an end may say: the chunks of a message of one of the shapes.
Payload == UNION {{Chunks(e, m) : m \in [full: {s.full : s \in Shapes}, n: 1..MaxMessages[e]]} :
                    e \in End}

Abstract == INSTANCE MessageChannel WITH sent <- sent, inbox <- inbox

\* Messages reach the other end's reader whole, once and in order.
InOrder == Abstract!ChannelSpec

-----------------------------------------------------------------------------
(* The inductive invariant behind WindowHonoured and InFlightBounded: every  *)
(* counter of a FlowCredit is a difference of the history totals.            *)

\* What a frame to e follows: the one ahead of it, or what e has decrypted.
Before(e, i) ==
  IF i = 1
  THEN [lim |-> flow[e].counting, data |-> seen[e].data, credit |-> seen[e].credit]
  ELSE [lim |-> net[e][i-1].lim, data |-> net[e][i-1].data, credit |-> net[e][i-1].credit]

\* A frame stamps what it adds to the totals ahead of it.
FrameInv(e, i) ==
  /\ net[e][i].body.isCredit =>
       /\ net[e][i].body.amount <= FLOW_WINDOW
       /\ net[e][i].lim
       /\ net[e][i].data = Before(e, i).data
       /\ net[e][i].credit = Before(e, i).credit + net[e][i].body.amount
  /\ ~net[e][i].body.isCredit =>
       /\ net[e][i].lim <=> Before(e, i).lim
       /\ net[e][i].credit = Before(e, i).credit
       /\ net[e][i].data = Before(e, i).data
                            + IF net[e][i].lim THEN Cost(net[e][i]) ELSE 0
  /\ ~net[e][i].lim => net[e][i].data = 0

\* The frames under way to e continue its totals up to its peer's.
WireInv(e) ==
  /\ \A i \in 1..Len(net[e]) : FrameInv(e, i)
  /\ \A i, j \in 1..Len(net[e]) : i <= j =>
       /\ net[e][i].data <= net[e][j].data
       /\ net[e][i].credit <= net[e][j].credit
       /\ net[e][i].lim => net[e][j].lim
  /\ LET last == Before(e, Len(net[e]) + 1)
     IN  /\ last.data = sealed[Peer(e)].data
         /\ last.credit = sealed[Peer(e)].credit
         /\ last.lim <=> flow[Peer(e)].limited

\* What a queued fragment follows: the one ahead of it, or what was taken.
Ahead(e, i) ==
  IF i > 1 THEN plainQueue[e][i-1].data
  ELSE IF handed[e] # <<>> THEN handed[e][1].data ELSE taken[e]

\* A fragment stamps what it adds to what is ahead of it; those that predate
\* the peer's start are ahead of the counted ones.
QueuedInv(e, i) ==
  /\ plainQueue[e][i].data =
       Ahead(e, i) + IF plainQueue[e][i].lim THEN Cost(plainQueue[e][i]) ELSE 0
  /\ plainQueue[e][i].lim <=> flow[e].uncounted < i + Len(handed[e]) /\ flow[e].counting
  /\ plainQueue[e][i].data <= seen[e].data

HandedInv(e) ==
  handed[e] # <<>> =>
    /\ handed[e][1].data = taken[e] + IF handed[e][1].lim THEN Cost(handed[e][1]) ELSE 0
    /\ handed[e][1].lim <=> flow[e].uncounted = 0 /\ flow[e].counting
    /\ handed[e][1].data <= seen[e].data

\* The fragments for e's reader run from what it has taken to what e has seen.
QueueInv(e) ==
  /\ Len(handed[e]) <= 1
  /\ waiting[e] => plainQueue[e] = <<>> /\ handed[e] = <<>>
  /\ flow[e].queued = Len(plainQueue[e]) + Len(handed[e])
  /\ flow[e].uncounted \in 0..flow[e].queued
  /\ HandedInv(e)
  /\ \A i \in 1..Len(plainQueue[e]) : QueuedInv(e, i)
  /\ Ahead(e, Len(plainQueue[e]) + 1) = seen[e].data

\* What an open end's own counters mean.
CountInv(e) ==
  /\ ~flow[e].counting => seen[e].data = 0 /\ seen[e].credit = 0 /\ flow[e].uncounted = 0
  /\ flow[e].unacked = seen[e].data - sealed[e].credit
  /\ flow[e].owed = taken[e] - sealed[e].credit
  /\ flow[e].owed >= 0

\* What holds of an end even once it has ended.
EndInv(e) ==
  /\ ended[e] \notin {"overrun", "credit"}
  /\ flow[e].counting => flow[e].limited /\ flow[Peer(e)].limited
  /\ IF flow[e].limited
     THEN flow[e].window = FLOW_WINDOW - sealed[e].data + seen[e].credit /\ flow[e].window >= 0
     ELSE sealed[e].data = 0 /\ sealed[e].credit = 0 /\ seen[e].credit = 0
  /\ seen[e].data <= sealed[Peer(e)].data
  /\ seen[e].credit <= sealed[Peer(e)].credit

Good(e) == EndInv(e) /\ (Open(e) => WireInv(e) /\ QueueInv(e) /\ CountInv(e))

ChannelInv == TypeOK /\ \A e \in End : Good(e)

-----------------------------------------------------------------------------
(* The inductive invariants behind KeysInStep and QueueFits.                 *)

\* The frames under way to e are sealed under the keys its count will reach, and
\* they end where its peer's count stands.
KeyInv(e) ==
  /\ ended[e] # "decrypt"
  /\ Open(e) =>
       /\ \A i \in 1..Len(net[e]) :
            net[e][i].key = (receiveCount[e] + i - 1) \div REKEY_INTERVAL
       /\ receiveCount[e] + Len(net[e]) = sendCount[Peer(e)]

\* A client that asked gets no data fragment that was not counted.
CountedFrames(q) == \A i \in 1..Len(q) : ~q[i].body.isCredit => q[i].lim

AllCounted ==
  asks => /\ outbox["host"] # <<>> => flow["host"].limited
          /\ CountedFrames(net["client"])

\* bytes[i] is what the queued fragments from the i-th on hold.  They hold no more
\* than they cost, and each costs at least MIN_COST.
Holds(e, bytes) ==
  LET n == Len(plainQueue[e])
  IN  /\ bytes[1] = plainBytes[e] /\ bytes[n+1] = 0
      /\ \A i \in 1..n : bytes[i] = bytes[i+1] + plainQueue[e][i].body.length
      /\ \A i \in 1..(n+1) : /\ bytes[i] <= seen[e].data - Ahead(e, i)
                             /\ (n + 1 - i) * MIN_COST <= seen[e].data - Ahead(e, i)

Room(e) == \E bytes \in [1..(Len(plainQueue[e]) + 1) -> Int] : Holds(e, bytes)

RoomInv ==
  /\ asks => \A e \in End : ended[e] # "queue"
  /\ AllCounted
  /\ asks /\ Open("client") => Room("client")
=============================================================================
