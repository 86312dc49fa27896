----------------------------- MODULE EventStream -----------------------------
(***************************************************************************)
(* The event log with one client that follows one thread: the log and its  *)
(* buffer (LiveWrites), the daemon's end of a subscription                 *)
(* (subscription.ts, socket-reads.ts), the connection, and the client's    *)
(* replica (packages/client: subscriptions.ts, thread-store.ts).           *)
(*                                                                         *)
(* A step of the daemon hands its publications to the subscription before  *)
(* it returns.  Messages travel in order; a crash or a lost connection     *)
(* drops what the client has not received.  Left out: the window of items  *)
(* a snapshot carries, paced starts and the number of threads a client     *)
(* holds.                                                                  *)
(***************************************************************************)
EXTENDS LiveWrites, FiniteSets, Functions

CONSTANTS
  Watched,       \* the thread the client follows
  Batches,       \* what each thread's provider may stream at once: sequences of kinds
  ReplayLimit,   \* numbers a replay may span (5000)
  FrameEvents,   \* events one frame carries (1 MiB)
  Records,       \* the kinds each thread appends in a transaction of their own
  MaxPieces,     \* bound: pieces of text
  MaxRefusals,   \* bound: attempts to write that fail
  MaxFaults      \* bound: crashes, cuts, reloads, releases and deletions

Kinds == {"text", "item", "status"}

ASSUME EventStreamAssumption ==
  /\ Watched \in Threads
  /\ Batches \in [Threads -> SUBSET (Seq(Kinds) \ {<<>>})]
  /\ Records \in [Threads -> SUBSET {"item", "status"}]
  /\ {ReplayLimit, MaxPieces, MaxRefusals, MaxFaults} \subseteq Nat
  /\ FrameEvents \in Nat \ {0}

VARIABLES
  store,     \* the log and its buffer
  sub,       \* the daemon's subscription
  asks,      \* client messages the daemon has not read
  wire,      \* daemon messages the client has not received
  conn,      \* "open", "dead" (the daemon is gone) or "closed"
  client,    \* the client's entry for the thread and its replica
  ids,       \* subscriptions made so far
  left,      \* what is left of MaxRefusals and of MaxFaults
  made,      \* pieces of text produced
  said,      \* history: each thread's text in the order it was produced
  lost,      \* history: pieces a crash took before they were stored
  dropped,   \* history: pieces quarantined
  past       \* history: the watched thread's log before each failure

vars == <<store, sub, asks, wire, conn, client, ids, left, made, said, lost, dropped,
          past>>
ghosts == <<made, said, lost, dropped, past>>

NoSub == [on |-> FALSE, id |-> 0, cursor |-> 0, head |-> 0, timer |-> FALSE]

Init ==
  /\ store = EmptyStore
  /\ sub = NoSub
  /\ asks = <<>> /\ wire = <<>> /\ conn = "closed"
  /\ client = [held |-> TRUE, has |-> FALSE, view |-> <<>>, seq |-> 0, id |-> 0,
               allowed |-> TRUE, fresh |-> FALSE, resumed |-> -1, rejected |-> FALSE,
               syncing |-> FALSE]
  /\ ids = 0
  /\ left = [refusals |-> MaxRefusals, faults |-> MaxFaults]
  /\ made = 0
  /\ said = [t \in Threads |-> <<>>]
  /\ lost = {} /\ dropped = {} /\ past = {<<>>}

-----------------------------------------------------------------------------
(* The log as a reader sees it. *)

TextOf(events, t) ==
  LET mine == SelectSeq(events, LAMBDA e : e.thread = t)
  IN FlattenSeq([i \in DOMAIN mine |-> mine[i].text])

Stored(t) == TextOf(store.rows, t)
Shown == SelectSeq(store.buf, LAMBDA e : e.seq <= store.through)
Visible(t) == TextOf(store.rows, t) \o TextOf(Shown, t)

\* History: what the watched thread showed before these threads lost their tails.
Failed(threads) ==
  past' = past \cup IF Watched \in threads THEN {Visible(Watched)} \ {Stored(Watched)} ELSE {}

\* The buffered text of these threads, with the follow-ups it would have had.
Buffered(threads) ==
  LET pieces == UNION {Range(e.text) : e \in {d \in Range(store.buf) : d.thread \in threads}}
  IN pieces \cup {-p : p \in pieces}

-----------------------------------------------------------------------------
(* The daemon's end of a subscription (subscription.ts). *)

\* Frames stay contiguous: each covers up to its last event, the final one to head.
Frames(id, events, after, head) ==
  LET n == (Len(events) + FrameEvents - 1) \div FrameEvents
      part(i) == SubSeq(events, (i - 1) * FrameEvents + 1, Min({i * FrameEvents, Len(events)}))
      end(i) == IF i = 0 THEN after ELSE IF i = n THEN head ELSE Last(part(i)).seq
  IN [i \in 1..n |->
        [type |-> "events", id |-> id, after |-> end(i - 1), through |-> end(i),
         text |-> FlattenSeq([j \in DOMAIN part(i) |-> part(i)[j].text])]]

Progress(id, after, head) ==
  [type |-> "progress", id |-> id, after |-> after, through |-> head, text |-> <<>>]

\* deliver() for one publication; to: the subscription and the messages it has sent.
\* Mutant of Deliver: a publication for other threads moves the cursor silently.
DeliverSilently(to, events) ==
  LET d == to.sub
      head == Last(events).seq
      mine == SelectSeq(events, LAMBDA e : e.seq > d.cursor /\ e.thread = Watched)
  IN IF ~d.on \/ head <= d.cursor THEN to
     ELSE [sub |-> [d EXCEPT !.cursor = head, !.head = head],
           sent |-> to.sent \o Frames(d.id, mine, d.cursor, head)]
Deliver(to, events) ==
  LET d == to.sub
      head == Last(events).seq
      mine == SelectSeq(events, LAMBDA e : e.seq > d.cursor /\ e.thread = Watched)
  IN IF ~d.on \/ head <= d.cursor THEN to
     ELSE IF mine = <<>>
     THEN [to EXCEPT !.sub.head = Max({@, head}), !.sub.timer = TRUE]
     ELSE [sub |-> [d EXCEPT !.cursor = head, !.head = Max({@, head}), !.timer = FALSE],
           sent |-> to.sent \o Frames(d.id, mine, d.cursor, head)]

Spend(refusals, faults) ==
  /\ left.refusals >= refusals /\ left.faults >= faults
  /\ left' = [refusals |-> left.refusals - refusals, faults |-> left.faults - faults]

FailedWrite(s) == IF s.failed /\ s # store THEN 1 ELSE 0

\* The store after a step of the daemon: its publications have reached the listeners.
\* Mutant of Settle: a publication stays queued after its delivery.
SettleAgain(s) ==
  LET to == FoldLeft(Deliver, [sub |-> sub, sent |-> <<>>], s.out)
  IN store' = s /\ sub' = to.sub /\ wire' = wire \o to.sent
Settle(s) ==
  LET to == FoldLeft(Deliver, [sub |-> sub, sent |-> <<>>], s.out)
  IN /\ store' = [s EXCEPT !.out = <<>>]
     /\ sub' = to.sub
     /\ wire' = wire \o to.sent

\* subscribe() once pending writes are drained, in the two ways it can answer.
NeedsSnapshot(s, after) ==
  \/ after = -1
  \/ after > HeadSeq(s)
  \/ HeadSeq(s) - after > ReplayLimit
  \/ ~ReplaySafe(s, after)

Snapshot(s, id) ==
  <<[type |-> "snapshot", id |-> id, seq |-> HeadSeq(s), text |-> TextOf(s.rows, Watched)]>>

Replay(s, id, after) ==
  LET mine == SelectSeq(s.rows, LAMBDA r : r.thread = Watched /\ r.seq > after)
  IN IF HeadSeq(s) = after THEN <<>>
     ELSE IF mine = <<>> THEN <<Progress(id, after, HeadSeq(s))>>
     ELSE Frames(id, mine, after, HeadSeq(s))

Ready(id, seq) == [type |-> "ready", id |-> id, seq |-> seq]

-----------------------------------------------------------------------------
(* The client's replica (subscriptions.ts, thread-store.ts). *)

\* #subscribe(): fresh asks for a snapshot, a held cursor for a replay.
SubscribeAsk(c, id) ==
  [type |-> "subscribe", id |-> id, after |-> IF c.fresh \/ ~c.has THEN -1 ELSE c.seq]

Subscribed(c, id) ==
  [c EXCEPT !.id = id, !.allowed = TRUE, !.syncing = @ \/ c.has]

\* delivery(): what a frame of events or a progress message does to the replica.
Verdict(c, m) ==
  IF ~c.has THEN "gap"
  ELSE IF m.through <= c.seq THEN "ignored"
  ELSE IF m.after # c.seq THEN "gap"
  ELSE "applied"

\* receive(): wire ids fence what an earlier subscription sent.
\* Mutant of Received: a refused subscription stays asked for.
ReceivedErrorIgnored(c, m) ==
  CASE m.id # c.id \/ m.type = "error" -> c
    [] m.type = "ready" -> [c EXCEPT !.syncing = FALSE]
    [] m.type = "snapshot" ->
         IF ~c.allowed THEN c
         ELSE [c EXCEPT !.allowed = FALSE, !.fresh = FALSE, !.has = TRUE,
                        !.view = m.text, !.seq = m.seq, !.syncing = FALSE]
    [] m.type \in {"events", "progress"} ->
         IF Verdict(c, m) = "applied"
         THEN [c EXCEPT !.allowed = FALSE, !.view = @ \o m.text, !.seq = m.through]
         ELSE [c EXCEPT !.allowed = FALSE]
Received(c, m) ==
  CASE m.id # c.id -> c
    [] m.type = "ready" -> [c EXCEPT !.syncing = FALSE]
    [] m.type = "error" -> [c EXCEPT !.id = 0, !.rejected = TRUE, !.syncing = FALSE]
    [] m.type = "snapshot" ->
         IF ~c.allowed THEN c
         ELSE [c EXCEPT !.allowed = FALSE, !.fresh = FALSE, !.has = TRUE,
                        !.view = m.text, !.seq = m.seq, !.syncing = FALSE]
    [] OTHER ->
         CASE Verdict(c, m) = "ignored" -> [c EXCEPT !.allowed = FALSE]
           [] Verdict(c, m) = "applied" ->
                [c EXCEPT !.allowed = FALSE, !.view = @ \o m.text, !.seq = m.through]
           [] Verdict(c, m) = "gap" ->
                LET again == ~c.has \/ c.resumed = c.seq
                IN [c EXCEPT !.allowed = FALSE, !.id = 0, !.fresh = again,
                             !.resumed = IF again THEN -1 ELSE c.seq]

\* #pump(): a held thread without a subscription asks for one.
Pump(c, queue) ==
  IF conn' = "open" /\ c.held /\ ~c.rejected /\ c.id = 0
  THEN /\ ids' = ids + 1
       /\ client' = Subscribed(c, ids + 1)
       /\ asks' = Append(queue, SubscribeAsk(c, ids + 1))
  ELSE /\ client' = c
       /\ asks' = queue
       /\ UNCHANGED ids

Unsubscribe(c) ==
  IF conn = "open" /\ c.id # 0 THEN <<[type |-> "unsubscribe", id |-> c.id]>> ELSE <<>>

-----------------------------------------------------------------------------
(* Steps of the daemon. *)

clientSide == <<asks, conn, client, ids>>

\* The events of a batch, before they have numbers.
Events(t, kinds) ==
  [i \in DOMAIN kinds |->
     [seq |-> 0, thread |-> t, text |-> <<made + i>>, delta |-> kinds[i] = "text",
      follow |-> kinds[i] = "status"]]

\* The same text as an unbuffered append would log it.
Unbuffered(events) ==
  FlattenSeq([i \in DOMAIN events |->
                events[i].text \o IF events[i].follow THEN <<-Last(events[i].text)>> ELSE <<>>])

Say(t, events) == /\ said' = [said EXCEPT ![t] = @ \o Unbuffered(events)]
                  /\ made' = made + Len(events)

\* repository.stream(): a provider's facts go to the buffer; a store that cannot
\* take them now leaves them with the engine.
Stream(t, kinds, first, then) ==
  LET events == Events(t, kinds)
      ready == Admitted(store, first)
  IN /\ ~store.failed
     /\ made + Len(kinds) <= MaxPieces
     /\ IF ready.failed
        THEN Settle(ready) /\ UNCHANGED <<said, made>>
        ELSE Settle(AppendLive(ready, events, then)) /\ Say(t, events)
     /\ Spend(FailedWrite(store'), 0)
     /\ UNCHANGED <<clientSide, lost, dropped, past>>

\* appendEvents(): what is not streamed, in a transaction that drains the buffer.
Record(t, kind, how) ==
  LET events == Events(t, <<kind>>)
      drained == Flush(store, how)
  IN /\ ~store.failed
     /\ made < MaxPieces
     /\ IF drained.failed
        THEN Settle(drained) /\ UNCHANGED <<said, made>>
        ELSE Settle(AppendEvents(drained, events)) /\ Say(t, events)
     /\ Spend(FailedWrite(store'), 0)
     /\ UNCHANGED <<clientSide, lost, dropped, past>>

\* The buffer's timer: 75 ms after an append, or the backoff after a failure.
TryWrite(how) ==
  /\ store.buf # <<>>
  /\ ~(store.failed /\ store.strikes >= QuarantineAfter)
  /\ Settle(Attempt(store, how))
  /\ Spend(FailedWrite(store'), 0)
  /\ UNCHANGED <<clientSide, ghosts>>

Quarantine(bad, n) ==
  /\ store.failed /\ store.strikes >= QuarantineAfter
  /\ n <= Len(Shares(store)) /\ bad \subseteq Range(SubSeq(Shares(store), 1, n))
  /\ Settle(Isolate(store, bad, n))
  /\ Failed(bad)
  /\ dropped' = dropped \cup Buffered(bad)
  /\ UNCHANGED <<clientSide, left, said, made, lost>>

DeleteThread(t, how) ==
  LET drained == Flush(store, how)
  IN /\ ~store.failed
     /\ said[t] # <<>>
     /\ IF drained.failed
        THEN Settle(drained) /\ UNCHANGED said
        ELSE /\ Settle(DeleteRows(drained, t))
             /\ said' = [said EXCEPT ![t] = <<>>]
     /\ Spend(FailedWrite(store'), 1)
     /\ UNCHANGED <<clientSide, made, lost, dropped, past>>

\* The daemon dies and starts again: what was only buffered is gone.
Crash ==
  /\ Spend(0, 1)
  /\ store' = Recovered(store)
  /\ sub' = NoSub /\ asks' = <<>>
  /\ conn' = IF conn = "open" THEN "dead" ELSE conn
  /\ Failed(Threads)
  /\ lost' = lost \cup Buffered(Threads)
  /\ UNCHANGED <<wire, client, ids, said, made, dropped>>

\* flushProgress(): the coalesced progress timer.
Tick ==
  /\ sub.on /\ sub.timer
  /\ sub' = [sub EXCEPT !.timer = FALSE, !.cursor = Max({@, sub.head})]
  /\ wire' = IF sub.head <= sub.cursor THEN wire
             ELSE Append(wire, Progress(sub.id, sub.cursor, sub.head))
  /\ UNCHANGED <<store, clientSide, left, ghosts>>

\* The daemon reads "subscribe": large says that a replay would not fit its frames.
Serve(how, large) ==
  LET ask == Head(asks)
      drained == Flush(store, how)
      now == [drained EXCEPT !.out = <<>>]
      head == HeadSeq(now)
      snapshot == NeedsSnapshot(now, ask.after) \/ (large /\ head > ask.after)
  IN /\ asks # <<>> /\ Head(asks).type = "subscribe"
     /\ asks' = Tail(asks)
     /\ IF store.failed \/ drained.failed
        THEN /\ store' = IF store.failed THEN store ELSE now
             /\ sub' = NoSub
             /\ wire' = Append(wire, [type |-> "error", id |-> ask.id])
        ELSE /\ store' = now
             /\ sub' = [on |-> TRUE, id |-> ask.id, cursor |-> head, head |-> head,
                        timer |-> FALSE]
             /\ wire' = wire \o (IF snapshot THEN Snapshot(now, ask.id)
                                ELSE Replay(now, ask.id, ask.after))
                            \o <<Ready(ask.id, head)>>
     /\ Spend(FailedWrite(store'), 0)
     /\ UNCHANGED <<conn, client, ids, ghosts>>

Unserve ==
  /\ asks # <<>> /\ Head(asks).type = "unsubscribe"
  /\ asks' = Tail(asks)
  /\ sub' = IF sub.id = Head(asks).id THEN NoSub ELSE sub
  /\ UNCHANGED <<store, wire, conn, client, ids, left, ghosts>>

-----------------------------------------------------------------------------
(* Steps of the client and of the network. *)

Connect ==
  /\ conn = "closed" /\ conn' = "open"
  /\ Pump(client, <<>>)
  /\ UNCHANGED <<store, sub, wire, left, ghosts>>

Receive ==
  LET c == Received(client, Head(wire))
      gap == c.id = 0 /\ client.id # 0 /\ ~c.rejected
  IN /\ wire # <<>> /\ conn # "closed" /\ conn' = conn
     /\ wire' = Tail(wire)
     /\ Pump(c, asks \o IF gap THEN Unsubscribe(client) ELSE <<>>)
     /\ UNCHANGED <<store, sub, left, ghosts>>

Cut ==
  /\ sub' = NoSub /\ asks' = <<>> /\ wire' = <<>> /\ conn' = "closed"

Disconnect ==
  /\ conn # "closed"
  /\ conn = "open" => Spend(0, 1)
  /\ conn = "dead" => UNCHANGED left
  /\ Cut
  /\ client' = [client EXCEPT !.id = 0, !.rejected = FALSE,
                              !.syncing = @ \/ (client.held /\ client.has)]
  /\ UNCHANGED <<store, ids, ghosts>>

\* The client's process starts again from its disk copy of the thread.
Reload ==
  /\ Spend(0, 1)
  /\ Cut
  /\ client' = [client EXCEPT !.id = 0, !.rejected = FALSE, !.allowed = TRUE,
                              !.fresh = client.has, !.resumed = -1, !.syncing = client.has]
  /\ UNCHANGED <<store, ids, ghosts>>

Release ==
  /\ client.held /\ Spend(0, 1)
  /\ client' = [client EXCEPT !.held = FALSE, !.id = 0, !.syncing = @ \/ client.has]
  /\ asks' = asks \o Unsubscribe(client)
  /\ UNCHANGED <<store, sub, wire, conn, ids, ghosts>>

Acquire ==
  /\ ~client.held /\ conn' = conn
  /\ Pump([client EXCEPT !.held = TRUE, !.rejected = FALSE], asks)
  /\ UNCHANGED <<store, sub, wire, left, ghosts>>

-----------------------------------------------------------------------------
DaemonWork ==
  \/ \E how \in Outcomes : TryWrite(how)
  \/ \E bad \in SUBSET Threads, n \in 0..Cardinality(Threads) : Quarantine(bad, n)
  \/ Tick
  \/ \E how \in Outcomes, large \in BOOLEAN : Serve(how, large)
  \/ Unserve

Next ==
  \/ \E t \in Threads, first, then \in Outcomes : \E kinds \in Batches[t] :
       Stream(t, kinds, first, then)
  \/ \E t \in Threads, how \in Outcomes : \E kind \in Records[t] : Record(t, kind, how)
  \/ \E t \in Threads \ {Watched}, how \in Outcomes : DeleteThread(t, how)
  \/ DaemonWork
  \/ Crash
  \/ Connect \/ Receive \/ Disconnect \/ Reload \/ Release \/ Acquire

\* Contention ends: a batch that is tried again and again is stored, refused or split.
Settles == \/ TryWrite("stored")
           \/ \E bad \in SUBSET Threads : Quarantine(bad, Len(Shares(store)))

Serves == Unserve \/ \E how \in Outcomes, large \in BOOLEAN : Serve(how, large)

\* The daemon's timers run and it reads what it was sent; the client reconnects,
\* leaves a dead connection, opens the thread again and reads what it was sent.
\* Weak fairness of each, with the condition that enables it written out.
Fairness ==
  /\ []<>(store.buf = <<>>) \/ []<><<Settles>>_vars
  /\ []<>~(sub.on /\ sub.timer) \/ []<><<Tick>>_vars
  /\ []<>(asks = <<>>) \/ []<><<Serves>>_vars
  /\ []<>(conn # "closed") \/ []<><<Connect>>_vars
  /\ []<>(wire = <<>> \/ conn = "closed") \/ []<><<Receive>>_vars
  /\ []<>client.held \/ []<><<Acquire>>_vars
  /\ []<>(conn # "dead") \/ []<><<Disconnect>>_vars

Spec == Init /\ [][Next]_vars /\ Fairness

-----------------------------------------------------------------------------
EventType == [seq: Nat, thread: Threads, text: Seq(Int), delta: BOOLEAN, follow: BOOLEAN]

TypeOK ==
  /\ {store.rows, store.buf} \subseteq Seq(EventType)
  /\ {store.tomb, store.host, store.cursor, store.reserved, store.through, store.strikes,
      store.shown} \subseteq Nat
  /\ store.failed \in BOOLEAN /\ store.out = <<>>
  /\ sub \in [on: BOOLEAN, id: Nat, cursor: Nat, head: Nat, timer: BOOLEAN]
  /\ asks \in Seq([type: {"subscribe"}, id: Nat, after: Nat \cup {-1}]
                  \cup [type: {"unsubscribe"}, id: Nat])
  /\ conn \in {"open", "dead", "closed"}
  /\ client \in [held: BOOLEAN, has: BOOLEAN, view: Seq(Int), seq: Nat, id: 0..ids,
                 allowed: BOOLEAN, fresh: BOOLEAN, resumed: Nat \cup {-1},
                 rejected: BOOLEAN, syncing: BOOLEAN]
  /\ left \in [refusals: 0..MaxRefusals, faults: 0..MaxFaults]
  /\ made \in 0..MaxPieces

\* Storing changes nothing a reader of the log could tell: each thread's stored and
\* buffered text is what unbuffered appends would have left, each follow-up behind
\* its cause, except what a crash or a quarantine took.
LogIsUnbuffered ==
  \A t \in Threads :
    LET waiting == SelectSeq(store.buf, LAMBDA e : e.thread = t)
    IN Stored(t) \o Unbuffered(waiting)
         = SelectSeq(said[t], LAMBDA p : p \notin lost \cup dropped)

\* Once it has received what is on its way, a subscribed client's copy is the log as
\* everyone sees it now, apart from text that was shown and then quarantined.
ReplicaFollows ==
  LET then == FoldLeft(Received, client, wire)
      kept(p) == p \notin dropped
  IN sub.on /\ conn = "open" /\ sub.id = client.id =>
       SelectSeq(then.view, kept) = SelectSeq(Visible(Watched), kept)

\* "A cursor inside a compacted delta span needs a fresh snapshot to avoid double
\* append" (store.ts, replaySafe): no replay appends text the client already holds.
NoDoubleAppend == IsInjective(FoldLeft(Received, client, wire).view)

\* A client on an open connection is never sent a message that does not continue
\* what it holds.
NoGaps ==
  \A i \in DOMAIN wire :
    LET c == FoldLeft(Received, client, SubSeq(wire, 1, i - 1))
    IN wire[i].type \in {"events", "progress"} /\ wire[i].id = c.id =>
         Verdict(c, wire[i]) # "gap"

\* A number that was shown or stored is durable as used before anyone sees it.
NumbersReserved ==
  \A e \in Range(store.rows) \cup Range(Shown) : e.seq <= store.host

\* Left alone, the client ends up with the stored log, or knows that it was refused.
CatchesUp ==
  <>[](/\ store.buf = <<>>
       /\ \/ client.rejected
          \/ /\ ~client.syncing
             /\ SelectSeq(client.view, LAMBDA p : p \notin dropped) = Stored(Watched))
=============================================================================
