------------------------------- MODULE Outbox -------------------------------
(***************************************************************************)
(* One device's durable commands on one thread, from the person's tap to   *)
(* the daemon's receipt: the client's outbox (packages/client, intents.ts, *)
(* command-status.ts and what client-core.ts and connection.ts do to them) *)
(* over paths that are cut, replaced or drained, and the daemon's          *)
(* admission, lane and receipts (socket-commands.ts, command-lanes.ts,     *)
(* command-receipts.ts, command-status.ts).                                *)
(*                                                                         *)
(* Commands are numbered in the order they are issued.  A path that the    *)
(* client has left may still bring the daemon commands it carried.  Left   *)
(* out: edited, reopened and evicted records, notices that the engine did  *)
(* not send an input, records of other devices, the daemon's cap on        *)
(* commands per socket, and a status request for several commands at once. *)
(***************************************************************************)
EXTENDS Integers, Sequences, SequencesExt, FiniteSets, FiniteSetsExt

CONSTANTS
  MaxCommands,   \* how many commands are issued
  MaxPaths,      \* paths that exist at one time, those left behind included
  Window,        \* commands in flight at a time (8 in the code)
  MaxRetries,    \* refusals after which a command fails (10 in the code)
  MaxEvents      \* disturbances: lost connections, switches, crashes, failed writes,
                 \* refusals by the daemon, status requests and transcript sightings

ASSUME BoundsAssumption ==
  /\ {MaxCommands, MaxPaths, Window} \subseteq Nat \ {0}
  /\ {MaxRetries, MaxEvents} \subseteq Nat

Commands == 1..MaxCommands
Paths == 1..MaxPaths
NoPath == 0

VARIABLES
  box,        \* the outbox in the client's memory
  disk,       \* its saved records
  app,        \* "up", "fatal" (storage failed, offline until restarted) or "down"
  active,     \* the path the client sends on
  draining,   \* the path it left and still reads
  owed,       \* what was in flight when it left that path, in order
  up, down,   \* the messages on each path
  lane,       \* the daemon's accepted commands, each with the path to answer on
  receipts,   \* its stored receipts
  ran,        \* the commands it decided on, in order (history)
  refused,    \* the commands it refused without a receipt (history)
  issued,     \* how many commands were issued
  left        \* how many disturbances may still happen

client == <<box, disk, app, active, draining, owed>>
net == <<up, down>>
daemon == <<lane, receipts, ran, refused>>
vars == <<client, net, daemon, issued, left>>

-----------------------------------------------------------------------------
(* The outbox: each operator is a method of Intents on its state.           *)

EmptyBox ==
  [rec      |-> [c \in Commands |-> "none"],   \* "delivered": pending, seen in the transcript
   inFlight |-> <<>>,
   fenced   |-> {},
   acking   |-> {},
   timer    |-> {},        \* refused and waiting to be sent again
   attempts |-> [c \in Commands |-> 0],
   armed    |-> {},        \* sent here and not yet asked after
   chain    |-> <<>>]      \* the operations; the first one is being saved

Pending(b, c) == b.rec[c] \in {"pending", "delivered"}

\* The numbers of a set in order, and the entries of a sequence that are in a set.
Sorted(S) == [i \in 1..Cardinality(S) |-> CHOOSE n \in S : Cardinality({m \in S : m < n}) = i - 1]
Only(seq, S) ==
  LET at == Sorted({i \in DOMAIN seq : seq[i] \in S})
  IN  [k \in DOMAIN at |-> seq[at[k]]]

Without(seq, c) == Only(seq, Commands \ {c})

\* Whether the receipt of a command sent on this connection is still owed.
awaitingReceipt(b, c) ==
  /\ b.rec[c] = "pending"
  /\ c \in Range(b.inFlight)
  /\ c \notin b.acking \cup b.timer

\* What #pump may send: what is pending, not on its way, and does not wait for its retry.
Ready(b) == {c \in Commands : Pending(b, c) /\ c \notin Range(b.inFlight) \cup b.acking \cup b.timer}

\* What #pump sends, up to the window: nothing while a fenced command still awaits its receipt.
ToSend(b) ==
  IF \E c \in b.fenced : awaitingReceipt(b, c) THEN <<>>
  ELSE Sorted({c \in Ready(b) :
                 Cardinality({d \in Ready(b) : d < c}) < Window - Len(b.inFlight)})

\* The outbox once #pump has sent that.
Pumped(b) ==
  [b EXCEPT !.fenced = {c \in @ : awaitingReceipt(b, c)},
            !.inFlight = @ \o ToSend(b),
            !.armed = @ \cup Range(ToSend(b))]

\* An operation of the chain starts: it changes the record in memory, then saves.
Begin(b) ==
  IF b.chain = <<>> \/ Head(b.chain).kind = "save" THEN b
  ELSE LET op == Head(b.chain)
           to == CASE op.kind \in {"acked", "failed"} /\ Pending(b, op.c) -> op.kind
                   [] op.kind = "seen" /\ b.rec[op.c] = "pending" -> "delivered"
                   [] op.kind = "taken" /\ b.rec[op.c] # "none" -> "acked"
                   [] OTHER -> b.rec[op.c]
       IN [b EXCEPT !.rec[op.c] = to, !.chain[1].was = b.rec[op.c]]

serialize(b, kind, c) ==
  LET next == [b EXCEPT !.chain = Append(@, [kind |-> kind, c |-> c, was |-> "none"])]
  IN IF b.chain = <<>> THEN Begin(next) ELSE next

acknowledge(b, c, result) ==
  LET calm == [b EXCEPT !.timer = @ \ {c}, !.attempts[c] = 0]
  IN IF c \in b.acking THEN calm
     ELSE serialize([calm EXCEPT !.acking = @ \cup {c}], result, c)

\* Mutant: one refusal too many is retried.
refuseOnceMore(b, c, retryable) ==
  IF ~Pending(b, c) THEN b
  ELSE IF ~retryable \/ b.attempts[c] > MaxRetries THEN acknowledge(b, c, "failed")
  ELSE [b EXCEPT !.inFlight = Without(@, c), !.timer = @ \cup {c}, !.attempts[c] = @ + 1]

refuse(b, c, retryable) ==
  IF ~Pending(b, c) THEN b
  ELSE IF ~retryable \/ b.attempts[c] >= MaxRetries THEN acknowledge(b, c, "failed")
  ELSE [b EXCEPT !.inFlight = Without(@, c), !.timer = @ \cup {c}, !.attempts[c] = @ + 1]

\* Mutant: a settled command keeps its place in the window.
releaseNothing(b, c) == [b EXCEPT !.timer = @ \ {c}, !.attempts[c] = 0]

releaseSlot(b, c) ==
  [b EXCEPT !.inFlight = Without(@, c), !.timer = @ \ {c}, !.attempts[c] = 0]

\* Cleared when the connection ends, and again when the next one replays.
disconnect(b) ==
  [b EXCEPT !.fenced = {}, !.inFlight = <<>>, !.timer = {}, !.armed = {}]

\* Mutant: newer commands go out on the new path at once.
fenceNothing(b) == [b EXCEPT !.armed = {}]

\* The path changed: newer commands wait behind those the old path owes, and the
\* status timers start over.
fence(b) == [b EXCEPT !.fenced = Range(b.inFlight), !.armed = {}]

\* What is sent again, in the order first sent, when the old path is gone.
Asked(b, ids) == Only(ids, {c \in Commands : awaitingReceipt(b, c)})

reask(b, ids) ==
  [b EXCEPT !.fenced = {}, !.armed = @ \cup Range(Asked(b, ids))]

Retained(state) == IF state \in {"pending", "delivered", "failed"} THEN state ELSE "none"

-----------------------------------------------------------------------------
(* Sending and closing.                                                     *)

Command(c) == [kind |-> "command", c |-> c]
Sent(to, ids) == to \o [i \in DOMAIN ids |-> Command(ids[i])]

\* The outbox becomes b, which then pumps on path p, if any; `first` goes before.
Settle(b, p, first) ==
  IF p = NoPath THEN box' = b /\ up' = up
  ELSE /\ box' = Pumped(b)
       /\ up' = [up EXCEPT ![p] = Sent(Sent(@, first), ToSend(b))]

\* The client leaves these paths: what they were to bring it is gone, and commands
\* on their way may or may not still arrive.
Leave(ps) ==
  /\ down' = [p \in Paths |-> IF p \in ps THEN <<>> ELSE down[p]]
  /\ lane' = [i \in DOMAIN lane |->
                IF lane[i].p \in ps THEN [lane[i] EXCEPT !.p = NoPath] ELSE lane[i]]

Open == {active, draining} \ {NoPath}

Free == {p \in Paths \ Open : up[p] = <<>>}

Disturbance == left > 0 /\ left' = left - 1

-----------------------------------------------------------------------------
(* The client.                                                              *)

\* The person issues a command: shown at once, saved before it is sent.
Enqueue ==
  /\ app # "down"
  /\ issued < MaxCommands
  /\ issued' = issued + 1
  /\ box' = serialize([box EXCEPT !.rec[issued + 1] = "saving"], "save", issued + 1)
  /\ UNCHANGED <<disk, app, active, draining, owed, net, daemon, left>>

Dequeued(b) == Begin([b EXCEPT !.chain = Tail(@)])

\* The operation in progress is saved, and the outbox goes on.
Saved ==
  /\ box.chain # <<>>
  /\ LET op == Head(box.chain)
         c == op.c
         to == IF op.kind = "save" THEN "pending" ELSE box.rec[c]
         b == [box EXCEPT !.rec[c] = to]
         done == CASE op.kind \in {"acked", "failed"} ->
                        releaseSlot([b EXCEPT !.acking = @ \ {c}], c)
                   [] op.kind = "taken" -> releaseSlot(b, c)
                   [] OTHER -> b
         pumps == active # NoPath /\ (op.kind = "seen" => c \in box.fenced)
     IN /\ disk' = [disk EXCEPT ![c] = Retained(to)]
        /\ box' = Dequeued(IF pumps THEN Pumped(done) ELSE done)
        /\ up' = IF pumps THEN [up EXCEPT ![active] = Sent(@, ToSend(done))] ELSE up
  /\ UNCHANGED <<app, active, draining, owed, down, daemon, issued, left>>

\* Storage refuses the write: an unsaved command fails on this device, and a record
\* that could not be updated is put back and ends the connection for good.
SaveFails ==
  /\ box.chain # <<>>
  /\ Disturbance
  /\ LET op == Head(box.chain)
         c == op.c
         b == [box EXCEPT !.rec[c] = IF op.kind = "save" THEN "failed" ELSE op.was,
                          !.acking = IF op.kind \in {"acked", "failed"} THEN @ \ {c} ELSE @]
     IN IF op.kind = "save"
        THEN /\ box' = Dequeued(b)
             /\ UNCHANGED <<app, active, draining, owed, down, lane>>
        ELSE /\ box' = disconnect(Dequeued(b))
             /\ app' = "fatal" /\ active' = NoPath /\ draining' = NoPath /\ owed' = <<>>
             /\ Leave(Open)
  /\ UNCHANGED <<disk, up, receipts, ran, refused, issued>>

\* A path is welcomed: everything pending is sent again.
Connect ==
  /\ app = "up" /\ active = NoPath /\ Free # {}
  /\ active' = Min(Free)
  /\ Settle(disconnect(box), Min(Free), <<>>)
  /\ UNCHANGED <<disk, app, draining, owed, down, daemon, issued, left>>

\* The connection is lost with no path to fail over to.
Lose ==
  /\ active # NoPath
  /\ Disturbance
  /\ active' = NoPath /\ draining' = NoPath /\ owed' = <<>>
  /\ box' = disconnect(box)
  /\ Leave(Open)
  /\ UNCHANGED <<disk, app, up, receipts, ran, refused, issued>>

\* A better path is welcomed: one swap, after which the old path only drains.
Switch ==
  /\ active # NoPath /\ draining = NoPath /\ Free # {}
  /\ Disturbance
  /\ active' = Min(Free) /\ draining' = active
  /\ owed' = box.inFlight
  /\ box' = fence(box)
  /\ UNCHANGED <<disk, app, net, daemon, issued>>

\* The old path answered for long enough, or closed.
FinishDrain ==
  /\ draining # NoPath
  /\ Leave({draining})
  /\ draining' = NoPath /\ owed' = <<>>
  /\ Settle(reask(box, owed), active, Asked(box, owed))
  /\ UNCHANGED <<disk, app, active, receipts, ran, refused, issued, left>>

\* The active path is lost and the standby takes over at once.
Failover ==
  /\ active # NoPath /\ draining = NoPath /\ Free # {}
  /\ Disturbance
  /\ active' = Min(Free)
  /\ Leave({active})
  /\ LET b == fence(box)
     IN Settle(reask(b, box.inFlight), Min(Free), Asked(b, box.inFlight))
  /\ UNCHANGED <<disk, app, draining, owed, receipts, ran, refused, issued>>

\* A message from a path the client reads: results and refusals count on either,
\* a status answer only if it was asked on the active path.
Receive(p) ==
  /\ p \in Open /\ down[p] # <<>>
  /\ down' = [down EXCEPT ![p] = Tail(@)]
  /\ LET m == Head(down[p])
         b == CASE m.kind = "result" -> acknowledge(box, m.c, m.value)
                [] m.kind = "error" -> refuse(box, m.c, m.value = "retry")
                [] m.kind = "status" /\ p = active /\ awaitingReceipt(box, m.c) ->
                     (CASE m.value = "unknown" -> acknowledge(box, m.c, "failed")
                        [] m.value = "running" -> [box EXCEPT !.armed = @ \cup {m.c}]
                        [] OTHER -> box)
                [] OTHER -> box
         pumps == m.kind = "error" /\ Pending(box, m.c) /\ m.c \in b.timer
     IN Settle(b, IF pumps THEN active ELSE NoPath, <<>>)
  /\ UNCHANGED <<disk, app, active, draining, owed, daemon, issued, left>>

\* A command went unanswered for its bound: ask what the daemon knows of it.
Ask(c) ==
  /\ active # NoPath /\ c \in box.armed /\ awaitingReceipt(box, c)
  /\ Disturbance
  /\ box' = [box EXCEPT !.armed = @ \ {c}]
  /\ up' = [up EXCEPT ![active] = Append(@, [kind |-> "status", c |-> c])]
  /\ UNCHANGED <<disk, app, active, draining, owed, down, daemon, issued>>

Retry(c) ==
  /\ c \in box.timer
  /\ Settle([box EXCEPT !.timer = @ \ {c}], IF Pending(box, c) THEN active ELSE NoPath, <<>>)
  /\ UNCHANGED <<disk, app, active, draining, owed, down, daemon, issued, left>>

\* The thread's events show the command's message, or that the provider took it.
Observe(c, kind) ==
  /\ active # NoPath /\ receipts[c] = "acked"
  /\ box.rec[c] \in IF kind = "seen" THEN {"pending"} ELSE {"pending", "delivered", "failed"}
  /\ \A i \in DOMAIN box.chain : box.chain[i].c = c => box.chain[i].kind # kind
  /\ Disturbance
  /\ box' = serialize(box, kind, c)
  /\ UNCHANGED <<disk, app, active, draining, owed, net, daemon, issued>>

\* The app ends, at any moment, and starts again from its saved records.
Crash ==
  /\ app # "down"
  /\ Disturbance
  /\ app' = "down" /\ active' = NoPath /\ draining' = NoPath /\ owed' = <<>>
  /\ box' = EmptyBox
  /\ Leave(Open)
  /\ UNCHANGED <<disk, up, receipts, ran, refused, issued>>

initialize ==
  /\ app = "down"
  /\ app' = "up"
  /\ box' = [EmptyBox EXCEPT !.rec = disk]
  /\ UNCHANGED <<disk, active, draining, owed, net, daemon, issued, left>>

-----------------------------------------------------------------------------
(* The daemon.                                                              *)

Answer(p, messages) ==
  down' = IF p \in Open THEN [down EXCEPT ![p] = @ \o messages] ELSE down

Running(c) == \E i \in DOMAIN lane : lane[i].c = c

Result(c, value) == [kind |-> "result", c |-> c, value |-> value]

\* Mutant: a command on its lane is not known yet.
receiptState(c) ==
  LET status(value) == [kind |-> "status", c |-> c, value |-> value]
  IN IF receipts[c] # "none" THEN <<Result(c, receipts[c]), status("settled")>>
     ELSE <<status("unknown")>>

\* What a status request is told: a stored result goes first.
commandState(c) ==
  LET status(value) == [kind |-> "status", c |-> c, value |-> value]
  IN CASE Running(c) -> <<status("running")>>
       [] ~Running(c) /\ receipts[c] # "none" ->
            <<Result(c, receipts[c]), status("settled")>>
       [] OTHER -> <<status("unknown")>>

\* The daemon reads a path's next command and puts it on its lane.
Admit(p) ==
  /\ up[p] # <<>> /\ Head(up[p]).kind = "command"
  /\ up' = [up EXCEPT ![p] = Tail(@)]
  /\ lane' = Append(lane, [c |-> Head(up[p]).c, p |-> IF p \in Open THEN p ELSE NoPath])
  /\ UNCHANGED <<client, down, receipts, ran, refused, issued, left>>

\* It refuses the command instead: for now (maintenance) or for good (access).
Refuse(p, value) ==
  /\ up[p] # <<>> /\ Head(up[p]).kind = "command"
  /\ Disturbance
  /\ up' = [up EXCEPT ![p] = Tail(@)]
  /\ refused' = refused \cup {Head(up[p]).c}
  /\ Answer(p, <<[kind |-> "error", c |-> Head(up[p]).c, value |-> value]>>)
  /\ UNCHANGED <<client, lane, receipts, ran, issued>>

Status(p) ==
  /\ up[p] # <<>> /\ Head(up[p]).kind = "status"
  /\ up' = [up EXCEPT ![p] = Tail(@)]
  /\ Answer(p, commandState(Head(up[p]).c))
  /\ UNCHANGED <<client, daemon, issued, left>>

\* Mutant: the receipt is written without looking for an earlier one.
recordAgain ==
  /\ lane # <<>>
  /\ lane' = Tail(lane)
  /\ receipts' = [receipts EXCEPT ![Head(lane).c] = "acked"]
  /\ ran' = Append(ran, Head(lane).c)
  /\ Answer(Head(lane).p, <<Result(Head(lane).c, "acked")>>)
  /\ UNCHANGED <<client, up, refused, issued, left>>

\* The first command of the lane is decided and its receipt stored, in one
\* transaction; a command that has a receipt gets that.
recordCommand ==
  /\ lane # <<>>
  /\ lane' = Tail(lane)
  /\ LET c == Head(lane).c
     IN IF receipts[c] # "none"
        THEN /\ Answer(Head(lane).p, <<Result(c, receipts[c])>>)
             /\ UNCHANGED <<receipts, ran, left>>
        ELSE \E value \in {"acked", "failed"} :
               /\ IF value = "failed" THEN Disturbance ELSE left' = left
               /\ receipts' = [receipts EXCEPT ![c] = value]
               /\ ran' = Append(ran, c)
               /\ Answer(Head(lane).p, <<Result(c, value)>>)
  /\ UNCHANGED <<client, up, refused, issued>>

\* The transaction fails and is rolled back.
RollBack ==
  /\ lane # <<>> /\ receipts[Head(lane).c] = "none"
  /\ Disturbance
  /\ lane' = Tail(lane)
  /\ refused' = refused \cup {Head(lane).c}
  /\ Answer(Head(lane).p, <<[kind |-> "error", c |-> Head(lane).c, value |-> "retry"]>>)
  /\ UNCHANGED <<client, up, receipts, ran, issued>>

\* The daemon dies with its lanes and its sockets; receipts are kept.
Restart ==
  /\ Disturbance
  /\ lane' = <<>>
  /\ up' = [p \in Paths |-> <<>>] /\ down' = up'
  /\ active' = NoPath /\ draining' = NoPath /\ owed' = <<>>
  /\ box' = disconnect(box)
  /\ UNCHANGED <<disk, app, receipts, ran, refused, issued>>

\* What a path left behind still carried never arrives.
Vanish(p) ==
  /\ p \notin Open /\ up[p] # <<>>
  /\ up' = [up EXCEPT ![p] = <<>>]
  /\ UNCHANGED <<client, down, daemon, issued, left>>

-----------------------------------------------------------------------------
Init ==
  /\ box = EmptyBox
  /\ disk = [c \in Commands |-> "none"]
  /\ app = "up" /\ active = NoPath /\ draining = NoPath /\ owed = <<>>
  /\ up = [p \in Paths |-> <<>>] /\ down = up
  /\ lane = <<>> /\ receipts = disk /\ ran = <<>> /\ refused = {}
  /\ issued = 0
  /\ left = MaxEvents

Reads(p) == Admit(p) \/ Status(p) \/ \E value \in {"retry", "final"} : Refuse(p, value)

Next ==
  \/ Enqueue \/ Saved \/ SaveFails
  \/ Connect \/ Lose \/ Switch \/ FinishDrain \/ Failover
  \/ \E c \in Commands : Ask(c) \/ Retry(c)
  \/ \E c \in Commands, kind \in {"seen", "taken"} : Observe(c, kind)
  \/ Crash \/ initialize
  \/ recordCommand \/ RollBack \/ Restart
  \/ \E p \in Paths : Receive(p) \/ Reads(p) \/ Vanish(p)

\* Both programs read what arrives, the lane and the storage go on, the client
\* reconnects, its drain and retry timers fire, and a path left behind ends.
\* Weak fairness of each, with the condition that enables it written out.
Fairness ==
  /\ []<>(box.chain = <<>>) \/ []<><<Saved>>_vars
  /\ []<>~(app = "up" /\ active = NoPath /\ Free # {}) \/ []<><<Connect>>_vars
  /\ []<>(draining = NoPath) \/ []<><<FinishDrain>>_vars
  /\ []<>(lane = <<>>) \/ []<><<recordCommand>>_vars
  /\ \A c \in Commands : []<>(c \notin box.timer) \/ []<><<Retry(c)>>_vars
  /\ \A p \in Paths :
       /\ []<>(p \notin Open \/ down[p] = <<>>) \/ []<><<Receive(p)>>_vars
       /\ []<>(up[p] = <<>>) \/ []<><<Reads(p) \/ Vanish(p)>>_vars

Spec == Init /\ [][Next]_vars /\ Fairness

-----------------------------------------------------------------------------
Results == {"acked", "failed"}

TypeOK ==
  /\ box.rec \in [Commands -> {"none", "saving", "pending", "delivered"} \cup Results]
  /\ box.inFlight \in Seq(Commands) /\ IsInjective(box.inFlight)
  /\ {box.fenced, box.acking, box.timer, box.armed} \subseteq SUBSET Commands
  /\ box.attempts \in [Commands -> 0..MaxRetries]
  /\ disk \in [Commands -> {"none", "pending", "delivered", "failed"}]
  /\ app \in {"up", "fatal", "down"}
  /\ {active, draining} \subseteq Paths \cup {NoPath}
  /\ receipts \in [Commands -> Results \cup {"none"}]

\* "Until each command the old path owes is answered or sent again, newer commands
\* wait, so none overtakes an older one" (ADR 0114): over switches, failovers,
\* reconnects and restarts, the daemon decides on commands in the order they were
\* issued, except those it refused without a receipt.
NoneOvertakes ==
  \A i, j \in DOMAIN ran : i < j /\ ran[i] > ran[j] => ran[j] \in refused

\* The person is told that a command failed, when the daemon carried it out, only if
\* the daemon had refused an attempt of it: a command that is on its way, waiting on
\* its lane or decided is never given up as lost.
FailedForAReason ==
  \A c \in Commands : box.rec[c] = "failed" /\ receipts[c] = "acked" => c \in refused

\* What the client's disk and the daemon's receipts say of a command.
Kept(c) ==
  CASE disk[c] \in {"pending", "delivered"} -> "saved"
    [] disk[c] = "failed" -> "failed"
    [] OTHER -> IF receipts[c] = "none" THEN "new" ELSE "done"

Promise == INSTANCE CommandOnce WITH
  kept <- [c \in Commands |-> Kept(c)],
  verdict <- receipts,
  ran <- ran

\* The outbox and the daemon implement CommandOnce: whatever is cut, switched or
\* restarted, a command is saved before it can run, runs at most once, and leaves
\* the disk only as failed or with the daemon's acceptance stored.
OncePerCommand == Promise!OnceSpec

\* A seen command is not asked after again: when the path that owed its receipt is
\* gone, it keeps its place in the window until the provider takes it.
SeenFillWindow ==
  Len(box.inFlight) = Window /\ \A c \in Range(box.inFlight) : box.rec[c] = "delivered"

\* Left alone, every saved command is answered by the daemon or the transcript,
\* unless the app stays closed, its storage failed, or seen commands fill the window.
Answered ==
  \A c \in Commands :
    (disk[c] = "pending") ~> (disk[c] # "pending" \/ app # "up" \/ SeenFillWindow)

-----------------------------------------------------------------------------
(* The inductive invariant behind TypeOK, NoneOvertakes, FailedForAReason and *)
(* OncePerCommand.                                                            *)

States == {"none", "saving", "pending", "delivered"} \cup Results
Operations == [kind: {"save", "acked", "failed", "seen", "taken"}, c: Commands, was: States]
Boxes ==
  [rec: [Commands -> States], inFlight: Seq(Commands), fenced: SUBSET Commands,
   acking: SUBSET Commands, timer: SUBSET Commands, attempts: [Commands -> 0..MaxRetries],
   armed: SUBSET Commands, chain: Seq(Operations)]
Asks == [kind: {"command", "status"}, c: Commands]
Answers == [kind: {"result", "error", "status"}, c: Commands,
            value: Results \cup {"retry", "final", "running", "settled", "unknown"}]
Jobs == [c: Commands, p: Paths \cup {NoPath}]
Disks == [Commands -> {"none", "pending", "delivered", "failed"}]

Types ==
  /\ box \in Boxes /\ disk \in Disks /\ app \in {"up", "fatal", "down"}
  /\ active \in Paths \cup {NoPath} /\ draining \in Paths \cup {NoPath}
  /\ owed \in Seq(Commands)
  /\ up \in [Paths -> Seq(Asks)] /\ down \in [Paths -> Seq(Answers)]
  /\ lane \in Seq(Jobs)
  /\ receipts \in [Commands -> Results \cup {"none"}]
  /\ ran \in Seq(Commands) /\ refused \in SUBSET Commands
  /\ issued \in 0..MaxCommands /\ left \in 0..MaxEvents

\* The daemon can know of a command: it is on disk d, or was and was accepted.
Known(c, d) == d[c] # "none" \/ receipts[c] = "acked"

\* The daemon answered for a command, and so that it may be shown as failed.
Reported(c) == receipts[c] # "none" \/ c \in refused
GivenUp(c) == receipts[c] = "failed" \/ c \in refused

\* A command that was issued and will never be sent: its record in b was not saved.
Lost(c, b, d) ==
  c <= issued /\ d[c] = "none" /\ receipts[c] = "none" /\ b.rec[c] \in {"none", "failed"}

\* A command that need not be decided before the ones issued after it.
Over(c, b, d) == Reported(c) \/ Lost(c, b, d)

\* What a record in memory says of a command whose record on disk is d[c].
RecordInv(c, state, d) ==
  /\ state \in {"pending", "delivered"} => d[c] \in {"pending", "delivered"}
  /\ state \in {"delivered", "acked"} => receipts[c] = "acked"
  /\ state = "failed" => IF d[c] = "none" THEN receipts[c] = "none" ELSE GivenUp(c)
  /\ state = "saving" => d[c] = "none" /\ receipts[c] = "none"
  /\ state = "none" /\ app # "down" => d[c] = "none"

\* An operation of the chain was asked for by the person, the daemon or the transcript.
OperationInv(op, b, d) ==
  /\ op.kind = "save" => b.rec[op.c] = "saving"
  /\ op.kind # "save" => Known(op.c, d)
  /\ op.kind \in {"acked", "seen", "taken"} => receipts[op.c] = "acked"
  /\ op.kind = "failed" => GivenUp(op.c)

\* Commands are saved in the order they were issued.
SavesInv(b, d) ==
  /\ \A i, j \in DOMAIN b.chain :
       i < j /\ b.chain[i].kind = "save" /\ b.chain[j].kind = "save" => b.chain[i].c < b.chain[j].c
  /\ \A c \in Commands : b.rec[c] = "saving" =>
       /\ \E i \in DOMAIN b.chain : b.chain[i].kind = "save" /\ b.chain[i].c = c
       /\ \A e \in Commands : c < e => d[e] = "none"

\* The outbox in memory, over the records on disk d; and what a save that fails puts back.
BoxCore(b, d) ==
  /\ \A c \in Commands : /\ RecordInv(c, b.rec[c], d)
                         /\ c > issued => b.rec[c] = "none" /\ d[c] = "none"
  /\ \A c \in Range(b.inFlight) : Known(c, d)
  /\ IsInjective(b.inFlight)
  /\ \A c \in b.acking : Reported(c)
  /\ b.timer \subseteq refused
  /\ \A i \in DOMAIN b.chain : OperationInv(b.chain[i], b, d)
  /\ SavesInv(b, d)
BoxInv(b, d) ==
  /\ BoxCore(b, d)
  /\ b.chain # <<>> /\ Head(b.chain).kind # "save" =>
       RecordInv(Head(b.chain).c, Head(b.chain).was, d)

\* An older command comes before the newer ones of a sequence, unless it is over.
InTurn(seq, b, d) ==
  \A j \in DOMAIN seq : \A c \in Commands :
    c < seq[j] => Over(c, b, d) \/ \E i \in DOMAIN seq : i < j /\ seq[i] = c

\* What is in flight, and what the draining path owes: all that is fenced.
FlightInv(b, d, old) ==
  /\ InTurn(b.inFlight, b, d) /\ InTurn(old, b, d)
  /\ \A c \in Range(old) : Known(c, d) /\ (c \in Range(b.inFlight) \/ Reported(c))
  /\ b.fenced \subseteq Range(old)

Laned == {lane[i].c : i \in DOMAIN lane}

\* A command is on its lane, or among the first n messages that a path carries.
Reaches(c, carried, n) ==
  c \in Laned \/ \E i \in DOMAIN carried : i <= n /\ carried[i] = Command(c)

\* The messages on a path to the daemon.
UpInv(carried, b, d) ==
  \A j \in DOMAIN carried :
    LET c == carried[j].c
    IN  IF carried[j].kind = "status" THEN Reported(c) \/ Reaches(c, carried, j - 1)
        ELSE /\ Known(c, d)
             /\ \A e \in Commands : e < c => Over(e, b, d) \/ Reaches(e, carried, j - 1)

\* What is in flight and not fenced, or asked after, was sent on the active path.
ReachInv(b, carried) ==
  \A c \in b.armed \cup (Range(b.inFlight) \ b.fenced) :
    Reported(c) \/ Reaches(c, carried, Len(carried))

\* The messages on a path to the client.
AnswerInv(m) ==
  /\ m.kind = "result" => receipts[m.c] = m.value
  /\ m.kind = "error" => m.c \in refused
  /\ m.kind = "status" /\ m.value = "running" => Reported(m.c) \/ m.c \in Laned
  /\ m.kind = "status" /\ m.value = "unknown" => m.c \in refused

\* The daemon: what is decided or on its lane was saved, and is decided in its turn.
DaemonInv ==
  /\ \A c \in Commands : /\ receipts[c] # "none" => Known(c, disk) /\ c <= issued
                         /\ disk[c] = "failed" => GivenUp(c)
                         /\ disk[c] = "delivered" => receipts[c] = "acked"
  /\ \A c \in Laned : Known(c, disk)
  /\ InTurn([i \in DOMAIN lane |-> lane[i].c], box, disk)
  /\ \A j \in DOMAIN ran : /\ receipts[ran[j]] # "none"
                           /\ \A c \in Commands : c < ran[j] => Over(c, box, disk)

OutboxInv ==
  /\ Types
  /\ BoxInv(box, disk) /\ FlightInv(box, disk, owed)
  /\ active # NoPath => ReachInv(box, up[active])
  /\ active = NoPath => draining = NoPath
  /\ draining = NoPath => owed = <<>>
  /\ app = "down" => active = NoPath /\ box.chain = <<>> /\ box.timer = {}
  /\ \A p \in Paths : UpInv(up[p], box, disk) /\ \A m \in Range(down[p]) : AnswerInv(m)
  /\ DaemonInv /\ NoneOvertakes
=============================================================================
