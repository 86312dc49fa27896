---------------------------- MODULE DurableQueue ----------------------------
(***************************************************************************)
(* One thread's queue at work (apps/daemon/src/engine): the send lane and  *)
(* the steer lane that deliver its intents across awaits, the actor that   *)
(* owns the provider session and folds its frames, the Stop control, the   *)
(* provider process, the person's commands, and the daemon's crash and     *)
(* three-pass restart.  What a step does to the stored rows is in          *)
(* IntentQueue; one action here runs from one await of the code to the     *)
(* next, so every interleaving of lanes, frames, commands and crashes at   *)
(* an await is a behaviour.                                                *)
(***************************************************************************)
EXTENDS IntentQueue, Sequences, SequencesExt

CONSTANTS
  Budget,      \* bound: how often each environment event of Events happens
  MaxFrames,   \* bound: provider frames waiting in the actor's mailbox
  Admits       \* the provider names every input it takes (input.admitted)

Commands == {"send", "steer", "stop", "pause", "resume", "limit", "edit", "remove", "resend", "move"}
Faults == {"open", "prepare", "reject", "refuse", "interrupt", "close", "die", "crash"}
Events == Commands \cup Faults \cup {"self", "quota", "account"}
Lanes == {"send", "steer"}

ASSUME EngineAssumption ==
  /\ Budget \in [Events -> Nat]
  /\ MaxFrames \in Nat \ {0}
  /\ Admits \in BOOLEAN

VARIABLES
  db,      \* the stored rows (IntentQueue)
  lane,    \* what each lane is in the middle of
  actor,   \* the thread's actor: session, generation, lifetime, closes
  frames,  \* its mailbox of provider frames, oldest first
  host,    \* whether the daemon runs, or how far startup got
  prov,    \* the provider process and the inputs written to it
  spent,   \* environment events so far
  got,     \* history: how often the provider took intent i as input
  wish     \* history: the hold the person last asked for and has not given up

vars == <<db, lane, actor, frames, host, prov, spent, got, wish>>

Idle == [pc |-> "idle", id |-> 0, token |-> 0, gen |-> 0, steered |-> FALSE,
         cont |-> FALSE, lim |-> FALSE, err |-> "none"]
NoActor == [session |-> 0, gen |-> 0, life |-> "none", closing |-> 0, closer |-> "none",
            stop |-> FALSE]
NoProcess == [proc |-> 0, busy |-> FALSE, wire |-> <<>>]

Init ==
  /\ db = EmptyDatabase
  /\ lane = [l \in Lanes |-> Idle]
  /\ actor = NoActor
  /\ frames = <<>>
  /\ host = [up |-> "up", candidate |-> FALSE]
  /\ prov = NoProcess
  /\ spent = [e \in Events |-> 0]
  /\ got = [i \in Ids |-> 0]
  /\ wish = "none"

Running == host.up = "up"

Happens(e) ==
  /\ spent[e] < Budget[e]
  /\ spent' = [spent EXCEPT ![e] = @ + 1]

At(l, pc) == Running /\ lane[l].pc = pc
Row(l) == IF lane[l].id = 0 THEN NoIntent ELSE db.intent[lane[l].id]
Goto(l, pc) == lane' = [lane EXCEPT ![l].pc = pc]
Throw(l, err) == lane' = [lane EXCEPT ![l].pc = "settling", ![l].err = err]

-----------------------------------------------------------------------------
(* Choosing and claiming (index.ts work and steer, intent-delivery.ts run). *)

\* A recovery operation first; then the head of a queue nothing holds, between turns.
SendChoice(d) ==
  LET resumes == WaitingOf(d, "resume")
      sends == WaitingOf(d, "send")
      ready == /\ ~RecoveryAcknowledgement(d) /\ ~d.q.paused /\ ~d.q.limited
               /\ Awaiting(d) = {} /\ ~d.run /\ ~d.rootLimited
  IN  CASE resumes # {} -> {First(d, resumes)}
        [] resumes = {} /\ ready /\ sends # {} -> {First(d, sends)}
        [] OTHER -> {}

\* A steer that goes into the provider natively right now.
Steers(d, i) ==
  /\ d.intent[i].kind = "send" /\ d.intent[i].steer
  /\ actor.session # 0
  /\ ~d.q.paused /\ ~d.q.limited /\ ~Recovering(d)

SteerChoice(d) ==
  LET steers == {i \in WaitingOf(d, "send") : Steers(d, i)}
  IN  IF steers = {} THEN {} ELSE {First(d, steers)}

\* Every lane flushes the mailbox before it reads the queue.
Choose(l) ==
  /\ At(l, "idle") /\ frames = <<>>
  /\ \E i \in IF l = "send" THEN SendChoice(db) ELSE SteerChoice(db) :
       /\ lane' = [lane EXCEPT ![l] = [Idle EXCEPT !.pc = "chosen", !.id = i]]
       /\ db' = IF l = "send" /\ db.intent[i].kind = "send" THEN Mark(db, {i}, "queued") ELSE db
  /\ UNCHANGED <<actor, frames, host, prov, spent, got, wish>>

\* Mutant of ClaimIntent: the claim does not look at the stored status again.
ClaimBlindly(l) ==
  LET i == lane[l].id
      steers == Steers(db, i)
      resume == db.intent[i].kind = "resume"
  IN  /\ At(l, "chosen")
      /\ lane' = [lane EXCEPT ![l].pc = "claimed", ![l].token = db.q.token,
                              ![l].steered = steers /\ db.run,
                              ![l].cont = resume /\ db.q.cont, ![l].lim = resume /\ db.q.limited]
      /\ db' = Claim(db, i, steers)
      /\ UNCHANGED <<actor, frames, host, prov, spent, got, wish>>

\* The claim is a compare-and-swap on the stored status.  A resume with no continuation only
\* releases the hold.
ClaimIntent(l) ==
  LET i == lane[l].id
      steers == Steers(db, i)
      claimed == Claim(db, i, steers)
      resume == db.intent[i].kind = "resume"
      held == [lane[l] EXCEPT !.pc = "claimed", !.token = db.q.token,
                              !.steered = steers /\ db.run,
                              !.cont = resume /\ db.q.cont, !.lim = resume /\ db.q.limited]
  IN  /\ At(l, "chosen")
      /\ CASE Row(l).status \notin WaitingStates ->
                lane' = [lane EXCEPT ![l] = Idle] /\ db' = db
           [] Row(l).status \in WaitingStates /\ resume /\ ~db.q.cont ->
                /\ lane' = [lane EXCEPT ![l] = [held EXCEPT !.pc = "settling"]]
                /\ db' = LimitCleared(BeginSend(claimed, i, 0))
           [] OTHER -> lane' = [lane EXCEPT ![l] = held] /\ db' = claimed
      /\ UNCHANGED <<actor, frames, host, prov, spent, got, wish>>

-----------------------------------------------------------------------------
(* The session (sessions.ts open, close, closeForStop). *)

BeginClose(closer) ==
  /\ actor.closing = 0
  /\ actor' = [actor EXCEPT !.session = 0, !.closing = actor.session, !.closer = closer,
                            !.stop = @ /\ closer # "stop"]

\* Old frames of a limited session must not acknowledge its replacement.
CloseLimited(l) ==
  /\ At(l, "claimed") /\ lane[l].lim /\ actor.session # 0
  /\ BeginClose(l)
  /\ Goto(l, "closing")
  /\ UNCHANGED <<db, frames, host, prov, spent, got, wish>>

\* Mutant of Retire: the generation moves on and the session stays.
RetireKeepingSession(a) == [a EXCEPT !.life = "aborted", !.gen = @ + 1]
Retire(a) == [a EXCEPT !.session = 0, !.life = "aborted", !.gen = @ + 1]
CloseOver(a) == [a EXCEPT !.closing = 0, !.closer = "none"]
AfterClose == IF actor.closer \in Lanes THEN Goto(actor.closer, "claimed") ELSE UNCHANGED lane

\* The process ended.  A session opened meanwhile has a later generation and is left alone.
CloseEnds ==
  /\ Running /\ actor.closing # 0 /\ frames = <<>>
  /\ IF actor.gen = actor.closing
     THEN /\ actor' = CloseOver(Retire(actor))
          /\ db' = SessionExited(db, actor.gen, TRUE)
     ELSE /\ actor' = CloseOver(actor)
          /\ db' = db
  /\ prov' = IF prov.proc = actor.closing THEN NoProcess ELSE prov
  /\ AfterClose
  /\ UNCHANGED <<frames, host, spent, got, wish>>

\* No exit acknowledgement: a lane's close gives the session back, a Stop's close drops it.
CloseFails ==
  /\ Running /\ actor.closing # 0 /\ frames = <<>> /\ Happens("close")
  /\ CASE actor.gen # actor.closing ->
            actor' = CloseOver(actor) /\ db' = db
       [] actor.gen = actor.closing /\ actor.closer = "stop" ->
            actor' = CloseOver(Retire(actor)) /\ db' = SessionExited(db, actor.gen, TRUE)
       [] OTHER -> actor' = [CloseOver(actor) EXCEPT !.session = actor.closing] /\ db' = db
  /\ IF actor.closer \in Lanes THEN Throw(actor.closer, "other") ELSE UNCHANGED lane
  /\ UNCHANGED <<frames, host, prov, got, wish>>

\* A send that could not open its session was not started; a resume failed.
NotOpened(l) == Throw(l, IF Row(l).kind = "send" THEN "not_started" ELSE "other")

Open(l) ==
  /\ At(l, "claimed") /\ ~(lane[l].lim /\ actor.session # 0)
  /\ \/ /\ actor.session # 0
        /\ Goto(l, "opened")
        /\ UNCHANGED <<actor, spent>>
     \/ /\ actor.session # 0 /\ Happens("open")
        /\ NotOpened(l)
        /\ UNCHANGED actor
     \/ /\ actor.session = 0
        /\ actor' = [actor EXCEPT !.gen = @ + 1, !.life = "open"]
        /\ lane' = [lane EXCEPT ![l].pc = "opening", ![l].gen = actor.gen + 1]
        /\ UNCHANGED spent
  /\ UNCHANGED <<db, frames, host, prov, got, wish>>

OpenFails(l) ==
  /\ IF lane[l].gen = actor.gen
     THEN /\ actor' = [actor EXCEPT !.gen = @ + 1, !.life = "none", !.session = 0]
          /\ db' = [db EXCEPT !.run = FALSE]
     ELSE UNCHANGED <<actor, db>>
  /\ NotOpened(l)

\* The open resolves; it fails when the provider refuses, or when an abort or another open
\* overtook it.
OpenEnds(l) ==
  /\ At(l, "opening") /\ frames = <<>>
  /\ \/ /\ lane[l].gen = actor.gen /\ actor.life = "open"
        /\ actor' = [actor EXCEPT !.session = actor.gen]
        /\ prov' = [NoProcess EXCEPT !.proc = actor.gen]
        /\ Goto(l, "opened")
        /\ UNCHANGED <<db, spent>>
     \/ /\ ~(lane[l].gen = actor.gen /\ actor.life = "open")
        /\ OpenFails(l)
        /\ UNCHANGED <<prov, spent>>
     \/ /\ Happens("open")
        /\ OpenFails(l)
        /\ UNCHANGED prov
  /\ UNCHANGED <<frames, host, got, wish>>

-----------------------------------------------------------------------------
(* Handing the input to the session (delivery.ts, intent-delivery.ts resume). *)

\* The session and generation this send is for.
Inspect(l) ==
  /\ At(l, "opened") /\ Row(l).kind = "send"
  /\ IF Row(l).cancelled \/ actor.session = 0
     THEN Throw(l, "deferred")
     ELSE lane' = [lane EXCEPT ![l].pc = "preparing", ![l].gen = actor.gen]
  /\ UNCHANGED <<db, actor, frames, host, prov, spent, got, wish>>

Superseded(l) ==
  \/ Row(l).cancelled
  \/ actor.life = "aborted" \/ actor.session = 0 \/ actor.gen # lane[l].gen
  \/ db.q.paused

\* After the context and the checkpoint are prepared.
Verify(l) ==
  /\ At(l, "preparing")
  /\ IF Superseded(l) THEN Throw(l, "deferred") ELSE Goto(l, "ready")
  /\ UNCHANGED <<db, actor, frames, host, prov, spent, got, wish>>

\* The context or the workspace check throws, or beforeSend (a send outside a turn) does.
PrepareFails(l) ==
  /\ Running /\ lane[l].pc \in {"preparing", "ready"} /\ Happens("prepare")
  /\ \/ Throw(l, "other")
     \/ lane[l].pc = "preparing" /\ Throw(l, "not_started")
  /\ UNCHANGED <<db, actor, frames, host, prov, got, wish>>

\* A continuation goes on only while no newer hold took the thread.
BeginContinuation(l) ==
  /\ At(l, "opened") /\ Row(l).kind = "resume"
  /\ IF ~Owns(db, lane[l].token)
     THEN Goto(l, "settling") /\ UNCHANGED db
     ELSE /\ db' = BeginSend(LimitCleared(db), lane[l].id, lane[l].id)
          /\ IF actor.session = 0 THEN Throw(l, "other")
             ELSE lane' = [lane EXCEPT ![l].pc = "ready", ![l].gen = actor.session]
  /\ UNCHANGED <<actor, frames, host, prov, spent, got, wish>>

\* What stops a send after the workspace check; a continuation is checked no more.
LastCheck(l) ==
  CASE Row(l).kind = "send" /\ Row(l).cancelled -> "deferred"
    [] Row(l).kind = "send" /\ ~Row(l).cancelled /\ actor.life = "aborted" -> "other"
    [] OTHER -> "none"

\* pending.submit, then session.send in the same turn of the event loop.
Dispatch(l) ==
  LET i == lane[l].id
      send == Row(l).kind = "send"
  IN  /\ At(l, "ready")
      /\ IF LastCheck(l) # "none"
         THEN Throw(l, LastCheck(l)) /\ UNCHANGED <<db, prov>>
         ELSE /\ db' = Submit(db, i, IF send THEN lane[l].gen ELSE actor.gen)
              /\ prov' = IF prov.proc = lane[l].gen
                         THEN [prov EXCEPT !.wire =
                                 Append(@, [id |-> i, steer |-> send /\ Row(l).steer])]
                         ELSE prov
              /\ Goto(l, "sending")
      /\ UNCHANGED <<actor, frames, host, spent, got, wish>>

OnWire(i) == {k \in DOMAIN prov.wire : prov.wire[k].id = i}

\* session.send resolves, fails as a transport (the input may or may not be taken later), or is
\* refused unread.
SendReturns(l) ==
  /\ At(l, "sending")
  /\ \/ /\ prov.proc = lane[l].gen
        /\ Goto(l, "settling")
        /\ UNCHANGED <<prov, spent>>
     \/ /\ prov.proc # lane[l].gen
        /\ Throw(l, "other")
        /\ UNCHANGED <<prov, spent>>
     \/ /\ Happens("reject")
        /\ Throw(l, "other")
        /\ \/ UNCHANGED prov
           \/ \E k \in OnWire(lane[l].id) : prov' = [prov EXCEPT !.wire = RemoveAt(@, k)]
     \/ /\ prov.proc = lane[l].gen /\ Happens("refuse")
        /\ \E k \in OnWire(lane[l].id) : prov' = [prov EXCEPT !.wire = RemoveAt(@, k)]
        /\ Throw(l, "refused")
  /\ UNCHANGED <<db, actor, frames, host, got, wish>>

\* The end of run(), after the mailbox is flushed.
Settle(l) ==
  LET s == lane[l]
  IN  /\ At(l, "settling") /\ frames = <<>>
      /\ db' = IF s.err = "none" THEN Delivered(db, s.id, s.token)
               ELSE Undelivered(db, s.id, s.token, s.err, s.steered)
      /\ lane' = [lane EXCEPT ![l] = Idle]
      /\ UNCHANGED <<actor, frames, host, prov, spent, got, wish>>

-----------------------------------------------------------------------------
(* The provider process, and the frames it writes (external). *)

Frame(t) == [t |-> t, gen |-> prov.proc, id |-> 0, reset |-> FALSE]

Emit(fs) ==
  /\ Len(frames) + Len(fs) <= MaxFrames
  /\ frames' = frames \o fs

\* Takes an input: a steer at once, any other between turns.
Consume ==
  /\ prov.proc # 0 /\ Running
  /\ \E k \in DOMAIN prov.wire :
       LET i == prov.wire[k].id
       IN  /\ prov.wire[k].steer \/ (~prov.busy /\ \A j \in 1..(k - 1) : prov.wire[j].steer)
           /\ prov' = [prov EXCEPT !.wire = RemoveAt(@, k), !.busy = TRUE]
           /\ got' = [got EXCEPT ![i] = @ + 1]
           /\ Emit((IF Admits THEN <<[Frame("admit") EXCEPT !.id = i]>> ELSE <<>>)
                     \o (IF prov.busy THEN <<>> ELSE <<Frame("start")>>))
  /\ UNCHANGED <<db, lane, actor, host, spent, wish>>

\* A turn the provider starts by itself, saying so (background_completion) or not (unknown).
SelfStart ==
  /\ prov.proc # 0 /\ ~prov.busy /\ db.hasRun /\ Running /\ Happens("self")
  /\ prov' = [prov EXCEPT !.busy = TRUE]
  /\ \E t \in {"start", "wake"} : Emit(<<Frame(t)>>)
  /\ UNCHANGED <<db, lane, actor, host, got, wish>>

EndTurn ==
  /\ prov.proc # 0 /\ prov.busy /\ Running
  /\ prov' = [prov EXCEPT !.busy = FALSE]
  /\ \/ Emit(<<Frame("end")>>) /\ UNCHANGED spent
     \/ /\ Happens("quota")
        /\ \E reset \in BOOLEAN : Emit(<<[Frame("quota") EXCEPT !.reset = reset]>>)
  /\ UNCHANGED <<db, lane, actor, host, got, wish>>

Die ==
  /\ prov.proc # 0 /\ Running /\ Happens("die")
  /\ Emit(<<Frame("exit")>>)
  /\ prov' = NoProcess
  /\ UNCHANGED <<db, lane, actor, host, got, wish>>

-----------------------------------------------------------------------------
(* The actor folds its mailbox (actor.ts, provider-facts.ts, sessions.ts onExit). *)

Fold ==
  LET f == Head(frames)
      ended == TurnEnded(db, actor.gen)
  IN  /\ Running /\ frames # <<>>
      /\ frames' = Tail(frames)
      /\ CASE f.gen # actor.gen -> UNCHANGED <<db, actor>>
           [] f.gen = actor.gen /\ f.t = "admit" -> db' = InputAdmitted(db, f.id) /\ UNCHANGED actor
           [] f.gen = actor.gen /\ f.t \in {"start", "wake"} ->
                db' = TurnStarted(db, f.t = "wake") /\ UNCHANGED actor
           [] f.gen = actor.gen /\ f.t = "end" -> db' = TurnCompleted(ended) /\ UNCHANGED actor
           [] f.gen = actor.gen /\ f.t = "interrupted" -> db' = ended /\ UNCHANGED actor
           [] f.gen = actor.gen /\ f.t = "quota" ->
                /\ \E timer \in {"clear", "resume", "snooze"}, same \in BOOLEAN :
                     db' = LimitReached(ended, f.reset, timer, same)
                /\ UNCHANGED actor
           [] OTHER -> /\ db' = SessionExited(db, actor.gen, FALSE)
                       /\ actor' = Retire(actor)
      /\ UNCHANGED <<lane, host, prov, spent, got, wish>>

\* thread.interrupt on the control lane, for the Stop that was stored.
StopTurn ==
  /\ Running /\ actor.stop
  /\ \/ /\ actor.session = 0
        /\ actor' = [actor EXCEPT !.stop = FALSE,
                                  !.life = IF @ = "open" THEN "aborted" ELSE @]
        /\ UNCHANGED <<frames, prov, spent>>
     \/ /\ actor.session # 0
        /\ actor' = [actor EXCEPT !.stop = FALSE]
        /\ IF prov.busy
           THEN Emit(<<Frame("interrupted")>>) /\ prov' = [prov EXCEPT !.busy = FALSE]
           ELSE UNCHANGED <<frames, prov>>
        /\ UNCHANGED spent
     \/ /\ actor.session # 0 /\ Happens("interrupt")
        /\ BeginClose("stop")
        /\ UNCHANGED <<frames, prov>>
  /\ UNCHANGED <<db, lane, host, got, wish>>

-----------------------------------------------------------------------------
(* Commands, timers and account readings. *)

Command(e) == Running /\ Happens(e) /\ UNCHANGED <<lane, frames, host, prov, got>>
Wishes(w) == wish' = w

SendMessage(steer) ==
  /\ Command(IF steer THEN "steer" ELSE "send") /\ Unused(db) # {}
  /\ db' = AdmitSend(db, steer)
  /\ Wishes(IF wish = "stop" THEN "none" ELSE wish)
  /\ UNCHANGED actor

Stop ==
  /\ Command("stop")
  /\ db' = StopThread(db)
  /\ Wishes("stop")
  /\ actor' = [actor EXCEPT !.stop = TRUE]

Pause ==
  /\ Command("pause")
  /\ db' = PauseQueue(db)
  /\ Wishes("pause")
  /\ UNCHANGED actor

Resume ==
  /\ Command("resume") /\ MayResume(db) /\ Unused(db) # {}
  /\ db' = PersonResumes(db)
  /\ Wishes("none")
  /\ UNCHANGED actor

ChooseLimitAction ==
  /\ Command("limit")
  /\ \/ \E timer \in {"resume", "snooze"}, account \in {"unread", "blocked"} :
          MaySchedule(db, account) /\ db' = Schedule(db, timer)
     \/ MayCancelResume(db) /\ db' = CancelResume(db)
  /\ Wishes("none")
  /\ UNCHANGED actor

Edit ==
  /\ Command("edit")
  /\ \E i \in Editable(db), steer \in BOOLEAN :
       ~db.intent[i].uncertain /\ db' = EditEntry(db, i, steer)
  /\ UNCHANGED <<actor, wish>>

Discard ==
  /\ Command("remove")
  /\ \E i \in Editable(db) : db' = RemoveMessage(db, i)
  /\ UNCHANGED <<actor, wish>>

ResendMessage ==
  /\ Command("resend") /\ Unused(db) # {}
  /\ \E i \in UncertainOf(db) : db' = Resend(db, i)
  /\ UNCHANGED <<actor, wish>>

Move ==
  /\ Command("move") /\ UncertainOf(db) = {}
  /\ \E i \in WaitingOf(db, "send") :
       \E after \in {0} \cup (WaitingOf(db, "send") \ {i}) : db' = MoveMessage(db, i, after)
  /\ UNCHANGED <<actor, wish>>

Deadline ==
  /\ Running /\ db.q.timer # "none"
  /\ db.q.timer = "resume" => Unused(db) # {}
  /\ db' = TimerFires(db)
  /\ UNCHANGED <<lane, actor, frames, host, prov, spent, got, wish>>

AccountRecovered ==
  /\ Command("account")
  /\ db.q.limited /\ db.q.paused /\ db.q.reason = "limit" /\ ~Recovering(db)
  /\ db' = ClearLimit(db)
  /\ UNCHANGED <<actor, wish>>

-----------------------------------------------------------------------------
(* The daemon's crash and startup (restart.ts). *)

Crash ==
  /\ Happens("crash")
  /\ host' = [up |-> "threads", candidate |-> FALSE]
  /\ lane' = [l \in Lanes |-> Idle]
  /\ actor' = [NoActor EXCEPT !.gen = LatestGeneration(db)]
  /\ frames' = <<>>
  /\ prov' = NoProcess
  /\ UNCHANGED <<db, got, wish>>

Startup ==
  /\ \/ /\ host.up = "threads"
        /\ db' = RecoverThread(db)
        /\ host' = [up |-> "intents", candidate |-> RestartCandidate(db, RecoverThread(db))]
     \/ /\ host.up = "intents"
        /\ db' = RecoverIntents(db)
        /\ host' = [host EXCEPT !.up = "queues"]
     \/ /\ host.up = "queues" /\ (host.candidate => Unused(db) # {})
        /\ db' = DecideRestart(db, host.candidate)
        /\ host' = [up |-> "up", candidate |-> FALSE]
  /\ UNCHANGED <<lane, actor, frames, prov, spent, got, wish>>

-----------------------------------------------------------------------------

Deliver(l) ==
  \/ Choose(l) \/ ClaimIntent(l) \/ CloseLimited(l) \/ Open(l) \/ OpenEnds(l) \/ Inspect(l)
  \/ Verify(l) \/ BeginContinuation(l) \/ Dispatch(l) \/ SendReturns(l) \/ Settle(l)

Engine == \/ \E l \in Lanes : Deliver(l)
          \/ Fold \/ CloseEnds \/ StopTurn \/ Startup

Person == \/ \E steer \in BOOLEAN : SendMessage(steer)
          \/ Stop \/ Pause \/ Resume \/ ChooseLimitAction
          \/ Edit \/ Discard \/ ResendMessage \/ Move

Provider == Consume \/ EndTurn

Environment == \/ \E l \in Lanes : PrepareFails(l)
               \/ CloseFails \/ SelfStart \/ Die \/ Deadline \/ AccountRecovered \/ Crash

Next == Engine \/ Person \/ Provider \/ Environment

Spec == Init /\ [][Next]_vars

-----------------------------------------------------------------------------

Phases == {"idle", "chosen", "claimed", "closing", "opening", "opened", "preparing", "ready",
           "sending", "settling"}

\* The shape of every variable; the session, when there is one, is of the actor's current
\* generation (actor.ts retireGeneration, sessions.ts open and close).
TypeOK ==
  /\ db \in Database
  /\ lane \in [Lanes -> [pc: Phases, id: 0..MaxIntents, token: Nat, gen: Nat, steered: BOOLEAN,
                         cont: BOOLEAN, lim: BOOLEAN,
                         err: {"none", "deferred", "not_started", "refused", "other"}]]
  /\ actor \in [session: Nat, gen: Nat, life: {"none", "open", "aborted"}, closing: Nat,
                closer: {"none", "stop"} \cup Lanes, stop: BOOLEAN]
  /\ actor.session \in {0, actor.gen}
  /\ frames \in Seq([t: {"admit", "start", "wake", "end", "interrupted", "quota", "exit"}, gen: Nat,
                     id: 0..MaxIntents, reset: BOOLEAN])
  /\ host \in [up: {"up", "threads", "intents", "queues"}, candidate: BOOLEAN]
  /\ prov \in [proc: Nat, busy: BOOLEAN, wire: Seq([id: Ids, steer: BOOLEAN])]
  /\ spent \in [Events -> Nat]
  /\ got \in [Ids -> Nat]
  /\ wish \in {"none", "pause", "stop"}

Handed(i) == got[i] + Cardinality(OnWire(i))
Waiting(i) == db.intent[i].status \in WaitingStates
WaitingSend(i) == Waiting(i) /\ db.intent[i].kind = "send"

\* A provider never gets the same input twice, whichever lane, retry or restart delivers it.
AtMostOnce == \A i \in Ids : Handed(i) <= 1

\* What waits in the queue to be delivered was never handed to a provider before: a refusal, a
\* deferral or a restart only puts back what is certainly unsent (intent-delivery.ts run,
\* restart.ts recoverIntents).
NeverReplayed == \A i \in Ids : Waiting(i) => Handed(i) = 0

\* A queued message the engine settled as delivered was handed to the provider: the word of another
\* input never acknowledges it in its place (provider-facts.ts, the ack of repository.ts).  A
\* provider that names its inputs keeps to this; with one that does not, the start of a turn
\* acknowledges whoever waits, sent or not.
NoSilentLoss ==
  \A i \in Ids :
    /\ db.intent[i].kind = "send" /\ ~db.intent[i].steer
    /\ db.intent[i].status = "done" /\ ~db.intent[i].awaiting
    => Handed(i) > 0

\* Messages nobody steered or moved are taken in the order they were sent: no failure, deferral
\* or restart lets a later one overtake (index.ts work, queue-store.ts head).
OrderKept ==
  \A i, j \in Ids :
    i < j /\ WaitingSend(i) /\ db.intent[j].kind = "send" => got[j] = 0

\* Whoever awaits the provider's acknowledgement, and so keeps the queue waiting, is in a lane's
\* hands or was handed to the session whose end is still to be folded (intent-delivery.ts expire).
AwaitingLive ==
  Running =>
    \A i \in Awaiting(db) :
      \/ \E l \in Lanes : lane[l].id = i
      \/ /\ db.intent[i].sub = actor.gen
         /\ actor.gen \in {actor.session, actor.closing}

\* A captured continuation holds the queue until it is sent or dropped: queued messages never
\* overtake interrupted work (recovery.ts holdInterrupted, restart.ts).
ContinuationHeld == Running /\ db.q.cont => db.q.paused \/ Recovering(db)

\* An input of unknown fate never becomes runnable again by itself or by an edit: only a new
\* intent may carry it (queue-commands.ts resend, restart.ts recoverIntents).
UncertainNeverRuns ==
  [][\A i \in Ids : db.intent[i].uncertain => db'.intent[i].status \notin WaitingStates]_vars

\* The hold of a Stop or a pause stays until the person gives it up, whatever the provider, a
\* delivery in flight or a restart does (queue-store.ts reconcileUncertainty).
HoldKept == Running /\ wish # "none" => db.q.paused

\* A Stop holds the queue until the person's next message, resume or limit action: not the turn
\* it cut short, a lane in flight, a close that fails, a provider's death or a restart that comes
\* after it lets go of it, nor a continuation authorised before it (recovery.ts release, owns).
StopKept == Running /\ wish = "stop" => db.q.paused

\* A message does not let go of a Stop's hold, as docs/queue-and-recovery.md:75 says; the code
\* (handler.ts releaseInterruptedHold) does not keep it (README, section 6).
StopOutlivesSend ==
  [][db.q.paused /\ db.q.reason = "stopped" /\ (\E steer \in BOOLEAN : SendMessage(steer))
       => db'.q.paused]_vars

\* While the person's Stop stands, no lane enters the window between its last look at the hold and
\* the hand-over, neither with a queued message nor with a continuation authorised before it
\* (delivery.ts superseded, recovery.ts owns): only what was in that window already when the Stop
\* came may still go out.
StopFences ==
  [][wish = "stop" /\ wish' = "stop" =>
       \A l \in Lanes : lane'[l].pc = "ready" => lane[l].pc = "ready"]_vars

\* A continuation is not handed over while a pause stands that came after it was authorised,
\* as docs/queue-and-recovery.md:100 says; intent-delivery.ts resume does not keep it (README,
\* section 6).
PauseFences ==
  [][wish = "pause" => \A l \in Lanes :
       Row(l).kind = "resume" /\ lane[l].pc = "ready" => lane'[l].pc # "sending"]_vars

\* A limit's mark, its hold and core's quota evidence go together: no path drops the hold and
\* leaves the mark, or the mark and leaves nothing to clear (recovery.ts observe, lift, clearLimit).
LimitHolds == db.q.limited => db.q.paused /\ db.rootLimited

\* At most one recovery operation waits or runs: the person's resume, a deadline and an account
\* reading never start two continuations (queue-commands.ts, recovery.ts automatic).
OneRecovery ==
  \A i, j \in Ids :
    /\ {db.intent[i].kind, db.intent[j].kind} = {"resume"}
    /\ {db.intent[i].status, db.intent[j].status} \subseteq WaitingStates \cup {"running"}
    => i = j


\* Every message of a queue nothing holds leaves it, over provider deaths and turns the provider
\* starts by itself (index.ts work, steer-lane.ts run, intent-delivery.ts expire).
Drains ==
  \A i \in Ids : WaitingSend(i) ~> (~WaitingSend(i) \/ db.q.paused \/ db.q.limited)

-----------------------------------------------------------------------------

\* The engine's lanes, mailbox and startup run on the event loop; the provider works off its
\* input and ends its turns.
Fairness ==
  /\ \A l \in Lanes : WF_vars(Deliver(l))
  /\ WF_vars(Fold) /\ WF_vars(CloseEnds) /\ WF_vars(StopTurn) /\ WF_vars(Startup)
  /\ WF_vars(Consume) /\ WF_vars(EndTurn)

FairSpec == Spec /\ Fairness

-----------------------------------------------------------------------------
(* The inductive invariant behind TypeOK, LimitHolds and UncertainNeverRuns.  *)

\* A free row is blank, what waits awaits nothing, and an input of unknown fate was submitted and
\* does not wait.
RowInv(r) ==
  /\ r.kind = "none" => r.status = "none" /\ ~r.awaiting /\ ~r.uncertain /\ r.sub = 0
  /\ r.status \in WaitingStates => ~r.awaiting
  /\ r.uncertain => r.sub # 0 /\ r.status \notin WaitingStates

Marked(d) == d.q.limited => d.q.paused /\ d.rootLimited

Sound(d) == d \in Database /\ Marked(d) /\ \A i \in Ids : RowInv(d.intent[i])

\* Startup's first pass leaves what it marks open; the second settles it.
Settled(d) == \A i \in Ids : d.intent[i].uncertain => d.intent[i].status = "failed"
Unsettled(d) ==
  \A i \in Ids :
    d.intent[i].uncertain => d.intent[i].status \in {"failed", "running"} \/ d.intent[i].awaiting

\* A lane holds a row, and a claimed recovery operation never waits again while it does.
LaneInv(s) ==
  s.pc # "idle" =>
    LET r == db.intent[s.id]
    IN  /\ s.id # 0 /\ r.kind # "none"
        /\ r.kind = "resume" /\ s.pc # "chosen" => r.status \notin WaitingStates

QueueInv ==
  /\ TypeOK /\ Sound(db)
  /\ IF host.up \in {"up", "queues"} THEN Settled(db) ELSE Unsettled(db)
  /\ \A l \in Lanes : LaneInv(lane[l]) /\ (lane[l].pc # "idle" => Running)
  /\ actor.closer \in Lanes => lane[actor.closer].pc = "closing"
  /\ \A k \in DOMAIN frames : frames[k].t = "exit" => frames[k].gen # 0

-----------------------------------------------------------------------------
(* What AtMostOnce and NeverReplayed rest on, until a Stop puts back a row a lane still holds. *)

\* Input i is neither on wire w nor among those taken; no input is there twice.
Fresh(g, w, i) == g[i] = 0 /\ \A k \in DOMAIN w : w[k].id # i
Once(g, w) ==
  /\ \A j, k \in DOMAIN w : w[j].id = w[k].id => j = k
  /\ \A k \in DOMAIN w : g[w[k].id] = 0
  /\ \A i \in Ids : g[i] <= 1

\* A row no pass of startup puts back; one that also waits no more; and one with nothing begun.
Spent(r) == r.sub # 0 \/ (r.status = "failed" /\ ~r.awaiting)
Past(r) == r.status \notin WaitingStates /\ Spent(r)
Quiet(r) == r.status = "running" /\ ~r.awaiting /\ ~r.uncertain

Opening == {"claimed", "closing", "opening", "opened"}
Unsent == Opening \cup {"preparing", "ready"}
Refusals == {"deferred", "not_started", "refused"}

\* The lane has claimed its row; its input is not sent yet, or was refused.
Claimed(s) == s.pc \notin {"idle", "chosen"}
Keeps(s) == s.pc \in Unsent \/ s.err \in Refusals

\* What lane s may rely on about its row r and the actor's generation g.
LaneHolds(s, r, g) ==
  /\ r.status \notin WaitingStates
  /\ s.pc \in Unsent => r.status = "running" \/ Spent(r)
  /\ s.pc \in Opening /\ r.kind = "resume" => Quiet(r)
  /\ s.pc \in {"preparing", "ready"} => s.gen # 0 /\ g # 0

HandInv ==
  /\ Once(got, prov.wire)
  /\ \A i \in Ids : Fresh(got, prov.wire, i) \/ Past(db.intent[i])
  /\ \A l \in Lanes :
       /\ lane[l].pc # "settling" => lane[l].err = "none"
       /\ Claimed(lane[l]) => LaneHolds(lane[l], db.intent[lane[l].id], actor.gen)
       /\ Claimed(lane[l]) /\ Keeps(lane[l]) => Fresh(got, prov.wire, lane[l].id)
  /\ \A l, m \in Lanes :
       Claimed(lane[l]) /\ Claimed(lane[m]) /\ lane[l].id = lane[m].id => l = m

BeforeStop == spent["stop"] = 0 => HandInv
=============================================================================
