----------------------------- MODULE IntentQueue -----------------------------
(***************************************************************************)
(* The durable half of one thread's queue (apps/daemon/src/engine): its    *)
(* rows of the intents table and of engine_queue, and what each engine     *)
(* transaction does to them.  A transaction is an operator from a database *)
(* d to a database; a handler is their composition, so what a crash leaves *)
(* behind is exactly one of these values.                                  *)
(*                                                                         *)
(* Abstracted: the content of a message; the instant of a reset, of which  *)
(* only "known" or "unknown" matters; the revision, which makes a command  *)
(* written against an older queue fail without effect.  Two intent kinds   *)
(* stand for the rest: "send" (thread.send, thread.create) and "resume"    *)
(* (thread.resume, queue.resume, thread.limit resume_now).                 *)
(***************************************************************************)
EXTENDS Integers, FiniteSets, FiniteSetsExt

CONSTANTS
  MaxIntents,         \* bound: rows of the intents table
  MaxRestartResumes,  \* automatic restart continuations in a row
  Resumable           \* the provider can reopen its native session

ASSUME QueueAssumption ==
  /\ MaxIntents \in Nat \ {0}
  /\ MaxRestartResumes \in Nat
  /\ Resumable \in BOOLEAN

Ids == 1..MaxIntents
WaitingStates == {"pending", "queued"}

Intent == [kind: {"none", "send", "resume"}, steer: BOOLEAN,
           status: {"none", "pending", "queued", "running", "done", "failed"},
           cancelled: BOOLEAN, awaiting: BOOLEAN, target: 0..MaxIntents,
           acked: BOOLEAN, uncertain: BOOLEAN, sub: Nat, pos: Nat]

Queue == [paused: BOOLEAN,
          reason: {"none", "manual", "stopped", "limit", "snooze", "restart",
                   "uncertain", "not_sent"},
          limited: BOOLEAN, reset: BOOLEAN,
          timer: {"none", "resume", "snooze", "clear"},
          cont: BOOLEAN, trigger: {"none", "restart", "limit_resume"}, token: Nat]

(***************************************************************************)
(* root is the engineRecovery record (0: none); run and hasRun are the     *)
(* root agent's active turn and whether it ever had one; rootLimited is    *)
(* the quota evidence core keeps for the root; admits is the engineAdmission *)
(* record: the provider names each input it takes.                         *)
(***************************************************************************)
Database == [intent: [Ids -> Intent], q: Queue, root: 0..MaxIntents,
             run: BOOLEAN, hasRun: BOOLEAN, rootLimited: BOOLEAN, admits: BOOLEAN,
             streak: Nat]

NoIntent ==
  [kind |-> "none", steer |-> FALSE, status |-> "none", cancelled |-> FALSE,
   awaiting |-> FALSE, target |-> 0, acked |-> FALSE, uncertain |-> FALSE,
   sub |-> 0, pos |-> 0]

EmptyDatabase ==
  [intent |-> [i \in Ids |-> NoIntent],
   q |-> [paused |-> FALSE, reason |-> "none", limited |-> FALSE, reset |-> FALSE,
          timer |-> "none", cont |-> FALSE, trigger |-> "none", token |-> 0],
   root |-> 0, run |-> FALSE, hasRun |-> FALSE, rootLimited |-> FALSE, admits |-> FALSE,
   streak |-> 0]

-----------------------------------------------------------------------------
(* Queries (intents.ts, queue-store.ts). *)

WaitingOf(d, kind) ==
  {i \in Ids : d.intent[i].kind = kind /\ d.intent[i].status \in WaitingStates}

Awaiting(d) == {i \in Ids : d.intent[i].awaiting}
UncertainOf(d) == {i \in Ids : d.intent[i].uncertain}
Unused(d) == {i \in Ids : d.intent[i].kind = "none"}

\* ORDER BY position, id
Before(d, i, j) ==
  \/ d.intent[i].pos < d.intent[j].pos
  \/ d.intent[i].pos = d.intent[j].pos /\ i < j
\* Mutant of First: the newest row is taken for the head.
LastOf(d, S) == CHOOSE i \in S : \A j \in S \ {i} : Before(d, j, i)
First(d, S) == CHOOSE i \in S : \A j \in S \ {i} : Before(d, i, j)

\* The entries the person sees and may act on.
Editable(d) == WaitingOf(d, "send") \cup UncertainOf(d)

UncertainContinuation(d) == d.root # 0 /\ d.intent[d.root].uncertain

RecoveryAcknowledgement(d) ==
  /\ d.root # 0
  /\ \/ d.intent[d.root].acked
     \/ d.intent[d.root].uncertain
     \/ d.intent[d.root].awaiting /\ d.intent[d.root].status # "failed"

UnconfirmedContinuation(d) ==
  /\ d.root # 0
  /\ ~d.intent[d.root].acked
  /\ d.intent[d.root].sub # 0
  /\ d.intent[d.root].awaiting \/ d.intent[d.root].uncertain

Recovering(d) ==
  \/ RecoveryAcknowledgement(d)
  \/ \E i \in Ids : d.intent[i].kind = "resume" /\ d.intent[i].status \in {"pending", "running"}

StoppedHold(d) == d.q.paused /\ d.q.reason = "stopped"

\* lostWorkLines: a turn, or a continuation the provider took, was live.
LostWork(d, continuation) == d.hasRun /\ (d.run \/ continuation)

LatestGeneration(d) == Max({d.intent[i].sub : i \in Ids})

-----------------------------------------------------------------------------
(* Row updates (intents.ts, queue-store.ts). *)

OnIntents(d, S, Step(_)) ==
  [d EXCEPT !.intent = [i \in Ids |-> IF i \in S THEN Step(d.intent[i]) ELSE d.intent[i]]]

Position(d) ==
  LET live == {i \in Ids : \/ d.intent[i].status \in WaitingStates \cup {"running"}
                           \/ d.intent[i].uncertain}
  IN  1 + Max({0} \cup {d.intent[i].pos : i \in live})

Add(d, kind, steer) ==
  [d EXCEPT !.intent[Min(Unused(d))] =
     [NoIntent EXCEPT !.kind = kind, !.steer = steer, !.status = "pending", !.pos = Position(d)]]

Mark(d, S, status) ==
  OnIntents(d, S, LAMBDA r : [r EXCEPT !.status = status, !.cancelled = FALSE,
                                       !.awaiting = @ /\ status # "failed"])

\* mark(intent, "failed", "Cancelled before delivery")
Cancel(d, S) ==
  OnIntents(d, S, LAMBDA r : [r EXCEPT !.status = "failed", !.cancelled = TRUE, !.awaiting = FALSE])

Defer(d, S) ==
  OnIntents(d, S, LAMBDA r : [r EXCEPT !.status = "queued", !.awaiting = FALSE, !.target = 0,
                                       !.sub = 0, !.uncertain = FALSE])

Requeue(d, i) ==
  OnIntents(d, {i}, LAMBDA r : [r EXCEPT !.status = "queued", !.steer = FALSE, !.awaiting = FALSE,
                                         !.target = 0, !.sub = 0, !.uncertain = FALSE])

RemoveEntry(d, i) ==
  OnIntents(d, {i}, LAMBDA r : [r EXCEPT !.status = "failed", !.uncertain = FALSE,
                                         !.awaiting = FALSE, !.cancelled = FALSE])

BeginSend(d, i, target) ==
  [d EXCEPT !.root = IF target # 0 /\ d.intent[i].kind = "resume" THEN i ELSE @,
            !.intent[i].awaiting = (target # 0),
            !.intent[i].target = target]

Submit(d, i, generation) ==
  IF d.intent[i].status = "running" THEN [d EXCEPT !.intent[i].sub = generation] ELSE d

MarkUncertain(d, S) == OnIntents(d, S, LAMBDA r : [r EXCEPT !.uncertain = TRUE])
ClearUncertain(d, S) == OnIntents(d, S, LAMBDA r : [r EXCEPT !.uncertain = FALSE])

Hold(d, reason) == [d EXCEPT !.q.paused = TRUE, !.q.reason = reason]
Unhold(d) == [d EXCEPT !.q.paused = FALSE, !.q.reason = "none"]
NewToken(d) == [d EXCEPT !.q.token = @ + 1]
NoTimer(d) == [d EXCEPT !.q.timer = "none"]
Continuation(d, trigger) == [d EXCEPT !.q.cont = TRUE, !.q.trigger = trigger]
NoContinuation(d) == [d EXCEPT !.q.cont = FALSE, !.q.trigger = "none"]
FinishContinuation(d) == [d EXCEPT !.root = 0]

ReconcileUncertainty(d) ==
  IF d.q.reason = "uncertain" /\ UncertainOf(d) = {}
  THEN Hold(d, CASE d.q.limited -> "limit"
                 [] ~d.q.limited /\ d.q.cont ->
                      IF d.q.trigger = "limit_resume" THEN "limit" ELSE "restart"
                 [] OTHER -> "manual")
  ELSE d

-----------------------------------------------------------------------------
(* Uncertain inputs whose moment has passed (stale-inputs.ts). *)

ReleaseUncertainHold(d) ==
  CASE d.q.reason # "uncertain" \/ UncertainOf(d) # {} -> d
    [] d.q.reason = "uncertain" /\ UncertainOf(d) = {} /\ (d.q.limited \/ d.q.cont) ->
         ReconcileUncertainty(d)
    [] OTHER -> Unhold(d)

RetireEndedTurnInputs(d, generation) ==
  LET ended == {i \in UncertainOf(d) : /\ d.intent[i].kind = "send"
                                       /\ d.intent[i].sub = generation}
  IN  IF ended = {} THEN d ELSE ReleaseUncertainHold(ClearUncertain(d, ended))

RetireUncertainInputs(d) ==
  LET cleared == ClearUncertain(d, UncertainOf(d))
  IN  CASE UncertainOf(d) = {} -> d
        [] UncertainOf(d) # {} /\ UncertainContinuation(d) ->
             ReleaseUncertainHold(NoContinuation(FinishContinuation(cleared)))
        [] OTHER -> ReleaseUncertainHold(cleared)

-----------------------------------------------------------------------------
(* Limits and holds (recovery.ts). *)

\* The limit.cleared fact: observe() drops the limited mark with the evidence.
LimitCleared(d) ==
  IF d.rootLimited THEN [d EXCEPT !.rootLimited = FALSE, !.q.limited = FALSE] ELSE d

\* Mutant of Lift: the limited mark survives its hold.
LiftKeepingMark(d) ==
  NewToken(Unhold(NoTimer(NoContinuation([FinishContinuation(d) EXCEPT !.q.reset = FALSE]))))


Lift(d) ==
  LimitCleared(
    NewToken(Unhold(NoTimer(NoContinuation(
      [FinishContinuation(d) EXCEPT !.q.limited = FALSE, !.q.reset = FALSE])))))

ClearLimit(d) ==
  LimitCleared(
    IF d.q.timer \in {"resume", "snooze"}
    THEN [d EXCEPT !.q.limited = FALSE, !.q.reset = FALSE]
    ELSE NoTimer([d EXCEPT !.q.limited = FALSE, !.q.reset = TRUE, !.q.reason = "manual"]))

ReleaseLimitHold(d) ==
  LET cleared == ~d.q.limited /\ d.q.reason = "manual" /\ d.q.reset
  IN  IF /\ d.q.paused
         /\ d.q.reason \in {"limit", "snooze"} \/ cleared
         /\ UncertainOf(d) = {} /\ ~Recovering(d)
      THEN Lift(d)
      ELSE d

\* handler.ts: a send carries on a stopped or interrupted turn.
ReleaseInterruptedHold(d) ==
  IF /\ d.q.paused /\ ~d.q.limited
     /\ d.q.reason \in {"restart", "stopped"}
     /\ UncertainOf(d) = {} /\ ~Recovering(d)
  THEN NewToken(Unhold(NoContinuation(FinishContinuation(d))))
  ELSE d

\* Mutant of HoldInterrupted: the continuation is stored without the hold.
CaptureWithoutHold(d) ==
  IF UncertainContinuation(d) \/ StoppedHold(d) THEN d
  ELSE NewToken(Continuation(d, IF d.q.trigger = "none" THEN "restart" ELSE d.q.trigger))

HoldInterrupted(d) ==
  IF UncertainContinuation(d) \/ StoppedHold(d) THEN d
  ELSE LET kept == d.q.paused /\ d.q.reason # "none"
           held == Hold(d, IF kept THEN d.q.reason ELSE "restart")
       IN  NewToken(Continuation(held, IF d.q.trigger = "none" THEN "restart" ELSE d.q.trigger))

\* captureWith: the continuation of live work that is about to be cut short.
Capture(d) ==
  IF /\ ~UncertainContinuation(d) /\ ~StoppedHold(d)
     /\ LostWork(d, RecoveryAcknowledgement(d))
  THEN Continuation(d, "restart")
  ELSE d

\* observe() on a turn that ended on quota; `timer` is the limit policy's choice.  Nothing changes
\* for the limit it knows already, without a reset or with the same one.
LimitReached(d, reset, timer, same) ==
  LET held == NewToken(Hold(d, "limit"))
  IN  IF d.q.limited /\ d.q.reset = reset /\ (reset => same)
      THEN [d EXCEPT !.rootLimited = TRUE]
      ELSE Continuation(
             [held EXCEPT !.rootLimited = TRUE, !.q.limited = TRUE, !.q.reset = reset,
                          !.q.timer = IF reset THEN timer ELSE "none"],
             IF d.q.trigger = "none" THEN "limit_resume" ELSE d.q.trigger)

\* observe() on a completed turn: the account could work.
TurnCompleted(d) ==
  LET ok == [d EXCEPT !.streak = 0, !.rootLimited = FALSE]
  IN  CASE ~d.q.limited -> ok
        [] d.q.limited /\ d.q.paused /\ d.q.reason = "limit" /\ ~Recovering(d) -> Lift(ok)
        [] OTHER -> [ok EXCEPT !.q.limited = FALSE]

Owns(d, token) == d.q.token = token

\* Mutant of Release: a hold taken since the continuation began is released with the old one.
ReleaseAnyHold(d, token) ==
  IF d.q.token >= token THEN NoTimer(Unhold([d EXCEPT !.q.limited = FALSE])) ELSE d

Release(d, token) ==
  IF Owns(d, token) THEN NoTimer(Unhold([d EXCEPT !.q.limited = FALSE])) ELSE d

-----------------------------------------------------------------------------
(* Provider facts (provider-facts.ts, repository.ts). *)

Acknowledge(d, S) ==
  OnIntents(d, S, LAMBDA r : [r EXCEPT !.awaiting = FALSE, !.acked = TRUE])

\* The `correlated` statement: one intent the provider took for certain.
Confirm(d, i) ==
  OnIntents(d, {i}, LAMBDA r : [r EXCEPT !.awaiting = FALSE, !.acked = TRUE, !.uncertain = FALSE,
                                         !.status = IF r.uncertain THEN "done" ELSE @])

ReleaseConfirmedHold(d) ==
  IF d.q.reason = "uncertain" /\ UncertainOf(d) = {} /\ ~d.q.limited /\ ~d.q.cont
  THEN Unhold(d) ELSE d

\* Mutant of InputAdmitted: an admission acknowledges whoever waits, not the input it names.
AdmitAnyone(d, i) ==
  ReleaseConfirmedHold(Acknowledge([d EXCEPT !.admits = TRUE], Awaiting(d) \cup ({i} \ Ids)))

\* input.admitted names the input.  From then on a turn that starts acknowledges nothing.
InputAdmitted(d, i) ==
  LET marked == [d EXCEPT !.admits = TRUE]
  IN  IF d.intent[i].sub # 0 /\ (d.intent[i].awaiting \/ d.intent[i].uncertain)
      THEN ReleaseConfirmedHold(Confirm(marked, i))
      ELSE marked

\* A root turn started.  Unless the provider says it woke up by itself, or names its inputs, the
\* turn acknowledges whoever awaits one, whatever started it.
TurnStarted(d, woke) ==
  LET continued == d.q.trigger # "none" /\ RecoveryAcknowledgement(d)
      started == [d EXCEPT !.run = TRUE, !.hasRun = TRUE]
      acks == ~d.admits /\ (continued \/ ~woke)
      taken == {i \in Awaiting(d) : acks /\ d.intent[i].target = d.intent[Min(Awaiting(d))].target}
      confirms == acks /\ Awaiting(d) = {} /\ UncertainContinuation(d) /\ d.intent[d.root].sub # 0
      acked == IF confirms THEN Confirm(started, d.root) ELSE Acknowledge(started, taken)
      after == IF continued THEN FinishContinuation(NoContinuation(acked)) ELSE acked
  IN  IF taken # {} \/ confirms \/ continued THEN ReleaseConfirmedHold(after) ELSE after

TurnEnded(d, generation) == RetireEndedTurnInputs([d EXCEPT !.run = FALSE], generation)

\* Mutant of Expire: a lost continuation is captured, a lost send forgotten.
ExpireContinuationOnly(d, generation) ==
  IF RecoveryAcknowledgement(d) /\ ~UnconfirmedContinuation(d) /\ generation >= 0
  THEN NewToken(Hold(FinishContinuation(Capture(d)), IF d.q.limited THEN "limit" ELSE "restart"))
  ELSE d

\* Sends and continuations a session took without confirming, when it is over.
Expire(d, generation) ==
  LET held == IF RecoveryAcknowledgement(d) /\ ~UnconfirmedContinuation(d)
              THEN LET captured == FinishContinuation(Capture(d))
                   IN  NewToken(Hold(captured, IF captured.q.limited THEN "limit" ELSE "restart"))
              ELSE d
      lost == {i \in Awaiting(held) : /\ held.intent[i].sub = generation
                                      /\ ~held.intent[i].acked}
  IN  IF lost = {} THEN held
      ELSE Hold(Mark(MarkUncertain(held, lost), lost, "failed"), "uncertain")

SessionExited(d, generation, deliberate) ==
  LET expired == Expire(d, generation)
      ended == [expired EXCEPT !.run = FALSE]
  IN  IF ~deliberate /\ LostWork(expired, FALSE) THEN HoldInterrupted(ended) ELSE ended

-----------------------------------------------------------------------------
(* Commands the person sends (handler.ts, queue-commands.ts). *)

\* thread.send: new direction, and the go-ahead past every hold but a pause or a failed send.
AdmitSend(d, steer) ==
  Add(ReleaseLimitHold(ReleaseInterruptedHold(RetireUncertainInputs([d EXCEPT !.streak = 0]))),
      "send", steer)

\* Mutant of CancelPending: a recovery operation that waits is left runnable.
CancelSendsOnly(d) ==
  LET taken == {i \in Ids : /\ d.intent[i].kind = "send"
                            /\ d.intent[i].status = "running" \/ d.intent[i].awaiting}
      unsent == {i \in taken : d.intent[i].sub = 0 /\ ~d.intent[i].acked}
  IN  Defer(Cancel(d, taken \ unsent), unsent)

\* thread.interrupt of the whole thread: cancelPending, then the Stop's hold.
CancelPending(d) ==
  LET taken == {i \in Ids : /\ d.intent[i].kind = "send"
                            /\ d.intent[i].status = "running" \/ d.intent[i].awaiting}
      unsent == {i \in taken : d.intent[i].sub = 0 /\ ~d.intent[i].acked}
  IN  Defer(Cancel(d, WaitingOf(d, "resume") \cup (taken \ unsent)), unsent)

StopThread(d) ==
  LET held == NoTimer(NewToken(Hold(CancelPending(d), "stopped")))
  IN  [held EXCEPT !.q.limited = FALSE, !.q.reset = FALSE, !.rootLimited = FALSE]

PauseQueue(d) ==
  LET resumes == {i \in WaitingOf(d, "resume") : d.intent[i].status = "pending"}
      held == NoTimer(NewToken(Hold(Mark(d, resumes, "failed"), "manual")))
  IN  [held EXCEPT !.q.reset = @ /\ d.q.limited]

\* Mutant of MayResume: a recovery operation under way does not count.
MayAlwaysResume(d) == UncertainOf(d) = {}

MayResume(d) == UncertainOf(d) = {} /\ ~Recovering(d)

ResumeQueue(d) ==
  NoTimer(NewToken(Hold(Add(d, "resume", FALSE),
                        IF d.q.reason = "none" THEN "manual" ELSE d.q.reason)))

\* thread.resume and queue.resume of the person start a fresh run for the loop guard.
PersonResumes(d) == ResumeQueue([d EXCEPT !.streak = 0])

\* thread.limit resume_at_reset / snooze_until_reset: a reset to come is known, from the account's
\* reading or, without one, from the limit the thread met (a cleared limit's reset has passed).
MaySchedule(d, account) == account = "blocked" \/ (account = "unread" /\ d.q.limited /\ d.q.reset)
Schedule(d, timer) ==
  [NewToken(Hold(d, IF timer = "resume" THEN "limit" ELSE "snooze")) EXCEPT !.q.timer = timer]

\* thread.limit cancel_resume
MayCancelResume(d) == d.q.paused /\ d.q.reason = "limit" /\ d.q.timer = "resume"
CancelResume(d) == [NewToken(d) EXCEPT !.q.timer = IF d.q.limited THEN "clear" ELSE "none"]

\* A hold on a message that was not sent goes with that message.
ReleasesHold(d, i) ==
  /\ d.q.paused /\ d.q.reason = "not_sent"
  /\ ~d.q.cont /\ ~d.q.limited
  /\ First(d, Editable(d)) = i

EditEntry(d, i, steer) ==
  LET edited == [d EXCEPT !.intent[i].steer = steer]
  IN  ReconcileUncertainty(IF ReleasesHold(d, i) THEN Unhold(edited) ELSE edited)

RemoveMessage(d, i) ==
  LET removed == RemoveEntry(d, i)
      freed == IF ReleasesHold(d, i) THEN Unhold(removed) ELSE removed
  IN  ReconcileUncertainty(
        IF d.intent[i].kind = "resume" THEN NoContinuation(FinishContinuation(freed)) ELSE freed)

\* Mutant of Resend: the uncertain row itself is queued again.
ResendInPlace(d, i) == ReconcileUncertainty(Requeue(d, i))

\* An explicit resend replaces the uncertain entry by a new intent.
Resend(d, i) ==
  LET continuation == d.intent[i].kind = "resume"
      heldContinuation == continuation /\ d.q.paused /\ d.q.reason # "uncertain"
      removed == IF continuation THEN FinishContinuation(RemoveEntry(d, i)) ELSE RemoveEntry(d, i)
      added == IF heldContinuation THEN removed ELSE Add(removed, d.intent[i].kind, d.intent[i].steer)
  IN  ReconcileUncertainty(
        IF /\ d.q.reason = "uncertain" /\ UncertainOf(added) = {}
           /\ ~d.q.limited /\ ~d.q.cont
        THEN Unhold(added)
        ELSE added)

\* Person reordering: positions 1..n over the waiting sends, i placed after `after` (0: first).
MoveMessage(d, i, after) ==
  LET others == WaitingOf(d, "send") \ {i}
      rank(j) == Cardinality({k \in others : Before(d, k, j)})
      front == IF after = 0 THEN 0 ELSE rank(after) + 1
      place(j) == CASE j = i -> front + 1
                    [] j # i /\ rank(j) < front -> rank(j) + 1
                    [] OTHER -> rank(j) + 2
  IN  [d EXCEPT !.intent =
        [j \in Ids |-> IF j \in others \cup {i}
                       THEN [d.intent[j] EXCEPT !.pos = place(j)]
                       ELSE d.intent[j]]]

\* The one deadline timer (recovery.ts fire, automatic).
TimerFires(d) ==
  CASE d.q.timer = "snooze" -> NoTimer([d EXCEPT !.q.reason = "manual"])
    [] d.q.timer = "clear" -> ClearLimit(d)
    [] d.q.timer = "resume" /\ MayResume(d) -> ResumeQueue(NoTimer(d))
    [] OTHER -> NoTimer(d)

-----------------------------------------------------------------------------
(* What a delivery leaves behind (intent-delivery.ts). *)

Claim(d, i, steers) ==
  LET claimed == Mark(d, {i}, "running")
      target == CASE ~steers -> i
                  [] steers /\ d.run -> 0
                  [] steers /\ ~d.run /\ Awaiting(d) # {} -> d.intent[Min(Awaiting(d))].target
                  [] OTHER -> i
  IN  IF d.intent[i].kind = "send" THEN BeginSend(claimed, i, target) ELSE claimed

RetainInput(d, i) ==
  LET kept == BeginSend(Mark(ClearUncertain(d, {i}), {i}, "queued"), i, 0)
  IN  IF d.q.limited THEN kept ELSE NoTimer(Hold(kept, "not_sent"))

\* fail(): a failed recovery operation leaves a manual hold, an uncertain one does not.
Fail(d, i, uncertain) ==
  LET failed == Mark(d, {i}, "failed")
  IN  IF d.intent[i].kind = "resume" /\ ~uncertain THEN Hold(failed, "manual") ELSE failed

\* The return of run(): delivered, unless Stop or the person took the intent meanwhile.  A
\* continuation's release and its mark, each after a flush of its own, are one step.
Delivered(d, i, token) ==
  LET released == IF d.intent[i].kind = "resume" THEN Release(d, token) ELSE d
  IN  IF d.intent[i].status = "running" THEN Mark(released, {i}, "done") ELSE released

\* The catch of run(), after the mailbox is flushed.  `error` is what was thrown: "deferred"
\* (DeliveryDeferred), "not_started" (DeliveryNotStarted), "refused" (InputRejected), "other".
Undelivered(d, i, token, error, steered) ==
  LET r == d.intent[i]
      send == r.kind = "send"
      unsent == error = "not_started" \/ r.sub = 0
      stopped == r.sub = 0 /\ d.q.reason = "stopped"
      uncertain == Fail(MarkUncertain(d, {i}), i, TRUE)
  IN  CASE r.status = "failed" -> d
        [] r.status # "failed" /\ r.acked ->
             LET done == Mark(d, {i}, "done") IN IF send THEN done ELSE Release(done, token)
        [] r.status # "failed" /\ ~r.acked /\ send /\ (error = "deferred" \/ stopped) ->
             ReconcileUncertainty(Defer(d, {i}))
        [] r.status # "failed" /\ ~r.acked /\ send /\ ~stopped /\ error = "refused" /\ steered ->
             Requeue(d, i)
        [] r.status # "failed" /\ ~r.acked /\ send /\ ~stopped
             /\ error \in {"refused", "not_started", "other"}
             /\ (error = "refused" \/ unsent) /\ ~(error = "refused" /\ steered) ->
             RetainInput(d, i)
        [] r.status # "failed" /\ ~r.acked /\ ~send /\ unsent -> Fail(d, i, FALSE)
        [] OTHER -> IF Owns(d, token) THEN Hold(uncertain, "uncertain") ELSE uncertain

-----------------------------------------------------------------------------
(* Startup's three passes over the stored thread (restart.ts). *)

\* The continuation of the work the restart cut short, behind no Stop.
RecoverThread(d) ==
  LET cut == {i \in Ids : /\ d.intent[i].kind = "resume"
                          /\ d.intent[i].sub # 0 /\ ~d.intent[i].acked
                          /\ d.intent[i].status = "running" \/ d.intent[i].awaiting}
      marked == MarkUncertain(d, cut)
      dropped == IF StoppedHold(marked) /\ marked.q.trigger = "restart"
                 THEN NoContinuation(marked) ELSE marked
      captured == Capture(dropped)
      finished == IF UncertainContinuation(captured) THEN captured
                  ELSE FinishContinuation(captured)
  IN  [finished EXCEPT !.run = FALSE]

\* Whether that continuation may be sent without the person: nothing held the queue before.
RestartCandidate(before, after) == ~before.q.paused /\ after.q.cont /\ after.q.trigger = "restart"

\* Mutant of RecoverIntents: a row of unknown fate counts as unsent.
RequeueUncertain(d) ==
  LET open == {i \in Ids : d.intent[i].status = "running" \/ d.intent[i].awaiting}
      unsent == {i \in open : d.intent[i].sub = 0 /\ ~d.intent[i].acked}
  IN  Defer(Mark(d, open \ unsent, "failed"), unsent \cup UncertainOf(d))

\* Mutant of RecoverIntents: every open row goes back to the queue.
RequeueAllOpen(d) ==
  Defer(d, {i \in Ids : d.intent[i].status = "running" \/ d.intent[i].awaiting})

\* Pass 2.  The code has a transaction for each intent and no await between them; a pass that a
\* crash cuts short is made again, and finds nothing to do for the rows it had settled.
RecoverIntents(d) ==
  LET open == {i \in Ids : d.intent[i].status = "running" \/ d.intent[i].awaiting}
      unsent == {i \in open : d.intent[i].sub = 0 /\ ~d.intent[i].acked}
      sent == open \ unsent
      unsure == {i \in sent : ~d.intent[i].acked}
      failed == Mark(MarkUncertain(Defer(d, unsent), unsure), sent, "failed")
  IN  IF \E i \in sent : d.intent[i].kind = "resume" THEN Hold(failed, "manual") ELSE failed

\* restartDecision (restart-resume.ts)
MayContinue(d) ==
  /\ UncertainOf(d) = {} /\ d.q.reason # "not_sent"
  /\ Resumable
  /\ d.streak < MaxRestartResumes

HoldAtStartup(d) ==
  IF WaitingOf(d, "send") \cup WaitingOf(d, "resume") \cup UncertainOf(d) = {} /\ ~d.q.cont
  THEN d
  ELSE Hold(d, CASE d.q.reason \in {"stopped", "not_sent"} -> d.q.reason
                 [] d.q.reason \notin {"stopped", "not_sent"} /\ UncertainOf(d) # {} -> "uncertain"
                 [] d.q.reason \notin {"stopped", "not_sent"} /\ UncertainOf(d) = {} ->
                      CASE d.q.limited -> "limit"
                        [] ~d.q.limited /\ d.q.cont -> "restart"
                        [] OTHER -> "not_sent")

DecideRestart(d, candidate) ==
  LET held == HoldAtStartup(d)
      counted == [held EXCEPT !.streak = @ + 1]
  IN  CASE ~candidate \/ ~MayContinue(held) -> held
        [] candidate /\ MayContinue(held) /\ MayResume(counted) -> ResumeQueue(counted)
        [] OTHER -> counted

=============================================================================
