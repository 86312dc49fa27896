----------------------------- MODULE Automations -----------------------------
(***************************************************************************)
(* The runs of automations, from a fire to the inbox: the scheduler's own  *)
(* database and service (packages/automations: store.ts, service.ts,       *)
(* execution-owner.ts, cancellations.ts), the daemon's run records and the *)
(* monitor that follows and stops each run (automation-run-executor.ts,    *)
(* automation-run-record.ts, automation-run-monitor.ts,                    *)
(* automation-run-rules.ts), and of the engine what they look at: the fate *)
(* of a run's message, the thread's turn and the work a turn leaves behind *)
(* (input-fate.ts, delivery.ts).                                           *)
(*                                                                         *)
(* The two databases commit separately, every await is a step of its own,  *)
(* and a write that waits for the store may land in any order.  Runs are   *)
(* numbered in the order of their events; an event that fires again finds  *)
(* its row.  Left out: when a trigger is due, resent messages, deleted     *)
(* threads, inputs the engine has forgotten (fate "unknown"), work that    *)
(* cannot be stopped by itself, a person's Stop of an idle thread whose    *)
(* run is not over, and the service switched off and on below a daemon     *)
(* that goes on (README, section 6).                                       *)
(***************************************************************************)
EXTENDS Integers, FiniteSets

CONSTANTS
  Automations,   \* each has one thread
  MaxRuns,       \* how many events fire
  RunningLimit,  \* runs at a time over all automations (256 in the code)
  StopTries,     \* failed deliveries after which a stop is given up (5 in the code)
  MaxRoots,      \* provider runs of one turn
  MaxEvents      \* what the person and the world do: pauses, deletions, messages, Stops,
                 \* closed gates, failed writes, promotions and deliveries, lost inputs, crashes

ASSUME BoundsAssumption ==
  /\ {MaxRuns, RunningLimit, StopTries, MaxRoots} \subseteq Nat \ {0}
  /\ MaxEvents \in Nat
  /\ Automations # {}

Runs == 1..MaxRuns
Nobody == 0
Person == MaxRuns + 1   \* the person, or whoever began a turn that the engine knows no run for

VARIABLES
  rows,       \* the scheduler's rows of runs
  cancels,    \* its stored cancellations
  job,        \* each automation's definition: "none", "on" or "off"
  live, open, \* whether the service runs, and whether the daemon admits new work
  monitor,    \* the service's monitor of each run
  writes,     \* daemon writes that were asked for and have not landed
  retries,    \* cancellations whose hand-over failed
  record,     \* the daemon's records of runs
  stop,       \* the delivery of each run's last stop command
  fate,       \* the engine's word on each run's message
  turn,       \* whose turn runs in the automation's thread
  roots,      \* the provider runs of each run's turn so far
  work,       \* what a turn left: nothing, a task ("late" once another turn began), a
              \* wake to come, or the thread "held" to carry on after a restart, held until
              \* the person is "asked", or "stopped"
  last,       \* whether the turn's latest provider run completed
  reached,    \* a message whose delivery had no word: the provider may yet begin it ("maybe")
              \* or began it unseen ("begun")
  passed,     \* runs whose interrupt passed its guard and has not reached the root
  barred,     \* automations in whose thread the person's Stop stands
  outcome,    \* what the inbox says of a run
  missed,     \* waiting runs of which the latest promotion failed (history)
  cut,        \* runs of which a stop ended something (history)
  left        \* what may still happen

schedule == <<rows, cancels, job, outcome, missed>>
service == <<live, open, monitor, writes, retries>>
thread == <<turn, work, last, reached, barred>>
engine == <<stop, fate, thread, roots, passed, cut>>
vars == <<schedule, service, record, engine, left>>

Spend == left > 0 /\ left' = left - 1

-----------------------------------------------------------------------------
(* The scheduler's store.                                                   *)

Having(rs, a, s) == {r \in Runs : rs[r].of = a /\ rs[r].status = s}
Running(rs) == {r \in Runs : rs[r].status = "running"}

\* What a new fire becomes.
admission(active, waiting, total, file) ==
  CASE total >= RunningLimit -> "skipped"
    [] file /\ (active \/ waiting) -> "skipped"
    [] waiting -> "skipped"
    [] OTHER -> IF active THEN "queued" ELSE "running"

canPromote(rs, a, total) == Having(rs, a, "running") = {} /\ total < RunningLimit

\* drainWaiting: the oldest waiting run of each automation whose definition is on, oldest
\* first, where promote may start it; those before it that may start count as running.
\* The promotions of the automations in failing fail.
Drained(rs, failing) ==
  LET first == {r \in Runs : /\ rs[r].status = "queued" /\ job[rs[r].of] = "on"
                             /\ rs[r].of \notin failing
                             /\ \A q \in Having(rs, rs[r].of, "queued") : r <= q}
      ahead(r) == {q \in first : q < r /\ Having(rs, rs[q].of, "running") = {}}
      total(r) == Cardinality(Running(rs)) + Cardinality(ahead(r))
      promoted == {r \in first : canPromote(rs, rs[r].of, total(r))}
  IN  [r \in Runs |-> IF r \in promoted THEN [rs[r] EXCEPT !.status = "running"] ELSE rs[r]]

-----------------------------------------------------------------------------
NoMonitor == [at |-> "none", fate |-> "none", over |-> FALSE, says |-> "none"]
At(where) == [NoMonitor EXCEPT !.at = where]
Says(where, what) == [NoMonitor EXCEPT !.at = where, !.says = what]

\* ExecutionOwner.launch for the runs that drainWaiting or a fire starts.
Launch(before, after, ms) ==
  [r \in Runs |-> IF before[r].status # "running" /\ after[r].status = "running"
                  THEN At("executing") ELSE ms[r]]
Launched(before, after) ==
  {<<"admit", r>> : r \in {q \in Runs : before[q].status # "running" /\ after[q].status = "running"}}

\* drainWaiting and what it starts, after the rows became rs and the monitors ms.  A
\* promotion that fails is only reported, and the next one is tried.
DrainWaiting(rs, ms, ws) ==
  \E failing \in SUBSET (IF live' /\ open' THEN Automations ELSE {}) :
    LET drained == IF live' /\ open' THEN Drained(rs, failing) ELSE rs
        lost == {r \in Runs : drained[r].status = "queued" /\ rs[r].of \in failing}
    IN  /\ rows' = drained
        /\ monitor' = Launch(rs, drained, ms)
        /\ writes' = ws \cup Launched(rs, drained)
        /\ IF failing = {} THEN UNCHANGED left ELSE lost # {} /\ Spend
        /\ missed' = IF live' /\ open' THEN lost ELSE missed

Created == {r \in Runs : rows[r].status # "none"}

\* trigger, scheduled and poll: claim the next event and start its run.
Fire(a, file) ==
  /\ live /\ job[a] = "on" /\ Cardinality(Created) < MaxRuns
  /\ LET r == Cardinality(Created) + 1
         becomes == IF ~open THEN "skipped"
                    ELSE admission(Having(rows, a, "running") # {}, Having(rows, a, "queued") # {},
                                   Cardinality(Running(rows)), file)
         rs == [rows EXCEPT ![r] = [of |-> a, status |-> becomes]]
     IN  /\ ~(file /\ becomes = "skipped")
         /\ rows' = rs
         /\ monitor' = Launch(rows, rs, monitor)
         /\ writes' = writes \cup Launched(rows, rs)
  /\ UNCHANGED <<cancels, job, outcome, missed, live, open, retries, record, engine, left>>

\* The claim of an event whose prompt cannot be rendered: its run is stored as failed.
FireFails(a) ==
  /\ live /\ job[a] = "on" /\ Cardinality(Created) < MaxRuns /\ Spend
  /\ LET r == Cardinality(Created) + 1
     IN  /\ rows' = [rows EXCEPT ![r] = [of |-> a, status |-> "done"]]
         /\ outcome' = [outcome EXCEPT ![r] = "failed"]
  /\ UNCHANGED <<cancels, job, missed, service, record, engine>>

\* put of an enabled definition.
Enable(a) ==
  /\ job[a] # "on" /\ Spend
  /\ job' = [job EXCEPT ![a] = "on"]
  /\ UNCHANGED <<rows, cancels, outcome, missed, service, record, engine>>

\* Pause or delete: the definition, halt and, once committed, carryOut.
Halt(a, as) ==
  /\ job[a] # "none" /\ job[a] # as /\ Spend
  /\ job' = [job EXCEPT ![a] = as]
  /\ LET halts == job[a] = "on" \/ as = "none"
         hit == IF halts THEN Having(rows, a, "running") ELSE {}
     IN  /\ cancels' = cancels \cup hit
         /\ rows' = [r \in Runs |-> IF halts /\ r \in Having(rows, a, "queued")
                                    THEN [rows[r] EXCEPT !.status = "skipped"] ELSE rows[r]]
         /\ writes' = writes \cup (IF live THEN {<<"cancel", r>> : r \in hit} ELSE {})
  /\ UNCHANGED <<outcome, missed, live, open, monitor, retries, record, engine>>

\* Mutant: nothing drains what waited while the gate was closed.
OpenGateOnly ==
  /\ ~open /\ open' = TRUE
  /\ UNCHANGED <<schedule, live, monitor, writes, retries, record, engine, left>>

\* The daemon's admission gate; onReopen drains what waited.
CloseGate == open /\ Spend /\ open' = FALSE
             /\ UNCHANGED <<schedule, live, monitor, writes, retries, record, engine>>
OpenGate ==
  /\ ~open /\ open' = TRUE
  /\ UNCHANGED live
  /\ DrainWaiting(rows, monitor, writes)
  /\ UNCHANGED <<cancels, job, outcome, retries, record, engine>>

\* Mutant: start-up does not hand the standing cancellations over again.
StartWithoutCarryOut ==
  /\ ~live /\ live' = TRUE
  /\ UNCHANGED open
  /\ DrainWaiting(rows,
       [r \in Runs |-> IF r \in Running(rows) THEN At("recovering") ELSE NoMonitor], writes)
  /\ UNCHANGED <<cancels, job, outcome, retries, record, engine>>

\* AutomationService.start: restore, carryOut, drainWaiting.
Start ==
  /\ ~live /\ live' = TRUE
  /\ UNCHANGED open
  /\ DrainWaiting(rows,
       [r \in Runs |-> IF r \in Running(rows) THEN At("recovering") ELSE NoMonitor],
       writes \cup {<<"cancel", r>> : r \in cancels})
  /\ UNCHANGED <<cancels, job, outcome, retries, record, engine>>

-----------------------------------------------------------------------------
(* The run's record and its admission (automation-run-executor.ts).         *)

NoRecord == [thread |-> FALSE, cancel |-> "none", target |-> "none", aim |-> 0,
             tries |-> 0, wait |-> FALSE, error |-> FALSE]

\* What a monitor that waits for the admission write makes of it.
Admitted(r, m) == monitor' = [monitor EXCEPT ![r] = IF @.at = "executing" THEN m ELSE @]

\* The admission write of execute: idempotent, not after a cancellation, and refused in
\* a thread that the person stopped.
Admit(r) ==
  /\ <<"admit", r>> \in writes
  /\ writes' = writes \ {<<"admit", r>>}
  /\ \/ /\ ~record[r].thread /\ record[r].cancel = "none" /\ rows[r].of \notin barred
        /\ record' = [record EXCEPT ![r].thread = TRUE]
        /\ fate' = [fate EXCEPT ![r] = "waiting"]
        /\ Admitted(r, At("following"))
     \/ /\ record[r].thread
        /\ Admitted(r, At("following"))
        /\ UNCHANGED <<record, fate>>
     \/ /\ ~record[r].thread /\ record[r].cancel # "none"
        /\ Admitted(r, Says("settled", "unsent"))
        /\ UNCHANGED <<record, fate>>
     \/ /\ ~record[r].thread /\ record[r].cancel = "none" /\ rows[r].of \in barred
        /\ Admitted(r, Says("settled", "failed"))
        /\ UNCHANGED <<record, fate>>
  /\ UNCHANGED <<schedule, live, open, retries, stop, thread, roots, passed, cut, left>>

\* The write of interrupt: requestCancel, on a record or on a new one.
RequestCancel(r) ==
  /\ <<"cancel", r>> \in writes
  /\ writes' = writes \ {<<"cancel", r>>}
  /\ record' = [record EXCEPT ![r].cancel = IF @ = "none" THEN "requested" ELSE @]
  /\ UNCHANGED <<schedule, live, open, monitor, retries, engine, left>>

\* Cancellations.cancel again, after its delay.
RetryCancel(r) ==
  /\ r \in retries
  /\ retries' = retries \ {r}
  /\ writes' = writes \cup {<<"cancel", r>>}
  /\ UNCHANGED <<schedule, live, open, monitor, record, engine, left>>

\* recover: follow a run that was sent; send one that was not, unless it is cancelled.
Recover(r) ==
  /\ monitor[r].at = "recovering"
  /\ LET unsent == ~record[r].thread
     IN  /\ monitor' = [monitor EXCEPT ![r] = IF ~unsent THEN At("following")
                          ELSE IF r \in cancels THEN Says("settled", "unsent") ELSE At("executing")]
         /\ writes' = writes \cup (IF unsent /\ r \notin cancels THEN {<<"admit", r>>} ELSE {})
  /\ UNCHANGED <<schedule, live, open, retries, record, engine, left>>

\* Mutant: the finished run keeps its cancellation.
CompleteKeepingCancellation(r) ==
  /\ monitor[r].at = "settled"
  /\ UNCHANGED <<live, open>>
  /\ DrainWaiting([rows EXCEPT ![r].status = "done"], [monitor EXCEPT ![r] = NoMonitor], writes)
  /\ outcome' = [outcome EXCEPT ![r] = monitor[r].says]
  /\ UNCHANGED <<cancels, job, retries, record, engine>>

\* ExecutionOwner.complete: finish the row, then start what waited.  A finish that
\* fails keeps the outcome and is tried again.
Complete(r) ==
  /\ monitor[r].at = "settled"
  /\ UNCHANGED <<live, open>>
  /\ DrainWaiting([rows EXCEPT ![r].status = "done"], [monitor EXCEPT ![r] = NoMonitor], writes)
  /\ cancels' = cancels \ {r}
  /\ outcome' = [outcome EXCEPT ![r] = monitor[r].says]
  /\ UNCHANGED <<job, retries, record, engine>>

\* A write fails: the admission fails the run, a hand-over is tried again, and a
\* monitor looks again.
WriteFails(r) ==
  /\ Spend
  /\ \/ /\ <<"admit", r>> \in writes
        /\ writes' = writes \ {<<"admit", r>>}
        /\ Admitted(r, Says("settled", "failed"))
        /\ UNCHANGED retries
     \/ /\ <<"cancel", r>> \in writes
        /\ writes' = writes \ {<<"cancel", r>>}
        /\ retries' = IF r \in cancels THEN retries \cup {r} ELSE retries
        /\ UNCHANGED monitor
     \/ /\ monitor[r].at \in {"stopping", "settling"}
        /\ monitor' = [monitor EXCEPT ![r] = At("following")]
        /\ UNCHANGED <<writes, retries>>
  /\ UNCHANGED <<schedule, live, open, record, engine>>

-----------------------------------------------------------------------------
(* The monitor of a run (automation-run-monitor.ts, automation-run-rules.ts).*)

Tasks == {"task", "late"}
Thread(r) == rows[r].of
Ours(r) == turn[Thread(r)] = r

\* Mutant: an announced wake does not count as work.
TreeOverBeforeWake(r, cancelling) ==
  work[r] \in {"none", "waking"} \/ (work[r] = "stopped" /\ cancelling)

\* runTreeState: nothing the turn began works or waits on the person.
TreeOver(r, cancelling) == work[r] = "none" \/ (work[r] = "stopped" /\ cancelling)

\* Mutant: only an interrupt counts as having reached the run.
TurnStopReached(rec) == rec.cancel # "none" /\ (rec.target = "interrupt" \/ rec.tries > 0)

\* Whether a stop reached the run's work, not only was asked for.
stopReached(rec) == rec.cancel # "none" /\ (rec.target # "none" \/ rec.tries > 0)

\* decideRun, on the facts a look found and the record as it is now.
decideRun(seen, rec, r) ==
  LET stopped == rec.cancel \in {"requested", "sent"}
  IN  CASE seen.fate \in {"removed", "failed"} ->
             Says("settling", IF stopped THEN "unsent" ELSE "failed")
        [] seen.fate = "delivered" /\ seen.over ->
             Says("settling", IF ~stopReached(rec) /\ ~rec.error /\ last[r] = "completed"
                              THEN "succeeded" ELSE "failed")
        [] OTHER -> At("following")

\* inspect up to its stop: the message's fate, the turn and its work.  The write that
\* keeps the fate is left out: what is decided on it stays as it is.
Look(r) ==
  /\ monitor[r].at = "following" /\ record[r].thread
  /\ LET cancelling == record[r].cancel # "none"
         seen == [NoMonitor EXCEPT !.at = "stopping", !.fate = fate[r],
                                   !.over = ~Ours(r) /\ TreeOver(r, cancelling)]
     IN  monitor' = [monitor EXCEPT ![r] =
           IF record[r].cancel \in {"requested", "sent"} THEN seen
           ELSE decideRun(seen, record[r], r)]
  /\ UNCHANGED <<schedule, live, open, writes, retries, record, engine, left>>

\* stopPlan: what stopping the run means now.
stopPlan(r) ==
  CASE fate[r] \in {"waiting", "uncertain"} -> "remove"
    [] fate[r] = "sending" -> "wait"
    [] fate[r] \in {"removed", "failed"} -> "none"
    [] OTHER -> IF Ours(r) THEN "interrupt" ELSE IF work[r] \in Tasks THEN "work" ELSE "none"

\* The write of reconcileStop, as things stand now; then inspect looks again or decides.
ReconcileStop(r) ==
  /\ monitor[r].at = "stopping"
  /\ LET rec == record[r]
         plan == stopPlan(r)
         failed == rec.target # "none" /\ stop[r] = "failed"
         idle == failed \/ rec.error \/ rec.wait \/ plan \in {"wait", "none"}
                 \/ (rec.target = plan /\ rec.aim = roots[r])
         next == CASE failed ->
                        [rec EXCEPT !.target = "none", !.tries = @ + 1,
                                    !.wait = rec.tries + 1 < StopTries,
                                    !.error = rec.tries + 1 >= StopTries]
                   [] ~idle -> [rec EXCEPT !.cancel = "sent", !.target = plan, !.aim = roots[r]]
                   [] ~failed /\ ~rec.error /\ ~rec.wait /\ plan = "none" ->
                        [rec EXCEPT !.cancel = "sent"]
                   [] OTHER -> rec
     IN  /\ record' = [record EXCEPT ![r] = next]
         /\ stop' = [stop EXCEPT ![r] = IF failed THEN "none" ELSE IF idle THEN @
                                        ELSE IF plan = "remove" THEN "done" ELSE "pending"]
         /\ fate' = [fate EXCEPT ![r] = IF ~idle /\ plan = "remove" THEN "removed" ELSE @]
         /\ monitor' = [monitor EXCEPT ![r] =
              IF idle THEN decideRun(monitor[r], next, r) ELSE At("following")]
  /\ UNCHANGED <<schedule, live, open, writes, retries, thread, roots, passed, cut, left>>

\* The time stopFailed set has come.
RetryStop(r) ==
  /\ record[r].wait
  /\ record' = [record EXCEPT ![r].wait = FALSE]
  /\ UNCHANGED <<schedule, service, engine, left>>

\* The last write of inspect.
Settle(r) ==
  /\ monitor[r].at = "settling"
  /\ monitor' = [monitor EXCEPT ![r].at = "settled"]
  /\ record' = [record EXCEPT ![r].cancel = IF @ = "none" THEN "none" ELSE "acknowledged"]
  /\ UNCHANGED <<schedule, live, open, writes, retries, engine, left>>

-----------------------------------------------------------------------------
(* The engine: one send lane per thread, and the turns of the provider.     *)

\* The lane takes a message, unless the person's Stop holds the queue.
Take(r) ==
  /\ fate[r] = "waiting" /\ turn[Thread(r)] = Nobody /\ Thread(r) \notin barred
  /\ fate' = [fate EXCEPT ![r] = "sending"]
  /\ UNCHANGED <<schedule, service, record, stop, thread, roots, passed, cut, left>>

\* A provider run of r begins, and with it its turn.
Begins(r) ==
  /\ turn[Thread(r)] = Nobody
  /\ turn' = [turn EXCEPT ![Thread(r)] = r]
  /\ roots' = [roots EXCEPT ![r] = @ + 1]

Deliver(r) ==
  /\ fate[r] = "sending" /\ Begins(r)
  /\ fate' = [fate EXCEPT ![r] = "delivered"]
  /\ UNCHANGED <<schedule, service, record, stop, work, last, reached, barred, passed, cut, left>>

\* The input is not sent, or nobody knows whether it was.
DeliverFails(r) ==
  /\ fate[r] = "sending" /\ Spend
  /\ \/ /\ fate' = [fate EXCEPT ![r] = "failed"]
        /\ UNCHANGED reached
     \/ /\ fate' = [fate EXCEPT ![r] = "uncertain"]
        /\ reached' = [reached EXCEPT ![r] = "maybe"]
  /\ UNCHANGED <<schedule, service, record, stop, turn, work, last, barred, roots, passed, cut>>

\* What is left of the runs of a once a later turn begins in its thread: a wake belongs to
\* that turn, and what the thread was held for is dropped.
Overtaken(a) ==
  [r \in Runs |-> IF Thread(r) # a \/ work[r] = "none" THEN work[r]
                  ELSE IF work[r] \in Tasks THEN "late" ELSE "none"]

\* A message whose delivery had no word did reach the provider and begins.  The engine binds
\* it where the provider names its inputs and it is still uncertain; else the turn is nobody's.
Surfaces(r) ==
  /\ reached[r] = "maybe" /\ turn[Thread(r)] = Nobody
  /\ reached' = [reached EXCEPT ![r] = "begun"]
  /\ \/ /\ fate[r] = "uncertain" /\ Begins(r)
        /\ fate' = [fate EXCEPT ![r] = "delivered"]
        /\ UNCHANGED work
     \/ /\ turn' = [turn EXCEPT ![Thread(r)] = Person]
        /\ work' = Overtaken(Thread(r))
        /\ UNCHANGED <<fate, roots>>
  /\ UNCHANGED <<schedule, service, record, stop, last, barred, passed, cut, left>>

\* A turn ends; a run's may leave a task running.
EndTurn(a) ==
  /\ turn[a] # Nobody
  /\ turn' = [turn EXCEPT ![a] = Nobody]
  /\ IF turn[a] = Person THEN UNCHANGED <<work, last>>
     ELSE /\ \E w \in {"none", "task"} : work' = [work EXCEPT ![turn[a]] = w]
          /\ \E l \in {"completed", "failed"} : last' = [last EXCEPT ![turn[a]] = l]
  /\ UNCHANGED <<schedule, service, record, stop, fate, reached, barred, roots, passed, cut, left>>

\* A task ends, and may wake the agent for another run of the same turn, the latest.
TaskEnds(r) ==
  /\ work[r] \in Tasks
  /\ \E w \in {"none"} \cup (IF work[r] = "task" /\ roots[r] < MaxRoots THEN {"waking"} ELSE {}) :
       work' = [work EXCEPT ![r] = w]
  /\ UNCHANGED <<schedule, service, record, stop, fate, turn, last, reached, barred, roots, passed,
                 cut, left>>

\* The wake that was announced, or the continuation after a restart.
Wake(r) ==
  /\ work[r] \in {"waking", "held"} /\ Begins(r)
  /\ work' = [work EXCEPT ![r] = "none"]
  /\ UNCHANGED <<schedule, service, record, stop, fate, last, reached, barred, passed, cut, left>>

\* The continuation is not delivered: its hold is the person's from now on.
ResumeFails(r) ==
  /\ work[r] = "held" /\ Spend
  /\ work' = [work EXCEPT ![r] = "asked"]
  /\ UNCHANGED <<schedule, service, record, stop, fate, turn, last, reached, barred, roots, passed, cut>>

\* The person's own message starts a turn, and lifts their Stop.
PersonStarts(a) ==
  /\ turn[a] = Nobody /\ Spend
  /\ \A r \in Runs : Thread(r) = a => fate[r] # "sending"
  /\ turn' = [turn EXCEPT ![a] = Person]
  /\ work' = Overtaken(a)
  /\ barred' = barred \ {a}
  /\ UNCHANGED <<schedule, service, record, stop, fate, last, reached, roots, passed, cut>>

\* The person's Stop of the turn, or of the thread between two runs: it holds the thread
\* and turns runs away until they go on.
PersonStops(a) ==
  /\ turn[a] # Nobody \/ (Having(rows, a, "running") = {} /\ a \notin barred)
  /\ Spend
  /\ turn' = [turn EXCEPT ![a] = Nobody]
  /\ barred' = barred \cup {a}
  /\ work' = [r \in Runs |-> IF turn[a] = r THEN "stopped" ELSE work[r]]
  /\ last' = [r \in Runs |-> IF turn[a] = r THEN "failed" ELSE last[r]]
  /\ UNCHANGED <<schedule, service, record, stop, fate, reached, roots, passed, cut>>

\* The person resumes the thread: what they were asked for carries on, their Stop is lifted.
PersonResumes(a) ==
  /\ a \in barred \/ \E r \in Runs : Thread(r) = a /\ work[r] = "asked"
  /\ Spend
  /\ barred' = barred \ {a}
  /\ work' = [r \in Runs |-> IF Thread(r) # a THEN work[r]
                             ELSE CASE work[r] = "asked" -> "held"
                                    [] work[r] = "stopped" -> "none"
                                    [] OTHER -> work[r]]
  /\ UNCHANGED <<schedule, service, record, stop, fate, turn, last, reached, roots, passed, cut>>

PersonRemoves(r) ==
  /\ fate[r] \in {"waiting", "uncertain"} /\ Spend
  /\ fate' = [fate EXCEPT ![r] = "removed"]
  /\ UNCHANGED <<schedule, service, record, stop, thread, roots, passed, cut>>

\* Whether the interrupt or the stops of work still find what they were aimed at.
Hits(r) ==
  /\ roots[r] = record[r].aim
  /\ IF record[r].target = "interrupt" THEN Ours(r) ELSE work[r] \in Tasks

\* The provider interrupts the turn that runs in r's thread, whoever's it is.
Interrupts(r) ==
  LET hit == turn[Thread(r)]
  IN  /\ turn' = [turn EXCEPT ![Thread(r)] = Nobody]
      /\ cut' = cut \cup ({hit} \cap {r})
      /\ IF hit \in Runs
         THEN /\ \E w \in {"none", "task"} : work' = [work EXCEPT ![hit] = w]
              /\ last' = [last EXCEPT ![hit] = "failed"]
         ELSE UNCHANGED <<work, last>>

\* The engine delivers a run's stop: the guard of the interrupt is checked again.  Where the
\* provider's interrupt does not reach the turn's subagents, theirs are awaited before the root's.
DeliverStop(r) ==
  /\ stop[r] = "pending" /\ r \notin passed
  /\ stop' = [stop EXCEPT ![r] = "done"]
  /\ \/ /\ ~Hits(r)
        /\ UNCHANGED <<cut, turn, work, last, passed>>
     \/ /\ Hits(r) /\ record[r].target = "interrupt"
        /\ Interrupts(r) /\ UNCHANGED passed
     \/ /\ Hits(r) /\ record[r].target = "interrupt"
        /\ passed' = passed \cup {r}
        /\ UNCHANGED <<cut, turn, work, last>>
     \/ /\ Hits(r) /\ record[r].target = "work"
        /\ cut' = cut \cup {r}
        /\ work' = [work EXCEPT ![r] = "none"]
        /\ UNCHANGED <<turn, last, passed>>
  /\ UNCHANGED <<schedule, service, record, fate, reached, barred, roots, left>>

\* The interrupt of the root, when those of its subagents have ended.
InterruptRoot(r) ==
  /\ r \in passed
  /\ passed' = passed \ {r}
  /\ Interrupts(r)
  /\ UNCHANGED <<schedule, service, record, stop, fate, reached, barred, roots, left>>

StopFails(r) ==
  /\ Spend
  /\ \/ /\ stop[r] = "pending" /\ r \notin passed
        /\ stop' = [stop EXCEPT ![r] = "failed"] /\ UNCHANGED passed
     \/ /\ r \in passed /\ passed' = passed \ {r}
        /\ stop' = [stop EXCEPT ![r] = IF @ = "done" THEN "failed" ELSE @]
  /\ UNCHANGED <<schedule, service, record, fate, thread, roots, cut>>

\* The daemon dies, and its providers with it: both databases stay.  A thread whose turn,
\* task or wake was cut short carries on by itself, or waits for the person (restartDecision).
Crash ==
  /\ live /\ Spend
  /\ live' = FALSE /\ open' = TRUE
  /\ monitor' = [r \in Runs |-> NoMonitor] /\ writes' = {} /\ retries' = {}
  /\ \E f \in {"waiting", "uncertain"}, b \in {"no", "begun"}, held \in {"held", "asked"} :
       /\ f = "waiting" => b = "no"
       /\ fate' = [r \in Runs |-> IF fate[r] = "sending" THEN f ELSE fate[r]]
       /\ reached' = [r \in Runs |-> IF fate[r] = "sending" THEN b
                                     ELSE IF reached[r] = "maybe" THEN "no" ELSE reached[r]]
       /\ work' = [r \in Runs |-> IF Ours(r) \/ work[r] \in {"task", "waking", "held"} THEN held
                                  ELSE IF work[r] = "late" THEN "none" ELSE work[r]]
  /\ turn' = [a \in Automations |-> Nobody]
  /\ last' = [r \in Runs |-> IF Ours(r) THEN "failed" ELSE last[r]]
  /\ stop' = [r \in Runs |-> IF stop[r] = "pending" \/ (r \in passed /\ stop[r] = "done")
                             THEN "failed" ELSE stop[r]]
  /\ passed' = {}
  /\ UNCHANGED <<schedule, record, barred, roots, cut>>

-----------------------------------------------------------------------------
Init ==
  /\ rows = [r \in Runs |-> [of |-> CHOOSE a \in Automations : TRUE, status |-> "none"]]
  /\ cancels = {} /\ job = [a \in Automations |-> "on"]
  /\ outcome = [r \in Runs |-> "none"]
  /\ live = TRUE /\ open = TRUE
  /\ monitor = [r \in Runs |-> NoMonitor] /\ writes = {} /\ retries = {}
  /\ record = [r \in Runs |-> NoRecord]
  /\ stop = [r \in Runs |-> "none"] /\ fate = [r \in Runs |-> "none"]
  /\ turn = [a \in Automations |-> Nobody] /\ roots = [r \in Runs |-> 0]
  /\ work = [r \in Runs |-> "none"] /\ last = [r \in Runs |-> "none"]
  /\ reached = [r \in Runs |-> "no"] /\ barred = {} /\ passed = {} /\ missed = {}
  /\ cut = {} /\ left = MaxEvents

\* The monitor of a run goes from await to await.
Monitor(r) == Recover(r) \/ Look(r) \/ ReconcileStop(r) \/ Settle(r) \/ Complete(r)

Lane(r) == Take(r) \/ Deliver(r) \/ Wake(r)

Next ==
  \/ \E a \in Automations : \/ \E file \in BOOLEAN : Fire(a, file)
                            \/ FireFails(a) \/ Enable(a) \/ Halt(a, "off") \/ Halt(a, "none")
                            \/ EndTurn(a) \/ PersonStarts(a) \/ PersonStops(a) \/ PersonResumes(a)
  \/ CloseGate \/ OpenGate \/ Start \/ Crash
  \/ \E r \in Runs : \/ Admit(r) \/ RequestCancel(r) \/ RetryCancel(r) \/ WriteFails(r)
                     \/ Monitor(r) \/ RetryStop(r) \/ Lane(r) \/ DeliverFails(r) \/ Surfaces(r)
                     \/ TaskEnds(r) \/ ResumeFails(r) \/ PersonRemoves(r)
                     \/ DeliverStop(r) \/ InterruptRoot(r) \/ StopFails(r)

\* The service is started again and the gate reopens, awaits and timers end, and the
\* engine delivers.  Nothing says that a turn or a task ends, or that anybody acts: not
\* even that a person who was asked after a restart lets the thread carry on.
Fairness ==
  /\ WF_vars(Start) /\ WF_vars(OpenGate)
  /\ \A r \in Runs : /\ WF_vars(Admit(r)) /\ WF_vars(RequestCancel(r))
                     /\ WF_vars(RetryCancel(r)) /\ WF_vars(RetryStop(r))
                     /\ WF_vars(Monitor(r)) /\ WF_vars(Lane(r))
                     /\ WF_vars(DeliverStop(r)) /\ WF_vars(InterruptRoot(r))

Spec == Init /\ [][Next]_vars /\ Fairness

-----------------------------------------------------------------------------
\* What each part holds; a row that never fired has no monitor, record or message.
TypeOK ==
  /\ \A r \in Runs :
       /\ rows[r].of \in Automations
       /\ rows[r].status \in {"none", "queued", "running", "done", "skipped"}
       /\ (monitor[r].at # "none") => (live /\ rows[r].status = "running")
       /\ (live /\ rows[r].status = "running") => monitor[r].at # "none"
       /\ fate[r] = "none" <=> ~record[r].thread
       /\ roots[r] \in 0..(MaxRoots + MaxEvents) /\ record[r].tries \in 0..StopTries
  /\ cancels \subseteq Running(rows)
  /\ \A a \in Automations : turn[a] \in {Nobody, Person} \cup {r \in Runs : Thread(r) = a}

\* Something of the run may still reach the provider or works there, as the engine knows it.
Works(r) ==
  \/ fate[r] \in {"waiting", "sending", "uncertain"}
  \/ Ours(r) \/ work[r] \in Tasks \cup {"waking", "held", "asked"}

\* Every run of an automation goes into its one thread, so only one is at work at a
\* time (decisions.ts:56-58), and none after the inbox says that it is over.
OneAtATime ==
  /\ \A r, q \in Runs : r # q /\ Thread(r) = Thread(q) => ~(Works(r) /\ Works(q))
  /\ \A r \in Runs : rows[r].status = "done" => ~Works(r)

\* What the inbox says agrees with what ace did, whatever was on its way when the run was
\* stopped and however the stop and its retries went: a run that it says was stopped before it
\* started is not on its way any more and will not be sent (automation-run-executor.ts:40-41),
\* and the engine saw no provider run of it; one of which its own stop cut something short
\* did not succeed (automation-run-rules.ts:156).  It does not speak of what the provider does
\* unseen with a message whose delivery is uncertain: a run called unsent may have begun there.
InboxTells ==
  \A r \in Runs :
    /\ outcome[r] = "unsent" =>
         roots[r] = 0 /\ fate[r] \notin {"waiting", "sending"} /\ <<"admit", r>> \notin writes
    /\ outcome[r] = "succeeded" => r \notin cut

\* A run that was paused or deleted ends although no turn and no task ends by itself
\* (cancellations.ts:5-9), or its stop is given up after its tries, or a restart left its
\* thread waiting for the person (automation-run-rules.ts:42-43), or its message is with the
\* provider behind someone else's turn (automation-run-rules.ts:198).
Stops ==
  \A r \in Runs :
    (r \in cancels) ~> \/ rows[r].status = "done" \/ record[r].error
                       \/ work[r] = "asked" \/ (fate[r] = "sending" /\ turn[Thread(r)] = Person)

\* What the provider and the person owe: turns and work end, a message whose delivery is
\* uncertain is decided, and a Stop is lifted.
Owed ==
  /\ \A a \in Automations : []<>(turn[a] = Nobody) /\ []<>(a \notin barred)
  /\ \A r \in Runs : []<>(work[r] = "none") /\ []<>(fate[r] # "uncertain")

\* If what they owe comes, every run that runs or waits is over, unless the promotion of a run
\* that waited failed the last time it was tried.
Finishes ==
  Owed => \A r \in Runs : (rows[r].status \in {"queued", "running"})
                          ~> (rows[r].status \in {"done", "skipped"} \/ r \in missed)

-----------------------------------------------------------------------------
(* What comments of the code say and the code does not do (README, section 6). *)

\* A run that the inbox says was stopped before it started (automation-run-rules.ts:131) was
\* not begun by the provider: an uncertain message is the person's to decide (input-fate.ts:8).
UnsentNeverBegan == \A r \in Runs : outcome[r] = "unsent" => roots[r] = 0 /\ reached[r] # "begun"

\* The delivery of a run's stop ends that run's turn or nobody's: it can never land on a turn
\* someone started meanwhile (automation-run-rules.ts:204-207).
NoCollateral ==
  [][\A r \in Runs : DeliverStop(r) \/ InterruptRoot(r) =>
       \A a \in Automations : turn'[a] # turn[a] => turn[a] = r]_vars

\* If what they owe comes, the waiting run of an automation starts once the one before it is
\* done (service.ts:72-73), or is skipped.
WaitingStarts == Owed => \A r \in Runs : (rows[r].status = "queued") ~> (rows[r].status # "queued")

-----------------------------------------------------------------------------
(* The inductive invariant behind TypeOK, OneAtATime and InboxTells.         *)

Fates == {"none", "waiting", "sending", "uncertain", "delivered", "removed", "failed"}
Outcomes == {"none", "unsent", "failed", "succeeded"}
Statuses == {"none", "queued", "running", "done", "skipped"}
Monitors == [at: {"none", "executing", "recovering", "following", "stopping", "settling", "settled"},
             fate: Fates, over: BOOLEAN, says: Outcomes]
Records == [thread: BOOLEAN, cancel: {"none", "requested", "sent", "acknowledged"},
            target: {"none", "remove", "interrupt", "work"}, aim: Nat, tries: Nat,
            wait: BOOLEAN, error: BOOLEAN]

Types ==
  /\ rows \in [Runs -> [of: Automations, status: Statuses]]
  /\ cancels \in SUBSET Runs /\ retries \in SUBSET Runs /\ cut \in SUBSET Runs
  /\ passed \in SUBSET Runs /\ missed \in SUBSET Runs /\ barred \in SUBSET Automations
  /\ job \in [Automations -> {"none", "on", "off"}]
  /\ live \in BOOLEAN /\ open \in BOOLEAN
  /\ monitor \in [Runs -> Monitors]
  /\ writes \in SUBSET ({"admit", "cancel"} \X Runs)
  /\ record \in [Runs -> Records]
  /\ stop \in [Runs -> {"none", "pending", "done", "failed"}]
  /\ fate \in [Runs -> Fates] /\ outcome \in [Runs -> Outcomes]
  /\ turn \in [Automations -> 0..(MaxRuns + 1)]
  /\ roots \in [Runs -> Nat]
  /\ work \in [Runs -> Tasks \cup {"none", "waking", "held", "asked", "stopped"}]
  /\ last \in [Runs -> {"none", "completed", "failed"}]
  /\ reached \in [Runs -> {"no", "maybe", "begun"}]
  /\ left \in 0..MaxEvents

\* The rows were claimed in the order of their numbers, one of each automation runs, and
\* only a run that runs has a cancellation.
RowsInv ==
  /\ \E n \in 0..MaxRuns : \A r \in Runs : rows[r].status # "none" <=> r <= n
  /\ \A r, q \in Runs : /\ rows[r].status = "running" /\ rows[q].status = "running"
                        /\ rows[r].of = rows[q].of
                        => r = q
  /\ cancels \subseteq Running(rows)
  /\ \A a \in Automations : turn[a] \in Runs => rows[turn[a]].of = a

\* A run has a monitor while it runs, and a message once it is admitted.  What began
\* was delivered.
LifeInv(r) ==
  /\ monitor[r].at # "none" <=> live /\ rows[r].status = "running"
  /\ <<"admit", r>> \in writes => monitor[r].at = "executing"
  /\ monitor[r].at = "executing" => ~record[r].thread
  /\ fate[r] = "none" <=> ~record[r].thread
  /\ record[r].thread => rows[r].status \in {"running", "done"}
  /\ fate[r] # "delivered" => roots[r] = 0 /\ ~Ours(r) /\ work[r] = "none"

\* No stop was sent, or none that counts.
Untouched(r) == record[r].target = "none" /\ record[r].tries = 0

\* What was said of a run, or is about to be.
Told(r, what) ==
  /\ ~Works(r)
  /\ what = "unsent" => fate[r] # "delivered"
  /\ what = "succeeded" => Untouched(r)

\* What a monitor saw before an await still holds after it.
SeenInv(r) ==
  /\ monitor[r].at \in {"settling", "settled"} => Told(r, monitor[r].says)
  /\ monitor[r].at = "stopping" =>
       /\ monitor[r].fate \in {"removed", "failed"} => fate[r] = monitor[r].fate
       /\ monitor[r].fate = "delivered" => fate[r] = "delivered"
       /\ monitor[r].fate = "delivered" /\ monitor[r].over => ~Works(r)
  /\ rows[r].status = "done" => Told(r, outcome[r])
  /\ outcome[r] # "none" => rows[r].status = "done"

\* A stop that was sent, failed, passed its guard or hit leaves its mark on the record.
StopInv(r) ==
  /\ ~Untouched(r) => record[r].cancel # "none"
  /\ stop[r] # "none" => record[r].target # "none"
  /\ r \in cut \cup passed => ~Untouched(r)
  /\ record[r].error => record[r].target = "none"
  /\ record[r].tries <= StopTries /\ (record[r].tries = StopTries => record[r].error)

\* A provider run was begun for each wake of a turn, and after a restart.
Due(r) == IF work[r] \in {"waking", "held", "asked"} THEN 1 ELSE 0
RootsInv(r) == roots[r] + Due(r) + left <= MaxRoots + MaxEvents

RunInv(r) == LifeInv(r) /\ SeenInv(r) /\ StopInv(r) /\ RootsInv(r)

AutomationsInv == Types /\ RowsInv /\ \A r \in Runs : RunInv(r)
=============================================================================
