-------------------------- MODULE AutomationsProofs --------------------------
(***************************************************************************)
(* For every set of automations, number of runs and limits: of the runs of *)
(* one automation one is at work at a time, and the inbox tells what came  *)
(* of each.                                                                *)
(***************************************************************************)
EXTENDS Automations, FiniteSetTheorems, TLAPS

Rows == [of: Automations, status: Statuses]

\* Runs are numbers, and neither nobody nor the person is one.
LEMMA RunFacts ==
  /\ MaxRuns \in Nat /\ Runs \subseteq Nat /\ Runs \subseteq 0..(MaxRuns + 1)
  /\ Nobody \in 0..(MaxRuns + 1) /\ Person \in 0..(MaxRuns + 1)
  /\ Nobody \notin Runs /\ Person \notin Runs /\ Nobody # Person
  /\ \A x \in 0..(MaxRuns + 1) : x = Nobody \/ x = Person \/ x \in Runs
BY BoundsAssumption DEF Runs, Nobody, Person

\* Where a monitor is.
LEMMA MonitorFacts ==
  /\ NoMonitor \in Monitors /\ NoMonitor.at = "none"
  /\ At("executing") \in Monitors /\ At("executing").at = "executing"
  /\ At("recovering") \in Monitors /\ At("recovering").at = "recovering"
  /\ At("following") \in Monitors /\ At("following").at = "following"
  /\ \A what \in Outcomes :
       /\ Says("settled", what) \in Monitors /\ Says("settling", what) \in Monitors
       /\ Says("settled", what).at = "settled" /\ Says("settled", what).says = what
       /\ Says("settling", what).at = "settling" /\ Says("settling", what).says = what
BY DEF NoMonitor, At, Says, Monitors, Fates, Outcomes

-----------------------------------------------------------------------------
(* The rows. *)

\* One run of each automation runs.
OneRuns(rs) ==
  \A r, q \in Runs : rs[r].status = "running" /\ rs[q].status = "running" /\ rs[r].of = rs[q].of
                     => r = q

\* The rows with a number up to n are the ones that were claimed.
ClaimedTo(rs, n) == \A r \in Runs : rs[r].status # "none" <=> r <= n

\* drainWaiting starts waiting runs of automations of which none runs, one of each.
LEMMA DrainedFacts ==
  ASSUME NEW rs \in [Runs -> Rows], NEW failing
  PROVE  /\ Drained(rs, failing) \in [Runs -> Rows]
         /\ \A r \in Runs :
              \/ Drained(rs, failing)[r] = rs[r]
              \/ /\ rs[r].status = "queued" /\ Drained(rs, failing)[r].of = rs[r].of
                 /\ Drained(rs, failing)[r].status = "running"
         /\ OneRuns(rs) => OneRuns(Drained(rs, failing))
<1> DEFINE first == {r \in Runs : /\ rs[r].status = "queued" /\ job[rs[r].of] = "on"
                                  /\ rs[r].of \notin failing
                                  /\ \A q \in Having(rs, rs[r].of, "queued") : r <= q}
           ahead(r) == {q \in first : q < r /\ Having(rs, rs[q].of, "running") = {}}
           total(r) == Cardinality(Running(rs)) + Cardinality(ahead(r))
           promoted == {r \in first : canPromote(rs, rs[r].of, total(r))}
           D == Drained(rs, failing)
<1>1. D = [r \in Runs |-> IF r \in promoted THEN [rs[r] EXCEPT !.status = "running"] ELSE rs[r]]
  BY DEF Drained
<1>2. promoted \subseteq first OBVIOUS
<1>3. \A r \in promoted : Having(rs, rs[r].of, "running") = {} BY DEF canPromote
<1> HIDE DEF promoted
<1>4. \A r \in first : /\ r \in Runs /\ rs[r].status = "queued"
                       /\ \A q \in Having(rs, rs[r].of, "queued") : r <= q
  OBVIOUS
<1> HIDE DEF first, D
<1>5. \A r \in Runs : rs[r] \in Rows /\ [rs[r] EXCEPT !.status = "running"] \in Rows
  BY DEF Rows, Statuses
<1>6. D \in [Runs -> Rows] BY <1>1, <1>5
<1>7. \A r \in Runs : r \notin promoted => D[r] = rs[r] BY <1>1
<1>8. \A r \in promoted : /\ r \in Runs /\ rs[r].status = "queued" /\ D[r].of = rs[r].of
                          /\ D[r].status = "running"
  BY <1>1, <1>2, <1>4, <1>5 DEF Rows
<1>9. ASSUME OneRuns(rs), NEW r \in Runs, NEW q \in Runs, D[r].status = "running",
             D[q].status = "running", D[r].of = D[q].of
      PROVE  r = q
  <2>1. D[r].of = rs[r].of /\ D[q].of = rs[q].of BY <1>7, <1>8
  <2>2. CASE r \in promoted /\ q \in promoted
    <3>1. r \in Having(rs, rs[q].of, "queued") /\ q \in Having(rs, rs[r].of, "queued")
      BY <1>8, <1>9, <2>1, <2>2 DEF Having
    <3>2. r <= q /\ q <= r BY <1>2, <1>4, <2>2, <3>1
    <3>3. r \in Nat /\ q \in Nat BY RunFacts
    <3> QED BY <3>2, <3>3
  <2>3. CASE r \in promoted /\ q \notin promoted
    <3>1. q \in Having(rs, rs[r].of, "running") BY <1>7, <1>9, <2>1, <2>3 DEF Having
    <3> QED BY <1>3, <2>3, <3>1
  <2>4. CASE r \notin promoted /\ q \in promoted
    <3>1. r \in Having(rs, rs[q].of, "running") BY <1>7, <1>9, <2>1, <2>4 DEF Having
    <3> QED BY <1>3, <2>4, <3>1
  <2>5. CASE r \notin promoted /\ q \notin promoted BY <1>7, <1>9, <2>5 DEF OneRuns
  <2> QED BY <2>2, <2>3, <2>4, <2>5
<1>10. OneRuns(rs) => OneRuns(D) BY <1>9 DEF OneRuns
<1> QED BY <1>6, <1>7, <1>8, <1>10 DEF D

\* What may still happen becomes less.
LEMMA SpendFacts ==
  ASSUME left \in 0..MaxEvents, Spend
  PROVE  left' \in 0..MaxEvents /\ left' <= left
BY BoundsAssumption DEF Spend

\* The rows being rs, drainWaiting left run r as it was, or started it.
LeftOrStarted(rs, ms, ws, r) ==
  \/ /\ rows'[r] = rs[r] /\ monitor'[r] = ms[r]
     /\ <<"admit", r>> \in writes' => <<"admit", r>> \in ws
  \/ /\ live' /\ rs[r].status = "queued"
     /\ rows'[r].of = rs[r].of /\ rows'[r].status = "running"
     /\ monitor'[r] = At("executing")

\* What drainWaiting does to each run: nothing, or it starts it.
LEMMA DrainWaitingFacts ==
  ASSUME NEW rs \in [Runs -> Rows], NEW ms \in [Runs -> Monitors],
         NEW ws \in SUBSET ({"admit", "cancel"} \X Runs), DrainWaiting(rs, ms, ws)
  PROVE  /\ rows' \in [Runs -> Rows] /\ monitor' \in [Runs -> Monitors]
         /\ writes' \in SUBSET ({"admit", "cancel"} \X Runs)
         /\ OneRuns(rs) => OneRuns(rows')
         /\ \A r \in Runs : LeftOrStarted(rs, ms, ws, r)
         /\ left \in 0..MaxEvents => left' \in 0..MaxEvents /\ left' <= left
         /\ missed \in SUBSET Runs => missed' \in SUBSET Runs
<1>0. PICK failing \in SUBSET (IF live' /\ open' THEN Automations ELSE {}) :
        LET drained == IF live' /\ open' THEN Drained(rs, failing) ELSE rs
            lost == {r \in Runs : drained[r].status = "queued" /\ rs[r].of \in failing}
        IN  /\ rows' = drained
            /\ monitor' = Launch(rs, drained, ms)
            /\ writes' = ws \cup Launched(rs, drained)
            /\ IF failing = {} THEN UNCHANGED left ELSE lost # {} /\ Spend
            /\ missed' = IF live' /\ open' THEN lost ELSE missed
  BY DEF DrainWaiting
<1> DEFINE D == IF live' /\ open' THEN Drained(rs, failing) ELSE rs
           lost == {r \in Runs : D[r].status = "queued" /\ rs[r].of \in failing}
<1>1. /\ rows' = D /\ monitor' = Launch(rs, D, ms) /\ writes' = ws \cup Launched(rs, D)
      /\ left' = left \/ Spend
      /\ missed' = lost \/ missed' = missed
  BY <1>0
<1>7. missed \in SUBSET Runs => missed' \in SUBSET Runs BY <1>1
<1>8. left \in 0..MaxEvents => left' \in 0..MaxEvents /\ left' <= left BY <1>1, SpendFacts
<1>2. /\ D \in [Runs -> Rows]
      /\ \A r \in Runs : \/ D[r] = rs[r]
                         \/ /\ live' /\ rs[r].status = "queued" /\ D[r].of = rs[r].of
                            /\ D[r].status = "running"
      /\ OneRuns(rs) => OneRuns(D)
  BY DrainedFacts
<1> HIDE DEF D
<1>3. monitor' \in [Runs -> Monitors] BY <1>1, MonitorFacts DEF Launch
<1>4. Launched(rs, D) \subseteq {"admit", "cancel"} \X Runs BY DEF Launched
<1>5. \A r \in Runs : <<"admit", r>> \in Launched(rs, D) =>
        rs[r].status # "running" /\ D[r].status = "running"
  BY DEF Launched
<1>6. ASSUME NEW r \in Runs
      PROVE  LeftOrStarted(rs, ms, ws, r)
  <2>1. CASE D[r] = rs[r]
    <3>1. monitor'[r] = ms[r] BY <1>1, <2>1 DEF Launch
    <3>2. <<"admit", r>> \in writes' => <<"admit", r>> \in ws BY <1>1, <1>5, <2>1
    <3> QED BY <1>1, <2>1, <3>1, <3>2 DEF LeftOrStarted
  <2>2. CASE /\ live' /\ rs[r].status = "queued" /\ D[r].of = rs[r].of
             /\ D[r].status = "running"
    <3>1. monitor'[r] = At("executing") BY <1>1, <2>2 DEF Launch
    <3> QED BY <1>1, <2>2, <3>1 DEF LeftOrStarted
  <2> QED BY <1>2, <2>1, <2>2
<1> QED BY <1>1, <1>2, <1>3, <1>4, <1>6, <1>7, <1>8

\* A write that is asked for.
LEMMA WriteFacts ==
  /\ \A r \in Runs : <<"admit", r>> \in {"admit", "cancel"} \X Runs
  /\ \A r \in Runs : <<"cancel", r>> \in {"admit", "cancel"} \X Runs
  /\ \A r, q \in Runs : <<"admit", q>> # <<"cancel", r>>
OBVIOUS

-----------------------------------------------------------------------------
(* Steps that concern one run. *)

\* Nothing of run q that RunInv speaks of changes, but that a pending admission may end.
Untold(q) ==
  /\ rows'[q] = rows[q] /\ outcome'[q] = outcome[q]
  /\ monitor'[q] = monitor[q] /\ record'[q] = record[q] /\ stop'[q] = stop[q]
  /\ fate'[q] = fate[q] /\ roots'[q] = roots[q] /\ work'[q] = work[q]
  /\ Ours(q)' = Ours(q)
  /\ q \in (cut \cup passed)' => q \in cut \cup passed
  /\ <<"admit", q>> \in writes' => <<"admit", q>> \in writes

\* What RunInv says of a run does not depend on the others.
LEMMA RunSame ==
  ASSUME Types, Types', NEW q \in Runs, RunInv(q), Untold(q), live' = live, left' <= left
  PROVE  RunInv(q)'
<1>1. LifeInv(q)' BY DEF RunInv, LifeInv, Untold
<1>2. Works(q)' <=> Works(q) BY DEF Works, Untold
<1>3. Untouched(q)' <=> Untouched(q) BY DEF Untouched, Untold
<1>4. \A what : Told(q, what) => Told(q, what)' BY <1>2, <1>3 DEF Told, Untold
<1>5. SeenInv(q)'
  <2>1. /\ monitor'[q] = monitor[q] /\ fate'[q] = fate[q] /\ rows'[q] = rows[q]
        /\ outcome'[q] = outcome[q] /\ SeenInv(q)
    BY DEF Untold, RunInv
  <2> QED BY <1>2, <1>4, <2>1 DEF SeenInv
<1>6. StopInv(q)' BY <1>3 DEF RunInv, StopInv, Untold
<1>7. RootsInv(q)'
  <2>1. roots'[q] = roots[q] /\ Due(q)' = Due(q) BY DEF Untold, Due
  <2>2. roots[q] \in Nat /\ Due(q) \in Nat /\ left \in Int /\ left' \in Int
    BY DEF Types, Due
  <2>3. MaxRoots + MaxEvents \in Int BY BoundsAssumption
  <2>4. roots[q] + Due(q) + left <= MaxRoots + MaxEvents BY DEF RunInv, RootsInv
  <2> HIDE DEF Types
  <2> QED BY <2>1, <2>2, <2>3, <2>4 DEF RootsInv
<1> QED BY <1>1, <1>5, <1>6, <1>7 DEF RunInv

\* A step that concerns run r keeps the invariant if it keeps what is said of r.
LEMMA OneRun ==
  ASSUME AutomationsInv, Types', NEW r \in Runs, \A q \in Runs \ {r} : Untold(q),
         UNCHANGED <<rows, cancels, live>>, left' <= left,
         \A a \in Automations : turn'[a] \in Runs =>
           turn'[a] = turn[a] \/ rows[turn'[a]].of = a,
         RunInv(r)'
  PROVE  AutomationsInv'
<1>1. \A q \in Runs : RunInv(q)' BY RunSame DEF AutomationsInv
<1>2. RowsInv' BY DEF AutomationsInv, RowsInv, Running
<1> QED BY <1>1, <1>2 DEF AutomationsInv

\* A step that concerns no run keeps it.
LEMMA NoRun ==
  ASSUME AutomationsInv, Types', \A q \in Runs : Untold(q),
         UNCHANGED <<rows, cancels, live, turn>>, left' <= left
  PROVE  AutomationsInv'
<1>1. \A q \in Runs : RunInv(q)' BY RunSame DEF AutomationsInv
<1>2. RowsInv' BY DEF AutomationsInv, RowsInv, Running
<1> QED BY <1>1, <1>2 DEF AutomationsInv

\* A definition is put, the gate closes, a hand-over is tried again.
LEMMA QuietStep ==
  ASSUME AutomationsInv,
         (\E a \in Automations : Enable(a)) \/ CloseGate \/ (\E r \in Runs : RetryCancel(r))
  PROVE  AutomationsInv'
<1>1. Types BY DEF AutomationsInv
<1>2. left \in Int BY <1>1 DEF Types
<1>3. ASSUME NEW a \in Automations, Enable(a) PROVE AutomationsInv'
  <2>3. left' \in 0..MaxEvents /\ left' <= left BY <1>1, <1>3, SpendFacts DEF Enable, Types
  <2>1. Types' BY <1>1, <1>3, <2>3 DEF Types, Enable, service, engine, thread
  <2>2. \A q \in Runs : Untold(q) BY <1>3 DEF Untold, Enable, service, engine, thread, Ours, Thread
  <2> QED BY <1>3, <2>1, <2>2, <2>3, NoRun DEF Enable, service, engine, thread
<1>4. ASSUME CloseGate PROVE AutomationsInv'
  <2>3. left' \in 0..MaxEvents /\ left' <= left BY <1>1, <1>4, SpendFacts DEF CloseGate, Types
  <2>1. Types' BY <1>1, <1>4, <2>3 DEF Types, CloseGate, schedule, engine, thread
  <2>2. \A q \in Runs : Untold(q) BY <1>4 DEF Untold, CloseGate, schedule, engine, thread, Ours, Thread
  <2> QED BY <1>4, <2>1, <2>2, <2>3, NoRun DEF CloseGate, schedule, engine, thread
<1>5. ASSUME NEW r \in Runs, RetryCancel(r) PROVE AutomationsInv'
  <2>0. writes' \subseteq {"admit", "cancel"} \X Runs /\ retries' \subseteq Runs
    BY <1>1, <1>5, WriteFacts DEF Types, RetryCancel
  <2>1. Types' BY <1>1, <1>5, <2>0 DEF Types, RetryCancel, schedule, engine, thread
  <2>2. \A q \in Runs : Untold(q) BY <1>5 DEF Untold, RetryCancel, schedule, engine, thread, Ours, Thread
  <2>3. left' <= left BY <1>2, <1>5 DEF RetryCancel
  <2> QED BY <1>5, <2>1, <2>2, <2>3, NoRun DEF RetryCancel, schedule, engine, thread
<1> QED BY <1>3, <1>4, <1>5

-----------------------------------------------------------------------------
(* The record of a run and its monitor. *)

\* The admission write of execute.
LEMMA AdmitStep ==
  ASSUME AutomationsInv, NEW r \in Runs, Admit(r)
  PROVE  AutomationsInv'
<1>1. Types /\ RunInv(r) BY DEF AutomationsInv
<1>2. monitor[r].at = "executing" /\ ~record[r].thread /\ fate[r] = "none" /\ rows[r].status = "running"
  BY <1>1 DEF RunInv, LifeInv, Admit
<1>3. /\ writes' = writes \ {<<"admit", r>>}
      /\ UNCHANGED <<rows, cancels, job, outcome, missed, live, open, retries, stop, turn, roots,
                     work, last, reached, barred, passed, cut, left>>
  BY DEF Admit, schedule, thread
<1>4. \/ /\ record' = [record EXCEPT ![r].thread = TRUE] /\ fate' = [fate EXCEPT ![r] = "waiting"]
         /\ monitor' = [monitor EXCEPT ![r] = At("following")]
      \/ /\ UNCHANGED <<record, fate>>
         /\ \E what \in {"unsent", "failed"} :
              monitor' = [monitor EXCEPT ![r] = Says("settled", what)]
  BY <1>1, <1>2 DEF Admit, Admitted, Types
<1>5. Types'
  <2>1. monitor' \in [Runs -> Monitors]
    <3>1. \A what \in {"unsent", "failed"} : Says("settled", what) \in Monitors
      BY MonitorFacts DEF Outcomes
    <3>2. monitor \in [Runs -> Monitors] /\ At("following") \in Monitors
      BY <1>1, MonitorFacts DEF Types
    <3> QED BY <1>4, <3>1, <3>2
  <2>2. record' \in [Runs -> Records]
    <3>1. record \in [Runs -> Records] BY <1>1 DEF Types
    <3>2. [record[r] EXCEPT !.thread = TRUE] \in Records BY <3>1 DEF Records
    <3> QED BY <1>4, <3>1, <3>2
  <2>3. fate' \in [Runs -> Fates] BY <1>1, <1>4 DEF Types, Fates
  <2>4. writes' \subseteq {"admit", "cancel"} \X Runs BY <1>1, <1>3 DEF Types
  <2> QED BY <1>1, <1>3, <2>1, <2>2, <2>3, <2>4 DEF Types
<1>6. \A q \in Runs \ {r} : Untold(q) BY <1>1, <1>3, <1>4 DEF Untold, Types, Ours, Thread
<1>7. Ours(r)' = Ours(r) /\ <<"admit", r>> \notin writes' BY <1>3 DEF Ours, Thread
<1>8. ~Works(r) /\ work[r] = "none" /\ ~Ours(r) /\ roots[r] = 0
  BY <1>1, <1>2 DEF RunInv, LifeInv, Works, Tasks
<1>9. outcome[r] = "none" BY <1>1, <1>2 DEF RunInv, SeenInv
<1>10. RootsInv(r)' BY <1>1, <1>3 DEF RunInv, RootsInv, Due
<1>11. CASE /\ record' = [record EXCEPT ![r].thread = TRUE] /\ fate' = [fate EXCEPT ![r] = "waiting"]
            /\ monitor' = [monitor EXCEPT ![r] = At("following")]
  <2>1. /\ monitor'[r].at = "following" /\ fate'[r] = "waiting" /\ record'[r].thread
        /\ record'[r] = [record[r] EXCEPT !.thread = TRUE]
    BY <1>1, <1>11, MonitorFacts DEF Types, Records
  <2>2. LifeInv(r)' BY <1>1, <1>2, <1>3, <1>7, <1>8, <2>1 DEF RunInv, LifeInv
  <2>3. SeenInv(r)' BY <1>2, <1>3, <1>9, <2>1 DEF SeenInv
  <2>4. record[r] \in Records BY <1>1 DEF Types
  <2>5. /\ record'[r].cancel = record[r].cancel /\ record'[r].target = record[r].target
        /\ record'[r].tries = record[r].tries /\ record'[r].error = record[r].error
    BY <2>1, <2>4 DEF Records
  <2>6. StopInv(r)' BY <1>1, <1>3, <2>5 DEF RunInv, StopInv, Untouched
  <2> QED BY <1>2, <1>3, <1>5, <1>6, <1>10, <2>2, <2>3, <2>6, OneRun DEF RunInv, Types
<1>12. CASE /\ UNCHANGED <<record, fate>>
            /\ \E what \in {"unsent", "failed"} :
                 monitor' = [monitor EXCEPT ![r] = Says("settled", what)]
  <2>1. monitor'[r].at = "settled" /\ monitor'[r].says \in {"unsent", "failed"}
    BY <1>1, <1>12, MonitorFacts DEF Types, Outcomes
  <2>2. LifeInv(r)' BY <1>1, <1>2, <1>3, <1>7, <1>12, <2>1 DEF RunInv, LifeInv
  <2>3. ~Works(r)' BY <1>3, <1>7, <1>8, <1>12 DEF Works
  <2>4. SeenInv(r)' BY <1>2, <1>3, <1>9, <1>12, <2>1, <2>3 DEF SeenInv, Told
  <2>5. StopInv(r)' BY <1>1, <1>3, <1>12 DEF RunInv, StopInv, Untouched
  <2> QED BY <1>2, <1>3, <1>5, <1>6, <1>10, <2>2, <2>4, <2>5, OneRun DEF RunInv, Types
<1> QED BY <1>4, <1>11, <1>12

\* The write of interrupt.
LEMMA RequestCancelStep ==
  ASSUME AutomationsInv, NEW r \in Runs, RequestCancel(r)
  PROVE  AutomationsInv'
<1>1. Types /\ RunInv(r) BY DEF AutomationsInv
<1>2. /\ writes' = writes \ {<<"cancel", r>>}
      /\ record' = [record EXCEPT ![r].cancel = IF @ = "none" THEN "requested" ELSE @]
      /\ UNCHANGED <<rows, cancels, job, outcome, missed, live, open, monitor, retries, stop, fate,
                     turn, roots, work, last, reached, barred, passed, cut, left>>
  BY DEF RequestCancel, schedule, engine, thread
<1>3. record \in [Runs -> Records] BY <1>1 DEF Types
<1>4. /\ record'[r] \in Records /\ record'[r].cancel # "none"
      /\ record'[r].thread = record[r].thread /\ record'[r].target = record[r].target
      /\ record'[r].tries = record[r].tries /\ record'[r].error = record[r].error
  <2>1. record'[r] = [record[r] EXCEPT !.cancel = IF @ = "none" THEN "requested" ELSE @]
    BY <1>2, <1>3
  <2>2. record[r] \in Records BY <1>3
  <2> QED BY <2>1, <2>2 DEF Records
<1>5. Types'
  <2>1. record' \in [Runs -> Records] BY <1>2, <1>3, <1>4
  <2>2. writes' \subseteq {"admit", "cancel"} \X Runs BY <1>1, <1>2 DEF Types
  <2> QED BY <1>1, <1>2, <2>1, <2>2 DEF Types
<1>6. \A q \in Runs \ {r} : Untold(q) BY <1>2, <1>3 DEF Untold, Ours, Thread
<1>7. Ours(r)' = Ours(r) /\ (Works(r)' <=> Works(r)) BY <1>2 DEF Ours, Thread, Works
<1>8. Untouched(r)' <=> Untouched(r) BY <1>4 DEF Untouched
<1>9. LifeInv(r)' BY <1>1, <1>2, <1>4, <1>7 DEF RunInv, LifeInv
<1>10. \A what : Told(r, what)' <=> Told(r, what) BY <1>2, <1>7, <1>8 DEF Told
<1>11. SeenInv(r)' BY <1>1, <1>2, <1>7, <1>10 DEF RunInv, SeenInv
<1>12. StopInv(r)' BY <1>1, <1>2, <1>4, <1>8 DEF RunInv, StopInv
<1>13. RootsInv(r)' BY <1>1, <1>2 DEF RunInv, RootsInv, Due
<1> QED BY <1>2, <1>5, <1>6, <1>9, <1>11, <1>12, <1>13, OneRun DEF RunInv, Types

\* A monitor of r that moves on, to somewhere r may be.
LEMMA MonitorMoves ==
  ASSUME AutomationsInv, Types', NEW r \in Runs,
         \A q \in Runs \ {r} : Untold(q),
         UNCHANGED <<rows, cancels, outcome, live, turn, stop, fate, roots, work, passed, cut>>,
         record'[r].thread = record[r].thread, record'[r].target = record[r].target,
         record'[r].tries = record[r].tries, record'[r].error = record[r].error,
         record[r].cancel # "none" => record'[r].cancel # "none",
         left' <= left, monitor'[r].at # "none" <=> monitor[r].at # "none",
         <<"admit", r>> \in writes' => monitor'[r].at = "executing",
         monitor'[r].at = "executing" => ~record[r].thread,
         monitor'[r].at \in {"settling", "settled"} => Told(r, monitor'[r].says),
         monitor'[r].at = "stopping" =>
           /\ monitor'[r].fate \in {"removed", "failed", "delivered"} => fate[r] = monitor'[r].fate
           /\ monitor'[r].fate = "delivered" /\ monitor'[r].over => ~Works(r)
  PROVE  AutomationsInv'
<1>1. Types /\ RunInv(r) BY DEF AutomationsInv
<1>2. Ours(r)' = Ours(r) /\ (Works(r)' <=> Works(r)) BY DEF Ours, Thread, Works
<1>3. Untouched(r)' <=> Untouched(r) BY DEF Untouched
<1>4. LifeInv(r)' BY <1>1, <1>2 DEF RunInv, LifeInv
<1>5. \A what : Told(r, what)' <=> Told(r, what) BY <1>2, <1>3 DEF Told
<1>6. SeenInv(r)' BY <1>1, <1>2, <1>5 DEF RunInv, SeenInv
<1>7. StopInv(r)' BY <1>1, <1>3 DEF RunInv, StopInv
<1>8. RootsInv(r)'
  <2>1. roots[r] \in Nat /\ Due(r) \in Nat /\ left \in Int /\ left' \in Int
    BY <1>1 DEF Types, Due
  <2>2. MaxRoots + MaxEvents \in Int BY BoundsAssumption
  <2>3. roots[r] + Due(r) + left <= MaxRoots + MaxEvents BY <1>1 DEF RunInv, RootsInv
  <2>4. roots'[r] = roots[r] /\ Due(r)' = Due(r) BY DEF Due
  <2> HIDE DEF Types
  <2> QED BY <2>1, <2>2, <2>3, <2>4 DEF RootsInv
<1> QED BY <1>4, <1>6, <1>7, <1>8, OneRun DEF RunInv

\* The start-up finds a run that was sent, or sends it, unless it is cancelled.
LEMMA RecoverStep ==
  ASSUME AutomationsInv, NEW r \in Runs, Recover(r)
  PROVE  AutomationsInv'
<1>1. Types /\ RunInv(r) BY DEF AutomationsInv
<1>2. /\ monitor[r].at = "recovering"
      /\ UNCHANGED <<rows, cancels, job, outcome, missed, live, open, retries, record, stop, fate,
                     turn, roots, work, last, reached, barred, passed, cut, left>>
  BY DEF Recover, schedule, engine, thread
<1>3. \/ /\ record[r].thread /\ writes' = writes
         /\ monitor' = [monitor EXCEPT ![r] = At("following")]
      \/ /\ ~record[r].thread /\ writes' = writes
         /\ monitor' = [monitor EXCEPT ![r] = Says("settled", "unsent")]
      \/ /\ ~record[r].thread /\ writes' = writes \cup {<<"admit", r>>}
         /\ monitor' = [monitor EXCEPT ![r] = At("executing")]
  BY DEF Recover
<1>4. monitor \in [Runs -> Monitors] BY <1>1 DEF Types
<1>5. Types'
  <2>1. monitor' \in [Runs -> Monitors] BY <1>3, <1>4, MonitorFacts DEF Outcomes
  <2>2. writes' \subseteq {"admit", "cancel"} \X Runs BY <1>1, <1>3, WriteFacts DEF Types
  <2> QED BY <1>1, <1>2, <2>1, <2>2 DEF Types
<1>6. \A q \in Runs \ {r} : Untold(q) BY <1>2, <1>3, <1>4 DEF Untold, Ours, Thread
<1>7. <<"admit", r>> \notin writes BY <1>1, <1>2 DEF RunInv, LifeInv
<1>8. \/ record[r].thread /\ writes' = writes /\ monitor'[r].at = "following"
      \/ /\ ~record[r].thread /\ writes' = writes
         /\ monitor'[r].at = "settled" /\ monitor'[r].says = "unsent"
      \/ ~record[r].thread /\ monitor'[r].at = "executing"
  BY <1>3, <1>4, MonitorFacts DEF Outcomes
<1>9. ~record[r].thread => Told(r, "unsent")
  BY <1>1 DEF RunInv, LifeInv, Told, Works, Tasks
<1>10. left' <= left BY <1>1, <1>2 DEF Types
<1> QED BY <1>2, <1>5, <1>6, <1>7, <1>8, <1>9, <1>10, MonitorMoves

\* What decideRun may say on what a look found.
LEMMA DecideFacts ==
  ASSUME NEW seen, NEW rec, NEW r
  PROVE  \/ decideRun(seen, rec, r) = At("following")
         \/ \E what \in Outcomes :
              /\ decideRun(seen, rec, r) = Says("settling", what)
              /\ \/ seen.fate \in {"removed", "failed"} /\ what # "succeeded"
                 \/ /\ seen.fate = "delivered" /\ seen.over
                    /\ what # "unsent" /\ (what = "succeeded" => ~stopReached(rec))
<1>1. CASE seen.fate \in {"removed", "failed"}
  <2>1. PICK what \in {"unsent", "failed"} : decideRun(seen, rec, r) = Says("settling", what)
    BY <1>1 DEF decideRun
  <2> QED BY <1>1, <2>1 DEF Outcomes
<1>2. CASE seen.fate = "delivered" /\ seen.over
  <2>1. PICK what \in {"succeeded", "failed"} :
          /\ decideRun(seen, rec, r) = Says("settling", what)
          /\ what = "succeeded" => ~stopReached(rec)
    BY <1>2 DEF decideRun
  <2> QED BY <1>2, <2>1 DEF Outcomes
<1>3. CASE ~(seen.fate \in {"removed", "failed"}) /\ ~(seen.fate = "delivered" /\ seen.over)
  BY <1>3 DEF decideRun
<1> QED BY <1>1, <1>2, <1>3

\* A monitor's look at the message, the turn and its work.
LEMMA LookStep ==
  ASSUME AutomationsInv, NEW r \in Runs, Look(r)
  PROVE  AutomationsInv'
<1> DEFINE cancelling == record[r].cancel # "none"
           over == ~Ours(r) /\ TreeOver(r, cancelling)
           seen == [NoMonitor EXCEPT !.at = "stopping", !.fate = fate[r], !.over = over]
<1>1. Types /\ RunInv(r) BY DEF AutomationsInv
<1>2. /\ monitor[r].at = "following" /\ record[r].thread
      /\ UNCHANGED <<rows, cancels, job, outcome, missed, live, open, writes, retries, record, stop,
                     fate, turn, roots, work, last, reached, barred, passed, cut, left>>
  BY DEF Look, schedule, engine, thread
<1>4. \/ monitor' = [monitor EXCEPT ![r] = seen]
      \/ monitor' = [monitor EXCEPT ![r] = decideRun(seen, record[r], r)]
  BY DEF Look
<1>5. over \in BOOLEAN BY DEF TreeOver
<1>6. fate[r] = "delivered" /\ over => ~Works(r) BY DEF TreeOver, Works, Tasks
<1>7. monitor \in [Runs -> Monitors] /\ fate[r] \in Fates BY <1>1 DEF Types
<1> HIDE DEF over
<1>8. seen \in Monitors BY <1>5, <1>7 DEF Monitors, Outcomes, NoMonitor
<1>3. seen.at = "stopping" /\ seen.fate = fate[r] /\ seen.over = over BY DEF NoMonitor
<1> HIDE DEF seen
<1>9. \/ decideRun(seen, record[r], r) = At("following")
      \/ \E what \in Outcomes : /\ decideRun(seen, record[r], r) = Says("settling", what)
                                /\ Told(r, what)
  <2>1. CASE decideRun(seen, record[r], r) # At("following")
    <3>1. PICK what \in Outcomes :
            /\ decideRun(seen, record[r], r) = Says("settling", what)
            /\ \/ fate[r] \in {"removed", "failed"} /\ what # "succeeded"
               \/ /\ fate[r] = "delivered" /\ over
                  /\ what # "unsent" /\ (what = "succeeded" => ~stopReached(record[r]))
      BY <1>3, <2>1, DecideFacts
    <3>2. fate[r] \in {"removed", "failed"} => ~Works(r)
      BY <1>1 DEF RunInv, LifeInv, Works, Tasks
    <3>3. what = "succeeded" => Untouched(r)
      <4>1. record[r].tries \in Nat BY <1>1 DEF Types, Records
      <4> QED BY <1>1, <3>1, <4>1 DEF RunInv, StopInv, stopReached, Untouched
    <3> QED BY <1>6, <3>1, <3>2, <3>3 DEF Told
  <2> QED BY <2>1
<1>10. \/ monitor'[r] = seen
       \/ monitor'[r] = decideRun(seen, record[r], r)
  BY <1>4, <1>7
<1>11. Types'
  <2>1. monitor' \in [Runs -> Monitors] BY <1>4, <1>7, <1>8, <1>9, MonitorFacts
  <2> QED BY <1>1, <1>2, <2>1 DEF Types
<1>12. \A q \in Runs \ {r} : Untold(q) BY <1>2, <1>4, <1>7 DEF Untold, Ours, Thread
<1>13. <<"admit", r>> \notin writes BY <1>1, <1>2 DEF RunInv, LifeInv
<1>14. left' <= left BY <1>1, <1>2 DEF Types
<1>15. CASE monitor'[r] = seen
  <2>1. /\ monitor'[r].at = "stopping" /\ monitor'[r].fate = fate[r] /\ monitor'[r].over = over
    BY <1>3, <1>15
  <2> QED BY <1>2, <1>6, <1>11, <1>12, <1>13, <1>14, <2>1, MonitorMoves
<1>16. CASE monitor'[r] = decideRun(seen, record[r], r)
  <2>1. \/ monitor'[r].at = "following"
        \/ monitor'[r].at = "settling" /\ Told(r, monitor'[r].says)
    BY <1>9, <1>16, MonitorFacts
  <2> QED BY <1>2, <1>11, <1>12, <1>13, <1>14, <2>1, MonitorMoves
<1> QED BY <1>10, <1>15, <1>16

\* The last write of inspect.
LEMMA SettleStep ==
  ASSUME AutomationsInv, NEW r \in Runs, Settle(r)
  PROVE  AutomationsInv'
<1>1. Types /\ RunInv(r) BY DEF AutomationsInv
<1>2. /\ monitor[r].at = "settling"
      /\ monitor' = [monitor EXCEPT ![r].at = "settled"]
      /\ record' = [record EXCEPT ![r].cancel = IF @ = "none" THEN "none" ELSE "acknowledged"]
      /\ UNCHANGED <<rows, cancels, job, outcome, missed, live, open, writes, retries, stop, fate,
                     turn, roots, work, last, reached, barred, passed, cut, left>>
  BY DEF Settle, schedule, engine, thread
<1>3. record \in [Runs -> Records] /\ monitor \in [Runs -> Monitors] BY <1>1 DEF Types
<1>4. /\ record'[r] \in Records /\ (record[r].cancel # "none" => record'[r].cancel # "none")
      /\ record'[r].thread = record[r].thread /\ record'[r].target = record[r].target
      /\ record'[r].tries = record[r].tries /\ record'[r].error = record[r].error
  <2>1. record'[r] = [record[r] EXCEPT !.cancel = IF @ = "none" THEN "none" ELSE "acknowledged"]
    BY <1>2, <1>3
  <2>2. record[r] \in Records BY <1>3
  <2> QED BY <2>1, <2>2 DEF Records
<1>5. /\ monitor'[r] \in Monitors /\ monitor'[r].at = "settled"
      /\ monitor'[r].says = monitor[r].says
  <2>1. monitor'[r] = [monitor[r] EXCEPT !.at = "settled"] BY <1>2, <1>3
  <2>2. monitor[r] \in Monitors BY <1>3
  <2> QED BY <2>1, <2>2 DEF Monitors
<1>6. Types'
  <2>1. record' \in [Runs -> Records] BY <1>2, <1>3, <1>4
  <2>2. monitor' \in [Runs -> Monitors] BY <1>2, <1>3, <1>5
  <2> QED BY <1>1, <1>2, <2>1, <2>2 DEF Types
<1>7. \A q \in Runs \ {r} : Untold(q) BY <1>2, <1>3 DEF Untold, Ours, Thread
<1>8. <<"admit", r>> \notin writes /\ Told(r, monitor[r].says)
  BY <1>1, <1>2 DEF RunInv, LifeInv, SeenInv
<1>9. left' <= left BY <1>1, <1>2 DEF Types
<1> QED BY <1>2, <1>4, <1>5, <1>6, <1>7, <1>8, <1>9, MonitorMoves

\* The time to try a stop again has come.
LEMMA RetryStopStep ==
  ASSUME AutomationsInv, NEW r \in Runs, RetryStop(r)
  PROVE  AutomationsInv'
<1>1. Types /\ RunInv(r) BY DEF AutomationsInv
<1>2. /\ record' = [record EXCEPT ![r].wait = FALSE]
      /\ UNCHANGED <<rows, cancels, job, outcome, missed, live, open, monitor, writes, retries,
                     stop, fate, turn, roots, work, last, reached, barred, passed, cut, left>>
  BY DEF RetryStop, schedule, service, engine, thread
<1>3. record \in [Runs -> Records] BY <1>1 DEF Types
<1>4. /\ record'[r] \in Records /\ record'[r].cancel = record[r].cancel
      /\ record'[r].thread = record[r].thread /\ record'[r].target = record[r].target
      /\ record'[r].tries = record[r].tries /\ record'[r].error = record[r].error
  <2>1. record'[r] = [record[r] EXCEPT !.wait = FALSE] BY <1>2, <1>3
  <2>2. record[r] \in Records BY <1>3
  <2> QED BY <2>1, <2>2 DEF Records
<1>5. Types'
  <2>1. record' \in [Runs -> Records] BY <1>2, <1>3, <1>4
  <2> QED BY <1>1, <1>2, <2>1 DEF Types
<1>6. \A q \in Runs \ {r} : Untold(q) BY <1>2, <1>3 DEF Untold, Ours, Thread
<1>7. left' <= left BY <1>1, <1>2 DEF Types
<1>8. /\ <<"admit", r>> \in writes' => monitor'[r].at = "executing"
      /\ monitor'[r].at = "executing" => ~record[r].thread
      /\ monitor'[r].at \in {"settling", "settled"} => Told(r, monitor'[r].says)
      /\ monitor'[r].at = "stopping" =>
           /\ monitor'[r].fate \in {"removed", "failed", "delivered"} => fate[r] = monitor'[r].fate
           /\ monitor'[r].fate = "delivered" /\ monitor'[r].over => ~Works(r)
  BY <1>1, <1>2 DEF RunInv, LifeInv, SeenInv
<1> QED BY <1>2, <1>4, <1>5, <1>6, <1>7, <1>8, MonitorMoves

\* A write fails.
LEMMA WriteFailsStep ==
  ASSUME AutomationsInv, NEW r \in Runs, WriteFails(r)
  PROVE  AutomationsInv'
<1>1. Types /\ RunInv(r) BY DEF AutomationsInv
<1>2. /\ Spend
      /\ UNCHANGED <<rows, cancels, job, outcome, missed, live, open, record, stop, fate, turn,
                     roots, work, last, reached, barred, passed, cut>>
  BY DEF WriteFails, schedule, engine, thread
<1>3. left' \in 0..MaxEvents /\ left' <= left BY <1>1, <1>2, SpendFacts DEF Types
<1>4. monitor \in [Runs -> Monitors] BY <1>1 DEF Types
<1>5. CASE /\ <<"admit", r>> \in writes /\ writes' = writes \ {<<"admit", r>>}
           /\ Admitted(r, Says("settled", "failed")) /\ UNCHANGED retries
  <2>1. monitor[r].at = "executing" BY <1>1, <1>5 DEF RunInv, LifeInv
  <2>2. monitor' = [monitor EXCEPT ![r] = Says("settled", "failed")]
    BY <1>4, <1>5, <2>1 DEF Admitted
  <2>3. monitor'[r].at = "settled" /\ monitor'[r].says = "failed"
    BY <1>4, <2>2, MonitorFacts DEF Outcomes
  <2>4. Types'
    <3>1. monitor' \in [Runs -> Monitors] BY <1>4, <2>2, MonitorFacts DEF Outcomes
    <3>2. writes' \subseteq {"admit", "cancel"} \X Runs BY <1>1, <1>5 DEF Types
    <3> QED BY <1>1, <1>2, <1>3, <1>5, <3>1, <3>2 DEF Types
  <2>5. \A q \in Runs \ {r} : Untold(q) BY <1>2, <1>4, <1>5, <2>2 DEF Untold, Ours, Thread
  <2>6. Told(r, "failed") BY <1>1, <2>1 DEF RunInv, LifeInv, Told, Works, Tasks
  <2> QED BY <1>2, <1>3, <1>5, <2>1, <2>3, <2>4, <2>5, <2>6, MonitorMoves
<1>6. CASE /\ <<"cancel", r>> \in writes /\ writes' = writes \ {<<"cancel", r>>}
           /\ retries' = (IF r \in cancels THEN retries \cup {r} ELSE retries)
           /\ UNCHANGED monitor
  <2>1. Types'
    <3>1. writes' \subseteq {"admit", "cancel"} \X Runs /\ retries' \subseteq Runs
      BY <1>1, <1>6 DEF Types
    <3> QED BY <1>1, <1>2, <1>3, <1>6, <3>1 DEF Types
  <2>2. \A q \in Runs : Untold(q) BY <1>2, <1>6 DEF Untold, Ours, Thread
  <2> QED BY <1>2, <1>3, <2>1, <2>2, NoRun
<1>7. CASE /\ monitor[r].at \in {"stopping", "settling"}
           /\ monitor' = [monitor EXCEPT ![r] = At("following")]
           /\ UNCHANGED <<writes, retries>>
  <2>1. monitor'[r].at = "following" BY <1>4, <1>7, MonitorFacts
  <2>2. Types'
    <3>1. monitor' \in [Runs -> Monitors] BY <1>4, <1>7, MonitorFacts
    <3> QED BY <1>1, <1>2, <1>3, <1>7, <3>1 DEF Types
  <2>3. \A q \in Runs \ {r} : Untold(q) BY <1>2, <1>4, <1>7 DEF Untold, Ours, Thread
  <2>4. <<"admit", r>> \notin writes BY <1>1, <1>7 DEF RunInv, LifeInv
  <2> QED BY <1>2, <1>3, <1>7, <2>1, <2>2, <2>3, <2>4, MonitorMoves
<1> QED BY <1>5, <1>6, <1>7 DEF WriteFails

\* The write of reconcileStop: a stop failed, one is sent, or nothing is to be done.
LEMMA ReconcileStep ==
  ASSUME AutomationsInv, NEW r \in Runs, ReconcileStop(r)
  PROVE  AutomationsInv'
<1> DEFINE rec == record[r]
           plan == stopPlan(r)
           failed == rec.target # "none" /\ stop[r] = "failed"
           idle == failed \/ rec.error \/ rec.wait \/ plan \in {"wait", "none"}
                   \/ (rec.target = plan /\ rec.aim = roots[r])
           gave == [rec EXCEPT !.target = "none", !.tries = @ + 1,
                               !.wait = rec.tries + 1 < StopTries,
                               !.error = rec.tries + 1 >= StopTries]
           aimed == [rec EXCEPT !.cancel = "sent", !.target = plan, !.aim = roots[r]]
           noted == [rec EXCEPT !.cancel = "sent"]
<1>1. Types /\ RunInv(r) BY DEF AutomationsInv
<1>2. /\ monitor[r].at = "stopping"
      /\ UNCHANGED <<rows, cancels, job, outcome, missed, live, open, writes, retries, turn, roots,
                     work, last, reached, barred, passed, cut, left>>
  BY DEF ReconcileStop, schedule, thread
<1>3. /\ record \in [Runs -> Records] /\ rec \in Records /\ roots[r] \in Nat
      /\ monitor \in [Runs -> Monitors] /\ fate \in [Runs -> Fates]
      /\ stop \in [Runs -> {"none", "pending", "done", "failed"}]
  BY <1>1 DEF Types
<1>4. rec.tries \in Nat /\ rec.error \in BOOLEAN BY <1>3 DEF Records
<1>5. plan \in {"remove", "wait", "none", "interrupt", "work"} BY DEF stopPlan
<1>6. plan = "remove" => fate[r] \in {"waiting", "uncertain"} BY DEF stopPlan
<1>7. \/ /\ failed
         /\ record' = [record EXCEPT ![r] = gave]
         /\ stop' = [stop EXCEPT ![r] = "none"] /\ fate' = fate
         /\ monitor' = [monitor EXCEPT ![r] = decideRun(monitor[r], gave, r)]
      \/ /\ ~idle
         /\ record' = [record EXCEPT ![r] = aimed]
         /\ stop' = [stop EXCEPT ![r] = IF plan = "remove" THEN "done" ELSE "pending"]
         /\ fate' = [fate EXCEPT ![r] = IF plan = "remove" THEN "removed" ELSE @]
         /\ monitor' = [monitor EXCEPT ![r] = At("following")]
      \/ /\ ~failed
         /\ stop' = stop /\ fate' = fate
         /\ \E next \in {noted, rec} :
              /\ record' = [record EXCEPT ![r] = next]
              /\ monitor' = [monitor EXCEPT ![r] = decideRun(monitor[r], next, r)]
  <2>1. CASE failed BY <1>3, <2>1 DEF ReconcileStop
  <2>2. CASE ~idle BY <1>3, <2>2 DEF ReconcileStop
  <2>3. CASE idle /\ ~failed BY <1>3, <2>3 DEF ReconcileStop
  <2> QED BY <2>1, <2>2, <2>3
<1>8. \A q \in Runs \ {r} : Untold(q)
  BY <1>2, <1>3, <1>7 DEF Untold, Ours, Thread
<1>9. Ours(r)' = Ours(r) BY <1>2 DEF Ours, Thread
<1>10. outcome[r] = "none" /\ rows[r].status = "running" /\ live /\ <<"admit", r>> \notin writes
  BY <1>1, <1>2 DEF RunInv, LifeInv, SeenInv
<1>11. RootsInv(r)' BY <1>1, <1>2 DEF RunInv, RootsInv, Due
<1>12. left' <= left BY <1>1, <1>2 DEF Types
<1>13. Types' /\ RunInv(r)' => AutomationsInv' BY <1>2, <1>8, <1>12, OneRun
<1>14. \A next : \/ decideRun(monitor[r], next, r) = At("following")
                 \/ \E what \in Outcomes :
                      /\ decideRun(monitor[r], next, r) = Says("settling", what)
                      /\ ~Works(r) /\ (what = "unsent" => fate[r] # "delivered")
                      /\ what = "succeeded" => ~stopReached(next)
  <2> SUFFICES ASSUME NEW next, decideRun(monitor[r], next, r) # At("following")
               PROVE \E what \in Outcomes :
                       /\ decideRun(monitor[r], next, r) = Says("settling", what)
                       /\ ~Works(r) /\ (what = "unsent" => fate[r] # "delivered")
                       /\ what = "succeeded" => ~stopReached(next)
    OBVIOUS
  <2>1. PICK what \in Outcomes :
          /\ decideRun(monitor[r], next, r) = Says("settling", what)
          /\ \/ monitor[r].fate \in {"removed", "failed"} /\ what # "succeeded"
             \/ /\ monitor[r].fate = "delivered" /\ monitor[r].over
                /\ what # "unsent" /\ (what = "succeeded" => ~stopReached(next))
    BY DecideFacts
  <2>2. monitor[r].fate \in {"removed", "failed"} => fate[r] = monitor[r].fate /\ ~Works(r)
    BY <1>1, <1>2 DEF RunInv, LifeInv, SeenInv, Works, Tasks
  <2>3. monitor[r].fate = "delivered" /\ monitor[r].over => ~Works(r)
    BY <1>1, <1>2 DEF RunInv, SeenInv
  <2> QED BY <2>1, <2>2, <2>3
<1> HIDE DEF plan, idle
<1>15. ASSUME NEW next \in Records, record' = [record EXCEPT ![r] = next], fate' = fate,
              monitor' = [monitor EXCEPT ![r] = decideRun(monitor[r], next, r)],
              next.thread = rec.thread, StopInv(r)'
       PROVE  monitor' \in [Runs -> Monitors] /\ RunInv(r)'
  <2>1. record'[r] = next /\ monitor'[r] = decideRun(monitor[r], next, r) BY <1>3, <1>15
  <2>2. /\ monitor'[r] \in Monitors
        /\ \/ monitor'[r].at = "following"
           \/ /\ monitor'[r].at = "settling" /\ ~Works(r)
              /\ monitor'[r].says = "unsent" => fate[r] # "delivered"
              /\ monitor'[r].says = "succeeded" => ~stopReached(next)
    BY <1>14, <2>1, MonitorFacts
  <2>3. monitor' \in [Runs -> Monitors] BY <1>3, <1>15, <2>1, <2>2
  <2>4. LifeInv(r)' BY <1>1, <1>2, <1>9, <1>10, <1>15, <2>1, <2>2 DEF RunInv, LifeInv
  <2>5. Works(r)' <=> Works(r) BY <1>2, <1>9, <1>15 DEF Works
  <2>6. ~stopReached(next) => Untouched(r)'
    <3>1. next.tries \in Nat BY <1>15 DEF Records
    <3> QED BY <1>15, <2>1, <3>1 DEF StopInv, stopReached, Untouched
  <2>7. SeenInv(r)' BY <1>2, <1>10, <1>15, <2>2, <2>5, <2>6 DEF SeenInv, Told
  <2> QED BY <1>11, <1>15, <2>3, <2>4, <2>7 DEF RunInv
<1>16. CASE /\ failed
            /\ record' = [record EXCEPT ![r] = gave]
            /\ stop' = [stop EXCEPT ![r] = "none"] /\ fate' = fate
            /\ monitor' = [monitor EXCEPT ![r] = decideRun(monitor[r], gave, r)]
  <2>1. /\ gave \in Records /\ gave.thread = rec.thread /\ gave.target = "none"
        /\ gave.tries = rec.tries + 1 /\ gave.cancel = rec.cancel
        /\ gave.error <=> rec.tries + 1 >= StopTries
    <3> DEFINE up == rec.tries + 1
               again == up < StopTries
               enough == up >= StopTries
    <3>1. up \in Nat /\ again \in BOOLEAN /\ enough \in BOOLEAN BY <1>4
    <3>2. gave = [rec EXCEPT !.target = "none", !.tries = up, !.wait = again, !.error = enough]
      OBVIOUS
    <3> HIDE DEF up, again, enough, gave
    <3>3. /\ gave \in Records /\ gave.thread = rec.thread /\ gave.target = "none"
          /\ gave.tries = up /\ gave.cancel = rec.cancel /\ gave.error = enough
      BY <1>3, <3>1, <3>2 DEF Records
    <3> QED BY <3>3 DEF up, enough
  <2>2. record'[r] = gave /\ stop'[r] = "none" BY <1>3, <1>16
  <2> HIDE DEF gave
  <2>3. StopInv(r)'
    <3>1. StopTries \in Nat BY BoundsAssumption
    <3>2. rec.cancel # "none" /\ ~rec.error BY <1>1, <1>16 DEF RunInv, StopInv, Untouched
    <3>3. rec.tries < StopTries BY <1>1, <1>4, <3>1, <3>2 DEF RunInv, StopInv
    <3>4. ~Untouched(r)' BY <1>4, <2>1, <2>2 DEF Untouched
    <3>5. record'[r].cancel # "none" /\ stop'[r] = "none" /\ record'[r].target = "none"
      BY <2>1, <2>2, <3>2
    <3>6. /\ record'[r].tries <= StopTries
          /\ record'[r].tries = StopTries => record'[r].error
      <4>1. record'[r].tries = rec.tries + 1 /\ (record'[r].error <=> rec.tries + 1 >= StopTries)
        BY <2>1, <2>2
      <4> HIDE DEF rec
      <4> QED BY <1>4, <3>1, <3>3, <4>1
    <3> QED BY <3>4, <3>5, <3>6 DEF StopInv
  <2>4. monitor' \in [Runs -> Monitors] /\ RunInv(r)' BY <1>15, <1>16, <2>1, <2>3
  <2>5. Types'
    <3>1. record' \in [Runs -> Records] BY <1>3, <1>16, <2>1
    <3>2. stop' \in [Runs -> {"none", "pending", "done", "failed"}] BY <1>3, <1>16
    <3> QED BY <1>1, <1>2, <1>16, <2>4, <3>1, <3>2 DEF Types
  <2> QED BY <1>13, <2>4, <2>5
<1>17. CASE /\ ~failed
            /\ stop' = stop /\ fate' = fate
            /\ \E next \in {noted, rec} :
                 /\ record' = [record EXCEPT ![r] = next]
                 /\ monitor' = [monitor EXCEPT ![r] = decideRun(monitor[r], next, r)]
  <2>1. PICK next \in {noted, rec} :
          /\ record' = [record EXCEPT ![r] = next]
          /\ monitor' = [monitor EXCEPT ![r] = decideRun(monitor[r], next, r)]
    BY <1>17
  <2>2. /\ next \in Records /\ next.thread = rec.thread /\ next.target = rec.target
        /\ next.tries = rec.tries /\ next.error = rec.error
        /\ rec.cancel # "none" => next.cancel # "none"
    BY <1>3 DEF Records
  <2>3. record'[r] = next BY <1>3, <2>1
  <2>4. StopInv(r)' BY <1>1, <1>2, <1>17, <2>2, <2>3 DEF RunInv, StopInv, Untouched
  <2>5. monitor' \in [Runs -> Monitors] /\ RunInv(r)' BY <1>15, <1>17, <2>1, <2>2, <2>4
  <2>6. Types'
    <3>1. record' \in [Runs -> Records] BY <1>3, <2>1, <2>2
    <3> QED BY <1>1, <1>2, <1>17, <2>5, <3>1 DEF Types
  <2> QED BY <1>13, <2>5, <2>6
<1>18. CASE /\ ~idle
            /\ record' = [record EXCEPT ![r] = aimed]
            /\ stop' = [stop EXCEPT ![r] = IF plan = "remove" THEN "done" ELSE "pending"]
            /\ fate' = [fate EXCEPT ![r] = IF plan = "remove" THEN "removed" ELSE @]
            /\ monitor' = [monitor EXCEPT ![r] = At("following")]
  <2>1. plan \in {"remove", "interrupt", "work"} /\ ~rec.error BY <1>5, <1>18 DEF idle
  <2>2. /\ aimed \in Records /\ aimed.thread = rec.thread /\ aimed.target = plan
        /\ aimed.tries = rec.tries /\ aimed.cancel = "sent" /\ aimed.error = rec.error
    BY <1>3, <2>1 DEF Records
  <2>3. record'[r] = aimed /\ monitor'[r].at = "following" BY <1>3, <1>18, MonitorFacts
  <2> HIDE DEF aimed
  <2>4. Types'
    <3>1. record' \in [Runs -> Records] BY <1>3, <1>18, <2>2
    <3>2. stop' \in [Runs -> {"none", "pending", "done", "failed"}] BY <1>3, <1>18
    <3>3. fate' \in [Runs -> Fates] BY <1>3, <1>18 DEF Fates
    <3>4. monitor' \in [Runs -> Monitors] BY <1>3, <1>18, MonitorFacts
    <3> QED BY <1>1, <1>2, <3>1, <3>2, <3>3, <3>4 DEF Types
  <2>5. StopInv(r)' BY <1>1, <1>2, <2>1, <2>2, <2>3 DEF RunInv, StopInv, Untouched
  <2>6. SeenInv(r)' BY <1>2, <1>10, <2>3 DEF SeenInv
  <2>7. \/ fate'[r] = fate[r]
        \/ fate'[r] = "removed" /\ fate[r] \in {"waiting", "uncertain"}
    BY <1>3, <1>6, <1>18
  <2>8. LifeInv(r)' BY <1>1, <1>2, <1>9, <1>10, <2>2, <2>3, <2>7 DEF RunInv, LifeInv
  <2> QED BY <1>11, <1>13, <2>4, <2>5, <2>6, <2>8 DEF RunInv
<1> QED BY <1>7, <1>16, <1>17, <1>18

-----------------------------------------------------------------------------
(* The engine. *)

\* A turn of run r begins or ends: the other runs have none, before and after.
LEMMA TurnFacts ==
  ASSUME Types, NEW r \in Runs, rows' = rows, NEW x \in {Nobody, r},
         turn[Thread(r)] \in {Nobody, r}, turn' = [turn EXCEPT ![Thread(r)] = x]
  PROVE  /\ turn' \in [Automations -> 0..(MaxRuns + 1)]
         /\ Ours(r)' <=> x = r
         /\ \A q \in Runs \ {r} : Ours(q)' = Ours(q)
         /\ \A a \in Automations : turn'[a] \in Runs =>
              turn'[a] = turn[a] \/ rows[turn'[a]].of = a
<1>1. /\ turn \in [Automations -> 0..(MaxRuns + 1)]
      /\ \A q \in Runs : Thread(q) \in Automations
  BY DEF Types, Thread
<1>2. x \in 0..(MaxRuns + 1) /\ Nobody \notin Runs /\ r # Nobody BY RunFacts
<1>3. turn' \in [Automations -> 0..(MaxRuns + 1)] BY <1>1, <1>2
<1>4. Ours(r)' <=> x = r BY <1>1 DEF Ours, Thread
<1>5. ASSUME NEW q \in Runs \ {r} PROVE Ours(q)' = Ours(q)
  BY <1>1, <1>2 DEF Ours, Thread
<1>6. ASSUME NEW a \in Automations, turn'[a] \in Runs
      PROVE  turn'[a] = turn[a] \/ rows[turn'[a]].of = a
  BY <1>1, <1>2, <1>6 DEF Thread
<1> QED BY <1>3, <1>4, <1>5, <1>6

\* A step of the engine at a run that is at work: nobody has said, or is about to say,
\* what came of it.
LEMMA EngineMoves ==
  ASSUME AutomationsInv, Types', NEW r \in Runs, Works(r), \A q \in Runs \ {r} : Untold(q),
         UNCHANGED <<rows, cancels, outcome, live, monitor, writes, record>>, left' <= left,
         \A a \in Automations : turn'[a] \in Runs =>
           turn'[a] = turn[a] \/ rows[turn'[a]].of = a,
         fate'[r] = "none" <=> fate[r] = "none",
         fate[r] = "delivered" => fate'[r] = "delivered",
         fate'[r] # "delivered" => roots'[r] = 0 /\ ~Ours(r)' /\ work'[r] = "none",
         stop'[r] # "none" => stop[r] # "none",
         r \in (cut \cup passed)' => r \in cut \cup passed \/ stop[r] # "none",
         RootsInv(r)'
  PROVE  AutomationsInv'
<1>1. RunInv(r) BY DEF AutomationsInv
<1>2. LifeInv(r)' BY <1>1 DEF RunInv, LifeInv
<1>3. fate[r] \notin {"removed", "failed"} BY <1>1 DEF RunInv, LifeInv, Works, Tasks
<1>4. SeenInv(r)' BY <1>1, <1>3 DEF RunInv, SeenInv, Told
<1>5. Untouched(r)' <=> Untouched(r) BY DEF Untouched
<1>6. StopInv(r)' BY <1>1, <1>5 DEF RunInv, StopInv, Untouched
<1> QED BY <1>2, <1>4, <1>6, OneRun DEF RunInv

\* The count of provider runs where none begins.
LEMMA RootsKept ==
  ASSUME Types, Types', NEW r \in Runs, RootsInv(r), roots'[r] = roots[r], Due(r)' <= Due(r),
         left' <= left
  PROVE  RootsInv(r)'
<1>1. roots[r] \in Nat /\ left \in Int /\ left' \in Int BY DEF Types
<1>2. Due(r) \in Nat /\ Due(r)' \in Nat BY DEF Due
<1>3. MaxRoots + MaxEvents \in Int BY BoundsAssumption
<1>4. roots[r] + Due(r) + left <= MaxRoots + MaxEvents BY DEF RootsInv
<1> HIDE DEF Types
<1> QED BY <1>1, <1>2, <1>3, <1>4 DEF RootsInv

\* The message is taken, lost or removed.
LEMMA FateStep ==
  ASSUME AutomationsInv, NEW r \in Runs, Take(r) \/ DeliverFails(r) \/ PersonRemoves(r)
  PROVE  AutomationsInv'
<1>1. Types /\ RunInv(r) BY DEF AutomationsInv
<1>2. /\ fate[r] \in {"waiting", "sending", "uncertain"}
      /\ \E f \in {"sending", "failed", "uncertain", "removed"} : fate' = [fate EXCEPT ![r] = f]
      /\ UNCHANGED <<rows, cancels, job, outcome, missed, live, open, monitor, writes, retries,
                     record, stop, turn, roots, work, last, barred, passed, cut>>
  BY DEF Take, DeliverFails, PersonRemoves, schedule, service, thread
<1>3. left' \in 0..MaxEvents /\ left' <= left
  <2>1. CASE Take(r) BY <1>1, <2>1 DEF Take, Types
  <2>2. CASE Spend BY <1>1, <2>2, SpendFacts DEF Types
  <2> QED BY <2>1, <2>2 DEF DeliverFails, PersonRemoves
<1>4. fate \in [Runs -> Fates] BY <1>1 DEF Types
<1>13. reached' \in [Runs -> {"no", "maybe", "begun"}]
  BY <1>1 DEF Take, DeliverFails, PersonRemoves, thread, Types
<1>5. Types'
  <2>1. fate' \in [Runs -> Fates] BY <1>2, <1>4 DEF Fates
  <2> QED BY <1>1, <1>2, <1>3, <1>13, <2>1 DEF Types
<1>6. \A q \in Runs : Ours(q)' = Ours(q) BY <1>2 DEF Ours, Thread
<1>7. \A q \in Runs \ {r} : Untold(q) BY <1>2, <1>4, <1>6 DEF Untold
<1>8. Works(r) BY <1>2 DEF Works
<1>9. roots[r] = 0 /\ ~Ours(r) /\ work[r] = "none" BY <1>1, <1>2 DEF RunInv, LifeInv
<1>10. fate'[r] \notin {"none", "delivered"} BY <1>2, <1>4
<1>11. Due(r)' <= Due(r) BY <1>2 DEF Due
<1>12. RootsInv(r)' BY <1>1, <1>2, <1>3, <1>5, <1>11, RootsKept DEF RunInv
<1> QED BY <1>2, <1>3, <1>5, <1>6, <1>7, <1>8, <1>9, <1>10, <1>12, EngineMoves

\* The message reached the provider, and the turn begins.
LEMMA TurnBegins ==
  ASSUME AutomationsInv, NEW r \in Runs, fate[r] \in {"sending", "uncertain"}, Begins(r),
         fate' = [fate EXCEPT ![r] = "delivered"],
         reached' \in [Runs -> {"no", "maybe", "begun"}],
         UNCHANGED <<schedule, service, record, stop, work, last, barred, passed, cut, left>>
  PROVE  AutomationsInv'
<1>1. Types /\ RunInv(r) BY DEF AutomationsInv
<1>2. /\ fate' = [fate EXCEPT ![r] = "delivered"]
      /\ turn[Thread(r)] = Nobody /\ turn' = [turn EXCEPT ![Thread(r)] = r]
      /\ roots' = [roots EXCEPT ![r] = @ + 1]
      /\ UNCHANGED <<rows, cancels, job, outcome, missed, live, open, monitor, writes, retries,
                     record, stop, work, last, barred, passed, cut, left>>
  BY DEF Begins, schedule, service
<1>3. fate \in [Runs -> Fates] /\ roots \in [Runs -> Nat] BY <1>1 DEF Types
<1>4. /\ turn' \in [Automations -> 0..(MaxRuns + 1)]
      /\ \A q \in Runs \ {r} : Ours(q)' = Ours(q)
      /\ \A a \in Automations : turn'[a] \in Runs =>
           turn'[a] = turn[a] \/ rows[turn'[a]].of = a
  BY <1>1, <1>2, TurnFacts
<1>5. Types'
  <2>1. fate' \in [Runs -> Fates] /\ roots' \in [Runs -> Nat] BY <1>2, <1>3 DEF Fates
  <2> QED BY <1>1, <1>2, <1>4, <2>1 DEF Types
<1>6. \A q \in Runs \ {r} : Untold(q) BY <1>2, <1>3, <1>4 DEF Untold
<1>7. Works(r) BY DEF Works
<1>8. fate'[r] = "delivered" BY <1>2, <1>3
<1>9. left' <= left BY <1>1, <1>2 DEF Types
<1>10. RootsInv(r)'
  <2>1. roots[r] = 0 /\ work[r] = "none" BY <1>1, <1>2 DEF RunInv, LifeInv
  <2>2. roots'[r] = 1 /\ Due(r)' = 0 BY <1>2, <1>3, <2>1 DEF Due
  <2>3. left' \in 0..MaxEvents BY <1>1, <1>2 DEF Types
  <2> QED BY <2>2, <2>3, BoundsAssumption DEF RootsInv
<1> QED BY <1>2, <1>4, <1>5, <1>6, <1>7, <1>8, <1>9, <1>10, EngineMoves

\* The message is delivered.
LEMMA DeliverStep ==
  ASSUME AutomationsInv, NEW r \in Runs, Deliver(r)
  PROVE  AutomationsInv'
<1>1. reached' \in [Runs -> {"no", "maybe", "begun"}] BY DEF Deliver, AutomationsInv, Types
<1>2. /\ fate[r] \in {"sending", "uncertain"} /\ Begins(r)
      /\ fate' = [fate EXCEPT ![r] = "delivered"]
      /\ UNCHANGED <<schedule, service, record, stop, work, last, barred, passed, cut, left>>
  BY DEF Deliver
<1> QED BY <1>1, <1>2, TurnBegins

\* A task of the turn ends, and may wake the agent.
LEMMA TaskEndsStep ==
  ASSUME AutomationsInv, NEW r \in Runs, TaskEnds(r)
  PROVE  AutomationsInv'
<1>1. Types /\ RunInv(r) BY DEF AutomationsInv
<1>2. PICK w \in {"none", "waking"} : /\ work' = [work EXCEPT ![r] = w]
                                      /\ w = "waking" => roots[r] < MaxRoots
  BY DEF TaskEnds
<1>3. /\ work[r] \in Tasks
      /\ UNCHANGED <<rows, cancels, job, outcome, missed, live, open, monitor, writes, retries,
                     record, stop, fate, turn, roots, last, reached, barred, passed, cut, left>>
  BY DEF TaskEnds, schedule, service
<1>4. work \in [Runs -> Tasks \cup {"none", "waking", "held", "asked", "stopped"}] BY <1>1 DEF Types
<1>5. Types'
  <2>1. work' \in [Runs -> Tasks \cup {"none", "waking", "held", "asked", "stopped"}] BY <1>2, <1>4
  <2> QED BY <1>1, <1>3, <2>1 DEF Types
<1>6. \A q \in Runs : Ours(q)' = Ours(q) BY <1>3 DEF Ours, Thread
<1>7. \A q \in Runs \ {r} : Untold(q) BY <1>2, <1>3, <1>4, <1>6 DEF Untold
<1>8. Works(r) BY <1>3 DEF Works
<1>9. fate[r] = "delivered" BY <1>1, <1>3 DEF RunInv, LifeInv, Tasks
<1>10. left' <= left BY <1>1, <1>3 DEF Types
<1>11. RootsInv(r)'
  <2>1. work'[r] = w BY <1>2, <1>4
  <2>2. CASE w = "none"
    <3>1. Due(r)' = 0 /\ Due(r) \in Nat BY <2>1, <2>2 DEF Due
    <3>2. Due(r)' <= Due(r) BY <3>1
    <3> QED BY <1>1, <1>3, <1>5, <1>10, <3>2, RootsKept DEF RunInv
  <2>3. CASE w = "waking"
    <3>1. Due(r)' = 1 /\ roots'[r] = roots[r] BY <1>3, <2>1, <2>3 DEF Due
    <3>2. roots[r] \in Nat /\ left' \in 0..MaxEvents BY <1>1, <1>3 DEF Types
    <3> QED BY <1>2, <2>3, <3>1, <3>2, BoundsAssumption DEF RootsInv
  <2> QED BY <1>2, <2>2, <2>3
<1> QED BY <1>3, <1>5, <1>6, <1>7, <1>8, <1>9, <1>10, <1>11, EngineMoves

\* The wake that was announced, or the continuation after a restart.
LEMMA WakeStep ==
  ASSUME AutomationsInv, NEW r \in Runs, Wake(r)
  PROVE  AutomationsInv'
<1>1. Types /\ RunInv(r) BY DEF AutomationsInv
<1>2. /\ work[r] \in {"waking", "held"} /\ work' = [work EXCEPT ![r] = "none"]
      /\ turn[Thread(r)] = Nobody /\ turn' = [turn EXCEPT ![Thread(r)] = r]
      /\ roots' = [roots EXCEPT ![r] = @ + 1]
      /\ UNCHANGED <<rows, cancels, job, outcome, missed, live, open, monitor, writes, retries,
                     record, stop, fate, last, reached, barred, passed, cut, left>>
  BY DEF Wake, Begins, schedule, service
<1>3. /\ roots \in [Runs -> Nat]
      /\ work \in [Runs -> Tasks \cup {"none", "waking", "held", "asked", "stopped"}]
  BY <1>1 DEF Types
<1>4. /\ turn' \in [Automations -> 0..(MaxRuns + 1)]
      /\ \A q \in Runs \ {r} : Ours(q)' = Ours(q)
      /\ \A a \in Automations : turn'[a] \in Runs =>
           turn'[a] = turn[a] \/ rows[turn'[a]].of = a
  BY <1>1, <1>2, TurnFacts
<1>5. Types'
  <2>1. /\ roots' \in [Runs -> Nat]
        /\ work' \in [Runs -> Tasks \cup {"none", "waking", "held", "asked", "stopped"}]
    BY <1>2, <1>3
  <2> QED BY <1>1, <1>2, <1>4, <2>1 DEF Types
<1>6. \A q \in Runs \ {r} : Untold(q) BY <1>2, <1>3, <1>4 DEF Untold
<1>7. Works(r) BY <1>2 DEF Works
<1>8. fate[r] = "delivered" BY <1>1, <1>2 DEF RunInv, LifeInv
<1>9. left' <= left BY <1>1, <1>2 DEF Types
<1>10. RootsInv(r)'
  <2>1. Due(r) = 1 /\ Due(r)' = 0 /\ roots'[r] = roots[r] + 1 BY <1>2, <1>3 DEF Due
  <2>2. roots[r] \in Nat /\ left \in Int /\ left' = left BY <1>1, <1>2 DEF Types
  <2>3. roots[r] + Due(r) + left <= MaxRoots + MaxEvents BY <1>1 DEF RunInv, RootsInv
  <2>4. MaxRoots + MaxEvents \in Int BY BoundsAssumption
  <2> QED BY <2>1, <2>2, <2>3, <2>4 DEF RootsInv
<1> QED BY <1>2, <1>4, <1>5, <1>6, <1>7, <1>8, <1>9, <1>10, EngineMoves

\* A turn of a run ends: by itself, by the person's Stop or by an interrupt.
LEMMA TurnEnds ==
  ASSUME AutomationsInv, NEW r \in Runs, Ours(r), turn' = [turn EXCEPT ![Thread(r)] = Nobody],
         NEW w \in {"none", "task", "stopped"}, work' = [work EXCEPT ![r] = w],
         NEW l \in {"completed", "failed"}, last' = [last EXCEPT ![r] = l],
         NEW s \in {"none", "pending", "done", "failed"}, stop' = [stop EXCEPT ![r] = s],
         s # "none" => stop[r] # "none",
         cut' = cut \/ (cut' = cut \cup {r} /\ (stop[r] # "none" \/ r \in passed)),
         passed' \subseteq passed, barred' \subseteq Automations,
         UNCHANGED <<schedule, service, record, fate, reached, roots>>,
         left' \in 0..MaxEvents, left' <= left
  PROVE  AutomationsInv'
<1>1. Types /\ RunInv(r) BY DEF AutomationsInv
<1>2. UNCHANGED <<rows, cancels, job, outcome, missed, live, open, monitor, writes, retries>>
  BY DEF schedule, service
<1>3. /\ work \in [Runs -> Tasks \cup {"none", "waking", "held", "asked", "stopped"}]
      /\ last \in [Runs -> {"none", "completed", "failed"}]
      /\ cut \subseteq Runs /\ passed \subseteq Runs
      /\ stop \in [Runs -> {"none", "pending", "done", "failed"}]
  BY <1>1 DEF Types
<1>4. turn[Thread(r)] = r BY DEF Ours
<1>5. /\ turn' \in [Automations -> 0..(MaxRuns + 1)]
      /\ \A q \in Runs \ {r} : Ours(q)' = Ours(q)
      /\ \A a \in Automations : turn'[a] \in Runs =>
           turn'[a] = turn[a] \/ rows[turn'[a]].of = a
  BY <1>1, <1>2, <1>4, TurnFacts
<1>6. Types'
  <2>1. work' \in [Runs -> Tasks \cup {"none", "waking", "held", "asked", "stopped"}]
    BY <1>3 DEF Tasks
  <2>2. /\ last' \in [Runs -> {"none", "completed", "failed"}]
        /\ cut' \subseteq Runs /\ passed' \subseteq Runs
    BY <1>3
  <2>3. stop' \in [Runs -> {"none", "pending", "done", "failed"}] BY <1>3
  <2> QED BY <1>1, <1>2, <1>5, <2>1, <2>2, <2>3 DEF Types
<1>7. \A q \in Runs \ {r} : Untold(q) BY <1>2, <1>3, <1>5 DEF Untold
<1>8. Works(r) BY DEF Works
<1>9. fate[r] = "delivered" BY <1>1 DEF RunInv, LifeInv
<1>10. Due(r)' <= Due(r)
  <2>1. work'[r] = w BY <1>3
  <2>2. Due(r)' = 0 /\ Due(r) \in Nat BY <2>1 DEF Due
  <2> QED BY <2>2
<1>11. RootsInv(r)' BY <1>1, <1>6, <1>10, RootsKept DEF RunInv
<1>12. stop'[r] # "none" => stop[r] # "none" BY <1>3
<1>13. r \in (cut \cup passed)' => r \in cut \cup passed \/ stop[r] # "none" OBVIOUS
<1> QED BY <1>2, <1>5, <1>6, <1>7, <1>8, <1>9, <1>11, <1>12, <1>13, EngineMoves

\* The turn of a thread is over, if it has one: it was a run's or nobody's that ace knows.
LEMMA TurnOver ==
  ASSUME AutomationsInv, NEW a \in Automations, turn' = [turn EXCEPT ![a] = Nobody],
         turn[a] \in Runs =>
           /\ \E w \in {"none", "task", "stopped"} : work' = [work EXCEPT ![turn[a]] = w]
           /\ \E l \in {"completed", "failed"} : last' = [last EXCEPT ![turn[a]] = l],
         turn[a] \notin Runs => UNCHANGED <<work, last>>,
         cut' = cut \/ (turn[a] \in Runs /\ turn[a] \in passed /\ cut' = cut \cup {turn[a]}),
         passed' \subseteq passed, barred' \subseteq Automations,
         UNCHANGED <<schedule, service, record, stop, fate, reached, roots>>,
         left' \in 0..MaxEvents, left' <= left
  PROVE  AutomationsInv'
<1>1. Types /\ RowsInv BY DEF AutomationsInv
<1>2. /\ turn \in [Automations -> 0..(MaxRuns + 1)] /\ passed \subseteq Runs
      /\ \A q \in Runs : Thread(q) \in Automations
  BY <1>1 DEF Types, Thread
<1>3. UNCHANGED <<rows, cancels, job, outcome, missed, live, open, monitor, writes, retries>>
  BY DEF schedule, service
<1>4. CASE turn[a] \notin Runs
  <2>1. UNCHANGED <<work, last, cut>> BY <1>4
  <2>2. turn' \in [Automations -> 0..(MaxRuns + 1)] BY <1>2, RunFacts
  <2>3. Types' BY <1>1, <1>2, <1>3, <2>1, <2>2 DEF Types
  <2>4. \A q \in Runs : Ours(q)' = Ours(q) BY <1>2, <1>3, <1>4, RunFacts DEF Ours, Thread
  <2>5. \A q \in Runs : Untold(q) BY <1>3, <2>1, <2>4 DEF Untold
  <2>6. \A q \in Runs : RunInv(q)' BY <1>1, <1>3, <2>3, <2>5, RunSame DEF AutomationsInv
  <2>7. RowsInv' BY <1>1, <1>2, <1>3, RunFacts DEF RowsInv, Running
  <2> QED BY <2>3, <2>6, <2>7 DEF AutomationsInv
<1>5. CASE turn[a] \in Runs
  <2>1. PICK r \in Runs : r = turn[a] BY <1>5
  <2>2. Thread(r) = a BY <1>1, <2>1 DEF RowsInv, Thread
  <2>3. Ours(r) BY <2>1, <2>2 DEF Ours
  <2>4. PICK w \in {"none", "task", "stopped"} : work' = [work EXCEPT ![r] = w] BY <1>5, <2>1
  <2>5. PICK l \in {"completed", "failed"} : last' = [last EXCEPT ![r] = l] BY <1>5, <2>1
  <2>6. stop' = [stop EXCEPT ![r] = stop[r]] /\ stop[r] \in {"none", "pending", "done", "failed"}
    BY <1>1 DEF Types
  <2>7. cut' = cut \/ (cut' = cut \cup {r} /\ r \in passed) BY <2>1
  <2>8. turn' = [turn EXCEPT ![Thread(r)] = Nobody] BY <2>2
  <2> QED BY <2>3, <2>4, <2>5, <2>6, <2>7, <2>8, TurnEnds
<1> QED BY <1>4, <1>5

\* A turn ends by itself.
LEMMA EndTurnStep ==
  ASSUME AutomationsInv, NEW a \in Automations, EndTurn(a)
  PROVE  AutomationsInv'
<1>1. Types BY DEF AutomationsInv
<1>2. turn[a] \in Runs <=> turn[a] # Person
  <2>1. turn[a] \in 0..(MaxRuns + 1) BY <1>1 DEF Types
  <2> QED BY <2>1, RunFacts DEF EndTurn
<1>3. left' \in 0..MaxEvents /\ left' <= left /\ barred' \subseteq Automations
  BY <1>1 DEF EndTurn, Types
<1>4. /\ turn' = [turn EXCEPT ![a] = Nobody]
      /\ UNCHANGED <<schedule, service, record, stop, fate, reached, roots, passed, cut>>
      /\ turn[a] = Person => UNCHANGED <<work, last>>
  BY DEF EndTurn
<1>5. turn[a] # Person =>
        /\ \E w \in {"none", "task"} : work' = [work EXCEPT ![turn[a]] = w]
        /\ \E l \in {"completed", "failed"} : last' = [last EXCEPT ![turn[a]] = l]
  BY DEF EndTurn
<1> QED BY <1>2, <1>3, <1>4, <1>5, TurnOver

\* The person's Stop of the thread.
LEMMA PersonStopsStep ==
  ASSUME AutomationsInv, NEW a \in Automations, PersonStops(a)
  PROVE  AutomationsInv'
<1>1. Types BY DEF AutomationsInv
<1>2. left' \in 0..MaxEvents /\ left' <= left BY <1>1, SpendFacts DEF PersonStops, Types
<1>3. /\ turn' = [turn EXCEPT ![a] = Nobody] /\ barred' = barred \cup {a}
      /\ work' = [r \in Runs |-> IF turn[a] = r THEN "stopped" ELSE work[r]]
      /\ last' = [r \in Runs |-> IF turn[a] = r THEN "failed" ELSE last[r]]
      /\ UNCHANGED <<schedule, service, record, stop, fate, reached, roots, passed, cut>>
  BY DEF PersonStops
<1>4. /\ DOMAIN work = Runs /\ work = [r \in Runs |-> work[r]]
      /\ DOMAIN last = Runs /\ last = [r \in Runs |-> last[r]]
  BY <1>1 DEF Types
<1>5. turn[a] \in Runs => /\ work' = [work EXCEPT ![turn[a]] = "stopped"]
                          /\ last' = [last EXCEPT ![turn[a]] = "failed"]
  BY <1>3, <1>4
<1>6. turn[a] \notin Runs => UNCHANGED <<work, last>> BY <1>3, <1>4
<1>7. barred' \subseteq Automations BY <1>1, <1>3 DEF Types
<1> QED BY <1>2, <1>3, <1>5, <1>6, <1>7, TurnOver

\* The root's interrupt, which ends whatever turn runs in the thread.
LEMMA InterruptRootStep ==
  ASSUME AutomationsInv, NEW r \in Runs, InterruptRoot(r)
  PROVE  AutomationsInv'
<1>1. Types BY DEF AutomationsInv
<1>2. /\ Thread(r) \in Automations /\ barred' \subseteq Automations
      /\ left' \in 0..MaxEvents /\ left' <= left
  BY <1>1 DEF Types, Thread, InterruptRoot
<1>3. PICK a \in Automations : a = Thread(r) BY <1>2
<1>4. /\ r \in passed /\ passed' \subseteq passed /\ turn' = [turn EXCEPT ![a] = Nobody]
      /\ cut' = cut \cup ({turn[a]} \cap {r})
      /\ UNCHANGED <<schedule, service, record, stop, fate, reached, roots>>
  BY <1>3 DEF InterruptRoot, Interrupts
<1>5. turn[a] \in Runs => /\ \E w \in {"none", "task"} : work' = [work EXCEPT ![turn[a]] = w]
                          /\ last' = [last EXCEPT ![turn[a]] = "failed"]
  BY <1>3 DEF InterruptRoot, Interrupts
<1>6. turn[a] \notin Runs => UNCHANGED <<work, last>> BY <1>3 DEF InterruptRoot, Interrupts
<1>7. cut' = cut \/ (turn[a] \in Runs /\ turn[a] \in passed /\ cut' = cut \cup {turn[a]})
  BY <1>4
<1> QED BY <1>2, <1>4, <1>5, <1>6, <1>7, TurnOver

\* Only the delivery of run r's stop changes, and whether its interrupt passed its guard.
LEMMA StopMoves ==
  ASSUME AutomationsInv, NEW r \in Runs,
         NEW s \in {"none", "pending", "done", "failed"}, stop' = [stop EXCEPT ![r] = s],
         s # "none" => stop[r] # "none",
         passed' \subseteq passed \/ (stop[r] # "none" /\ passed' = passed \cup {r}),
         UNCHANGED <<schedule, service, record, fate, thread, roots, cut>>,
         left' \in 0..MaxEvents, left' <= left
  PROVE  AutomationsInv'
<1>1. Types /\ RunInv(r) BY DEF AutomationsInv
<1>2. UNCHANGED <<rows, cancels, job, outcome, missed, live, open, monitor, writes, retries, turn,
                  work, last, reached, barred>>
  BY DEF schedule, service, thread
<1>3. stop \in [Runs -> {"none", "pending", "done", "failed"}] /\ passed \subseteq Runs
  BY <1>1 DEF Types
<1>4. stop' \in [Runs -> {"none", "pending", "done", "failed"}] /\ passed' \subseteq Runs BY <1>3
<1>5. Types' BY <1>1, <1>2, <1>4 DEF Types
<1>6. \A q \in Runs : Ours(q)' = Ours(q) BY <1>2 DEF Ours, Thread
<1>7. \A q \in Runs \ {r} : Untold(q) BY <1>2, <1>3, <1>6 DEF Untold
<1>8. Works(r)' <=> Works(r) BY <1>2, <1>6 DEF Works
<1>9. Untouched(r)' <=> Untouched(r) BY DEF Untouched
<1>10. LifeInv(r)' BY <1>1, <1>2, <1>6 DEF RunInv, LifeInv
<1>11. SeenInv(r)' BY <1>1, <1>2, <1>8, <1>9 DEF RunInv, SeenInv, Told
<1>12. StopInv(r)'
  <2>1. stop'[r] # "none" => stop[r] # "none" BY <1>3
  <2>2. stop[r] # "none" => ~Untouched(r) BY <1>1 DEF RunInv, StopInv, Untouched
  <2>3. r \in (cut \cup passed)' => ~Untouched(r) BY <1>1, <2>2 DEF RunInv, StopInv
  <2> QED BY <1>1, <1>9, <2>1, <2>3 DEF RunInv, StopInv
<1>13. Due(r)' = Due(r) /\ Due(r) \in Nat BY <1>2 DEF Due
<1>14. RootsInv(r)' BY <1>1, <1>5, <1>13, RootsKept DEF RunInv
<1> QED BY <1>2, <1>5, <1>7, <1>10, <1>11, <1>12, <1>14, OneRun DEF RunInv

\* A run's stop is delivered, or its delivery fails.
LEMMA DeliverStopStep ==
  ASSUME AutomationsInv, NEW r \in Runs, DeliverStop(r) \/ StopFails(r)
  PROVE  AutomationsInv'
<1>1. Types /\ RunInv(r) BY DEF AutomationsInv
<1>2. stop \in [Runs -> {"none", "pending", "done", "failed"}] /\ passed \subseteq Runs
  BY <1>1 DEF Types
<1>3. CASE StopFails(r)
  <2>1. left' \in 0..MaxEvents /\ left' <= left BY <1>1, <1>3, SpendFacts DEF StopFails, Types
  <2>2. UNCHANGED <<schedule, service, record, fate, thread, roots, cut>> BY <1>3 DEF StopFails
  <2>3. passed' \subseteq passed BY <1>3 DEF StopFails
  <2>4. PICK s \in {"none", "pending", "done", "failed"} :
          stop' = [stop EXCEPT ![r] = s] /\ (s # "none" => stop[r] # "none")
    <3>1. CASE stop[r] = "pending" /\ stop' = [stop EXCEPT ![r] = "failed"] BY <3>1
    <3>2. CASE stop' = [stop EXCEPT ![r] = IF @ = "done" THEN "failed" ELSE @]
      <4>1. CASE stop[r] = "done"
        <5>1. stop' = [stop EXCEPT ![r] = "failed"] BY <1>2, <3>2, <4>1
        <5> QED BY <4>1, <5>1
      <4>2. CASE stop[r] # "done"
        <5>1. stop' = [stop EXCEPT ![r] = stop[r]] BY <1>2, <3>2, <4>2
        <5> QED BY <1>2, <5>1
      <4> QED BY <4>1, <4>2
    <3> QED BY <1>3, <3>1, <3>2 DEF StopFails
  <2> QED BY <2>1, <2>2, <2>3, <2>4, StopMoves
<1>4. CASE DeliverStop(r)
  <2>1. left' \in 0..MaxEvents /\ left' <= left BY <1>1, <1>4 DEF DeliverStop, Types
  <2>2. /\ stop[r] = "pending" /\ stop' = [stop EXCEPT ![r] = "done"]
        /\ UNCHANGED <<schedule, service, record, fate, reached, barred, roots, left>>
    BY <1>4 DEF DeliverStop
  <2>3. CASE /\ UNCHANGED <<cut, turn, work, last>>
             /\ passed' = passed \/ passed' = passed \cup {r}
    <3>1. UNCHANGED thread BY <2>2, <2>3 DEF thread
    <3> QED BY <2>1, <2>2, <2>3, <3>1, StopMoves
  <2>4. CASE Hits(r) /\ record[r].target = "interrupt" /\ Interrupts(r) /\ UNCHANGED passed
    <3>1. Ours(r) /\ turn[Thread(r)] = r BY <2>4 DEF Hits, Ours
    <3>2. /\ cut' = cut \cup {r} /\ turn' = [turn EXCEPT ![Thread(r)] = Nobody]
          /\ last' = [last EXCEPT ![r] = "failed"]
      BY <2>4, <3>1 DEF Interrupts
    <3>3. PICK w \in {"none", "task"} : work' = [work EXCEPT ![r] = w]
      BY <2>4, <3>1 DEF Interrupts
    <3>4. barred' \subseteq Automations BY <1>1, <2>2 DEF Types
    <3> QED BY <2>1, <2>2, <2>4, <3>1, <3>2, <3>3, <3>4, TurnEnds
  <2>5. CASE /\ Hits(r) /\ record[r].target = "work" /\ cut' = cut \cup {r}
             /\ work' = [work EXCEPT ![r] = "none"] /\ UNCHANGED <<turn, last, passed>>
    <3>1. work[r] \in Tasks BY <2>5 DEF Hits
    <3>2. /\ cut' = cut \cup {r} /\ work' = [work EXCEPT ![r] = "none"]
          /\ UNCHANGED <<turn, last, passed>>
      BY <2>5
    <3>3. UNCHANGED <<rows, cancels, job, outcome, missed, live, open, monitor, writes, retries>>
      BY <2>2 DEF schedule, service
    <3>4. /\ work \in [Runs -> Tasks \cup {"none", "waking", "held", "asked", "stopped"}]
          /\ cut \subseteq Runs
      BY <1>1 DEF Types
    <3>5. Types'
      <4>1. work' \in [Runs -> Tasks \cup {"none", "waking", "held", "asked", "stopped"}]
        BY <3>2, <3>4
      <4>2. stop' \in [Runs -> {"none", "pending", "done", "failed"}] BY <1>2, <2>2
      <4> QED BY <1>1, <2>2, <3>2, <3>3, <3>4, <4>1, <4>2 DEF Types
    <3>6. \A q \in Runs : Ours(q)' = Ours(q) BY <3>2, <3>3 DEF Ours, Thread
    <3>7. \A q \in Runs \ {r} : Untold(q) BY <1>2, <2>2, <3>2, <3>3, <3>4, <3>6 DEF Untold
    <3>8. Works(r) BY <3>1 DEF Works
    <3>9. fate[r] = "delivered" BY <1>1, <3>1 DEF RunInv, LifeInv, Tasks
    <3>10. Due(r)' <= Due(r)
      <4>1. work'[r] = "none" BY <3>2, <3>4
      <4>2. Due(r)' = 0 /\ Due(r) \in Nat BY <4>1 DEF Due
      <4> QED BY <4>2
    <3>11. RootsInv(r)' BY <1>1, <2>1, <2>2, <3>5, <3>10, RootsKept DEF RunInv
    <3> QED BY <2>1, <2>2, <3>2, <3>3, <3>5, <3>6, <3>7, <3>8, <3>9, <3>11, EngineMoves
  <2>6. \/ UNCHANGED <<cut, turn, work, last>> /\ (passed' = passed \/ passed' = passed \cup {r})
        \/ Hits(r) /\ record[r].target = "interrupt" /\ Interrupts(r) /\ UNCHANGED passed
        \/ /\ Hits(r) /\ record[r].target = "work" /\ cut' = cut \cup {r}
           /\ work' = [work EXCEPT ![r] = "none"] /\ UNCHANGED <<turn, last, passed>>
    BY <1>4 DEF DeliverStop
  <2> QED BY <2>3, <2>4, <2>5, <2>6
<1> QED BY <1>3, <1>4

\* No run gets work: what a turn left becomes late or is dropped, and a thread that is held
\* asks the person or carries on.
LEMMA WorkMoves ==
  ASSUME AutomationsInv, Types', \A q \in Runs : Ours(q)' = Ours(q),
         \A q \in Runs : \/ work'[q] = work[q]
                         \/ work[q] # "none" /\ work'[q] = "none"
                         \/ work[q] \in Tasks /\ work'[q] = "late"
                         \/ work[q] \in {"held", "asked"} /\ work'[q] \in {"held", "asked"},
         UNCHANGED <<rows, cancels, outcome, live, monitor, writes, record, stop, fate, roots,
                     passed, cut>>,
         \A a \in Automations : turn'[a] \in Runs => turn'[a] = turn[a],
         left' <= left
  PROVE  AutomationsInv'
<1>1. Types /\ RowsInv BY DEF AutomationsInv
<1>2. ASSUME NEW q \in Runs PROVE RunInv(q)'
  <2>0. RunInv(q) BY DEF AutomationsInv
  <2>1. CASE work'[q] = work[q]
    <3>1. Untold(q) BY <2>1 DEF Untold
    <3> QED BY <1>1, <2>0, <3>1, RunSame
  <2>2. CASE work'[q] # work[q]
    <3>1. \/ work[q] # "none" /\ work'[q] = "none"
          \/ work[q] \in Tasks /\ work'[q] = "late"
          \/ work[q] \in {"held", "asked"} /\ work'[q] \in {"held", "asked"}
      BY <2>2
    <3>2. fate[q] = "delivered" BY <2>0, <3>1 DEF RunInv, LifeInv, Tasks
    <3>3. Works(q)' => Works(q) BY <3>1 DEF Works, Tasks
    <3>4. Untouched(q)' <=> Untouched(q) BY DEF Untouched
    <3>5. LifeInv(q)' BY <2>0, <3>2 DEF RunInv, LifeInv
    <3>6. SeenInv(q)' BY <2>0, <3>3, <3>4 DEF RunInv, SeenInv, Told
    <3>7. StopInv(q)' BY <2>0, <3>4 DEF RunInv, StopInv
    <3>8. Due(q)' \in {0, 1} /\ Due(q) \in {0, 1} /\ (Due(q)' = 1 => Due(q) = 1)
      BY <3>1 DEF Due, Tasks
    <3>9. Due(q)' <= Due(q) BY <3>8
    <3>10. RootsInv(q)' BY <1>1, <2>0, <3>9, RootsKept DEF RunInv
    <3> QED BY <3>5, <3>6, <3>7, <3>10 DEF RunInv
  <2> QED BY <2>1, <2>2
<1>3. RowsInv' BY <1>1, RunFacts DEF RowsInv, Running
<1> QED BY <1>2, <1>3 DEF AutomationsInv

\* A turn that is no run's begins: no run gets work by it.
LEMMA OtherBegins ==
  ASSUME AutomationsInv, NEW a \in Automations, turn[a] = Nobody,
         turn' = [turn EXCEPT ![a] = Person], work' = Overtaken(a),
         reached' \in [Runs -> {"no", "maybe", "begun"}], barred' \subseteq Automations,
         UNCHANGED <<schedule, service, record, stop, fate, last, roots, passed, cut>>,
         left' \in 0..MaxEvents, left' <= left
  PROVE  AutomationsInv'
<1>1. Types BY DEF AutomationsInv
<1>2. /\ turn \in [Automations -> 0..(MaxRuns + 1)]
      /\ work \in [Runs -> Tasks \cup {"none", "waking", "held", "asked", "stopped"}]
      /\ \A q \in Runs : Thread(q) \in Automations
  BY <1>1 DEF Types, Thread
<1>3. UNCHANGED <<rows, cancels, job, outcome, missed, live, open, monitor, writes, retries>>
  BY DEF schedule, service
<1>4. turn' \in [Automations -> 0..(MaxRuns + 1)] BY <1>2, RunFacts
<1>5. work' \in [Runs -> Tasks \cup {"none", "waking", "held", "asked", "stopped"}]
  BY <1>2 DEF Overtaken, Tasks
<1>6. Types' BY <1>1, <1>3, <1>4, <1>5 DEF Types
<1>7. \A q \in Runs : Ours(q)' = Ours(q) BY <1>2, <1>3, RunFacts DEF Ours, Thread
<1>8. \A q \in Runs : \/ work'[q] = work[q]
                      \/ work[q] # "none" /\ work'[q] = "none"
                      \/ work[q] \in Tasks /\ work'[q] = "late"
  BY DEF Overtaken
<1>9. \A x \in Automations : turn'[x] \in Runs => turn'[x] = turn[x] BY <1>2, RunFacts
<1> QED BY <1>3, <1>6, <1>7, <1>8, <1>9, WorkMoves

\* The person's own message starts a turn.
LEMMA PersonStartsStep ==
  ASSUME AutomationsInv, NEW a \in Automations, PersonStarts(a)
  PROVE  AutomationsInv'
<1>1. Types BY DEF AutomationsInv
<1>2. left' \in 0..MaxEvents /\ left' <= left BY <1>1, SpendFacts DEF PersonStarts, Types
<1>3. reached' \in [Runs -> {"no", "maybe", "begun"}] /\ barred' \subseteq Automations
  BY <1>1 DEF PersonStarts, Types
<1> QED BY <1>2, <1>3, OtherBegins DEF PersonStarts

\* A message whose delivery had no word begins: the engine binds it to its run, or not.
LEMMA SurfacesStep ==
  ASSUME AutomationsInv, NEW r \in Runs, Surfaces(r)
  PROVE  AutomationsInv'
<1>1. Types BY DEF AutomationsInv
<1>2. /\ reached' \in [Runs -> {"no", "maybe", "begun"}] /\ barred' \subseteq Automations
      /\ left' \in 0..MaxEvents /\ left' <= left
  BY <1>1 DEF Surfaces, Types
<1>3. /\ turn[Thread(r)] = Nobody
      /\ UNCHANGED <<schedule, service, record, stop, last, barred, passed, cut, left>>
  BY DEF Surfaces
<1>4. CASE /\ fate[r] = "uncertain" /\ Begins(r) /\ fate' = [fate EXCEPT ![r] = "delivered"]
           /\ UNCHANGED work
  BY <1>2, <1>3, <1>4, TurnBegins
<1>5. CASE /\ turn' = [turn EXCEPT ![Thread(r)] = Person] /\ work' = Overtaken(Thread(r))
           /\ UNCHANGED <<fate, roots>>
  <2>1. Thread(r) \in Automations BY <1>1 DEF Types, Thread
  <2> QED BY <1>2, <1>3, <1>5, <2>1, OtherBegins
<1> QED BY <1>4, <1>5 DEF Surfaces

\* A continuation is not delivered, or the person lets the thread carry on.
LEMMA ResumeStep ==
  ASSUME AutomationsInv,
         (\E r \in Runs : ResumeFails(r)) \/ (\E a \in Automations : PersonResumes(a))
  PROVE  AutomationsInv'
<1>1. Types BY DEF AutomationsInv
<1>2. work \in [Runs -> Tasks \cup {"none", "waking", "held", "asked", "stopped"}] BY <1>1 DEF Types
<1>3. left' \in 0..MaxEvents /\ left' <= left
  BY <1>1, SpendFacts DEF ResumeFails, PersonResumes, Types
<1>4. /\ UNCHANGED <<rows, cancels, job, outcome, missed, live, open, monitor, writes, retries,
                     record, stop, fate, turn, last, reached, roots, passed, cut>>
      /\ barred' \subseteq Automations
  BY <1>1 DEF ResumeFails, PersonResumes, schedule, service, Types
<1>5. \A q \in Runs : Ours(q)' = Ours(q) BY <1>4 DEF Ours, Thread
<1>6. /\ work' \in [Runs -> Tasks \cup {"none", "waking", "held", "asked", "stopped"}]
      /\ \A q \in Runs :
           \/ work'[q] = work[q]
           \/ work[q] # "none" /\ work'[q] = "none"
           \/ work[q] \in {"held", "asked"} /\ work'[q] \in {"held", "asked"}
  <2>1. ASSUME NEW r \in Runs, ResumeFails(r)
        PROVE  work[r] = "held" /\ work' = [work EXCEPT ![r] = "asked"]
    BY <2>1 DEF ResumeFails
  <2>2. ASSUME NEW a \in Automations, PersonResumes(a)
        PROVE  work' = [r \in Runs |-> IF Thread(r) # a THEN work[r]
                                       ELSE CASE work[r] = "asked" -> "held"
                                              [] work[r] = "stopped" -> "none"
                                              [] OTHER -> work[r]]
    BY <2>2 DEF PersonResumes
  <2>3. CASE \E r \in Runs : ResumeFails(r) BY <1>2, <2>1, <2>3
  <2>4. CASE \E a \in Automations : PersonResumes(a) BY <1>2, <2>2, <2>4
  <2> QED BY <2>3, <2>4
<1>7. Types' BY <1>1, <1>3, <1>4, <1>6 DEF Types
<1> QED BY <1>3, <1>4, <1>5, <1>6, <1>7, WorkMoves

\* The daemon dies: a turn that ran is held, which uses up an event.
LEMMA CrashStep ==
  ASSUME AutomationsInv, Crash
  PROVE  AutomationsInv'
<1>1. Types /\ RowsInv BY DEF AutomationsInv
<1>2. /\ fate \in [Runs -> Fates] /\ left \in 0..MaxEvents /\ roots \in [Runs -> Nat]
      /\ work \in [Runs -> Tasks \cup {"none", "waking", "held", "asked", "stopped"}]
      /\ last \in [Runs -> {"none", "completed", "failed"}]
      /\ stop \in [Runs -> {"none", "pending", "done", "failed"}]
      /\ \A q \in Runs : Thread(q) \in Automations
  BY <1>1 DEF Types, Thread
<1>3. /\ live' = FALSE /\ open' = TRUE /\ monitor' = [r \in Runs |-> NoMonitor]
      /\ writes' = {} /\ retries' = {} /\ turn' = [a \in Automations |-> Nobody]
      /\ passed' = {} /\ UNCHANGED <<rows, cancels, job, outcome, missed, record, barred, roots, cut>>
  BY DEF Crash, schedule
<1>4. PICK f \in {"waiting", "uncertain"}, b \in {"no", "begun"}, held \in {"held", "asked"} :
        /\ fate' = [r \in Runs |-> IF fate[r] = "sending" THEN f ELSE fate[r]]
        /\ reached' = [r \in Runs |-> IF fate[r] = "sending" THEN b
                                      ELSE IF reached[r] = "maybe" THEN "no" ELSE reached[r]]
        /\ work' = [r \in Runs |-> IF Ours(r) \/ work[r] \in {"task", "waking", "held"} THEN held
                                   ELSE IF work[r] = "late" THEN "none" ELSE work[r]]
  BY DEF Crash
<1>5. reached' \in [Runs -> {"no", "maybe", "begun"}] BY <1>1, <1>4 DEF Types
<1>6. last' = [r \in Runs |-> IF Ours(r) THEN "failed" ELSE last[r]] BY DEF Crash
<1>7. stop' = [r \in Runs |-> IF stop[r] = "pending" \/ (r \in passed /\ stop[r] = "done")
                              THEN "failed" ELSE stop[r]]
  BY DEF Crash
<1>8. left' \in 0..MaxEvents /\ left' = left - 1 BY <1>2, SpendFacts DEF Crash, Spend
<1>9. Types'
  <2>1. fate' \in [Runs -> Fates] BY <1>2, <1>4 DEF Fates
  <2>2. work' \in [Runs -> Tasks \cup {"none", "waking", "held", "asked", "stopped"}]
    BY <1>2, <1>4
  <2>3. last' \in [Runs -> {"none", "completed", "failed"}] BY <1>2, <1>6
  <2>4. stop' \in [Runs -> {"none", "pending", "done", "failed"}] BY <1>2, <1>7
  <2>5. monitor' \in [Runs -> Monitors] BY <1>3, MonitorFacts
  <2>6. turn' \in [Automations -> 0..(MaxRuns + 1)] BY <1>3, RunFacts
  <2> QED BY <1>1, <1>3, <1>5, <1>8, <2>1, <2>2, <2>3, <2>4, <2>5, <2>6 DEF Types
<1>10. ASSUME NEW q \in Runs PROVE RunInv(q)'
  <2>0. RunInv(q) BY DEF AutomationsInv
  <2>1. monitor'[q].at = "none" /\ ~Ours(q)'
    BY <1>2, <1>3, MonitorFacts, RunFacts DEF Ours, Thread
  <2>2. \/ fate'[q] = fate[q]
        \/ fate[q] = "sending" /\ fate'[q] \in {"waiting", "uncertain"}
    BY <1>4
  <2>3. /\ work'[q] \in {"none", "stopped", "held", "asked"}
        /\ work'[q] \in {"held", "asked"} =>
             Ours(q) \/ work[q] \in Tasks \cup {"waking", "held", "asked"}
        /\ work'[q] # "none" => Ours(q) \/ work[q] # "none"
    BY <1>2, <1>4 DEF Tasks
  <2>4. Works(q)' => Works(q) BY <2>1, <2>2, <2>3 DEF Works, Tasks
  <2>5. Untouched(q)' <=> Untouched(q) BY <1>3 DEF Untouched
  <2>6. LifeInv(q)' BY <1>3, <2>0, <2>1, <2>2, <2>3 DEF RunInv, LifeInv
  <2>7. SeenInv(q)' BY <1>3, <2>0, <2>1, <2>2, <2>4, <2>5 DEF RunInv, SeenInv, Told
  <2>8. stop'[q] # "none" => stop[q] # "none" BY <1>7
  <2>9. StopInv(q)' BY <1>3, <2>0, <2>5, <2>8 DEF RunInv, StopInv
  <2>10. RootsInv(q)'
    <3>1. Due(q)' <= 1 /\ Due(q)' \in Nat /\ Due(q) \in Nat BY DEF Due
    <3>2. roots[q] + Due(q) + left <= MaxRoots + MaxEvents BY <2>0 DEF RunInv, RootsInv
    <3>3. MaxRoots + MaxEvents \in Int BY BoundsAssumption
    <3>4. roots[q] \in Nat /\ left \in Int BY <1>2
    <3> QED BY <1>3, <1>8, <3>1, <3>2, <3>3, <3>4 DEF RootsInv
  <2> QED BY <2>6, <2>7, <2>9, <2>10 DEF RunInv
<1>11. RowsInv' BY <1>1, <1>3, RunFacts DEF RowsInv, Running
<1> QED BY <1>9, <1>10, <1>11 DEF AutomationsInv

-----------------------------------------------------------------------------
(* Rows that are claimed, started, skipped and finished. *)

\* A run that did not run yet: it is claimed, goes on waiting, starts or is skipped.
LEMMA FreshRun ==
  ASSUME Types, Types', NEW q \in Runs, RunInv(q), rows[q].status \in {"none", "queued"},
         rows'[q].status \in {"queued", "skipped", "running"},
         rows'[q].status = "running" => live' /\ monitor'[q] = At("executing"),
         rows'[q].status # "running" =>
           monitor'[q] = monitor[q] /\ (<<"admit", q>> \in writes' => <<"admit", q>> \in writes),
         outcome'[q] = outcome[q], record'[q] = record[q], stop'[q] = stop[q],
         fate'[q] = fate[q], roots'[q] = roots[q], work'[q] = work[q], ~Ours(q)',
         q \in (cut \cup passed)' => q \in cut \cup passed, left' <= left
  PROVE  RunInv(q)'
<1>1. ~record[q].thread /\ monitor[q].at = "none" /\ outcome[q] = "none" /\ <<"admit", q>> \notin writes
  BY DEF RunInv, LifeInv, SeenInv
<1>2. monitor'[q].at = IF rows'[q].status = "running" THEN "executing" ELSE "none"
  BY <1>1, MonitorFacts
<1>3. LifeInv(q)' BY <1>1, <1>2 DEF RunInv, LifeInv
<1>4. SeenInv(q)' BY <1>1, <1>2 DEF SeenInv
<1>5. Untouched(q)' <=> Untouched(q) BY DEF Untouched
<1>6. StopInv(q)' BY <1>5 DEF RunInv, StopInv
<1>7. Due(q)' = Due(q) /\ Due(q) \in Nat BY DEF Due
<1>8. RootsInv(q)' BY <1>7, RootsKept DEF RunInv
<1> QED BY <1>3, <1>4, <1>6, <1>8 DEF RunInv

\* What a new fire becomes.
LEMMA AdmissionFacts ==
  ASSUME NEW active \in BOOLEAN, NEW waiting \in BOOLEAN, NEW total, NEW file \in BOOLEAN
  PROVE  /\ admission(active, waiting, total, file) \in {"skipped", "queued", "running"}
         /\ admission(active, waiting, total, file) = "running" => ~active
BY DEF admission

\* The next event gets the next row, of which there is nothing yet.
LEMMA NextRow ==
  ASSUME AutomationsInv, Cardinality(Created) < MaxRuns
  PROVE  \E r \in Runs : /\ r = Cardinality(Created) + 1 /\ rows[r].status = "none"
                         /\ ~Ours(r) /\ \A x \in Automations : turn[x] # r
                         /\ \E n \in 0..MaxRuns : r = n + 1 /\ ClaimedTo(rows, n)
<1>1. Types /\ RowsInv BY DEF AutomationsInv
<1>3. PICK n \in 0..MaxRuns : ClaimedTo(rows, n) BY <1>1 DEF RowsInv, ClaimedTo
<1>4. n \in Nat /\ MaxRuns \in Nat BY RunFacts
<1>5. Cardinality(Created) = n
  <2>1. Created = 1..n BY <1>3, <1>4 DEF Created, ClaimedTo, Runs
  <2>2. Cardinality(1..n) = IF 1 > n THEN 0 ELSE n - 1 + 1 BY <1>4, FS_Interval
  <2>3. Cardinality(1..n) = n BY <1>4, <2>2
  <2> QED BY <2>1, <2>3
<1>6. PICK r \in Runs : r = n + 1
  <2>1. n < MaxRuns BY <1>5
  <2> QED BY <1>4, <2>1 DEF Runs
<1>7. rows[r].status = "none" BY <1>3, <1>4, <1>6 DEF ClaimedTo
<1>8. ~Ours(r) BY <1>7 DEF AutomationsInv, RunInv, LifeInv
<1>9. \A x \in Automations : turn[x] # r BY <1>1, <1>8 DEF RowsInv, Ours, Thread
<1> QED BY <1>3, <1>5, <1>6, <1>7, <1>8, <1>9

\* A row that is claimed keeps what the rows promise.
LEMMA ClaimRows ==
  ASSUME Types, RowsInv, NEW n \in 0..MaxRuns, ClaimedTo(rows, n), NEW r \in Runs, r = n + 1,
         NEW a \in Automations, rows'[r].of = a, rows'[r].status # "none",
         rows'[r].status = "running" => Having(rows, a, "running") = {},
         \A q \in Runs \ {r} : rows'[q] = rows[q],
         \A x \in Automations : turn[x] # r, UNCHANGED <<cancels, turn>>
  PROVE  RowsInv'
<1>1. n \in Nat /\ MaxRuns \in Nat BY RunFacts
<1>2. rows[r].status = "none" BY <1>1 DEF ClaimedTo
<1>3. n + 1 \in 0..MaxRuns /\ \A q \in Runs : rows'[q].status # "none" <=> q <= n + 1
  <2>1. n + 1 \in 0..MaxRuns BY <1>1 DEF Runs
  <2>2. ASSUME NEW q \in Runs \ {r} PROVE rows'[q].status # "none" <=> q <= n + 1
    <3>1. rows[q].status # "none" <=> q <= n BY DEF ClaimedTo
    <3>2. q \in Nat /\ q # n + 1 BY RunFacts
    <3>3. q <= n <=> q <= n + 1 BY <1>1, <3>2
    <3> QED BY <3>1, <3>3
  <2>3. rows'[r].status # "none" /\ r <= n + 1 BY <1>1
  <2> QED BY <2>1, <2>2, <2>3
<1>4. OneRuns(rows')
  <2>1. \A q \in Runs : rows[q].status = "running" /\ rows[q].of = a => rows'[r].status # "running"
    BY DEF Having
  <2> QED BY <2>1 DEF OneRuns, RowsInv
<1>5. cancels' \subseteq Running(rows') BY <1>2 DEF RowsInv, Running
<1>6. \A x \in Automations : turn'[x] \in Runs => rows'[turn'[x]].of = x BY DEF RowsInv
<1> QED BY <1>3, <1>4, <1>5, <1>6 DEF RowsInv, OneRuns

\* An event is claimed.
LEMMA FireStep ==
  ASSUME AutomationsInv, NEW a \in Automations, NEW file \in BOOLEAN, Fire(a, file)
  PROVE  AutomationsInv'
<1>1. Types /\ RowsInv BY DEF AutomationsInv
<1>2. /\ rows \in [Runs -> Rows] /\ monitor \in [Runs -> Monitors]
      /\ writes \in SUBSET ({"admit", "cancel"} \X Runs) /\ left \in 0..MaxEvents
  BY <1>1 DEF Types, Rows
<1>3. PICK r \in Runs : /\ r = Cardinality(Created) + 1 /\ rows[r].status = "none"
                        /\ ~Ours(r) /\ \A x \in Automations : turn[x] # r
                        /\ \E n \in 0..MaxRuns : r = n + 1 /\ ClaimedTo(rows, n)
  BY NextRow DEF Fire
<1> DEFINE becomes == IF ~open THEN "skipped"
                      ELSE admission(Having(rows, a, "running") # {}, Having(rows, a, "queued") # {},
                                     Cardinality(Running(rows)), file)
           rs == [rows EXCEPT ![r] = [of |-> a, status |-> becomes]]
<1>4. /\ live /\ rows' = rs /\ monitor' = Launch(rows, rs, monitor)
      /\ writes' = writes \cup Launched(rows, rs)
      /\ UNCHANGED <<cancels, job, outcome, missed, live, open, retries, record, stop, fate, turn,
                     roots, work, last, reached, barred, passed, cut, left>>
  BY <1>3 DEF Fire, engine, thread
<1>5. becomes \in {"skipped", "queued", "running"} /\ (becomes = "running" => Having(rows, a, "running") = {})
  BY AdmissionFacts
<1> HIDE DEF becomes
<1>6. rs \in [Runs -> Rows] BY <1>2, <1>5 DEF Rows, Statuses
<1>7. rs[r].of = a /\ rs[r].status = becomes /\ \A q \in Runs \ {r} : rs[q] = rows[q]
  BY <1>2
<1> HIDE DEF rs
<1>8. Types'
  <2>1. monitor' \in [Runs -> Monitors] BY <1>2, <1>4, MonitorFacts DEF Launch
  <2>2. Launched(rows, rs) \subseteq {"admit", "cancel"} \X Runs BY DEF Launched
  <2>3. writes' \subseteq {"admit", "cancel"} \X Runs BY <1>2, <1>4, <2>2
  <2>4. rows' \in [Runs -> Rows] BY <1>4, <1>6
  <2> QED BY <1>1, <1>4, <2>1, <2>3, <2>4 DEF Types, Rows
<1>9. RunInv(r) BY DEF AutomationsInv
<1>10. left' <= left BY <1>2, <1>4
<1>11. \A q \in Runs : <<"admit", q>> \in Launched(rows, rs) =>
         rows[q].status # "running" /\ rs[q].status = "running"
  BY DEF Launched
<1>12. ASSUME NEW q \in Runs \ {r} PROVE RunInv(q)'
  <2>1. rows'[q] = rows[q] /\ monitor'[q] = monitor[q] BY <1>4, <1>7 DEF Launch
  <2>2. Ours(q)' = Ours(q) BY <1>4, <2>1 DEF Ours, Thread
  <2>3. <<"admit", q>> \in writes' => <<"admit", q>> \in writes BY <1>4, <1>7, <1>11
  <2>4. Untold(q) BY <1>4, <2>1, <2>2, <2>3 DEF Untold
  <2> QED BY <1>1, <1>4, <1>8, <1>10, <2>4, RunSame DEF AutomationsInv
<1>13. RunInv(r)'
  <2>1. rows'[r].status = becomes /\ rows'[r].of = a BY <1>4, <1>7
  <2>2. becomes = "running" => monitor'[r] = At("executing")
    BY <1>3, <1>4, <1>7 DEF Launch
  <2>3. becomes # "running" =>
          monitor'[r] = monitor[r] /\ (<<"admit", r>> \in writes' => <<"admit", r>> \in writes)
    BY <1>4, <1>7, <1>11 DEF Launch
  <2>4. ~Ours(r)' BY <1>3, <1>4, <2>1 DEF Ours, Thread
  <2> QED BY <1>1, <1>3, <1>4, <1>5, <1>8, <1>9, <1>10, <2>1, <2>2, <2>3, <2>4, FreshRun
<1>14. RowsInv'
  <2>1. /\ rows'[r].of = a /\ rows'[r].status # "none"
        /\ rows'[r].status = "running" => Having(rows, a, "running") = {}
        /\ \A q \in Runs \ {r} : rows'[q] = rows[q]
    BY <1>4, <1>5, <1>7
  <2> QED BY <1>1, <1>3, <1>4, <2>1, ClaimRows
<1> QED BY <1>8, <1>12, <1>13, <1>14 DEF AutomationsInv

\* An event is claimed whose prompt cannot be rendered: its run is over at once.
LEMMA FireFailsStep ==
  ASSUME AutomationsInv, NEW a \in Automations, FireFails(a)
  PROVE  AutomationsInv'
<1>1. Types /\ RowsInv BY DEF AutomationsInv
<1>2. rows \in [Runs -> Rows] /\ outcome \in [Runs -> Outcomes] /\ left \in 0..MaxEvents
  BY <1>1 DEF Types, Rows
<1>3. PICK r \in Runs : /\ r = Cardinality(Created) + 1 /\ rows[r].status = "none"
                        /\ ~Ours(r) /\ \A x \in Automations : turn[x] # r
                        /\ \E n \in 0..MaxRuns : r = n + 1 /\ ClaimedTo(rows, n)
  BY NextRow DEF FireFails
<1>4. /\ rows' = [rows EXCEPT ![r] = [of |-> a, status |-> "done"]]
      /\ outcome' = [outcome EXCEPT ![r] = "failed"]
      /\ UNCHANGED <<cancels, job, missed, live, open, monitor, writes, retries, record, stop, fate,
                     turn, roots, work, last, reached, barred, passed, cut>>
  BY <1>3 DEF FireFails, service, engine, thread
<1>5. left' \in 0..MaxEvents /\ left' <= left BY <1>2, SpendFacts DEF FireFails
<1>6. /\ rows'[r].of = a /\ rows'[r].status = "done" /\ outcome'[r] = "failed"
      /\ \A q \in Runs \ {r} : rows'[q] = rows[q] /\ outcome'[q] = outcome[q]
  BY <1>2, <1>4
<1>7. Types'
  <2>1. rows' \in [Runs -> Rows] BY <1>2, <1>4 DEF Rows, Statuses
  <2>2. outcome' \in [Runs -> Outcomes] BY <1>2, <1>4 DEF Outcomes
  <2> QED BY <1>1, <1>4, <1>5, <2>1, <2>2 DEF Types, Rows
<1>8. ASSUME NEW q \in Runs \ {r} PROVE RunInv(q)'
  <2>1. Ours(q)' = Ours(q) BY <1>4, <1>6 DEF Ours, Thread
  <2>2. Untold(q) BY <1>4, <1>6, <2>1 DEF Untold
  <2> QED BY <1>1, <1>4, <1>5, <1>7, <2>2, RunSame DEF AutomationsInv
<1>9. RunInv(r)'
  <2>1. RunInv(r) BY DEF AutomationsInv
  <2>2. ~record[r].thread /\ monitor[r].at = "none" /\ fate[r] = "none" /\ work[r] = "none"
    BY <1>3, <2>1 DEF RunInv, LifeInv
  <2>3. ~Ours(r)' BY <1>3, <1>4, <1>6 DEF Ours, Thread
  <2>4. LifeInv(r)' BY <1>4, <1>6, <2>1, <2>2, <2>3 DEF RunInv, LifeInv
  <2>5. ~Works(r)' BY <1>4, <2>2, <2>3 DEF Works, Tasks
  <2>6. SeenInv(r)' BY <1>4, <1>6, <2>2, <2>5 DEF SeenInv, Told
  <2>7. StopInv(r)' BY <1>4, <2>1 DEF RunInv, StopInv, Untouched
  <2>8. Due(r)' = Due(r) /\ Due(r) \in Nat BY <1>4 DEF Due
  <2>9. RootsInv(r)' BY <1>1, <1>4, <1>5, <1>7, <2>1, <2>8, RootsKept DEF RunInv
  <2> QED BY <2>4, <2>6, <2>7, <2>9 DEF RunInv
<1>10. RowsInv'
  <2>1. rows'[r].status # "none" /\ rows'[r].status # "running" BY <1>6
  <2> QED BY <1>1, <1>3, <1>4, <1>6, <2>1, ClaimRows
<1> QED BY <1>7, <1>8, <1>9, <1>10 DEF AutomationsInv

\* Pause or delete: what runs is cancelled, what waits is skipped.
LEMMA HaltStep ==
  ASSUME AutomationsInv, NEW a \in Automations, NEW as \in {"off", "none"}, Halt(a, as)
  PROVE  AutomationsInv'
<1>1. Types /\ RowsInv BY DEF AutomationsInv
<1>2. /\ rows \in [Runs -> Rows] /\ cancels \subseteq Runs
      /\ writes \in SUBSET ({"admit", "cancel"} \X Runs) /\ left \in 0..MaxEvents
      /\ job \in [Automations -> {"none", "on", "off"}]
  BY <1>1 DEF Types, Rows
<1> DEFINE halts == job[a] = "on" \/ as = "none"
           hit == IF halts THEN Having(rows, a, "running") ELSE {}
           handed == IF live THEN {<<"cancel", q>> : q \in hit} ELSE {}
<1>3. /\ job' = [job EXCEPT ![a] = as] /\ cancels' = cancels \cup hit
      /\ rows' = [q \in Runs |-> IF halts /\ q \in Having(rows, a, "queued")
                                 THEN [rows[q] EXCEPT !.status = "skipped"] ELSE rows[q]]
      /\ writes' = writes \cup handed
      /\ UNCHANGED <<outcome, missed, live, open, monitor, retries, record, stop, fate, turn, roots,
                     work, last, reached, barred, passed, cut>>
  BY DEF Halt, engine, thread
<1>4. left' \in 0..MaxEvents /\ left' <= left BY <1>2, SpendFacts DEF Halt
<1>5. hit \subseteq Running(rows) /\ hit \subseteq Runs BY DEF Having, Running
<1> HIDE DEF hit
<1>6. handed \subseteq {"admit", "cancel"} \X Runs BY <1>5, WriteFacts
<1>7. ASSUME NEW q \in Runs, <<"admit", q>> \in handed PROVE FALSE
  <2>1. PICK p \in hit : <<"admit", q>> = <<"cancel", p>> BY <1>7
  <2> QED BY <2>1
<1> HIDE DEF handed
<1>8. \A q \in Runs : [rows[q] EXCEPT !.status = "skipped"] \in Rows
  BY <1>2 DEF Rows, Statuses
<1>9. \A q \in Runs :
        \/ rows'[q] = rows[q]
        \/ /\ rows[q].status = "queued" /\ rows'[q].status = "skipped" /\ rows'[q].of = rows[q].of
  BY <1>2, <1>3 DEF Having, Rows
<1>10. Types'
  <2>1. rows' \in [Runs -> Rows] BY <1>2, <1>3, <1>8
  <2>2. writes' \subseteq {"admit", "cancel"} \X Runs BY <1>2, <1>3, <1>6
  <2>3. job' \in [Automations -> {"none", "on", "off"}] BY <1>2, <1>3
  <2>4. cancels' \subseteq Runs BY <1>2, <1>3, <1>5
  <2> QED BY <1>1, <1>3, <1>4, <2>1, <2>2, <2>3, <2>4 DEF Types, Rows
<1>11. \A q \in Runs : Ours(q)' = Ours(q) BY <1>3, <1>9 DEF Ours, Thread
<1>12. \A q \in Runs : <<"admit", q>> \in writes' => <<"admit", q>> \in writes BY <1>3, <1>7
<1>13. ASSUME NEW q \in Runs PROVE RunInv(q)'
  <2>0. RunInv(q) BY DEF AutomationsInv
  <2>1. CASE rows'[q] = rows[q]
    <3>1. Untold(q) BY <1>3, <1>11, <1>12, <2>1 DEF Untold
    <3> QED BY <1>1, <1>3, <1>4, <1>10, <2>0, <3>1, RunSame
  <2>2. CASE rows[q].status = "queued" /\ rows'[q].status = "skipped"
    <3>1. ~Ours(q)' BY <1>11, <2>0, <2>2 DEF RunInv, LifeInv
    <3> QED BY <1>1, <1>3, <1>4, <1>10, <1>12, <2>0, <2>2, <3>1, FreshRun
  <2> QED BY <1>9, <2>1, <2>2
<1>14. RowsInv'
  <2>1. \A q \in Runs : rows'[q].of = rows[q].of /\ (rows'[q].status = "none" <=> rows[q].status = "none")
                        /\ (rows'[q].status = "running" <=> rows[q].status = "running")
    BY <1>9
  <2>2. PICK n \in 0..MaxRuns : ClaimedTo(rows, n) BY <1>1 DEF RowsInv, ClaimedTo
  <2>3. ClaimedTo(rows', n) BY <2>1, <2>2 DEF ClaimedTo
  <2>4. cancels' \subseteq Running(rows') BY <1>1, <1>3, <1>5, <2>1 DEF RowsInv, Running
  <2>5. OneRuns(rows') BY <1>1, <2>1 DEF RowsInv, OneRuns
  <2>6. \A x \in Automations : turn'[x] \in Runs => rows'[turn'[x]].of = x
    BY <1>1, <1>3, <2>1 DEF RowsInv
  <2> QED BY <2>3, <2>4, <2>5, <2>6 DEF RowsInv, ClaimedTo, OneRuns
<1> QED BY <1>10, <1>13, <1>14 DEF AutomationsInv

\* drainWaiting keeps what the rows promise, once the rows are rs.
LEMMA DrainRows ==
  ASSUME Types, RowsInv, NEW rs \in [Runs -> Rows], NEW ms \in [Runs -> Monitors],
         NEW ws \in SUBSET ({"admit", "cancel"} \X Runs), DrainWaiting(rs, ms, ws),
         \A q \in Runs : rs[q].of = rows[q].of /\ (rs[q].status = "none" <=> rows[q].status = "none"),
         OneRuns(rs), cancels' \subseteq Running(rs), turn' = turn
  PROVE  RowsInv'
<1>1. \A q \in Runs : \/ rows'[q] = rs[q]
                      \/ /\ rs[q].status = "queued" /\ rows'[q].of = rs[q].of
                         /\ rows'[q].status = "running"
  <2>1. \A q \in Runs : LeftOrStarted(rs, ms, ws, q) BY DrainWaitingFacts
  <2> QED BY <2>1 DEF LeftOrStarted
<1>2. PICK n \in 0..MaxRuns : ClaimedTo(rows, n) BY DEF RowsInv, ClaimedTo
<1>3. ClaimedTo(rows', n) BY <1>1, <1>2 DEF ClaimedTo
<1>4. OneRuns(rows') BY DrainWaitingFacts
<1>5. cancels' \subseteq Running(rows') BY <1>1 DEF Running
<1>6. \A x \in Automations : turn'[x] \in Runs => rows'[turn'[x]].of = x BY <1>1 DEF RowsInv
<1> QED BY <1>3, <1>4, <1>5, <1>6 DEF RowsInv, ClaimedTo, OneRuns

\* The gate reopens: what waited may start.
LEMMA OpenGateStep ==
  ASSUME AutomationsInv, OpenGate
  PROVE  AutomationsInv'
<1>1. Types /\ RowsInv BY DEF AutomationsInv
<1>2. /\ rows \in [Runs -> Rows] /\ monitor \in [Runs -> Monitors]
      /\ writes \in SUBSET ({"admit", "cancel"} \X Runs) /\ left \in 0..MaxEvents
      /\ missed \in SUBSET Runs
  BY <1>1 DEF Types, Rows
<1>3. /\ open' = TRUE /\ DrainWaiting(rows, monitor, writes)
      /\ UNCHANGED <<cancels, job, outcome, live, retries, record, stop, fate, turn, roots,
                     work, last, reached, barred, passed, cut>>
  BY DEF OpenGate, engine, thread
<1>4. /\ rows' \in [Runs -> Rows] /\ monitor' \in [Runs -> Monitors]
      /\ writes' \in SUBSET ({"admit", "cancel"} \X Runs)
      /\ left' \in 0..MaxEvents /\ left' <= left /\ missed' \in SUBSET Runs
  BY <1>2, <1>3, DrainWaitingFacts
<1>5. \A q \in Runs :
        \/ /\ rows'[q] = rows[q] /\ monitor'[q] = monitor[q]
           /\ <<"admit", q>> \in writes' => <<"admit", q>> \in writes
        \/ /\ live' /\ rows[q].status = "queued"
           /\ rows'[q].of = rows[q].of /\ rows'[q].status = "running"
           /\ monitor'[q] = At("executing")
  <2>1. \A q \in Runs : LeftOrStarted(rows, monitor, writes, q) BY <1>2, <1>3, DrainWaitingFacts
  <2> QED BY <2>1, Zenon DEF LeftOrStarted
<1>6. Types' BY <1>1, <1>3, <1>4 DEF Types, Rows
<1>7. \A q \in Runs : Ours(q)' = Ours(q) BY <1>3, <1>5 DEF Ours, Thread
<1>8. left' <= left BY <1>4
<1>9. ASSUME NEW q \in Runs PROVE RunInv(q)'
  <2>0. RunInv(q) BY DEF AutomationsInv
  <2>1. CASE /\ rows'[q] = rows[q] /\ monitor'[q] = monitor[q]
             /\ <<"admit", q>> \in writes' => <<"admit", q>> \in writes
    <3>1. Untold(q) BY <1>3, <1>7, <2>1 DEF Untold
    <3> QED BY <1>1, <1>3, <1>6, <1>8, <2>0, <3>1, RunSame
  <2>2. CASE /\ live' /\ rows[q].status = "queued" /\ rows'[q].status = "running"
             /\ monitor'[q] = At("executing")
    <3>1. ~Ours(q)' BY <1>7, <2>0, <2>2 DEF RunInv, LifeInv
    <3> QED BY <1>1, <1>3, <1>6, <1>8, <2>0, <2>2, <3>1, FreshRun
  <2> QED BY <1>5, <2>1, <2>2
<1>10. OneRuns(rows) /\ cancels' \subseteq Running(rows) BY <1>1, <1>3 DEF RowsInv, OneRuns
<1>11. RowsInv' BY <1>1, <1>2, <1>3, <1>10, DrainRows
<1> QED BY <1>6, <1>9, <1>11 DEF AutomationsInv

\* The service starts: a monitor for each run that runs, and what waited may start.
LEMMA StartStep ==
  ASSUME AutomationsInv, Start
  PROVE  AutomationsInv'
<1>1. Types /\ RowsInv BY DEF AutomationsInv
<1>2. /\ rows \in [Runs -> Rows] /\ left \in 0..MaxEvents /\ missed \in SUBSET Runs
      /\ cancels \subseteq Runs
      /\ writes \in SUBSET ({"admit", "cancel"} \X Runs)
  BY <1>1 DEF Types, Rows
<1> DEFINE ms == [r \in Runs |-> IF r \in Running(rows) THEN At("recovering") ELSE NoMonitor]
           handed == {<<"cancel", r>> : r \in cancels}
           ws == writes \cup handed
<1>3. /\ ~live /\ live' = TRUE /\ DrainWaiting(rows, ms, ws)
      /\ UNCHANGED <<cancels, job, open, outcome, retries, record, stop, fate, turn, roots,
                     work, last, reached, barred, passed, cut>>
  BY DEF Start, engine, thread
<1>4. ms \in [Runs -> Monitors] BY MonitorFacts
<1>5. \A q \in Runs : ms[q].at = IF rows[q].status = "running" THEN "recovering" ELSE "none"
  BY MonitorFacts DEF Running
<1>6. ws \in SUBSET ({"admit", "cancel"} \X Runs) BY <1>2, WriteFacts
<1>7. ASSUME NEW q \in Runs PROVE <<"admit", q>> \notin ws
  <2>1. RunInv(q) BY DEF AutomationsInv
  <2>2. <<"admit", q>> \notin writes BY <1>3, <2>1 DEF RunInv, LifeInv
  <2>3. ASSUME <<"admit", q>> \in handed PROVE FALSE
    <3>1. PICK p \in cancels : <<"admit", q>> = <<"cancel", p>> BY <2>3
    <3> QED BY <3>1
  <2> HIDE DEF handed
  <2> QED BY <2>2, <2>3
<1> HIDE DEF ms, ws, handed
<1>8. /\ rows' \in [Runs -> Rows] /\ monitor' \in [Runs -> Monitors]
      /\ writes' \in SUBSET ({"admit", "cancel"} \X Runs)
      /\ left' \in 0..MaxEvents /\ left' <= left /\ missed' \in SUBSET Runs
  BY <1>2, <1>3, <1>4, <1>6, DrainWaitingFacts
<1>9. \A q \in Runs :
        \/ /\ rows'[q] = rows[q] /\ monitor'[q] = ms[q]
           /\ <<"admit", q>> \in writes' => <<"admit", q>> \in ws
        \/ /\ live' /\ rows[q].status = "queued"
           /\ rows'[q].of = rows[q].of /\ rows'[q].status = "running"
           /\ monitor'[q] = At("executing")
  <2>1. \A q \in Runs : LeftOrStarted(rows, ms, ws, q)
    BY <1>2, <1>3, <1>4, <1>6, DrainWaitingFacts
  <2> QED BY <2>1, Zenon DEF LeftOrStarted
<1>10. Types' BY <1>1, <1>3, <1>8 DEF Types, Rows
<1>11. \A q \in Runs : Ours(q)' = Ours(q) BY <1>3, <1>9 DEF Ours, Thread
<1>12. left' <= left BY <1>8
<1>13. ASSUME NEW q \in Runs PROVE RunInv(q)'
  <2>0. RunInv(q) BY DEF AutomationsInv
  <2>1. CASE /\ rows'[q] = rows[q] /\ monitor'[q] = ms[q]
             /\ <<"admit", q>> \in writes' => <<"admit", q>> \in ws
    <3>1. /\ monitor'[q].at = (IF rows[q].status = "running" THEN "recovering" ELSE "none")
          /\ <<"admit", q>> \notin writes'
      BY <1>5, <1>7, <2>1
    <3>2. Works(q)' <=> Works(q) BY <1>3, <1>11 DEF Works
    <3>3. Untouched(q)' <=> Untouched(q) BY <1>3 DEF Untouched
    <3>4. LifeInv(q)' BY <1>3, <1>11, <2>0, <2>1, <3>1 DEF RunInv, LifeInv
    <3>5. SeenInv(q)' BY <1>3, <2>0, <2>1, <3>1, <3>2, <3>3 DEF RunInv, SeenInv, Told
    <3>6. StopInv(q)' BY <1>3, <2>0, <3>3 DEF RunInv, StopInv
    <3>7. Due(q)' = Due(q) /\ Due(q) \in Nat BY <1>3 DEF Due
    <3>8. RootsInv(q)' BY <1>1, <1>3, <1>10, <1>12, <2>0, <3>7, RootsKept DEF RunInv
    <3> QED BY <3>4, <3>5, <3>6, <3>8 DEF RunInv
  <2>2. CASE /\ live' /\ rows[q].status = "queued" /\ rows'[q].status = "running"
             /\ monitor'[q] = At("executing")
    <3>1. ~Ours(q)' BY <1>11, <2>0, <2>2 DEF RunInv, LifeInv
    <3> QED BY <1>1, <1>3, <1>10, <1>12, <2>0, <2>2, <3>1, FreshRun
  <2> QED BY <1>9, <2>1, <2>2
<1>14. OneRuns(rows) /\ cancels' \subseteq Running(rows) BY <1>1, <1>3 DEF RowsInv, OneRuns
<1>15. RowsInv' BY <1>1, <1>2, <1>3, <1>4, <1>6, <1>14, DrainRows
<1> QED BY <1>10, <1>13, <1>15 DEF AutomationsInv

\* A run is finished: the inbox says what the monitor said, and what waited may start.
LEMMA CompleteStep ==
  ASSUME AutomationsInv, NEW r \in Runs, Complete(r)
  PROVE  AutomationsInv'
<1>1. Types /\ RowsInv /\ RunInv(r) BY DEF AutomationsInv
<1>2. /\ rows \in [Runs -> Rows] /\ monitor \in [Runs -> Monitors] /\ left \in 0..MaxEvents
      /\ missed \in SUBSET Runs /\ writes \in SUBSET ({"admit", "cancel"} \X Runs) /\ cancels \subseteq Runs
      /\ outcome \in [Runs -> Outcomes]
  BY <1>1 DEF Types, Rows
<1> DEFINE rs == [rows EXCEPT ![r].status = "done"]
           ms == [monitor EXCEPT ![r] = NoMonitor]
<1>3. /\ monitor[r].at = "settled" /\ DrainWaiting(rs, ms, writes) /\ cancels' = cancels \ {r}
      /\ outcome' = [outcome EXCEPT ![r] = monitor[r].says]
      /\ UNCHANGED <<live, open, job, retries, record, stop, fate, turn, roots, work, last,
                     reached, barred, passed, cut>>
  BY DEF Complete, engine, thread
<1>4. rs \in [Runs -> Rows] /\ ms \in [Runs -> Monitors]
  <2>1. [rows[r] EXCEPT !.status = "done"] \in Rows BY <1>2 DEF Rows, Statuses
  <2> QED BY <1>2, <2>1, MonitorFacts
<1>5. /\ rs[r].status = "done" /\ rs[r].of = rows[r].of /\ ms[r].at = "none"
      /\ \A q \in Runs \ {r} : rs[q] = rows[q] /\ ms[q] = monitor[q]
  BY <1>2, MonitorFacts DEF Rows
<1> HIDE DEF rs, ms
<1>6. /\ rows' \in [Runs -> Rows] /\ monitor' \in [Runs -> Monitors]
      /\ writes' \in SUBSET ({"admit", "cancel"} \X Runs)
      /\ left' \in 0..MaxEvents /\ left' <= left /\ missed' \in SUBSET Runs
  BY <1>2, <1>3, <1>4, DrainWaitingFacts
<1>7. \A q \in Runs :
        \/ /\ rows'[q] = rs[q] /\ monitor'[q] = ms[q]
           /\ <<"admit", q>> \in writes' => <<"admit", q>> \in writes
        \/ /\ live' /\ rs[q].status = "queued"
           /\ rows'[q].of = rs[q].of /\ rows'[q].status = "running"
           /\ monitor'[q] = At("executing")
  <2>1. \A q \in Runs : LeftOrStarted(rs, ms, writes, q) BY <1>2, <1>3, <1>4, DrainWaitingFacts
  <2> QED BY <2>1, Zenon DEF LeftOrStarted
<1>8. monitor[r].says \in Outcomes BY <1>2 DEF Monitors
<1>9. outcome' \in [Runs -> Outcomes] BY <1>2, <1>3, <1>8
<1>10. Types' BY <1>1, <1>3, <1>6, <1>9 DEF Types, Rows
<1>11. \A q \in Runs : Ours(q)' = Ours(q)
  <2>1. \A q \in Runs : rows'[q].of = rows[q].of BY <1>5, <1>7
  <2> QED BY <1>3, <2>1 DEF Ours, Thread
<1>12. left' <= left BY <1>6
<1>13. ASSUME NEW q \in Runs \ {r} PROVE RunInv(q)'
  <2>0. RunInv(q) BY DEF AutomationsInv
  <2>1. outcome'[q] = outcome[q] BY <1>2, <1>3
  <2>2. CASE /\ rows'[q] = rs[q] /\ monitor'[q] = ms[q]
             /\ <<"admit", q>> \in writes' => <<"admit", q>> \in writes
    <3>1. Untold(q) BY <1>3, <1>5, <1>11, <2>1, <2>2 DEF Untold
    <3> QED BY <1>1, <1>3, <1>10, <1>12, <2>0, <3>1, RunSame
  <2>3. CASE /\ live' /\ rs[q].status = "queued" /\ rows'[q].status = "running"
             /\ monitor'[q] = At("executing")
    <3>1. rows[q].status = "queued" BY <1>5, <2>3
    <3>2. ~Ours(q)' BY <1>11, <2>0, <3>1 DEF RunInv, LifeInv
    <3> QED BY <1>1, <1>3, <1>10, <1>12, <2>0, <2>1, <2>3, <3>1, <3>2, FreshRun
  <2> QED BY <1>7, <2>2, <2>3
<1>14. RunInv(r)'
  <2>1. /\ rows'[r].status = "done" /\ monitor'[r].at = "none" /\ outcome'[r] = monitor[r].says
        /\ <<"admit", r>> \in writes' => <<"admit", r>> \in writes
    BY <1>2, <1>3, <1>5, <1>7
  <2>2. <<"admit", r>> \notin writes' BY <1>1, <1>3, <2>1 DEF RunInv, LifeInv
  <2>3. Works(r)' <=> Works(r) BY <1>3, <1>11 DEF Works
  <2>4. Untouched(r)' <=> Untouched(r) BY <1>3 DEF Untouched
  <2>5. Told(r, monitor[r].says) BY <1>1, <1>3 DEF RunInv, SeenInv
  <2>6. LifeInv(r)' BY <1>1, <1>3, <1>11, <2>1, <2>2 DEF RunInv, LifeInv
  <2>7. SeenInv(r)' BY <1>3, <2>1, <2>3, <2>4, <2>5 DEF SeenInv, Told
  <2>8. StopInv(r)' BY <1>1, <1>3, <2>4 DEF RunInv, StopInv
  <2>9. Due(r)' = Due(r) /\ Due(r) \in Nat BY <1>3 DEF Due
  <2>10. RootsInv(r)' BY <1>1, <1>3, <1>10, <1>12, <2>9, RootsKept DEF RunInv
  <2> QED BY <2>6, <2>7, <2>8, <2>10 DEF RunInv
<1>15. RowsInv'
  <2>1. rows[r].status = "running" BY <1>1, <1>3 DEF RunInv, LifeInv
  <2>2. \A q \in Runs : rs[q].of = rows[q].of /\ (rs[q].status = "none" <=> rows[q].status = "none")
    BY <1>5, <2>1
  <2>3. OneRuns(rs) BY <1>1, <1>5 DEF RowsInv, OneRuns
  <2>4. cancels' \subseteq Running(rs) BY <1>1, <1>3, <1>5 DEF RowsInv, Running
  <2> QED BY <1>1, <1>2, <1>3, <1>4, <2>2, <2>3, <2>4, DrainRows
<1> QED BY <1>10, <1>13, <1>14, <1>15 DEF AutomationsInv

-----------------------------------------------------------------------------
(* The theorems. *)

\* Nothing has fired.
LEMMA AutomationsInit == Init => AutomationsInv
<1> SUFFICES ASSUME Init PROVE AutomationsInv OBVIOUS
<1>1. Types
  <2>1. (CHOOSE a \in Automations : TRUE) \in Automations BY BoundsAssumption
  <2>2. rows \in [Runs -> Rows] BY <2>1 DEF Init, Rows, Statuses
  <2>3. monitor \in [Runs -> Monitors] BY MonitorFacts DEF Init
  <2>4. NoRecord \in Records BY DEF NoRecord, Records
  <2>5. record \in [Runs -> Records] BY <2>4 DEF Init
  <2>6. turn \in [Automations -> 0..(MaxRuns + 1)] BY RunFacts DEF Init
  <2>7. /\ work \in [Runs -> Tasks \cup {"none", "waking", "held", "asked", "stopped"}]
        /\ fate \in [Runs -> Fates] /\ outcome \in [Runs -> Outcomes] /\ left \in 0..MaxEvents
        /\ reached \in [Runs -> {"no", "maybe", "begun"}]
    BY BoundsAssumption DEF Init, Fates, Outcomes
  <2> QED BY <2>2, <2>3, <2>5, <2>6, <2>7 DEF Init, Types, Rows
<1>2. \A r \in Runs : rows[r].status = "none" BY DEF Init
<1>3. RowsInv
  <2>1. 0 \in 0..MaxRuns /\ \A r \in Runs : ~(r <= 0) BY RunFacts DEF Runs
  <2>2. \A a \in Automations : turn[a] \notin Runs BY RunFacts DEF Init
  <2>3. cancels = {} BY DEF Init
  <2> QED BY <1>2, <2>1, <2>2, <2>3 DEF RowsInv
<1>4. ASSUME NEW r \in Runs PROVE RunInv(r)
  <2>1. /\ monitor[r].at = "none" /\ writes = {} /\ fate[r] = "none" /\ roots[r] = 0
        /\ work[r] = "none" /\ stop[r] = "none" /\ outcome[r] = "none" /\ cut = {}
        /\ passed = {} /\ left = MaxEvents
    BY MonitorFacts DEF Init
  <2>2. /\ ~record[r].thread /\ record[r].target = "none" /\ record[r].tries = 0
        /\ ~record[r].error /\ record[r].cancel = "none"
    BY DEF Init, NoRecord
  <2>3. ~Ours(r)
    <3>1. turn[Thread(r)] = Nobody BY <1>1 DEF Init, Thread, Types
    <3> QED BY <3>1, RunFacts DEF Ours
  <2>4. LifeInv(r) BY <1>2, <2>1, <2>2, <2>3 DEF LifeInv
  <2>5. SeenInv(r) BY <1>2, <2>1 DEF SeenInv
  <2>6. StopInv(r) BY <2>1, <2>2, BoundsAssumption DEF StopInv, Untouched
  <2>7. RootsInv(r) BY <2>1, BoundsAssumption DEF RootsInv, Due
  <2> QED BY <2>4, <2>5, <2>6, <2>7 DEF RunInv
<1> QED BY <1>1, <1>3, <1>4 DEF AutomationsInv

\* Every step of the system keeps the invariant.
LEMMA AutomationsStep ==
  AutomationsInv /\ [Next]_vars => AutomationsInv'
<1> SUFFICES ASSUME AutomationsInv, [Next]_vars PROVE AutomationsInv' OBVIOUS
<1>1. ASSUME NEW a \in Automations,
             \/ \E file \in BOOLEAN : Fire(a, file)
             \/ FireFails(a) \/ Enable(a) \/ Halt(a, "off") \/ Halt(a, "none")
             \/ EndTurn(a) \/ PersonStarts(a) \/ PersonStops(a) \/ PersonResumes(a)
      PROVE  AutomationsInv'
  BY <1>1, FireStep, FireFailsStep, QuietStep, HaltStep, EndTurnStep, PersonStartsStep,
     PersonStopsStep, ResumeStep
<1>2. ASSUME CloseGate \/ OpenGate \/ Start \/ Crash PROVE AutomationsInv'
  BY <1>2, QuietStep, OpenGateStep, StartStep, CrashStep
<1>3. ASSUME NEW r \in Runs,
             \/ Admit(r) \/ RequestCancel(r) \/ RetryCancel(r) \/ WriteFails(r) \/ RetryStop(r)
             \/ DeliverFails(r) \/ Surfaces(r) \/ TaskEnds(r) \/ ResumeFails(r) \/ PersonRemoves(r)
             \/ DeliverStop(r) \/ InterruptRoot(r) \/ StopFails(r)
      PROVE  AutomationsInv'
  BY <1>3, AdmitStep, RequestCancelStep, QuietStep, WriteFailsStep, RetryStopStep, FateStep,
     SurfacesStep, TaskEndsStep, ResumeStep, DeliverStopStep, InterruptRootStep
<1>4. ASSUME NEW r \in Runs, Monitor(r) PROVE AutomationsInv'
  BY <1>4, RecoverStep, LookStep, ReconcileStep, SettleStep, CompleteStep DEF Monitor
<1>5. ASSUME NEW r \in Runs, Lane(r) PROVE AutomationsInv'
  BY <1>5, FateStep, DeliverStep, WakeStep DEF Lane
<1>6. ASSUME UNCHANGED vars PROVE AutomationsInv'
  <2>1. Types' BY <1>6 DEF AutomationsInv, Types, vars, schedule, service, engine, thread
  <2>2. \A q \in Runs : Untold(q)
    BY <1>6 DEF Untold, Ours, Thread, vars, schedule, service, engine, thread
  <2>3. left' <= left BY <1>6 DEF AutomationsInv, Types, vars
  <2> QED BY <1>6, <2>1, <2>2, <2>3, NoRun DEF vars, schedule, service, engine, thread
<1> QED BY <1>1, <1>2, <1>3, <1>4, <1>5, <1>6 DEF Next

\* The invariant gives the type invariant of the runs.
LEMMA InvTypeOK == AutomationsInv => TypeOK
<1> SUFFICES ASSUME AutomationsInv PROVE TypeOK OBVIOUS
<1>1. Types /\ RowsInv BY DEF AutomationsInv
<1>2. ASSUME NEW r \in Runs
      PROVE  /\ rows[r].of \in Automations
             /\ rows[r].status \in {"none", "queued", "running", "done", "skipped"}
             /\ monitor[r].at # "none" <=> live /\ rows[r].status = "running"
             /\ fate[r] = "none" <=> ~record[r].thread
             /\ roots[r] \in 0..(MaxRoots + MaxEvents) /\ record[r].tries \in 0..StopTries
  <2>1. RunInv(r) BY DEF AutomationsInv
  <2>2. rows[r].of \in Automations /\ rows[r].status \in Statuses BY <1>1 DEF Types
  <2>3. roots[r] \in 0..(MaxRoots + MaxEvents)
    <3>1. roots[r] \in Nat /\ left \in Nat BY <1>1, BoundsAssumption DEF Types
    <3>2. Due(r) \in Nat /\ MaxRoots + MaxEvents \in Nat BY BoundsAssumption DEF Due
    <3>3. roots[r] + Due(r) + left <= MaxRoots + MaxEvents BY <2>1 DEF RunInv, RootsInv
    <3> QED BY <3>1, <3>2, <3>3
  <2>4. record[r].tries \in Nat /\ record[r].tries <= StopTries
    BY <1>1, <2>1 DEF Types, Records, RunInv, StopInv
  <2> QED BY <2>1, <2>2, <2>3, <2>4, BoundsAssumption DEF RunInv, LifeInv, Statuses
<1>3. ASSUME NEW a \in Automations
      PROVE  turn[a] \in {Nobody, Person} \cup {r \in Runs : Thread(r) = a}
  <2>1. turn[a] \in 0..(MaxRuns + 1) BY <1>1 DEF Types
  <2>2. turn[a] \in Runs => Thread(turn[a]) = a BY <1>1 DEF RowsInv, Thread
  <2> QED BY <2>1, <2>2, RunFacts
<1> QED BY <1>1, <1>2, <1>3 DEF TypeOK, RowsInv

\* A run at work was admitted and runs, and of an automation's runs one does.
LEMMA InvOneAtATime == AutomationsInv => OneAtATime
<1> SUFFICES ASSUME AutomationsInv PROVE OneAtATime OBVIOUS
<1>1. ASSUME NEW r \in Runs, Works(r) PROVE rows[r].status = "running"
  <2>1. RunInv(r) BY DEF AutomationsInv
  <2>2. fate[r] # "none" BY <1>1, <2>1 DEF RunInv, LifeInv, Works, Tasks
  <2>3. rows[r].status \in {"running", "done"} BY <2>1, <2>2 DEF RunInv, LifeInv
  <2>4. rows[r].status # "done" BY <1>1, <2>1 DEF RunInv, SeenInv, Told
  <2> QED BY <2>3, <2>4
<1>2. RowsInv BY DEF AutomationsInv
<1> QED BY <1>1, <1>2 DEF OneAtATime, RowsInv, Thread

\* What was said of a run was true when it was said, and stays so.
LEMMA InvInboxTells == AutomationsInv => InboxTells
<1> SUFFICES ASSUME AutomationsInv, NEW r \in Runs
             PROVE  /\ outcome[r] = "unsent" =>
                         /\ roots[r] = 0 /\ fate[r] \notin {"waiting", "sending"}
                         /\ <<"admit", r>> \notin writes
                    /\ outcome[r] = "succeeded" => r \notin cut
  BY Zenon DEF InboxTells
<1>1. RunInv(r) BY DEF AutomationsInv
<1>2. outcome[r] # "none" => rows[r].status = "done" /\ Told(r, outcome[r])
  BY <1>1 DEF RunInv, SeenInv
<1>3. rows[r].status = "done" => <<"admit", r>> \notin writes BY <1>1 DEF RunInv, LifeInv
<1>4. fate[r] # "delivered" => roots[r] = 0 BY <1>1 DEF RunInv, LifeInv
<1>5. r \in cut => ~Untouched(r) BY <1>1 DEF RunInv, StopInv
<1> QED BY <1>2, <1>3, <1>4, <1>5 DEF Told, Works

\* The invariant holds of every behaviour.
LEMMA AutomationsAlways ==
  Spec => []AutomationsInv
<1>1. AutomationsInv /\ [Next]_vars => AutomationsInv' BY AutomationsStep
<1> QED BY AutomationsInit, <1>1, PTL DEF Spec

\* Whatever fires, crashes, fails or is stopped, each part holds what it should: a run has a
\* monitor exactly while it runs and the service does, and a message once it is admitted.
THEOREM AutomationsTypes ==
  Spec => []TypeOK
BY AutomationsAlways, InvTypeOK, PTL

\* Of the runs of one automation one is at work at a time, and none after the inbox says that
\* it is over, for every number of runs, limit and sequence of failures (decisions.ts:56-58).
THEOREM OneRunAtATime ==
  Spec => []OneAtATime
BY AutomationsAlways, InvOneAtATime, PTL

\* The inbox agrees with what ace did: of a run that it says was stopped before it started ace
\* neither saw a provider run nor has anything left to send (automation-run-executor.ts:40-41),
\* and one that its own stop cut short did not succeed (automation-run-rules.ts:156).  A
\* message whose delivery is uncertain may have begun at the provider unseen.
THEOREM InboxTellsTheTruth ==
  Spec => []InboxTells
BY AutomationsAlways, InvInboxTells, PTL
=============================================================================
