------------------------- MODULE DurableQueueProofs -------------------------
(***************************************************************************)
(* For every number of rows, budget of events and kind of provider: the    *)
(* rows, lanes and generations of a thread's queue keep their types, the   *)
(* mark of a limit keeps its hold, and an input of unknown fate never      *)
(* becomes runnable again.  Until the first Stop, no input reaches a       *)
(* provider twice, and none that was handed over waits again.              *)
(***************************************************************************)
EXTENDS DurableQueue, FiniteSetTheorems, WellFoundedInduction, TLAPS

-----------------------------------------------------------------------------
(* Least and greatest numbers. *)

\* A set of numbers has a least one.
LEMMA LeastNumber ==
  ASSUME NEW S, S \subseteq Nat, S # {}
  PROVE  \E n \in S : \A m \in S : n <= m
<1>1. PICK n \in S : \A m \in S : ~(<<m, n>> \in OpToRel(<, Nat))
  BY NatLessThanWellFounded, WFMin
<1>2. \A m \in S : ~(m < n) BY <1>1 DEF OpToRel
<1> QED BY <1>2

\* Min names it.
LEMMA MinIn ==
  ASSUME NEW S, S \subseteq Nat, S # {}
  PROVE  Min(S) \in S
<1>1. PICK n \in S : \A m \in S : n <= m BY LeastNumber
<1> QED BY <1>1 DEF Min

\* A finite set of numbers has a greatest one, which Max names.
LEMMA MaxIn ==
  ASSUME NEW S, S \subseteq Nat, S # {}, IsFiniteSet(S)
  PROVE  Max(S) \in S /\ \A m \in S : m <= Max(S)
<1> DEFINE above(n) == {m \in S : n < m}
           sizes == {Cardinality(above(n)) : n \in S}
<1>1. ASSUME NEW n \in S PROVE IsFiniteSet(above(n)) /\ Cardinality(above(n)) \in Nat
  <2>1. above(n) \in SUBSET S OBVIOUS
  <2>2. IsFiniteSet(above(n)) BY <2>1, FS_Subset
  <2> HIDE DEF above
  <2> QED BY <2>2, FS_CardinalityType
<1>2. sizes \subseteq Nat /\ sizes # {} BY <1>1
<1>3. PICK k \in sizes : \A m \in sizes : k <= m
  <2> HIDE DEF sizes
  <2> QED BY <1>2, LeastNumber
<1>4. PICK n \in S : k = Cardinality(above(n)) OBVIOUS
<1>5. ASSUME NEW m \in S, n < m PROVE FALSE
  <2>1. m \in above(n) /\ m \notin above(m) BY <1>5
  <2>2. \A x \in S : m < x => n < x BY <1>5
  <2>3. above(m) \in SUBSET above(n) BY <2>2
  <2>4. above(m) # above(n) BY <2>1
  <2>5. Cardinality(above(m)) \in sizes OBVIOUS
  <2>6. IsFiniteSet(above(n)) /\ Cardinality(above(n)) \in Nat /\ Cardinality(above(m)) \in Nat
    BY <1>1
  <2>7. k <= Cardinality(above(m)) BY <1>3, <2>5
  <2> HIDE DEF above, sizes
  <2>8. Cardinality(above(m)) <= Cardinality(above(n)) /\ Cardinality(above(m)) # Cardinality(above(n))
    BY <2>3, <2>4, <2>6, FS_Subset
  <2> QED BY <1>4, <2>6, <2>7, <2>8
<1>6. \A m \in S : n >= m BY <1>5
<1>7. Max(S) \in S /\ \A m \in S : Max(S) >= m BY <1>6 DEF Max
<1> QED BY <1>7

-----------------------------------------------------------------------------
(* Rows. *)

\* The fields of a database.
LEMMA DatabaseFields ==
  ASSUME NEW d \in Database
  PROVE  /\ d.intent \in [Ids -> Intent] /\ d.q \in Queue /\ d.root \in 0..MaxIntents
         /\ d.run \in BOOLEAN /\ d.hasRun \in BOOLEAN /\ d.rootLimited \in BOOLEAN
         /\ d.admits \in BOOLEAN /\ d.streak \in Nat
BY DEF Database

\* The fields of a row.
LEMMA RowFields ==
  ASSUME NEW d \in Database, NEW i \in Ids
  PROVE  /\ d.intent[i] \in Intent
         /\ d.intent[i].kind \in {"none", "send", "resume"} /\ d.intent[i].steer \in BOOLEAN
         /\ d.intent[i].status \in {"none", "pending", "queued", "running", "done", "failed"}
         /\ d.intent[i].cancelled \in BOOLEAN /\ d.intent[i].awaiting \in BOOLEAN
         /\ d.intent[i].target \in 0..MaxIntents /\ d.intent[i].acked \in BOOLEAN
         /\ d.intent[i].uncertain \in BOOLEAN /\ d.intent[i].sub \in Nat
         /\ d.intent[i].pos \in Nat
BY DatabaseFields DEF Intent

\* The numbers of the rows.
LEMMA IdFacts == MaxIntents \in Nat /\ Ids \subseteq Nat /\ IsFiniteSet(Ids) /\ Ids # {} /\ 0 \notin Ids
  /\ Ids \subseteq 0..MaxIntents
<1>1. MaxIntents \in Nat /\ MaxIntents # 0 BY QueueAssumption
<1>2. IsFiniteSet(1..MaxIntents) BY <1>1, FS_Interval
<1> QED BY <1>1, <1>2 DEF Ids

\* The first of some rows is one of them.
LEMMA FirstIn ==
  ASSUME NEW d \in Database, NEW S, S \subseteq Ids, S # {}
  PROVE  First(d, S) \in S
<1> DEFINE places == {d.intent[i].pos : i \in S}
<1>1. \A i \in S : d.intent[i].pos \in Nat /\ i \in Nat BY RowFields, IdFacts
<1>2. PICK p \in places : \A m \in places : p <= m
  <2>1. places \subseteq Nat /\ places # {} BY <1>1
  <2> HIDE DEF places
  <2> QED BY <2>1, LeastNumber
<1> DEFINE there == {i \in S : d.intent[i].pos = p}
<1>3. PICK i \in there : \A j \in there : i <= j
  <2>1. there \subseteq Nat /\ there # {} BY <1>1
  <2> HIDE DEF there
  <2> QED BY <2>1, LeastNumber
<1>4. ASSUME NEW j \in S \ {i} PROVE Before(d, i, j)
  <2>1. p <= d.intent[j].pos /\ p \in Nat BY <1>1, <1>2
  <2>2. CASE d.intent[j].pos = p BY <1>1, <1>3, <2>2 DEF Before
  <2>3. CASE d.intent[j].pos # p BY <1>1, <2>1, <2>3 DEF Before
  <2> QED BY <2>2, <2>3
<1>5. i \in S OBVIOUS
<1> HIDE DEF there, places
<1> QED BY <1>4, <1>5 DEF First

\* A new row goes behind the others.
LEMMA PositionType ==
  ASSUME NEW d \in Database
  PROVE  Position(d) \in Nat
<1> DEFINE live == {i \in Ids : \/ d.intent[i].status \in WaitingStates \cup {"running"}
                                \/ d.intent[i].uncertain}
           at(i) == d.intent[i].pos
           places == {at(i) : i \in live}
<1>1. live \in SUBSET Ids OBVIOUS
<1>2. IsFiniteSet(live) BY <1>1, IdFacts, FS_Subset
<1>3. IsFiniteSet(places)
  <2> DEFINE f == [i \in live |-> at(i)]
  <2>1. f \in Surjection(live, places) BY DEF Surjection
  <2> HIDE DEF live, places, f
  <2> QED BY <1>2, <2>1, FS_Surjection
<1>4. \A i \in live : at(i) \in Nat BY RowFields
<1>5. {0} \cup places \subseteq Nat /\ {0} \cup places # {} BY <1>4
<1>6. IsFiniteSet({0} \cup places)
  <2> HIDE DEF places
  <2> QED BY <1>3, FS_Singleton, FS_Union
<1>7. Max({0} \cup places) \in Nat
  <2> HIDE DEF places
  <2> QED BY <1>5, <1>6, MaxIn
<1> QED BY <1>7 DEF Position

\* After a crash, generations go on behind the ones that were stored.
LEMMA LatestType ==
  ASSUME NEW d \in Database
  PROVE  LatestGeneration(d) \in Nat
<1> DEFINE of(i) == d.intent[i].sub
           all == {of(i) : i \in Ids}
<1>1. IsFiniteSet(all)
  <2> DEFINE f == [i \in Ids |-> of(i)]
  <2>1. f \in Surjection(Ids, all) BY DEF Surjection
  <2> HIDE DEF all, f
  <2> QED BY IdFacts, <2>1, FS_Surjection
<1>2. \A i \in Ids : of(i) \in Nat BY RowFields
<1>3. all \subseteq Nat /\ all # {} BY <1>2, IdFacts
<1>4. Max(all) \in Nat
  <2> HIDE DEF all
  <2> QED BY <1>1, <1>3, MaxIn
<1> QED BY <1>4 DEF LatestGeneration

-----------------------------------------------------------------------------
(* Steps that make no row wait again. *)

\* A row keeps its kind and its invariant, does not begin to wait, and settles if it was.
RowLoose(r, r2) ==
  /\ r2.kind = r.kind
  /\ r2.status \in WaitingStates => r.status \in WaitingStates
  /\ RowInv(r) => RowInv(r2)
  /\ (r.uncertain => r.status = "failed") => (r2.uncertain => r2.status = "failed")

\* And what was spent, or runs in a lane's hands, stays so: as for every row but the one a lane
\* is at work on.
RowSteady(r, r2) ==
  /\ Spent(r) => Spent(r2)
  /\ r.status = "running" => r2.status = "running" \/ Spent(r2)
  /\ Quiet(r) => Quiet(r2)

RowTame(r, r2) == RowLoose(r, r2) /\ (RowInv(r) => RowSteady(r, r2))

Tame(d, d2) == d2 \in Database /\ \A i \in Ids : RowTame(d.intent[i], d2.intent[i])

\* And the mark of a limit keeps its hold.
Fine(d, d2) == Tame(d, d2) /\ (Marked(d) => Marked(d2))

\* A row that stays as it is.
LEMMA TameSame ==
  ASSUME NEW r
  PROVE  RowTame(r, r)
BY DEF RowTame, RowLoose, RowSteady

\* Fine steps compose.
LEMMA FineTransitive ==
  ASSUME NEW d, NEW d2, NEW d3, Fine(d, d2), Fine(d2, d3)
  PROVE  Fine(d, d3)
<1>1. ASSUME NEW i \in Ids PROVE RowTame(d.intent[i], d3.intent[i])
  <2>1. RowTame(d.intent[i], d2.intent[i]) /\ RowTame(d2.intent[i], d3.intent[i]) BY DEF Fine, Tame
  <2> QED BY <2>1 DEF RowTame, RowLoose, RowSteady
<1> QED BY <1>1 DEF Fine, Tame

\* A fine step starts from a sound database and leads to one.
LEMMA FineSound ==
  ASSUME NEW d, NEW d2, Sound(d), Fine(d, d2)
  PROVE  Sound(d2) /\ (Settled(d) => Settled(d2))
<1>1. ASSUME NEW i \in Ids PROVE RowInv(d2.intent[i]) BY DEF Fine, Tame, RowTame, RowLoose, Sound
<1>2. ASSUME Settled(d) PROVE Settled(d2) BY <1>2 DEF Settled, Fine, Tame, RowTame, RowLoose
<1> QED BY <1>1, <1>2 DEF Fine, Tame, Sound

\* A step that leaves the rows alone.
LEMMA FineRows ==
  ASSUME NEW d, NEW d2 \in Database, d2.intent = d.intent, Marked(d) => Marked(d2)
  PROVE  Fine(d, d2)
BY TameSame DEF Fine, Tame

\* As a fine step, but for the row i a lane is at work on.
Near(d, d2, i) ==
  /\ d2 \in Database /\ \A j \in Ids : RowLoose(d.intent[j], d2.intent[j])
  /\ \A j \in Ids \ {i} : RowTame(d.intent[j], d2.intent[j])
  /\ Marked(d) => Marked(d2)

\* A fine step is one.
LEMMA FineNear ==
  ASSUME NEW d, NEW d2, Fine(d, d2), NEW i
  PROVE  Near(d, d2, i)
BY DEF Fine, Tame, Near, RowTame

\* They compose.
LEMMA NearTransitive ==
  ASSUME NEW d, NEW d2, NEW d3, NEW i, Near(d, d2, i), Near(d2, d3, i)
  PROVE  Near(d, d3, i)
<1>1. ASSUME NEW j \in Ids PROVE RowLoose(d.intent[j], d3.intent[j])
  <2>1. RowLoose(d.intent[j], d2.intent[j]) /\ RowLoose(d2.intent[j], d3.intent[j]) BY DEF Near
  <2> QED BY <2>1 DEF RowLoose
<1>2. ASSUME NEW j \in Ids \ {i} PROVE RowTame(d.intent[j], d3.intent[j])
  <2>1. RowTame(d.intent[j], d2.intent[j]) /\ RowTame(d2.intent[j], d3.intent[j]) BY DEF Near
  <2> QED BY <2>1 DEF RowTame, RowLoose, RowSteady
<1> QED BY <1>1, <1>2 DEF Near

\* Nothing else of the database changes.
RowsOnly(d, d2) ==
  /\ d2.q = d.q /\ d2.root = d.root /\ d2.run = d.run /\ d2.hasRun = d.hasRun
  /\ d2.rootLimited = d.rootLimited /\ d2.admits = d.admits /\ d2.streak = d.streak

\* Rewritten rows.
LEMMA Rewritten ==
  ASSUME NEW d \in Database, NEW f \in [Ids -> Intent]
  PROVE  LET d2 == [d EXCEPT !.intent = f]
         IN  d2 \in Database /\ d2.intent = f /\ RowsOnly(d, d2)
BY DatabaseFields DEF Database, RowsOnly

\* What the statements on the intents table do to one row.
Statuses == {"queued", "running", "done", "failed"}
LEMMA RowUpdates ==
  ASSUME NEW r \in Intent
  PROVE  /\ \A status \in Statuses, w \in BOOLEAN :
              [r EXCEPT !.status = status, !.cancelled = FALSE, !.awaiting = w] \in Intent
         /\ [r EXCEPT !.status = "failed", !.cancelled = TRUE, !.awaiting = FALSE] \in Intent
         /\ [r EXCEPT !.status = "queued", !.awaiting = FALSE, !.target = 0, !.sub = 0,
                      !.uncertain = FALSE] \in Intent
         /\ [r EXCEPT !.status = "queued", !.steer = FALSE, !.awaiting = FALSE, !.target = 0,
                      !.sub = 0, !.uncertain = FALSE] \in Intent
         /\ [r EXCEPT !.status = "failed", !.uncertain = FALSE, !.awaiting = FALSE,
                      !.cancelled = FALSE] \in Intent
         /\ [r EXCEPT !.uncertain = TRUE] \in Intent /\ [r EXCEPT !.uncertain = FALSE] \in Intent
         /\ [r EXCEPT !.awaiting = FALSE, !.acked = TRUE] \in Intent
         /\ [r EXCEPT !.awaiting = FALSE, !.acked = TRUE, !.uncertain = FALSE,
                      !.status = IF r.uncertain THEN "done" ELSE @] \in Intent
         /\ \A n \in Nat : [r EXCEPT !.sub = n] \in Intent /\ [r EXCEPT !.pos = n] \in Intent
         /\ \A w \in BOOLEAN : [r EXCEPT !.steer = w] \in Intent
         /\ \A t \in 0..MaxIntents, w \in BOOLEAN :
              [r EXCEPT !.awaiting = w, !.target = t] \in Intent
<1>0. MaxIntents \in Nat BY IdFacts
<1>1. \A status \in Statuses, w \in BOOLEAN :
        [r EXCEPT !.status = status, !.cancelled = FALSE, !.awaiting = w] \in Intent
  BY DEF Intent, Statuses
<1>2. [r EXCEPT !.status = "failed", !.cancelled = TRUE, !.awaiting = FALSE] \in Intent
  BY DEF Intent
<1>3. /\ [r EXCEPT !.status = "queued", !.awaiting = FALSE, !.target = 0, !.sub = 0,
                   !.uncertain = FALSE] \in Intent
      /\ [r EXCEPT !.status = "queued", !.steer = FALSE, !.awaiting = FALSE, !.target = 0,
                   !.sub = 0, !.uncertain = FALSE] \in Intent
  <2>1. 0 \in 0..MaxIntents /\ 0 \in Nat BY <1>0
  <2> QED BY <2>1 DEF Intent
<1>4. [r EXCEPT !.status = "failed", !.uncertain = FALSE, !.awaiting = FALSE,
                !.cancelled = FALSE] \in Intent
  BY DEF Intent
<1>5. /\ [r EXCEPT !.uncertain = TRUE] \in Intent /\ [r EXCEPT !.uncertain = FALSE] \in Intent
      /\ [r EXCEPT !.awaiting = FALSE, !.acked = TRUE] \in Intent
  BY DEF Intent
<1>6. [r EXCEPT !.awaiting = FALSE, !.acked = TRUE, !.uncertain = FALSE,
                !.status = IF r.uncertain THEN "done" ELSE @] \in Intent
  <2>1. [r EXCEPT !.awaiting = FALSE, !.acked = TRUE, !.uncertain = FALSE, !.status = "done"]
          \in Intent
    BY DEF Intent
  <2>2. [r EXCEPT !.awaiting = FALSE, !.acked = TRUE, !.uncertain = FALSE, !.status = @] \in Intent
    BY DEF Intent
  <2>3. CASE r.uncertain BY <2>1, <2>3
  <2>4. CASE ~r.uncertain BY <2>2, <2>4
  <2> QED BY <2>3, <2>4
<1>7. \A n \in Nat : [r EXCEPT !.sub = n] \in Intent /\ [r EXCEPT !.pos = n] \in Intent
  BY DEF Intent
<1>8. \A w \in BOOLEAN : [r EXCEPT !.steer = w] \in Intent BY DEF Intent
<1>9. \A t \in 0..MaxIntents, w \in BOOLEAN : [r EXCEPT !.awaiting = w, !.target = t] \in Intent
  BY DEF Intent
<1> QED BY <1>1, <1>2, <1>3, <1>4, <1>5, <1>6, <1>7, <1>8, <1>9

\* mark: a row gets a status.
LEMMA MarkRows ==
  ASSUME NEW d \in Database, NEW S, NEW status \in Statuses
  PROVE  LET e == Mark(d, S, status)
         IN  /\ e \in Database /\ RowsOnly(d, e)
             /\ \A i \in Ids \ S : e.intent[i] = d.intent[i]
             /\ \A i \in Ids \cap S :
                  LET r == d.intent[i]
                      r2 == e.intent[i]
                  IN /\ r2.status = status /\ (r2.awaiting => r.awaiting) /\ r2.kind = r.kind
                     /\ (status = "failed" => ~r2.awaiting)
                     /\ r2.uncertain = r.uncertain /\ r2.sub = r.sub /\ r2.acked = r.acked
<1> DEFINE new(i) == [d.intent[i] EXCEPT !.status = status, !.cancelled = FALSE, !.awaiting = @ /\ status
           # "failed"]
           f == [i \in Ids |-> IF i \in S THEN new(i) ELSE d.intent[i]]
<1>1. ASSUME NEW i \in Ids PROVE d.intent[i] \in Intent /\ new(i) \in Intent
  <2>1. d.intent[i] \in Intent BY RowFields
  <2>2. (d.intent[i].awaiting /\ status # "failed") \in BOOLEAN OBVIOUS
  <2> QED BY <2>1, <2>2, RowUpdates, Zenon
<1>2. f \in [Ids -> Intent] BY <1>1
<1>3. Mark(d, S, status) = [d EXCEPT !.intent = f] BY DEF Mark, OnIntents
<1>4. Mark(d, S, status) \in Database /\ Mark(d, S, status).intent = f /\ RowsOnly(d, Mark(d, S, status))
  <2> HIDE DEF f
  <2> QED BY <1>2, <1>3, Rewritten
<1>5. \A i \in Ids : Mark(d, S, status).intent[i] = IF i \in S THEN new(i) ELSE d.intent[i] BY <1>4
<1>6. ASSUME NEW i \in Ids, NEW r \in Intent, r = d.intent[i]
      PROVE  LET r2 == new(i) IN /\ r2.status = status /\ (r2.awaiting => r.awaiting) /\ r2.kind = r.kind
                     /\ (status = "failed" => ~r2.awaiting)
                     /\ r2.uncertain = r.uncertain /\ r2.sub = r.sub /\ r2.acked = r.acked
  BY <1>6 DEF Intent
<1> HIDE DEF new, f
<1> QED BY <1>1, <1>4, <1>5, <1>6

\* mark: a row is cancelled.
LEMMA CancelRows ==
  ASSUME NEW d \in Database, NEW S
  PROVE  LET e == Cancel(d, S)
         IN  /\ e \in Database /\ RowsOnly(d, e)
             /\ \A i \in Ids \ S : e.intent[i] = d.intent[i]
             /\ \A i \in Ids \cap S :
                  LET r == d.intent[i]
                      r2 == e.intent[i]
                  IN /\ r2.status = "failed" /\ ~r2.awaiting /\ r2.kind = r.kind
                     /\ r2.uncertain = r.uncertain /\ r2.sub = r.sub /\ r2.acked = r.acked
<1> DEFINE new(i) == [d.intent[i] EXCEPT !.status = "failed", !.cancelled = TRUE, !.awaiting = FALSE]
           f == [i \in Ids |-> IF i \in S THEN new(i) ELSE d.intent[i]]
<1>1. ASSUME NEW i \in Ids PROVE d.intent[i] \in Intent /\ new(i) \in Intent
  <2>1. d.intent[i] \in Intent BY RowFields
  <2> QED BY <2>1, RowUpdates
<1>2. f \in [Ids -> Intent] BY <1>1
<1>3. Cancel(d, S) = [d EXCEPT !.intent = f] BY DEF Cancel, OnIntents
<1>4. Cancel(d, S) \in Database /\ Cancel(d, S).intent = f /\ RowsOnly(d, Cancel(d, S))
  <2> HIDE DEF f
  <2> QED BY <1>2, <1>3, Rewritten
<1>5. \A i \in Ids : Cancel(d, S).intent[i] = IF i \in S THEN new(i) ELSE d.intent[i] BY <1>4
<1>6. ASSUME NEW i \in Ids, NEW r \in Intent, r = d.intent[i]
      PROVE  LET r2 == new(i) IN /\ r2.status = "failed" /\ ~r2.awaiting /\ r2.kind = r.kind
                     /\ r2.uncertain = r.uncertain /\ r2.sub = r.sub /\ r2.acked = r.acked
  BY <1>6 DEF Intent
<1> HIDE DEF new, f
<1> QED BY <1>1, <1>4, <1>5, <1>6

\* defer: a row goes back to the queue.
LEMMA DeferRows ==
  ASSUME NEW d \in Database, NEW S
  PROVE  LET e == Defer(d, S)
         IN  /\ e \in Database /\ RowsOnly(d, e)
             /\ \A i \in Ids \ S : e.intent[i] = d.intent[i]
             /\ \A i \in Ids \cap S :
                  LET r == d.intent[i]
                      r2 == e.intent[i]
                  IN /\ r2.status = "queued" /\ ~r2.awaiting /\ ~r2.uncertain
                     /\ r2.kind = r.kind /\ r2.acked = r.acked
<1> DEFINE new(i) == [d.intent[i] EXCEPT !.status = "queued", !.awaiting = FALSE, !.target = 0, !.sub =
           0, !.uncertain = FALSE]
           f == [i \in Ids |-> IF i \in S THEN new(i) ELSE d.intent[i]]
<1>1. ASSUME NEW i \in Ids PROVE d.intent[i] \in Intent /\ new(i) \in Intent
  <2>1. d.intent[i] \in Intent BY RowFields
  <2> QED BY <2>1, RowUpdates
<1>2. f \in [Ids -> Intent] BY <1>1
<1>3. Defer(d, S) = [d EXCEPT !.intent = f] BY DEF Defer, OnIntents
<1>4. Defer(d, S) \in Database /\ Defer(d, S).intent = f /\ RowsOnly(d, Defer(d, S))
  <2> HIDE DEF f
  <2> QED BY <1>2, <1>3, Rewritten
<1>5. \A i \in Ids : Defer(d, S).intent[i] = IF i \in S THEN new(i) ELSE d.intent[i] BY <1>4
<1>6. ASSUME NEW i \in Ids, NEW r \in Intent, r = d.intent[i]
      PROVE  LET r2 == new(i) IN /\ r2.status = "queued" /\ ~r2.awaiting /\ ~r2.uncertain
                     /\ r2.kind = r.kind /\ r2.acked = r.acked
  BY <1>6 DEF Intent
<1> HIDE DEF new, f
<1> QED BY <1>1, <1>4, <1>5, <1>6

\* removeEntry: a row is given up.
LEMMA RemoveRows ==
  ASSUME NEW d \in Database, NEW j
  PROVE  LET e == RemoveEntry(d, j)
         IN  /\ e \in Database /\ RowsOnly(d, e)
             /\ \A i \in Ids \ {j} : e.intent[i] = d.intent[i]
             /\ \A i \in Ids \cap {j} :
                  LET r == d.intent[i]
                      r2 == e.intent[i]
                  IN /\ r2.status = "failed" /\ ~r2.awaiting /\ ~r2.uncertain
                     /\ r2.kind = r.kind /\ r2.sub = r.sub /\ r2.acked = r.acked
<1> DEFINE new(i) == [d.intent[i] EXCEPT !.status = "failed", !.uncertain = FALSE, !.awaiting = FALSE,
           !.cancelled = FALSE]
           f == [i \in Ids |-> IF i \in {j} THEN new(i) ELSE d.intent[i]]
<1>1. ASSUME NEW i \in Ids PROVE d.intent[i] \in Intent /\ new(i) \in Intent
  <2>1. d.intent[i] \in Intent BY RowFields
  <2> QED BY <2>1, RowUpdates
<1>2. f \in [Ids -> Intent] BY <1>1
<1>3. RemoveEntry(d, j) = [d EXCEPT !.intent = f] BY DEF RemoveEntry, OnIntents
<1>4. RemoveEntry(d, j) \in Database /\ RemoveEntry(d, j).intent = f /\ RowsOnly(d, RemoveEntry(d, j))
  <2> HIDE DEF f
  <2> QED BY <1>2, <1>3, Rewritten
<1>5. \A i \in Ids : RemoveEntry(d, j).intent[i] = IF i \in {j} THEN new(i) ELSE d.intent[i] BY <1>4
<1>6. ASSUME NEW i \in Ids, NEW r \in Intent, r = d.intent[i]
      PROVE  LET r2 == new(i) IN /\ r2.status = "failed" /\ ~r2.awaiting /\ ~r2.uncertain
                     /\ r2.kind = r.kind /\ r2.sub = r.sub /\ r2.acked = r.acked
  BY <1>6 DEF Intent
<1> HIDE DEF new, f
<1> QED BY <1>1, <1>4, <1>5, <1>6

\* requeue: a refused steer waits as a message.
LEMMA RequeueRows ==
  ASSUME NEW d \in Database, NEW j
  PROVE  LET e == Requeue(d, j)
         IN  /\ e \in Database /\ RowsOnly(d, e)
             /\ \A i \in Ids \ {j} : e.intent[i] = d.intent[i]
             /\ \A i \in Ids \cap {j} :
                  LET r == d.intent[i]
                      r2 == e.intent[i]
                  IN /\ r2.status = "queued" /\ ~r2.awaiting /\ ~r2.uncertain
                     /\ r2.kind = r.kind /\ r2.acked = r.acked
<1> DEFINE new(i) == [d.intent[i] EXCEPT !.status = "queued", !.steer = FALSE, !.awaiting = FALSE,
           !.target = 0, !.sub = 0, !.uncertain = FALSE]
           f == [i \in Ids |-> IF i \in {j} THEN new(i) ELSE d.intent[i]]
<1>1. ASSUME NEW i \in Ids PROVE d.intent[i] \in Intent /\ new(i) \in Intent
  <2>1. d.intent[i] \in Intent BY RowFields
  <2> QED BY <2>1, RowUpdates
<1>2. f \in [Ids -> Intent] BY <1>1
<1>3. Requeue(d, j) = [d EXCEPT !.intent = f] BY DEF Requeue, OnIntents
<1>4. Requeue(d, j) \in Database /\ Requeue(d, j).intent = f /\ RowsOnly(d, Requeue(d, j))
  <2> HIDE DEF f
  <2> QED BY <1>2, <1>3, Rewritten
<1>5. \A i \in Ids : Requeue(d, j).intent[i] = IF i \in {j} THEN new(i) ELSE d.intent[i] BY <1>4
<1>6. ASSUME NEW i \in Ids, NEW r \in Intent, r = d.intent[i]
      PROVE  LET r2 == new(i) IN /\ r2.status = "queued" /\ ~r2.awaiting /\ ~r2.uncertain
                     /\ r2.kind = r.kind /\ r2.acked = r.acked
  BY <1>6 DEF Intent
<1> HIDE DEF new, f
<1> QED BY <1>1, <1>4, <1>5, <1>6

\* markUncertain: the fate of a row is unknown.
LEMMA UncertainRows ==
  ASSUME NEW d \in Database, NEW S
  PROVE  LET e == MarkUncertain(d, S)
         IN  /\ e \in Database /\ RowsOnly(d, e)
             /\ \A i \in Ids \ S : e.intent[i] = d.intent[i]
             /\ \A i \in Ids \cap S :
                  LET r == d.intent[i]
                      r2 == e.intent[i]
                  IN /\ r2.uncertain /\ r2.kind = r.kind /\ r2.status = r.status
                     /\ r2.awaiting = r.awaiting /\ r2.sub = r.sub /\ r2.acked = r.acked
<1> DEFINE new(i) == [d.intent[i] EXCEPT !.uncertain = TRUE]
           f == [i \in Ids |-> IF i \in S THEN new(i) ELSE d.intent[i]]
<1>1. ASSUME NEW i \in Ids PROVE d.intent[i] \in Intent /\ new(i) \in Intent
  <2>1. d.intent[i] \in Intent BY RowFields
  <2> QED BY <2>1, RowUpdates
<1>2. f \in [Ids -> Intent] BY <1>1
<1>3. MarkUncertain(d, S) = [d EXCEPT !.intent = f] BY DEF MarkUncertain, OnIntents
<1>4. MarkUncertain(d, S) \in Database /\ MarkUncertain(d, S).intent = f /\ RowsOnly(d, MarkUncertain(d, S))
  <2> HIDE DEF f
  <2> QED BY <1>2, <1>3, Rewritten
<1>5. \A i \in Ids : MarkUncertain(d, S).intent[i] = IF i \in S THEN new(i) ELSE d.intent[i] BY <1>4
<1>6. ASSUME NEW i \in Ids, NEW r \in Intent, r = d.intent[i]
      PROVE  LET r2 == new(i) IN /\ r2.uncertain /\ r2.kind = r.kind /\ r2.status = r.status
                     /\ r2.awaiting = r.awaiting /\ r2.sub = r.sub /\ r2.acked = r.acked
  BY <1>6 DEF Intent
<1> HIDE DEF new, f
<1> QED BY <1>1, <1>4, <1>5, <1>6

\* clearUncertain: it is known, or matters no more.
LEMMA ClearRows ==
  ASSUME NEW d \in Database, NEW S
  PROVE  LET e == ClearUncertain(d, S)
         IN  /\ e \in Database /\ RowsOnly(d, e)
             /\ \A i \in Ids \ S : e.intent[i] = d.intent[i]
             /\ \A i \in Ids \cap S :
                  LET r == d.intent[i]
                      r2 == e.intent[i]
                  IN /\ ~r2.uncertain /\ r2.kind = r.kind /\ r2.status = r.status
                     /\ r2.awaiting = r.awaiting /\ r2.sub = r.sub /\ r2.acked = r.acked
<1> DEFINE new(i) == [d.intent[i] EXCEPT !.uncertain = FALSE]
           f == [i \in Ids |-> IF i \in S THEN new(i) ELSE d.intent[i]]
<1>1. ASSUME NEW i \in Ids PROVE d.intent[i] \in Intent /\ new(i) \in Intent
  <2>1. d.intent[i] \in Intent BY RowFields
  <2> QED BY <2>1, RowUpdates
<1>2. f \in [Ids -> Intent] BY <1>1
<1>3. ClearUncertain(d, S) = [d EXCEPT !.intent = f] BY DEF ClearUncertain, OnIntents
<1>4. ClearUncertain(d, S) \in Database /\ ClearUncertain(d, S).intent = f /\ RowsOnly(d, ClearUncertain(d, S))
  <2> HIDE DEF f
  <2> QED BY <1>2, <1>3, Rewritten
<1>5. \A i \in Ids : ClearUncertain(d, S).intent[i] = IF i \in S THEN new(i) ELSE d.intent[i] BY <1>4
<1>6. ASSUME NEW i \in Ids, NEW r \in Intent, r = d.intent[i]
      PROVE  LET r2 == new(i) IN /\ ~r2.uncertain /\ r2.kind = r.kind /\ r2.status = r.status
                     /\ r2.awaiting = r.awaiting /\ r2.sub = r.sub /\ r2.acked = r.acked
  BY <1>6 DEF Intent
<1> HIDE DEF new, f
<1> QED BY <1>1, <1>4, <1>5, <1>6

\* The provider took a row.
LEMMA AckRows ==
  ASSUME NEW d \in Database, NEW S
  PROVE  LET e == Acknowledge(d, S)
         IN  /\ e \in Database /\ RowsOnly(d, e)
             /\ \A i \in Ids \ S : e.intent[i] = d.intent[i]
             /\ \A i \in Ids \cap S :
                  LET r == d.intent[i]
                      r2 == e.intent[i]
                  IN /\ r2.acked /\ ~r2.awaiting /\ r2.kind = r.kind
                     /\ r2.status = r.status /\ r2.uncertain = r.uncertain /\ r2.sub = r.sub
<1> DEFINE new(i) == [d.intent[i] EXCEPT !.awaiting = FALSE, !.acked = TRUE]
           f == [i \in Ids |-> IF i \in S THEN new(i) ELSE d.intent[i]]
<1>1. ASSUME NEW i \in Ids PROVE d.intent[i] \in Intent /\ new(i) \in Intent
  <2>1. d.intent[i] \in Intent BY RowFields
  <2> QED BY <2>1, RowUpdates
<1>2. f \in [Ids -> Intent] BY <1>1
<1>3. Acknowledge(d, S) = [d EXCEPT !.intent = f] BY DEF Acknowledge, OnIntents
<1>4. Acknowledge(d, S) \in Database /\ Acknowledge(d, S).intent = f /\ RowsOnly(d, Acknowledge(d, S))
  <2> HIDE DEF f
  <2> QED BY <1>2, <1>3, Rewritten
<1>5. \A i \in Ids : Acknowledge(d, S).intent[i] = IF i \in S THEN new(i) ELSE d.intent[i] BY <1>4
<1>6. ASSUME NEW i \in Ids, NEW r \in Intent, r = d.intent[i]
      PROVE  LET r2 == new(i) IN /\ r2.acked /\ ~r2.awaiting /\ r2.kind = r.kind
                     /\ r2.status = r.status /\ r2.uncertain = r.uncertain /\ r2.sub = r.sub
  BY <1>6 DEF Intent
<1> HIDE DEF new, f
<1> QED BY <1>1, <1>4, <1>5, <1>6

\* The provider took a row for certain.
LEMMA ConfirmRows ==
  ASSUME NEW d \in Database, NEW j
  PROVE  LET e == Confirm(d, j)
         IN  /\ e \in Database /\ RowsOnly(d, e)
             /\ \A i \in Ids \ {j} : e.intent[i] = d.intent[i]
             /\ \A i \in Ids \cap {j} :
                  LET r == d.intent[i]
                      r2 == e.intent[i]
                  IN /\ r2.acked /\ ~r2.awaiting /\ ~r2.uncertain
                     /\ r2.status = (IF r.uncertain THEN "done" ELSE r.status) /\ r2.kind = r.kind /\ r2.sub = r.sub
<1> DEFINE new(i) == [d.intent[i] EXCEPT !.awaiting = FALSE, !.acked = TRUE, !.uncertain = FALSE,
           !.status = IF d.intent[i].uncertain THEN "done" ELSE @]
           f == [i \in Ids |-> IF i \in {j} THEN new(i) ELSE d.intent[i]]
<1>1. ASSUME NEW i \in Ids PROVE d.intent[i] \in Intent /\ new(i) \in Intent
  <2>1. d.intent[i] \in Intent BY RowFields
  <2> QED BY <2>1, RowUpdates
<1>2. f \in [Ids -> Intent] BY <1>1
<1>3. Confirm(d, j) = [d EXCEPT !.intent = f] BY DEF Confirm, OnIntents
<1>4. Confirm(d, j) \in Database /\ Confirm(d, j).intent = f /\ RowsOnly(d, Confirm(d, j))
  <2> HIDE DEF f
  <2> QED BY <1>2, <1>3, Rewritten
<1>5. \A i \in Ids : Confirm(d, j).intent[i] = IF i \in {j} THEN new(i) ELSE d.intent[i] BY <1>4
<1>6. ASSUME NEW i \in Ids, NEW r \in Intent, r = d.intent[i]
      PROVE  LET r2 == new(i) IN /\ r2.acked /\ ~r2.awaiting /\ ~r2.uncertain
                     /\ r2.status = (IF r.uncertain THEN "done" ELSE r.status) /\ r2.kind = r.kind /\ r2.sub = r.sub
  BY <1>6 DEF Intent
<1> HIDE DEF new, f
<1> QED BY <1>1, <1>4, <1>5, <1>6

-----------------------------------------------------------------------------
(* Steps on the queue's own record. *)

Reasons == {"none", "manual", "stopped", "limit", "snooze", "restart", "uncertain", "not_sent"}
Timers == {"none", "resume", "snooze", "clear"}
Triggers == {"none", "restart", "limit_resume"}

\* The fields of the queue's record.
LEMMA QueueFields ==
  ASSUME NEW d \in Database
  PROVE  /\ d.q \in Queue /\ d.q.paused \in BOOLEAN /\ d.q.reason \in Reasons
         /\ d.q.limited \in BOOLEAN /\ d.q.reset \in BOOLEAN /\ d.q.timer \in Timers
         /\ d.q.cont \in BOOLEAN /\ d.q.trigger \in Triggers /\ d.q.token \in Nat
BY DatabaseFields DEF Queue, Reasons, Timers, Triggers

\* The rows, the continuation record and core's evidence stay.
QueueOnly(d, d2) ==
  d2 \in Database /\ d2.intent = d.intent /\ d2.root = d.root /\ d2.rootLimited = d.rootLimited

\* A new record in place of the old one.
LEMMA QueueRewritten ==
  ASSUME NEW d \in Database, NEW q \in Queue
  PROVE  QueueOnly(d, [d EXCEPT !.q = q]) /\ [d EXCEPT !.q = q].q = q
BY DatabaseFields DEF Database, QueueOnly

\* pause: the queue is held.
LEMMA HoldFine ==
  ASSUME NEW d \in Database, NEW reason \in Reasons
  PROVE  LET e == Hold(d, reason)
         IN  /\ QueueOnly(d, e) /\ Fine(d, e) /\ e.q.paused /\ e.q.reason = reason
             /\ e.q.limited = d.q.limited /\ e.q.cont = d.q.cont /\ e.q.trigger = d.q.trigger
<1> DEFINE q == [d.q EXCEPT !.paused = TRUE, !.reason = reason]
<1>1. q \in Queue /\ q.paused /\ q.reason = reason /\ q.limited = d.q.limited
      /\ q.cont = d.q.cont /\ q.trigger = d.q.trigger
  BY QueueFields DEF Queue, Reasons
<1>2. Hold(d, reason) = [d EXCEPT !.q = q] BY DEF Hold
<1> HIDE DEF q
<1>3. QueueOnly(d, Hold(d, reason)) /\ Hold(d, reason).q = q BY <1>1, <1>2, QueueRewritten
<1>4. Marked(d) => Marked(Hold(d, reason)) BY <1>1, <1>3 DEF Marked, QueueOnly
<1> QED BY <1>1, <1>3, <1>4, FineRows DEF QueueOnly

\* resume: a queue without the mark of a limit is released.
LEMMA UnholdFine ==
  ASSUME NEW d \in Database, ~d.q.limited
  PROVE  LET e == Unhold(d)
         IN  /\ QueueOnly(d, e) /\ Fine(d, e)
             /\ ~e.q.paused /\ e.q.reason = "none" /\ e.q.limited = d.q.limited
             /\ e.q.reset = d.q.reset /\ e.q.timer = d.q.timer /\ e.q.cont = d.q.cont
             /\ e.q.trigger = d.q.trigger
<1> DEFINE q == [d.q EXCEPT !.paused = FALSE, !.reason = "none"]
<1>1. /\ q \in Queue
      /\ ~q.paused /\ q.reason = "none" /\ q.limited = d.q.limited
      /\ q.reset = d.q.reset /\ q.timer = d.q.timer /\ q.cont = d.q.cont
      /\ q.trigger = d.q.trigger
  BY QueueFields DEF Queue, Reasons, Timers, Triggers
<1>2. Unhold(d) = [d EXCEPT !.q = q] BY DEF Unhold
<1> HIDE DEF q
<1>3. QueueOnly(d, Unhold(d)) /\ Unhold(d).q = q BY <1>1, <1>2, QueueRewritten
<1>4. Marked(d) => Marked(Unhold(d)) BY <1>1, <1>3 DEF Marked, QueueOnly
<1> QED BY <1>1, <1>3, <1>4, FineRows DEF QueueOnly

\* A hold gets a token of its own.
LEMMA NewTokenFine ==
  ASSUME NEW d \in Database
  PROVE  LET e == NewToken(d)
         IN  /\ QueueOnly(d, e) /\ Fine(d, e)
             /\ e.q.paused = d.q.paused /\ e.q.reason = d.q.reason
             /\ e.q.limited = d.q.limited /\ e.q.reset = d.q.reset /\ e.q.timer = d.q.timer
             /\ e.q.cont = d.q.cont /\ e.q.trigger = d.q.trigger
<1> DEFINE q == [d.q EXCEPT !.token = @ + 1]
<1>1. /\ q \in Queue
      /\ q.paused = d.q.paused /\ q.reason = d.q.reason /\ q.limited = d.q.limited
      /\ q.reset = d.q.reset /\ q.timer = d.q.timer /\ q.cont = d.q.cont
      /\ q.trigger = d.q.trigger
  BY QueueFields DEF Queue, Reasons, Timers, Triggers
<1>2. NewToken(d) = [d EXCEPT !.q = q] BY DEF NewToken
<1> HIDE DEF q
<1>3. QueueOnly(d, NewToken(d)) /\ NewToken(d).q = q BY <1>1, <1>2, QueueRewritten
<1>4. Marked(d) => Marked(NewToken(d)) BY <1>1, <1>3 DEF Marked, QueueOnly
<1> QED BY <1>1, <1>3, <1>4, FineRows DEF QueueOnly

\* The deadline is disarmed.
LEMMA NoTimerFine ==
  ASSUME NEW d \in Database
  PROVE  LET e == NoTimer(d)
         IN  /\ QueueOnly(d, e) /\ Fine(d, e)
             /\ e.q.paused = d.q.paused /\ e.q.reason = d.q.reason
             /\ e.q.limited = d.q.limited /\ e.q.reset = d.q.reset /\ e.q.timer = "none"
             /\ e.q.cont = d.q.cont /\ e.q.trigger = d.q.trigger
<1> DEFINE q == [d.q EXCEPT !.timer = "none"]
<1>1. /\ q \in Queue
      /\ q.paused = d.q.paused /\ q.reason = d.q.reason /\ q.limited = d.q.limited
      /\ q.reset = d.q.reset /\ q.timer = "none" /\ q.cont = d.q.cont
      /\ q.trigger = d.q.trigger
  BY QueueFields DEF Queue, Reasons, Timers, Triggers
<1>2. NoTimer(d) = [d EXCEPT !.q = q] BY DEF NoTimer
<1> HIDE DEF q
<1>3. QueueOnly(d, NoTimer(d)) /\ NoTimer(d).q = q BY <1>1, <1>2, QueueRewritten
<1>4. Marked(d) => Marked(NoTimer(d)) BY <1>1, <1>3 DEF Marked, QueueOnly
<1> QED BY <1>1, <1>3, <1>4, FineRows DEF QueueOnly

\* A continuation is stored.
LEMMA ContinuationFine ==
  ASSUME NEW d \in Database, NEW trigger \in Triggers
  PROVE  LET e == Continuation(d, trigger)
         IN  /\ QueueOnly(d, e) /\ Fine(d, e)
             /\ e.q.paused = d.q.paused /\ e.q.reason = d.q.reason
             /\ e.q.limited = d.q.limited /\ e.q.reset = d.q.reset /\ e.q.timer = d.q.timer
             /\ e.q.cont /\ e.q.trigger = trigger
<1> DEFINE q == [d.q EXCEPT !.cont = TRUE, !.trigger = trigger]
<1>1. /\ q \in Queue
      /\ q.paused = d.q.paused /\ q.reason = d.q.reason /\ q.limited = d.q.limited
      /\ q.reset = d.q.reset /\ q.timer = d.q.timer /\ q.cont /\ q.trigger = trigger
  BY QueueFields DEF Queue, Reasons, Timers, Triggers
<1>2. Continuation(d, trigger) = [d EXCEPT !.q = q] BY DEF Continuation
<1> HIDE DEF q
<1>3. QueueOnly(d, Continuation(d, trigger)) /\ Continuation(d, trigger).q = q BY <1>1, <1>2, QueueRewritten
<1>4. Marked(d) => Marked(Continuation(d, trigger)) BY <1>1, <1>3 DEF Marked, QueueOnly
<1> QED BY <1>1, <1>3, <1>4, FineRows DEF QueueOnly

\* The continuation is dropped.
LEMMA NoContinuationFine ==
  ASSUME NEW d \in Database
  PROVE  LET e == NoContinuation(d)
         IN  /\ QueueOnly(d, e) /\ Fine(d, e)
             /\ e.q.paused = d.q.paused /\ e.q.reason = d.q.reason
             /\ e.q.limited = d.q.limited /\ e.q.reset = d.q.reset /\ e.q.timer = d.q.timer
             /\ ~e.q.cont /\ e.q.trigger = "none"
<1> DEFINE q == [d.q EXCEPT !.cont = FALSE, !.trigger = "none"]
<1>1. /\ q \in Queue
      /\ q.paused = d.q.paused /\ q.reason = d.q.reason /\ q.limited = d.q.limited
      /\ q.reset = d.q.reset /\ q.timer = d.q.timer /\ ~q.cont /\ q.trigger = "none"
  BY QueueFields DEF Queue, Reasons, Timers, Triggers
<1>2. NoContinuation(d) = [d EXCEPT !.q = q] BY DEF NoContinuation
<1> HIDE DEF q
<1>3. QueueOnly(d, NoContinuation(d)) /\ NoContinuation(d).q = q BY <1>1, <1>2, QueueRewritten
<1>4. Marked(d) => Marked(NoContinuation(d)) BY <1>1, <1>3 DEF Marked, QueueOnly
<1> QED BY <1>1, <1>3, <1>4, FineRows DEF QueueOnly

\* The reason of a hold changes.
LEMMA ReasonFine ==
  ASSUME NEW d \in Database, NEW reason \in Reasons
  PROVE  LET e == [d EXCEPT !.q.reason = reason]
         IN  /\ QueueOnly(d, e) /\ Fine(d, e)
             /\ e.q.paused = d.q.paused /\ e.q.reason = reason /\ e.q.limited = d.q.limited
             /\ e.q.reset = d.q.reset /\ e.q.timer = d.q.timer /\ e.q.cont = d.q.cont
             /\ e.q.trigger = d.q.trigger
<1> DEFINE q == [d.q EXCEPT !.reason = reason]
<1>1. /\ q \in Queue
      /\ q.paused = d.q.paused /\ q.reason = reason /\ q.limited = d.q.limited
      /\ q.reset = d.q.reset /\ q.timer = d.q.timer /\ q.cont = d.q.cont
      /\ q.trigger = d.q.trigger
  BY QueueFields DEF Queue, Reasons, Timers, Triggers
<1>2. [d EXCEPT !.q.reason = reason] = [d EXCEPT !.q = q] OBVIOUS
<1> HIDE DEF q
<1>3. QueueOnly(d, [d EXCEPT !.q.reason = reason]) /\ [d EXCEPT !.q.reason = reason].q = q BY <1>1, <1>2, QueueRewritten
<1>4. Marked(d) => Marked([d EXCEPT !.q.reason = reason]) BY <1>1, <1>3 DEF Marked, QueueOnly
<1> QED BY <1>1, <1>3, <1>4, FineRows DEF QueueOnly

\* A deadline is armed.
LEMMA TimerFine ==
  ASSUME NEW d \in Database, NEW timer \in Timers
  PROVE  LET e == [d EXCEPT !.q.timer = timer]
         IN  /\ QueueOnly(d, e) /\ Fine(d, e)
             /\ e.q.paused = d.q.paused /\ e.q.reason = d.q.reason
             /\ e.q.limited = d.q.limited /\ e.q.reset = d.q.reset /\ e.q.timer = timer
             /\ e.q.cont = d.q.cont /\ e.q.trigger = d.q.trigger
<1> DEFINE q == [d.q EXCEPT !.timer = timer]
<1>1. /\ q \in Queue
      /\ q.paused = d.q.paused /\ q.reason = d.q.reason /\ q.limited = d.q.limited
      /\ q.reset = d.q.reset /\ q.timer = timer /\ q.cont = d.q.cont
      /\ q.trigger = d.q.trigger
  BY QueueFields DEF Queue, Reasons, Timers, Triggers
<1>2. [d EXCEPT !.q.timer = timer] = [d EXCEPT !.q = q] OBVIOUS
<1> HIDE DEF q
<1>3. QueueOnly(d, [d EXCEPT !.q.timer = timer]) /\ [d EXCEPT !.q.timer = timer].q = q BY <1>1, <1>2, QueueRewritten
<1>4. Marked(d) => Marked([d EXCEPT !.q.timer = timer]) BY <1>1, <1>3 DEF Marked, QueueOnly
<1> QED BY <1>1, <1>3, <1>4, FineRows DEF QueueOnly

\* The reset is known or forgotten.
LEMMA ResetFine ==
  ASSUME NEW d \in Database, NEW w \in BOOLEAN
  PROVE  LET e == [d EXCEPT !.q.reset = w]
         IN  /\ QueueOnly(d, e) /\ Fine(d, e)
             /\ e.q.paused = d.q.paused /\ e.q.reason = d.q.reason
             /\ e.q.limited = d.q.limited /\ e.q.reset = w /\ e.q.timer = d.q.timer
             /\ e.q.cont = d.q.cont /\ e.q.trigger = d.q.trigger
<1> DEFINE q == [d.q EXCEPT !.reset = w]
<1>1. /\ q \in Queue
      /\ q.paused = d.q.paused /\ q.reason = d.q.reason /\ q.limited = d.q.limited
      /\ q.reset = w /\ q.timer = d.q.timer /\ q.cont = d.q.cont
      /\ q.trigger = d.q.trigger
  BY QueueFields DEF Queue, Reasons, Timers, Triggers
<1>2. [d EXCEPT !.q.reset = w] = [d EXCEPT !.q = q] OBVIOUS
<1> HIDE DEF q
<1>3. QueueOnly(d, [d EXCEPT !.q.reset = w]) /\ [d EXCEPT !.q.reset = w].q = q BY <1>1, <1>2, QueueRewritten
<1>4. Marked(d) => Marked([d EXCEPT !.q.reset = w]) BY <1>1, <1>3 DEF Marked, QueueOnly
<1> QED BY <1>1, <1>3, <1>4, FineRows DEF QueueOnly

\* The mark of a limit is dropped.
LEMMA UnlimitFine ==
  ASSUME NEW d \in Database
  PROVE  LET e == [d EXCEPT !.q.limited = FALSE]
         IN  /\ QueueOnly(d, e) /\ Fine(d, e)
             /\ e.q.paused = d.q.paused /\ e.q.reason = d.q.reason /\ ~e.q.limited
             /\ e.q.reset = d.q.reset /\ e.q.timer = d.q.timer /\ e.q.cont = d.q.cont
             /\ e.q.trigger = d.q.trigger
<1> DEFINE q == [d.q EXCEPT !.limited = FALSE]
<1>1. /\ q \in Queue
      /\ q.paused = d.q.paused /\ q.reason = d.q.reason /\ ~q.limited
      /\ q.reset = d.q.reset /\ q.timer = d.q.timer /\ q.cont = d.q.cont
      /\ q.trigger = d.q.trigger
  BY QueueFields DEF Queue, Reasons, Timers, Triggers
<1>2. [d EXCEPT !.q.limited = FALSE] = [d EXCEPT !.q = q] OBVIOUS
<1> HIDE DEF q
<1>3. QueueOnly(d, [d EXCEPT !.q.limited = FALSE]) /\ [d EXCEPT !.q.limited = FALSE].q = q BY <1>1, <1>2, QueueRewritten
<1>4. Marked(d) => Marked([d EXCEPT !.q.limited = FALSE]) BY <1>1, <1>3 DEF Marked, QueueOnly
<1> QED BY <1>1, <1>3, <1>4, FineRows DEF QueueOnly

\* The mark is dropped, and the reset becomes known or not.
LEMMA UnlimitResetFine ==
  ASSUME NEW d \in Database, NEW w \in BOOLEAN
  PROVE  LET e == [d EXCEPT !.q.limited = FALSE, !.q.reset = w]
         IN  /\ QueueOnly(d, e) /\ Fine(d, e)
             /\ e.q.paused = d.q.paused /\ e.q.reason = d.q.reason /\ ~e.q.limited
             /\ e.q.reset = w /\ e.q.timer = d.q.timer /\ e.q.cont = d.q.cont
             /\ e.q.trigger = d.q.trigger
<1> DEFINE q == [d.q EXCEPT !.limited = FALSE, !.reset = w]
<1>1. /\ q \in Queue
      /\ q.paused = d.q.paused /\ q.reason = d.q.reason /\ ~q.limited /\ q.reset = w
      /\ q.timer = d.q.timer /\ q.cont = d.q.cont /\ q.trigger = d.q.trigger
  BY QueueFields DEF Queue, Reasons, Timers, Triggers
<1>2. [d EXCEPT !.q.limited = FALSE, !.q.reset = w] = [d EXCEPT !.q = q] OBVIOUS
<1> HIDE DEF q
<1>3. QueueOnly(d, [d EXCEPT !.q.limited = FALSE, !.q.reset = w]) /\ [d EXCEPT !.q.limited = FALSE, !.q.reset = w].q = q BY <1>1, <1>2, QueueRewritten
<1>4. Marked(d) => Marked([d EXCEPT !.q.limited = FALSE, !.q.reset = w]) BY <1>1, <1>3 DEF Marked, QueueOnly
<1> QED BY <1>1, <1>3, <1>4, FineRows DEF QueueOnly

\* The mark is dropped, and the hold becomes the person's.
LEMMA UnlimitManualFine ==
  ASSUME NEW d \in Database
  PROVE  LET e == [d EXCEPT !.q.limited = FALSE, !.q.reset = TRUE, !.q.reason = "manual"]
         IN  /\ QueueOnly(d, e) /\ Fine(d, e)
             /\ e.q.paused = d.q.paused /\ e.q.reason = "manual" /\ ~e.q.limited /\ e.q.reset
             /\ e.q.timer = d.q.timer /\ e.q.cont = d.q.cont /\ e.q.trigger = d.q.trigger
<1> DEFINE q == [d.q EXCEPT !.limited = FALSE, !.reset = TRUE, !.reason = "manual"]
<1>1. /\ q \in Queue
      /\ q.paused = d.q.paused /\ q.reason = "manual" /\ ~q.limited /\ q.reset
      /\ q.timer = d.q.timer /\ q.cont = d.q.cont /\ q.trigger = d.q.trigger
  BY QueueFields DEF Queue, Reasons, Timers, Triggers
<1>2. [d EXCEPT !.q.limited = FALSE, !.q.reset = TRUE, !.q.reason = "manual"] = [d EXCEPT !.q = q] OBVIOUS
<1> HIDE DEF q
<1>3. QueueOnly(d, [d EXCEPT !.q.limited = FALSE, !.q.reset = TRUE, !.q.reason = "manual"]) /\ [d EXCEPT !.q.limited = FALSE, !.q.reset = TRUE, !.q.reason = "manual"].q = q BY <1>1, <1>2, QueueRewritten
<1>4. Marked(d) => Marked([d EXCEPT !.q.limited = FALSE, !.q.reset = TRUE, !.q.reason = "manual"]) BY <1>1, <1>3 DEF Marked, QueueOnly
<1> QED BY <1>1, <1>3, <1>4, FineRows DEF QueueOnly

\* The rows and the queue's record stay.
ThreadOnly(d, d2) ==
  d2 \in Database /\ d2.intent = d.intent /\ d2.q = d.q /\ d2.rootLimited = d.rootLimited

\* Such a step is fine.
LEMMA ThreadFine ==
  ASSUME NEW d, NEW d2, ThreadOnly(d, d2)
  PROVE  Fine(d, d2)
BY FineRows DEF ThreadOnly, Marked

\* The continuation record is dropped.
LEMMA FinishFine ==
  ASSUME NEW d \in Database
  PROVE  LET e == FinishContinuation(d)
         IN  e \in Database /\ e.q = d.q /\ e.intent = d.intent /\ Fine(d, e)
<1>1. FinishContinuation(d) \in Database BY IdFacts DEF Database, FinishContinuation
<1>2. /\ FinishContinuation(d).q = d.q /\ FinishContinuation(d).intent = d.intent
      /\ FinishContinuation(d).rootLimited = d.rootLimited
  BY DEF Database, FinishContinuation
<1> QED BY <1>1, <1>2, ThreadFine DEF ThreadOnly

\* The turn is over.
LEMMA RunFine ==
  ASSUME NEW d \in Database
  PROVE  LET e == [d EXCEPT !.run = FALSE]
         IN  e \in Database /\ e.q = d.q /\ e.intent = d.intent /\ Fine(d, e)
<1>1. [d EXCEPT !.run = FALSE] \in Database BY DEF Database
<1>2. /\ [d EXCEPT !.run = FALSE].q = d.q /\ [d EXCEPT !.run = FALSE].intent = d.intent
      /\ [d EXCEPT !.run = FALSE].rootLimited = d.rootLimited
  BY DEF Database
<1> QED BY <1>1, <1>2, ThreadFine DEF ThreadOnly

\* A turn started.
LEMMA StartFine ==
  ASSUME NEW d \in Database
  PROVE  LET e == [d EXCEPT !.run = TRUE, !.hasRun = TRUE]
         IN  e \in Database /\ e.q = d.q /\ e.intent = d.intent /\ Fine(d, e)
<1>1. [d EXCEPT !.run = TRUE, !.hasRun = TRUE] \in Database BY DEF Database
<1>2. /\ [d EXCEPT !.run = TRUE, !.hasRun = TRUE].q = d.q /\ [d EXCEPT !.run = TRUE, !.hasRun = TRUE].intent = d.intent
      /\ [d EXCEPT !.run = TRUE, !.hasRun = TRUE].rootLimited = d.rootLimited
  BY DEF Database
<1> QED BY <1>1, <1>2, ThreadFine DEF ThreadOnly

\* The restarts in a row are counted.
LEMMA StreakFine ==
  ASSUME NEW d \in Database, NEW n \in Nat
  PROVE  LET e == [d EXCEPT !.streak = n]
         IN  e \in Database /\ e.q = d.q /\ e.intent = d.intent /\ Fine(d, e)
<1>1. [d EXCEPT !.streak = n] \in Database BY DEF Database
<1>2. /\ [d EXCEPT !.streak = n].q = d.q /\ [d EXCEPT !.streak = n].intent = d.intent
      /\ [d EXCEPT !.streak = n].rootLimited = d.rootLimited
  BY DEF Database
<1> QED BY <1>1, <1>2, ThreadFine DEF ThreadOnly

\* The provider names its inputs.
LEMMA AdmitsFine ==
  ASSUME NEW d \in Database
  PROVE  LET e == [d EXCEPT !.admits = TRUE]
         IN  e \in Database /\ e.q = d.q /\ e.intent = d.intent /\ Fine(d, e)
<1>1. [d EXCEPT !.admits = TRUE] \in Database BY DEF Database
<1>2. /\ [d EXCEPT !.admits = TRUE].q = d.q /\ [d EXCEPT !.admits = TRUE].intent = d.intent
      /\ [d EXCEPT !.admits = TRUE].rootLimited = d.rootLimited
  BY DEF Database
<1> QED BY <1>1, <1>2, ThreadFine DEF ThreadOnly

\* A database a step leaves as it is.
LEMMA FineSame ==
  ASSUME NEW d \in Database
  PROVE  Fine(d, d)
BY FineRows

\* A fine step keeps the type.
LEMMA FineType ==
  ASSUME NEW d, NEW d2, Fine(d, d2)
  PROVE  d2 \in Database
BY DEF Fine, Tame

\* reconcileUncertainty.
LEMMA ReconcileFine ==
  ASSUME NEW d \in Database
  PROVE  Fine(d, ReconcileUncertainty(d))
<1>1. CASE d.q.reason = "uncertain" /\ UncertainOf(d) = {}
  <2> DEFINE reason == CASE d.q.limited -> "limit"
                         [] ~d.q.limited /\ d.q.cont ->
                              IF d.q.trigger = "limit_resume" THEN "limit" ELSE "restart"
                         [] OTHER -> "manual"
  <2>1. reason \in Reasons BY QueueFields DEF Reasons
  <2>2. ReconcileUncertainty(d) = Hold(d, reason) BY <1>1 DEF ReconcileUncertainty
  <2> HIDE DEF reason
  <2> QED BY <2>1, <2>2, HoldFine
<1>2. CASE ~(d.q.reason = "uncertain" /\ UncertainOf(d) = {})
  BY <1>2, FineSame DEF ReconcileUncertainty
<1> QED BY <1>1, <1>2

-----------------------------------------------------------------------------
(* Uncertain inputs whose moment has passed. *)

\* Rows stop being uncertain.
LEMMA ClearFine ==
  ASSUME NEW d \in Database, NEW S
  PROVE  Fine(d, ClearUncertain(d, S)) /\ ClearUncertain(d, S).q = d.q
<1> DEFINE e == ClearUncertain(d, S)
<1>1. e \in Database /\ RowsOnly(d, e) BY ClearRows
<1>2. ASSUME NEW i \in Ids PROVE RowTame(d.intent[i], e.intent[i])
  <2>1. CASE i \in S
    <3> DEFINE r == d.intent[i]
               r2 == e.intent[i]
    <3>1. /\ ~r2.uncertain /\ r2.kind = r.kind /\ r2.status = r.status
          /\ r2.awaiting = r.awaiting /\ r2.sub = r.sub
      BY <2>1, ClearRows
    <3> QED BY <3>1 DEF RowTame, RowLoose, RowSteady, Spent, Quiet, RowInv
  <2>2. CASE i \notin S BY <2>2, ClearRows, TameSame
  <2> QED BY <2>1, <2>2
<1> HIDE DEF e
<1> QED BY <1>1, <1>2 DEF e, Fine, Tame, Marked, RowsOnly

\* releaseUncertainHold.
LEMMA ReleaseUncertainFine ==
  ASSUME NEW d \in Database
  PROVE  Fine(d, ReleaseUncertainHold(d))
<1>1. CASE d.q.reason # "uncertain" \/ UncertainOf(d) # {}
  BY <1>1, FineSame DEF ReleaseUncertainHold
<1>2. CASE d.q.reason = "uncertain" /\ UncertainOf(d) = {} /\ (d.q.limited \/ d.q.cont)
  <2>1. ReleaseUncertainHold(d) = ReconcileUncertainty(d) BY <1>2 DEF ReleaseUncertainHold
  <2> QED BY <2>1, ReconcileFine
<1>3. CASE d.q.reason = "uncertain" /\ UncertainOf(d) = {} /\ ~(d.q.limited \/ d.q.cont)
  <2>1. ReleaseUncertainHold(d) = Unhold(d) BY <1>3 DEF ReleaseUncertainHold
  <2> QED BY <1>3, <2>1, UnholdFine
<1> QED BY <1>1, <1>2, <1>3

\* retireEndedTurnInputs.
LEMMA RetireEndedFine ==
  ASSUME NEW d \in Database, NEW generation
  PROVE  Fine(d, RetireEndedTurnInputs(d, generation))
<1> DEFINE ended == {i \in UncertainOf(d) : d.intent[i].kind = "send" /\ d.intent[i].sub = generation}
           e == ClearUncertain(d, ended)
<1>1. Fine(d, e) /\ e \in Database BY ClearFine, FineType
<1>2. Fine(e, ReleaseUncertainHold(e)) BY <1>1, ReleaseUncertainFine
<1>3. Fine(d, ReleaseUncertainHold(e)) BY <1>1, <1>2, FineTransitive
<1> QED BY <1>3, FineSame DEF RetireEndedTurnInputs

\* retireUncertainInputs.
LEMMA RetireUncertainFine ==
  ASSUME NEW d \in Database
  PROVE  Fine(d, RetireUncertainInputs(d))
<1> DEFINE e == ClearUncertain(d, UncertainOf(d))
           f == FinishContinuation(e)
           g == NoContinuation(f)
<1>1. Fine(d, e) /\ e \in Database BY ClearFine, FineType
<1>2. Fine(e, f) /\ f \in Database BY <1>1, FinishFine
<1>3. Fine(f, g) /\ g \in Database BY <1>2, NoContinuationFine, FineType
<1>4. Fine(d, ReleaseUncertainHold(e))
  <2> HIDE DEF e
  <2> QED BY <1>1, ReleaseUncertainFine, FineTransitive
<1>5. Fine(d, ReleaseUncertainHold(g))
  <2>1. Fine(g, ReleaseUncertainHold(g)) BY <1>3, ReleaseUncertainFine
  <2> HIDE DEF e, f, g
  <2>2. Fine(d, g) BY <1>1, <1>2, <1>3, FineTransitive
  <2> QED BY <2>1, <2>2, FineTransitive
<1> QED BY <1>4, <1>5, FineSame DEF RetireUncertainInputs

-----------------------------------------------------------------------------
(* Limits and holds. *)

\* limit.cleared: the evidence goes with the mark.
LEMMA LimitClearedFine ==
  ASSUME NEW d \in Database
  PROVE  LET e == LimitCleared(d)
         IN  e \in Database /\ e.intent = d.intent /\ Fine(d, e) /\ (~d.q.limited => ~e.q.limited)
<1>1. CASE d.rootLimited
  <2> DEFINE q == [d.q EXCEPT !.limited = FALSE]
             e == [d EXCEPT !.rootLimited = FALSE, !.q = q]
  <2>1. q \in Queue /\ ~q.limited BY QueueFields DEF Queue
  <2>2. LimitCleared(d) = e BY <1>1 DEF LimitCleared
  <2> HIDE DEF q
  <2>3. e \in Database /\ e.intent = d.intent /\ e.q = q BY <2>1 DEF Database
  <2>4. Marked(e) BY <2>1, <2>3 DEF Marked
  <2> HIDE DEF e
  <2> QED BY <2>1, <2>2, <2>3, <2>4, FineRows
<1>2. CASE ~d.rootLimited BY <1>2, FineSame DEF LimitCleared
<1> QED BY <1>1, <1>2, DatabaseFields

\* lift: the limit is over.
LEMMA LiftFine ==
  ASSUME NEW d \in Database
  PROVE  Fine(d, Lift(d)) /\ Lift(d).intent = d.intent /\ ~Lift(d).q.limited
<1> DEFINE a == FinishContinuation(d)
           b == [a EXCEPT !.q.limited = FALSE, !.q.reset = FALSE]
           c == NoContinuation(b)
           e == NoTimer(c)
           f == Unhold(e)
           g == NewToken(f)
           h == LimitCleared(g)
<1>0. Lift(d) = h BY DEF Lift
<1>1. a \in Database /\ a.intent = d.intent /\ Fine(d, a) BY FinishFine
<1> HIDE DEF a
<1>2. b \in Database /\ b.intent = d.intent /\ Fine(d, b) /\ ~b.q.limited
  <2>1. b \in Database /\ b.intent = a.intent /\ Fine(a, b) /\ ~b.q.limited
    BY <1>1, UnlimitResetFine, Zenon DEF QueueOnly
  <2> QED BY <1>1, <2>1, FineTransitive
<1> HIDE DEF b
<1>3. c \in Database /\ c.intent = d.intent /\ Fine(d, c) /\ ~c.q.limited
  BY <1>2, NoContinuationFine, FineTransitive DEF QueueOnly
<1> HIDE DEF c
<1>4. e \in Database /\ e.intent = d.intent /\ Fine(d, e) /\ ~e.q.limited
  BY <1>3, NoTimerFine, FineTransitive DEF QueueOnly
<1> HIDE DEF e
<1>5. f \in Database /\ f.intent = d.intent /\ Fine(d, f) /\ ~f.q.limited
  BY <1>4, UnholdFine, FineTransitive DEF QueueOnly
<1> HIDE DEF f
<1>6. g \in Database /\ g.intent = d.intent /\ Fine(d, g) /\ ~g.q.limited
  BY <1>5, NewTokenFine, FineTransitive DEF QueueOnly
<1> HIDE DEF g
<1>7. h.intent = d.intent /\ Fine(d, h) /\ ~h.q.limited BY <1>6, LimitClearedFine, FineTransitive
<1> HIDE DEF h
<1> QED BY <1>0, <1>7

\* clearLimit: the limit is over, and the person decides.
LEMMA ClearLimitFine ==
  ASSUME NEW d \in Database
  PROVE  Fine(d, ClearLimit(d))
<1>1. CASE d.q.timer \in {"resume", "snooze"}
  <2> DEFINE e == [d EXCEPT !.q.limited = FALSE, !.q.reset = FALSE]
  <2>1. e \in Database /\ Fine(d, e) BY UnlimitResetFine, Zenon DEF QueueOnly
  <2>2. ClearLimit(d) = LimitCleared(e) BY <1>1 DEF ClearLimit
  <2> HIDE DEF e
  <2> QED BY <2>1, <2>2, LimitClearedFine, FineTransitive
<1>2. CASE d.q.timer \notin {"resume", "snooze"}
  <2> DEFINE e == [d EXCEPT !.q.limited = FALSE, !.q.reset = TRUE, !.q.reason = "manual"]
             f == NoTimer(e)
  <2>1. e \in Database /\ Fine(d, e) BY UnlimitManualFine, Zenon DEF QueueOnly
  <2>2. ClearLimit(d) = LimitCleared(f) BY <1>2 DEF ClearLimit
  <2> HIDE DEF e
  <2>3. f \in Database /\ Fine(d, f) BY <2>1, NoTimerFine, FineTransitive DEF QueueOnly
  <2> HIDE DEF f
  <2> QED BY <2>2, <2>3, LimitClearedFine, FineTransitive
<1> QED BY <1>1, <1>2

\* releaseLimitHold: a message goes past a limit.
LEMMA ReleaseLimitFine ==
  ASSUME NEW d \in Database
  PROVE  Fine(d, ReleaseLimitHold(d))
BY LiftFine, FineSame DEF ReleaseLimitHold

\* releaseInterruptedHold: a message goes past a stopped turn.
LEMMA ReleaseInterruptedFine ==
  ASSUME NEW d \in Database
  PROVE  Fine(d, ReleaseInterruptedHold(d))
<1> DEFINE a == FinishContinuation(d)
           b == NoContinuation(a)
           c == Unhold(b)
           e == NewToken(c)
<1>1. CASE ReleaseInterruptedHold(d) = e /\ ~d.q.limited
  <2>1. a \in Database /\ Fine(d, a) /\ ~a.q.limited BY <1>1, FinishFine
  <2> HIDE DEF a
  <2>2. b \in Database /\ Fine(d, b) /\ ~b.q.limited
    BY <2>1, NoContinuationFine, FineTransitive DEF QueueOnly
  <2> HIDE DEF b
  <2>3. c \in Database /\ Fine(d, c) BY <2>2, UnholdFine, FineTransitive DEF QueueOnly
  <2> HIDE DEF c
  <2>4. Fine(d, e) BY <2>3, NewTokenFine, FineTransitive
  <2> HIDE DEF e
  <2> QED BY <1>1, <2>4
<1>2. CASE ~(ReleaseInterruptedHold(d) = e /\ ~d.q.limited)
  BY <1>2, FineSame DEF ReleaseInterruptedHold
<1> QED BY <1>1, <1>2

\* holdInterrupted: lost work holds the queue.
LEMMA HoldInterruptedFine ==
  ASSUME NEW d \in Database
  PROVE  Fine(d, HoldInterrupted(d))
<1> DEFINE kept == d.q.paused /\ d.q.reason # "none"
           reason == IF kept THEN d.q.reason ELSE "restart"
           trigger == IF d.q.trigger = "none" THEN "restart" ELSE d.q.trigger
           a == Hold(d, reason)
           b == Continuation(a, trigger)
           c == NewToken(b)
<1>1. CASE UncertainContinuation(d) \/ StoppedHold(d) BY <1>1, FineSame DEF HoldInterrupted
<1>2. CASE ~(UncertainContinuation(d) \/ StoppedHold(d))
  <2>1. HoldInterrupted(d) = c BY <1>2 DEF HoldInterrupted
  <2>2. reason \in Reasons /\ trigger \in Triggers BY QueueFields DEF Reasons, Triggers
  <2> HIDE DEF reason, trigger
  <2>3. a \in Database /\ Fine(d, a) BY <2>2, HoldFine DEF QueueOnly
  <2> HIDE DEF a
  <2>4. b \in Database /\ Fine(d, b) BY <2>2, <2>3, ContinuationFine, FineTransitive DEF QueueOnly
  <2> HIDE DEF b
  <2>5. Fine(d, c) BY <2>4, NewTokenFine, FineTransitive
  <2> HIDE DEF c
  <2> QED BY <2>1, <2>5
<1> QED BY <1>1, <1>2

\* captureWith: the continuation of lost work.
LEMMA CaptureFine ==
  ASSUME NEW d \in Database
  PROVE  LET e == Capture(d)
         IN  e \in Database /\ Fine(d, e) /\ e.intent = d.intent
<1>1. "restart" \in Triggers BY DEF Triggers
<1>2. CASE Capture(d) = d BY <1>2, FineSame
<1>3. CASE Capture(d) = Continuation(d, "restart") BY <1>1, <1>3, ContinuationFine DEF QueueOnly
<1> QED BY <1>2, <1>3 DEF Capture

\* observe: a turn ended on quota.
LEMMA LimitReachedFine ==
  ASSUME NEW d \in Database, NEW reset \in BOOLEAN, NEW timer \in Timers, NEW same \in BOOLEAN
  PROVE  Fine(d, LimitReached(d, reset, timer, same))
<1> DEFINE trigger == IF d.q.trigger = "none" THEN "limit_resume" ELSE d.q.trigger
           wait == IF reset THEN timer ELSE "none"
           a == Hold(d, "limit")
           b == NewToken(a)
           q == [b.q EXCEPT !.limited = TRUE, !.reset = reset, !.timer = wait]
           c == [b EXCEPT !.rootLimited = TRUE, !.q = q]
           e == Continuation(c, trigger)
           known == [d EXCEPT !.rootLimited = TRUE]
<1>0. LimitReached(d, reset, timer, same) \in {known, e} BY DEF LimitReached
<1>9. Fine(d, known)
  <2>1. known \in Database /\ known.intent = d.intent BY DEF Database
  <2>2. Marked(d) => Marked(known) BY DEF Marked, Database
  <2> HIDE DEF known
  <2> QED BY <2>1, <2>2, FineRows
<1> HIDE DEF known
<1>1. "limit" \in Reasons /\ trigger \in Triggers /\ wait \in Timers
  BY QueueFields DEF Reasons, Triggers, Timers
<1> HIDE DEF trigger, wait
<1>2. a \in Database /\ Fine(d, a) /\ a.q.paused BY <1>1, HoldFine DEF QueueOnly
<1> HIDE DEF a
<1>3. b \in Database /\ Fine(d, b) /\ b.q.paused BY <1>2, NewTokenFine, FineTransitive DEF QueueOnly
<1> HIDE DEF b
<1>4. q \in Queue /\ q.paused BY <1>1, <1>3, QueueFields DEF Queue, Timers
<1> HIDE DEF q
<1>5. c \in Database /\ c.intent = b.intent /\ c.q = q /\ c.rootLimited BY <1>3, <1>4 DEF Database
<1>6. Marked(c) BY <1>4, <1>5 DEF Marked
<1> HIDE DEF c
<1>7. Fine(d, c) BY <1>3, <1>5, <1>6, FineRows, FineTransitive
<1>8. Fine(d, e) BY <1>1, <1>5, <1>7, ContinuationFine, FineTransitive
<1> HIDE DEF e
<1> QED BY <1>0, <1>8, <1>9

\* observe: a turn completed.
LEMMA TurnCompletedFine ==
  ASSUME NEW d \in Database
  PROVE  Fine(d, TurnCompleted(d))
<1> DEFINE ok == [d EXCEPT !.streak = 0, !.rootLimited = FALSE]
           e == [ok EXCEPT !.q.limited = FALSE]
<1>1. ok \in Database /\ ok.intent = d.intent /\ ok.q = d.q BY DEF Database
<1>2. CASE TurnCompleted(d) = ok /\ ~d.q.limited
  <2>1. Marked(ok) BY <1>1, <1>2 DEF Marked
  <2> HIDE DEF ok
  <2> QED BY <1>1, <1>2, <2>1, FineRows
<1>3. CASE TurnCompleted(d) = Lift(ok)
  <2> HIDE DEF ok
  <2>1. Lift(ok) \in Database /\ Lift(ok).intent = d.intent /\ ~Lift(ok).q.limited
    BY <1>1, LiftFine, FineType
  <2>2. Marked(Lift(ok)) BY <2>1 DEF Marked
  <2> QED BY <1>3, <2>1, <2>2, FineRows
<1>4. CASE TurnCompleted(d) = e
  <2> HIDE DEF ok
  <2>1. e \in Database /\ e.intent = ok.intent /\ ~e.q.limited
    BY <1>1, UnlimitFine, Zenon DEF QueueOnly
  <2> HIDE DEF e
  <2>2. Marked(e) BY <2>1 DEF Marked
  <2> QED BY <1>1, <1>4, <2>1, <2>2, FineRows
<1>5. \/ TurnCompleted(d) = ok /\ ~d.q.limited
      \/ TurnCompleted(d) = Lift(ok) \/ TurnCompleted(d) = e
  <2>1. CASE ~d.q.limited BY <2>1 DEF TurnCompleted
  <2>2. CASE d.q.limited /\ d.q.paused /\ d.q.reason = "limit" /\ ~Recovering(d)
    BY <2>2 DEF TurnCompleted
  <2>3. CASE d.q.limited /\ ~(d.q.paused /\ d.q.reason = "limit" /\ ~Recovering(d))
    BY <2>3 DEF TurnCompleted
  <2> QED BY <2>1, <2>2, <2>3
<1> HIDE DEF ok, e
<1> QED BY <1>2, <1>3, <1>4, <1>5

\* release: a continuation gives its hold back.
LEMMA ReleaseFine ==
  ASSUME NEW d \in Database, NEW token
  PROVE  Fine(d, Release(d, token)) /\ Release(d, token).intent = d.intent
<1> DEFINE a == [d EXCEPT !.q.limited = FALSE]
           b == Unhold(a)
           c == NoTimer(b)
<1>1. CASE Owns(d, token)
  <2>1. Release(d, token) = c BY <1>1 DEF Release
  <2>2. a \in Database /\ Fine(d, a) /\ ~a.q.limited /\ a.intent = d.intent
    BY UnlimitFine, Zenon DEF QueueOnly
  <2> HIDE DEF a
  <2>3. b \in Database /\ Fine(d, b) /\ b.intent = d.intent
    BY <2>2, UnholdFine, FineTransitive DEF QueueOnly
  <2> HIDE DEF b
  <2>4. Fine(d, c) /\ c.intent = d.intent BY <2>3, NoTimerFine, FineTransitive DEF QueueOnly
  <2> HIDE DEF c
  <2> QED BY <2>1, <2>4
<1>2. CASE ~Owns(d, token) BY <1>2, FineSame DEF Release
<1> QED BY <1>1, <1>2

-----------------------------------------------------------------------------
(* Steps on the rows. *)

\* A step that only touches rows, each of them tamely.
LEMMA RowsFine ==
  ASSUME NEW d, NEW e \in Database, RowsOnly(d, e),
         \A i \in Ids : RowTame(d.intent[i], e.intent[i])
  PROVE  Fine(d, e)
BY DEF Fine, Tame, Marked, RowsOnly

\* A step that rewrites one row loosely.
LEMMA RowNear ==
  ASSUME NEW d, NEW e \in Database, RowsOnly(d, e), NEW i,
         \A j \in Ids \ {i} : e.intent[j] = d.intent[j], RowLoose(d.intent[i], e.intent[i])
  PROVE  Near(d, e, i)
<1>1. Marked(d) => Marked(e) BY DEF Marked, RowsOnly
<1>2. \A j \in Ids \ {i} : RowTame(d.intent[j], e.intent[j]) BY TameSame
<1>3. \A j \in Ids : RowLoose(d.intent[j], e.intent[j]) BY <1>2 DEF RowTame
<1> QED BY <1>1, <1>2, <1>3 DEF Near

\* What a row must be to get a status.
MayMark(r, status) ==
  /\ r.kind # "none"
  /\ status = "failed" \/ ~r.uncertain
  /\ status \in WaitingStates => r.status \in WaitingStates

\* mark: a row that waits.
LEMMA MarkFine ==
  ASSUME NEW d \in Database, NEW S, NEW status \in Statuses,
         \A i \in Ids \cap S : MayMark(d.intent[i], status) /\ d.intent[i].status \in WaitingStates
  PROVE  Fine(d, Mark(d, S, status)) /\ Mark(d, S, status).q = d.q
<1> DEFINE e == Mark(d, S, status)
<1>1. e \in Database /\ RowsOnly(d, e) BY MarkRows
<1>2. ASSUME NEW i \in Ids PROVE RowTame(d.intent[i], e.intent[i])
  <2>1. CASE i \in S
    <3> DEFINE r == d.intent[i]
               r2 == e.intent[i]
    <3>1. /\ r2.status = status /\ r2.kind = r.kind /\ r2.uncertain = r.uncertain
          /\ r2.sub = r.sub /\ (r2.awaiting => r.awaiting)
      BY <2>1, MarkRows
    <3>2. MayMark(r, status) /\ r.status \in WaitingStates BY <2>1
    <3> HIDE DEF r, r2
    <3>3. RowTame(r, r2)
      BY <3>1, <3>2 DEF RowTame, RowLoose, RowSteady, Spent, Quiet, RowInv, MayMark, WaitingStates
    <3> QED BY <3>3 DEF r, r2
  <2>2. CASE i \notin S BY <2>2, MarkRows, TameSame
  <2> QED BY <2>1, <2>2
<1> HIDE DEF e
<1>3. Fine(d, e) BY <1>1, <1>2, RowsFine
<1> QED BY <1>1, <1>3 DEF e, RowsOnly

\* mark: the row of a lane.
LEMMA MarkNear ==
  ASSUME NEW d \in Database, NEW i \in Ids, NEW status \in Statuses, MayMark(d.intent[i], status)
  PROVE  Near(d, Mark(d, {i}, status), i)
<1> DEFINE e == Mark(d, {i}, status)
           r == d.intent[i]
           r2 == e.intent[i]
<1>1. e \in Database /\ RowsOnly(d, e) /\ \A j \in Ids \ {i} : e.intent[j] = d.intent[j] BY MarkRows
<1>2. /\ r2.status = status /\ r2.kind = r.kind /\ r2.uncertain = r.uncertain
      /\ r2.sub = r.sub /\ (r2.awaiting => r.awaiting)
  BY MarkRows
<1>3. RowLoose(r, r2)
  <2> HIDE DEF r, r2
  <2>1. MayMark(r, status) BY DEF r
  <2> QED BY <1>2, <2>1 DEF RowLoose, RowInv, MayMark, WaitingStates
<1> HIDE DEF e, r, r2
<1>4. Near(d, e, i) BY <1>1, <1>3, RowNear DEF r, r2
<1> QED BY <1>4 DEF e

\* markUncertain, then mark: a submitted row is given up as of unknown fate.
LEMMA LoseFine ==
  ASSUME NEW d \in Database, NEW S, \A i \in Ids \cap S : d.intent[i].sub # 0 /\ d.intent[i].awaiting
  PROVE  LET e == Mark(MarkUncertain(d, S), S, "failed")
         IN  Fine(d, e) /\ e.q = d.q
<1> DEFINE m == MarkUncertain(d, S)
           e == Mark(m, S, "failed")
<1>0. "failed" \in Statuses BY DEF Statuses
<1>1. m \in Database /\ RowsOnly(d, m) BY UncertainRows
<1>2. ASSUME NEW i \in Ids \cap S
      PROVE  LET r == d.intent[i]
                 r2 == m.intent[i]
             IN  r2.uncertain /\ r2.kind = r.kind /\ r2.sub = r.sub
  BY <1>2, UncertainRows
<1>3. \A i \in Ids \ S : m.intent[i] = d.intent[i] BY UncertainRows
<1> HIDE DEF m
<1>4. e \in Database /\ RowsOnly(m, e) BY <1>0, <1>1, MarkRows
<1>5. RowsOnly(d, e) BY <1>1, <1>4 DEF RowsOnly
<1>6. ASSUME NEW i \in Ids PROVE RowTame(d.intent[i], e.intent[i])
  <2>1. CASE i \in S
    <3> DEFINE r == d.intent[i]
               r2 == e.intent[i]
    <3>1. r2.status = "failed" /\ r2.kind = r.kind /\ r2.uncertain /\ r2.sub = r.sub
      BY <1>0, <1>1, <1>2, <2>1, MarkRows
    <3>2. r.sub # 0 /\ r.awaiting BY <2>1
    <3> HIDE DEF r, r2
    <3>3. RowTame(r, r2) BY <3>1, <3>2 DEF RowTame, RowLoose, RowSteady, Spent, Quiet, RowInv, WaitingStates
    <3> QED BY <3>3 DEF r, r2
  <2>2. CASE i \notin S
    <3>1. e.intent[i] = d.intent[i] BY <1>0, <1>1, <1>3, <2>2, MarkRows
    <3> QED BY <3>1, TameSame
  <2> QED BY <2>1, <2>2
<1> HIDE DEF e
<1>7. Fine(d, e) BY <1>4, <1>5, <1>6, RowsFine
<1> QED BY <1>5, <1>7 DEF e, m, RowsOnly

\* The row of a lane, when its delivery failed after it was submitted.
LEMMA LoseNear ==
  ASSUME NEW d \in Database, NEW i \in Ids, d.intent[i].sub # 0
  PROVE  LET e == Mark(MarkUncertain(d, {i}), {i}, "failed")
         IN  e \in Database /\ Near(d, e, i) /\ e.intent[i].status = "failed" /\ e.intent[i].sub # 0
<1> DEFINE m == MarkUncertain(d, {i})
           e == Mark(m, {i}, "failed")
           r == d.intent[i]
           r2 == e.intent[i]
<1>0. "failed" \in Statuses BY DEF Statuses
<1>1. m \in Database /\ RowsOnly(d, m) /\ \A j \in Ids \ {i} : m.intent[j] = d.intent[j]
  BY UncertainRows
<1>2. m.intent[i].uncertain /\ m.intent[i].kind = r.kind /\ m.intent[i].sub = r.sub BY UncertainRows
<1> HIDE DEF m
<1>3. e \in Database /\ RowsOnly(m, e) /\ \A j \in Ids \ {i} : e.intent[j] = m.intent[j]
  BY <1>0, <1>1, MarkRows
<1>4. r2.status = "failed" /\ r2.kind = r.kind /\ r2.uncertain /\ r2.sub = r.sub
  BY <1>0, <1>1, <1>2, MarkRows
<1>5. RowsOnly(d, e) /\ \A j \in Ids \ {i} : e.intent[j] = d.intent[j] BY <1>1, <1>3 DEF RowsOnly
<1>6. RowLoose(r, r2)
  <2>1. r.sub # 0 OBVIOUS
  <2> HIDE DEF r, r2
  <2> QED BY <1>4, <2>1 DEF RowLoose, RowInv, WaitingStates
<1>7. r2.sub # 0 BY <1>4
<1> HIDE DEF e
<1>8. Near(d, e, i) BY <1>3, <1>5, <1>6, RowNear
<1> QED BY <1>3, <1>4, <1>7, <1>8 DEF e, m

\* The ack of a turn that started.
LEMMA AckFine ==
  ASSUME NEW d \in Database, NEW S
  PROVE  Fine(d, Acknowledge(d, S)) /\ Acknowledge(d, S).q = d.q
<1> DEFINE e == Acknowledge(d, S)
<1>1. e \in Database /\ RowsOnly(d, e) BY AckRows
<1>2. ASSUME NEW i \in Ids PROVE RowTame(d.intent[i], e.intent[i])
  <2>1. CASE i \in S
    <3> DEFINE r == d.intent[i]
               r2 == e.intent[i]
    <3>1. /\ r2.status = r.status /\ r2.kind = r.kind /\ r2.uncertain = r.uncertain
          /\ r2.sub = r.sub /\ ~r2.awaiting
      BY <2>1, AckRows
    <3> HIDE DEF r, r2
    <3>3. RowTame(r, r2) BY <3>1 DEF RowTame, RowLoose, RowSteady, Spent, Quiet, RowInv
    <3> QED BY <3>3 DEF r, r2
  <2>2. CASE i \notin S BY <2>2, AckRows, TameSame
  <2> QED BY <2>1, <2>2
<1> HIDE DEF e
<1>3. Fine(d, e) BY <1>1, <1>2, RowsFine
<1> QED BY <1>1, <1>3 DEF e, RowsOnly

\* The correlated ack of one input.
LEMMA ConfirmFine ==
  ASSUME NEW d \in Database, NEW j
  PROVE  Fine(d, Confirm(d, j)) /\ Confirm(d, j).q = d.q
<1> DEFINE e == Confirm(d, j)
<1>1. e \in Database /\ RowsOnly(d, e) BY ConfirmRows
<1>2. ASSUME NEW i \in Ids PROVE RowTame(d.intent[i], e.intent[i])
  <2>1. CASE i = j
    <3> DEFINE r == d.intent[i]
               r2 == e.intent[i]
    <3>1. /\ r2.status = (IF r.uncertain THEN "done" ELSE r.status) /\ r2.kind = r.kind
          /\ ~r2.uncertain /\ r2.sub = r.sub /\ ~r2.awaiting
      BY <2>1, ConfirmRows
    <3> HIDE DEF r, r2
    <3>3. RowTame(r, r2) BY <3>1 DEF RowTame, RowLoose, RowSteady, Spent, Quiet, RowInv, WaitingStates
    <3> QED BY <3>3 DEF r, r2
  <2>2. CASE i # j BY <2>2, ConfirmRows, TameSame
  <2> QED BY <2>1, <2>2
<1> HIDE DEF e
<1>3. Fine(d, e) BY <1>1, <1>2, RowsFine
<1> QED BY <1>1, <1>3 DEF e, RowsOnly

-----------------------------------------------------------------------------
(* Provider facts. *)

\* A hold on an input of unknown fate ends with the last of them.
LEMMA ReleaseConfirmedFine ==
  ASSUME NEW d \in Database
  PROVE  Fine(d, ReleaseConfirmedHold(d))
<1>1. CASE d.q.reason = "uncertain" /\ UncertainOf(d) = {} /\ ~d.q.limited /\ ~d.q.cont
  <2>1. ReleaseConfirmedHold(d) = Unhold(d) BY <1>1 DEF ReleaseConfirmedHold
  <2> QED BY <1>1, <2>1, UnholdFine
<1>2. CASE ~(d.q.reason = "uncertain" /\ UncertainOf(d) = {} /\ ~d.q.limited /\ ~d.q.cont)
  BY <1>2, FineSame DEF ReleaseConfirmedHold
<1> QED BY <1>1, <1>2

\* input.admitted.
LEMMA InputAdmittedFine ==
  ASSUME NEW d \in Database, NEW i
  PROVE  Fine(d, InputAdmitted(d, i))
<1> DEFINE a == [d EXCEPT !.admits = TRUE]
           b == Confirm(a, i)
           c == ReleaseConfirmedHold(b)
<1>0. InputAdmitted(d, i) = c \/ InputAdmitted(d, i) = a BY DEF InputAdmitted
<1>1. a \in Database /\ Fine(d, a) BY AdmitsFine, Zenon
<1> HIDE DEF a
<1>2. b \in Database /\ Fine(d, b) BY <1>1, ConfirmFine, FineTransitive, FineType
<1> HIDE DEF b
<1>3. Fine(d, c) BY <1>2, ReleaseConfirmedFine, FineTransitive
<1> HIDE DEF c
<1> QED BY <1>0, <1>1, <1>3

\* A root turn started.
LEMMA TurnStartedFine ==
  ASSUME NEW d \in Database, NEW woke
  PROVE  Fine(d, TurnStarted(d, woke))
<1> DEFINE continued == d.q.trigger # "none" /\ RecoveryAcknowledgement(d)
           started == [d EXCEPT !.run = TRUE, !.hasRun = TRUE]
           acks == ~d.admits /\ (continued \/ ~woke)
           taken == {i \in Awaiting(d) : acks /\ d.intent[i].target = d.intent[Min(Awaiting(d))].target}
           confirms == /\ acks /\ Awaiting(d) = {}
                       /\ UncertainContinuation(d) /\ d.intent[d.root].sub # 0
           acked == IF confirms THEN Confirm(started, d.root) ELSE Acknowledge(started, taken)
           none == NoContinuation(acked)
           over == FinishContinuation(none)
           after == IF continued THEN over ELSE acked
           last == ReleaseConfirmedHold(after)
<1>0. TurnStarted(d, woke) = IF taken # {} \/ confirms \/ continued THEN last ELSE after
  BY DEF TurnStarted
<1>1. started \in Database /\ Fine(d, started) BY StartFine, Zenon
<1> HIDE DEF continued, started, acks, taken, confirms
<1>2. Fine(started, Confirm(started, d.root)) /\ Fine(started, Acknowledge(started, taken))
  BY <1>1, ConfirmFine, AckFine
<1>3. acked \in Database /\ Fine(d, acked)
  <2>1. Fine(started, acked) BY <1>2
  <2> HIDE DEF acked
  <2> QED BY <1>1, <2>1, FineTransitive, FineType
<1> HIDE DEF acked
<1>4. none \in Database /\ Fine(d, none)
  BY <1>3, NoContinuationFine, FineTransitive, FineType
<1> HIDE DEF none
<1>5. over \in Database /\ Fine(d, over) BY <1>4, FinishFine, FineTransitive
<1> HIDE DEF over
<1>6. after \in Database /\ Fine(d, after) BY <1>3, <1>5
<1> HIDE DEF after
<1>7. Fine(d, last) BY <1>6, ReleaseConfirmedFine, FineTransitive
<1> HIDE DEF last
<1> QED BY <1>0, <1>6, <1>7

\* A root turn ended.
LEMMA TurnEndedFine ==
  ASSUME NEW d \in Database, NEW generation
  PROVE  TurnEnded(d, generation) \in Database /\ Fine(d, TurnEnded(d, generation))
<1> DEFINE a == [d EXCEPT !.run = FALSE]
           b == RetireEndedTurnInputs(a, generation)
<1>0. TurnEnded(d, generation) = b BY DEF TurnEnded
<1>1. a \in Database /\ Fine(d, a) BY RunFine, Zenon
<1> HIDE DEF a
<1>2. Fine(d, b) BY <1>1, RetireEndedFine, FineTransitive
<1> HIDE DEF b
<1> QED BY <1>0, <1>2, FineType

\* expire: a session is over that took inputs without confirming them.
LEMMA ExpireFine ==
  ASSUME NEW d \in Database, NEW generation \in Nat \ {0}
  PROVE  Fine(d, Expire(d, generation))
<1> DEFINE drops == RecoveryAcknowledgement(d) /\ ~UnconfirmedContinuation(d)
           a == Capture(d)
           b == FinishContinuation(a)
           reason == IF b.q.limited THEN "limit" ELSE "restart"
           c == Hold(b, reason)
           e == NewToken(c)
           held == IF drops THEN e ELSE d
           lost == {i \in Awaiting(held) : held.intent[i].sub = generation /\ ~held.intent[i].acked}
           f == Mark(MarkUncertain(held, lost), lost, "failed")
           g == Hold(f, "uncertain")
<1>0. Expire(d, generation) = IF lost = {} THEN held ELSE g BY DEF Expire
<1>1. a \in Database /\ Fine(d, a) BY CaptureFine
<1> HIDE DEF a, drops
<1>2. b \in Database /\ Fine(d, b) BY <1>1, FinishFine, FineTransitive
<1> HIDE DEF b
<1>3. reason \in Reasons /\ "uncertain" \in Reasons BY DEF Reasons
<1> HIDE DEF reason
<1>4. c \in Database /\ Fine(d, c) BY <1>2, <1>3, HoldFine, FineTransitive, FineType
<1> HIDE DEF c
<1>5. e \in Database /\ Fine(d, e) BY <1>4, NewTokenFine, FineTransitive, FineType
<1> HIDE DEF e
<1>6. held \in Database /\ Fine(d, held) BY <1>5, FineSame
<1> HIDE DEF held
<1>7. \A i \in Ids \cap lost : held.intent[i].sub # 0 /\ held.intent[i].awaiting BY DEF Awaiting
<1> HIDE DEF lost
<1>8. f \in Database /\ Fine(d, f) BY <1>6, <1>7, LoseFine, FineTransitive, FineType
<1> HIDE DEF f
<1>9. Fine(d, g) BY <1>3, <1>8, HoldFine, FineTransitive
<1> HIDE DEF g
<1> QED BY <1>0, <1>6, <1>9

\* session.exited.
LEMMA SessionExitedFine ==
  ASSUME NEW d \in Database, NEW generation \in Nat \ {0}, NEW deliberate
  PROVE  Fine(d, SessionExited(d, generation, deliberate))
<1> DEFINE a == Expire(d, generation)
           b == [a EXCEPT !.run = FALSE]
           c == HoldInterrupted(b)
<1>0. SessionExited(d, generation, deliberate) = c \/ SessionExited(d, generation, deliberate) = b
  BY DEF SessionExited
<1>1. a \in Database /\ Fine(d, a) BY ExpireFine, FineType
<1> HIDE DEF a
<1>2. b \in Database /\ Fine(d, b)
  <2>1. b \in Database /\ Fine(a, b) BY <1>1, RunFine, Zenon
  <2> HIDE DEF b
  <2> QED BY <1>1, <2>1, FineTransitive
<1> HIDE DEF b
<1>3. Fine(d, c) BY <1>2, HoldInterruptedFine, FineTransitive
<1> HIDE DEF c
<1> QED BY <1>0, <1>2, <1>3

-----------------------------------------------------------------------------
(* Steps that may also add a row, and steps that may put one back. *)

\* As RowTame, for a row that may have been free.
RowGrown(r, r2) ==
  /\ r.kind # "none" => r2.kind = r.kind
  /\ r2.status \in WaitingStates => r.status \in WaitingStates \/ r.kind = "none"
  /\ RowInv(r) => RowInv(r2) /\ RowSteady(r, r2)
  /\ (r.uncertain => r.status = "failed") => (r2.uncertain => r2.status = "failed")

Grown(d, d2) ==
  /\ d2 \in Database /\ \A i \in Ids : RowGrown(d.intent[i], d2.intent[i])
  /\ Marked(d) => Marked(d2)

\* What every step does to a sound database.
Kept(d, d2) ==
  /\ Sound(d2)
  /\ \A i \in Ids : /\ d.intent[i].kind # "none" => d2.intent[i].kind = d.intent[i].kind
                    /\ d.intent[i].uncertain => d2.intent[i].status \notin WaitingStates

\* What every step does but the ones of a startup.
Good(d, d2) ==
  /\ Kept(d, d2) /\ (Settled(d) => Settled(d2))
  /\ \A i \in Ids : d.intent[i].kind = "resume" /\ d2.intent[i].status \in WaitingStates
                     => d.intent[i].status \in WaitingStates

\* A fine step adds nothing.
LEMMA FineGrown ==
  ASSUME NEW d, NEW d2, Fine(d, d2)
  PROVE  Grown(d, d2) /\ Unused(d2) = Unused(d)
<1>1. ASSUME NEW i \in Ids PROVE RowTame(d.intent[i], d2.intent[i]) BY DEF Fine, Tame
<1>2. ASSUME NEW i \in Ids PROVE RowGrown(d.intent[i], d2.intent[i])
  BY <1>1 DEF RowTame, RowLoose, RowGrown
<1>3. \A i \in Ids : d.intent[i].kind = d2.intent[i].kind BY <1>1 DEF RowTame, RowLoose
<1> QED BY <1>2, <1>3 DEF Fine, Tame, Grown, Unused

\* Such steps compose.
LEMMA GrownTransitive ==
  ASSUME NEW d, NEW d2, NEW d3, Grown(d, d2), Grown(d2, d3)
  PROVE  Grown(d, d3)
<1>1. ASSUME NEW i \in Ids PROVE RowGrown(d.intent[i], d3.intent[i])
  <2>1. RowGrown(d.intent[i], d2.intent[i]) /\ RowGrown(d2.intent[i], d3.intent[i]) BY DEF Grown
  <2> QED BY <2>1 DEF RowGrown, RowSteady
<1> QED BY <1>1 DEF Grown

\* They are good.
LEMMA GrownGood ==
  ASSUME NEW d, NEW d2, Sound(d), Grown(d, d2)
  PROVE  Good(d, d2)
<1>1. ASSUME NEW i \in Ids
      PROVE  /\ RowInv(d2.intent[i])
             /\ d.intent[i].kind # "none" => d2.intent[i].kind = d.intent[i].kind
             /\ d.intent[i].uncertain => d2.intent[i].status \notin WaitingStates
             /\ d.intent[i].kind = "resume" /\ d2.intent[i].status \in WaitingStates
                  => d.intent[i].status \in WaitingStates
             /\ (d.intent[i].uncertain => d.intent[i].status = "failed")
                  => (d2.intent[i].uncertain => d2.intent[i].status = "failed")
  <2>1. RowInv(d.intent[i]) /\ RowGrown(d.intent[i], d2.intent[i]) BY DEF Sound, Grown
  <2> QED BY <2>1 DEF RowInv, RowGrown
<1>2. Settled(d) => Settled(d2) BY <1>1 DEF Settled
<1>3. Sound(d2) BY <1>1 DEF Sound, Grown
<1> QED BY <1>1, <1>2, <1>3 DEF Good, Kept

\* A fine step is good.
LEMMA FineGood ==
  ASSUME NEW d, NEW d2, Sound(d), Fine(d, d2)
  PROVE  Good(d, d2)
BY FineGrown, GrownGood

\* So is a step near a lane's row.
LEMMA NearGood ==
  ASSUME NEW d, NEW d2, NEW i, Sound(d), Near(d, d2, i)
  PROVE  Good(d, d2)
<1>1. ASSUME NEW j \in Ids
      PROVE  /\ RowInv(d2.intent[j])
             /\ d.intent[j].kind # "none" => d2.intent[j].kind = d.intent[j].kind
             /\ d.intent[j].uncertain => d2.intent[j].status \notin WaitingStates
             /\ d.intent[j].kind = "resume" /\ d2.intent[j].status \in WaitingStates
                  => d.intent[j].status \in WaitingStates
             /\ (d.intent[j].uncertain => d.intent[j].status = "failed")
                  => (d2.intent[j].uncertain => d2.intent[j].status = "failed")
  <2>1. RowInv(d.intent[j]) /\ RowLoose(d.intent[j], d2.intent[j]) BY DEF Sound, Near
  <2> QED BY <2>1 DEF RowInv, RowLoose
<1>2. Settled(d) => Settled(d2) BY <1>1 DEF Settled
<1>3. Sound(d2) BY <1>1 DEF Sound, Near
<1> QED BY <1>1, <1>2, <1>3 DEF Good, Kept

\* A fine step after another.
LEMMA KeptThenFine ==
  ASSUME NEW d, NEW d2, NEW d3, Kept(d, d2), Fine(d2, d3)
  PROVE  Kept(d, d3)
<1>1. Sound(d3) BY FineSound DEF Kept
<1>2. ASSUME NEW i \in Ids
      PROVE  /\ d.intent[i].kind # "none" => d3.intent[i].kind = d.intent[i].kind
             /\ d.intent[i].uncertain => d3.intent[i].status \notin WaitingStates
  <2>1. RowTame(d2.intent[i], d3.intent[i]) BY DEF Fine, Tame
  <2> QED BY <2>1 DEF RowTame, RowLoose, Kept
<1> QED BY <1>1, <1>2 DEF Kept

\* And after a good one.
LEMMA GoodThenFine ==
  ASSUME NEW d, NEW d2, NEW d3, Good(d, d2), Fine(d2, d3)
  PROVE  Good(d, d3)
<1>1. Kept(d, d3) BY KeptThenFine DEF Good
<1>2. Settled(d2) => Settled(d3) BY FineSound DEF Good, Kept
<1>3. ASSUME NEW i \in Ids, d.intent[i].kind = "resume", d3.intent[i].status \in WaitingStates
      PROVE  d.intent[i].status \in WaitingStates
  <2>1. RowTame(d2.intent[i], d3.intent[i]) BY DEF Fine, Tame
  <2> QED BY <1>3, <2>1 DEF RowTame, RowLoose, Good
<1> QED BY <1>1, <1>2, <1>3 DEF Good

\* create: a new row.
LEMMA AddGrown ==
  ASSUME NEW d \in Database, Unused(d) # {}, NEW kind \in {"send", "resume"}, NEW steer \in BOOLEAN
  PROVE  LET e == Add(d, kind, steer)
         IN  e \in Database /\ Grown(d, e) /\ e.q = d.q /\ e.rootLimited = d.rootLimited
<1> DEFINE j == Min(Unused(d))
           p == Position(d)
           new == [NoIntent EXCEPT !.kind = kind, !.steer = steer, !.status = "pending", !.pos = p]
           f == [d.intent EXCEPT ![j] = new]
           e == [d EXCEPT !.intent = f]
<1>0. Add(d, kind, steer) = e BY DEF Add
<1>1. j \in Ids /\ d.intent[j].kind = "none"
  <2>1. Unused(d) \subseteq Nat BY IdFacts DEF Unused
  <2>2. j \in Unused(d) BY <2>1, MinIn
  <2> HIDE DEF j
  <2> QED BY <2>2 DEF Unused
<1>2. p \in Nat BY PositionType
<1> HIDE DEF j, p
<1>3. /\ new \in Intent /\ new.kind = kind /\ new.status = "pending"
      /\ new.uncertain = FALSE /\ new.awaiting = FALSE
  <2>1. 0 \in 0..MaxIntents /\ 0 \in Nat BY IdFacts
  <2>2. NoIntent \in Intent BY <2>1 DEF Intent, NoIntent
  <2>3. ASSUME NEW r \in Intent
        PROVE  LET r2 == [r EXCEPT !.kind = kind, !.steer = steer, !.status = "pending", !.pos = p]
               IN  /\ r2 \in Intent /\ r2.kind = kind /\ r2.status = "pending"
                   /\ r2.uncertain = r.uncertain /\ r2.awaiting = r.awaiting
    BY <1>2 DEF Intent
  <2>4. NoIntent.uncertain = FALSE /\ NoIntent.awaiting = FALSE BY DEF NoIntent
  <2> QED BY <2>2, <2>3, <2>4, Zenon
<1>4. RowInv(new) BY <1>3 DEF RowInv
<1> HIDE DEF new
<1>5. f \in [Ids -> Intent] /\ f[j] = new /\ \A i \in Ids : i # j => f[i] = d.intent[i]
  BY <1>1, <1>3, DatabaseFields
<1> HIDE DEF f
<1>6. e \in Database /\ e.intent = f /\ RowsOnly(d, e) BY <1>5, Rewritten
<1>7. ASSUME NEW i \in Ids PROVE RowGrown(d.intent[i], e.intent[i])
  <2>1. CASE i = j
    <3>1. e.intent[i] = new BY <1>5, <1>6, <2>1
    <3> QED BY <1>1, <1>3, <1>4, <2>1, <3>1 DEF RowGrown, RowSteady, RowInv, Spent, Quiet
  <2>2. CASE i # j
    <3>1. e.intent[i] = d.intent[i] BY <1>5, <1>6, <2>2
    <3> QED BY <3>1 DEF RowGrown, RowSteady
  <2> QED BY <2>1, <2>2
<1>8. Marked(d) => Marked(e) BY <1>6 DEF Marked, RowsOnly
<1> HIDE DEF e
<1> QED BY <1>0, <1>6, <1>7, <1>8 DEF Grown, RowsOnly

-----------------------------------------------------------------------------
(* Commands the person sends. *)

\* thread.send.
LEMMA AdmitSendGrown ==
  ASSUME NEW d \in Database, Unused(d) # {}, NEW steer \in BOOLEAN
  PROVE  Grown(d, AdmitSend(d, steer))
<1> DEFINE a == [d EXCEPT !.streak = 0]
           b == RetireUncertainInputs(a)
           c == ReleaseInterruptedHold(b)
           e == ReleaseLimitHold(c)
           f == Add(e, "send", steer)
<1>0. AdmitSend(d, steer) = f BY DEF AdmitSend
<1>1. a \in Database /\ Fine(d, a)
  <2>1. 0 \in Nat OBVIOUS
  <2> QED BY <2>1, StreakFine, Zenon
<1> HIDE DEF a
<1>2. b \in Database /\ Fine(d, b) BY <1>1, RetireUncertainFine, FineTransitive, FineType
<1> HIDE DEF b
<1>3. c \in Database /\ Fine(d, c) BY <1>2, ReleaseInterruptedFine, FineTransitive, FineType
<1> HIDE DEF c
<1>4. e \in Database /\ Fine(d, e) BY <1>3, ReleaseLimitFine, FineTransitive, FineType
<1> HIDE DEF e
<1>5. Grown(d, e) /\ Unused(e) # {} BY <1>4, FineGrown
<1>6. Grown(e, f) BY <1>4, <1>5, AddGrown
<1> HIDE DEF f
<1> QED BY <1>0, <1>5, <1>6, GrownTransitive

\* cancelPending: what is certainly unsent goes back, the rest is cancelled.
LEMMA CancelPendingGood ==
  ASSUME NEW d, Sound(d)
  PROVE  CancelPending(d) \in Database /\ Good(d, CancelPending(d))
<1> DEFINE taken == {i \in Ids : /\ d.intent[i].kind = "send"
                                 /\ d.intent[i].status = "running" \/ d.intent[i].awaiting}
           unsent == {i \in taken : d.intent[i].sub = 0 /\ ~d.intent[i].acked}
           gone == WaitingOf(d, "resume") \cup (taken \ unsent)
           c == Cancel(d, gone)
           e == Defer(c, unsent)
<1>0. CancelPending(d) = e BY DEF CancelPending
<1>1. d \in Database BY DEF Sound
<1>2. \A i \in unsent : i \notin gone /\ d.intent[i].kind = "send" /\ d.intent[i].sub = 0
  BY DEF WaitingOf
<1>3. \A i \in gone : d.intent[i].kind # "none" BY DEF WaitingOf
<1> HIDE DEF gone, unsent
<1>4. c \in Database /\ RowsOnly(d, c) /\ \A i \in Ids \ gone : c.intent[i] = d.intent[i]
  BY <1>1, CancelRows
<1>5. ASSUME NEW i \in Ids \cap gone
      PROVE  LET r == d.intent[i]
                 r2 == c.intent[i]
             IN  /\ r2.status = "failed" /\ ~r2.awaiting /\ r2.kind = r.kind
                 /\ r2.uncertain = r.uncertain /\ r2.sub = r.sub
  BY <1>1, <1>5, CancelRows
<1> HIDE DEF c
<1>6. e \in Database /\ RowsOnly(c, e) /\ \A i \in Ids \ unsent : e.intent[i] = c.intent[i]
  BY <1>4, DeferRows
<1>7. ASSUME NEW i \in Ids \cap unsent
      PROVE  LET r == c.intent[i]
                 r2 == e.intent[i]
             IN  r2.status = "queued" /\ ~r2.uncertain /\ ~r2.awaiting /\ r2.kind = r.kind
  BY <1>4, <1>7, DeferRows
<1> HIDE DEF e
<1>8. ASSUME NEW i \in Ids
      PROVE  /\ RowInv(e.intent[i])
             /\ d.intent[i].kind # "none" => e.intent[i].kind = d.intent[i].kind
             /\ d.intent[i].uncertain => e.intent[i].status \notin WaitingStates
             /\ d.intent[i].kind = "resume" /\ e.intent[i].status \in WaitingStates
                  => d.intent[i].status \in WaitingStates
             /\ (d.intent[i].uncertain => d.intent[i].status = "failed")
                  => (e.intent[i].uncertain => e.intent[i].status = "failed")
  <2>0. RowInv(d.intent[i]) BY DEF Sound
  <2>1. CASE i \in unsent
    <3>1. c.intent[i] = d.intent[i] BY <1>2, <1>4, <2>1
    <3>2. ~e.intent[i].uncertain /\ ~e.intent[i].awaiting /\ e.intent[i].kind = d.intent[i].kind
      BY <1>7, <2>1, <3>1
    <3>3. ~d.intent[i].uncertain /\ d.intent[i].kind = "send" BY <1>2, <2>0, <2>1 DEF RowInv
    <3> QED BY <3>2, <3>3 DEF RowInv
  <2>2. CASE i \in gone /\ i \notin unsent
    <3>1. e.intent[i] = c.intent[i] BY <1>6, <2>2
    <3>2. /\ c.intent[i].status = "failed" /\ c.intent[i].kind = d.intent[i].kind
          /\ c.intent[i].uncertain = d.intent[i].uncertain /\ c.intent[i].sub = d.intent[i].sub
          /\ d.intent[i].kind # "none"
      BY <1>3, <1>5, <2>2
    <3> QED BY <2>0, <3>1, <3>2 DEF RowInv, WaitingStates
  <2>3. CASE i \notin gone /\ i \notin unsent
    <3>1. e.intent[i] = d.intent[i] BY <1>4, <1>6, <2>3
    <3> QED BY <2>0, <3>1 DEF RowInv
  <2> QED BY <2>1, <2>2, <2>3
<1>9. Marked(e) BY <1>4, <1>6 DEF Sound, Marked, RowsOnly
<1>10. Sound(e) BY <1>6, <1>8, <1>9 DEF Sound
<1>11. Settled(d) => Settled(e) BY <1>8 DEF Settled
<1> QED BY <1>0, <1>6, <1>8, <1>10, <1>11 DEF Good, Kept

\* thread.interrupt.
LEMMA StopThreadGood ==
  ASSUME NEW d, Sound(d)
  PROVE  Good(d, StopThread(d))
<1> DEFINE a == CancelPending(d)
           b == Hold(a, "stopped")
           c == NewToken(b)
           e == NoTimer(c)
           q == [e.q EXCEPT !.limited = FALSE, !.reset = FALSE]
           f == [e EXCEPT !.q = q, !.rootLimited = FALSE]
<1>0. StopThread(d) = f
  <2>1. StopThread(d) = [e EXCEPT !.q.limited = FALSE, !.q.reset = FALSE, !.rootLimited = FALSE]
    BY DEF StopThread
  <2> HIDE DEF e
  <2> QED BY <2>1
<1>1. a \in Database /\ Good(d, a) BY CancelPendingGood
<1> HIDE DEF a
<1>2. b \in Database /\ Fine(a, b)
  <2>1. "stopped" \in Reasons BY DEF Reasons
  <2> QED BY <1>1, <2>1, HoldFine, FineType
<1> HIDE DEF b
<1>3. c \in Database /\ Fine(a, c) BY <1>2, NewTokenFine, FineTransitive, FineType
<1> HIDE DEF c
<1>4. e \in Database /\ Fine(a, e) BY <1>3, NoTimerFine, FineTransitive, FineType
<1> HIDE DEF e
<1>5. q \in Queue /\ ~q.limited BY <1>4, QueueFields DEF Queue
<1> HIDE DEF q
<1>6. f \in Database /\ f.intent = e.intent /\ f.q = q BY <1>4, <1>5 DEF Database
<1>7. Marked(f) BY <1>5, <1>6 DEF Marked
<1> HIDE DEF f
<1>8. Fine(a, f) BY <1>4, <1>6, <1>7, FineRows, FineTransitive
<1> QED BY <1>0, <1>1, <1>8, GoodThenFine

\* queue.pause.
LEMMA PauseFine ==
  ASSUME NEW d \in Database
  PROVE  Fine(d, PauseQueue(d))
<1> DEFINE resumes == {i \in WaitingOf(d, "resume") : d.intent[i].status = "pending"}
           a == Mark(d, resumes, "failed")
           b == Hold(a, "manual")
           c == NewToken(b)
           e == NoTimer(c)
           w == e.q.reset /\ d.q.limited
           f == [e EXCEPT !.q.reset = w]
<1>0. PauseQueue(d) = f BY DEF PauseQueue
<1>1. a \in Database /\ Fine(d, a)
  <2>1. "failed" \in Statuses BY DEF Statuses
  <2>2. \A i \in Ids \cap resumes :
          MayMark(d.intent[i], "failed") /\ d.intent[i].status \in WaitingStates
    BY DEF WaitingOf, MayMark, WaitingStates
  <2> HIDE DEF resumes
  <2> QED BY <2>1, <2>2, MarkFine, FineType
<1> HIDE DEF a
<1>2. b \in Database /\ Fine(d, b)
  <2>1. "manual" \in Reasons BY DEF Reasons
  <2> QED BY <1>1, <2>1, HoldFine, FineTransitive, FineType
<1> HIDE DEF b
<1>3. c \in Database /\ Fine(d, c) BY <1>2, NewTokenFine, FineTransitive, FineType
<1> HIDE DEF c
<1>4. e \in Database /\ Fine(d, e) BY <1>3, NoTimerFine, FineTransitive, FineType
<1> HIDE DEF e
<1>5. w \in BOOLEAN OBVIOUS
<1> HIDE DEF w
<1>6. Fine(e, f) BY <1>4, <1>5, ResetFine, Zenon
<1> HIDE DEF f
<1> QED BY <1>0, <1>4, <1>6, FineTransitive

\* queue.resume, thread.resume and the deadline that resumes.
LEMMA ResumeGrown ==
  ASSUME NEW d \in Database, Unused(d) # {}
  PROVE  Grown(d, ResumeQueue(d))
<1> DEFINE reason == IF d.q.reason = "none" THEN "manual" ELSE d.q.reason
           a == Add(d, "resume", FALSE)
           b == Hold(a, reason)
           c == NewToken(b)
           e == NoTimer(c)
<1>0. ResumeQueue(d) = e BY DEF ResumeQueue
<1>1. a \in Database /\ Grown(d, a) BY AddGrown
<1> HIDE DEF a
<1>2. reason \in Reasons BY QueueFields DEF Reasons
<1> HIDE DEF reason
<1>3. b \in Database /\ Fine(a, b) BY <1>1, <1>2, HoldFine, FineType
<1> HIDE DEF b
<1>4. c \in Database /\ Fine(a, c) BY <1>3, NewTokenFine, FineTransitive, FineType
<1> HIDE DEF c
<1>5. Fine(a, e) BY <1>4, NoTimerFine, FineTransitive
<1> HIDE DEF e
<1> QED BY <1>0, <1>1, <1>5, FineGrown, GrownTransitive

\* The person's resume starts the count of restarts again.
LEMMA PersonResumesGrown ==
  ASSUME NEW d \in Database, Unused(d) # {}
  PROVE  Grown(d, PersonResumes(d))
<1> DEFINE a == [d EXCEPT !.streak = 0]
<1>0. PersonResumes(d) = ResumeQueue(a) BY DEF PersonResumes
<1>1. a \in Database /\ Fine(d, a)
  <2>1. 0 \in Nat OBVIOUS
  <2> QED BY <2>1, StreakFine, Zenon
<1> HIDE DEF a
<1>2. Grown(d, a) /\ Unused(a) # {} BY <1>1, FineGrown
<1>3. Grown(a, ResumeQueue(a)) BY <1>1, <1>2, ResumeGrown
<1> QED BY <1>0, <1>2, <1>3, GrownTransitive

\* thread.limit resume_at_reset and snooze_until_reset.
LEMMA ScheduleFine ==
  ASSUME NEW d \in Database, NEW timer \in {"resume", "snooze"}
  PROVE  Fine(d, Schedule(d, timer))
<1> DEFINE reason == IF timer = "resume" THEN "limit" ELSE "snooze"
           a == Hold(d, reason)
           b == NewToken(a)
           c == [b EXCEPT !.q.timer = timer]
<1>0. Schedule(d, timer) = c BY DEF Schedule
<1>1. reason \in Reasons /\ timer \in Timers BY DEF Reasons, Timers
<1> HIDE DEF reason
<1>2. a \in Database /\ Fine(d, a) BY <1>1, HoldFine, FineType
<1> HIDE DEF a
<1>3. b \in Database /\ Fine(d, b) BY <1>2, NewTokenFine, FineTransitive, FineType
<1> HIDE DEF b
<1>4. Fine(b, c) BY <1>1, <1>3, TimerFine, Zenon
<1> HIDE DEF c
<1> QED BY <1>0, <1>3, <1>4, FineTransitive

\* thread.limit cancel_resume.
LEMMA CancelResumeFine ==
  ASSUME NEW d \in Database
  PROVE  Fine(d, CancelResume(d))
<1> DEFINE timer == IF d.q.limited THEN "clear" ELSE "none"
           b == NewToken(d)
           c == [b EXCEPT !.q.timer = timer]
<1>0. CancelResume(d) = c BY DEF CancelResume
<1>1. timer \in Timers BY DEF Timers
<1> HIDE DEF timer
<1>3. b \in Database /\ Fine(d, b) BY NewTokenFine, FineType
<1> HIDE DEF b
<1>4. Fine(b, c) BY <1>1, <1>3, TimerFine, Zenon
<1> HIDE DEF c
<1> QED BY <1>0, <1>3, <1>4, FineTransitive

\* One row gets a new value.
LEMMA OneRow ==
  ASSUME NEW d \in Database, NEW i \in Ids, NEW r2 \in Intent, RowTame(d.intent[i], r2)
  PROVE  LET e == [d EXCEPT !.intent[i] = r2]
         IN  e \in Database /\ Fine(d, e) /\ RowsOnly(d, e) /\ e.intent[i] = r2
<1> DEFINE f == [d.intent EXCEPT ![i] = r2]
           e == [d EXCEPT !.intent = f]
<1>1. f \in [Ids -> Intent] /\ f[i] = r2 /\ \A j \in Ids : j # i => f[j] = d.intent[j]
  BY DatabaseFields
<1> HIDE DEF f
<1>2. e \in Database /\ e.intent = f /\ RowsOnly(d, e) BY <1>1, Rewritten
<1> HIDE DEF e
<1>3. ASSUME NEW j \in Ids PROVE RowTame(d.intent[j], e.intent[j])
  <2>1. CASE j = i BY <1>1, <1>2, <2>1
  <2>2. CASE j # i
    <3>1. e.intent[j] = d.intent[j] BY <1>1, <1>2, <2>2
    <3> QED BY <3>1, TameSame
  <2> QED BY <2>1, <2>2
<1>4. Fine(d, e) BY <1>2, <1>3, RowsFine
<1> QED BY <1>1, <1>2, <1>4 DEF e, f

\* queue.edit.
LEMMA EditFine ==
  ASSUME NEW d \in Database, NEW i \in Ids, NEW steer \in BOOLEAN
  PROVE  Fine(d, EditEntry(d, i, steer))
<1> DEFINE r2 == [d.intent[i] EXCEPT !.steer = steer]
           a == [d EXCEPT !.intent[i] = r2]
           b == IF ReleasesHold(d, i) THEN Unhold(a) ELSE a
           c == ReconcileUncertainty(b)
<1>0. EditEntry(d, i, steer) = c BY DEF EditEntry
<1>1. r2 \in Intent /\ RowTame(d.intent[i], r2)
  <2>1. ASSUME NEW r \in Intent PROVE LET s == [r EXCEPT !.steer = steer] IN s \in Intent /\ RowTame(r, s)
    BY DEF Intent, RowTame, RowLoose, RowSteady, Spent, Quiet, RowInv
  <2>2. d.intent[i] \in Intent BY RowFields
  <2> QED BY <2>1, <2>2, Zenon
<1> HIDE DEF r2
<1>2. a \in Database /\ Fine(d, a) /\ RowsOnly(d, a) BY <1>1, OneRow, Zenon
<1> HIDE DEF a
<1>3. ReleasesHold(d, i) => ~a.q.limited BY <1>2 DEF ReleasesHold, RowsOnly
<1>4. b \in Database /\ Fine(d, b) BY <1>2, <1>3, UnholdFine, FineTransitive, FineType
<1> HIDE DEF b
<1>5. Fine(d, c) BY <1>4, ReconcileFine, FineTransitive
<1> HIDE DEF c
<1> QED BY <1>0, <1>5

\* A row leaves the queue.
LEMMA RemoveFine ==
  ASSUME NEW d \in Database, NEW j \in Ids,
         \/ d.intent[j].kind # "none" /\ d.intent[j].status \in WaitingStates
         \/ d.intent[j].uncertain
  PROVE  LET e == RemoveEntry(d, j) IN e \in Database /\ Fine(d, e) /\ e.q = d.q
<1> DEFINE e == RemoveEntry(d, j)
<1>1. e \in Database /\ RowsOnly(d, e) BY RemoveRows
<1>2. ASSUME NEW i \in Ids PROVE RowTame(d.intent[i], e.intent[i])
  <2>1. CASE i = j
    <3> DEFINE r == d.intent[i]
               r2 == e.intent[i]
    <3>1. /\ r2.status = "failed" /\ r2.kind = r.kind /\ ~r2.uncertain /\ r2.sub = r.sub
          /\ ~r2.awaiting
      BY <2>1, RemoveRows
    <3>2. (r.kind # "none" /\ r.status \in WaitingStates) \/ r.uncertain BY <2>1
    <3> HIDE DEF r, r2
    <3>3. RowTame(r, r2) BY <3>1, <3>2 DEF RowTame, RowLoose, RowSteady, Spent, Quiet, RowInv, WaitingStates
    <3> QED BY <3>3 DEF r, r2
  <2>2. CASE i # j BY <2>2, RemoveRows, TameSame
  <2> QED BY <2>1, <2>2
<1> HIDE DEF e
<1>3. Fine(d, e) BY <1>1, <1>2, RowsFine
<1> QED BY <1>1, <1>3 DEF e, RowsOnly

\* queue.remove.
LEMMA RemoveMessageFine ==
  ASSUME NEW d \in Database, NEW i \in Editable(d)
  PROVE  Fine(d, RemoveMessage(d, i))
<1> DEFINE a == RemoveEntry(d, i)
           b == IF ReleasesHold(d, i) THEN Unhold(a) ELSE a
           c == FinishContinuation(b)
           e == NoContinuation(c)
           f == IF d.intent[i].kind = "resume" THEN e ELSE b
           g == ReconcileUncertainty(f)
<1>0. RemoveMessage(d, i) = g BY DEF RemoveMessage
<1>1. /\ i \in Ids
      /\ \/ d.intent[i].kind # "none" /\ d.intent[i].status \in WaitingStates
         \/ d.intent[i].uncertain
  BY DEF Editable, WaitingOf, UncertainOf
<1>2. a \in Database /\ Fine(d, a) /\ a.q = d.q BY <1>1, RemoveFine
<1> HIDE DEF a
<1>3. ReleasesHold(d, i) => ~a.q.limited BY <1>2 DEF ReleasesHold
<1>4. b \in Database /\ Fine(d, b) BY <1>2, <1>3, UnholdFine, FineTransitive, FineType
<1> HIDE DEF b
<1>5. c \in Database /\ Fine(d, c) BY <1>4, FinishFine, FineTransitive
<1> HIDE DEF c
<1>6. e \in Database /\ Fine(d, e) BY <1>5, NoContinuationFine, FineTransitive, FineType
<1> HIDE DEF e
<1>7. f \in Database /\ Fine(d, f) BY <1>4, <1>6
<1> HIDE DEF f
<1>8. Fine(d, g) BY <1>7, ReconcileFine, FineTransitive
<1> HIDE DEF g
<1> QED BY <1>0, <1>8

\* queue.resend.
LEMMA ResendGrown ==
  ASSUME NEW d, Sound(d), NEW i \in UncertainOf(d), Unused(d) # {}
  PROVE  Grown(d, Resend(d, i))
<1> DEFINE kind == d.intent[i].kind
           steer == d.intent[i].steer
           continuation == kind = "resume"
           holding == continuation /\ d.q.paused /\ d.q.reason # "uncertain"
           a == RemoveEntry(d, i)
           b == FinishContinuation(a)
           c == IF continuation THEN b ELSE a
           e == Add(c, kind, steer)
           f == IF holding THEN c ELSE e
           frees == d.q.reason = "uncertain" /\ UncertainOf(f) = {} /\ ~d.q.limited /\ ~d.q.cont
           g == IF frees THEN Unhold(f) ELSE f
           h == ReconcileUncertainty(g)
<1>0. Resend(d, i) = h BY DEF Resend
<1>1. i \in Ids /\ d.intent[i].uncertain /\ d \in Database /\ RowInv(d.intent[i])
  BY DEF UncertainOf, Sound
<1>2. kind \in {"send", "resume"} /\ steer \in BOOLEAN
  <2>1. kind # "none" BY <1>1 DEF RowInv
  <2> QED BY <1>1, <2>1, RowFields
<1>3. a \in Database /\ Fine(d, a) /\ a.q = d.q BY <1>1, RemoveFine
<1> HIDE DEF a, kind, steer
<1>4. b \in Database /\ Fine(d, b) /\ b.q = d.q BY <1>3, FinishFine, FineTransitive
<1> HIDE DEF b, continuation, holding
<1>5. c \in Database /\ Fine(d, c) /\ c.q = d.q BY <1>3, <1>4
<1> HIDE DEF c
<1>6. Grown(d, c) /\ Unused(c) # {} BY <1>5, FineGrown
<1>7. e \in Database /\ Grown(d, e) /\ e.q = d.q
  BY <1>2, <1>5, <1>6, AddGrown, GrownTransitive
<1> HIDE DEF e
<1>8. f \in Database /\ Grown(d, f) /\ f.q = d.q BY <1>5, <1>6, <1>7
<1> HIDE DEF f
<1>9. frees => ~f.q.limited BY <1>8
<1> HIDE DEF frees
<1>10. g \in Database /\ Grown(d, g)
  BY <1>8, <1>9, UnholdFine, FineGrown, GrownTransitive, FineType
<1> HIDE DEF g
<1>11. Grown(d, h) BY <1>10, ReconcileFine, FineGrown, GrownTransitive
<1> HIDE DEF h
<1> QED BY <1>0, <1>11

\* queue.move.
LEMMA MoveFine ==
  ASSUME NEW d \in Database, NEW i \in Ids, NEW after
  PROVE  Fine(d, MoveMessage(d, i, after))
<1> DEFINE others == WaitingOf(d, "send") \ {i}
           rank(j) == Cardinality({k \in others : Before(d, k, j)})
           front == IF after = 0 THEN 0 ELSE rank(after) + 1
           place(j) == CASE j = i -> front + 1
                         [] j # i /\ rank(j) < front -> rank(j) + 1
                         [] OTHER -> rank(j) + 2
           f == [j \in Ids |-> IF j \in others \cup {i}
                               THEN [d.intent[j] EXCEPT !.pos = place(j)] ELSE d.intent[j]]
           e == [d EXCEPT !.intent = f]
<1>0. MoveMessage(d, i, after) = e BY DEF MoveMessage
<1>1. ASSUME NEW j PROVE rank(j) \in Nat
  <2> DEFINE S == {k \in others : Before(d, k, j)}
  <2>1. S \in SUBSET Ids BY DEF WaitingOf
  <2> HIDE DEF S
  <2>2. IsFiniteSet(S) BY <2>1, IdFacts, FS_Subset
  <2>3. Cardinality(S) \in Nat BY <2>2, FS_CardinalityType
  <2> QED BY <2>3 DEF S
<1>2. front \in Nat
  <2>1. rank(after) \in Nat BY <1>1
  <2> HIDE DEF rank
  <2> QED BY <2>1
<1>3. ASSUME NEW j PROVE place(j) \in Nat
  <2>1. rank(j) \in Nat BY <1>1
  <2> HIDE DEF rank, front
  <2> QED BY <1>2, <2>1
<1> HIDE DEF place
<1>4. ASSUME NEW j \in Ids
      PROVE  f[j] \in Intent /\ RowTame(d.intent[j], f[j])
  <2>1. ASSUME NEW r \in Intent, NEW n \in Nat
        PROVE  LET s == [r EXCEPT !.pos = n] IN s \in Intent /\ RowTame(r, s)
    BY DEF Intent, RowTame, RowLoose, RowSteady, Spent, Quiet, RowInv
  <2>2. d.intent[j] \in Intent /\ place(j) \in Nat BY <1>3, RowFields
  <2>3. LET s == [d.intent[j] EXCEPT !.pos = place(j)] IN s \in Intent /\ RowTame(d.intent[j], s)
    BY <2>1, <2>2, Zenon
  <2>4. f[j] = d.intent[j] \/ f[j] = [d.intent[j] EXCEPT !.pos = place(j)] OBVIOUS
  <2> QED BY <2>2, <2>3, <2>4, TameSame
<1>5. f \in [Ids -> Intent]
  <2>1. f = [j \in Ids |-> f[j]] OBVIOUS
  <2> HIDE DEF f
  <2> QED BY <1>4, <2>1
<1> HIDE DEF f
<1>6. e \in Database /\ e.intent = f /\ RowsOnly(d, e) BY <1>5, Rewritten
<1> HIDE DEF e
<1>7. Fine(d, e) BY <1>4, <1>6, RowsFine
<1> QED BY <1>0, <1>7

\* fire: the deadline.
LEMMA TimerFiresGrown ==
  ASSUME NEW d \in Database, d.q.timer = "resume" => Unused(d) # {}
  PROVE  Grown(d, TimerFires(d))
<1> DEFINE a == NoTimer(d)
           b == [d EXCEPT !.q.reason = "manual"]
           c == NoTimer(b)
<1>0. a \in Database /\ Fine(d, a) BY NoTimerFine, FineType
<1>1. CASE d.q.timer = "snooze"
  <2>1. TimerFires(d) = c BY <1>1 DEF TimerFires
  <2>2. "manual" \in Reasons BY DEF Reasons
  <2>3. b \in Database /\ Fine(d, b)
    <3>1. QueueOnly(d, b) /\ Fine(d, b) BY <2>2, ReasonFine, Zenon
    <3> QED BY <3>1, FineType
  <2> HIDE DEF b
  <2>4. Fine(d, c) BY <2>3, NoTimerFine, FineTransitive
  <2> HIDE DEF c
  <2> QED BY <2>1, <2>4, FineGrown
<1>2. CASE d.q.timer = "clear"
  <2>1. TimerFires(d) = ClearLimit(d) BY <1>2 DEF TimerFires
  <2> QED BY <2>1, ClearLimitFine, FineGrown
<1>3. CASE d.q.timer = "resume" /\ MayResume(d)
  <2>1. TimerFires(d) = ResumeQueue(a) BY <1>3 DEF TimerFires
  <2> HIDE DEF a
  <2>2. Grown(d, a) /\ Unused(a) # {} BY <1>0, <1>3, FineGrown
  <2>3. Grown(a, ResumeQueue(a)) BY <1>0, <2>2, ResumeGrown
  <2> QED BY <2>1, <2>2, <2>3, GrownTransitive
<1>4. CASE ~(d.q.timer \in {"snooze", "clear"} \/ (d.q.timer = "resume" /\ MayResume(d)))
  <2>1. TimerFires(d) = a BY <1>4 DEF TimerFires
  <2> QED BY <1>0, <2>1, FineGrown
<1> QED BY <1>1, <1>2, <1>3, <1>4

-----------------------------------------------------------------------------
(* What a delivery leaves behind. *)

\* The row of a lane gets a new value.
LEMMA OneRowNear ==
  ASSUME NEW d \in Database, NEW i \in Ids, NEW r2 \in Intent, RowLoose(d.intent[i], r2)
  PROVE  LET e == [d EXCEPT !.intent[i] = r2]
         IN  e \in Database /\ Near(d, e, i) /\ RowsOnly(d, e) /\ e.intent[i] = r2
<1> DEFINE f == [d.intent EXCEPT ![i] = r2]
           e == [d EXCEPT !.intent = f]
<1>1. f \in [Ids -> Intent] /\ f[i] = r2 /\ \A j \in Ids : j # i => f[j] = d.intent[j]
  BY DatabaseFields
<1> HIDE DEF f
<1>2. e \in Database /\ e.intent = f /\ RowsOnly(d, e) BY <1>1, Rewritten
<1> HIDE DEF e
<1>3. \A j \in Ids \ {i} : e.intent[j] = d.intent[j] BY <1>1, <1>2
<1>4. Near(d, e, i) BY <1>1, <1>2, <1>3, RowNear
<1> QED BY <1>1, <1>2, <1>4 DEF e, f

\* beginSend: an input is about to be handed over, or not any more.
LEMMA BeginSendNear ==
  ASSUME NEW d \in Database, NEW i \in Ids, NEW target \in 0..MaxIntents,
         \/ target = 0
         \/ d.intent[i].kind # "none" /\ d.intent[i].status \notin WaitingStates
  PROVE  LET e == BeginSend(d, i, target)
         IN  /\ e \in Database /\ Near(d, e, i) /\ e.intent[i].status = d.intent[i].status
             /\ e.intent[i].kind = d.intent[i].kind
<1> DEFINE w == target # 0
           root == IF w /\ d.intent[i].kind = "resume" THEN i ELSE d.root
           r2 == [d.intent[i] EXCEPT !.awaiting = w, !.target = target]
           a == [d EXCEPT !.root = root]
           e == [a EXCEPT !.intent[i] = r2]
<1>1. w \in BOOLEAN OBVIOUS
<1>2. root \in 0..MaxIntents BY IdFacts, DatabaseFields
<1>3. r2 \in Intent /\ RowLoose(d.intent[i], r2) /\ r2.status = d.intent[i].status
      /\ r2.kind = d.intent[i].kind
  <2>1. ASSUME NEW r \in Intent, NEW x \in BOOLEAN,
               ~x \/ (r.kind # "none" /\ r.status \notin WaitingStates)
        PROVE  LET s == [r EXCEPT !.awaiting = x, !.target = target]
               IN  s \in Intent /\ RowLoose(r, s) /\ s.status = r.status /\ s.kind = r.kind
    <3> DEFINE s == [r EXCEPT !.awaiting = x, !.target = target]
    <3>1. /\ s \in Intent /\ s.kind = r.kind /\ s.status = r.status /\ s.awaiting = x
          /\ s.uncertain = r.uncertain /\ s.sub = r.sub
      BY DEF Intent
    <3> HIDE DEF s
    <3>2. RowLoose(r, s) BY <2>1, <3>1 DEF RowLoose, RowInv
    <3> QED BY <3>1, <3>2 DEF s
  <2>2. d.intent[i] \in Intent BY RowFields
  <2>3. ~w \/ (d.intent[i].kind # "none" /\ d.intent[i].status \notin WaitingStates) OBVIOUS
  <2> HIDE DEF w
  <2> QED BY <1>1, <2>1, <2>2, <2>3, Zenon
<1>4. BeginSend(d, i, target) = e
  <2>1. d.intent \in [Ids -> Intent] /\ d.intent[i] \in Intent BY RowFields, DatabaseFields
  <2> QED BY <2>1, ZenonT(60) DEF BeginSend, Database
<1> HIDE DEF r2, root
<1>5. a \in Database /\ a.intent = d.intent /\ a.q = d.q /\ a.rootLimited = d.rootLimited
  BY <1>2 DEF Database
<1>6. Near(d, a, i) BY <1>5, ThreadFine, FineNear DEF ThreadOnly
<1> HIDE DEF a
<1>7. RowLoose(a.intent[i], r2) BY <1>3, <1>5
<1>8. e \in Database /\ Near(a, e, i) /\ e.intent[i] = r2 BY <1>3, <1>5, <1>7, OneRowNear, Zenon
<1> HIDE DEF e
<1> QED BY <1>3, <1>4, <1>6, <1>8, NearTransitive

\* claim: a waiting row runs.
LEMMA ClaimNear ==
  ASSUME NEW d, Sound(d), NEW i \in Ids, NEW steers,
         d.intent[i].kind # "none", d.intent[i].status \in WaitingStates
  PROVE  LET e == Claim(d, i, steers)
         IN  /\ e \in Database /\ Near(d, e, i) /\ e.intent[i].status = "running"
             /\ e.intent[i].kind = d.intent[i].kind
             /\ d.intent[i].kind = "resume" => Quiet(e.intent[i])
<1> DEFINE a == Mark(d, {i}, "running")
           target == CASE ~steers -> i
                       [] steers /\ d.run -> 0
                       [] steers /\ ~d.run /\ Awaiting(d) # {} -> d.intent[Min(Awaiting(d))].target
                       [] OTHER -> i
           b == BeginSend(a, i, target)
<1>0. d \in Database /\ RowInv(d.intent[i]) BY DEF Sound
<1>1. Claim(d, i, steers) = IF d.intent[i].kind = "send" THEN b ELSE a BY DEF Claim
<1>2. target \in 0..MaxIntents
  <2>1. Awaiting(d) \subseteq Ids /\ Awaiting(d) \subseteq Nat BY IdFacts DEF Awaiting
  <2>2. Awaiting(d) # {} => Min(Awaiting(d)) \in Ids BY <2>1, MinIn
  <2>3. Awaiting(d) # {} => d.intent[Min(Awaiting(d))].target \in 0..MaxIntents
    BY <1>0, <2>2, RowFields
  <2>4. i \in 0..MaxIntents /\ 0 \in 0..MaxIntents BY IdFacts
  <2> QED BY <2>3, <2>4
<1> HIDE DEF target
<1>3. "running" \in Statuses /\ MayMark(d.intent[i], "running")
  BY <1>0 DEF Statuses, MayMark, RowInv, WaitingStates
<1>4. a \in Database /\ Near(d, a, i) BY <1>0, <1>3, MarkNear, MarkRows
<1>5. a.intent[i].status = "running" /\ a.intent[i].kind = d.intent[i].kind /\ Quiet(a.intent[i])
  <2>1. ~d.intent[i].awaiting /\ ~d.intent[i].uncertain BY <1>0 DEF RowInv
  <2>2. /\ a.intent[i].status = "running" /\ a.intent[i].kind = d.intent[i].kind
        /\ (a.intent[i].awaiting => d.intent[i].awaiting)
        /\ a.intent[i].uncertain = d.intent[i].uncertain
    BY <1>0, <1>3, MarkRows
  <2> QED BY <2>1, <2>2 DEF Quiet
<1> HIDE DEF a
<1>6. /\ b \in Database /\ Near(a, b, i) /\ b.intent[i].status = "running"
      /\ b.intent[i].kind = d.intent[i].kind
  BY <1>2, <1>4, <1>5, BeginSendNear DEF WaitingStates
<1> HIDE DEF b
<1> QED BY <1>1, <1>4, <1>5, <1>6, NearTransitive

\* submit: the input is written to the session.
LEMMA SubmitNear ==
  ASSUME NEW d, Sound(d), Settled(d), NEW i \in Ids, NEW generation \in Nat
  PROVE  LET e == Submit(d, i, generation)
         IN  /\ Near(d, e, i) /\ e.intent[i].status = d.intent[i].status
             /\ IF d.intent[i].status = "running" THEN e.intent[i].sub = generation
                ELSE e.intent[i] = d.intent[i]
<1> DEFINE r2 == [d.intent[i] EXCEPT !.sub = generation]
           e == [d EXCEPT !.intent[i] = r2]
<1>0. d \in Database /\ RowInv(d.intent[i]) BY DEF Sound
<1>1. CASE d.intent[i].status = "running"
  <2>1. Submit(d, i, generation) = e BY <1>1 DEF Submit
  <2>2. ~d.intent[i].uncertain BY <1>1 DEF Settled
  <2>3. ASSUME NEW r \in Intent, r.status = "running", ~r.uncertain
        PROVE  LET s == [r EXCEPT !.sub = generation] IN s \in Intent /\ RowLoose(r, s)
                 /\ s.status = r.status /\ s.sub = generation
    BY <2>3 DEF Intent, RowLoose, RowInv
  <2>4. d.intent[i] \in Intent BY <1>0, RowFields
  <2>5. /\ r2 \in Intent /\ RowLoose(d.intent[i], r2)
        /\ r2.status = d.intent[i].status /\ r2.sub = generation
    BY <1>1, <2>2, <2>3, <2>4, Zenon
  <2> HIDE DEF r2
  <2>6. Near(d, e, i) /\ e.intent[i] = r2 BY <1>0, <2>5, OneRowNear, ZenonT(60)
  <2> HIDE DEF e
  <2> QED BY <1>1, <2>1, <2>5, <2>6
<1>2. CASE d.intent[i].status # "running" BY <1>0, <1>2, FineSame, FineNear DEF Submit
<1> QED BY <1>1, <1>2

\* One certain row goes back to the queue.
LEMMA PutBackGood ==
  ASSUME NEW d, Sound(d), NEW e \in Database, RowsOnly(d, e), NEW i \in Ids,
         \A j \in Ids \ {i} : e.intent[j] = d.intent[j],
         d.intent[i].kind = "send", ~d.intent[i].uncertain,
         e.intent[i].kind = "send", ~e.intent[i].uncertain, ~e.intent[i].awaiting
  PROVE  Good(d, e)
<1>1. ASSUME NEW j \in Ids
      PROVE  /\ RowInv(e.intent[j])
             /\ d.intent[j].kind # "none" => e.intent[j].kind = d.intent[j].kind
             /\ d.intent[j].uncertain => e.intent[j].status \notin WaitingStates
             /\ d.intent[j].kind = "resume" /\ e.intent[j].status \in WaitingStates
                  => d.intent[j].status \in WaitingStates
             /\ (d.intent[j].uncertain => d.intent[j].status = "failed")
                  => (e.intent[j].uncertain => e.intent[j].status = "failed")
  <2>0. RowInv(d.intent[j]) BY DEF Sound
  <2>1. CASE j = i BY <2>1 DEF RowInv
  <2>2. CASE j # i
    <3>1. e.intent[j] = d.intent[j] BY <2>2
    <3> QED BY <2>0, <3>1 DEF RowInv
  <2> QED BY <2>1, <2>2
<1>2. Marked(e) BY DEF Sound, Marked, RowsOnly
<1>3. Sound(e) BY <1>1, <1>2 DEF Sound
<1>4. Settled(d) => Settled(e) BY <1>1 DEF Settled
<1> QED BY <1>1, <1>3, <1>4 DEF Good, Kept

\* fail: a delivery failed.
LEMMA FailNear ==
  ASSUME NEW d \in Database, NEW i \in Ids, d.intent[i].kind # "none"
  PROVE  Near(d, Fail(d, i, FALSE), i)
<1> DEFINE a == Mark(d, {i}, "failed")
           b == Hold(a, "manual")
<1>0. Fail(d, i, FALSE) = b \/ Fail(d, i, FALSE) = a BY DEF Fail
<1>1. "failed" \in Statuses /\ "manual" \in Reasons /\ MayMark(d.intent[i], "failed")
  BY DEF Statuses, Reasons, MayMark, WaitingStates
<1>2. a \in Database /\ Near(d, a, i) BY <1>1, MarkNear, MarkRows
<1> HIDE DEF a
<1>3. Near(d, b, i) BY <1>1, <1>2, HoldFine, FineNear, NearTransitive
<1> HIDE DEF b
<1> QED BY <1>0, <1>2, <1>3

\* What was spent stays so.
LEMMA SpentStays ==
  ASSUME NEW d, NEW d2, Sound(d), Fine(d, d2), NEW i \in Ids
  PROVE  Spent(d.intent[i]) => Spent(d2.intent[i])
BY DEF Sound, Fine, Tame, RowTame, RowSteady

\* The return of run().
LEMMA DeliveredNear ==
  ASSUME NEW d, Sound(d), Settled(d), NEW i \in Ids, d.intent[i].kind # "none", NEW token
  PROVE  LET e == Delivered(d, i, token)
         IN  Near(d, e, i) /\ (Spent(d.intent[i]) => Spent(e.intent[i]))
<1> DEFINE a == IF d.intent[i].kind = "resume" THEN Release(d, token) ELSE d
           b == Mark(a, {i}, "done")
<1>0. d \in Database BY DEF Sound
<1>1. Delivered(d, i, token) = IF d.intent[i].status = "running" THEN b ELSE a BY DEF Delivered
<1>2. a \in Database /\ Near(d, a, i) /\ a.intent = d.intent
  BY <1>0, ReleaseFine, FineSame, FineType, FineNear
<1> HIDE DEF a
<1>3. ASSUME d.intent[i].status = "running"
      PROVE  Near(d, b, i) /\ (Spent(d.intent[i]) => Spent(b.intent[i]))
  <2>1. ~d.intent[i].uncertain BY <1>3 DEF Settled
  <2>2. "done" \in Statuses /\ MayMark(a.intent[i], "done")
    BY <1>2, <2>1 DEF Statuses, MayMark, WaitingStates
  <2>3. Near(d, b, i) BY <1>2, <2>2, MarkNear, NearTransitive
  <2>4. b.intent[i].sub = d.intent[i].sub BY <1>2, <2>2, MarkRows
  <2> QED BY <1>3, <2>3, <2>4 DEF Spent
<1> HIDE DEF b
<1> QED BY <1>1, <1>2, <1>3

\* beginSend with no target: the row awaits nothing.
LEMMA UnsendRows ==
  ASSUME NEW d \in Database, NEW i \in Ids
  PROVE  LET e == BeginSend(d, i, 0)
         IN  /\ e \in Database /\ RowsOnly(d, e) /\ \A j \in Ids \ {i} : e.intent[j] = d.intent[j]
             /\ e.intent[i].kind = d.intent[i].kind /\ e.intent[i].uncertain = d.intent[i].uncertain
             /\ ~e.intent[i].awaiting
<1> DEFINE r2 == [d.intent[i] EXCEPT !.awaiting = FALSE, !.target = 0]
           f == [d.intent EXCEPT ![i] = r2]
           e == [d EXCEPT !.intent = f]
<1>0. d.intent \in [Ids -> Intent] /\ d.intent[i] \in Intent /\ d.root \in 0..MaxIntents
  BY RowFields, DatabaseFields
<1>1. BeginSend(d, i, 0) = e BY <1>0 DEF BeginSend, Database
<1>2. /\ r2 \in Intent /\ r2.kind = d.intent[i].kind /\ r2.uncertain = d.intent[i].uncertain
      /\ ~r2.awaiting
  <2>1. 0 \in 0..MaxIntents BY IdFacts
  <2>2. ASSUME NEW r \in Intent
        PROVE  LET s == [r EXCEPT !.awaiting = FALSE, !.target = 0]
               IN  s \in Intent /\ s.kind = r.kind /\ s.uncertain = r.uncertain /\ ~s.awaiting
    BY <2>1 DEF Intent
  <2> QED BY <1>0, <2>2, Zenon
<1> HIDE DEF r2
<1>3. f \in [Ids -> Intent] /\ f[i] = r2 /\ \A j \in Ids : j # i => f[j] = d.intent[j]
  BY <1>0, <1>2
<1> HIDE DEF f
<1>4. e \in Database /\ e.intent = f /\ RowsOnly(d, e) BY <1>3, Rewritten
<1> HIDE DEF e
<1> QED BY <1>1, <1>2, <1>3, <1>4

\* Every row but one is tamed.
Elsewhere(d, d2, i) == \A j \in Ids \ {i} : RowTame(d.intent[j], d2.intent[j])

\* A step near a row, and one that leaves the others as they are.
LEMMA NearElsewhere ==
  ASSUME NEW d, NEW d2, NEW i,
         \/ Near(d, d2, i)
         \/ \A j \in Ids \ {i} : d2.intent[j] = d.intent[j]
  PROVE  Elsewhere(d, d2, i)
BY TameSame DEF Near, Elsewhere

\* A fine step after it.
LEMMA ElsewhereThenFine ==
  ASSUME NEW d, NEW d2, NEW d3, NEW i, Elsewhere(d, d2, i), Fine(d2, d3)
  PROVE  Elsewhere(d, d3, i)
<1> SUFFICES ASSUME NEW j \in Ids \ {i} PROVE RowTame(d.intent[j], d3.intent[j]) BY DEF Elsewhere
<1>1. RowTame(d.intent[j], d2.intent[j]) /\ RowTame(d2.intent[j], d3.intent[j])
  BY DEF Elsewhere, Fine, Tame
<1> QED BY <1>1 DEF RowTame, RowLoose, RowSteady

\* retainInput: a message that was not sent stays at the head, and holds the queue.
LEMMA RetainGood ==
  ASSUME NEW d, Sound(d), NEW i \in Ids, d.intent[i].kind = "send", ~d.intent[i].uncertain
  PROVE  Good(d, RetainInput(d, i)) /\ Elsewhere(d, RetainInput(d, i), i)
<1> DEFINE a == ClearUncertain(d, {i})
           b == Mark(a, {i}, "queued")
           c == BeginSend(b, i, 0)
           e == Hold(c, "not_sent")
           f == NoTimer(e)
<1>0. d \in Database BY DEF Sound
<1>1. RetainInput(d, i) = IF d.q.limited THEN c ELSE f BY DEF RetainInput
<1>2. /\ a \in Database /\ RowsOnly(d, a) /\ \A j \in Ids \ {i} : a.intent[j] = d.intent[j]
      /\ a.intent[i].kind = d.intent[i].kind /\ ~a.intent[i].uncertain
  BY <1>0, ClearRows
<1> HIDE DEF a
<1>3. "queued" \in Statuses /\ "not_sent" \in Reasons BY DEF Statuses, Reasons
<1>4. /\ b \in Database /\ RowsOnly(a, b) /\ \A j \in Ids \ {i} : b.intent[j] = a.intent[j]
      /\ b.intent[i].kind = a.intent[i].kind /\ ~b.intent[i].uncertain
  BY <1>2, <1>3, MarkRows
<1> HIDE DEF b
<1>5. /\ c \in Database /\ RowsOnly(b, c) /\ \A j \in Ids \ {i} : c.intent[j] = b.intent[j]
      /\ c.intent[i].kind = b.intent[i].kind /\ ~c.intent[i].uncertain /\ ~c.intent[i].awaiting
  BY <1>4, UnsendRows
<1> HIDE DEF c
<1>6. RowsOnly(d, c) BY <1>2, <1>4, <1>5 DEF RowsOnly
<1>7. \A j \in Ids \ {i} : c.intent[j] = d.intent[j] BY <1>2, <1>4, <1>5
<1>8. c.intent[i].kind = "send" BY <1>2, <1>4, <1>5
<1>9. Good(d, c) /\ Elsewhere(d, c, i) BY <1>5, <1>6, <1>7, <1>8, PutBackGood, NearElsewhere
<1>10. e \in Database /\ Fine(c, e) BY <1>3, <1>5, HoldFine, FineType
<1> HIDE DEF e
<1>11. Fine(c, f) BY <1>10, NoTimerFine, FineTransitive
<1> HIDE DEF f
<1> QED BY <1>1, <1>9, <1>11, GoodThenFine, ElsewhereThenFine

Errors == {"deferred", "not_started", "refused", "other"}

\* What was spent is not put back, unless the session certainly did not take it.
Given(d, d2, i, error) ==
  \/ error \in Refusals
  \/ Spent(d.intent[i]) =>
       /\ Spent(d2.intent[i])
       /\ d2.intent[i].status \in WaitingStates => d.intent[i].status \in WaitingStates

\* A fine step after it.
LEMMA GivenThenFine ==
  ASSUME NEW d, NEW d2, NEW d3, NEW i \in Ids, NEW error, Given(d, d2, i, error), Fine(d2, d3),
         Good(d, d2)
  PROVE  Given(d, d3, i, error)
<1>1. RowInv(d2.intent[i]) /\ RowTame(d2.intent[i], d3.intent[i])
  BY DEF Good, Kept, Sound, Fine, Tame
<1> QED BY <1>1 DEF Given, RowTame, RowLoose, RowSteady

\* The catch of run(): what became of a delivery that failed.
LEMMA UndeliveredGood ==
  ASSUME NEW d, Sound(d), Settled(d), NEW i \in Ids, d.intent[i].kind # "none", NEW token,
         NEW error \in Errors, NEW steered \in BOOLEAN
  PROVE  LET e == Undelivered(d, i, token, error, steered)
         IN  Good(d, e) /\ Elsewhere(d, e, i) /\ Given(d, e, i, error)
<1> DEFINE r == d.intent[i]
           send == r.kind = "send"
           unsent == error = "not_started" \/ r.sub = 0
           uncertain == Fail(MarkUncertain(d, {i}), i, TRUE)
           result == Undelivered(d, i, token, error, steered)
           stopped == r.sub = 0 /\ d.q.reason = "stopped"
<1>0. d \in Database BY DEF Sound
<1>1. CASE r.status = "failed"
  <2>1. result = d BY <1>1 DEF Undelivered
  <2>2. Good(d, d) /\ Elsewhere(d, d, i) BY <1>0, FineSame, FineGood, FineNear, NearElsewhere
  <2>3. Given(d, d, i, error) BY DEF Given
  <2> QED BY <2>1, <2>2, <2>3
<1>2. ASSUME r.status # "failed" PROVE ~r.uncertain BY <1>2 DEF Settled
<1>3. CASE r.status # "failed" /\ r.acked
  <2> DEFINE done == Mark(d, {i}, "done")
  <2>1. result = done \/ result = Release(done, token) BY <1>3 DEF Undelivered
  <2>2. "done" \in Statuses /\ MayMark(d.intent[i], "done")
    BY <1>2, <1>3 DEF Statuses, MayMark, WaitingStates
  <2>3. done \in Database /\ Near(d, done, i) BY <1>0, <2>2, MarkNear, MarkRows
  <2>4. Given(d, done, i, error)
    <3>1. done.intent[i].sub = r.sub /\ done.intent[i].status = "done" BY <1>0, <2>2, MarkRows
    <3> QED BY <1>3, <3>1 DEF Given, Spent, WaitingStates
  <2> HIDE DEF done
  <2>5. Good(d, done) /\ Elsewhere(d, done, i) BY <2>3, NearGood, NearElsewhere
  <2>6. Fine(done, Release(done, token)) BY <2>3, ReleaseFine
  <2>7. Good(d, Release(done, token)) /\ Elsewhere(d, Release(done, token), i)
        /\ Given(d, Release(done, token), i, error)
    BY <2>4, <2>5, <2>6, GoodThenFine, ElsewhereThenFine, GivenThenFine
  <2> HIDE DEF result
  <2>8. Good(d, result) /\ Elsewhere(d, result, i) /\ Given(d, result, i, error)
    BY <2>1, <2>4, <2>5, <2>7
  <2> QED BY <2>8 DEF result
<1>4. CASE r.status # "failed" /\ ~r.acked /\ send /\ (error = "deferred" \/ stopped)
  <2> DEFINE e == Defer(d, {i})
  <2>1. result = ReconcileUncertainty(e) BY <1>4 DEF Undelivered
  <2>2. /\ e \in Database /\ RowsOnly(d, e) /\ \A j \in Ids \ {i} : e.intent[j] = d.intent[j]
        /\ e.intent[i].kind = d.intent[i].kind /\ ~e.intent[i].uncertain /\ ~e.intent[i].awaiting
    BY <1>0, DeferRows
  <2> HIDE DEF e
  <2>3. Good(d, e) /\ Elsewhere(d, e, i) BY <1>2, <1>4, <2>2, PutBackGood, NearElsewhere
  <2>4. Given(d, result, i, error) BY <1>4 DEF Given, Spent, Refusals
  <2> HIDE DEF result
  <2>5. Good(d, result) /\ Elsewhere(d, result, i)
    BY <2>1, <2>2, <2>3, ReconcileFine, GoodThenFine, ElsewhereThenFine
  <2> QED BY <2>4, <2>5 DEF result
<1>5. CASE /\ r.status # "failed" /\ ~r.acked /\ send /\ ~(error = "deferred" \/ stopped)
           /\ error = "refused" /\ steered
  <2> DEFINE e == Requeue(d, i)
  <2>1. result = e BY <1>5 DEF Undelivered
  <2>2. /\ e \in Database /\ RowsOnly(d, e) /\ \A j \in Ids \ {i} : e.intent[j] = d.intent[j]
        /\ e.intent[i].kind = d.intent[i].kind /\ ~e.intent[i].uncertain /\ ~e.intent[i].awaiting
    BY <1>0, RequeueRows
  <2> HIDE DEF e
  <2>3. Good(d, e) /\ Elsewhere(d, e, i) BY <1>2, <1>5, <2>2, PutBackGood, NearElsewhere
  <2>4. Given(d, e, i, error) BY <1>5 DEF Given, Refusals
  <2> QED BY <2>1, <2>3, <2>4
<1>6. CASE /\ r.status # "failed" /\ ~r.acked /\ send /\ ~(error = "deferred" \/ stopped)
           /\ ~(error = "refused" /\ steered) /\ (error = "refused" \/ unsent)
  <2>1. error \in {"refused", "not_started", "other"} BY <1>6 DEF Errors
  <2>2. result = RetainInput(d, i) BY <1>6, <2>1 DEF Undelivered
  <2>3. Good(d, RetainInput(d, i)) /\ Elsewhere(d, RetainInput(d, i), i) BY <1>2, <1>6, RetainGood
  <2>4. Given(d, RetainInput(d, i), i, error) BY <1>6 DEF Given, Spent, Refusals
  <2> QED BY <2>2, <2>3, <2>4
<1>7. CASE r.status # "failed" /\ ~r.acked /\ ~send /\ unsent
  <2>1. result = Fail(d, i, FALSE) BY <1>7 DEF Undelivered
  <2>2. Good(d, Fail(d, i, FALSE)) /\ Elsewhere(d, Fail(d, i, FALSE), i)
    BY <1>0, FailNear, NearGood, NearElsewhere
  <2>3. Given(d, Fail(d, i, FALSE), i, error) BY <1>7 DEF Given, Spent, Refusals
  <2> QED BY <2>1, <2>2, <2>3
<1>8. CASE /\ r.status # "failed" /\ ~r.acked
           /\ \/ /\ send /\ ~(error = "deferred" \/ stopped)
                 /\ ~(error = "refused" /\ steered) /\ ~(error = "refused" \/ unsent)
              \/ ~send /\ ~unsent
  <2> DEFINE e == Mark(MarkUncertain(d, {i}), {i}, "failed")
             f == Hold(e, "uncertain")
  <2>1. result = IF Owns(d, token) THEN Hold(uncertain, "uncertain") ELSE uncertain
    BY <1>8 DEF Undelivered
  <2>2. uncertain = e BY DEF Fail
  <2>3. r.sub # 0 BY <1>8
  <2>4. e \in Database /\ Near(d, e, i) /\ e.intent[i].status = "failed" /\ e.intent[i].sub # 0
    BY <1>0, <2>3, LoseNear
  <2> HIDE DEF e
  <2>5. Good(d, e) /\ Elsewhere(d, e, i) /\ Given(d, e, i, error)
    BY <2>4, NearGood, NearElsewhere DEF Given, Spent, WaitingStates
  <2>6. Fine(e, f)
    <3>1. "uncertain" \in Reasons BY DEF Reasons
    <3> QED BY <2>4, <3>1, HoldFine
  <2>7. result = f \/ result = e BY <2>1, <2>2
  <2> HIDE DEF f, result
  <2>8. Good(d, result) /\ Elsewhere(d, result, i) /\ Given(d, result, i, error)
    BY <2>5, <2>6, <2>7, GoodThenFine, ElsewhereThenFine, GivenThenFine
  <2> QED BY <2>8 DEF result
<1> QED BY <1>1, <1>3, <1>4, <1>5, <1>6, <1>7, <1>8

-----------------------------------------------------------------------------
(* Startup. *)

\* Startup's first pass: a continuation whose fate is unknown is marked, the lost work captured.
LEMMA RecoverThreadKept ==
  ASSUME NEW d, Sound(d), Unsettled(d)
  PROVE  Kept(d, RecoverThread(d)) /\ Unsettled(RecoverThread(d))
<1> DEFINE cut == {i \in Ids : /\ d.intent[i].kind = "resume"
                               /\ d.intent[i].sub # 0 /\ ~d.intent[i].acked
                               /\ d.intent[i].status = "running" \/ d.intent[i].awaiting}
           a == MarkUncertain(d, cut)
           b == IF StoppedHold(a) /\ a.q.trigger = "restart" THEN NoContinuation(a) ELSE a
           c == Capture(b)
           e == IF UncertainContinuation(c) THEN c ELSE FinishContinuation(c)
           f == [e EXCEPT !.run = FALSE]
<1>0. RecoverThread(d) = f BY DEF RecoverThread
<1>1. d \in Database BY DEF Sound
<1>2. \A i \in cut : /\ d.intent[i].kind = "resume" /\ d.intent[i].sub # 0
                     /\ d.intent[i].status = "running" \/ d.intent[i].awaiting
  OBVIOUS
<1> HIDE DEF cut
<1>3. a \in Database /\ RowsOnly(d, a) /\ \A i \in Ids \ cut : a.intent[i] = d.intent[i]
  BY <1>1, UncertainRows
<1>4. ASSUME NEW i \in Ids \cap cut
      PROVE  LET r == d.intent[i]
                 r2 == a.intent[i]
             IN  /\ r2.uncertain /\ r2.kind = r.kind /\ r2.status = r.status
                 /\ r2.awaiting = r.awaiting /\ r2.sub = r.sub
  BY <1>1, <1>4, UncertainRows
<1> HIDE DEF a
<1>5. ASSUME NEW i \in Ids
      PROVE  /\ RowInv(a.intent[i])
             /\ d.intent[i].kind # "none" => a.intent[i].kind = d.intent[i].kind
             /\ d.intent[i].uncertain => a.intent[i].status \notin WaitingStates
             /\ a.intent[i].uncertain
                  => a.intent[i].status \in {"failed", "running"} \/ a.intent[i].awaiting
  <2>0. RowInv(d.intent[i]) BY DEF Sound
  <2>1. CASE i \in cut
    <3> DEFINE r == d.intent[i]
               r2 == a.intent[i]
    <3>1. /\ r2.uncertain /\ r2.kind = r.kind /\ r2.status = r.status
          /\ r2.awaiting = r.awaiting /\ r2.sub = r.sub
      BY <1>4, <2>1
    <3>2. r.kind = "resume" /\ r.sub # 0 /\ (r.status = "running" \/ r.awaiting) BY <1>2, <2>1
    <3>3. r.status \notin WaitingStates BY <2>0, <3>2 DEF RowInv, WaitingStates
    <3> QED BY <2>0, <3>1, <3>2, <3>3 DEF RowInv
  <2>2. CASE i \notin cut
    <3>1. a.intent[i] = d.intent[i] BY <1>3, <2>2
    <3> QED BY <2>0, <3>1 DEF RowInv, Unsettled
  <2> QED BY <2>1, <2>2
<1>6. Kept(d, a)
  <2>1. Marked(a) BY <1>3 DEF Sound, Marked, RowsOnly
  <2> QED BY <1>3, <1>5, <2>1 DEF Kept, Sound
<1>7. b \in Database /\ Fine(a, b) /\ b.intent = a.intent
  BY <1>3, NoContinuationFine, FineSame DEF QueueOnly
<1> HIDE DEF b
<1>8. c \in Database /\ Fine(a, c) /\ c.intent = a.intent BY <1>7, CaptureFine, FineTransitive
<1> HIDE DEF c
<1>9. e \in Database /\ Fine(a, e) /\ e.intent = a.intent BY <1>8, FinishFine, FineTransitive
<1> HIDE DEF e
<1>10. Fine(a, f) /\ f.intent = a.intent
  <2>1. f \in Database /\ Fine(e, f) /\ f.intent = e.intent BY <1>9, RunFine, Zenon
  <2> HIDE DEF f
  <2> QED BY <1>9, <2>1, FineTransitive
<1> HIDE DEF f
<1>11. Unsettled(f) BY <1>5, <1>10 DEF Unsettled
<1> QED BY <1>0, <1>6, <1>10, <1>11, KeptThenFine

\* Its second pass: what is certainly unsent goes back, every other open row is settled.
LEMMA RecoverIntentsKept ==
  ASSUME NEW d, Sound(d), Unsettled(d)
  PROVE  Kept(d, RecoverIntents(d)) /\ Settled(RecoverIntents(d))
<1> DEFINE open == {i \in Ids : d.intent[i].status = "running" \/ d.intent[i].awaiting}
           unsent == {i \in open : d.intent[i].sub = 0 /\ ~d.intent[i].acked}
           sent == open \ unsent
           unsure == {i \in sent : ~d.intent[i].acked}
           a == Defer(d, unsent)
           b == MarkUncertain(a, unsure)
           c == Mark(b, sent, "failed")
           e == Hold(c, "manual")
<1>0. RecoverIntents(d) = c \/ RecoverIntents(d) = e BY DEF RecoverIntents
<1>1. d \in Database BY DEF Sound
<1>2. \A i \in Ids : i \in open => d.intent[i].kind # "none" BY DEF Sound, RowInv
<1>3. \A i \in unsent : d.intent[i].sub = 0 /\ i \in open /\ i \notin sent /\ i \notin unsure OBVIOUS
<1>4. \A i \in unsure : i \in sent /\ d.intent[i].sub # 0 OBVIOUS
<1>5. \A i \in sent : i \in open /\ i \notin unsent OBVIOUS
<1>6. \A i \in Ids : i \notin sent /\ i \notin unsent =>
        ~(d.intent[i].status = "running" \/ d.intent[i].awaiting) /\ i \notin unsure
  OBVIOUS
<1> HIDE DEF open, unsent, sent, unsure
<1>7. a \in Database /\ RowsOnly(d, a) /\ \A i \in Ids \ unsent : a.intent[i] = d.intent[i]
  BY <1>1, DeferRows
<1>8. ASSUME NEW i \in Ids \cap unsent
      PROVE  /\ a.intent[i].status = "queued" /\ ~a.intent[i].uncertain /\ ~a.intent[i].awaiting
             /\ a.intent[i].kind = d.intent[i].kind
  BY <1>1, <1>8, DeferRows
<1> HIDE DEF a
<1>9. b \in Database /\ RowsOnly(a, b) /\ \A i \in Ids \ unsure : b.intent[i] = a.intent[i]
  BY <1>7, UncertainRows
<1>10. ASSUME NEW i \in Ids \cap unsure
       PROVE  b.intent[i].kind = a.intent[i].kind /\ b.intent[i].sub = a.intent[i].sub
  BY <1>7, <1>10, UncertainRows
<1> HIDE DEF b
<1>11. "failed" \in Statuses /\ "manual" \in Reasons BY DEF Statuses, Reasons
<1>12. c \in Database /\ RowsOnly(b, c) /\ \A i \in Ids \ sent : c.intent[i] = b.intent[i]
  BY <1>9, <1>11, MarkRows
<1>13. ASSUME NEW i \in Ids \cap sent
       PROVE  /\ c.intent[i].status = "failed" /\ c.intent[i].kind = b.intent[i].kind
              /\ c.intent[i].uncertain = b.intent[i].uncertain /\ c.intent[i].sub = b.intent[i].sub
  BY <1>9, <1>11, <1>13, MarkRows
<1> HIDE DEF c
<1>14. ASSUME NEW i \in Ids
       PROVE  /\ RowInv(c.intent[i])
              /\ d.intent[i].kind # "none" => c.intent[i].kind = d.intent[i].kind
              /\ d.intent[i].uncertain => c.intent[i].status \notin WaitingStates
              /\ c.intent[i].uncertain => c.intent[i].status = "failed"
  <2>0. RowInv(d.intent[i]) BY DEF Sound
  <2>1. CASE i \in unsent
    <3>1. c.intent[i] = a.intent[i] BY <1>3, <1>9, <1>12, <2>1
    <3>2. /\ a.intent[i].status = "queued" /\ ~a.intent[i].uncertain /\ ~a.intent[i].awaiting
          /\ a.intent[i].kind = d.intent[i].kind
      BY <1>8, <2>1
    <3>3. d.intent[i].kind # "none" /\ ~d.intent[i].uncertain BY <1>2, <1>3, <2>0, <2>1 DEF RowInv
    <3> QED BY <3>1, <3>2, <3>3 DEF RowInv
  <2>2. CASE i \in unsure
    <3>1. i \in sent /\ i \notin unsent /\ d.intent[i].sub # 0 /\ d.intent[i].kind # "none"
      BY <1>2, <1>4, <1>5, <2>2
    <3>2. a.intent[i] = d.intent[i] BY <1>7, <3>1
    <3>3. c.intent[i].status = "failed" /\ c.intent[i].kind = d.intent[i].kind
          /\ c.intent[i].sub = d.intent[i].sub
      BY <1>10, <1>13, <2>2, <3>1, <3>2
    <3> QED BY <3>1, <3>3 DEF RowInv, WaitingStates
  <2>3. CASE i \in sent /\ i \notin unsure
    <3>1. i \notin unsent /\ d.intent[i].kind # "none" BY <1>2, <1>5, <2>3
    <3>2. b.intent[i] = d.intent[i] BY <1>7, <1>9, <2>3, <3>1
    <3>3. /\ c.intent[i].status = "failed" /\ c.intent[i].kind = d.intent[i].kind
          /\ c.intent[i].sub = d.intent[i].sub /\ c.intent[i].uncertain = d.intent[i].uncertain
      BY <1>13, <2>3, <3>2
    <3> QED BY <2>0, <3>1, <3>3 DEF RowInv, WaitingStates
  <2>4. CASE i \notin sent /\ i \notin unsent
    <3>1. ~(d.intent[i].status = "running" \/ d.intent[i].awaiting) /\ i \notin unsure BY <1>6, <2>4
    <3>2. c.intent[i] = d.intent[i] BY <1>7, <1>9, <1>12, <2>4, <3>1
    <3>3. d.intent[i].uncertain => d.intent[i].status = "failed" BY <3>1 DEF Unsettled
    <3> QED BY <2>0, <3>2, <3>3 DEF RowInv
  <2> QED BY <2>1, <2>2, <2>3, <2>4
<1>15. Kept(d, c) /\ Settled(c)
  <2>1. Marked(c) BY <1>7, <1>9, <1>12 DEF Sound, Marked, RowsOnly
  <2> QED BY <1>12, <1>14, <2>1 DEF Kept, Sound, Settled
<1>16. Fine(c, e) BY <1>11, <1>12, HoldFine
<1> HIDE DEF e
<1>17. Kept(d, e) /\ Settled(e) BY <1>15, <1>16, KeptThenFine, FineSound DEF Kept
<1> QED BY <1>0, <1>15, <1>17

\* Its third: what is left of the queue is held.
LEMMA HoldAtStartupFine ==
  ASSUME NEW d \in Database
  PROVE  Fine(d, HoldAtStartup(d))
<1> DEFINE reason == CASE d.q.reason \in {"stopped", "not_sent"} -> d.q.reason
                       [] d.q.reason \notin {"stopped", "not_sent"} /\ UncertainOf(d) # {} -> "uncertain"
                       [] d.q.reason \notin {"stopped", "not_sent"} /\ UncertainOf(d) = {} ->
                            CASE d.q.limited -> "limit"
                              [] ~d.q.limited /\ d.q.cont -> "restart"
                              [] OTHER -> "not_sent"
<1>0. HoldAtStartup(d) = d \/ HoldAtStartup(d) = Hold(d, reason) BY DEF HoldAtStartup
<1>1. reason \in Reasons
  <2>1. (CASE d.q.limited -> "limit" [] ~d.q.limited /\ d.q.cont -> "restart" [] OTHER -> "not_sent")
          \in Reasons
    BY DEF Reasons
  <2>2. "uncertain" \in Reasons /\ d.q.reason \in Reasons BY QueueFields DEF Reasons
  <2> QED BY <2>1, <2>2
<1> HIDE DEF reason
<1> QED BY <1>0, <1>1, HoldFine, FineSame

\* And continued, when the restart may do so.
LEMMA DecideRestartGrown ==
  ASSUME NEW d \in Database, NEW candidate, candidate => Unused(d) # {}
  PROVE  Grown(d, DecideRestart(d, candidate))
<1> DEFINE held == HoldAtStartup(d)
           n == held.streak + 1
           counted == [held EXCEPT !.streak = n]
<1>1. held \in Database /\ Fine(d, held) BY HoldAtStartupFine, FineType
<1>2. \/ DecideRestart(d, candidate) = held
      \/ candidate /\ DecideRestart(d, candidate) = ResumeQueue(counted)
      \/ DecideRestart(d, candidate) = counted
  <2>1. CASE ~candidate \/ ~MayContinue(held) BY <2>1 DEF DecideRestart
  <2>2. CASE candidate /\ MayContinue(held) /\ MayResume(counted) BY <2>2 DEF DecideRestart
  <2>3. CASE candidate /\ MayContinue(held) /\ ~MayResume(counted) BY <2>3 DEF DecideRestart
  <2> QED BY <2>1, <2>2, <2>3
<1> HIDE DEF held
<1>3. n \in Nat BY <1>1, DatabaseFields
<1> HIDE DEF n
<1>4. counted \in Database /\ Fine(held, counted) BY <1>1, <1>3, StreakFine, Zenon
<1> HIDE DEF counted
<1>5. Fine(d, counted) BY <1>1, <1>4, FineTransitive
<1>6. Grown(d, held) /\ Grown(d, counted) /\ Unused(counted) = Unused(d) BY <1>1, <1>5, FineGrown
<1>7. candidate => Grown(d, ResumeQueue(counted)) BY <1>4, <1>6, ResumeGrown, GrownTransitive
<1> QED BY <1>2, <1>6, <1>7

-----------------------------------------------------------------------------
(* The parts of the invariant. *)

Hands == [pc: Phases, id: 0..MaxIntents, token: Nat, gen: Nat, steered: BOOLEAN, cont: BOOLEAN,
          lim: BOOLEAN, err: {"none", "deferred", "not_started", "refused", "other"}]
Actors == [session: Nat, gen: Nat, life: {"none", "open", "aborted"}, closing: Nat,
           closer: {"none", "stop"} \cup Lanes, stop: BOOLEAN]
Frames == [t: {"admit", "start", "wake", "end", "interrupted", "quota", "exit"}, gen: Nat,
           id: 0..MaxIntents, reset: BOOLEAN]
Inputs == [id: Ids, steer: BOOLEAN]
Providers == [proc: Nat, busy: BOOLEAN, wire: Seq(Inputs)]

RowsInv ==
  /\ host \in [up: {"up", "threads", "intents", "queues"}, candidate: BOOLEAN]
  /\ Sound(db) /\ IF host.up \in {"up", "queues"} THEN Settled(db) ELSE Unsettled(db)
HandsInv ==
  /\ lane \in [Lanes -> Hands]
  /\ \A l \in Lanes : LaneInv(lane[l]) /\ (lane[l].pc # "idle" => Running)
ActorInv == actor \in Actors /\ actor.session \in {0, actor.gen}
CloserInv == actor.closer \in Lanes => lane[actor.closer].pc = "closing"
FramesInv ==
  frames \in Seq(Frames) /\ \A k \in DOMAIN frames : frames[k].t = "exit" => frames[k].gen # 0
ProvInv == prov \in Providers
RestInv == spent \in [Events -> Nat] /\ got \in [Ids -> Nat] /\ wish \in {"none", "pause", "stop"}

\* Together they are the invariant.
LEMMA InvParts ==
  QueueInv <=> RowsInv /\ HandsInv /\ ActorInv /\ CloserInv /\ FramesInv /\ ProvInv /\ RestInv
<1>1. Sound(db) => db \in Database BY DEF Sound
<1> QED BY <1>1 DEF QueueInv, TypeOK, RowsInv, HandsInv, ActorInv, CloserInv, FramesInv, ProvInv,
                 RestInv, Hands, Actors, Frames, Inputs, Providers

\* In the next state too.
LEMMA InvPartsNext ==
  RowsInv' /\ HandsInv' /\ ActorInv' /\ CloserInv' /\ FramesInv' /\ ProvInv' /\ RestInv' => QueueInv'
<1>1. Sound(db') => db' \in Database BY DEF Sound
<1> QED BY <1>1 DEF QueueInv, TypeOK, RowsInv, HandsInv, ActorInv, CloserInv, FramesInv, ProvInv,
                 RestInv, Hands, Actors, Frames, Inputs, Providers

\* A database that stays.
LEMMA GoodSame ==
  ASSUME NEW d, Sound(d)
  PROVE  Good(d, d)
BY FineSame, FineGood DEF Sound

\* What a running daemon's rows are.
LEMMA RunningRows ==
  ASSUME RowsInv, Running
  PROVE  Sound(db) /\ Settled(db) /\ db \in Database
BY DEF RowsInv, Running, Sound

\* A good step of a running daemon.
LEMMA RowsKept ==
  ASSUME RowsInv, Running, host' = host, Good(db, db')
  PROVE  RowsInv' /\ Kept(db, db')
BY DEF RowsInv, Running, Good, Kept

\* A lane goes on with the row it claimed, or is done.
Moves(s, s2) ==
  /\ s2 \in Hands
  /\ s2.pc # "idle" => s.pc # "idle" /\ s2.id = s.id /\ (s2.pc # "chosen" => s.pc # "chosen")

LanesMove == lane' \in [Lanes -> Hands] /\ \A l \in Lanes : Moves(lane[l], lane'[l])
LaneMoves(l) == LanesMove /\ \A m \in Lanes \ {l} : lane'[m] = lane[m]

\* LaneInv over a database d.
LaneOver(d, s) ==
  s.pc # "idle" =>
    LET r == d.intent[s.id]
    IN  /\ s.id # 0 /\ r.kind # "none"
        /\ r.kind = "resume" /\ s.pc # "chosen" => r.status \notin WaitingStates

\* The row of a lane stays what it is.
LEMMA LaneKept ==
  ASSUME HandsInv, NEW d, Good(db, d), NEW l \in Lanes, NEW s2, Moves(lane[l], s2)
  PROVE  LaneOver(d, s2)
<1> SUFFICES ASSUME s2.pc # "idle"
             PROVE  /\ s2.id # 0 /\ d.intent[s2.id].kind # "none"
                    /\ d.intent[s2.id].kind = "resume" /\ s2.pc # "chosen"
                         => d.intent[s2.id].status \notin WaitingStates
  BY DEF LaneOver
<1> DEFINE i == lane[l].id
<1>1. lane[l].pc # "idle" /\ s2.id = i /\ (s2.pc # "chosen" => lane[l].pc # "chosen") BY DEF Moves
<1>2. /\ i # 0 /\ db.intent[i].kind # "none"
      /\ db.intent[i].kind = "resume" /\ lane[l].pc # "chosen"
           => db.intent[i].status \notin WaitingStates
  BY <1>1 DEF HandsInv, LaneInv
<1>3. i \in Ids
  <2>1. lane[l] \in Hands BY DEF HandsInv
  <2> QED BY <1>2, <2>1, IdFacts DEF Hands, Ids
<1>4. d.intent[i].kind = db.intent[i].kind BY <1>2, <1>3 DEF Good, Kept
<1>5. db.intent[i].kind = "resume" /\ d.intent[i].status \in WaitingStates
        => db.intent[i].status \in WaitingStates
  BY <1>3 DEF Good
<1> HIDE DEF i
<1> QED BY <1>1, <1>2, <1>4, <1>5

\* What the lanes must be in the next state.
LEMMA HandsNext ==
  ASSUME Running, host' = host, lane' \in [Lanes -> Hands], \A l \in Lanes : LaneOver(db', lane'[l])
  PROVE  HandsInv'
BY DEF HandsInv, LaneInv, LaneOver, Running

\* The rows of all lanes stay what they are.
LEMMA HandsKept ==
  ASSUME HandsInv, Running, host' = host, Good(db, db'), LanesMove
  PROVE  HandsInv'
<1>1. \A l \in Lanes : LaneOver(db', lane'[l]) BY LaneKept DEF LanesMove
<1> QED BY <1>1, HandsNext DEF LanesMove

\* One lane takes up a row.
LEMMA HandsTaken ==
  ASSUME HandsInv, Running, host' = host, Good(db, db'), NEW l \in Lanes, NEW s \in Hands,
         LaneOver(db', s), lane' = [lane EXCEPT ![l] = s]
  PROVE  HandsInv'
<1>1. lane \in [Lanes -> Hands] BY DEF HandsInv
<1>2. lane' \in [Lanes -> Hands] /\ lane'[l] = s /\ \A m \in Lanes : m # l => lane'[m] = lane[m]
  BY <1>1
<1>3. ASSUME NEW m \in Lanes PROVE LaneOver(db', lane'[m])
  <2>1. CASE m = l BY <1>2, <2>1
  <2>2. CASE m # l
    <3>1. Moves(lane[m], lane[m]) BY <1>1 DEF Moves
    <3>2. LaneOver(db', lane[m]) BY <3>1, LaneKept
    <3> QED BY <1>2, <2>2, <3>2
  <2> QED BY <2>1, <2>2
<1> QED BY <1>2, <1>3, HandsNext

\* The row a lane holds.
LEMMA HeldRow ==
  ASSUME HandsInv, NEW l \in Lanes, lane[l].pc # "idle"
  PROVE  /\ lane[l] \in Hands /\ lane[l].id \in Ids
         /\ db.intent[lane[l].id].kind # "none" /\ Row(l) = db.intent[lane[l].id]
         /\ db.intent[lane[l].id].kind = "resume" /\ lane[l].pc # "chosen"
              => db.intent[lane[l].id].status \notin WaitingStates
<1>1. lane[l] \in Hands BY DEF HandsInv
<1>2. /\ lane[l].id # 0 /\ db.intent[lane[l].id].kind # "none"
      /\ db.intent[lane[l].id].kind = "resume" /\ lane[l].pc # "chosen"
              => db.intent[lane[l].id].status \notin WaitingStates
  BY DEF HandsInv, LaneInv
<1>3. lane[l].id \in Ids BY <1>1, <1>2, IdFacts DEF Hands, Ids
<1> QED BY <1>1, <1>2, <1>3 DEF Row

\* Lanes that stay.
LEMMA LanesSame ==
  ASSUME HandsInv, lane' = lane
  PROVE  LanesMove
BY DEF HandsInv, LanesMove, Moves

\* One lane gets a new state.
LEMMA LaneSet ==
  ASSUME HandsInv, NEW l \in Lanes, NEW s, Moves(lane[l], s), lane' = [lane EXCEPT ![l] = s]
  PROVE  LaneMoves(l)
<1>1. lane \in [Lanes -> Hands] /\ s \in Hands BY DEF HandsInv, Moves
<1>2. lane' \in [Lanes -> Hands] /\ lane'[l] = s /\ \A m \in Lanes : m # l => lane'[m] = lane[m]
  BY <1>1
<1>3. \A m \in Lanes : Moves(lane[m], lane[m]) BY <1>1 DEF Moves
<1> QED BY <1>2, <1>3 DEF LanesMove, LaneMoves

\* A claimed lane goes to its next phase.
LEMMA GotoMoves ==
  ASSUME HandsInv, NEW l \in Lanes, lane[l].pc \notin {"idle", "chosen"},
         NEW pc \in Phases, pc \notin {"idle", "chosen"}, Goto(l, pc)
  PROVE  LaneMoves(l)
<1> DEFINE s == [lane[l] EXCEPT !.pc = pc]
<1>1. lane[l] \in Hands BY DEF HandsInv
<1>2. Moves(lane[l], s) BY <1>1 DEF Moves, Hands
<1>3. lane' = [lane EXCEPT ![l] = s] BY DEF Goto
<1> HIDE DEF s
<1> QED BY <1>2, <1>3, LaneSet

\* Or to its next phase with a generation to look after.
LEMMA GotoGeneration ==
  ASSUME HandsInv, NEW l \in Lanes, lane[l].pc \notin {"idle", "chosen"},
         NEW pc \in Phases, pc \notin {"idle", "chosen"}, NEW g \in Nat,
         lane' = [lane EXCEPT ![l].pc = pc, ![l].gen = g]
  PROVE  LaneMoves(l)
<1> DEFINE s == [lane[l] EXCEPT !.pc = pc, !.gen = g]
<1>1. lane[l] \in Hands /\ lane \in [Lanes -> Hands] BY DEF HandsInv
<1>2. Moves(lane[l], s) BY <1>1 DEF Moves, Hands
<1>3. lane' = [lane EXCEPT ![l] = s] BY <1>1
<1> HIDE DEF s
<1> QED BY <1>2, <1>3, LaneSet

\* Or ends with an error.
LEMMA ThrowMoves ==
  ASSUME HandsInv, NEW l \in Lanes, lane[l].pc \notin {"idle", "chosen"},
         NEW err \in Errors, Throw(l, err)
  PROVE  LaneMoves(l)
<1> DEFINE s == [lane[l] EXCEPT !.pc = "settling", !.err = err]
<1>1. lane[l] \in Hands /\ lane \in [Lanes -> Hands] BY DEF HandsInv
<1>2. Moves(lane[l], s) BY <1>1 DEF Moves, Hands, Phases, Errors
<1>3. lane' = [lane EXCEPT ![l] = s] BY <1>1 DEF Throw
<1> HIDE DEF s
<1> QED BY <1>2, <1>3, LaneSet

\* Or is over.
LEMMA IdleMoves ==
  ASSUME HandsInv, NEW l \in Lanes, lane' = [lane EXCEPT ![l] = Idle]
  PROVE  LaneMoves(l)
<1>1. Idle \in Hands
  <2>1. 0 \in 0..MaxIntents /\ 0 \in Nat BY IdFacts
  <2> QED BY <2>1 DEF Idle, Hands, Phases
<1>2. Idle.pc = "idle" BY DEF Idle
<1>3. Moves(lane[l], Idle) BY <1>1, <1>2 DEF Moves
<1> QED BY <1>3, LaneSet

\* The budget of events.
LEMMA Spends ==
  ASSUME RestInv, NEW e \in Events, Happens(e)
  PROVE  spent' \in [Events -> Nat]
BY DEF RestInv, Happens

\* A step of a running daemon keeps the invariant when it keeps the parts it touches.
LEMMA LaneStep ==
  ASSUME QueueInv, Running, host' = host, Good(db, db'), HandsInv',
         ActorInv', CloserInv', FramesInv', ProvInv', RestInv'
  PROVE  QueueInv' /\ Kept(db, db')
<1>1. RowsInv BY InvParts
<1>2. RowsInv' /\ Kept(db, db') BY <1>1, RowsKept
<1> QED BY <1>2, InvPartsNext

\* As a step of one lane does that waits for no close.
LEMMA DeliverStep ==
  ASSUME QueueInv, Running, host' = host, Good(db, db'), NEW l \in Lanes, LaneMoves(l),
         lane[l].pc # "closing", actor'.closer = actor.closer,
         ActorInv', FramesInv', ProvInv', RestInv'
  PROVE  QueueInv' /\ Kept(db, db')
<1>1. HandsInv' BY InvParts, HandsKept DEF LaneMoves
<1>2. CloserInv' BY InvParts DEF CloserInv, LaneMoves
<1> QED BY <1>1, <1>2, LaneStep

\* And a step of no lane.
LEMMA RunningStep ==
  ASSUME QueueInv, Running, host' = host, Good(db, db'), lane' = lane,
         actor'.closer \in {actor.closer, "none", "stop"},
         ActorInv', FramesInv', ProvInv', RestInv'
  PROVE  QueueInv' /\ Kept(db, db')
<1>1. HandsInv' BY InvParts, LanesSame, HandsKept
<1>2. CloserInv' BY InvParts DEF CloserInv, Lanes
<1> QED BY <1>1, <1>2, LaneStep

-----------------------------------------------------------------------------
(* The lanes. *)

\* The row a lane chooses waits.
LEMMA ChosenRow ==
  ASSUME NEW d \in Database, NEW i \in SendChoice(d) \cup SteerChoice(d)
  PROVE  i \in Ids /\ d.intent[i].kind # "none" /\ d.intent[i].status \in WaitingStates
<1> DEFINE resumes == WaitingOf(d, "resume")
           sends == WaitingOf(d, "send")
           steers == {j \in WaitingOf(d, "send") : Steers(d, j)}
<1>1. resumes \subseteq Ids /\ sends \subseteq Ids /\ steers \subseteq sends BY DEF WaitingOf
<1>2. \A j \in resumes \cup sends :
        j \in Ids /\ d.intent[j].kind # "none" /\ d.intent[j].status \in WaitingStates
  BY DEF WaitingOf
<1>3. \/ resumes # {} /\ i = First(d, resumes)
      \/ sends # {} /\ i = First(d, sends)
      \/ steers # {} /\ i = First(d, steers)
  <2>1. CASE i \in SteerChoice(d) BY <2>1 DEF SteerChoice
  <2>2. CASE i \in SendChoice(d) BY <2>2 DEF SendChoice
  <2> QED BY <2>1, <2>2
<1> HIDE DEF resumes, sends, steers
<1>4. i \in resumes \cup sends BY <1>1, <1>3, FirstIn
<1> QED BY <1>2, <1>4

\* A lane picks the row it will deliver.
LEMMA ChooseStep ==
  ASSUME QueueInv, NEW l \in Lanes, Choose(l)
  PROVE  QueueInv' /\ Kept(db, db')
<1>1. RowsInv /\ HandsInv /\ ActorInv /\ CloserInv /\ FramesInv /\ ProvInv /\ RestInv /\ Running
  BY InvParts DEF Choose, At
<1>2. Sound(db) /\ db \in Database BY <1>1, RunningRows
<1>3. PICK i \in IF l = "send" THEN SendChoice(db) ELSE SteerChoice(db) :
        /\ lane' = [lane EXCEPT ![l] = [Idle EXCEPT !.pc = "chosen", !.id = i]]
        /\ db' = IF l = "send" /\ db.intent[i].kind = "send" THEN Mark(db, {i}, "queued") ELSE db
  BY DEF Choose
<1>4. i \in Ids /\ db.intent[i].kind # "none" /\ db.intent[i].status \in WaitingStates
  BY <1>2, ChosenRow
<1>5. Good(db, db')
  <2>1. RowInv(db.intent[i]) BY <1>2, <1>4 DEF Sound
  <2>2. "queued" \in Statuses /\ MayMark(db.intent[i], "queued")
    BY <1>4, <2>1 DEF Statuses, MayMark, RowInv
  <2>3. Fine(db, Mark(db, {i}, "queued")) BY <1>2, <1>4, <2>2, MarkFine
  <2>4. Good(db, Mark(db, {i}, "queued")) /\ Good(db, db) BY <1>2, <2>3, FineGood, GoodSame
  <2> QED BY <1>3, <2>4
<1> DEFINE s == [Idle EXCEPT !.pc = "chosen", !.id = i]
<1>6. s \in Hands /\ s.pc = "chosen" /\ s.id = i
  <2>1. 0 \in 0..MaxIntents /\ 0 \in Nat /\ i \in 0..MaxIntents BY <1>4, IdFacts
  <2> QED BY <2>1 DEF Idle, Hands, Phases
<1>7. lane' = [lane EXCEPT ![l] = s] BY <1>3
<1> HIDE DEF s
<1>8. LaneOver(db', s)
  <2>1. db'.intent[i].kind # "none" /\ i # 0 BY <1>4, <1>5, IdFacts DEF Good, Kept
  <2> QED BY <1>6, <2>1 DEF LaneOver
<1>9. host' = host /\ ActorInv' /\ FramesInv' /\ ProvInv' /\ RestInv'
  BY <1>1 DEF Choose, ActorInv, FramesInv, ProvInv, RestInv
<1>10. HandsInv' BY <1>1, <1>5, <1>6, <1>7, <1>8, <1>9, HandsTaken
<1>11. CloserInv'
  <2>1. lane[l].pc = "idle" /\ actor' = actor /\ lane \in [Lanes -> Hands]
    BY <1>1 DEF Choose, At, HandsInv
  <2> QED BY <1>1, <1>7, <2>1 DEF CloserInv
<1> QED BY <1>1, <1>5, <1>9, <1>10, <1>11, LaneStep

\* What a claim notes of the row.
Noted(s, pc, token, a, b, c) ==
  [s EXCEPT !.pc = pc, !.token = token, !.steered = a, !.cont = b, !.lim = c]

\* It has its type.
LEMMA ClaimedHands ==
  ASSUME NEW s \in Hands, NEW pc \in Phases, NEW token \in Nat, NEW a \in BOOLEAN, NEW b \in BOOLEAN,
         NEW c \in BOOLEAN
  PROVE  LET t == Noted(s, pc, token, a, b, c)
         IN  t \in Hands /\ t.pc = pc /\ t.id = s.id /\ t.err = s.err
BY DEF Noted, Hands

\* A claim finds the row settled, or takes it; a recovery with no continuation is then over.
LEMMA ClaimCases ==
  ASSUME QueueInv, NEW l \in Lanes, ClaimIntent(l)
  PROVE  LET i == lane[l].id
         IN  \/ lane' = [lane EXCEPT ![l] = Idle] /\ db' = db
             \/ /\ i \in Ids /\ db.intent[i].kind # "none" /\ db.intent[i].status \in WaitingStates
                /\ Near(db, db', i) /\ db'.intent[i].status = "running"
                /\ \E s \in Hands : /\ lane' = [lane EXCEPT ![l] = s] /\ s.id = i
                                    /\ s.err = lane[l].err /\ s.pc \in {"claimed", "settling"}
                                    /\ s.pc = "claimed" /\ db'.intent[i].kind = "resume"
                                         => Quiet(db'.intent[i])
<1> DEFINE i == lane[l].id
           steers == Steers(db, i)
           claimed == Claim(db, i, steers)
           resume == db.intent[i].kind = "resume"
           a == steers /\ db.run
           b == resume /\ db.q.cont
           c == resume /\ db.q.limited
           held == [lane[l] EXCEPT !.pc = "claimed", !.token = db.q.token,
                                   !.steered = a, !.cont = b, !.lim = c]
           over == [held EXCEPT !.pc = "settling"]
           begun == BeginSend(claimed, i, 0)
<1>1. RowsInv /\ HandsInv /\ Running BY InvParts DEF ClaimIntent, At
<1>2. Sound(db) /\ db \in Database BY <1>1, RunningRows
<1>3. lane[l] \in Hands /\ i \in Ids /\ db.intent[i].kind # "none" /\ Row(l) = db.intent[i]
  <2>1. lane[l].pc # "idle" BY DEF ClaimIntent, At
  <2> QED BY <1>1, <2>1, HeldRow
<1>4. \/ lane' = [lane EXCEPT ![l] = Idle] /\ db' = db
      \/ /\ db.intent[i].status \in WaitingStates
         /\ lane' = [lane EXCEPT ![l] = over] /\ db' = LimitCleared(begun)
      \/ /\ db.intent[i].status \in WaitingStates
         /\ lane' = [lane EXCEPT ![l] = held] /\ db' = claimed
  <2>1. CASE Row(l).status \notin WaitingStates BY <2>1 DEF ClaimIntent
  <2>2. CASE Row(l).status \in WaitingStates /\ resume /\ ~db.q.cont
    BY <1>3, <2>2 DEF ClaimIntent
  <2>3. CASE Row(l).status \in WaitingStates /\ ~(resume /\ ~db.q.cont)
    BY <1>3, <2>3 DEF ClaimIntent
  <2> QED BY <2>1, <2>2, <2>3
<1>5. held \in Hands /\ held.pc = "claimed" /\ held.id = i /\ held.err = lane[l].err
  <2>1. a \in BOOLEAN /\ b \in BOOLEAN /\ c \in BOOLEAN OBVIOUS
  <2>2. "claimed" \in Phases /\ db.q.token \in Nat /\ lane[l] \in Hands
    BY <1>2, <1>3, QueueFields DEF Phases
  <2> HIDE DEF a, b, c
  <2>3. held = Noted(lane[l], "claimed", db.q.token, a, b, c) BY DEF Noted
  <2> HIDE DEF held
  <2> QED BY <2>1, <2>2, <2>3, ClaimedHands
<1> HIDE DEF held
<1>6. over \in Hands /\ over.id = i /\ over.pc = "settling" /\ over.err = lane[l].err
  BY <1>5 DEF Hands, Phases
<1> HIDE DEF over, steers
<1>7. ASSUME db.intent[i].status \in WaitingStates
      PROVE  /\ claimed \in Database /\ Near(db, claimed, i) /\ claimed.intent[i].status = "running"
             /\ claimed.intent[i].kind = "resume" => Quiet(claimed.intent[i])
             /\ Near(db, LimitCleared(begun), i) /\ LimitCleared(begun).intent[i].status = "running"
  <2>1. claimed \in Database /\ Near(db, claimed, i) /\ claimed.intent[i].status = "running"
        /\ (claimed.intent[i].kind = "resume" => Quiet(claimed.intent[i]))
    BY <1>2, <1>3, <1>7, ClaimNear
  <2> HIDE DEF claimed
  <2>2. 0 \in 0..MaxIntents BY IdFacts
  <2>3. begun \in Database /\ Near(claimed, begun, i) /\ begun.intent[i].status = "running"
    BY <1>3, <2>1, <2>2, BeginSendNear
  <2> HIDE DEF begun
  <2>4. LimitCleared(begun).intent = begun.intent /\ Fine(begun, LimitCleared(begun))
    BY <2>3, LimitClearedFine
  <2>5. Near(db, begun, i) BY <2>1, <2>3, NearTransitive
  <2>6. Near(db, LimitCleared(begun), i) BY <2>4, <2>5, FineNear, NearTransitive
  <2> QED BY <2>1, <2>3, <2>4, <2>6
<1> HIDE DEF claimed, begun, resume
<1>8. CASE lane' = [lane EXCEPT ![l] = Idle] /\ db' = db BY <1>8
<1>9. CASE /\ db.intent[i].status \in WaitingStates
           /\ lane' = [lane EXCEPT ![l] = over] /\ db' = LimitCleared(begun)
  <2>1. Near(db, db', i) /\ db'.intent[i].status = "running" BY <1>7, <1>9
  <2>2. /\ over \in Hands /\ lane' = [lane EXCEPT ![l] = over] /\ over.id = i
        /\ over.err = lane[l].err /\ over.pc \in {"claimed", "settling"}
        /\ over.pc = "claimed" /\ db'.intent[i].kind = "resume" => Quiet(db'.intent[i])
    BY <1>6, <1>9
  <2> QED BY <1>3, <1>9, <2>1, <2>2
<1>10. CASE /\ db.intent[i].status \in WaitingStates
            /\ lane' = [lane EXCEPT ![l] = held] /\ db' = claimed
  <2>1. Near(db, db', i) /\ db'.intent[i].status = "running" BY <1>7, <1>10
  <2>2. /\ held \in Hands /\ lane' = [lane EXCEPT ![l] = held] /\ held.id = i
        /\ held.err = lane[l].err /\ held.pc \in {"claimed", "settling"}
        /\ held.pc = "claimed" /\ db'.intent[i].kind = "resume" => Quiet(db'.intent[i])
    BY <1>5, <1>7, <1>10
  <2> QED BY <1>3, <1>10, <2>1, <2>2
<1> QED BY <1>4, <1>8, <1>9, <1>10

\* A lane claims the row it chose.
LEMMA ClaimStep ==
  ASSUME QueueInv, NEW l \in Lanes, ClaimIntent(l)
  PROVE  QueueInv' /\ Kept(db, db')
<1> DEFINE i == lane[l].id
<1>1. RowsInv /\ HandsInv /\ ActorInv /\ CloserInv /\ FramesInv /\ ProvInv /\ RestInv /\ Running
  BY InvParts DEF ClaimIntent, At
<1>2. Sound(db) /\ db \in Database BY <1>1, RunningRows
<1>3. host' = host /\ ActorInv' /\ FramesInv' /\ ProvInv' /\ RestInv'
  BY <1>1 DEF ClaimIntent, ActorInv, FramesInv, ProvInv, RestInv
<1>4. CASE lane' = [lane EXCEPT ![l] = Idle] /\ db' = db
  <2>1. Good(db, db') BY <1>2, <1>4, GoodSame
  <2>2. LaneMoves(l) BY <1>1, <1>4, IdleMoves
  <2>3. lane[l].pc # "closing" /\ actor'.closer = actor.closer BY DEF ClaimIntent, At
  <2> QED BY <1>1, <1>3, <2>1, <2>2, <2>3, DeliverStep
<1>5. CASE /\ i \in Ids /\ db.intent[i].kind # "none"
           /\ Near(db, db', i) /\ db'.intent[i].status = "running"
           /\ \E s \in Hands : lane' = [lane EXCEPT ![l] = s] /\ s.id = i
  <2>1. PICK s \in Hands : lane' = [lane EXCEPT ![l] = s] /\ s.id = i BY <1>5
  <2>2. Good(db, db') BY <1>2, <1>5, NearGood
  <2>3. db'.intent[i].kind # "none" /\ i # 0 BY <1>5, <2>2, IdFacts DEF Good, Kept
  <2>4. LaneOver(db', s) BY <1>5, <2>1, <2>3 DEF LaneOver, WaitingStates
  <2>5. HandsInv' BY <1>1, <1>3, <2>1, <2>2, <2>4, HandsTaken
  <2>6. CloserInv'
    <3>1. lane[l].pc = "chosen" /\ actor' = actor /\ lane \in [Lanes -> Hands]
      BY <1>1 DEF ClaimIntent, At, HandsInv
    <3> QED BY <1>1, <2>1, <3>1 DEF CloserInv
  <2> QED BY <1>1, <1>3, <2>2, <2>5, <2>6, LaneStep
<1> QED BY <1>4, <1>5, ClaimCases

\* A session begins to close.
LEMMA BeginCloseActor ==
  ASSUME ActorInv, NEW closer \in {"stop"} \cup Lanes, BeginClose(closer)
  PROVE  ActorInv'
<1> DEFINE w == actor.stop /\ closer # "stop"
           a2 == [actor EXCEPT !.session = 0, !.closing = actor.session, !.closer = closer, !.stop = w]
<1>1. actor' = a2 BY DEF BeginClose
<1>2. w \in BOOLEAN OBVIOUS
<1> HIDE DEF w
<1>3. a2 \in Actors /\ a2.session = 0 BY <1>2 DEF ActorInv, Actors
<1> HIDE DEF a2
<1> QED BY <1>1, <1>3 DEF ActorInv

\* A lane closes the session of a limited account.
LEMMA CloseLimitedStep ==
  ASSUME QueueInv, NEW l \in Lanes, CloseLimited(l)
  PROVE  QueueInv' /\ Kept(db, db')
<1>1. RowsInv /\ HandsInv /\ ActorInv /\ CloserInv /\ FramesInv /\ ProvInv /\ RestInv /\ Running
  BY InvParts DEF CloseLimited, At
<1>2. Good(db, db') BY <1>1, RunningRows, GoodSame DEF CloseLimited
<1>3. LaneMoves(l)
  <2>1. lane[l].pc = "claimed" /\ Goto(l, "closing") BY DEF CloseLimited, At
  <2>2. "closing" \in Phases BY DEF Phases
  <2> QED BY <1>1, <2>1, <2>2, GotoMoves
<1>4. ActorInv' BY <1>1, BeginCloseActor DEF CloseLimited
<1>5. host' = host /\ FramesInv' /\ ProvInv' /\ RestInv'
  BY <1>1 DEF CloseLimited, FramesInv, ProvInv, RestInv
<1>6. HandsInv' BY <1>1, <1>2, <1>3, <1>5, HandsKept DEF LaneMoves
<1>7. CloserInv'
  <2>1. actor'.closer = l BY <1>1 DEF CloseLimited, BeginClose, ActorInv, Actors
  <2>2. lane'[l].pc = "closing" BY <1>1 DEF CloseLimited, Goto, HandsInv, Hands
  <2> QED BY <2>1, <2>2 DEF CloserInv
<1> QED BY <1>1, <1>2, <1>4, <1>5, <1>6, <1>7, LaneStep

\* An event of the budget, and the history unchanged.
LEMMA RestSpent ==
  ASSUME RestInv, NEW e \in Events, Happens(e), got' = got, wish' = wish
  PROVE  RestInv'
BY Spends DEF RestInv

\* Nothing spent.
LEMMA RestSame ==
  ASSUME RestInv, spent' = spent, got' = got, wish' = wish
  PROVE  RestInv'
BY DEF RestInv

\* A lane whose session did not open.
LEMMA NotOpenedMoves ==
  ASSUME HandsInv, NEW l \in Lanes, lane[l].pc \notin {"idle", "chosen"}, NotOpened(l)
  PROVE  LaneMoves(l)
<1> DEFINE err == IF Row(l).kind = "send" THEN "not_started" ELSE "other"
<1>1. err \in Errors BY DEF Errors
<1>2. Throw(l, err) BY DEF NotOpened
<1> HIDE DEF err
<1> QED BY <1>1, <1>2, ThrowMoves

\* What opening, failing to open and retiring make of the actor.
LEMMA ActorUpdates ==
  ASSUME NEW a \in Actors, a.session \in {0, a.gen}
  PROVE  /\ a.session = 0 =>
              LET b == [a EXCEPT !.gen = @ + 1, !.life = "open"]
              IN  b \in Actors /\ b.session \in {0, b.gen} /\ b.closer = a.closer
         /\ LET b == [a EXCEPT !.gen = @ + 1, !.life = "none", !.session = 0]
            IN  b \in Actors /\ b.session \in {0, b.gen} /\ b.closer = a.closer
         /\ LET b == [a EXCEPT !.session = a.gen]
            IN  b \in Actors /\ b.session \in {0, b.gen} /\ b.closer = a.closer
         /\ \A s \in BOOLEAN :
              LET b == [a EXCEPT !.stop = s]
              IN  b \in Actors /\ b.session \in {0, b.gen} /\ b.closer = a.closer
<1>1. \A g \in Nat : g + 1 \in Nat OBVIOUS
<1> QED BY <1>1 DEF Actors

\* A lane finds a session, or asks for one.
LEMMA OpenStep ==
  ASSUME QueueInv, NEW l \in Lanes, Open(l)
  PROVE  QueueInv' /\ Kept(db, db')
<1>1. RowsInv /\ HandsInv /\ ActorInv /\ CloserInv /\ FramesInv /\ ProvInv /\ RestInv /\ Running
  BY InvParts DEF Open, At
<1>2. Good(db, db') BY <1>1, RunningRows, GoodSame DEF Open
<1>3. lane[l].pc = "claimed" /\ host' = host /\ FramesInv' /\ ProvInv'
  BY <1>1 DEF Open, At, FramesInv, ProvInv
<1>4. got' = got /\ wish' = wish BY DEF Open
<1>5. CASE actor.session # 0 /\ Goto(l, "opened") /\ UNCHANGED <<actor, spent>>
  <2>1. LaneMoves(l)
    <3>1. "opened" \in Phases BY DEF Phases
    <3> QED BY <1>1, <1>3, <1>5, <3>1, GotoMoves
  <2>2. ActorInv' /\ RestInv' /\ actor'.closer = actor.closer BY <1>1, <1>4, <1>5 DEF ActorInv, RestInv
  <2> QED BY <1>1, <1>2, <1>3, <2>1, <2>2, DeliverStep
<1>6. CASE Happens("open") /\ NotOpened(l) /\ UNCHANGED actor
  <2>1. LaneMoves(l) BY <1>1, <1>3, <1>6, NotOpenedMoves
  <2>2. ActorInv' /\ actor'.closer = actor.closer BY <1>1, <1>6 DEF ActorInv
  <2>3. RestInv'
    <3>1. "open" \in Events BY DEF Events, Faults
    <3> QED BY <1>1, <1>4, <1>6, <3>1, RestSpent
  <2> QED BY <1>1, <1>2, <1>3, <2>1, <2>2, <2>3, DeliverStep
<1>7. CASE /\ actor.session = 0
           /\ actor' = [actor EXCEPT !.gen = @ + 1, !.life = "open"]
           /\ lane' = [lane EXCEPT ![l].pc = "opening", ![l].gen = actor.gen + 1]
           /\ UNCHANGED spent
  <2>1. LaneMoves(l)
    <3> DEFINE g == actor.gen + 1
    <3>1. g \in Nat BY <1>1 DEF ActorInv, Actors
    <3>2. "opening" \in Phases BY DEF Phases
    <3>3. lane' = [lane EXCEPT ![l].pc = "opening", ![l].gen = g] BY <1>7
    <3> HIDE DEF g
    <3> QED BY <1>1, <1>3, <3>1, <3>2, <3>3, GotoGeneration
  <2>2. ActorInv' /\ actor'.closer = actor.closer
    <3>1. actor \in Actors /\ actor.session \in {0, actor.gen} BY <1>1 DEF ActorInv
    <3> QED BY <1>7, <3>1, ActorUpdates DEF ActorInv
  <2>3. RestInv' BY <1>1, <1>4, <1>7 DEF RestInv
  <2> QED BY <1>1, <1>2, <1>3, <2>1, <2>2, <2>3, DeliverStep
<1> QED BY <1>5, <1>6, <1>7 DEF Open

\* An open that fails.
LEMMA OpenFailsStep ==
  ASSUME QueueInv, NEW l \in Lanes, At(l, "opening"), OpenFails(l), UNCHANGED <<frames, host, prov>>,
         RestInv'
  PROVE  QueueInv' /\ Kept(db, db')
<1>1. RowsInv /\ HandsInv /\ ActorInv /\ CloserInv /\ FramesInv /\ ProvInv /\ RestInv /\ Running
  BY InvParts DEF At
<1>2. lane[l].pc = "opening" /\ host' = host /\ FramesInv' /\ ProvInv' BY <1>1 DEF At, FramesInv, ProvInv
<1>3. LaneMoves(l) BY <1>1, <1>2, NotOpenedMoves DEF OpenFails
<1>4. Good(db, db')
  <2>1. Sound(db) /\ db \in Database BY <1>1, RunningRows
  <2>2. db' = db \/ db' = [db EXCEPT !.run = FALSE] BY DEF OpenFails
  <2>3. Fine(db, [db EXCEPT !.run = FALSE]) BY <2>1, RunFine, Zenon
  <2>4. Fine(db, db) BY <2>1, FineSame
  <2> QED BY <2>1, <2>2, <2>3, <2>4, FineGood
<1>5. ActorInv' /\ actor'.closer = actor.closer
  <2>1. actor \in Actors /\ actor.session \in {0, actor.gen} BY <1>1 DEF ActorInv
  <2>2. \/ actor' = actor
        \/ actor' = [actor EXCEPT !.gen = @ + 1, !.life = "none", !.session = 0]
    BY DEF OpenFails
  <2> QED BY <2>1, <2>2, ActorUpdates DEF ActorInv
<1> QED BY <1>1, <1>2, <1>3, <1>4, <1>5, DeliverStep

\* The open resolves.
LEMMA OpenEndsStep ==
  ASSUME QueueInv, NEW l \in Lanes, OpenEnds(l)
  PROVE  QueueInv' /\ Kept(db, db')
<1>1. RowsInv /\ HandsInv /\ ActorInv /\ CloserInv /\ FramesInv /\ ProvInv /\ RestInv /\ Running
  BY InvParts DEF OpenEnds, At
<1>2. /\ At(l, "opening") /\ lane[l].pc = "opening" /\ UNCHANGED <<frames, host, got, wish>>
      /\ FramesInv' /\ host' = host
  BY <1>1 DEF OpenEnds, At, FramesInv
<1>3. CASE /\ actor' = [actor EXCEPT !.session = actor.gen]
           /\ prov' = [NoProcess EXCEPT !.proc = actor.gen]
           /\ Goto(l, "opened")
           /\ UNCHANGED <<db, spent>>
  <2>1. LaneMoves(l)
    <3>1. "opened" \in Phases BY DEF Phases
    <3> QED BY <1>1, <1>2, <1>3, <3>1, GotoMoves
  <2>2. actor \in Actors /\ actor.session \in {0, actor.gen} BY <1>1 DEF ActorInv
  <2>3. ActorInv' /\ actor'.closer = actor.closer BY <1>3, <2>2, ActorUpdates DEF ActorInv
  <2>4. ProvInv'
    <3>1. actor.gen \in Nat BY <2>2 DEF Actors
    <3>2. <<>> \in Seq(Inputs) OBVIOUS
    <3> QED BY <1>3, <3>1, <3>2 DEF ProvInv, NoProcess, Providers
  <2>5. RestInv' BY <1>1, <1>2, <1>3 DEF RestInv
  <2>6. Good(db, db') BY <1>1, <1>3, RunningRows, GoodSame
  <2> QED BY <1>1, <1>2, <2>1, <2>3, <2>4, <2>5, <2>6, DeliverStep
<1>4. CASE OpenFails(l) /\ UNCHANGED <<prov, spent>>
  <2>1. RestInv' BY <1>1, <1>2, <1>4 DEF RestInv
  <2> QED BY <1>2, <1>4, <2>1, OpenFailsStep
<1>5. CASE Happens("open") /\ OpenFails(l) /\ UNCHANGED prov
  <2>1. RestInv'
    <3>1. "open" \in Events BY DEF Events, Faults
    <3> QED BY <1>1, <1>2, <1>5, <3>1, RestSpent
  <2> QED BY <1>2, <1>5, <2>1, OpenFailsStep
<1> QED BY <1>3, <1>4, <1>5 DEF OpenEnds

\* A lane reads the session it sends to.
LEMMA InspectStep ==
  ASSUME QueueInv, NEW l \in Lanes, Inspect(l)
  PROVE  QueueInv' /\ Kept(db, db')
<1>1. RowsInv /\ HandsInv /\ ActorInv /\ CloserInv /\ FramesInv /\ ProvInv /\ RestInv /\ Running
  BY InvParts DEF Inspect, At
<1>2. Good(db, db') BY <1>1, RunningRows, GoodSame DEF Inspect
<1>3. lane[l].pc = "opened" /\ host' = host /\ ActorInv' /\ FramesInv' /\ ProvInv' /\ RestInv'
      /\ actor'.closer = actor.closer
  BY <1>1 DEF Inspect, At, ActorInv, FramesInv, ProvInv, RestInv
<1>4. LaneMoves(l)
  <2>1. \/ Throw(l, "deferred")
        \/ lane' = [lane EXCEPT ![l].pc = "preparing", ![l].gen = actor.gen]
    BY DEF Inspect
  <2>2. "deferred" \in Errors /\ "preparing" \in Phases /\ actor.gen \in Nat
    BY <1>1 DEF Errors, Phases, ActorInv, Actors
  <2> QED BY <1>1, <1>3, <2>1, <2>2, ThrowMoves, GotoGeneration
<1> QED BY <1>1, <1>2, <1>3, <1>4, DeliverStep

\* And checks that nothing superseded it.
LEMMA VerifyStep ==
  ASSUME QueueInv, NEW l \in Lanes, Verify(l)
  PROVE  QueueInv' /\ Kept(db, db')
<1>1. RowsInv /\ HandsInv /\ ActorInv /\ CloserInv /\ FramesInv /\ ProvInv /\ RestInv /\ Running
  BY InvParts DEF Verify, At
<1>2. Good(db, db') BY <1>1, RunningRows, GoodSame DEF Verify
<1>3. lane[l].pc = "preparing" /\ host' = host /\ ActorInv' /\ FramesInv' /\ ProvInv' /\ RestInv'
      /\ actor'.closer = actor.closer
  BY <1>1 DEF Verify, At, ActorInv, FramesInv, ProvInv, RestInv
<1>4. LaneMoves(l)
  <2>1. Throw(l, "deferred") \/ Goto(l, "ready") BY DEF Verify
  <2>2. "deferred" \in Errors /\ "ready" \in Phases BY DEF Errors, Phases
  <2> QED BY <1>1, <1>3, <2>1, <2>2, ThrowMoves, GotoMoves
<1> QED BY <1>1, <1>2, <1>3, <1>4, DeliverStep

\* The preparation throws.
LEMMA PrepareFailsStep ==
  ASSUME QueueInv, NEW l \in Lanes, PrepareFails(l)
  PROVE  QueueInv' /\ Kept(db, db')
<1>1. RowsInv /\ HandsInv /\ ActorInv /\ CloserInv /\ FramesInv /\ ProvInv /\ RestInv /\ Running
  BY InvParts DEF PrepareFails
<1>2. Good(db, db') BY <1>1, RunningRows, GoodSame DEF PrepareFails
<1>3. lane[l].pc \in {"preparing", "ready"} /\ host' = host /\ ActorInv' /\ FramesInv' /\ ProvInv'
      /\ actor'.closer = actor.closer
  BY <1>1 DEF PrepareFails, ActorInv, FramesInv, ProvInv
<1>4. RestInv'
  <2>1. "prepare" \in Events BY DEF Events, Faults
  <2> QED BY <1>1, <2>1, RestSpent DEF PrepareFails
<1>5. LaneMoves(l)
  <2>1. Throw(l, "other") \/ Throw(l, "not_started") BY DEF PrepareFails
  <2>2. "other" \in Errors /\ "not_started" \in Errors BY DEF Errors
  <2> QED BY <1>1, <1>3, <2>1, <2>2, ThrowMoves
<1> QED BY <1>1, <1>2, <1>3, <1>4, <1>5, DeliverStep

\* A continuation goes on, or finds a newer hold.
LEMMA BeginContinuationStep ==
  ASSUME QueueInv, NEW l \in Lanes, BeginContinuation(l)
  PROVE  QueueInv' /\ Kept(db, db')
<1> DEFINE i == lane[l].id
           cleared == LimitCleared(db)
           begun == BeginSend(cleared, i, i)
<1>1. RowsInv /\ HandsInv /\ ActorInv /\ CloserInv /\ FramesInv /\ ProvInv /\ RestInv /\ Running
  BY InvParts DEF BeginContinuation, At
<1>2. lane[l].pc = "opened" /\ host' = host /\ ActorInv' /\ FramesInv' /\ ProvInv' /\ RestInv'
      /\ actor'.closer = actor.closer
  BY <1>1 DEF BeginContinuation, At, ActorInv, FramesInv, ProvInv, RestInv
<1>3. Sound(db) /\ db \in Database BY <1>1, RunningRows
<1>4. Good(db, db')
  <2>1. i \in Ids /\ db.intent[i].kind # "none" /\ db.intent[i].status \notin WaitingStates
    BY <1>1, <1>2, HeldRow DEF BeginContinuation
  <2>2. db' = db \/ db' = begun BY DEF BeginContinuation
  <2>3. cleared \in Database /\ cleared.intent = db.intent /\ Fine(db, cleared)
    BY <1>3, LimitClearedFine
  <2> HIDE DEF cleared
  <2>4. i \in 0..MaxIntents BY <2>1, IdFacts
  <2> HIDE DEF i
  <2>5. Near(cleared, begun, i) BY <2>1, <2>3, <2>4, BeginSendNear
  <2> HIDE DEF begun
  <2>6. Good(db, begun) BY <1>3, <2>3, <2>5, FineNear, NearTransitive, NearGood
  <2> QED BY <1>3, <2>2, <2>6, GoodSame
<1>5. LaneMoves(l)
  <2>1. \/ Goto(l, "settling") \/ Throw(l, "other")
        \/ lane' = [lane EXCEPT ![l].pc = "ready", ![l].gen = actor.session]
    BY DEF BeginContinuation
  <2>2. "other" \in Errors /\ "settling" \in Phases /\ "ready" \in Phases /\ actor.session \in Nat
    BY <1>1 DEF Errors, Phases, ActorInv, Actors
  <2> QED BY <1>1, <1>2, <2>1, <2>2, ThrowMoves, GotoMoves, GotoGeneration
<1> QED BY <1>1, <1>2, <1>4, <1>5, DeliverStep

\* The wire of the provider process.
LEMMA WireSet ==
  ASSUME NEW p \in Providers, NEW w \in Seq(Inputs), NEW busy \in BOOLEAN
  PROVE  [p EXCEPT !.wire = w] \in Providers /\ [p EXCEPT !.wire = w, !.busy = busy] \in Providers
BY DEF Providers

\* An input is taken off it.
LEMMA WireTaken ==
  ASSUME NEW w \in Seq(Inputs), NEW k \in DOMAIN w
  PROVE  RemoveAt(w, k) \in Seq(Inputs)
<1>1. Len(w) \in Nat /\ DOMAIN w = 1..Len(w) /\ k \in 1..Len(w) OBVIOUS
<1>2. SubSeq(w, 1, k - 1) \in Seq(Inputs) BY <1>1
<1>3. SubSeq(w, k + 1, Len(w)) \in Seq(Inputs) BY <1>1
<1> QED BY <1>2, <1>3 DEF RemoveAt

\* The input goes to the session.
LEMMA DispatchStep ==
  ASSUME QueueInv, NEW l \in Lanes, Dispatch(l)
  PROVE  QueueInv' /\ Kept(db, db')
<1> DEFINE i == lane[l].id
           send == Row(l).kind = "send"
           g == IF send THEN lane[l].gen ELSE actor.gen
           steer == send /\ Row(l).steer
           input == [id |-> i, steer |-> steer]
<1>1. RowsInv /\ HandsInv /\ ActorInv /\ CloserInv /\ FramesInv /\ ProvInv /\ RestInv /\ Running
  BY InvParts DEF Dispatch, At
<1>2. lane[l].pc = "ready" /\ host' = host /\ ActorInv' /\ FramesInv' /\ RestInv'
      /\ actor'.closer = actor.closer
  BY <1>1 DEF Dispatch, At, ActorInv, FramesInv, RestInv
<1>3. Sound(db) /\ Settled(db) /\ db \in Database BY <1>1, RunningRows
<1>4. lane[l] \in Hands /\ i \in Ids BY <1>1, <1>2, HeldRow
<1>5. \/ LastCheck(l) # "none" /\ Throw(l, LastCheck(l)) /\ UNCHANGED <<db, prov>>
      \/ /\ db' = Submit(db, i, g) /\ Goto(l, "sending")
         /\ \/ prov' = prov
            \/ prov' = [prov EXCEPT !.wire = Append(prov.wire, input)]
  BY DEF Dispatch
<1>6. Good(db, db')
  <2>1. g \in Nat BY <1>1, <1>4 DEF Hands, ActorInv, Actors
  <2> HIDE DEF g
  <2>2. Good(db, Submit(db, i, g)) BY <1>3, <1>4, <2>1, SubmitNear, NearGood
  <2> QED BY <1>3, <1>5, <2>2, GoodSame
<1>7. LaneMoves(l)
  <2>1. LastCheck(l) \in Errors \cup {"none"} BY DEF LastCheck, Errors
  <2>2. "sending" \in Phases BY DEF Phases
  <2> QED BY <1>1, <1>2, <1>5, <2>1, <2>2, ThrowMoves, GotoMoves
<1>8. ProvInv'
  <2>1. prov \in Providers /\ prov.wire \in Seq(Inputs) BY <1>1 DEF ProvInv, Providers
  <2>2. steer \in BOOLEAN OBVIOUS
  <2> HIDE DEF steer
  <2>3. input \in Inputs BY <1>4, <2>2 DEF Inputs
  <2> HIDE DEF input
  <2>4. Append(prov.wire, input) \in Seq(Inputs) BY <2>1, <2>3
  <2>5. [prov EXCEPT !.wire = Append(prov.wire, input)] \in Providers
    <3> DEFINE w == Append(prov.wire, input)
    <3> HIDE DEF w
    <3>1. [prov EXCEPT !.wire = w] \in Providers BY <2>1, <2>4, WireSet, Zenon DEF w
    <3> QED BY <3>1 DEF w
  <2> QED BY <1>5, <2>1, <2>5 DEF ProvInv
<1> QED BY <1>1, <1>2, <1>6, <1>7, <1>8, DeliverStep

\* The session's answer.
LEMMA SendReturnsStep ==
  ASSUME QueueInv, NEW l \in Lanes, SendReturns(l)
  PROVE  QueueInv' /\ Kept(db, db')
<1>1. RowsInv /\ HandsInv /\ ActorInv /\ CloserInv /\ FramesInv /\ ProvInv /\ RestInv /\ Running
  BY InvParts DEF SendReturns, At
<1>2. Good(db, db') BY <1>1, RunningRows, GoodSame DEF SendReturns
<1>3. lane[l].pc = "sending" /\ host' = host /\ ActorInv' /\ FramesInv' /\ got' = got /\ wish' = wish
      /\ actor'.closer = actor.closer
  BY <1>1 DEF SendReturns, At, ActorInv, FramesInv
<1>4. LaneMoves(l)
  <2>1. Goto(l, "settling") \/ Throw(l, "other") \/ Throw(l, "refused") BY DEF SendReturns
  <2>2. "other" \in Errors /\ "refused" \in Errors /\ "settling" \in Phases BY DEF Errors, Phases
  <2> QED BY <1>1, <1>3, <2>1, <2>2, ThrowMoves, GotoMoves
<1>5. RestInv'
  <2>1. spent' = spent \/ Happens("reject") \/ Happens("refuse") BY DEF SendReturns
  <2>2. "reject" \in Events /\ "refuse" \in Events BY DEF Events, Faults
  <2> QED BY <1>1, <1>3, <2>1, <2>2, RestSpent, RestSame
<1>6. ProvInv'
  <2>1. prov \in Providers /\ prov.wire \in Seq(Inputs) BY <1>1 DEF ProvInv, Providers
  <2>2. \/ prov' = prov
        \/ \E k \in DOMAIN prov.wire : prov' = [prov EXCEPT !.wire = RemoveAt(prov.wire, k)]
    BY DEF SendReturns, OnWire
  <2>3. ASSUME NEW k \in DOMAIN prov.wire
        PROVE  [prov EXCEPT !.wire = RemoveAt(prov.wire, k)] \in Providers
    <3>1. RemoveAt(prov.wire, k) \in Seq(Inputs) BY <2>1, WireTaken
    <3> QED BY <2>1, <3>1, WireSet, Zenon
  <2> QED BY <2>1, <2>2, <2>3 DEF ProvInv
<1> QED BY <1>1, <1>2, <1>3, <1>4, <1>5, <1>6, DeliverStep

\* The delivery is settled.
LEMMA SettleStep ==
  ASSUME QueueInv, NEW l \in Lanes, Settle(l)
  PROVE  QueueInv' /\ Kept(db, db')
<1> DEFINE s == lane[l]
<1>1. RowsInv /\ HandsInv /\ ActorInv /\ CloserInv /\ FramesInv /\ ProvInv /\ RestInv /\ Running
  BY InvParts DEF Settle, At
<1>2. s.pc = "settling" /\ host' = host /\ ActorInv' /\ FramesInv' /\ ProvInv' /\ RestInv'
      /\ actor'.closer = actor.closer /\ lane' = [lane EXCEPT ![l] = Idle]
  BY <1>1 DEF Settle, At, ActorInv, FramesInv, ProvInv, RestInv
<1>3. Sound(db) /\ Settled(db) BY <1>1, RunningRows
<1>4. s \in Hands /\ s.id \in Ids /\ db.intent[s.id].kind # "none" BY <1>1, <1>2, HeldRow
<1>5. Good(db, db')
  <2>1. Good(db, Delivered(db, s.id, s.token)) BY <1>3, <1>4, DeliveredNear, NearGood
  <2>2. s.err = "none" \/ s.err \in Errors BY <1>4 DEF Hands, Errors
  <2>3. s.steered \in BOOLEAN BY <1>4 DEF Hands
  <2>4. s.err \in Errors => Good(db, Undelivered(db, s.id, s.token, s.err, s.steered))
    BY <1>3, <1>4, <2>3, UndeliveredGood
  <2>5. db' = IF s.err = "none" THEN Delivered(db, s.id, s.token)
              ELSE Undelivered(db, s.id, s.token, s.err, s.steered)
    BY DEF Settle
  <2> QED BY <2>1, <2>2, <2>4, <2>5
<1>6. LaneMoves(l) BY <1>1, <1>2, IdleMoves
<1> QED BY <1>1, <1>2, <1>5, <1>6, DeliverStep

-----------------------------------------------------------------------------
(* The actor. *)

\* The end of a generation, and of a close.
LEMMA RetireActor ==
  ASSUME NEW a \in Actors
  PROVE  Retire(a) \in Actors /\ Retire(a).session = 0 /\ Retire(a).closer = a.closer
<1>1. \A g \in Nat : g + 1 \in Nat OBVIOUS
<1> QED BY <1>1 DEF Retire, Actors

\* A close that is over has no closer.
LEMMA CloseOverActor ==
  ASSUME NEW a \in Actors
  PROVE  /\ CloseOver(a) \in Actors /\ CloseOver(a).session = a.session /\ CloseOver(a).gen = a.gen
         /\ CloseOver(a).closer = "none"
         /\ \A n \in Nat : LET b == [CloseOver(a) EXCEPT !.session = n]
                           IN  b \in Actors /\ b.session = n /\ b.gen = a.gen /\ b.closer = "none"
BY DEF CloseOver, Actors

\* A close comes to its end: the lane that waits for it, if any, moves on.
LEMMA CloseStep ==
  ASSUME QueueInv, Running, host' = host, Good(db, db'),
         actor.closer \in Lanes => LaneMoves(actor.closer),
         actor.closer \notin Lanes => lane' = lane,
         actor'.closer = "none", ActorInv', FramesInv', ProvInv', RestInv'
  PROVE  QueueInv' /\ Kept(db, db')
<1>1. LanesMove BY InvParts, LanesSame DEF LaneMoves
<1>2. HandsInv' BY <1>1, InvParts, HandsKept
<1>3. CloserInv' BY DEF CloserInv, Lanes
<1> QED BY <1>2, <1>3, LaneStep

\* The process ended.
LEMMA CloseEndsStep ==
  ASSUME QueueInv, CloseEnds
  PROVE  QueueInv' /\ Kept(db, db')
<1>1. RowsInv /\ HandsInv /\ ActorInv /\ CloserInv /\ FramesInv /\ ProvInv /\ RestInv /\ Running
  BY InvParts DEF CloseEnds
<1>2. Sound(db) /\ db \in Database BY <1>1, RunningRows
<1>3. host' = host /\ FramesInv' /\ RestInv' BY <1>1 DEF CloseEnds, FramesInv, RestInv
<1>4. actor \in Actors /\ actor.session \in {0, actor.gen} /\ actor.gen \in Nat BY <1>1 DEF ActorInv, Actors
<1>5. Good(db, db')
  <2>1. db' = db \/ (actor.gen # 0 /\ db' = SessionExited(db, actor.gen, TRUE)) BY DEF CloseEnds
  <2>2. actor.gen # 0 => Good(db, SessionExited(db, actor.gen, TRUE))
    BY <1>2, <1>4, SessionExitedFine, FineGood
  <2> QED BY <1>2, <2>1, <2>2, GoodSame
<1>6. ActorInv' /\ actor'.closer = "none"
  <2>1. actor' = CloseOver(Retire(actor)) \/ actor' = CloseOver(actor) BY DEF CloseEnds
  <2>2. Retire(actor) \in Actors /\ Retire(actor).session = 0 BY <1>4, RetireActor
  <2> QED BY <1>4, <2>1, <2>2, CloseOverActor DEF ActorInv
<1>7. ProvInv'
  <2>1. NoProcess \in Providers
    <3>1. 0 \in Nat /\ <<>> \in Seq(Inputs) OBVIOUS
    <3> QED BY <3>1 DEF NoProcess, Providers
  <2> QED BY <1>1, <2>1 DEF CloseEnds, ProvInv
<1>8. actor.closer \in Lanes => LaneMoves(actor.closer)
  <2> HAVE actor.closer \in Lanes
  <2>1. lane[actor.closer].pc = "closing" /\ Goto(actor.closer, "claimed") /\ "claimed" \in Phases
    BY <1>1 DEF CloserInv, CloseEnds, AfterClose, Phases
  <2> QED BY <1>1, <2>1, GotoMoves
<1>9. actor.closer \notin Lanes => lane' = lane BY DEF CloseEnds, AfterClose
<1> QED BY <1>1, <1>3, <1>5, <1>6, <1>7, <1>8, <1>9, CloseStep

\* No exit acknowledgement came.
LEMMA CloseFailsStep ==
  ASSUME QueueInv, CloseFails
  PROVE  QueueInv' /\ Kept(db, db')
<1>1. RowsInv /\ HandsInv /\ ActorInv /\ CloserInv /\ FramesInv /\ ProvInv /\ RestInv /\ Running
  BY InvParts DEF CloseFails
<1>2. Sound(db) /\ db \in Database BY <1>1, RunningRows
<1>3. host' = host /\ FramesInv' /\ ProvInv' BY <1>1 DEF CloseFails, FramesInv, ProvInv
<1>4. RestInv'
  <2>1. "close" \in Events BY DEF Events, Faults
  <2> QED BY <1>1, <2>1, RestSpent DEF CloseFails
<1>5. actor \in Actors /\ actor.session \in {0, actor.gen} /\ actor.gen \in Nat /\ actor.closing \in Nat
  BY <1>1 DEF ActorInv, Actors
<1>6. \/ db' = db /\ actor' = CloseOver(actor)
      \/ actor.gen # 0 /\ db' = SessionExited(db, actor.gen, TRUE) /\ actor' = CloseOver(Retire(actor))
      \/ /\ actor.gen = actor.closing /\ db' = db
         /\ actor' = [CloseOver(actor) EXCEPT !.session = actor.closing]
  <2>1. CASE actor.gen # actor.closing BY <2>1 DEF CloseFails
  <2>2. CASE actor.gen = actor.closing /\ actor.closer = "stop" BY <2>2 DEF CloseFails
  <2>3. CASE actor.gen = actor.closing /\ actor.closer # "stop" BY <2>3 DEF CloseFails
  <2> QED BY <2>1, <2>2, <2>3
<1>7. Good(db, db')
  <2>1. actor.gen # 0 => Good(db, SessionExited(db, actor.gen, TRUE))
    BY <1>2, <1>5, SessionExitedFine, FineGood
  <2> QED BY <1>2, <1>6, <2>1, GoodSame
<1>8. ActorInv' /\ actor'.closer = "none"
  <2>1. Retire(actor) \in Actors /\ Retire(actor).session = 0 BY <1>5, RetireActor
  <2>2. CASE actor' = CloseOver(actor) BY <1>5, <2>2, CloseOverActor DEF ActorInv
  <2>3. CASE actor' = CloseOver(Retire(actor)) BY <2>1, <2>3, CloseOverActor DEF ActorInv
  <2>4. CASE /\ actor.gen = actor.closing
             /\ actor' = [CloseOver(actor) EXCEPT !.session = actor.closing]
    BY <1>5, <2>4, CloseOverActor DEF ActorInv
  <2> QED BY <1>6, <2>2, <2>3, <2>4
<1>9. actor.closer \in Lanes => LaneMoves(actor.closer)
  <2> HAVE actor.closer \in Lanes
  <2>1. lane[actor.closer].pc = "closing" /\ Throw(actor.closer, "other") /\ "other" \in Errors
    BY <1>1 DEF CloserInv, CloseFails, Errors
  <2> QED BY <1>1, <2>1, ThrowMoves
<1>10. actor.closer \notin Lanes => lane' = lane BY DEF CloseFails
<1> QED BY <1>1, <1>3, <1>4, <1>7, <1>8, <1>9, <1>10, CloseStep

-----------------------------------------------------------------------------
(* The provider and the mailbox. *)

\* An exit is of a process.
Mails == {f \in Frames : f.t = "exit" => f.gen # 0}

\* The mailbox holds such frames.
LEMMA MailboxType == FramesInv <=> frames \in Seq(Mails)
<1>1. ASSUME frames \in Seq(Mails) PROVE FramesInv
  <2>1. Mails \subseteq Frames BY DEF Mails
  <2>2. frames \in Seq(Frames) BY <1>1, <2>1
  <2>3. \A k \in DOMAIN frames : frames[k] \in Mails BY <1>1
  <2> QED BY <2>2, <2>3 DEF FramesInv, Mails
<1>2. ASSUME FramesInv PROVE frames \in Seq(Mails)
  <2>1. frames \in Seq(Frames) BY <1>2 DEF FramesInv
  <2>2. \A k \in 1..Len(frames) : frames[k] \in Mails BY <1>2, <2>1 DEF FramesInv, Mails
  <2> QED BY <2>1, <2>2
<1> QED BY <1>1, <1>2

\* In the next state too.
LEMMA MailboxNext ==
  ASSUME frames' \in Seq(Mails)
  PROVE  FramesInv'
<1>1. Mails \subseteq Frames BY DEF Mails
<1>2. frames' \in Seq(Frames) BY <1>1
<1>3. \A k \in DOMAIN frames' : frames'[k] \in Mails OBVIOUS
<1> QED BY <1>2, <1>3 DEF FramesInv, Mails

\* Frames the provider writes are put at its end.
LEMMA EmitFrames ==
  ASSUME FramesInv, NEW fs \in Seq(Mails), Emit(fs)
  PROVE  FramesInv'
<1>1. frames \in Seq(Mails) BY MailboxType
<1>2. frames' \in Seq(Mails) BY <1>1 DEF Emit
<1> QED BY <1>2, MailboxNext

\* The frames it writes.
LEMMA FrameType ==
  ASSUME ProvInv
  PROVE  /\ \A t \in {"start", "wake", "end", "interrupted"} : Frame(t) \in Mails
         /\ prov.proc # 0 => Frame("exit") \in Mails
         /\ \A i \in Ids : [Frame("admit") EXCEPT !.id = i] \in Mails
         /\ \A reset \in BOOLEAN : [Frame("quota") EXCEPT !.reset = reset] \in Mails
<1>1. prov.proc \in Nat BY DEF ProvInv, Providers
<1>2. 0 \in 0..MaxIntents /\ \A i \in Ids : i \in 0..MaxIntents BY IdFacts
<1> QED BY <1>1, <1>2 DEF Frame, Mails, Frames

\* The provider takes an input.
LEMMA ConsumeStep ==
  ASSUME QueueInv, Consume
  PROVE  QueueInv' /\ Kept(db, db')
<1>1. RowsInv /\ HandsInv /\ ActorInv /\ CloserInv /\ FramesInv /\ ProvInv /\ RestInv /\ Running
  BY InvParts DEF Consume
<1>2. Good(db, db') BY <1>1, RunningRows, GoodSame DEF Consume
<1>3. host' = host /\ ActorInv' /\ lane' = lane /\ actor'.closer = actor.closer
  BY <1>1 DEF Consume, ActorInv
<1>4. PICK k \in DOMAIN prov.wire :
        LET i == prov.wire[k].id
        IN  /\ prov' = [prov EXCEPT !.wire = RemoveAt(prov.wire, k), !.busy = TRUE]
            /\ got' = [got EXCEPT ![i] = @ + 1]
            /\ Emit((IF Admits THEN <<[Frame("admit") EXCEPT !.id = i]>> ELSE <<>>)
                      \o (IF prov.busy THEN <<>> ELSE <<Frame("start")>>))
  BY DEF Consume
<1> DEFINE i == prov.wire[k].id
           first == IF Admits THEN <<[Frame("admit") EXCEPT !.id = i]>> ELSE <<>>
           then == IF prov.busy THEN <<>> ELSE <<Frame("start")>>
<1>5. prov \in Providers /\ prov.wire \in Seq(Inputs) BY <1>1 DEF ProvInv, Providers
<1>6. i \in Ids
  <2>1. prov.wire[k] \in Inputs BY <1>5
  <2> QED BY <2>1 DEF Inputs
<1>7. ProvInv'
  <2>1. RemoveAt(prov.wire, k) \in Seq(Inputs) BY <1>5, WireTaken
  <2>2. [prov EXCEPT !.wire = RemoveAt(prov.wire, k), !.busy = TRUE] \in Providers
    BY <1>5, <2>1, WireSet, Zenon
  <2> QED BY <1>4, <2>2 DEF ProvInv
<1>8. RestInv'
  <2>1. got \in [Ids -> Nat] /\ \A n \in Nat : n + 1 \in Nat BY <1>1 DEF RestInv
  <2>2. got' = [got EXCEPT ![i] = got[i] + 1] BY <1>4
  <2>3. got' \in [Ids -> Nat] BY <1>6, <2>1, <2>2
  <2> QED BY <1>1, <2>3 DEF Consume, RestInv
<1>9. FramesInv'
  <2>1. [Frame("admit") EXCEPT !.id = i] \in Mails /\ Frame("start") \in Mails
    BY <1>1, <1>6, FrameType
  <2>2. first \in Seq(Mails) /\ then \in Seq(Mails) BY <2>1
  <2>3. Emit(first \o then) BY <1>4
  <2> HIDE DEF first, then
  <2>4. first \o then \in Seq(Mails) BY <2>2
  <2> QED BY <1>1, <2>3, <2>4, EmitFrames
<1> QED BY <1>1, <1>2, <1>3, <1>7, <1>8, <1>9, RunningStep

\* It starts a turn by itself.
LEMMA SelfStartStep ==
  ASSUME QueueInv, SelfStart
  PROVE  QueueInv' /\ Kept(db, db')
<1>1. RowsInv /\ HandsInv /\ ActorInv /\ CloserInv /\ FramesInv /\ ProvInv /\ RestInv /\ Running
  BY InvParts DEF SelfStart
<1>2. Good(db, db') BY <1>1, RunningRows, GoodSame DEF SelfStart
<1>3. host' = host /\ ActorInv' /\ lane' = lane /\ actor'.closer = actor.closer
  BY <1>1 DEF SelfStart, ActorInv
<1>4. ProvInv' BY <1>1 DEF SelfStart, ProvInv, Providers
<1>5. RestInv'
  <2>1. "self" \in Events BY DEF Events
  <2> QED BY <1>1, <2>1, RestSpent DEF SelfStart
<1>6. FramesInv'
  <2>1. PICK t \in {"start", "wake"} : Emit(<<Frame(t)>>) BY DEF SelfStart
  <2>2. Frame(t) \in Mails BY <1>1, FrameType
  <2>3. <<Frame(t)>> \in Seq(Mails) BY <2>2
  <2> QED BY <1>1, <2>1, <2>3, EmitFrames
<1> QED BY <1>1, <1>2, <1>3, <1>4, <1>5, <1>6, RunningStep

\* It ends a turn.
LEMMA EndTurnStep ==
  ASSUME QueueInv, EndTurn
  PROVE  QueueInv' /\ Kept(db, db')
<1>1. RowsInv /\ HandsInv /\ ActorInv /\ CloserInv /\ FramesInv /\ ProvInv /\ RestInv /\ Running
  BY InvParts DEF EndTurn
<1>2. Good(db, db') BY <1>1, RunningRows, GoodSame DEF EndTurn
<1>3. host' = host /\ ActorInv' /\ lane' = lane /\ actor'.closer = actor.closer
  BY <1>1 DEF EndTurn, ActorInv
<1>4. ProvInv' BY <1>1 DEF EndTurn, ProvInv, Providers
<1>5. RestInv'
  <2>1. "quota" \in Events BY DEF Events
  <2>2. spent' = spent \/ Happens("quota") BY DEF EndTurn
  <2> QED BY <1>1, <2>1, <2>2, RestSpent, RestSame DEF EndTurn
<1>6. FramesInv'
  <2>1. \/ Emit(<<Frame("end")>>)
        \/ \E reset \in BOOLEAN : Emit(<<[Frame("quota") EXCEPT !.reset = reset]>>)
    BY DEF EndTurn
  <2>2. CASE Emit(<<Frame("end")>>)
    <3>1. Frame("end") \in Mails BY <1>1, FrameType
    <3>2. <<Frame("end")>> \in Seq(Mails) BY <3>1
    <3> QED BY <1>1, <2>2, <3>2, EmitFrames
  <2>3. ASSUME NEW reset \in BOOLEAN, Emit(<<[Frame("quota") EXCEPT !.reset = reset]>>)
        PROVE  FramesInv'
    <3> DEFINE f == [Frame("quota") EXCEPT !.reset = reset]
    <3>1. f \in Mails BY <1>1, FrameType
    <3>2. Emit(<<f>>) BY <2>3
    <3> HIDE DEF f
    <3>3. <<f>> \in Seq(Mails) BY <3>1
    <3> QED BY <1>1, <3>2, <3>3, EmitFrames
  <2> QED BY <2>1, <2>2, <2>3
<1> QED BY <1>1, <1>2, <1>3, <1>4, <1>5, <1>6, RunningStep

\* It dies.
LEMMA DieStep ==
  ASSUME QueueInv, Die
  PROVE  QueueInv' /\ Kept(db, db')
<1>1. RowsInv /\ HandsInv /\ ActorInv /\ CloserInv /\ FramesInv /\ ProvInv /\ RestInv /\ Running
  BY InvParts DEF Die
<1>2. Good(db, db') BY <1>1, RunningRows, GoodSame DEF Die
<1>3. host' = host /\ ActorInv' /\ lane' = lane /\ actor'.closer = actor.closer
  BY <1>1 DEF Die, ActorInv
<1>4. ProvInv'
  <2>1. 0 \in Nat /\ <<>> \in Seq(Inputs) OBVIOUS
  <2> QED BY <2>1 DEF Die, ProvInv, NoProcess, Providers
<1>5. RestInv'
  <2>1. "die" \in Events BY DEF Events, Faults
  <2> QED BY <1>1, <2>1, RestSpent DEF Die
<1>6. FramesInv'
  <2>1. Frame("exit") \in Mails BY <1>1, FrameType DEF Die
  <2>2. <<Frame("exit")>> \in Seq(Mails) BY <2>1
  <2> QED BY <1>1, <2>2, EmitFrames DEF Die
<1> QED BY <1>1, <1>2, <1>3, <1>4, <1>5, <1>6, RunningStep

\* What a frame does to the rows and the actor.
LEMMA FoldFine ==
  ASSUME QueueInv, Fold
  PROVE  Fine(db, db') /\ (actor' = actor \/ actor' = Retire(actor))
<1> DEFINE f == Head(frames)
           ended == TurnEnded(db, actor.gen)
<1>1. RowsInv /\ FramesInv /\ Running BY InvParts DEF Fold
<1>2. Sound(db) /\ db \in Database BY <1>1, RunningRows
<1>3. frames \in Seq(Mails) /\ frames # <<>> BY <1>1, MailboxType DEF Fold
<1>4. f \in Mails BY <1>3
<1>5. \/ db' = db /\ actor' = actor
      \/ db' = InputAdmitted(db, f.id) /\ actor' = actor
      \/ db' = TurnStarted(db, f.t = "wake") /\ actor' = actor
      \/ db' = TurnCompleted(ended) /\ actor' = actor
      \/ db' = ended /\ actor' = actor
      \/ \E timer \in {"clear", "resume", "snooze"}, same \in BOOLEAN :
           db' = LimitReached(ended, f.reset, timer, same) /\ actor' = actor
      \/ /\ f.gen = actor.gen /\ f.t = "exit"
         /\ db' = SessionExited(db, actor.gen, FALSE) /\ actor' = Retire(actor)
  <2>1. f.t \in {"admit", "start", "wake", "end", "interrupted", "quota", "exit"}
    BY <1>4 DEF Mails, Frames
  <2>2. CASE f.gen # actor.gen BY <2>2 DEF Fold
  <2>3. CASE f.gen = actor.gen /\ f.t = "admit" BY <2>3 DEF Fold
  <2>4. CASE f.gen = actor.gen /\ f.t \in {"start", "wake"} BY <2>4 DEF Fold
  <2>5. CASE f.gen = actor.gen /\ f.t = "end" BY <2>5 DEF Fold
  <2>6. CASE f.gen = actor.gen /\ f.t = "interrupted" BY <2>6 DEF Fold
  <2>7. CASE f.gen = actor.gen /\ f.t = "quota" BY <2>7 DEF Fold
  <2>8. CASE f.gen = actor.gen /\ f.t = "exit" BY <2>8 DEF Fold
  <2> QED BY <2>1, <2>2, <2>3, <2>4, <2>5, <2>6, <2>7, <2>8
<1>6. Fine(db, db')
  <2>1. ended \in Database /\ Fine(db, ended) BY <1>2, TurnEndedFine
  <2> HIDE DEF ended
  <2>2. Fine(db, InputAdmitted(db, f.id)) /\ Fine(db, TurnStarted(db, f.t = "wake"))
    BY <1>2, InputAdmittedFine, TurnStartedFine
  <2>3. Fine(db, TurnCompleted(ended)) BY <2>1, TurnCompletedFine, FineTransitive
  <2>4. ASSUME NEW timer \in {"clear", "resume", "snooze"}, NEW same \in BOOLEAN
        PROVE  Fine(db, LimitReached(ended, f.reset, timer, same))
    <3>1. f.reset \in BOOLEAN /\ timer \in Timers BY <1>4 DEF Mails, Frames, Timers
    <3> QED BY <2>1, <3>1, LimitReachedFine, FineTransitive
  <2>5. f.gen = actor.gen /\ f.t = "exit" => Fine(db, SessionExited(db, actor.gen, FALSE))
    <3>1. f.t = "exit" => f.gen \in Nat \ {0} BY <1>4 DEF Mails, Frames
    <3> QED BY <1>2, <3>1, SessionExitedFine
  <2> HIDE DEF f
  <2>6. Fine(db, db) BY <1>2, FineSame
  <2> QED BY <1>5, <2>1, <2>2, <2>3, <2>4, <2>5, <2>6
<1> HIDE DEF f, ended
<1> QED BY <1>5, <1>6

\* The actor folds a frame.
LEMMA FoldStep ==
  ASSUME QueueInv, Fold
  PROVE  QueueInv' /\ Kept(db, db')
<1>1. RowsInv /\ HandsInv /\ ActorInv /\ CloserInv /\ FramesInv /\ ProvInv /\ RestInv /\ Running
  BY InvParts DEF Fold
<1>2. Sound(db) BY <1>1, RunningRows
<1>3. host' = host /\ lane' = lane /\ ProvInv' /\ RestInv' BY <1>1 DEF Fold, ProvInv, RestInv
<1>4. FramesInv'
  <2>1. frames \in Seq(Mails) /\ frames # <<>> /\ frames' = Tail(frames) BY <1>1, MailboxType DEF Fold
  <2>2. frames' \in Seq(Mails) BY <2>1
  <2> QED BY <2>2, MailboxNext
<1>5. Good(db, db') BY <1>2, FoldFine, FineGood
<1>6. ActorInv' /\ actor'.closer = actor.closer BY <1>1, FoldFine, RetireActor DEF ActorInv
<1> QED BY <1>1, <1>3, <1>4, <1>5, <1>6, RunningStep

\* The provider's turn is stopped.
LEMMA StopTurnStep ==
  ASSUME QueueInv, StopTurn
  PROVE  QueueInv' /\ Kept(db, db')
<1>1. RowsInv /\ HandsInv /\ ActorInv /\ CloserInv /\ FramesInv /\ ProvInv /\ RestInv /\ Running
  BY InvParts DEF StopTurn
<1>2. Good(db, db') BY <1>1, RunningRows, GoodSame DEF StopTurn
<1>3. host' = host /\ lane' = lane /\ got' = got /\ wish' = wish BY DEF StopTurn
<1>4. actor \in Actors /\ actor.session \in {0, actor.gen} BY <1>1 DEF ActorInv
<1>5. CASE /\ actor' = [actor EXCEPT !.stop = FALSE, !.life = IF @ = "open" THEN "aborted" ELSE @]
           /\ UNCHANGED <<frames, prov, spent>>
  <2>1. ActorInv' /\ actor'.closer = actor.closer BY <1>4, <1>5 DEF ActorInv, Actors
  <2>2. FramesInv' /\ ProvInv' /\ RestInv' BY <1>1, <1>3, <1>5 DEF FramesInv, ProvInv, RestInv
  <2> QED BY <1>1, <1>2, <1>3, <2>1, <2>2, RunningStep
<1>6. CASE /\ actor' = [actor EXCEPT !.stop = FALSE]
           /\ IF prov.busy
              THEN Emit(<<Frame("interrupted")>>) /\ prov' = [prov EXCEPT !.busy = FALSE]
              ELSE UNCHANGED <<frames, prov>>
           /\ UNCHANGED spent
  <2>1. ActorInv' /\ actor'.closer = actor.closer BY <1>4, <1>6 DEF ActorInv, Actors
  <2>2. RestInv' BY <1>1, <1>3, <1>6 DEF RestInv
  <2>3. ProvInv' BY <1>1, <1>6 DEF ProvInv, Providers
  <2>4. FramesInv'
    <3>1. Frame("interrupted") \in Mails BY <1>1, FrameType
    <3>2. <<Frame("interrupted")>> \in Seq(Mails) BY <3>1
    <3>3. CASE prov.busy BY <1>1, <1>6, <3>2, <3>3, EmitFrames
    <3>4. CASE ~prov.busy BY <1>1, <1>6, <3>4 DEF FramesInv
    <3> QED BY <3>3, <3>4
  <2> QED BY <1>1, <1>2, <1>3, <2>1, <2>2, <2>3, <2>4, RunningStep
<1>7. CASE Happens("interrupt") /\ BeginClose("stop") /\ UNCHANGED <<frames, prov>>
  <2>1. ActorInv' BY <1>1, <1>7, BeginCloseActor
  <2>2. actor'.closer = "stop" BY <1>4, <1>7 DEF BeginClose, Actors
  <2>3. RestInv'
    <3>1. "interrupt" \in Events BY DEF Events, Faults
    <3> QED BY <1>1, <1>3, <1>7, <3>1, RestSpent
  <2>4. FramesInv' /\ ProvInv' BY <1>1, <1>7 DEF FramesInv, ProvInv
  <2> QED BY <1>1, <1>2, <1>3, <2>1, <2>2, <2>3, <2>4, RunningStep
<1> QED BY <1>5, <1>6, <1>7 DEF StopTurn

-----------------------------------------------------------------------------
(* The person's commands. *)

\* A command of the person keeps the invariant when it makes a good step of the rows.
LEMMA CommandStep ==
  ASSUME QueueInv, NEW e \in Events, Command(e), Good(db, db'), ActorInv',
         actor'.closer = actor.closer, wish' \in {"none", "pause", "stop"}
  PROVE  QueueInv' /\ Kept(db, db')
<1>1. FramesInv /\ ProvInv /\ RestInv /\ Running BY InvParts DEF Command
<1>2. host' = host /\ lane' = lane /\ FramesInv' /\ ProvInv' BY <1>1 DEF Command, FramesInv, ProvInv
<1>3. RestInv'
  <2>1. spent' \in [Events -> Nat] BY <1>1, Spends DEF Command
  <2> QED BY <1>1, <2>1 DEF Command, RestInv
<1> QED BY <1>1, <1>2, <1>3, RunningStep

\* And when it leaves the actor alone.
LEMMA RowsCommandStep ==
  ASSUME QueueInv, NEW e \in Events, Command(e), actor' = actor,
         wish' \in {wish, "none", "pause", "stop"},
         Sound(db) /\ db \in Database => Good(db, db')
  PROVE  QueueInv' /\ Kept(db, db')
<1>1. RowsInv /\ ActorInv /\ RestInv /\ Running BY InvParts DEF Command
<1>2. Good(db, db') BY <1>1, RunningRows
<1>3. ActorInv' /\ actor'.closer = actor.closer /\ wish' \in {"none", "pause", "stop"}
  BY <1>1 DEF ActorInv, RestInv
<1> QED BY <1>2, <1>3, CommandStep

\* A message is sent.
LEMMA SendMessageStep ==
  ASSUME QueueInv, NEW steer \in BOOLEAN, SendMessage(steer)
  PROVE  QueueInv' /\ Kept(db, db')
<1> DEFINE e == IF steer THEN "steer" ELSE "send"
<1>1. e \in Events BY DEF Events, Commands
<1>2. Command(e) /\ actor' = actor /\ wish' \in {wish, "none", "pause", "stop"}
  BY DEF SendMessage, Wishes
<1> HIDE DEF e
<1>3. Sound(db) /\ db \in Database => Good(db, db') BY AdmitSendGrown, GrownGood DEF SendMessage
<1> QED BY <1>1, <1>2, <1>3, RowsCommandStep

\* The thread is stopped.
LEMMA StopStep ==
  ASSUME QueueInv, Stop
  PROVE  QueueInv' /\ Kept(db, db')
<1>1. RowsInv /\ ActorInv /\ Running BY InvParts DEF Stop, Command
<1>2. "stop" \in Events /\ Command("stop") /\ wish' \in {"none", "pause", "stop"}
  BY DEF Stop, Events, Commands, Wishes
<1>3. Good(db, db') BY <1>1, RunningRows, StopThreadGood DEF Stop
<1>4. ActorInv' /\ actor'.closer = actor.closer BY <1>1 DEF Stop, ActorInv, Actors
<1> QED BY <1>2, <1>3, <1>4, CommandStep

\* The other commands.
LEMMA RowsCommands ==
  ASSUME QueueInv,
         Pause \/ Resume \/ ChooseLimitAction \/ Edit \/ Discard \/ ResendMessage \/ Move
           \/ AccountRecovered
  PROVE  QueueInv' /\ Kept(db, db')
<1> USE DEF Events, Commands, Wishes
<1>1. CASE Pause
  <2>1. Sound(db) /\ db \in Database => Good(db, db') BY <1>1, PauseFine, FineGood DEF Pause
  <2> QED BY <1>1, <2>1, RowsCommandStep DEF Pause
<1>2. CASE Resume
  <2>1. Sound(db) /\ db \in Database => Good(db, db')
    BY <1>2, PersonResumesGrown, GrownGood DEF Resume
  <2> QED BY <1>2, <2>1, RowsCommandStep DEF Resume
<1>3. CASE ChooseLimitAction
  <2>1. Sound(db) /\ db \in Database => Good(db, db')
    BY <1>3, ScheduleFine, CancelResumeFine, FineGood DEF ChooseLimitAction
  <2> QED BY <1>3, <2>1, RowsCommandStep DEF ChooseLimitAction
<1>4. CASE Edit
  <2>1. Editable(db) \subseteq Ids BY DEF Editable, WaitingOf, UncertainOf
  <2>2. Sound(db) /\ db \in Database => Good(db, db')
    BY <1>4, <2>1, EditFine, FineGood DEF Edit
  <2> QED BY <1>4, <2>2, RowsCommandStep DEF Edit
<1>5. CASE Discard
  <2>1. Sound(db) /\ db \in Database => Good(db, db')
    BY <1>5, RemoveMessageFine, FineGood DEF Discard
  <2> QED BY <1>5, <2>1, RowsCommandStep DEF Discard
<1>6. CASE ResendMessage
  <2>1. Sound(db) /\ db \in Database => Good(db, db')
    BY <1>6, ResendGrown, GrownGood DEF ResendMessage
  <2> QED BY <1>6, <2>1, RowsCommandStep DEF ResendMessage
<1>7. CASE Move
  <2>1. WaitingOf(db, "send") \subseteq Ids BY DEF WaitingOf
  <2>2. Sound(db) /\ db \in Database => Good(db, db')
    BY <1>7, <2>1, MoveFine, FineGood DEF Move
  <2> QED BY <1>7, <2>2, RowsCommandStep DEF Move
<1>8. CASE AccountRecovered
  <2>1. Sound(db) /\ db \in Database => Good(db, db')
    BY <1>8, ClearLimitFine, FineGood DEF AccountRecovered
  <2> QED BY <1>8, <2>1, RowsCommandStep DEF AccountRecovered
<1> QED BY <1>1, <1>2, <1>3, <1>4, <1>5, <1>6, <1>7, <1>8

\* A deadline passes.
LEMMA DeadlineStep ==
  ASSUME QueueInv, Deadline
  PROVE  QueueInv' /\ Kept(db, db')
<1>1. RowsInv /\ ActorInv /\ FramesInv /\ ProvInv /\ RestInv /\ Running BY InvParts DEF Deadline
<1>2. Good(db, db') BY <1>1, RunningRows, TimerFiresGrown, GrownGood DEF Deadline
<1>3. host' = host /\ lane' = lane /\ ActorInv' /\ FramesInv' /\ ProvInv' /\ RestInv'
      /\ actor'.closer = actor.closer
  BY <1>1 DEF Deadline, ActorInv, FramesInv, ProvInv, RestInv
<1> QED BY <1>1, <1>2, <1>3, RunningStep

-----------------------------------------------------------------------------
(* Crash and startup. *)

\* The rows of a database that stays.
LEMMA KeptSame ==
  ASSUME NEW d, Sound(d)
  PROVE  Kept(d, d)
BY GoodSame DEF Good

\* Startup's lanes stay idle until the daemon runs.
LEMMA IdleLanes ==
  ASSUME lane' \in [Lanes -> Hands], \A l \in Lanes : lane'[l].pc = "idle"
  PROVE  HandsInv'
BY DEF HandsInv, LaneInv

\* The daemon crashes.
LEMMA CrashStep ==
  ASSUME QueueInv, Crash
  PROVE  QueueInv' /\ Kept(db, db')
<1>1. RowsInv /\ RestInv BY InvParts
<1>2. Sound(db) /\ db \in Database /\ db' = db BY <1>1 DEF RowsInv, Sound, Crash
<1>3. RowsInv'
  <2>1. Unsettled(db) BY <1>1 DEF RowsInv, Settled, Unsettled
  <2>2. host' = [up |-> "threads", candidate |-> FALSE] BY DEF Crash
  <2> QED BY <1>2, <2>1, <2>2 DEF RowsInv
<1>4. Kept(db, db') BY <1>2, KeptSame
<1>5. lane' = [l \in Lanes |-> Idle] /\ Idle \in Hands /\ Idle.pc = "idle"
  <2>1. 0 \in 0..MaxIntents /\ 0 \in Nat BY IdFacts
  <2> QED BY <2>1 DEF Crash, Idle, Hands, Phases
<1>6. HandsInv' BY <1>5, IdleLanes
<1>7. ActorInv' /\ CloserInv'
  <2> DEFINE n == LatestGeneration(db)
  <2>1. n \in Nat BY <1>2, LatestType
  <2>2. actor' = [NoActor EXCEPT !.gen = n] BY DEF Crash
  <2> HIDE DEF n
  <2>3. actor' \in Actors /\ actor'.session = 0 /\ actor'.closer = "none"
    BY <2>1, <2>2 DEF NoActor, Actors
  <2> QED BY <2>3 DEF ActorInv, CloserInv, Lanes
<1>8. FramesInv'
  <2>1. frames' = <<>> /\ <<>> \in Seq(Mails) BY DEF Crash
  <2> QED BY <2>1, MailboxNext
<1>9. ProvInv'
  <2>1. 0 \in Nat /\ <<>> \in Seq(Inputs) OBVIOUS
  <2> QED BY <2>1 DEF Crash, ProvInv, NoProcess, Providers
<1>10. RestInv'
  <2>1. "crash" \in Events BY DEF Events, Faults
  <2> QED BY <1>1, <2>1, RestSpent DEF Crash
<1> QED BY <1>3, <1>4, <1>6, <1>7, <1>8, <1>9, <1>10, InvPartsNext

\* One of the three passes of startup.
LEMMA StartupStep ==
  ASSUME QueueInv, Startup
  PROVE  QueueInv' /\ Kept(db, db')
<1>1. RowsInv /\ HandsInv /\ ActorInv /\ CloserInv /\ FramesInv /\ ProvInv /\ RestInv
  BY InvParts
<1>2. ActorInv' /\ CloserInv' /\ FramesInv' /\ ProvInv' /\ RestInv'
  BY <1>1 DEF Startup, ActorInv, CloserInv, FramesInv, ProvInv, RestInv
<1>3. HandsInv'
  <2>1. \A l \in Lanes : lane[l].pc = "idle" BY <1>1 DEF HandsInv, Running, Startup
  <2>2. lane' = lane /\ lane \in [Lanes -> Hands] BY <1>1 DEF Startup, HandsInv
  <2> QED BY <2>1, <2>2, IdleLanes
<1>4. Sound(db) /\ db \in Database /\ host.candidate \in BOOLEAN BY <1>1 DEF RowsInv, Sound
<1>5. RowsInv' /\ Kept(db, db')
  <2>1. CASE host.up = "threads" /\ db' = RecoverThread(db)
             /\ host' = [up |-> "intents", candidate |-> RestartCandidate(db, RecoverThread(db))]
    <3> DEFINE c == RestartCandidate(db, RecoverThread(db))
    <3>1. Unsettled(db) BY <1>1, <2>1 DEF RowsInv
    <3>2. Kept(db, db') /\ Unsettled(db') BY <1>4, <2>1, <3>1, RecoverThreadKept
    <3>3. c \in BOOLEAN BY DEF RestartCandidate
    <3>4. host' = [up |-> "intents", candidate |-> c] BY <2>1
    <3> HIDE DEF c
    <3> QED BY <3>2, <3>3, <3>4 DEF RowsInv, Kept
  <2>2. CASE host.up = "intents" /\ db' = RecoverIntents(db) /\ host' = [host EXCEPT !.up = "queues"]
    <3>1. Unsettled(db) BY <1>1, <2>2 DEF RowsInv
    <3>2. Kept(db, db') /\ Settled(db') BY <1>4, <2>2, <3>1, RecoverIntentsKept
    <3> QED BY <1>1, <2>2, <3>2 DEF RowsInv, Kept
  <2>3. CASE host.up = "queues" /\ (host.candidate => Unused(db) # {})
             /\ db' = DecideRestart(db, host.candidate)
             /\ host' = [up |-> "up", candidate |-> FALSE]
    <3>1. Settled(db) BY <1>1, <2>3 DEF RowsInv
    <3>2. Good(db, db') BY <1>4, <2>3, DecideRestartGrown, GrownGood
    <3> QED BY <1>1, <2>3, <3>1, <3>2 DEF RowsInv, Good, Kept
  <2> QED BY <2>1, <2>2, <2>3 DEF Startup
<1> QED BY <1>2, <1>3, <1>5, InvPartsNext

-----------------------------------------------------------------------------
(* Inputs and rows, until the first Stop. *)

\* A row goes on: it keeps its kind, does not wait again, and what is spent stays spent.
Onward(r, r2) ==
  /\ r.kind # "none" => r2.kind = r.kind
  /\ r2.status \in WaitingStates => r.status \in WaitingStates \/ r.kind = "none"
  /\ RowSteady(r, r2)

\* A row that stays goes on.
LEMMA OnwardSame == ASSUME NEW r PROVE Onward(r, r)
BY DEF Onward, RowSteady

\* The rows of a database that grew went on.
LEMMA GrownOnward ==
  ASSUME NEW d, NEW d2, Sound(d), Grown(d, d2)
  PROVE  \A i \in Ids : Onward(d.intent[i], d2.intent[i])
BY DEF Grown, RowGrown, Sound, Onward

\* So did those of one that only changed within bounds.
LEMMA FineOnward ==
  ASSUME NEW d, NEW d2, Sound(d), Fine(d, d2)
  PROVE  \A i \in Ids : Onward(d.intent[i], d2.intent[i])
BY FineGrown, GrownOnward

\* And the other rows, when one changed its own way.
LEMMA ElsewhereOnward ==
  ASSUME NEW d, NEW d2, NEW i, Sound(d), Elsewhere(d, d2, i)
  PROVE  \A j \in Ids \ {i} : Onward(d.intent[j], d2.intent[j])
<1> TAKE j \in Ids \ {i}
<1>1. RowInv(d.intent[j]) /\ RowTame(d.intent[j], d2.intent[j]) BY DEF Elsewhere, Sound
<1> QED BY <1>1 DEF RowTame, RowLoose, Onward

\* What is past stays past.
LEMMA PastStays ==
  ASSUME NEW r, NEW r2, RowInv(r), Onward(r, r2), Past(r)
  PROVE  Past(r2)
<1>1. r.kind # "none" BY DEF Past, Spent, RowInv
<1> QED BY <1>1 DEF Past, Onward, RowSteady

\* A lane keeps what it relies on while its row goes on.
LEMMA HoldsStays ==
  ASSUME NEW s, NEW r, NEW r2, NEW g, NEW g2, r.kind # "none", Onward(r, r2),
         g # 0 => g2 # 0, LaneHolds(s, r, g)
  PROVE  LaneHolds(s, r2, g2)
<1>1. r2.kind = r.kind /\ r2.status \notin WaitingStates BY DEF Onward, LaneHolds
<1>2. s.pc \in Unsent => r2.status = "running" \/ Spent(r2) BY DEF Onward, RowSteady, LaneHolds
<1>3. s.pc \in Opening /\ r2.kind = "resume" => Quiet(r2) BY <1>1 DEF Onward, RowSteady, LaneHolds
<1> QED BY <1>1, <1>2, <1>3 DEF LaneHolds

\* A lane at its next point of the delivery.
Follows(s, s2, g2) ==
  /\ s2.id = s.id
  /\ s2.pc # "settling" => s2.err = "none"
  /\ s2.pc \in Unsent => s.pc \in Unsent
  /\ s2.pc \in Opening => s.pc \in Opening
  /\ s2.err \in Refusals => s.pc \in Unsent
  /\ s2.pc \in {"preparing", "ready"} => s2.gen # 0 /\ g2 # 0

\* It relies on what it relied on before.
LEMMA HoldsFollows ==
  ASSUME NEW s, NEW s2, NEW r, NEW g, NEW g2, Follows(s, s2, g2), LaneHolds(s, r, g)
  PROVE  LaneHolds(s2, r, g2) /\ (Keeps(s2) => Keeps(s))
<1>1. s2.pc \in Unsent => r.status = "running" \/ Spent(r) BY DEF Follows, LaneHolds
<1>2. s2.pc \in Opening /\ r.kind = "resume" => Quiet(r) BY DEF Follows, LaneHolds
<1>3. Keeps(s2) => Keeps(s) BY DEF Follows, Keeps
<1> QED BY <1>1, <1>2, <1>3 DEF Follows, LaneHolds

\* What a lane holds, by parts.
LEMMA HandParts ==
  ASSUME QueueInv, HandInv, NEW l \in Lanes, Claimed(lane[l])
  PROVE  /\ lane[l].id \in Ids /\ lane[l] \in Hands /\ db.intent[lane[l].id].kind # "none"
         /\ LaneHolds(lane[l], db.intent[lane[l].id], actor.gen)
         /\ Keeps(lane[l]) => Fresh(got, prov.wire, lane[l].id)
         /\ \A m \in Lanes \ {l} : Claimed(lane[m]) => lane[m].id # lane[l].id
<1>1. HandsInv /\ lane[l].pc # "idle" BY InvParts DEF Claimed
<1>2. lane[l].id \in Ids /\ lane[l] \in Hands /\ db.intent[lane[l].id].kind # "none" BY <1>1, HeldRow
<1> QED BY <1>2 DEF HandInv

\* One lane moves, row i changes its own way, and nobody else holds i.
LEMMA HandStep ==
  ASSUME QueueInv, HandInv, Once(got', prov'.wire),
         NEW l \in Lanes, \A m \in Lanes \ {l} : lane'[m] = lane[m],
         NEW i \in Ids, \A m \in Lanes \ {l} : Claimed(lane[m]) => lane[m].id # i,
         \A j \in Ids \ {i} : /\ Onward(db.intent[j], db'.intent[j])
                              /\ Fresh(got, prov.wire, j) => Fresh(got', prov'.wire, j),
         Fresh(got', prov'.wire, i) \/ Past(db'.intent[i]),
         actor.gen # 0 => actor'.gen # 0,
         lane'[l].pc # "settling" => lane'[l].err = "none",
         Claimed(lane'[l]) => lane'[l].id = i /\ LaneHolds(lane'[l], db'.intent[i], actor'.gen),
         Claimed(lane'[l]) /\ Keeps(lane'[l]) => Fresh(got', prov'.wire, i)
  PROVE  HandInv'
<1>1. Sound(db) BY DEF QueueInv
<1>2. \A j \in Ids : Fresh(got', prov'.wire, j) \/ Past(db'.intent[j])
  <2> TAKE j \in Ids
  <2>1. CASE j = i BY <2>1
  <2>2. CASE j # i
    <3>1. RowInv(db.intent[j]) /\ (Fresh(got, prov.wire, j) \/ Past(db.intent[j]))
      BY <1>1 DEF Sound, HandInv
    <3> QED BY <2>2, <3>1, PastStays
  <2> QED BY <2>1, <2>2
<1>3. ASSUME NEW m \in Lanes \ {l}, Claimed(lane[m])
      PROVE  /\ LaneHolds(lane[m], db'.intent[lane[m].id], actor'.gen) /\ lane[m].id # i
             /\ Keeps(lane[m]) => Fresh(got', prov'.wire, lane[m].id)
  <2>1. /\ lane[m].id \in Ids \ {i} /\ db.intent[lane[m].id].kind # "none"
        /\ LaneHolds(lane[m], db.intent[lane[m].id], actor.gen)
        /\ Keeps(lane[m]) => Fresh(got, prov.wire, lane[m].id)
    BY <1>3, HandParts
  <2> QED BY <2>1, HoldsStays
<1>4. ASSUME NEW m \in Lanes
      PROVE  /\ lane'[m].pc # "settling" => lane'[m].err = "none"
             /\ Claimed(lane'[m]) => LaneHolds(lane'[m], db'.intent[lane'[m].id], actor'.gen)
             /\ Claimed(lane'[m]) /\ Keeps(lane'[m]) => Fresh(got', prov'.wire, lane'[m].id)
  <2>1. CASE m = l BY <2>1
  <2>2. CASE m # l
    <3>1. lane[m].pc # "settling" => lane[m].err = "none" BY DEF HandInv
    <3> QED BY <1>3, <2>2, <3>1
  <2> QED BY <2>1, <2>2
<1>5. ASSUME NEW m \in Lanes, NEW n \in Lanes,
             Claimed(lane'[m]), Claimed(lane'[n]), lane'[m].id = lane'[n].id
      PROVE  m = n
  <2>1. CASE m # l /\ n # l BY <1>5, <2>1 DEF HandInv
  <2>2. CASE m = l \/ n = l BY <1>3, <1>5, <2>2
  <2> QED BY <2>1, <2>2
<1> HIDE DEF Claimed, Keeps, LaneHolds, Fresh, Once, Past
<1> QED BY <1>2, <1>4, <1>5 DEF HandInv

\* The lanes stay, and every row goes on.
LEMMA RowsHand ==
  ASSUME QueueInv, HandInv, Once(got', prov'.wire), lane' = lane,
         \A j \in Ids : /\ Onward(db.intent[j], db'.intent[j])
                        /\ Fresh(got, prov.wire, j) => Fresh(got', prov'.wire, j),
         actor.gen # 0 => actor'.gen # 0
  PROVE  HandInv'
<1>1. Sound(db) BY DEF QueueInv
<1>2. \A j \in Ids : Fresh(got', prov'.wire, j) \/ Past(db'.intent[j])
  <2> TAKE j \in Ids
  <2>1. RowInv(db.intent[j]) /\ (Fresh(got, prov.wire, j) \/ Past(db.intent[j]))
    BY <1>1 DEF Sound, HandInv
  <2> QED BY <2>1, PastStays
<1>3. ASSUME NEW m \in Lanes, Claimed(lane[m])
      PROVE  /\ LaneHolds(lane[m], db'.intent[lane[m].id], actor'.gen)
             /\ Keeps(lane[m]) => Fresh(got', prov'.wire, lane[m].id)
  <2>1. /\ lane[m].id \in Ids /\ db.intent[lane[m].id].kind # "none"
        /\ LaneHolds(lane[m], db.intent[lane[m].id], actor.gen)
        /\ Keeps(lane[m]) => Fresh(got, prov.wire, lane[m].id)
    BY <1>3, HandParts
  <2> QED BY <2>1, HoldsStays
<1>4. \A m \in Lanes : lane[m].pc # "settling" => lane[m].err = "none" BY DEF HandInv
<1>5. \A m, n \in Lanes : Claimed(lane[m]) /\ Claimed(lane[n]) /\ lane[m].id = lane[n].id => m = n
  BY DEF HandInv
<1> QED BY <1>2, <1>3, <1>4, <1>5 DEF HandInv

\* All lanes are idle.
LEMMA IdleHand ==
  ASSUME Once(got', prov'.wire), \A l \in Lanes : lane'[l].pc = "idle" /\ lane'[l].err = "none",
         \A j \in Ids : Fresh(got', prov'.wire, j) \/ Past(db'.intent[j])
  PROVE  HandInv'
BY DEF HandInv, Claimed

\* A claimed lane goes on, every row too, and the wire keeps or loses what is on it.
LEMMA LaneHand ==
  ASSUME QueueInv, HandInv, Once(got', prov'.wire), NEW l \in Lanes, Claimed(lane[l]),
         \A m \in Lanes \ {l} : lane'[m] = lane[m], Follows(lane[l], lane'[l], actor'.gen),
         \A j \in Ids : /\ Onward(db.intent[j], db'.intent[j])
                        /\ Fresh(got, prov.wire, j) => Fresh(got', prov'.wire, j),
         actor.gen # 0 => actor'.gen # 0
  PROVE  HandInv'
<1> DEFINE i == lane[l].id
<1>1. /\ i \in Ids /\ db.intent[i].kind # "none" /\ LaneHolds(lane[l], db.intent[i], actor.gen)
      /\ Keeps(lane[l]) => Fresh(got, prov.wire, i)
      /\ \A m \in Lanes \ {l} : Claimed(lane[m]) => lane[m].id # i
  BY HandParts
<1>2. LaneHolds(lane[l], db'.intent[i], actor'.gen) BY <1>1, HoldsStays
<1>3. LaneHolds(lane'[l], db'.intent[i], actor'.gen) /\ (Keeps(lane'[l]) => Keeps(lane[l]))
  BY <1>2, HoldsFollows
<1>4. lane'[l].id = i /\ (lane'[l].pc # "settling" => lane'[l].err = "none") BY DEF Follows
<1>5. Fresh(got', prov'.wire, i) \/ Past(db'.intent[i])
  <2>1. RowInv(db.intent[i]) /\ (Fresh(got, prov.wire, i) \/ Past(db.intent[i]))
    BY <1>1 DEF QueueInv, Sound, HandInv
  <2> QED BY <1>1, <2>1, PastStays
<1> HIDE DEF i
<1> QED BY <1>1, <1>3, <1>4, <1>5, HandStep

\* The wire stays, or goes with its process.
LEMMA WireStays ==
  ASSUME HandInv, got' = got, prov'.wire = prov.wire \/ prov'.wire = <<>>
  PROVE  /\ Once(got', prov'.wire)
         /\ \A j \in Ids : Fresh(got, prov.wire, j) => Fresh(got', prov'.wire, j)
BY DEF HandInv, Once, Fresh

\* What is left on a wire an input was taken off.
LEMMA TakenAt ==
  ASSUME NEW w \in Seq(Inputs), NEW k \in DOMAIN w, NEW j \in DOMAIN RemoveAt(w, k)
  PROVE  LET m == IF j < k THEN j ELSE j + 1
         IN  m \in DOMAIN w /\ m # k /\ RemoveAt(w, k)[j] = w[m] /\ j \in Int
<1> DEFINE a == SubSeq(w, 1, k - 1)
           b == SubSeq(w, k + 1, Len(w))
<1>1. Len(w) \in Nat /\ DOMAIN w = 1..Len(w) /\ k \in 1..Len(w) OBVIOUS
<1>2. a \in Seq(Inputs) /\ Len(a) = k - 1 /\ \A n \in 1..(k - 1) : a[n] = w[n] BY <1>1
<1>3. b \in Seq(Inputs) /\ Len(b) = Len(w) - k /\ \A n \in 1..(Len(w) - k) : b[n] = w[k + n] BY <1>1
<1>4. RemoveAt(w, k) = a \o b BY DEF RemoveAt
<1> HIDE DEF a, b
<1>5. j \in 1..(Len(w) - 1)
  <2>1. j \in DOMAIN (a \o b) BY <1>4
  <2>2. a \in Seq(Inputs) /\ b \in Seq(Inputs) BY <1>2, <1>3
  <2>3. DOMAIN (a \o b) = 1..(Len(a) + Len(b)) BY <2>2
  <2> QED BY <1>1, <1>2, <1>3, <2>1, <2>3
<1>6. CASE j < k
  <2>1. (a \o b)[j] = a[j] BY <1>1, <1>2, <1>3, <1>5, <1>6
  <2>2. a[j] = w[j] BY <1>1, <1>2, <1>5, <1>6
  <2> QED BY <1>1, <1>4, <1>5, <1>6, <2>1, <2>2
<1>7. CASE ~(j < k)
  <2>1. (a \o b)[j] = b[j - Len(a)] BY <1>1, <1>2, <1>3, <1>5, <1>7
  <2>2. j - Len(a) \in 1..(Len(w) - k) /\ k + (j - Len(a)) = j + 1 BY <1>1, <1>2, <1>5, <1>7
  <2>3. b[j - Len(a)] = w[j + 1] BY <1>3, <2>2
  <2> QED BY <1>1, <1>4, <1>5, <1>7, <2>1, <2>3
<1> QED BY <1>6, <1>7

\* The input that was taken off is there no more, and the others are there once.
LEMMA TakenWire ==
  ASSUME NEW g, NEW w \in Seq(Inputs), NEW k \in DOMAIN w, Once(g, w)
  PROVE  /\ Once(g, RemoveAt(w, k)) /\ Fresh(g, RemoveAt(w, k), w[k].id)
         /\ \A i : Fresh(g, w, i) => Fresh(g, RemoveAt(w, k), i)
<1> DEFINE w2 == RemoveAt(w, k)
           from(j) == IF j < k THEN j ELSE j + 1
<1>1. \A j \in DOMAIN w2 : from(j) \in DOMAIN w /\ from(j) # k /\ w2[j] = w[from(j)] /\ j \in Int
  BY TakenAt
<1>2. k \in Int OBVIOUS
<1> HIDE DEF w2
<1>3. ASSUME NEW j \in DOMAIN w2, NEW n \in DOMAIN w2, w2[j].id = w2[n].id PROVE j = n
  <2>1. from(j) = from(n)
    <3> HIDE DEF from
    <3> QED BY <1>1, <1>3 DEF Once
  <2> QED BY <1>1, <1>2, <2>1
<1> HIDE DEF from
<1>4. \A j \in DOMAIN w2 : w2[j].id # w[k].id BY <1>1 DEF Once
<1>5. \A j \in DOMAIN w2 : g[w2[j].id] = 0 BY <1>1 DEF Once
<1>6. Once(g, w2) BY <1>3, <1>5 DEF Once
<1>7. Fresh(g, w2, w[k].id) BY <1>4 DEF Once, Fresh
<1>8. \A i : Fresh(g, w, i) => Fresh(g, w2, i) BY <1>1 DEF Fresh
<1> QED BY <1>6, <1>7, <1>8 DEF w2

\* The provider takes it.
LEMMA TakenOnce ==
  ASSUME NEW g \in [Ids -> Nat], NEW w \in Seq(Inputs), NEW k \in DOMAIN w, Once(g, w),
         NEW g2, g2 = [g EXCEPT ![w[k].id] = g[w[k].id] + 1]
  PROVE  /\ Once(g2, RemoveAt(w, k))
         /\ \A i \in Ids : Fresh(g, w, i) => Fresh(g2, RemoveAt(w, k), i)
<1> DEFINE w2 == RemoveAt(w, k)
           x == w[k].id
<1>1. /\ Once(g, w2) /\ Fresh(g, w2, x) /\ \A i : Fresh(g, w, i) => Fresh(g, w2, i)
      /\ w2 \in Seq(Inputs)
  BY TakenWire, WireTaken
<1>2. x \in Ids
  <2>1. w[k] \in Inputs OBVIOUS
  <2> QED BY <2>1 DEF Inputs
<1>3. g[x] = 0 /\ \A i \in Ids : Fresh(g, w, i) => i # x BY DEF Once, Fresh
<1>4. g2[x] = 1 /\ \A i \in Ids : i # x => g2[i] = g[i] BY <1>2, <1>3
<1>5. \A j \in DOMAIN w2 : w2[j].id \in Ids /\ w2[j].id # x
  <2> HIDE DEF w2, x
  <2>1. \A j \in DOMAIN w2 : w2[j] \in Inputs BY <1>1
  <2> QED BY <1>1, <2>1 DEF Inputs, Fresh
<1> HIDE DEF w2, x
<1>6. Once(g2, w2)
  <2>1. \A i \in Ids : g2[i] <= 1 BY <1>1, <1>4 DEF Once
  <2> QED BY <1>1, <1>4, <1>5, <2>1 DEF Once
<1>7. \A i \in Ids : Fresh(g, w, i) => Fresh(g2, w2, i) BY <1>1, <1>3, <1>4 DEF Fresh
<1> QED BY <1>6, <1>7 DEF w2

\* An input that was not handed over yet is written to the wire.
LEMMA PutOnce ==
  ASSUME NEW g, NEW w \in Seq(Inputs), NEW x \in Inputs, Once(g, w), Fresh(g, w, x.id)
  PROVE  /\ Once(g, Append(w, x))
         /\ \A i \in Ids \ {x.id} : Fresh(g, w, i) => Fresh(g, Append(w, x), i)
<1> DEFINE w2 == Append(w, x)
<1>1. Len(w) \in Nat /\ DOMAIN w = 1..Len(w) /\ DOMAIN w2 = 1..(Len(w) + 1) OBVIOUS
<1>2. w2[Len(w) + 1] = x /\ \A j \in DOMAIN w : w2[j] = w[j] OBVIOUS
<1>3. \A j \in DOMAIN w2 : j \in DOMAIN w \/ j = Len(w) + 1 BY <1>1
<1> HIDE DEF w2
<1>4. \A j, k \in DOMAIN w2 : w2[j].id = w2[k].id => j = k BY <1>2, <1>3 DEF Once, Fresh
<1>5. \A j \in DOMAIN w2 : g[w2[j].id] = 0 BY <1>2, <1>3 DEF Once, Fresh
<1>6. Once(g, w2) BY <1>4, <1>5 DEF Once
<1>7. \A i \in Ids \ {x.id} : Fresh(g, w, i) => Fresh(g, w2, i) BY <1>2, <1>3 DEF Fresh
<1> QED BY <1>6, <1>7 DEF w2

\* The fields of a lane that goes to its next phase, and of one whose delivery failed.
LEMMA LaneFields ==
  ASSUME HandsInv, NEW l \in Lanes
  PROVE  /\ \A pc : Goto(l, pc) =>
              /\ lane'[l].pc = pc /\ lane'[l].id = lane[l].id /\ lane'[l].err = lane[l].err
              /\ lane'[l].gen = lane[l].gen /\ \A m \in Lanes \ {l} : lane'[m] = lane[m]
         /\ \A err : Throw(l, err) =>
              /\ lane'[l].pc = "settling" /\ lane'[l].id = lane[l].id /\ lane'[l].err = err
              /\ \A m \in Lanes \ {l} : lane'[m] = lane[m]
<1>1. lane \in [Lanes -> Hands] BY DEF HandsInv
<1>2. lane[l] \in Hands BY <1>1
<1>3. ASSUME NEW pc, Goto(l, pc)
      PROVE  /\ lane'[l].pc = pc /\ lane'[l].id = lane[l].id /\ lane'[l].err = lane[l].err
             /\ lane'[l].gen = lane[l].gen /\ \A m \in Lanes \ {l} : lane'[m] = lane[m]
  BY <1>1, <1>2, <1>3 DEF Goto, Hands
<1>4. ASSUME NEW err, Throw(l, err)
      PROVE  /\ lane'[l].pc = "settling" /\ lane'[l].id = lane[l].id /\ lane'[l].err = err
             /\ \A m \in Lanes \ {l} : lane'[m] = lane[m]
  BY <1>1, <1>2, <1>4 DEF Throw, Hands
<1> QED BY <1>3, <1>4, Zenon

\* A claimed lane's next phase.
LEMMA GotoFollows ==
  ASSUME QueueInv, HandInv, NEW l \in Lanes, lane[l].pc # "settling", NEW pc, Goto(l, pc),
         pc \in Opening => lane[l].pc \in Opening, pc \in Unsent => lane[l].pc \in Unsent,
         pc \in {"preparing", "ready"} => lane[l].gen # 0 /\ actor'.gen # 0
  PROVE  Follows(lane[l], lane'[l], actor'.gen) /\ \A m \in Lanes \ {l} : lane'[m] = lane[m]
<1>1. HandsInv BY InvParts
<1>2. /\ lane'[l].pc = pc /\ lane'[l].id = lane[l].id /\ lane'[l].err = lane[l].err
      /\ lane'[l].gen = lane[l].gen /\ \A m \in Lanes \ {l} : lane'[m] = lane[m]
  BY <1>1, LaneFields
<1>3. lane[l].err = "none" BY DEF HandInv
<1>4. lane'[l].err \notin Refusals BY <1>2, <1>3 DEF Refusals
<1> QED BY <1>2, <1>3, <1>4 DEF Follows

\* And one for which it notes a generation.
LEMMA NotedFollows ==
  ASSUME QueueInv, HandInv, NEW l \in Lanes, lane[l].pc # "settling", NEW pc, NEW g,
         lane' = [lane EXCEPT ![l].pc = pc, ![l].gen = g],
         pc \in Opening => lane[l].pc \in Opening, pc \in Unsent => lane[l].pc \in Unsent,
         pc \in {"preparing", "ready"} => g # 0 /\ actor'.gen # 0
  PROVE  Follows(lane[l], lane'[l], actor'.gen) /\ \A m \in Lanes \ {l} : lane'[m] = lane[m]
<1>1. lane \in [Lanes -> Hands] BY InvParts DEF HandsInv
<1>2. lane[l] \in Hands BY <1>1
<1>3. /\ lane'[l].pc = pc /\ lane'[l].id = lane[l].id /\ lane'[l].err = lane[l].err
      /\ lane'[l].gen = g /\ \A m \in Lanes \ {l} : lane'[m] = lane[m]
  BY <1>1, <1>2 DEF Hands
<1>4. lane[l].err = "none" BY DEF HandInv
<1>5. lane'[l].err \notin Refusals BY <1>3, <1>4 DEF Refusals
<1> QED BY <1>3, <1>4, <1>5 DEF Follows

\* A failed delivery.
LEMMA ThrowFollows ==
  ASSUME QueueInv, HandInv, NEW l \in Lanes, NEW err, Throw(l, err),
         err \in Refusals => lane[l].pc \in Unsent
  PROVE  Follows(lane[l], lane'[l], actor'.gen) /\ \A m \in Lanes \ {l} : lane'[m] = lane[m]
<1>1. /\ lane'[l].pc = "settling" /\ lane'[l].id = lane[l].id /\ lane'[l].err = err
      /\ \A m \in Lanes \ {l} : lane'[m] = lane[m]
  BY InvParts, LaneFields
<1>2. "settling" \notin Unsent /\ "settling" \notin Opening BY DEF Unsent, Opening
<1> QED BY <1>1, <1>2 DEF Follows

\* A step of a claimed lane that leaves its row to others.
LEMMA PlainHand ==
  ASSUME QueueInv, HandInv, NEW l \in Lanes, Claimed(lane[l]),
         Follows(lane[l], lane'[l], actor'.gen), \A m \in Lanes \ {l} : lane'[m] = lane[m],
         db' = db \/ Fine(db, db'), got' = got, prov'.wire = prov.wire \/ prov'.wire = <<>>,
         actor.gen # 0 => actor'.gen # 0
  PROVE  HandInv'
<1>1. Sound(db) BY DEF QueueInv
<1>2. \A j \in Ids : Onward(db.intent[j], db'.intent[j]) BY <1>1, FineOnward, OnwardSame
<1>3. /\ Once(got', prov'.wire)
      /\ \A j \in Ids : Fresh(got, prov.wire, j) => Fresh(got', prov'.wire, j)
  BY WireStays
<1> QED BY <1>2, <1>3, LaneHand

\* A step that leaves the lanes alone.
LEMMA QuietHand ==
  ASSUME QueueInv, HandInv, lane' = lane, db' = db \/ Grown(db, db') \/ Fine(db, db'),
         got' = got, prov'.wire = prov.wire \/ prov'.wire = <<>>, actor.gen # 0 => actor'.gen # 0
  PROVE  HandInv'
<1>1. Sound(db) BY DEF QueueInv
<1>2. \A j \in Ids : Onward(db.intent[j], db'.intent[j])
  BY <1>1, GrownOnward, FineOnward, OnwardSame
<1>3. /\ Once(got', prov'.wire)
      /\ \A j \in Ids : Fresh(got, prov.wire, j) => Fresh(got', prov'.wire, j)
  BY WireStays
<1> QED BY <1>2, <1>3, RowsHand

\* The names of the phases.
LEMMA PhaseNames ==
  /\ Opening = {"claimed", "closing", "opening", "opened"}
  /\ Unsent = {"claimed", "closing", "opening", "opened", "preparing", "ready"}
  /\ Refusals = {"deferred", "not_started", "refused"}
BY DEF Opening, Unsent, Refusals

\* A lane closes the session of a limit.
LEMMA CloseLimitedHand ==
  ASSUME QueueInv, HandInv, NEW l \in Lanes, CloseLimited(l)
  PROVE  HandInv'
<1>1. ActorInv /\ lane[l].pc = "claimed" /\ Goto(l, "closing") /\ BeginClose(l)
      /\ db' = db /\ prov' = prov /\ got' = got
  BY InvParts DEF CloseLimited, At
<1>2. actor'.gen = actor.gen BY <1>1 DEF BeginClose, ActorInv, Actors
<1>3. Follows(lane[l], lane'[l], actor'.gen) /\ \A m \in Lanes \ {l} : lane'[m] = lane[m]
  BY <1>1, GotoFollows, PhaseNames
<1> QED BY <1>1, <1>2, <1>3, PlainHand DEF Claimed

\* A send that could not open its session.
LEMMA NotOpenedFollows ==
  ASSUME QueueInv, HandInv, NEW l \in Lanes, lane[l].pc \in {"claimed", "opening"}, NotOpened(l)
  PROVE  Follows(lane[l], lane'[l], actor'.gen) /\ \A m \in Lanes \ {l} : lane'[m] = lane[m]
<1>1. lane[l].pc \in Unsent BY PhaseNames
<1>2. PICK err : Throw(l, err) BY DEF NotOpened
<1> QED BY <1>1, <1>2, ThrowFollows

\* A lane finds the session or begins to open one.
LEMMA OpenHand ==
  ASSUME QueueInv, HandInv, NEW l \in Lanes, Open(l)
  PROVE  HandInv'
<1>1. lane[l].pc = "claimed" /\ db' = db /\ prov' = prov /\ got' = got /\ Claimed(lane[l])
  BY DEF Open, At, Claimed
<1>2. actor \in Actors /\ actor.gen \in Nat BY InvParts DEF ActorInv, Actors
<1>3. CASE Goto(l, "opened") /\ actor' = actor
  <2>1. Follows(lane[l], lane'[l], actor'.gen) /\ \A m \in Lanes \ {l} : lane'[m] = lane[m]
    BY <1>1, <1>3, GotoFollows, PhaseNames
  <2> QED BY <1>1, <1>3, <2>1, PlainHand
<1>4. CASE NotOpened(l) /\ actor' = actor BY <1>1, <1>4, NotOpenedFollows, PlainHand
<1>5. CASE /\ actor' = [actor EXCEPT !.gen = @ + 1, !.life = "open"]
           /\ lane' = [lane EXCEPT ![l].pc = "opening", ![l].gen = actor.gen + 1]
  <2>1. actor'.gen = actor.gen + 1 BY <1>2, <1>5 DEF Actors
  <2>2. actor'.gen # 0 BY <1>2, <2>1
  <2> DEFINE g == actor.gen + 1
  <2>3. lane' = [lane EXCEPT ![l].pc = "opening", ![l].gen = g] BY <1>5
  <2> HIDE DEF g
  <2>4. /\ lane[l].pc # "settling" /\ lane[l].pc \in Opening /\ lane[l].pc \in Unsent
        /\ "opening" \notin {"preparing", "ready"}
    BY <1>1, PhaseNames
  <2>5. Follows(lane[l], lane'[l], actor'.gen) /\ \A m \in Lanes \ {l} : lane'[m] = lane[m]
    BY <2>3, <2>4, NotedFollows
  <2> QED BY <1>1, <2>2, <2>5, PlainHand
<1> QED BY <1>3, <1>4, <1>5 DEF Open

\* The open resolves.
LEMMA OpenEndsHand ==
  ASSUME QueueInv, HandInv, NEW l \in Lanes, OpenEnds(l)
  PROVE  HandInv'
<1>1. lane[l].pc = "opening" /\ got' = got /\ Claimed(lane[l]) BY DEF OpenEnds, At, Claimed
<1>2. actor \in Actors /\ actor.gen \in Nat /\ db \in Database
  BY InvParts DEF ActorInv, Actors, RowsInv, Sound
<1>3. CASE /\ actor' = [actor EXCEPT !.session = actor.gen] /\ db' = db
           /\ prov' = [NoProcess EXCEPT !.proc = actor.gen] /\ Goto(l, "opened")
  <2>1. actor'.gen = actor.gen BY <1>2, <1>3 DEF Actors
  <2>2. prov'.wire = <<>> BY <1>3 DEF NoProcess
  <2>3. Follows(lane[l], lane'[l], actor'.gen) /\ \A m \in Lanes \ {l} : lane'[m] = lane[m]
    BY <1>1, <1>3, GotoFollows, PhaseNames
  <2> QED BY <1>1, <1>3, <2>1, <2>2, <2>3, PlainHand
<1>4. CASE OpenFails(l) /\ prov' = prov
  <2>1. NotOpened(l) BY <1>4 DEF OpenFails
  <2>2. actor' = actor \/ actor' = [actor EXCEPT !.gen = @ + 1, !.life = "none", !.session = 0]
    BY <1>4 DEF OpenFails
  <2>3. actor.gen # 0 => actor'.gen # 0
    <3>1. actor' = actor \/ actor'.gen = actor.gen + 1 BY <1>2, <2>2 DEF Actors
    <3> QED BY <1>2, <3>1
  <2>4. db' = db \/ Fine(db, db')
    <3>1. db' = db \/ db' = [db EXCEPT !.run = FALSE] BY <1>4 DEF OpenFails
    <3>2. Fine(db, [db EXCEPT !.run = FALSE]) BY <1>2, RunFine, Zenon
    <3> QED BY <3>1, <3>2
  <2> QED BY <1>1, <1>4, <2>1, <2>3, <2>4, NotOpenedFollows, PlainHand
<1> QED BY <1>3, <1>4 DEF OpenEnds

\* A lane reads the session it sends to.
LEMMA InspectHand ==
  ASSUME QueueInv, HandInv, NEW l \in Lanes, Inspect(l)
  PROVE  HandInv'
<1>1. lane[l].pc = "opened" /\ UNCHANGED <<db, actor, prov, got>> /\ Claimed(lane[l])
  BY DEF Inspect, At, Claimed
<1>2. CASE Throw(l, "deferred") BY <1>1, <1>2, ThrowFollows, PhaseNames, PlainHand
<1>3. CASE actor.session # 0 /\ lane' = [lane EXCEPT ![l].pc = "preparing", ![l].gen = actor.gen]
  <2>1. actor.gen # 0 BY <1>3, InvParts DEF ActorInv
  <2>2. Follows(lane[l], lane'[l], actor'.gen) /\ \A m \in Lanes \ {l} : lane'[m] = lane[m]
    BY <1>1, <1>3, <2>1, NotedFollows, PhaseNames
  <2> QED BY <1>1, <2>2, PlainHand
<1> QED BY <1>2, <1>3 DEF Inspect

\* It looks again once the context is prepared.
LEMMA VerifyHand ==
  ASSUME QueueInv, HandInv, NEW l \in Lanes, Verify(l)
  PROVE  HandInv'
<1>1. lane[l].pc = "preparing" /\ UNCHANGED <<db, actor, prov, got>> /\ Claimed(lane[l])
  BY DEF Verify, At, Claimed
<1>2. CASE Throw(l, "deferred") BY <1>1, <1>2, ThrowFollows, PhaseNames, PlainHand
<1>3. CASE Goto(l, "ready")
  <2>1. lane[l].gen # 0 /\ actor.gen # 0 BY <1>1, HandParts DEF LaneHolds
  <2>2. Follows(lane[l], lane'[l], actor'.gen) /\ \A m \in Lanes \ {l} : lane'[m] = lane[m]
    BY <1>1, <1>3, <2>1, GotoFollows, PhaseNames
  <2> QED BY <1>1, <2>2, PlainHand
<1> QED BY <1>2, <1>3 DEF Verify

\* The preparation fails.
LEMMA PrepareFailsHand ==
  ASSUME QueueInv, HandInv, NEW l \in Lanes, PrepareFails(l)
  PROVE  HandInv'
<1>1. lane[l].pc \in {"preparing", "ready"} /\ UNCHANGED <<db, actor, prov, got>> /\ Claimed(lane[l])
  BY DEF PrepareFails, Claimed
<1>2. PICK err : Throw(l, err) BY DEF PrepareFails
<1> QED BY <1>1, <1>2, ThrowFollows, PhaseNames, PlainHand

\* A lane that holds no row after the step, while every row goes on.
LEMMA UnclaimedHand ==
  ASSUME QueueInv, HandInv, NEW l \in Lanes, \A m \in Lanes \ {l} : lane'[m] = lane[m],
         ~Claimed(lane'[l]), lane'[l].err = "none", db' = db \/ Fine(db, db'),
         UNCHANGED <<got, prov, actor>>
  PROVE  HandInv'
<1>1. Sound(db) BY DEF QueueInv
<1>2. \A j \in Ids : Onward(db.intent[j], db'.intent[j]) BY <1>1, FineOnward, OnwardSame
<1>3. \A j \in Ids : Fresh(got, prov.wire, j) \/ Past(db'.intent[j])
  <2> TAKE j \in Ids
  <2>1. RowInv(db.intent[j]) /\ (Fresh(got, prov.wire, j) \/ Past(db.intent[j]))
    BY <1>1 DEF Sound, HandInv
  <2> QED BY <1>2, <2>1, PastStays
<1>4. ASSUME NEW m \in Lanes, Claimed(lane'[m])
      PROVE  /\ m # l /\ lane'[m] = lane[m] /\ LaneHolds(lane[m], db'.intent[lane[m].id], actor.gen)
             /\ Keeps(lane[m]) => Fresh(got, prov.wire, lane[m].id)
  <2>1. m # l /\ lane'[m] = lane[m] BY <1>4
  <2>2. /\ lane[m].id \in Ids /\ db.intent[lane[m].id].kind # "none"
        /\ LaneHolds(lane[m], db.intent[lane[m].id], actor.gen)
        /\ Keeps(lane[m]) => Fresh(got, prov.wire, lane[m].id)
    BY <1>4, <2>1, HandParts
  <2> QED BY <1>2, <2>1, <2>2, HoldsStays
<1>5. \A m \in Lanes : lane'[m].pc # "settling" => lane'[m].err = "none" BY DEF HandInv
<1>6. \A m, n \in Lanes :
        Claimed(lane'[m]) /\ Claimed(lane'[n]) /\ lane'[m].id = lane'[n].id => m = n
  BY <1>4 DEF HandInv
<1>7. Once(got', prov'.wire) BY DEF HandInv
<1> QED BY <1>3, <1>4, <1>5, <1>6, <1>7 DEF HandInv

\* A lane picks the row it will deliver.
LEMMA ChooseHand ==
  ASSUME QueueInv, HandInv, NEW l \in Lanes, Choose(l)
  PROVE  HandInv'
<1>1. RowsInv /\ HandsInv /\ Running BY InvParts DEF Choose, At
<1>2. Sound(db) /\ db \in Database /\ lane \in [Lanes -> Hands] BY <1>1, RunningRows DEF HandsInv
<1>3. PICK i \in IF l = "send" THEN SendChoice(db) ELSE SteerChoice(db) :
        /\ lane' = [lane EXCEPT ![l] = [Idle EXCEPT !.pc = "chosen", !.id = i]]
        /\ db' = IF l = "send" /\ db.intent[i].kind = "send" THEN Mark(db, {i}, "queued") ELSE db
  BY DEF Choose
<1>4. i \in Ids /\ db.intent[i].kind # "none" /\ db.intent[i].status \in WaitingStates
  BY <1>2, <1>3, ChosenRow
<1>5. db' = db \/ Fine(db, db')
  <2>1. RowInv(db.intent[i]) BY <1>2, <1>4 DEF Sound
  <2>2. "queued" \in Statuses /\ MayMark(db.intent[i], "queued")
    BY <1>4, <2>1 DEF Statuses, MayMark, RowInv
  <2>3. Fine(db, Mark(db, {i}, "queued")) BY <1>2, <1>4, <2>2, MarkFine
  <2> QED BY <1>3, <2>3
<1>6. lane'[l].pc = "chosen" /\ lane'[l].err = "none" BY <1>2, <1>3 DEF Idle
<1>7. \A m \in Lanes \ {l} : lane'[m] = lane[m] BY <1>2, <1>3
<1>8. UNCHANGED <<got, prov, actor>> /\ ~Claimed(lane'[l]) BY <1>6 DEF Choose, Claimed
<1> QED BY <1>5, <1>6, <1>7, <1>8, UnclaimedHand

\* It claims the row: nobody else holds it, and it was not handed over.
LEMMA ClaimHand ==
  ASSUME QueueInv, HandInv, NEW l \in Lanes, ClaimIntent(l)
  PROVE  HandInv'
<1> DEFINE i == lane[l].id
<1>1. Sound(db) /\ lane \in [Lanes -> Hands] BY InvParts DEF RowsInv, HandsInv
<1>2. UNCHANGED <<got, prov, actor>> /\ lane[l].pc = "chosen" BY DEF ClaimIntent, At
<1>3. CASE lane' = [lane EXCEPT ![l] = Idle] /\ db' = db
  <2>1. /\ \A m \in Lanes \ {l} : lane'[m] = lane[m]
        /\ lane'[l].pc = "idle" /\ lane'[l].err = "none"
    BY <1>1, <1>3 DEF Idle
  <2> QED BY <1>2, <1>3, <2>1, UnclaimedHand DEF Claimed
<1>4. CASE /\ i \in Ids /\ db.intent[i].kind # "none" /\ db.intent[i].status \in WaitingStates
           /\ Near(db, db', i) /\ db'.intent[i].status = "running"
           /\ \E s \in Hands : /\ lane' = [lane EXCEPT ![l] = s] /\ s.id = i
                               /\ s.err = lane[l].err /\ s.pc \in {"claimed", "settling"}
                               /\ s.pc = "claimed" /\ db'.intent[i].kind = "resume"
                                    => Quiet(db'.intent[i])
  <2>1. PICK s \in Hands : /\ lane' = [lane EXCEPT ![l] = s] /\ s.id = i
                           /\ s.err = lane[l].err /\ s.pc \in {"claimed", "settling"}
                           /\ s.pc = "claimed" /\ db'.intent[i].kind = "resume"
                                => Quiet(db'.intent[i])
    BY <1>4
  <2>2. s.err = "none" BY <1>2, <2>1 DEF HandInv
  <2>3. lane'[l] = s /\ \A m \in Lanes \ {l} : lane'[m] = lane[m] BY <1>1, <2>1
  <2>4. Fresh(got, prov.wire, i) BY <1>4 DEF HandInv, Past
  <2>5. \A m \in Lanes \ {l} : Claimed(lane[m]) => lane[m].id # i BY <1>4, HandParts DEF LaneHolds
  <2>6. \A j \in Ids \ {i} : Onward(db.intent[j], db'.intent[j])
    BY <1>1, <1>4, NearElsewhere, ElsewhereOnward
  <2>7. LaneHolds(s, db'.intent[i], actor'.gen)
    <3>1. db'.intent[i].status \notin WaitingStates BY <1>4 DEF WaitingStates
    <3>2. s.pc \in Opening => s.pc = "claimed" BY <2>1, PhaseNames
    <3> QED BY <1>4, <2>1, <3>1, <3>2 DEF LaneHolds
  <2>8. Once(got', prov'.wire) /\ Fresh(got', prov'.wire, i) BY <1>2, <2>4 DEF HandInv
  <2> HIDE DEF i
  <2> QED BY <1>2, <1>4, <2>1, <2>2, <2>3, <2>5, <2>6, <2>7, <2>8, HandStep
<1> QED BY <1>3, <1>4, ClaimCases

\* A continuation is begun.
LEMMA BeginContinuationHand ==
  ASSUME QueueInv, HandInv, NEW l \in Lanes, BeginContinuation(l)
  PROVE  HandInv'
<1> DEFINE i == lane[l].id
           cleared == LimitCleared(db)
           begun == BeginSend(cleared, i, i)
<1>1. RowsInv /\ HandsInv /\ ActorInv /\ Running BY InvParts DEF BeginContinuation, At
<1>2. UNCHANGED <<got, prov, actor>> /\ lane[l].pc = "opened" /\ Claimed(lane[l])
  BY DEF BeginContinuation, At, Claimed
<1>3. Sound(db) /\ db \in Database BY <1>1, RunningRows
<1>4. CASE Goto(l, "settling") /\ db' = db
  <2>1. Follows(lane[l], lane'[l], actor'.gen) /\ \A m \in Lanes \ {l} : lane'[m] = lane[m]
    BY <1>2, <1>4, GotoFollows, PhaseNames
  <2> QED BY <1>2, <1>4, <2>1, PlainHand
<1>5. CASE /\ db' = begun
           /\ \/ Throw(l, "other")
              \/ /\ actor.session # 0
                 /\ lane' = [lane EXCEPT ![l].pc = "ready", ![l].gen = actor.session]
  <2>1. /\ i \in Ids /\ db.intent[i].kind = "resume" /\ Fresh(got, prov.wire, i)
        /\ LaneHolds(lane[l], db.intent[i], actor.gen)
        /\ \A m \in Lanes \ {l} : Claimed(lane[m]) => lane[m].id # i
    <3>1. lane[l].pc \in Opening /\ Keeps(lane[l]) BY <1>2, PhaseNames DEF Keeps
    <3>2. Row(l).kind = "resume" /\ Row(l) = db.intent[i] BY <1>1, <1>2, HeldRow DEF BeginContinuation
    <3> QED BY <1>2, <3>1, <3>2, HandParts
  <2>2. db.intent[i].status = "running" BY <1>2, <2>1, PhaseNames DEF LaneHolds, Quiet
  <2>3. cleared \in Database /\ cleared.intent = db.intent /\ Fine(db, cleared)
    BY <1>3, LimitClearedFine
  <2>4. i \in 0..MaxIntents BY <2>1, IdFacts
  <2>5. \/ Throw(l, "other")
        \/ /\ actor.session # 0
           /\ lane' = [lane EXCEPT ![l].pc = "ready", ![l].gen = actor.session]
    BY <1>5
  <2>6. Follows(lane[l], lane'[l], actor'.gen) /\ \A m \in Lanes \ {l} : lane'[m] = lane[m]
    <3>1. actor.session # 0 => actor.gen # 0 BY <1>1 DEF ActorInv
    <3>2. CASE Throw(l, "other") BY <3>2, ThrowFollows, PhaseNames
    <3>3. CASE /\ actor.session # 0
               /\ lane' = [lane EXCEPT ![l].pc = "ready", ![l].gen = actor.session]
      <4>1. /\ lane[l].pc # "settling" /\ lane[l].pc \in Unsent /\ "ready" \notin Opening
            /\ actor'.gen # 0
        BY <1>2, <3>1, <3>3, PhaseNames
      <4> QED BY <3>3, <4>1, NotedFollows
    <3> QED BY <2>5, <3>2, <3>3
  <2>7. lane'[l].id = i /\ lane'[l].pc \notin Opening /\ (lane'[l].pc # "settling" => lane'[l].err = "none")
    <3>1. lane'[l].pc \in {"settling", "ready"}
      <4>1. lane \in [Lanes -> Hands] /\ lane[l] \in Hands BY <1>1 DEF HandsInv
      <4> QED BY <2>5, <4>1 DEF Throw, Hands
    <3> QED BY <2>6, <3>1, PhaseNames DEF Follows
  <2> HIDE DEF cleared
  <2> HIDE DEF i
  <2>8. Near(cleared, begun, i) /\ begun.intent[i].status = "running"
    BY <2>1, <2>2, <2>3, <2>4, BeginSendNear DEF WaitingStates
  <2> HIDE DEF begun
  <2>9. Near(db, db', i) /\ db'.intent[i].status = "running"
    BY <1>5, <2>3, <2>8, FineNear, NearTransitive
  <2>10. \A j \in Ids \ {i} : Onward(db.intent[j], db'.intent[j])
    BY <1>3, <2>9, NearElsewhere, ElsewhereOnward
  <2>11. LaneHolds(lane'[l], db'.intent[i], actor'.gen)
    BY <2>6, <2>7, <2>9 DEF LaneHolds, Follows, WaitingStates
  <2>12. Once(got', prov'.wire) /\ Fresh(got', prov'.wire, i) BY <1>2, <2>1 DEF HandInv
  <2> QED BY <1>2, <2>1, <2>6, <2>7, <2>10, <2>11, <2>12, HandStep
<1> QED BY <1>4, <1>5 DEF BeginContinuation

\* The input goes to the session: its row is submitted before it is on the wire.
LEMMA DispatchHand ==
  ASSUME QueueInv, HandInv, NEW l \in Lanes, Dispatch(l)
  PROVE  HandInv'
<1> DEFINE i == lane[l].id
           send == Row(l).kind = "send"
           g == IF send THEN lane[l].gen ELSE actor.gen
           steer == send /\ Row(l).steer
           input == [id |-> i, steer |-> steer]
<1>1. RowsInv /\ HandsInv /\ ActorInv /\ ProvInv /\ Running BY InvParts DEF Dispatch, At
<1>2. UNCHANGED <<got, actor>> /\ lane[l].pc = "ready" /\ Claimed(lane[l]) BY DEF Dispatch, At, Claimed
<1>3. Sound(db) /\ Settled(db) /\ db \in Database BY <1>1, RunningRows
<1>4. CASE Throw(l, LastCheck(l)) /\ db' = db /\ prov' = prov
  <2>1. Follows(lane[l], lane'[l], actor'.gen) /\ \A m \in Lanes \ {l} : lane'[m] = lane[m]
    <3>1. lane[l].pc \in Unsent BY <1>2, PhaseNames
    <3>2. PICK err : Throw(l, err) BY <1>4
    <3> QED BY <3>1, <3>2, ThrowFollows
  <2> QED BY <1>2, <1>4, <2>1, PlainHand
<1>5. CASE /\ db' = Submit(db, i, g) /\ Goto(l, "sending")
           /\ \/ prov' = prov
              \/ prov' = [prov EXCEPT !.wire = Append(prov.wire, input)]
  <2>1. /\ i \in Ids /\ lane[l] \in Hands /\ Fresh(got, prov.wire, i)
        /\ LaneHolds(lane[l], db.intent[i], actor.gen)
        /\ \A m \in Lanes \ {l} : Claimed(lane[m]) => lane[m].id # i
    <3>1. Keeps(lane[l]) BY <1>2, PhaseNames DEF Keeps
    <3> QED BY <1>2, <3>1, HandParts
  <2>2. g \in Nat \ {0}
    <3>1. lane[l].gen # 0 /\ actor.gen # 0 BY <1>2, <2>1 DEF LaneHolds
    <3>2. lane[l].gen \in Nat /\ actor.gen \in Nat BY <1>1, <2>1 DEF Hands, ActorInv, Actors
    <3> QED BY <3>1, <3>2
  <2>3. lane'[l].pc = "sending" /\ lane'[l].id = i /\ lane'[l].err = lane[l].err
        /\ \A m \in Lanes \ {l} : lane'[m] = lane[m]
    BY <1>1, <1>5, LaneFields
  <2>4. lane'[l].err = "none" /\ ~Keeps(lane'[l])
    <3>1. lane'[l].err = "none" BY <1>2, <2>3 DEF HandInv
    <3> QED BY <2>3, <3>1, PhaseNames DEF Keeps
  <2>5. steer \in BOOLEAN OBVIOUS
  <2> HIDE DEF steer
  <2>6. input \in Inputs /\ input.id = i BY <2>1, <2>5 DEF Inputs
  <2>7. prov \in Providers /\ prov.wire \in Seq(Inputs) /\ Once(got, prov.wire)
    BY <1>1 DEF ProvInv, Providers, HandInv
  <2> HIDE DEF input, g
  <2>8. prov'.wire = prov.wire \/ prov'.wire = Append(prov.wire, input)
    <3> DEFINE w == Append(prov.wire, input)
    <3>1. prov' = prov \/ prov' = [prov EXCEPT !.wire = w] BY <1>5
    <3> HIDE DEF w
    <3>2. prov'.wire = prov.wire \/ prov'.wire = w BY <2>7, <3>1 DEF Providers
    <3> QED BY <3>2 DEF w
  <2>9. /\ Once(got', prov'.wire)
        /\ \A j \in Ids \ {i} : Fresh(got, prov.wire, j) => Fresh(got', prov'.wire, j)
    <3>1. /\ Once(got, Append(prov.wire, input))
          /\ \A j \in Ids \ {input.id} :
               Fresh(got, prov.wire, j) => Fresh(got, Append(prov.wire, input), j)
      BY <2>1, <2>6, <2>7, PutOnce
    <3> QED BY <1>2, <2>6, <2>7, <2>8, <3>1
  <2> HIDE DEF i
  <2>10. /\ Near(db, db', i) /\ db'.intent[i].status = db.intent[i].status
         /\ IF db.intent[i].status = "running" THEN db'.intent[i].sub = g
            ELSE db'.intent[i] = db.intent[i]
    BY <1>3, <1>5, <2>1, <2>2, SubmitNear
  <2>11. Past(db'.intent[i])
    <3>1. db.intent[i].status \notin WaitingStates BY <2>1 DEF LaneHolds
    <3>2. db.intent[i].status = "running" \/ Spent(db.intent[i])
      BY <1>2, <2>1, PhaseNames DEF LaneHolds
    <3>3. Spent(db'.intent[i]) BY <2>2, <2>10, <3>2 DEF Spent
    <3> QED BY <2>10, <3>1, <3>3 DEF Past
  <2>12. \A j \in Ids \ {i} : Onward(db.intent[j], db'.intent[j])
    BY <1>3, <2>10, NearElsewhere, ElsewhereOnward
  <2>13. LaneHolds(lane'[l], db'.intent[i], actor'.gen)
    BY <2>3, <2>11, PhaseNames DEF LaneHolds, Past
  <2> QED BY <1>2, <2>1, <2>3, <2>4, <2>9, <2>11, <2>12, <2>13, HandStep
<1> QED BY <1>4, <1>5 DEF Dispatch

\* The session's answer: what it refuses is on the wire no more.
LEMMA SendReturnsHand ==
  ASSUME QueueInv, HandInv, NEW l \in Lanes, SendReturns(l)
  PROVE  HandInv'
<1> DEFINE i == lane[l].id
<1>1. HandsInv /\ ProvInv BY InvParts
<1>2. UNCHANGED <<db, got, actor>> /\ lane[l].pc = "sending" /\ Claimed(lane[l])
  BY DEF SendReturns, At, Claimed
<1>3. prov \in Providers /\ prov.wire \in Seq(Inputs) /\ Once(got, prov.wire)
  BY <1>1 DEF ProvInv, Providers, HandInv
<1>4. /\ i \in Ids /\ LaneHolds(lane[l], db.intent[i], actor.gen)
      /\ \A m \in Lanes \ {l} : Claimed(lane[m]) => lane[m].id # i
  BY <1>2, HandParts
<1>5. ASSUME NEW k \in OnWire(i), prov' = [prov EXCEPT !.wire = RemoveAt(prov.wire, k)]
      PROVE  /\ Once(got', prov'.wire) /\ Fresh(got', prov'.wire, i)
             /\ \A j \in Ids : Fresh(got, prov.wire, j) => Fresh(got', prov'.wire, j)
  <2>1. k \in DOMAIN prov.wire /\ prov.wire[k].id = i BY <1>5 DEF OnWire
  <2> DEFINE w == RemoveAt(prov.wire, k)
  <2>2. Once(got, w) /\ Fresh(got, w, i) /\ \A j : Fresh(got, prov.wire, j) => Fresh(got, w, j)
    BY <1>3, <2>1, TakenWire
  <2>3. prov' = [prov EXCEPT !.wire = w] BY <1>5
  <2> HIDE DEF w
  <2>4. prov'.wire = w BY <1>3, <2>3 DEF Providers
  <2> QED BY <1>2, <2>2, <2>4
<1>6. CASE Goto(l, "settling") /\ prov' = prov
  <2>1. Follows(lane[l], lane'[l], actor'.gen) /\ \A m \in Lanes \ {l} : lane'[m] = lane[m]
    BY <1>2, <1>6, GotoFollows, PhaseNames
  <2> QED BY <1>2, <1>6, <2>1, PlainHand
<1>7. CASE Throw(l, "other") /\ (prov' = prov
                \/ \E k \in OnWire(i) : prov' = [prov EXCEPT !.wire = RemoveAt(prov.wire, k)])
  <2>1. Follows(lane[l], lane'[l], actor'.gen) /\ \A m \in Lanes \ {l} : lane'[m] = lane[m]
    BY <1>7, ThrowFollows, PhaseNames
  <2>2. /\ Once(got', prov'.wire)
        /\ \A j \in Ids : Fresh(got, prov.wire, j) => Fresh(got', prov'.wire, j)
    BY <1>2, <1>3, <1>5, <1>7
  <2>3. \A j \in Ids : Onward(db.intent[j], db'.intent[j]) BY <1>2, OnwardSame
  <2> QED BY <1>2, <2>1, <2>2, <2>3, LaneHand
<1>8. CASE Throw(l, "refused")
           /\ \E k \in OnWire(i) : prov' = [prov EXCEPT !.wire = RemoveAt(prov.wire, k)]
  <2>1. /\ Once(got', prov'.wire) /\ Fresh(got', prov'.wire, i)
        /\ \A j \in Ids : Fresh(got, prov.wire, j) => Fresh(got', prov'.wire, j)
    BY <1>5, <1>8
  <2>2. lane'[l].pc = "settling" /\ lane'[l].id = i /\ \A m \in Lanes \ {l} : lane'[m] = lane[m]
    BY <1>1, <1>8, LaneFields
  <2>3. LaneHolds(lane'[l], db'.intent[i], actor'.gen)
    BY <1>2, <1>4, <2>2, PhaseNames DEF LaneHolds
  <2>4. \A j \in Ids : Onward(db.intent[j], db'.intent[j]) BY <1>2, OnwardSame
  <2> HIDE DEF i
  <2> QED BY <1>2, <1>4, <2>1, <2>2, <2>3, <2>4, HandStep
<1> QED BY <1>6, <1>7, <1>8 DEF SendReturns

\* The delivery is settled: only a refused or deferred input goes back.
LEMMA SettleHand ==
  ASSUME QueueInv, HandInv, NEW l \in Lanes, Settle(l)
  PROVE  HandInv'
<1> DEFINE s == lane[l]
           i == s.id
<1>1. RowsInv /\ HandsInv /\ Running BY InvParts DEF Settle, At
<1>2. /\ s.pc = "settling" /\ lane' = [lane EXCEPT ![l] = Idle] /\ UNCHANGED <<got, prov, actor>>
      /\ Claimed(s)
  BY DEF Settle, At, Claimed
<1>3. Sound(db) /\ Settled(db) /\ lane \in [Lanes -> Hands] BY <1>1, RunningRows DEF HandsInv
<1>4. /\ s \in Hands /\ i \in Ids /\ db.intent[i].kind # "none"
      /\ db.intent[i].status \notin WaitingStates
      /\ s.err \in Refusals => Fresh(got, prov.wire, i)
      /\ \A m \in Lanes \ {l} : Claimed(lane[m]) => lane[m].id # i
  BY <1>2, HandParts DEF LaneHolds, Keeps
<1>5. db' = IF s.err = "none" THEN Delivered(db, i, s.token)
            ELSE Undelivered(db, i, s.token, s.err, s.steered)
  BY DEF Settle
<1>6. Elsewhere(db, db', i) /\ (Fresh(got, prov.wire, i) \/ Past(db'.intent[i]))
  <2>1. Fresh(got, prov.wire, i) \/ Past(db.intent[i]) BY <1>4 DEF HandInv
  <2>2. CASE s.err = "none"
    <3>1. Near(db, db', i) /\ (Spent(db.intent[i]) => Spent(db'.intent[i]))
      BY <1>3, <1>4, <1>5, <2>2, DeliveredNear
    <3>2. db'.intent[i].status \notin WaitingStates BY <1>4, <3>1 DEF Near, RowLoose
    <3> QED BY <2>1, <3>1, <3>2, NearElsewhere DEF Past
  <2>3. CASE s.err # "none"
    <3>1. s.err \in Errors /\ s.steered \in BOOLEAN BY <1>4, <2>3 DEF Hands, Errors
    <3>2. Elsewhere(db, db', i) /\ Given(db, db', i, s.err)
      BY <1>3, <1>4, <1>5, <2>3, <3>1, UndeliveredGood
    <3>3. CASE s.err \in Refusals BY <1>4, <3>2, <3>3
    <3>4. CASE s.err \notin Refusals BY <1>4, <2>1, <3>2, <3>4 DEF Given, Past
    <3> QED BY <3>3, <3>4
  <2> QED BY <2>2, <2>3
<1>7. \A j \in Ids \ {i} : Onward(db.intent[j], db'.intent[j]) BY <1>3, <1>6, ElsewhereOnward
<1>8. /\ \A m \in Lanes \ {l} : lane'[m] = lane[m]
      /\ lane'[l].pc = "idle" /\ lane'[l].err = "none" /\ ~Claimed(lane'[l])
  BY <1>2, <1>3 DEF Idle, Claimed
<1>9. Once(got', prov'.wire) BY <1>2 DEF HandInv
<1> HIDE DEF i
<1> QED BY <1>2, <1>4, <1>6, <1>7, <1>8, <1>9, HandStep

\* The generation after a close.
LEMMA CloseGeneration ==
  ASSUME NEW a \in Actors
  PROVE  /\ Retire(a).gen = a.gen + 1 /\ Retire(a).gen # 0
         /\ CloseOver(a).gen = a.gen /\ CloseOver(Retire(a)).gen # 0
<1>1. a.gen \in Nat BY DEF Actors
<1>2. Retire(a).gen = a.gen + 1 BY DEF Retire, Actors
<1>3. Retire(a) \in Actors BY RetireActor
<1>4. CloseOver(a).gen = a.gen /\ CloseOver(Retire(a)).gen = Retire(a).gen BY <1>3, CloseOverActor
<1> QED BY <1>1, <1>2, <1>4

\* A close comes to its end.
LEMMA CloseHand ==
  ASSUME QueueInv, HandInv, db' = db \/ Fine(db, db'), got' = got,
         prov'.wire = prov.wire \/ prov'.wire = <<>>, actor.gen # 0 => actor'.gen # 0,
         actor.closer \in Lanes => Goto(actor.closer, "claimed") \/ Throw(actor.closer, "other"),
         actor.closer \notin Lanes => lane' = lane
  PROVE  HandInv'
<1>1. CASE actor.closer \in Lanes
  <2> DEFINE l == actor.closer
  <2>1. l \in Lanes /\ lane[l].pc = "closing" /\ Claimed(lane[l])
    BY <1>1, InvParts DEF CloserInv, Claimed
  <2>2. Goto(l, "claimed") \/ Throw(l, "other") BY <1>1
  <2> HIDE DEF l
  <2>3. Follows(lane[l], lane'[l], actor'.gen) /\ \A m \in Lanes \ {l} : lane'[m] = lane[m]
    <3>1. CASE Goto(l, "claimed") BY <2>1, <3>1, GotoFollows, PhaseNames
    <3>2. CASE Throw(l, "other") BY <2>1, <3>2, ThrowFollows, PhaseNames
    <3> QED BY <2>2, <3>1, <3>2
  <2> QED BY <2>1, <2>3, PlainHand
<1>2. CASE actor.closer \notin Lanes BY <1>2, QuietHand
<1> QED BY <1>1, <1>2

\* The process ended.
LEMMA CloseEndsHand ==
  ASSUME QueueInv, HandInv, CloseEnds
  PROVE  HandInv'
<1>1. RowsInv /\ ActorInv /\ Running BY InvParts DEF CloseEnds
<1>2. db \in Database /\ actor \in Actors /\ actor.gen \in Nat
  BY <1>1, RunningRows DEF ActorInv, Actors
<1>3. db' = db \/ Fine(db, db')
  <2>1. db' = db \/ (actor.gen # 0 /\ db' = SessionExited(db, actor.gen, TRUE)) BY DEF CloseEnds
  <2>2. actor.gen # 0 => Fine(db, SessionExited(db, actor.gen, TRUE)) BY <1>2, SessionExitedFine
  <2> QED BY <2>1, <2>2
<1>4. actor.gen # 0 => actor'.gen # 0
  <2>1. actor' = CloseOver(Retire(actor)) \/ actor' = CloseOver(actor) BY DEF CloseEnds
  <2> QED BY <1>2, <2>1, CloseGeneration
<1>5. got' = got /\ (prov'.wire = prov.wire \/ prov'.wire = <<>>) BY DEF CloseEnds, NoProcess
<1>6. /\ actor.closer \in Lanes => Goto(actor.closer, "claimed")
      /\ actor.closer \notin Lanes => lane' = lane
  BY DEF CloseEnds, AfterClose
<1> QED BY <1>3, <1>4, <1>5, <1>6, CloseHand

\* No exit acknowledgement came.
LEMMA CloseFailsHand ==
  ASSUME QueueInv, HandInv, CloseFails
  PROVE  HandInv'
<1>1. RowsInv /\ ActorInv /\ Running BY InvParts DEF CloseFails
<1>2. db \in Database /\ actor \in Actors /\ actor.gen \in Nat
  BY <1>1, RunningRows DEF ActorInv, Actors
<1>3. \/ db' = db /\ actor' = CloseOver(actor)
      \/ actor.gen # 0 /\ db' = SessionExited(db, actor.gen, TRUE) /\ actor' = CloseOver(Retire(actor))
      \/ db' = db /\ actor' = [CloseOver(actor) EXCEPT !.session = actor.closing]
  <2>1. CASE actor.gen # actor.closing BY <2>1 DEF CloseFails
  <2>2. CASE actor.gen = actor.closing /\ actor.closer = "stop" BY <2>2 DEF CloseFails
  <2>3. CASE actor.gen = actor.closing /\ actor.closer # "stop" BY <2>3 DEF CloseFails
  <2> QED BY <2>1, <2>2, <2>3
<1>4. actor.gen # 0 => Fine(db, SessionExited(db, actor.gen, TRUE)) BY <1>2, SessionExitedFine
<1>5. db' = db \/ Fine(db, db') BY <1>3, <1>4
<1>6. actor.gen # 0 => actor'.gen # 0
  <2>1. [CloseOver(actor) EXCEPT !.session = actor.closing].gen = actor.gen
    BY <1>2 DEF CloseOver, Actors
  <2> QED BY <1>2, <1>3, <2>1, CloseGeneration
<1>7. got' = got /\ prov' = prov BY DEF CloseFails
<1>8. /\ actor.closer \in Lanes => Throw(actor.closer, "other")
      /\ actor.closer \notin Lanes => lane' = lane
  BY DEF CloseFails
<1> QED BY <1>5, <1>6, <1>7, <1>8, CloseHand

\* The provider takes an input.
LEMMA ConsumeHand ==
  ASSUME QueueInv, HandInv, Consume
  PROVE  HandInv'
<1>1. ProvInv /\ RestInv BY InvParts
<1>2. UNCHANGED <<db, lane, actor>> BY DEF Consume
<1>3. PICK k \in DOMAIN prov.wire :
        /\ prov' = [prov EXCEPT !.wire = RemoveAt(prov.wire, k), !.busy = TRUE]
        /\ got' = [got EXCEPT ![prov.wire[k].id] = got[prov.wire[k].id] + 1]
  BY DEF Consume
<1>4. prov \in Providers /\ prov.wire \in Seq(Inputs) /\ got \in [Ids -> Nat] /\ Once(got, prov.wire)
  BY <1>1 DEF ProvInv, Providers, RestInv, HandInv
<1> DEFINE w == RemoveAt(prov.wire, k)
<1>5. Once(got', w) /\ \A j \in Ids : Fresh(got, prov.wire, j) => Fresh(got', w, j)
  BY <1>3, <1>4, TakenOnce
<1>6. prov' = [prov EXCEPT !.wire = w, !.busy = TRUE] BY <1>3
<1> HIDE DEF w
<1>7. prov'.wire = w BY <1>4, <1>6 DEF Providers
<1>8. \A j \in Ids : Onward(db.intent[j], db'.intent[j]) BY <1>2, OnwardSame
<1> QED BY <1>2, <1>5, <1>7, <1>8, RowsHand

\* The provider's other steps, and a Stop of its turn.
LEMMA ProviderHand ==
  ASSUME QueueInv, HandInv, SelfStart \/ EndTurn \/ Die \/ StopTurn
  PROVE  HandInv'
<1>1. ProvInv /\ ActorInv BY InvParts
<1>2. lane' = lane /\ db' = db /\ got' = got BY DEF SelfStart, EndTurn, Die, StopTurn
<1>3. \/ prov' = prov \/ prov' = NoProcess
      \/ \E b \in BOOLEAN : prov' = [prov EXCEPT !.busy = b]
  BY DEF SelfStart, EndTurn, Die, StopTurn
<1>4. prov'.wire = prov.wire \/ prov'.wire = <<>> BY <1>1, <1>3 DEF ProvInv, Providers, NoProcess
<1>5. actor'.gen = actor.gen
  <2>1. CASE SelfStart \/ EndTurn \/ Die BY <2>1 DEF SelfStart, EndTurn, Die
  <2>2. CASE StopTurn BY <1>1, <2>2 DEF StopTurn, BeginClose, ActorInv, Actors
  <2> QED BY <2>1, <2>2
<1> QED BY <1>2, <1>4, <1>5, QuietHand

\* The actor folds a frame.
LEMMA FoldHand ==
  ASSUME QueueInv, HandInv, Fold
  PROVE  HandInv'
<1>1. RowsInv /\ ActorInv /\ FramesInv /\ Running BY InvParts DEF Fold
<1>2. db \in Database BY <1>1, RunningRows
<1>3. Fine(db, db') /\ (actor' = actor \/ actor' = Retire(actor)) BY FoldFine
<1>4. actor.gen # 0 => actor'.gen # 0 BY <1>1, <1>3, CloseGeneration DEF ActorInv
<1>5. UNCHANGED <<lane, got, prov>> BY DEF Fold
<1> QED BY <1>3, <1>4, <1>5, QuietHand

\* A command that leaves the actor alone, a deadline or a reading of the account.
LEMMA CommandHand ==
  ASSUME QueueInv, HandInv, UNCHANGED <<lane, prov, got, actor>>, Fine(db, db') \/ Grown(db, db')
  PROVE  HandInv'
BY QuietHand

\* The commands other than Stop.
LEMMA CommandsHand ==
  ASSUME QueueInv, HandInv,
         \/ \E steer \in BOOLEAN : SendMessage(steer)
         \/ Pause \/ Resume \/ ChooseLimitAction \/ Edit \/ Discard \/ ResendMessage \/ Move
         \/ AccountRecovered \/ Deadline
  PROVE  HandInv'
<1>1. Sound(db) /\ db \in Database BY DEF QueueInv, Sound
<1>2. UNCHANGED <<lane, prov, got, actor>>
  BY DEF SendMessage, Pause, Resume, ChooseLimitAction, Edit, Discard, ResendMessage, Move,
         AccountRecovered, Deadline, Command
<1>3. CASE \E steer \in BOOLEAN : SendMessage(steer)
  <2>1. Grown(db, db') BY <1>1, <1>3, AdmitSendGrown DEF SendMessage
  <2> QED BY <1>2, <2>1, CommandHand
<1>4. CASE Pause
  <2>1. Fine(db, db') BY <1>1, <1>4, PauseFine DEF Pause
  <2> QED BY <1>2, <2>1, CommandHand
<1>5. CASE Resume
  <2>1. Grown(db, db') BY <1>1, <1>5, PersonResumesGrown DEF Resume
  <2> QED BY <1>2, <2>1, CommandHand
<1>6. CASE ChooseLimitAction
  <2>1. Fine(db, db') BY <1>1, <1>6, ScheduleFine, CancelResumeFine DEF ChooseLimitAction
  <2> QED BY <1>2, <2>1, CommandHand
<1>7. CASE Edit
  <2>1. Editable(db) \subseteq Ids BY DEF Editable, WaitingOf, UncertainOf
  <2>2. Fine(db, db') BY <1>1, <1>7, <2>1, EditFine DEF Edit
  <2> QED BY <1>2, <2>2, CommandHand
<1>8. CASE Discard
  <2>1. Fine(db, db') BY <1>1, <1>8, RemoveMessageFine DEF Discard
  <2> QED BY <1>2, <2>1, CommandHand
<1>9. CASE ResendMessage
  <2>1. Grown(db, db') BY <1>1, <1>9, ResendGrown DEF ResendMessage
  <2> QED BY <1>2, <2>1, CommandHand
<1>10. CASE Move
  <2>1. WaitingOf(db, "send") \subseteq Ids BY DEF WaitingOf
  <2>2. Fine(db, db') BY <1>1, <1>10, <2>1, MoveFine DEF Move
  <2> QED BY <1>2, <2>2, CommandHand
<1>11. CASE AccountRecovered
  <2>1. Fine(db, db') BY <1>1, <1>11, ClearLimitFine DEF AccountRecovered
  <2> QED BY <1>2, <2>1, CommandHand
<1>12. CASE Deadline
  <2>1. Grown(db, db') BY <1>1, <1>12, TimerFiresGrown DEF Deadline
  <2> QED BY <1>2, <2>1, CommandHand
<1> QED BY <1>3, <1>4, <1>5, <1>6, <1>7, <1>8, <1>9, <1>10, <1>11, <1>12

\* The rows of a database in which every past row stays past.
KeepsPast(d, d2) == \A i \in Ids : Past(d.intent[i]) => Past(d2.intent[i])

\* Startup's first pass only marks rows.
LEMMA RecoverThreadPast ==
  ASSUME NEW d, Sound(d)
  PROVE  KeepsPast(d, RecoverThread(d))
<1> DEFINE cut == {i \in Ids : /\ d.intent[i].kind = "resume"
                               /\ d.intent[i].sub # 0 /\ ~d.intent[i].acked
                               /\ d.intent[i].status = "running" \/ d.intent[i].awaiting}
           a == MarkUncertain(d, cut)
           b == IF StoppedHold(a) /\ a.q.trigger = "restart" THEN NoContinuation(a) ELSE a
           c == Capture(b)
           e == IF UncertainContinuation(c) THEN c ELSE FinishContinuation(c)
           f == [e EXCEPT !.run = FALSE]
<1>0. RecoverThread(d) = f BY DEF RecoverThread
<1>1. d \in Database BY DEF Sound
<1> HIDE DEF cut
<1>2. a \in Database /\ \A i \in Ids \ cut : a.intent[i] = d.intent[i] BY <1>1, UncertainRows
<1>3. ASSUME NEW i \in Ids \cap cut
      PROVE  /\ a.intent[i].status = d.intent[i].status /\ a.intent[i].sub = d.intent[i].sub
             /\ a.intent[i].awaiting = d.intent[i].awaiting
  BY <1>1, <1>3, UncertainRows
<1> HIDE DEF a
<1>4. KeepsPast(d, a) BY <1>2, <1>3 DEF KeepsPast, Past, Spent
<1>5. b \in Database /\ b.intent = a.intent BY <1>2, NoContinuationFine DEF QueueOnly
<1> HIDE DEF b
<1>6. c \in Database /\ c.intent = a.intent BY <1>5, CaptureFine
<1> HIDE DEF c
<1>7. e \in Database /\ e.intent = a.intent BY <1>6, FinishFine
<1> HIDE DEF e
<1>8. f.intent = a.intent
  <2>1. f.intent = e.intent BY <1>7, RunFine, Zenon
  <2> QED BY <1>7, <2>1
<1> HIDE DEF f
<1> QED BY <1>0, <1>4, <1>8 DEF KeepsPast

\* Its second puts back only what was never submitted.
LEMMA RecoverIntentsPast ==
  ASSUME NEW d, Sound(d)
  PROVE  KeepsPast(d, RecoverIntents(d))
<1> DEFINE open == {i \in Ids : d.intent[i].status = "running" \/ d.intent[i].awaiting}
           unsent == {i \in open : d.intent[i].sub = 0 /\ ~d.intent[i].acked}
           sent == open \ unsent
           unsure == {i \in sent : ~d.intent[i].acked}
           a == Defer(d, unsent)
           b == MarkUncertain(a, unsure)
           c == Mark(b, sent, "failed")
           e == Hold(c, "manual")
<1>0. RecoverIntents(d) = c \/ RecoverIntents(d) = e BY DEF RecoverIntents
<1>1. d \in Database BY DEF Sound
<1>2. \A i \in unsent : d.intent[i].sub = 0 /\ (d.intent[i].status = "running" \/ d.intent[i].awaiting)
  OBVIOUS
<1>3. unsure \subseteq sent OBVIOUS
<1> HIDE DEF open, unsent, sent, unsure
<1>4. a \in Database /\ \A i \in Ids \ unsent : a.intent[i] = d.intent[i] BY <1>1, DeferRows
<1> HIDE DEF a
<1>5. b \in Database /\ \A i \in Ids \ unsure : b.intent[i] = a.intent[i] BY <1>4, UncertainRows
<1> HIDE DEF b
<1>6. "failed" \in Statuses /\ "manual" \in Reasons BY DEF Statuses, Reasons
<1>7. c \in Database /\ \A i \in Ids \ sent : c.intent[i] = b.intent[i] BY <1>5, <1>6, MarkRows
<1>8. ASSUME NEW i \in Ids \cap sent PROVE c.intent[i].status = "failed" /\ ~c.intent[i].awaiting
  BY <1>5, <1>6, <1>8, MarkRows
<1> HIDE DEF c
<1>9. ASSUME NEW i \in Ids, Past(d.intent[i]) PROVE Past(c.intent[i])
  <2>1. i \notin unsent BY <1>2, <1>9 DEF Past, Spent
  <2>2. CASE i \in sent BY <1>8, <2>2 DEF Past, Spent, WaitingStates
  <2>3. CASE i \notin sent BY <1>3, <1>4, <1>5, <1>7, <1>9, <2>1, <2>3
  <2> QED BY <2>2, <2>3
<1>10. e.intent = c.intent BY <1>6, <1>7, HoldFine DEF QueueOnly
<1> HIDE DEF e
<1> QED BY <1>0, <1>9, <1>10 DEF KeepsPast

\* The daemon crashes: what was on the wire is gone with the process.
LEMMA CrashHand ==
  ASSUME HandInv, Crash
  PROVE  HandInv'
<1>1. db' = db /\ got' = got /\ prov'.wire = <<>> BY DEF Crash, NoProcess
<1>2. \A l \in Lanes : lane'[l].pc = "idle" /\ lane'[l].err = "none" BY DEF Crash, Idle
<1>3. /\ Once(got', prov'.wire)
      /\ \A j \in Ids : Fresh(got, prov.wire, j) => Fresh(got', prov'.wire, j)
  BY <1>1, WireStays
<1>4. \A j \in Ids : Fresh(got', prov'.wire, j) \/ Past(db'.intent[j]) BY <1>1, <1>3 DEF HandInv
<1> QED BY <1>2, <1>3, <1>4, IdleHand

\* One of the three passes of startup.
LEMMA StartupHand ==
  ASSUME QueueInv, HandInv, Startup
  PROVE  HandInv'
<1>1. HandsInv /\ Sound(db) /\ db \in Database BY InvParts DEF RowsInv, Sound
<1>2. UNCHANGED <<lane, prov, got>> BY DEF Startup
<1>3. \A l \in Lanes : lane[l].pc = "idle" BY <1>1 DEF HandsInv, Running, Startup
<1>4. \A l \in Lanes : lane[l].err = "none" BY <1>3 DEF HandInv
<1>5. KeepsPast(db, db')
  <2>1. CASE db' = RecoverThread(db) BY <1>1, <2>1, RecoverThreadPast
  <2>2. CASE db' = RecoverIntents(db) BY <1>1, <2>2, RecoverIntentsPast
  <2>3. CASE (host.candidate => Unused(db) # {}) /\ db' = DecideRestart(db, host.candidate)
    <3>1. \A j \in Ids : Onward(db.intent[j], db'.intent[j])
      BY <1>1, <2>3, DecideRestartGrown, GrownOnward
    <3>2. \A j \in Ids : RowInv(db.intent[j]) BY <1>1 DEF Sound
    <3> QED BY <3>1, <3>2, PastStays DEF KeepsPast
  <2> QED BY <2>1, <2>2, <2>3 DEF Startup
<1>6. \A j \in Ids : Fresh(got', prov'.wire, j) \/ Past(db'.intent[j])
  BY <1>2, <1>5 DEF HandInv, KeepsPast
<1>7. Once(got', prov'.wire) BY <1>2 DEF HandInv
<1> QED BY <1>2, <1>3, <1>4, <1>6, <1>7, IdleHand

-----------------------------------------------------------------------------
(* The theorems. *)

\* The empty queue of a running daemon.
LEMMA InitInv ==
  ASSUME Init
  PROVE  QueueInv
<1>1. 0 \in 0..MaxIntents /\ 0 \in Nat BY IdFacts
<1>2. Sound(db) /\ Settled(db)
  <2>1. db \in Database
    <3>1. db = EmptyDatabase BY DEF Init
    <3> QED BY <1>1, <3>1 DEF EmptyDatabase, Database, NoIntent, Intent, Queue, Reasons, Timers, Triggers
  <2>2. \A i \in Ids : db.intent[i] = NoIntent BY DEF Init, EmptyDatabase
  <2>3. NoIntent.kind = "none" /\ NoIntent.status = "none" /\ ~NoIntent.awaiting
        /\ ~NoIntent.uncertain /\ NoIntent.sub = 0
    BY DEF NoIntent
  <2>4. RowInv(NoIntent) BY <2>3 DEF RowInv, WaitingStates
  <2>5. Marked(db) BY DEF Init, EmptyDatabase, Marked
  <2> QED BY <2>1, <2>2, <2>3, <2>4, <2>5 DEF Sound, Settled
<1>3. RowsInv BY <1>2 DEF RowsInv, Init
<1>4. HandsInv
  <2>1. lane = [l \in Lanes |-> Idle] /\ Idle \in Hands /\ Idle.pc = "idle"
    BY <1>1 DEF Init, Idle, Hands, Phases
  <2> QED BY <2>1 DEF HandsInv, LaneInv
<1>5. ActorInv /\ CloserInv BY <1>1 DEF Init, NoActor, ActorInv, Actors, CloserInv, Lanes
<1>6. FramesInv
  <2>1. frames = <<>> /\ <<>> \in Seq(Mails) BY DEF Init
  <2> QED BY <2>1, MailboxType
<1>7. ProvInv
  <2>1. <<>> \in Seq(Inputs) OBVIOUS
  <2> QED BY <1>1, <2>1 DEF Init, NoProcess, ProvInv, Providers
<1>8. RestInv BY <1>1 DEF Init, RestInv
<1> QED BY <1>3, <1>4, <1>5, <1>6, <1>7, <1>8, InvParts

\* Every step keeps the invariant, the kinds of the rows, and what is uncertain off the queue.
LEMMA NextStep ==
  ASSUME QueueInv, Next
  PROVE  QueueInv' /\ Kept(db, db')
<1>1. CASE Engine
  <2>1. CASE Fold \/ CloseEnds \/ StopTurn \/ Startup
    BY <2>1, FoldStep, CloseEndsStep, StopTurnStep, StartupStep
  <2>2. ASSUME NEW l \in Lanes, Deliver(l) PROVE QueueInv' /\ Kept(db, db')
    BY <2>2, ChooseStep, ClaimStep, CloseLimitedStep, OpenStep, OpenEndsStep, InspectStep,
       VerifyStep, BeginContinuationStep, DispatchStep, SendReturnsStep, SettleStep DEF Deliver
  <2> QED BY <1>1, <2>1, <2>2 DEF Engine
<1>2. CASE Person
  <2>1. CASE \E steer \in BOOLEAN : SendMessage(steer) BY <2>1, SendMessageStep
  <2>2. CASE Stop BY <2>2, StopStep
  <2>3. CASE Pause \/ Resume \/ ChooseLimitAction \/ Edit \/ Discard \/ ResendMessage \/ Move
    BY <2>3, RowsCommands
  <2> QED BY <1>2, <2>1, <2>2, <2>3 DEF Person
<1>3. CASE Provider BY <1>3, ConsumeStep, EndTurnStep DEF Provider
<1>4. CASE Environment
  <2>1. CASE \E l \in Lanes : PrepareFails(l) BY <2>1, PrepareFailsStep
  <2>2. CASE CloseFails \/ SelfStart \/ Die \/ Deadline \/ Crash
    BY <2>2, CloseFailsStep, SelfStartStep, DieStep, DeadlineStep, CrashStep
  <2>3. CASE AccountRecovered BY <2>3, RowsCommands
  <2> QED BY <1>4, <2>1, <2>2, <2>3 DEF Environment
<1> QED BY <1>1, <1>2, <1>3, <1>4 DEF Next

\* Nothing happens.
LEMMA StutterStep ==
  ASSUME QueueInv, UNCHANGED vars
  PROVE  QueueInv' /\ Kept(db, db')
<1>1. RowsInv /\ HandsInv /\ ActorInv /\ CloserInv /\ FramesInv /\ ProvInv /\ RestInv BY InvParts
<1>2. Sound(db) /\ db' = db BY <1>1 DEF RowsInv, vars
<1>3. RowsInv' /\ HandsInv' /\ ActorInv' /\ CloserInv' /\ FramesInv' /\ ProvInv' /\ RestInv'
  BY <1>1 DEF vars, RowsInv, HandsInv, LaneInv, Running, ActorInv, CloserInv, FramesInv, ProvInv, RestInv
<1>4. Kept(db, db') BY <1>2, KeptSame
<1> QED BY <1>3, <1>4, InvPartsNext

\* The inductive invariant of a thread's queue.
THEOREM QueueInvariant == Spec => []QueueInv
<1>1. Init => QueueInv BY InitInv
<1>2. QueueInv /\ [Next]_vars => QueueInv' BY NextStep, StutterStep
<1> QED BY <1>1, <1>2, PTL DEF Spec

\* The rows, lanes, sessions and frames of a thread's queue keep their shape, and a session is always
\* of the actor's current generation, whatever the lanes, the provider, the person and the crashes do
\* in between (actor.ts retireGeneration, sessions.ts open, close and closeForStop).
THEOREM QueueTypes == Spec => []TypeOK
<1>1. QueueInv => TypeOK BY DEF QueueInv
<1> QED BY <1>1, QueueInvariant, PTL

\* No path leaves a thread marked as limited without the hold that keeps its queue and the quota
\* evidence that clears it (recovery.ts observe, lift and clearLimit, restart.ts).
THEOREM LimitsHold == Spec => []LimitHolds
<1>1. QueueInv => LimitHolds BY DEF QueueInv, Sound, Marked, LimitHolds
<1> QED BY <1>1, QueueInvariant, PTL

\* What was handed to a provider with no answer never becomes runnable again, over every edit, Stop,
\* late frame, refusal and restart (queue-commands.ts resend, restart.ts recoverIntents).
THEOREM UncertainStaysPut == Spec => UncertainNeverRuns
<1> DEFINE A == \A i \in Ids : db.intent[i].uncertain => db'.intent[i].status \notin WaitingStates
<1>1. QueueInv /\ [Next]_vars => [A]_vars
  <2> SUFFICES ASSUME QueueInv, [Next]_vars PROVE A OBVIOUS
  <2>1. Kept(db, db') BY NextStep, StutterStep
  <2> QED BY <2>1 DEF Kept
<1>2. UncertainNeverRuns <=> [][A]_vars BY DEF UncertainNeverRuns
<1> HIDE DEF A
<1> QED BY <1>1, <1>2, QueueInvariant, PTL DEF Spec

-----------------------------------------------------------------------------
(* The theorems about what is handed to a provider. *)

\* Nothing is in anybody's hands at first.
LEMMA InitHand ==
  ASSUME Init
  PROVE  HandInv
<1>1. prov.wire = <<>> /\ got = [i \in Ids |-> 0] BY DEF Init, NoProcess
<1>2. Once(got, prov.wire) /\ \A i \in Ids : Fresh(got, prov.wire, i) BY <1>1 DEF Once, Fresh
<1>3. \A l \in Lanes : lane[l].pc = "idle" /\ lane[l].err = "none" BY DEF Init, Idle
<1> QED BY <1>2, <1>3 DEF HandInv, Claimed

\* Every step but a Stop keeps the hands apart.
LEMMA HandNext ==
  ASSUME QueueInv, HandInv, Next, ~Stop
  PROVE  HandInv'
<1>1. CASE Engine
  <2>1. CASE Fold \/ CloseEnds \/ StopTurn \/ Startup
    BY <2>1, FoldHand, CloseEndsHand, ProviderHand, StartupHand
  <2>2. ASSUME NEW l \in Lanes, Deliver(l) PROVE HandInv'
    BY <2>2, ChooseHand, ClaimHand, CloseLimitedHand, OpenHand, OpenEndsHand, InspectHand,
       VerifyHand, BeginContinuationHand, DispatchHand, SendReturnsHand, SettleHand DEF Deliver
  <2> QED BY <1>1, <2>1, <2>2 DEF Engine
<1>2. CASE Person BY <1>2, CommandsHand DEF Person
<1>3. CASE Provider BY <1>3, ConsumeHand, ProviderHand DEF Provider
<1>4. CASE Environment
  <2>1. CASE \E l \in Lanes : PrepareFails(l) BY <2>1, PrepareFailsHand
  <2>2. CASE CloseFails \/ SelfStart \/ Die \/ Deadline \/ Crash \/ AccountRecovered
    BY <2>2, CloseFailsHand, ProviderHand, CommandsHand, CrashHand
  <2> QED BY <1>4, <2>1, <2>2 DEF Environment
<1> QED BY <1>1, <1>2, <1>3, <1>4 DEF Next

\* A step counts at most one event.
LEMMA StepSpends ==
  ASSUME Next
  PROVE  spent' = spent \/ \E e \in Events : Happens(e)
<1>0. \A e \in {"send", "steer", "stop", "pause", "resume", "limit", "edit", "remove", "resend",
                "move", "account", "crash", "die", "self", "quota", "close", "open", "prepare",
                "reject", "refuse", "interrupt"} : e \in Events
  BY DEF Events, Commands, Faults
<1>1. CASE Engine
  <2>1. CASE Fold \/ CloseEnds \/ Startup BY <2>1 DEF Fold, CloseEnds, Startup
  <2>2. CASE StopTurn
    <3>1. spent' = spent \/ Happens("interrupt") BY <2>2 DEF StopTurn
    <3> QED BY <1>0, <3>1
  <2>3. ASSUME NEW l \in Lanes, Deliver(l) PROVE spent' = spent \/ \E e \in Events : Happens(e)
    <3>1. CASE Choose(l) \/ ClaimIntent(l) \/ CloseLimited(l) \/ Inspect(l) \/ Verify(l)
      BY <3>1 DEF Choose, ClaimIntent, CloseLimited, Inspect, Verify
    <3>2. CASE BeginContinuation(l) \/ Dispatch(l) \/ Settle(l)
      BY <3>2 DEF BeginContinuation, Dispatch, Settle
    <3>3. CASE Open(l)
      <4>1. spent' = spent \/ Happens("open") BY <3>3 DEF Open
      <4> QED BY <1>0, <4>1
    <3>4. CASE OpenEnds(l)
      <4>1. spent' = spent \/ Happens("open") BY <3>4 DEF OpenEnds
      <4> QED BY <1>0, <4>1
    <3>5. CASE SendReturns(l)
      <4>1. spent' = spent \/ Happens("reject") \/ Happens("refuse") BY <3>5 DEF SendReturns
      <4> QED BY <1>0, <4>1
    <3> QED BY <2>3, <3>1, <3>2, <3>3, <3>4, <3>5 DEF Deliver
  <2> QED BY <1>1, <2>1, <2>2, <2>3 DEF Engine
<1>2. CASE Person
  <2>1. \/ Happens("steer") \/ Happens("send") \/ Happens("stop") \/ Happens("pause")
        \/ Happens("resume") \/ Happens("limit") \/ Happens("edit") \/ Happens("remove")
        \/ Happens("resend") \/ Happens("move")
    BY <1>2 DEF Person, SendMessage, Stop, Pause, Resume, ChooseLimitAction, Edit, Discard,
                ResendMessage, Move, Command
  <2> QED BY <1>0, <2>1
<1>3. CASE Provider
  <2>1. spent' = spent \/ Happens("quota") BY <1>3 DEF Provider, Consume, EndTurn
  <2> QED BY <1>0, <2>1
<1>4. CASE Environment
  <2>1. \/ spent' = spent \/ Happens("prepare") \/ Happens("close") \/ Happens("self")
        \/ Happens("die") \/ Happens("account") \/ Happens("crash")
    BY <1>4 DEF Environment, PrepareFails, CloseFails, SelfStart, Die, Deadline, AccountRecovered,
                Crash, Command
  <2> QED BY <1>0, <2>1
<1> QED BY <1>1, <1>2, <1>3, <1>4 DEF Next

\* While no Stop is counted there was none.
LEMMA NoStopYet ==
  ASSUME QueueInv, Next, spent'["stop"] = 0
  PROVE  spent["stop"] = 0 /\ ~Stop
<1>1. spent \in [Events -> Nat] /\ "stop" \in Events BY InvParts DEF RestInv, Events, Commands
<1>2. spent["stop"] \in Nat BY <1>1
<1>3. ASSUME NEW e \in Events, Happens(e)
      PROVE  spent'["stop"] = IF e = "stop" THEN spent["stop"] + 1 ELSE spent["stop"]
  BY <1>1, <1>3 DEF Happens
<1>4. ~Stop
  <2>1. Stop => Happens("stop") BY DEF Stop, Command
  <2> QED BY <1>1, <1>2, <1>3, <2>1
<1>5. spent["stop"] = 0 BY <1>2, <1>3, StepSpends
<1> QED BY <1>4, <1>5

\* Until the first Stop, a claimed row is in one lane's hands, was not handed over before that lane
\* sends it, and is submitted or settled once it was (intent-delivery.ts run, restart.ts).
THEOREM HandsApart == Spec => []BeforeStop
<1>1. Init => BeforeStop BY InitHand DEF BeforeStop
<1>2. QueueInv /\ BeforeStop /\ [Next]_vars => BeforeStop'
  <2> SUFFICES ASSUME QueueInv, BeforeStop, [Next]_vars PROVE BeforeStop' OBVIOUS
  <2>1. CASE Next
    <3> SUFFICES ASSUME spent'["stop"] = 0 PROVE HandInv' BY DEF BeforeStop
    <3>1. HandInv /\ ~Stop BY <2>1, NoStopYet DEF BeforeStop
    <3> QED BY <2>1, <3>1, HandNext
  <2>2. CASE UNCHANGED vars BY <2>2 DEF vars, BeforeStop, HandInv
  <2> QED BY <2>1, <2>2
<1> QED BY <1>1, <1>2, QueueInvariant, PTL DEF Spec

\* An input that is fresh was never handed over.
LEMMA FreshUnhanded ==
  ASSUME NEW i, Fresh(got, prov.wire, i)
  PROVE  Handed(i) = 0
<1>1. OnWire(i) = {} BY DEF Fresh, OnWire
<1> QED BY <1>1, FS_EmptySet DEF Handed, Fresh

\* Until the first Stop, what waits to be delivered was never handed to a provider: no refusal,
\* deferral, lost session or restart puts back what a provider may have (intent-delivery.ts run,
\* restart.ts recoverIntents).
THEOREM NotReplayed == Spec => [](spent["stop"] = 0 => NeverReplayed)
<1>1. BeforeStop => (spent["stop"] = 0 => NeverReplayed)
  <2> SUFFICES ASSUME HandInv, NEW i \in Ids, Waiting(i) PROVE Handed(i) = 0
    BY DEF BeforeStop, NeverReplayed
  <2>1. Fresh(got, prov.wire, i) BY DEF HandInv, Past, Waiting
  <2> QED BY <2>1, FreshUnhanded
<1> QED BY <1>1, HandsApart, PTL

\* Until the first Stop, no provider gets the same input twice, whichever lane, retry or restart
\* delivers it (intent-delivery.ts run, delivery.ts, restart.ts).
THEOREM HandedOnce == Spec => [](spent["stop"] = 0 => AtMostOnce)
<1>1. QueueInv /\ BeforeStop => (spent["stop"] = 0 => AtMostOnce)
  <2> SUFFICES ASSUME QueueInv, HandInv, NEW i \in Ids PROVE Handed(i) <= 1
    BY DEF BeforeStop, AtMostOnce
  <2>1. got \in [Ids -> Nat] /\ got[i] \in Nat /\ got[i] <= 1 BY InvParts DEF RestInv, HandInv, Once
  <2>2. CASE OnWire(i) = {} BY <2>1, <2>2, FS_EmptySet DEF Handed
  <2>3. CASE OnWire(i) # {}
    <3>1. PICK k \in DOMAIN prov.wire : prov.wire[k].id = i BY <2>3 DEF OnWire
    <3>2. got[i] = 0 /\ OnWire(i) = {k} BY <3>1 DEF HandInv, Once, OnWire
    <3>3. Cardinality({k}) = 1 BY FS_Singleton
    <3> QED BY <3>2, <3>3 DEF Handed
  <2> QED BY <2>2, <2>3
<1> QED BY <1>1, HandsApart, QueueInvariant, PTL

=============================================================================
