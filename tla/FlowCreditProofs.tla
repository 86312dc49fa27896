-------------------------- MODULE FlowCreditProofs --------------------------
(***************************************************************************)
(* What each method of FlowCredit does to each of its counters.            *)
(***************************************************************************)
EXTENDS FlowCredit, TLAPS

\* g is a FlowCredit that differs from f in no field outside `but`.
Same(f, g, but) ==
  /\ g \in FlowType
  /\ "limited" \notin but => g.limited = f.limited
  /\ "window" \notin but => g.window = f.window
  /\ "counting" \notin but => g.counting = f.counting
  /\ "queued" \notin but => g.queued = f.queued
  /\ "uncounted" \notin but => g.uncounted = f.uncounted
  /\ "unacked" \notin but => g.unacked = f.unacked
  /\ "owed" \notin but => g.owed = f.owed

\* The types of the fields of the class.
LEMMA Fields ==
  ASSUME NEW f \in FlowType
  PROVE  /\ f.limited \in BOOLEAN /\ f.counting \in BOOLEAN
         /\ f.window \in Int /\ f.queued \in Int /\ f.uncounted \in Int
         /\ f.unacked \in Int /\ f.owed \in Int
BY DEF FlowType

\* One assignment changes one field.
LEMMA SetField ==
  ASSUME NEW f \in FlowType, NEW v \in Int
  PROVE  /\ LET g == [f EXCEPT !.window = v] IN Same(f, g, {"window"}) /\ g.window = v
         /\ LET g == [f EXCEPT !.queued = v] IN Same(f, g, {"queued"}) /\ g.queued = v
         /\ LET g == [f EXCEPT !.uncounted = v] IN Same(f, g, {"uncounted"}) /\ g.uncounted = v
         /\ LET g == [f EXCEPT !.unacked = v] IN Same(f, g, {"unacked"}) /\ g.unacked = v
         /\ LET g == [f EXCEPT !.owed = v] IN Same(f, g, {"owed"}) /\ g.owed = v
BY DEF Same, FlowType

\* start() limits this side to a full window, the first time only.
LEMMA StartFacts ==
  ASSUME NEW f \in FlowType
  PROVE  /\ Same(f, start(f), {"limited", "window"})
         /\ start(f).limited
         /\ start(f).window = IF f.limited THEN f.window ELSE FLOW_WINDOW
<1> DEFINE g == [f EXCEPT !.limited = TRUE]
           h == [g EXCEPT !.window = FLOW_WINDOW]
<1>1. (f.limited => start(f) = f) /\ (~f.limited => start(f) = h) BY DEF start
<1>2. Same(f, g, {"limited"}) /\ g.limited BY DEF Same, FlowType
<1> HIDE DEF g
<1>3. FLOW_WINDOW \in Int /\ g \in FlowType BY <1>2, FlowAssumption DEF Same
<1>4. Same(g, h, {"window"}) /\ h.window = FLOW_WINDOW BY <1>3, SetField
<1> HIDE DEF h
<1>5. CASE f.limited BY <1>1, <1>5, Fields DEF Same
<1>6. CASE ~f.limited BY <1>1, <1>2, <1>4, <1>6, Fields DEF Same
<1> QED BY <1>5, <1>6

\* A first credit starts the counting; what is queued by then is not counted.
LEMMA CountFacts ==
  ASSUME NEW f \in FlowType
  PROVE  /\ Same(f, Count(f), {"counting", "uncounted"})
         /\ Count(f).counting
         /\ Count(f).uncounted = IF f.counting THEN f.uncounted ELSE f.queued
<1> DEFINE g == [f EXCEPT !.counting = TRUE]
           h == [g EXCEPT !.uncounted = f.queued]
<1>1. (f.counting => Count(f) = f) /\ (~f.counting => Count(f) = h) BY DEF Count
<1>2. Same(f, g, {"counting"}) /\ g.counting BY DEF Same, FlowType
<1> HIDE DEF g
<1>3. f.queued \in Int /\ g \in FlowType BY <1>2, Fields DEF Same
<1>4. Same(g, h, {"uncounted"}) /\ h.uncounted = f.queued BY <1>3, SetField
<1> HIDE DEF h
<1>5. CASE f.counting BY <1>1, <1>5, Fields DEF Same
<1>6. CASE ~f.counting BY <1>1, <1>2, <1>4, <1>6, Fields DEF Same
<1> QED BY <1>5, <1>6

\* credited() counts, starts and widens the window by what the peer returned.
LEMMA CreditedFacts ==
  ASSUME NEW f \in FlowType, NEW amount \in Nat
  PROVE  LET g == credited(f, amount)
         IN  /\ Same(f, g, {"limited", "window", "counting", "uncounted"})
             /\ g.limited /\ g.counting
             /\ g.window = amount + IF f.limited THEN f.window ELSE FLOW_WINDOW
             /\ g.uncounted = IF f.counting THEN f.uncounted ELSE f.queued
<1> DEFINE c == Count(f)
           s == start(c)
           g == [s EXCEPT !.window = @ + amount]
<1>1. credited(f, amount) = g BY DEF credited
<1>2. /\ Same(f, c, {"counting", "uncounted"}) /\ c.counting
      /\ c.uncounted = IF f.counting THEN f.uncounted ELSE f.queued
  BY CountFacts
<1> HIDE DEF c
<1>3. c \in FlowType BY <1>2 DEF Same
<1>4. /\ Same(c, s, {"limited", "window"}) /\ s.limited
      /\ s.window = IF c.limited THEN c.window ELSE FLOW_WINDOW
  BY <1>3, StartFacts
<1> HIDE DEF s
<1>5. s \in FlowType BY <1>4 DEF Same
<1>6. s.window + amount \in Int BY <1>5, Fields
<1>7. Same(s, g, {"window"}) /\ g.window = s.window + amount BY <1>5, <1>6, SetField
<1> HIDE DEF g
<1>8. s.window = IF f.limited THEN f.window ELSE FLOW_WINDOW BY <1>2, <1>4 DEF Same
<1>9. Same(f, g, {"limited", "window", "counting", "uncounted"})
  BY <1>2, <1>4, <1>7 DEF Same
<1>10. g.limited /\ g.counting BY <1>2, <1>4, <1>7 DEF Same
<1>11. g.window = amount + IF f.limited THEN f.window ELSE FLOW_WINDOW
  BY <1>7, <1>8, Fields, FlowAssumption
<1>12. g.uncounted = IF f.counting THEN f.uncounted ELSE f.queued
  BY <1>2, <1>4, <1>7 DEF Same
<1> QED BY <1>1, <1>9, <1>10, <1>11, <1>12

\* spend() takes a fragment's cost from the window of a limited side.
LEMMA SpendFacts ==
  ASSUME NEW f \in FlowType, NEW cost \in Nat
  PROVE  LET g == spend(f, cost)
         IN  /\ Same(f, g, {"window"})
             /\ g.window = IF f.limited THEN f.window - cost ELSE f.window
<1> DEFINE g == [f EXCEPT !.window = @ - cost]
<1>1. spend(f, cost) = IF f.limited THEN g ELSE f BY DEF spend
<1>2. f.window - cost \in Int BY Fields
<1>3. Same(f, g, {"window"}) /\ g.window = f.window - cost BY <1>2, SetField
<1> HIDE DEF g
<1>4. CASE f.limited BY <1>1, <1>3, <1>4
<1>5. CASE ~f.limited BY <1>1, <1>5, Fields DEF Same
<1> QED BY <1>4, <1>5

\* received() queues a fragment and counts its cost once the peer has started.
LEMMA ReceivedFacts ==
  ASSUME NEW f \in FlowType, NEW cost \in Nat
  PROVE  LET g == received(f, cost)
         IN  /\ Same(f, g, {"queued", "unacked"})
             /\ g.queued = f.queued + 1
             /\ g.unacked = IF f.counting THEN f.unacked + cost ELSE f.unacked
<1> DEFINE g == [f EXCEPT !.queued = @ + 1]
           h == [g EXCEPT !.unacked = @ + cost]
<1>1. received(f, cost) = IF f.counting THEN h ELSE g BY DEF received
<1>2. f.queued + 1 \in Int BY Fields
<1>3. Same(f, g, {"queued"}) /\ g.queued = f.queued + 1 BY <1>2, SetField
<1> HIDE DEF g
<1>4. g \in FlowType /\ g.unacked + cost \in Int BY <1>3, Fields DEF Same
<1>5. Same(g, h, {"unacked"}) /\ h.unacked = g.unacked + cost BY <1>4, SetField
<1> HIDE DEF h
<1>6. CASE f.counting BY <1>1, <1>3, <1>5, <1>6, Fields DEF Same
<1>7. CASE ~f.counting BY <1>1, <1>3, <1>7, Fields DEF Same
<1> QED BY <1>6, <1>7

\* consumed() takes a fragment off the queue: one that predates the peer's start
\* only uncounts it, any other is owed, and repaid once a step is owed.
LEMMA ConsumedFacts ==
  ASSUME NEW f \in FlowType, NEW cost \in Nat
  PROVE  LET g == consumed(f, cost)
             due == CreditDue(f, cost)
         IN  /\ Same(f, g, {"queued", "uncounted", "unacked", "owed"})
             /\ g.queued = f.queued - 1
             /\ g.uncounted = IF f.uncounted > 0 THEN f.uncounted - 1 ELSE f.uncounted
             /\ due \in Nat
             /\ ~Counted(f) => due = 0 /\ g.owed = f.owed
             /\ Counted(f) => g.owed = f.owed + cost - due
             /\ f.owed >= 0 => g.owed >= 0 /\ due <= f.owed + cost
             /\ g.unacked = f.unacked - due
<1> DEFINE due == CreditDue(f, cost)
           r == [f EXCEPT !.queued = @ - 1]
           u == [r EXCEPT !.uncounted = @ - 1]
           p == [r EXCEPT !.unacked = @ - due]
           o == [p EXCEPT !.owed = 0]
           w == [r EXCEPT !.owed = @ + cost]
<1>1. consumed(f, cost) = IF f.uncounted > 0 THEN u
                          ELSE IF due > 0 THEN o ELSE IF Counted(f) THEN w ELSE r
  BY Zenon DEF consumed
<1>2. /\ due \in Nat
      /\ f.owed >= 0 => due <= f.owed + cost
      /\ ~Counted(f) => due = 0
      /\ due > 0 => due = f.owed + cost /\ Counted(f)
      /\ f.uncounted > 0 => ~Counted(f)
  BY Fields, FlowAssumption DEF CreditDue, Counted
<1> HIDE DEF due
<1>3. f.queued - 1 \in Int BY Fields
<1>4. Same(f, r, {"queued"}) /\ r.queued = f.queued - 1 BY <1>3, SetField
<1> HIDE DEF r
<1>5. /\ r \in FlowType /\ r.uncounted - 1 \in Int /\ r.unacked - due \in Int
      /\ r.owed + cost \in Int
  BY <1>2, <1>4, Fields DEF Same
<1>6. Same(r, u, {"uncounted"}) /\ u.uncounted = r.uncounted - 1 BY <1>5, SetField
<1>7. Same(r, p, {"unacked"}) /\ p.unacked = r.unacked - due BY <1>5, SetField
<1>8. Same(r, w, {"owed"}) /\ w.owed = r.owed + cost BY <1>5, SetField
<1> HIDE DEF u, p, w
<1>9. p \in FlowType /\ 0 \in Int BY <1>7 DEF Same
<1>10. Same(p, o, {"owed"}) /\ o.owed = 0 BY <1>9, SetField
<1> HIDE DEF o
<1>11. CASE f.uncounted > 0
  <2>1. consumed(f, cost) = u BY <1>1, <1>11
  <2> QED BY <2>1, <1>2, <1>4, <1>6, <1>11, Fields DEF Same, due
<1>12. CASE ~(f.uncounted > 0) /\ due > 0
  <2>1. consumed(f, cost) = o BY <1>1, <1>12
  <2> QED BY <2>1, <1>2, <1>4, <1>7, <1>10, <1>12, Fields DEF Same, due
<1>13. CASE ~(f.uncounted > 0) /\ ~(due > 0) /\ Counted(f)
  <2>1. consumed(f, cost) = w BY <1>1, <1>13
  <2> QED BY <2>1, <1>2, <1>4, <1>8, <1>13, Fields DEF Same, due
<1>14. CASE ~(f.uncounted > 0) /\ ~(due > 0) /\ ~Counted(f)
  <2>1. consumed(f, cost) = r BY <1>1, <1>14
  <2> QED BY <2>1, <1>2, <1>4, <1>14, Fields DEF Same, due
<1> QED BY <1>11, <1>12, <1>13, <1>14
=============================================================================
