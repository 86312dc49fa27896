--------------------------- MODULE OutboxBoxProofs ---------------------------
(***************************************************************************)
(* What the methods of Intents do to the outbox in memory: each keeps      *)
(* BoxInv, and #pump sends the oldest commands that are ready, in order.   *)
(***************************************************************************)
EXTENDS Outbox, FiniteSetTheorems, SequenceTheorems, TLAPS

-----------------------------------------------------------------------------
(* Sets of numbers as sequences. *)

\* How many numbers of S are smaller than n.
Rank(S, n) == Cardinality({m \in S : m < n})

\* A rank is smaller than the size of the set, and grows with the number.
LEMMA RankFacts ==
  ASSUME NEW S, S \subseteq Nat, IsFiniteSet(S)
  PROVE  /\ Cardinality(S) \in Nat
         /\ \A n \in S : Rank(S, n) \in 0..(Cardinality(S) - 1)
         /\ \A n, k \in S : n < k => Rank(S, n) < Rank(S, k)
         /\ \A n, k \in S : Rank(S, n) = Rank(S, k) => n = k
<1>1. Cardinality(S) \in Nat BY FS_CardinalityType
<1>2. ASSUME NEW n \in S
      PROVE  IsFiniteSet({m \in S : m < n}) /\ Rank(S, n) \in Nat /\ Rank(S, n) < Cardinality(S)
  <2>1. {m \in S : m < n} \in SUBSET S OBVIOUS
  <2>2. n \notin {m \in S : m < n} OBVIOUS
  <2>3. {m \in S : m < n} # S BY <2>2
  <2>4. /\ IsFiniteSet({m \in S : m < n}) /\ Cardinality({m \in S : m < n}) <= Cardinality(S)
        /\ Cardinality({m \in S : m < n}) # Cardinality(S)
    BY <2>1, <2>3, FS_Subset
  <2>5. Cardinality({m \in S : m < n}) \in Nat BY <2>4, FS_CardinalityType
  <2> QED BY <1>1, <2>4, <2>5 DEF Rank
<1>3. ASSUME NEW n \in S, NEW k \in S, n < k PROVE Rank(S, n) < Rank(S, k)
  <2> DEFINE below(x) == {m \in S : m < x}
  <2>1. IsFiniteSet(below(n)) /\ IsFiniteSet(below(k)) BY <1>2
  <2>2. n \notin below(n) /\ below(n) \cup {n} \in SUBSET below(k)
    <3>1. n \in Nat /\ k \in Nat OBVIOUS
    <3>2. \A m \in S : m \in Nat /\ (m < n => m < k) BY <1>3, <3>1
    <3>3. n \notin below(n) BY <3>1
    <3>4. ASSUME NEW m \in below(n) \cup {n} PROVE m \in below(k) BY <1>3, <3>2
    <3> QED BY <3>3, <3>4
  <2>3. Cardinality(below(n) \cup {n}) = Cardinality(below(n)) + 1 BY <2>1, <2>2, FS_AddElement
  <2>4. Cardinality(below(n) \cup {n}) <= Cardinality(below(k)) BY <2>1, <2>2, FS_Subset
  <2>5. Cardinality(below(n)) \in Nat /\ Cardinality(below(k)) \in Nat
    BY <2>1, FS_CardinalityType
  <2> HIDE DEF below
  <2>6. Cardinality(below(n)) < Cardinality(below(k)) BY <2>3, <2>4, <2>5
  <2> QED BY <2>6 DEF Rank, below
<1>4. ASSUME NEW n \in S, NEW k \in S, Rank(S, n) = Rank(S, k) PROVE n = k
  <2>1. n \in Nat /\ k \in Nat /\ Rank(S, n) \in Nat BY <1>2
  <2>2. ~(n < k) /\ ~(k < n) BY <1>3, <1>4, <2>1
  <2> QED BY <2>1, <2>2
<1>5. ASSUME NEW n \in S PROVE Rank(S, n) \in 0..(Cardinality(S) - 1)
  <2>1. Rank(S, n) \in Nat /\ Rank(S, n) < Cardinality(S) BY <1>2
  <2> QED BY <1>1, <2>1
<1> QED BY <1>1, <1>3, <1>4, <1>5

\* Every rank is taken.
LEMMA RankTaken ==
  ASSUME NEW S, S \subseteq Nat, IsFiniteSet(S), NEW i \in 1..Cardinality(S)
  PROVE  \E n \in S : Rank(S, n) = i - 1
<1>1. PICK N \in Nat : N = Cardinality(S) BY FS_CardinalityType
<1> DEFINE T == 0..(N - 1)
           f == [n \in S |-> Rank(S, n)]
<1>2. f \in [S -> T] BY <1>1, RankFacts
<1>3. \A n, k \in S : f[n] = f[k] => n = k BY RankFacts
<1>4. f \in Injection(S, T) BY <1>2, <1>3 DEF Injection, IsInjective
<1>5. IsFiniteSet(T) /\ Cardinality(T) = N
  <2>1. IsFiniteSet(0..(N - 1)) /\ Cardinality(0..(N - 1)) = IF 0 > N - 1 THEN 0 ELSE N - 1 - 0 + 1
    BY FS_Interval
  <2> QED BY <2>1
<1> HIDE DEF T, f
<1>6. f \in Surjection(S, T) BY <1>1, <1>4, <1>5, FS_Injection
<1>7. i - 1 \in T BY <1>1 DEF T
<1>8. \E n \in S : f[n] = i - 1 BY <1>6, <1>7 DEF Surjection
<1> QED BY <1>8 DEF f

\* A set of numbers in order.
LEMMA SortedFacts ==
  ASSUME NEW S, S \subseteq Nat, IsFiniteSet(S)
  PROVE  /\ Sorted(S) \in Seq(S) /\ Range(Sorted(S)) = S
         /\ \A i, j \in DOMAIN Sorted(S) : i < j <=> Sorted(S)[i] < Sorted(S)[j]
<1>1. PICK N \in Nat : N = Cardinality(S) BY FS_CardinalityType
<1> DEFINE s == Sorted(S)
<1>2. s = [i \in 1..N |-> CHOOSE n \in S : Rank(S, n) = i - 1] BY <1>1 DEF Sorted, Rank
<1>3. ASSUME NEW i \in 1..N PROVE s[i] \in S /\ Rank(S, s[i]) = i - 1
  BY <1>1, <1>2, RankTaken
<1>4. DOMAIN s = 1..N BY <1>2
<1> HIDE DEF s
<1>5. s \in [1..N -> S] BY <1>2, <1>3
<1>6. s \in Seq(S) BY <1>5, SeqDef
<1>7. ASSUME NEW n \in S PROVE \E i \in 1..N : s[i] = n
  <2>1. Rank(S, n) \in 0..(N - 1) BY <1>1, RankFacts
  <2>2. PICK i \in 1..N : i - 1 = Rank(S, n) BY <2>1
  <2>3. Rank(S, s[i]) = Rank(S, n) /\ s[i] \in S BY <1>3, <2>2
  <2> QED BY <2>3, RankFacts
<1>8. Range(s) = S BY <1>3, <1>4, <1>7 DEF Range
<1>9. ASSUME NEW i \in 1..N, NEW j \in 1..N PROVE i < j <=> s[i] < s[j]
  <2>1. s[i] \in S /\ s[j] \in S /\ Rank(S, s[i]) = i - 1 /\ Rank(S, s[j]) = j - 1 BY <1>3
  <2>0. \A n, k \in S : n < k => Rank(S, n) < Rank(S, k) BY RankFacts
  <2>2. s[i] < s[j] => i - 1 < j - 1
    <3>1. s[i] < s[j] => Rank(S, s[i]) < Rank(S, s[j]) BY <2>0, <2>1
    <3> QED BY <2>1, <3>1
  <2>3. s[j] < s[i] => j - 1 < i - 1
    <3>1. s[j] < s[i] => Rank(S, s[j]) < Rank(S, s[i]) BY <2>0, <2>1
    <3> QED BY <2>1, <3>1
  <2>4. s[i] = s[j] => i - 1 = j - 1 BY <2>1
  <2>5. s[i] \in Nat /\ s[j] \in Nat BY <2>1
  <2> QED BY <2>2, <2>3, <2>4, <2>5
<1> QED BY <1>4, <1>6, <1>8, <1>9 DEF s

\* The entries of a sequence that are in a set, in their order.
LEMMA OnlyFacts ==
  ASSUME NEW seq \in Seq(Commands), NEW S
  PROVE  /\ Only(seq, S) \in Seq(Commands)
         /\ Range(Only(seq, S)) = Range(seq) \cap S
         /\ \A j \in DOMAIN Only(seq, S) : \E a \in DOMAIN seq :
              /\ Only(seq, S)[j] = seq[a]
              /\ \A i \in DOMAIN seq : i < a /\ seq[i] \in S =>
                   \E k \in DOMAIN Only(seq, S) : k < j /\ Only(seq, S)[k] = seq[i]
         /\ IsInjective(seq) => IsInjective(Only(seq, S))
<1>1. PICK n \in Nat : n = Len(seq) /\ DOMAIN seq = 1..n OBVIOUS
<1> DEFINE I == {i \in DOMAIN seq : seq[i] \in S}
           at == Sorted(I)
           o == Only(seq, S)
<1>2. I \subseteq Nat /\ IsFiniteSet(I)
  <2>1. IsFiniteSet(1..n) BY FS_Interval
  <2>2. I \in SUBSET (1..n) BY <1>1
  <2> QED BY <1>1, <2>1, <2>2, FS_Subset
<1>3. /\ at \in Seq(I) /\ Range(at) = I
      /\ \A i, j \in DOMAIN at : i < j <=> at[i] < at[j]
  BY <1>2, SortedFacts
<1>4. o = [k \in DOMAIN at |-> seq[at[k]]] BY DEF Only
<1>5. \A i \in I : i \in DOMAIN seq /\ seq[i] \in S OBVIOUS
<1>6. \A i \in DOMAIN seq : seq[i] \in S => i \in I OBVIOUS
<1> HIDE DEF I, at, o
<1>7. PICK m \in Nat : DOMAIN at = 1..m BY <1>3
<1>8. \A k \in 1..m : at[k] \in I BY <1>3, <1>7
<1>9. DOMAIN o = 1..m /\ \A k \in 1..m : o[k] = seq[at[k]] BY <1>4, <1>7
<1>10. o \in Seq(Commands)
  <2>1. \A k \in 1..m : o[k] \in Commands BY <1>5, <1>8, <1>9
  <2>2. o \in [1..m -> Commands] BY <1>4, <1>7, <1>9, <2>1
  <2> QED BY <2>2, SeqDef
<1>11. \A i \in I : \E k \in 1..m : at[k] = i BY <1>3, <1>7 DEF Range
<1>12. Range(o) = Range(seq) \cap S
  <2>1. ASSUME NEW x \in Range(o) PROVE x \in Range(seq) /\ x \in S
    <3>1. PICK k \in 1..m : x = seq[at[k]] BY <1>9, <2>1 DEF Range
    <3> QED BY <1>5, <1>8, <3>1 DEF Range
  <2>2. ASSUME NEW x \in Range(seq), x \in S PROVE x \in Range(o)
    <3>1. PICK i \in DOMAIN seq : seq[i] = x BY <2>2 DEF Range
    <3>2. PICK k \in 1..m : at[k] = i BY <1>6, <1>11, <2>2, <3>1
    <3> QED BY <1>9, <3>1, <3>2 DEF Range
  <2> QED BY <2>1, <2>2
<1>13. ASSUME NEW j \in DOMAIN o
       PROVE  \E a \in DOMAIN seq :
                /\ o[j] = seq[a]
                /\ \A i \in DOMAIN seq : i < a /\ seq[i] \in S =>
                     \E k \in DOMAIN o : k < j /\ o[k] = seq[i]
  <2>1. at[j] \in DOMAIN seq /\ o[j] = seq[at[j]] BY <1>5, <1>8, <1>9
  <2>2. ASSUME NEW i \in DOMAIN seq, i < at[j], seq[i] \in S
        PROVE  \E k \in DOMAIN o : k < j /\ o[k] = seq[i]
    <3>1. PICK k \in 1..m : at[k] = i BY <1>6, <1>11, <2>2
    <3>2. k < j BY <1>3, <1>7, <1>9, <2>2, <3>1
    <3> QED BY <1>9, <3>1, <3>2
  <2> QED BY <2>1, <2>2
<1>14. ASSUME IsInjective(seq) PROVE IsInjective(o)
  <2>1. ASSUME NEW k \in 1..m, NEW l \in 1..m, o[k] = o[l] PROVE k = l
    <3>1. at[k] \in DOMAIN seq /\ at[l] \in DOMAIN seq BY <1>5, <1>8
    <3>2. seq[at[k]] = seq[at[l]] BY <1>9, <2>1
    <3>3. at[k] = at[l] BY <1>14, <3>1, <3>2 DEF IsInjective
    <3>4. at[k] \in Nat BY <1>2, <1>8
    <3>5. ~(k < l) /\ ~(l < k) BY <1>3, <1>7, <3>3, <3>4
    <3> QED BY <3>5
  <2> QED BY <1>9, <2>1 DEF IsInjective
<1> QED BY <1>10, <1>12, <1>13, <1>14 DEF o

-----------------------------------------------------------------------------
(* The outbox as a record. *)

\* The fields of an outbox.
LEMMA BoxFields ==
  ASSUME NEW b \in Boxes
  PROVE  /\ b.rec \in [Commands -> States] /\ b.inFlight \in Seq(Commands)
         /\ b.fenced \in SUBSET Commands /\ b.acking \in SUBSET Commands
         /\ b.timer \in SUBSET Commands /\ b.attempts \in [Commands -> 0..MaxRetries]
         /\ b.armed \in SUBSET Commands /\ b.chain \in Seq(Operations)
BY DEF Boxes

\* A box is known by its fields.
LEMMA BoxEqual ==
  ASSUME NEW b \in Boxes, NEW e \in Boxes,
         b.rec = e.rec, b.inFlight = e.inFlight, b.fenced = e.fenced, b.acking = e.acking,
         b.timer = e.timer, b.attempts = e.attempts, b.armed = e.armed, b.chain = e.chain
  PROVE  b = e
<1>1. \A x \in Boxes : x = [rec |-> x.rec, inFlight |-> x.inFlight, fenced |-> x.fenced,
        acking |-> x.acking, timer |-> x.timer, attempts |-> x.attempts, armed |-> x.armed,
        chain |-> x.chain]
  BY DEF Boxes
<1> QED BY <1>1

\* What #pump sends: ready commands in order, and nothing ready that is older is passed over.
LEMMA ToSendFacts ==
  ASSUME NEW b \in Boxes
  PROVE  /\ ToSend(b) \in Seq(Commands) /\ Range(ToSend(b)) \subseteq Ready(b)
         /\ \A i, j \in DOMAIN ToSend(b) : i < j <=> ToSend(b)[i] < ToSend(b)[j]
         /\ \A j \in DOMAIN ToSend(b) : \A c \in Ready(b) : c < ToSend(b)[j] =>
              \E i \in DOMAIN ToSend(b) : i < j /\ ToSend(b)[i] = c
         /\ ToSend(b) # <<>> => \A c \in b.fenced : ~awaitingReceipt(b, c)
<1> DEFINE R == Ready(b)
           S == {c \in R : Rank(R, c) < Window - Len(b.inFlight)}
           s == Sorted(S)
<1>1. MaxCommands \in Nat /\ Window \in Nat BY BoundsAssumption
<1>2. R \subseteq Commands /\ Commands \subseteq Nat /\ IsFiniteSet(Commands)
  BY <1>1, FS_Interval DEF Ready, Commands
<1>3. IsFiniteSet(R) /\ IsFiniteSet(S) BY <1>2, FS_Subset
<1>4. /\ s \in Seq(S) /\ Range(s) = S
      /\ \A i, j \in DOMAIN s : i < j <=> s[i] < s[j]
  <2>1. S \subseteq Nat BY <1>2
  <2> HIDE DEF S
  <2> QED BY <1>3, <2>1, SortedFacts
<1>5. CASE \E c \in b.fenced : awaitingReceipt(b, c)
  <2>1. ToSend(b) = <<>> BY <1>5 DEF ToSend
  <2> QED BY <2>1 DEF Range
<1>6. CASE ~\E c \in b.fenced : awaitingReceipt(b, c)
  <2>1. ToSend(b) = s BY <1>6 DEF ToSend, Rank
  <2>2. S \subseteq R OBVIOUS
  <2>3. ASSUME NEW j \in DOMAIN s, NEW c \in R, c < s[j]
        PROVE  \E i \in DOMAIN s : i < j /\ s[i] = c
    <3>0. s[j] \in S
      <4> HIDE DEF S, s
      <4> QED BY <1>4, <2>3
    <3>1. s[j] \in R /\ Rank(R, s[j]) < Window - Len(b.inFlight) BY <3>0
    <3>2. Rank(R, c) < Rank(R, s[j])
      <4> HIDE DEF S, s, R
      <4>1. R \subseteq Nat BY <1>2
      <4> QED BY <1>3, <2>3, <3>1, <4>1, RankFacts
    <3>3. Rank(R, c) \in Int /\ Rank(R, s[j]) \in Int
      <4> HIDE DEF S, s, R
      <4>1. R \subseteq Nat BY <1>2
      <4>2. \A n \in R : Rank(R, n) \in 0..(Cardinality(R) - 1) BY <1>3, <4>1, RankFacts
      <4> QED BY <2>3, <3>1, <4>2
    <3>4. Len(b.inFlight) \in Nat BY BoxFields
    <3>5. Rank(R, c) < Window - Len(b.inFlight) BY <1>1, <3>1, <3>2, <3>3, <3>4
    <3>6. c \in S BY <3>5
    <3>7. PICK i \in DOMAIN s : s[i] = c BY <1>4, <3>6 DEF Range
    <3> QED BY <1>4, <2>3, <3>7
  <2>4. s \in Seq(Commands) BY <1>2, <1>4, <2>2
  <2> HIDE DEF S, s
  <2> QED BY <1>4, <1>6, <2>1, <2>2, <2>3, <2>4
<1> QED BY <1>5, <1>6

\* What the outbox is read against: the records on disk d and the daemon's receipts.
Context(d) ==
  /\ d \in Disks /\ receipts \in [Commands -> Results \cup {"none"}]
  /\ refused \in SUBSET Commands /\ issued \in 0..MaxCommands
  /\ \A c \in Commands : receipts[c] # "none" => Known(c, d) /\ c <= issued

\* Commands are numbered, so that the order they were issued in is <.
LEMMA CommandsAreNumbers == Commands \subseteq Nat /\ MaxCommands \in Nat
BY BoundsAssumption DEF Commands

\* A command in flight whose receipt is no longer awaited was answered by the daemon.
LEMMA NotAwaited ==
  ASSUME NEW b \in Boxes, NEW d, Context(d), BoxCore(b, d), app # "down",
         NEW c \in Range(b.inFlight), ~awaitingReceipt(b, c)
  PROVE  Reported(c)
<1>1. c \in Commands /\ Known(c, d) /\ RecordInv(c, b.rec[c], d)
  BY BoxFields DEF BoxCore, Range
<1>2. CASE c \in b.acking BY <1>2 DEF BoxCore
<1>3. CASE c \in b.timer BY <1>3 DEF BoxCore, Reported
<1>4. CASE b.rec[c] # "pending"
  <2>1. b.rec[c] \in States BY <1>1, BoxFields
  <2> QED BY <1>1, <1>4, <2>1 DEF States, Results, RecordInv, Known, Reported, GivenUp
<1> QED BY <1>2, <1>3, <1>4 DEF awaitingReceipt

\* An older command than one that is ready is ready too, in flight, or over.
LEMMA OlderThanReady ==
  ASSUME NEW b \in Boxes, NEW d, Context(d), BoxCore(b, d), app # "down",
         NEW x \in Ready(b), NEW c \in Commands, c < x
  PROVE  c \in Ready(b) \/ c \in Range(b.inFlight) \/ Over(c, b, d)
<1>1. x \in Commands /\ Pending(b, x) BY DEF Ready
<1>2. RecordInv(c, b.rec[c], d) /\ RecordInv(x, b.rec[x], d) BY <1>1 DEF BoxCore
<1>3. d[x] # "none" BY <1>1, <1>2 DEF RecordInv, Pending
<1>4. c <= issued
  <2>1. ~(x > issued) BY <1>1, <1>3 DEF BoxCore
  <2> QED BY <1>1, <2>1, CommandsAreNumbers DEF Context
<1>5. b.rec[c] \in States BY BoxFields
<1>6. CASE Pending(b, c)
  <2>1. c \in b.acking \/ c \in b.timer => Reported(c) BY DEF BoxCore, Reported
  <2> QED BY <1>6, <2>1 DEF Ready, Over
<1>7. CASE b.rec[c] = "saving"
  <2>1. d[x] = "none" BY <1>1, <1>7 DEF BoxCore, SavesInv
  <2> QED BY <1>3, <2>1
<1>8. CASE b.rec[c] \in {"none", "failed", "acked"}
  <2>1. receipts[c] # "none" \/ d[c] = "none" \/ GivenUp(c) BY <1>2, <1>8 DEF RecordInv
  <2>2. b.rec[c] = "acked" => Reported(c) BY <1>2 DEF RecordInv, Reported
  <2>3. GivenUp(c) => Reported(c) BY DEF GivenUp, Reported
  <2> QED BY <1>4, <1>8, <2>1, <2>2, <2>3 DEF Over, Lost, Reported
<1> QED BY <1>5, <1>6, <1>7, <1>8 DEF States, Results, Pending

-----------------------------------------------------------------------------
(* Sending in turn. *)

\* Where the entries of a concatenation are.
LEMMA ConcatFacts ==
  ASSUME NEW S, NEW s \in Seq(S), NEW t \in Seq(S)
  PROVE  /\ s \o t \in Seq(S) /\ Range(s \o t) = Range(s) \cup Range(t)
         /\ DOMAIN (s \o t) = 1..(Len(s) + Len(t)) /\ Len(s \o t) = Len(s) + Len(t)
         /\ DOMAIN s = 1..Len(s) /\ DOMAIN t = 1..Len(t) /\ Len(s) \in Nat /\ Len(t) \in Nat
         /\ \A i \in DOMAIN s : (s \o t)[i] = s[i]
         /\ \A i \in DOMAIN t : (s \o t)[Len(s) + i] = t[i]
         /\ \A j \in DOMAIN (s \o t) : j \in DOMAIN s \/ \E i \in DOMAIN t : j = Len(s) + i
<1>1. PICK n \in Nat, m \in Nat : n = Len(s) /\ m = Len(t) /\ DOMAIN s = 1..n /\ DOMAIN t = 1..m
  OBVIOUS
<1> DEFINE st == s \o t
<1>2. st \in Seq(S) /\ DOMAIN st = 1..(n + m) /\ Len(st) = n + m BY <1>1
<1>3. \A i \in 1..n : st[i] = s[i] BY <1>1
<1>4. \A i \in 1..m : st[n + i] = t[i]
  <2>1. ASSUME NEW i \in 1..m PROVE st[n + i] = t[i] BY <1>1
  <2> QED BY <2>1
<1> HIDE DEF st
<1>5. ASSUME NEW j \in 1..(n + m) PROVE j \in 1..n \/ \E i \in 1..m : j = n + i
  <2>1. CASE j <= n BY <2>1
  <2>2. CASE j > n
    <3>1. j - n \in 1..m /\ j = n + (j - n) BY <2>2
    <3> QED BY <3>1
  <2> QED BY <2>1, <2>2
<1>6. Range(st) = Range(s) \cup Range(t)
  <2>1. ASSUME NEW x \in Range(st) PROVE x \in Range(s) \cup Range(t)
    <3>1. PICK j \in 1..(n + m) : st[j] = x BY <1>2, <2>1 DEF Range
    <3>2. CASE j \in 1..n BY <1>1, <1>3, <3>1, <3>2 DEF Range
    <3>3. ASSUME NEW i \in 1..m, j = n + i PROVE x \in Range(t)
      <4>1. x = t[i] BY <1>4, <3>1, <3>3
      <4> QED BY <1>1, <4>1 DEF Range
    <3> QED BY <1>5, <3>2, <3>3
  <2>2. ASSUME NEW i \in 1..n PROVE s[i] \in Range(st)
    <3>1. i \in 1..(n + m) OBVIOUS
    <3> QED BY <1>2, <1>3, <3>1 DEF Range
  <2>3. ASSUME NEW i \in 1..m PROVE t[i] \in Range(st)
    <3>1. n + i \in 1..(n + m) OBVIOUS
    <3> QED BY <1>2, <1>4, <3>1 DEF Range
  <2> QED BY <1>1, <2>1, <2>2, <2>3 DEF Range
<1> QED BY <1>1, <1>2, <1>3, <1>4, <1>5, <1>6, ZenonT(60) DEF st

\* The messages s on a path once commands ids were sent on it after messages to.
After(s, to, ids, l, m) ==
  /\ s \in Seq(Asks) /\ l = Len(to) /\ m = Len(ids) /\ Len(s) = l + m
  /\ DOMAIN s = 1..(l + m) /\ DOMAIN to = 1..l /\ DOMAIN ids = 1..m
  /\ \A i \in 1..l : s[i] = to[i]
  /\ \A i \in 1..m : s[l + i] = Command(ids[i])
  /\ \A j \in 1..(l + m) : j \in 1..l \/ \E i \in 1..m : j = l + i

\* What a path carries after commands are sent on it: the old messages, then one per command.
LEMMA SentFacts ==
  ASSUME NEW to \in Seq(Asks), NEW ids \in Seq(Commands)
  PROVE  \E l, m \in Nat : After(Sent(to, ids), to, ids, l, m)
<1> DEFINE t == [i \in DOMAIN ids |-> Command(ids[i])]
<1>1. DOMAIN ids = 1..Len(ids) /\ Len(ids) \in Nat OBVIOUS
<1>2. ASSUME NEW i \in 1..Len(ids) PROVE Command(ids[i]) \in Asks BY DEF Command, Asks
<1>3. t \in [1..Len(ids) -> Asks] BY <1>1, <1>2
<1>4. t \in Seq(Asks) BY <1>1, <1>3, SeqDef
<1>5. DOMAIN t = 1..Len(ids) /\ Len(t) = Len(ids) BY <1>1, <1>4
<1>6. \A i \in DOMAIN ids : t[i] = Command(ids[i]) OBVIOUS
<1>7. Sent(to, ids) = to \o t BY DEF Sent
<1> HIDE DEF t
<1> DEFINE s == to \o t
<1>8. /\ s \in Seq(Asks)
      /\ DOMAIN s = 1..(Len(to) + Len(t)) /\ Len(s) = Len(to) + Len(t)
      /\ DOMAIN to = 1..Len(to) /\ Len(to) \in Nat
      /\ \A i \in DOMAIN to : s[i] = to[i]
      /\ \A i \in DOMAIN t : s[Len(to) + i] = t[i]
      /\ \A j \in DOMAIN s : j \in DOMAIN to \/ \E i \in DOMAIN t : j = Len(to) + i
  BY <1>4, ConcatFacts
<1> HIDE DEF s
<1>9. PICK l \in Nat, m \in Nat : l = Len(to) /\ m = Len(ids) BY <1>1, <1>8
<1>10. /\ DOMAIN s = 1..(l + m) /\ Len(s) = l + m /\ DOMAIN to = 1..l /\ DOMAIN ids = 1..m
       /\ DOMAIN t = 1..m
  BY <1>1, <1>5, <1>8, <1>9
<1>11. \A i \in 1..m : s[l + i] = Command(ids[i]) BY <1>6, <1>8, <1>9, <1>10
<1>12. After(s, to, ids, l, m) BY <1>8, <1>9, <1>10, <1>11 DEF After
<1> QED BY <1>7, <1>12 DEF s

\* Commands that are sent in their turn, to a path whose messages are, keep them in turn.
SendInTurn(to, ids, b, d) ==
  \A i \in DOMAIN ids :
    /\ Known(ids[i], d)
    /\ \A e \in Commands : e < ids[i] =>
         \/ Over(e, b, d) \/ Reaches(e, to, Len(to))
         \/ \E k \in DOMAIN ids : k < i /\ ids[k] = e

\* A command that reaches the daemon before others are sent still does, and so do those.
LEMMA SendReaches ==
  ASSUME NEW to \in Seq(Asks), NEW ids \in Seq(Commands)
  PROVE  /\ \A c, n : Reaches(c, to, n) => Reaches(c, Sent(to, ids), n)
         /\ \A c : Reaches(c, to, Len(to)) => Reaches(c, Sent(to, ids), Len(Sent(to, ids)))
         /\ \A c \in Range(ids) : Reaches(c, Sent(to, ids), Len(Sent(to, ids)))
         /\ \A k \in DOMAIN ids : \A n \in Nat : k <= n => Reaches(ids[k], Sent(to, ids), Len(to) + n)
         /\ \A c : \A n \in Nat : Reaches(c, to, Len(to)) => Reaches(c, Sent(to, ids), Len(to) + n)
<1> DEFINE s == Sent(to, ids)
<1>1. PICK l \in Nat, m \in Nat : After(s, to, ids, l, m) BY SentFacts
<1> HIDE DEF s
<1>2. /\ DOMAIN s = 1..(l + m) /\ Len(s) = l + m /\ DOMAIN to = 1..l /\ DOMAIN ids = 1..m
      /\ \A i \in 1..l : s[i] = to[i]
      /\ \A i \in 1..m : s[l + i] = Command(ids[i])
      /\ l = Len(to) /\ m = Len(ids)
  BY <1>1 DEF After
<1>3. ASSUME NEW c, NEW n, Reaches(c, to, n) PROVE Reaches(c, s, n)
  <2>1. CASE c \in Laned BY <2>1 DEF Reaches
  <2>2. CASE \E i \in DOMAIN to : i <= n /\ to[i] = Command(c)
    <3>1. PICK i \in 1..l : i <= n /\ to[i] = Command(c) BY <1>2, <2>2
    <3>2. i \in DOMAIN s /\ s[i] = Command(c) BY <1>2, <3>1
    <3> QED BY <3>1, <3>2 DEF Reaches
  <2> QED BY <1>3, <2>1, <2>2 DEF Reaches
<1>4. ASSUME NEW c, NEW n \in Nat, Reaches(c, to, l) PROVE Reaches(c, s, l + n)
  <2>1. CASE c \in Laned BY <2>1 DEF Reaches
  <2>2. CASE \E i \in DOMAIN to : i <= l /\ to[i] = Command(c)
    <3>1. PICK i \in 1..l : to[i] = Command(c) BY <1>2, <2>2
    <3>2. i \in DOMAIN s /\ s[i] = Command(c) /\ i <= l + n BY <1>2, <3>1
    <3> QED BY <3>2 DEF Reaches
  <2> QED BY <1>4, <2>1, <2>2 DEF Reaches
<1>5. ASSUME NEW k \in 1..m, NEW n \in Nat, k <= n PROVE Reaches(ids[k], s, l + n)
  <2>1. l + k \in DOMAIN s /\ s[l + k] = Command(ids[k]) /\ l + k <= l + n BY <1>2, <1>5
  <2> QED BY <2>1 DEF Reaches
<1>6. ASSUME NEW c \in Range(ids) PROVE Reaches(c, s, l + m)
  <2>1. PICK k \in 1..m : ids[k] = c BY <1>2, <1>6 DEF Range
  <2>2. k <= m OBVIOUS
  <2>3. Reaches(ids[k], s, l + m) BY <1>5, <2>2
  <2> QED BY <2>1, <2>3
<1>7. \A c : Reaches(c, to, l) => Reaches(c, s, l + m) BY <1>4
<1>8. \A c, n : Reaches(c, to, n) => Reaches(c, s, n) BY <1>3
<1>9. \A c : \A n \in Nat : Reaches(c, to, l) => Reaches(c, s, l + n) BY <1>4
<1>10. \A k \in 1..m : \A n \in Nat : k <= n => Reaches(ids[k], s, l + n) BY <1>5
<1>11. \A c \in Range(ids) : Reaches(c, s, l + m) BY <1>6
<1>12. Len(s) = l + m /\ DOMAIN ids = 1..m /\ l = Len(to) BY <1>2
<1> QED BY <1>7, <1>8, <1>9, <1>10, <1>11, <1>12 DEF s

\* A path that carries its commands in order still does after commands are sent on it in turn.
LEMMA SendKeepsUp ==
  ASSUME NEW to \in Seq(Asks), NEW ids \in Seq(Commands), NEW b, NEW d,
         UpInv(to, b, d), SendInTurn(to, ids, b, d)
  PROVE  UpInv(Sent(to, ids), b, d)
<1> DEFINE s == Sent(to, ids)
<1>1. PICK l \in Nat, m \in Nat : After(s, to, ids, l, m) BY SentFacts
<1>2. /\ DOMAIN s = 1..(l + m) /\ DOMAIN to = 1..l /\ DOMAIN ids = 1..m
      /\ \A i \in 1..l : s[i] = to[i]
      /\ \A i \in 1..m : s[l + i] = Command(ids[i])
      /\ \A j \in DOMAIN s : j \in 1..l \/ \E i \in 1..m : j = l + i
      /\ l = Len(to) /\ m = Len(ids)
  <2> HIDE DEF s
  <2> QED BY <1>1 DEF After
<1>3. \A c, n : Reaches(c, to, n) => Reaches(c, s, n) BY SendReaches
<1>4. \A k \in 1..m : \A n \in Nat : k <= n => Reaches(ids[k], s, l + n) BY <1>2, SendReaches
<1>5. \A c : \A n \in Nat : Reaches(c, to, l) => Reaches(c, s, l + n) BY <1>2, SendReaches
<1> HIDE DEF s
<1>6. SUFFICES ASSUME NEW j \in DOMAIN s
      PROVE  IF s[j].kind = "status" THEN Reported(s[j].c) \/ Reaches(s[j].c, s, j - 1)
             ELSE /\ Known(s[j].c, d)
                  /\ \A e \in Commands : e < s[j].c => Over(e, b, d) \/ Reaches(e, s, j - 1)
  BY DEF UpInv, s
<1>7. CASE j \in 1..l
  <2>1. s[j] = to[j] /\ j \in DOMAIN to BY <1>2, <1>7
  <2>2. IF to[j].kind = "status" THEN Reported(to[j].c) \/ Reaches(to[j].c, to, j - 1)
        ELSE /\ Known(to[j].c, d)
             /\ \A e \in Commands : e < to[j].c => Over(e, b, d) \/ Reaches(e, to, j - 1)
    BY <2>1 DEF UpInv
  <2> QED BY <1>3, <2>1, <2>2
<1>8. ASSUME NEW i \in 1..m, j = l + i
      PROVE  /\ s[j].kind # "status" /\ Known(s[j].c, d)
             /\ \A e \in Commands : e < s[j].c => Over(e, b, d) \/ Reaches(e, s, j - 1)
  <2>0. s[j] = Command(ids[i]) BY <1>2, <1>8
  <2>1. s[j].kind = "command" /\ s[j].c = ids[i] BY <2>0 DEF Command
  <2>2. /\ Known(ids[i], d)
        /\ \A e \in Commands : e < ids[i] =>
             \/ Over(e, b, d) \/ Reaches(e, to, l)
             \/ \E k \in 1..m : k < i /\ ids[k] = e
    <3>1. i \in DOMAIN ids /\ DOMAIN ids = 1..m /\ l = Len(to) BY <1>2
    <3> HIDE DEF Known, Over, Reaches
    <3> QED BY <3>1 DEF SendInTurn
  <2>3. j - 1 = l + (i - 1) /\ i - 1 \in Nat BY <1>8
  <2>4. ASSUME NEW e \in Commands, e < ids[i] PROVE Over(e, b, d) \/ Reaches(e, s, j - 1)
    <3>1. CASE Reaches(e, to, l) BY <1>5, <2>3, <3>1
    <3>2. ASSUME NEW k \in 1..m, k < i, ids[k] = e PROVE Reaches(e, s, j - 1)
      <4>1. k <= i - 1 BY <3>2
      <4> QED BY <1>4, <2>3, <3>2, <4>1
    <3> QED BY <2>2, <2>4, <3>1, <3>2
  <2> QED BY <2>1, <2>2, <2>4
<1> QED BY <1>2, <1>7, <1>8

-----------------------------------------------------------------------------
(* What is kept when the outbox changes: its records stay and something else  *)
(* moves, or an operation of the chain changes a record.                      *)

\* What is over stays over when the outbox b on disk d becomes b2 on disk d2.
Stays(b, d, b2, d2) ==
  \A c \in Commands : (Over(c, b, d) => Over(c, b2, d2)) /\ (Known(c, d) => Known(c, d2))

\* A step that undoes no ending leaves sequences in turn.
LEMMA InTurnStays ==
  ASSUME NEW b, NEW d, NEW b2, NEW d2, Stays(b, d, b2, d2), NEW seq, InTurn(seq, b, d)
  PROVE  InTurn(seq, b2, d2)
BY DEF Stays, InTurn

\* A step that undoes no ending leaves a path in order.
LEMMA UpStays ==
  ASSUME NEW b, NEW d, NEW b2, NEW d2, Stays(b, d, b2, d2),
         NEW carried \in Seq(Asks), UpInv(carried, b, d)
  PROVE  UpInv(carried, b2, d2)
<1>1. SUFFICES ASSUME NEW j \in DOMAIN carried
      PROVE  IF carried[j].kind = "status"
             THEN Reported(carried[j].c) \/ Reaches(carried[j].c, carried, j - 1)
             ELSE /\ Known(carried[j].c, d2)
                  /\ \A e \in Commands :
                       e < carried[j].c => Over(e, b2, d2) \/ Reaches(e, carried, j - 1)
  BY DEF UpInv
<1>2. IF carried[j].kind = "status"
      THEN Reported(carried[j].c) \/ Reaches(carried[j].c, carried, j - 1)
      ELSE /\ Known(carried[j].c, d)
           /\ \A e \in Commands : e < carried[j].c => Over(e, b, d) \/ Reaches(e, carried, j - 1)
  BY DEF UpInv
<1>3. carried[j].c \in Commands
  <2>1. carried[j] \in Asks OBVIOUS
  <2> QED BY <2>1 DEF Asks
<1> QED BY <1>2, <1>3 DEF Stays

\* Leaving out commands that were answered keeps a sequence in turn.
LEMMA InTurnOnly ==
  ASSUME NEW b, NEW d, NEW seq \in Seq(Commands), InTurn(seq, b, d), NEW S,
         \A c \in Range(seq) : c \notin S => Reported(c)
  PROVE  InTurn(Only(seq, S), b, d)
<1> DEFINE o == Only(seq, S)
<1>1. \A j \in DOMAIN o : \E a \in DOMAIN seq :
        /\ o[j] = seq[a]
        /\ \A i \in DOMAIN seq : i < a /\ seq[i] \in S => \E k \in DOMAIN o : k < j /\ o[k] = seq[i]
  BY OnlyFacts
<1> HIDE DEF o
<1>2. SUFFICES ASSUME NEW j \in DOMAIN o, NEW c \in Commands, c < o[j]
      PROVE  Over(c, b, d) \/ \E i \in DOMAIN o : i < j /\ o[i] = c
  BY DEF InTurn, o
<1>3. PICK a \in DOMAIN seq :
        /\ o[j] = seq[a]
        /\ \A i \in DOMAIN seq : i < a /\ seq[i] \in S => \E k \in DOMAIN o : k < j /\ o[k] = seq[i]
  BY <1>1
<1>4. Over(c, b, d) \/ \E i \in DOMAIN seq : i < a /\ seq[i] = c BY <1>2, <1>3 DEF InTurn
<1>5. ASSUME NEW i \in DOMAIN seq, i < a, seq[i] = c
      PROVE  Over(c, b, d) \/ \E k \in DOMAIN o : k < j /\ o[k] = c
  <2>1. CASE c \in S BY <1>3, <1>5, <2>1
  <2>2. CASE c \notin S
    <3>1. c \in Range(seq) BY <1>5 DEF Range
    <3> QED BY <2>2, <3>1 DEF Over
  <2> QED BY <2>1, <2>2
<1> QED BY <1>4, <1>5

\* A method that leaves the records and the chain alone.
LEMMA SameRecords ==
  ASSUME NEW b \in Boxes, NEW b2 \in Boxes, NEW d, BoxCore(b, d),
         b2.rec = b.rec, b2.chain = b.chain,
         \A c \in b2.acking : Reported(c), b2.timer \subseteq refused,
         IsInjective(b2.inFlight), \A c \in Range(b2.inFlight) : Known(c, d)
  PROVE  /\ BoxCore(b2, d) /\ Stays(b, d, b2, d)
         /\ BoxInv(b, d) => BoxInv(b2, d)
<1>1. \A c \in Commands : Over(c, b, d) => Over(c, b2, d) BY DEF Over, Lost
<1>2. ASSUME NEW i \in DOMAIN b2.chain PROVE OperationInv(b2.chain[i], b2, d)
  <2>1. OperationInv(b.chain[i], b, d) BY DEF BoxCore
  <2> QED BY <2>1 DEF OperationInv
<1>3. SavesInv(b2, d) BY DEF BoxCore, SavesInv
<1>4. BoxCore(b2, d) BY <1>2, <1>3 DEF BoxCore
<1> QED BY <1>1, <1>4 DEF BoxInv, Stays

\* Commands may leave what is in flight once they were answered.
LEMMA FlightOnly ==
  ASSUME NEW b \in Boxes, NEW b2 \in Boxes, NEW d, NEW d2, NEW old, Stays(b, d, b2, d2),
         FlightInv(b, d, old), b2.fenced \subseteq b.fenced, old \in Seq(Commands),
         NEW S, b2.inFlight = Only(b.inFlight, S),
         \A c \in Range(b.inFlight) : c \notin S => Reported(c)
  PROVE  FlightInv(b2, d2, old)
<1>1. b.inFlight \in Seq(Commands) /\ Range(b2.inFlight) = Range(b.inFlight) \cap S
  BY BoxFields, OnlyFacts
<1>2. InTurn(b2.inFlight, b, d) BY <1>1, InTurnOnly DEF FlightInv
<1>3. InTurn(b2.inFlight, b2, d2) /\ InTurn(old, b2, d2) BY <1>2, InTurnStays DEF FlightInv
<1>4. ASSUME NEW c \in Range(old)
      PROVE  Known(c, d2) /\ (c \in Range(b2.inFlight) \/ Reported(c))
  <2>1. c \in Commands BY DEF Range
  <2> QED BY <1>1, <2>1 DEF Stays, FlightInv
<1> QED BY <1>3, <1>4 DEF FlightInv

\* A window that the step leaves alone stays in order.
LEMMA FlightSame ==
  ASSUME NEW b, NEW b2, NEW d, NEW d2, NEW old, Stays(b, d, b2, d2),
         FlightInv(b, d, old), b2.fenced \subseteq b.fenced, old \in Seq(Commands),
         b2.inFlight = b.inFlight
  PROVE  FlightInv(b2, d2, old)
<1>3. InTurn(b2.inFlight, b2, d2) /\ InTurn(old, b2, d2) BY InTurnStays DEF FlightInv
<1>4. ASSUME NEW c \in Range(old)
      PROVE  Known(c, d2) /\ (c \in Range(b2.inFlight) \/ Reported(c))
  <2>1. c \in Commands BY DEF Range
  <2> QED BY <2>1 DEF Stays, FlightInv
<1> QED BY <1>3, <1>4 DEF FlightInv

-----------------------------------------------------------------------------
(* #pump. *)

\* What #pump does to each field.
LEMMA PumpFields ==
  ASSUME NEW b \in Boxes
  PROVE  /\ Pumped(b) \in Boxes
         /\ Pumped(b).rec = b.rec /\ Pumped(b).chain = b.chain
         /\ Pumped(b).acking = b.acking /\ Pumped(b).timer = b.timer
         /\ Pumped(b).attempts = b.attempts
         /\ Pumped(b).inFlight = b.inFlight \o ToSend(b)
         /\ Pumped(b).fenced = {c \in b.fenced : awaitingReceipt(b, c)}
         /\ Pumped(b).armed = b.armed \cup Range(ToSend(b))
<1> DEFINE f == {c \in b.fenced : awaitingReceipt(b, c)}
           s == ToSend(b)
           p == [b EXCEPT !.fenced = f, !.inFlight = @ \o s, !.armed = @ \cup Range(s)]
<1>1. Pumped(b) = p BY DEF Pumped
<1>2. s \in Seq(Commands) BY ToSendFacts
<1>3. Range(s) \in SUBSET Commands BY <1>2 DEF Range
<1>4. f \in SUBSET Commands BY BoxFields
<1>5. b.inFlight \o s \in Seq(Commands) BY <1>2, BoxFields
<1> HIDE DEF f, s
<1>6. p \in Boxes BY <1>3, <1>4, <1>5, BoxFields DEF Boxes
<1>7. /\ p.rec = b.rec /\ p.chain = b.chain /\ p.acking = b.acking /\ p.timer = b.timer
      /\ p.attempts = b.attempts /\ p.inFlight = b.inFlight \o s /\ p.fenced = f
      /\ p.armed = b.armed \cup Range(s)
  BY DEF Boxes
<1> QED BY <1>1, <1>6, <1>7 DEF f, s

\* What is sent was saved, and is in flight once.
LEMMA PumpKeepsBox ==
  ASSUME NEW b \in Boxes, NEW d, BoxCore(b, d)
  PROVE  /\ BoxCore(Pumped(b), d) /\ Stays(b, d, Pumped(b), d)
         /\ BoxInv(b, d) => BoxInv(Pumped(b), d)
         /\ \A c \in Range(ToSend(b)) : c \in Commands /\ Known(c, d)
<1> DEFINE s == ToSend(b)
           p == Pumped(b)
           q == b.inFlight
<1>1. /\ s \in Seq(Commands) /\ Range(s) \subseteq Ready(b)
      /\ \A i, j \in DOMAIN s : i < j <=> s[i] < s[j]
  BY ToSendFacts
<1>2. /\ p \in Boxes /\ p.rec = b.rec /\ p.chain = b.chain /\ p.acking = b.acking
      /\ p.timer = b.timer /\ p.inFlight = q \o s
  BY PumpFields
<1>3. q \in Seq(Commands) BY BoxFields
<1> HIDE DEF s, p, q
<1>4. ASSUME NEW c \in Range(s) PROVE c \in Commands /\ Known(c, d) /\ c \notin Range(q)
  <2>1. c \in Ready(b) BY <1>1
  <2>2. c \in Commands /\ Pending(b, c) /\ c \notin Range(q) BY <2>1 DEF Ready, q
  <2>3. RecordInv(c, b.rec[c], d) BY <2>2 DEF BoxCore
  <2> QED BY <2>2, <2>3 DEF Pending, RecordInv, Known
<1>5. /\ Range(q \o s) = Range(q) \cup Range(s)
      /\ DOMAIN (q \o s) = 1..(Len(q) + Len(s))
      /\ DOMAIN q = 1..Len(q) /\ DOMAIN s = 1..Len(s) /\ Len(q) \in Nat /\ Len(s) \in Nat
      /\ \A i \in DOMAIN q : (q \o s)[i] = q[i]
      /\ \A i \in DOMAIN s : (q \o s)[Len(q) + i] = s[i]
      /\ \A j \in DOMAIN (q \o s) : j \in DOMAIN q \/ \E i \in DOMAIN s : j = Len(q) + i
  BY <1>1, <1>3, ConcatFacts
<1>6. IsInjective(q \o s)
  <2> DEFINE t == q \o s
  <2>1. IsInjective(q) BY DEF BoxCore, q
  <2>2. PICK n \in Nat, m \in Nat :
          /\ DOMAIN t = 1..(n + m) /\ DOMAIN q = 1..n /\ DOMAIN s = 1..m
          /\ \A i \in 1..n : t[i] = q[i]
          /\ \A i \in 1..m : t[n + i] = s[i]
          /\ \A j \in DOMAIN t : j \in 1..n \/ \E i \in 1..m : j = n + i
    BY <1>5, ZenonT(60)
  <2> HIDE DEF t
  <2>3. ASSUME NEW i \in 1..m, NEW j \in 1..m, s[i] = s[j] PROVE i = j
    <3>1. i \in DOMAIN s /\ j \in DOMAIN s BY <2>2
    <3>2. s[i] \in Commands BY <1>1, <3>1
    <3>3. (i < j <=> s[i] < s[j]) /\ (j < i <=> s[j] < s[i]) BY <1>1, <3>1
    <3>4. s[i] \in Nat BY <3>2, CommandsAreNumbers
    <3>5. ~(i < j) /\ ~(j < i) BY <2>3, <3>3, <3>4
    <3> QED BY <3>5
  <2>4. ASSUME NEW i \in 1..n, NEW j \in 1..m PROVE q[i] # s[j]
    <3>1. q[i] \in Range(q) /\ s[j] \in Range(s) BY <2>2 DEF Range
    <3> QED BY <1>4, <3>1
  <2>5. ASSUME NEW k \in DOMAIN t, NEW l \in DOMAIN t, t[k] = t[l] PROVE k = l
    <3>1. CASE k \in 1..n /\ l \in 1..n BY <2>1, <2>2, <2>5, <3>1 DEF IsInjective
    <3>2. ASSUME NEW i \in 1..m, k = n + i, l \in 1..n PROVE FALSE BY <2>2, <2>4, <2>5, <3>2
    <3>3. ASSUME NEW i \in 1..m, l = n + i, k \in 1..n PROVE FALSE BY <2>2, <2>4, <2>5, <3>3
    <3>4. ASSUME NEW i \in 1..m, NEW j \in 1..m, k = n + i, l = n + j PROVE k = l
      <4>1. s[i] = s[j] BY <2>2, <2>5, <3>4
      <4> QED BY <2>3, <3>4, <4>1
    <3> QED BY <2>2, <3>1, <3>2, <3>3, <3>4
  <2> QED BY <2>5 DEF IsInjective, t
<1>7. \A c \in Range(p.inFlight) : Known(c, d) BY <1>2, <1>4, <1>5 DEF BoxCore, q
<1>8. (\A c \in p.acking : Reported(c)) /\ p.timer \subseteq refused BY <1>2 DEF BoxCore
<1>9. IsInjective(p.inFlight) BY <1>2, <1>6
<1>10. BoxCore(p, d) /\ Stays(b, d, p, d) /\ (BoxInv(b, d) => BoxInv(p, d))
  BY <1>2, <1>7, <1>8, <1>9, SameRecords
<1> QED BY <1>4, <1>10 DEF p, s

\* #pump sends in turn, and only when everything fenced was answered.
LEMMA PumpKeepsTurn ==
  ASSUME NEW b \in Boxes, NEW d, Context(d), BoxCore(b, d), app # "down",
         NEW old \in Seq(Commands), FlightInv(b, d, old),
         NEW carried \in Seq(Asks), ReachInv(b, carried), UpInv(carried, b, d)
  PROVE  /\ FlightInv(Pumped(b), d, old)
         /\ Sent(carried, ToSend(b)) \in Seq(Asks)
         /\ ReachInv(Pumped(b), Sent(carried, ToSend(b)))
         /\ UpInv(Sent(carried, ToSend(b)), Pumped(b), d)
<1> DEFINE s == ToSend(b)
           p == Pumped(b)
           q == b.inFlight
           up2 == Sent(carried, s)
<1>1. /\ s \in Seq(Commands) /\ Range(s) \subseteq Ready(b)
      /\ \A j \in DOMAIN s : \A c \in Ready(b) : c < s[j] => \E i \in DOMAIN s : i < j /\ s[i] = c
      /\ s # <<>> => \A c \in b.fenced : ~awaitingReceipt(b, c)
  BY ToSendFacts
<1>2. /\ p \in Boxes /\ p.inFlight = q \o s /\ p.armed = b.armed \cup Range(s)
      /\ p.fenced = {c \in b.fenced : awaitingReceipt(b, c)}
  BY PumpFields
<1>3. q \in Seq(Commands) BY BoxFields
<1>4. BoxCore(p, d) /\ Stays(b, d, p, d) /\ \A c \in Range(s) : c \in Commands /\ Known(c, d)
  BY PumpKeepsBox
<1>5. up2 \in Seq(Asks)
  <2>1. PICK l \in Nat, m \in Nat : After(up2, carried, s, l, m) BY <1>1, SentFacts
  <2> QED BY <2>1 DEF After
<1>6. /\ \A c : Reaches(c, carried, Len(carried)) => Reaches(c, up2, Len(up2))
      /\ \A c \in Range(s) : Reaches(c, up2, Len(up2))
  BY <1>1, SendReaches
<1> HIDE DEF s, p, q, up2
<1>7. \A c \in Range(q) : ~awaitingReceipt(b, c) => Reported(c) BY NotAwaited DEF q
<1>8. ASSUME NEW j \in DOMAIN s, NEW c \in Commands, c < s[j]
      PROVE  Over(c, b, d) \/ c \in Range(q) \/ \E i \in DOMAIN s : i < j /\ s[i] = c
  <2>1. s[j] \in Ready(b) BY <1>1 DEF Range
  <2>2. c \in Ready(b) \/ c \in Range(q) \/ Over(c, b, d) BY <1>8, <2>1, OlderThanReady DEF q
  <2> QED BY <1>1, <1>8, <2>2
<1>9. InTurn(q \o s, b, d)
  <2> DEFINE t == q \o s
  <2>1. /\ DOMAIN t = 1..(Len(q) + Len(s))
        /\ DOMAIN q = 1..Len(q) /\ DOMAIN s = 1..Len(s) /\ Len(q) \in Nat /\ Len(s) \in Nat
        /\ \A i \in DOMAIN q : t[i] = q[i]
        /\ \A i \in DOMAIN s : t[Len(q) + i] = s[i]
        /\ \A j \in DOMAIN t : j \in DOMAIN q \/ \E i \in DOMAIN s : j = Len(q) + i
    BY <1>1, <1>3, ConcatFacts
  <2>2. PICK n \in Nat, m \in Nat :
          /\ DOMAIN t = 1..(n + m) /\ DOMAIN q = 1..n /\ DOMAIN s = 1..m
          /\ \A i \in 1..n : t[i] = q[i]
          /\ \A i \in 1..m : t[n + i] = s[i]
          /\ \A j \in DOMAIN t : j \in 1..n \/ \E i \in 1..m : j = n + i
    BY <2>1, ZenonT(60)
  <2> HIDE DEF t
  <2>3. SUFFICES ASSUME NEW j \in DOMAIN t, NEW c \in Commands, c < t[j]
        PROVE  Over(c, b, d) \/ \E i \in DOMAIN t : i < j /\ t[i] = c
    BY DEF InTurn, t
  <2>4. CASE j \in 1..n
    <3>1. Over(c, b, d) \/ \E i \in DOMAIN q : i < j /\ q[i] = c
      BY <2>2, <2>3, <2>4 DEF FlightInv, InTurn, q
    <3>2. ASSUME NEW i \in 1..n, i < j, q[i] = c PROVE i \in DOMAIN t /\ i < j /\ t[i] = c
      BY <2>2, <3>2
    <3> QED BY <2>2, <3>1, <3>2
  <2>5. ASSUME NEW k \in 1..m, j = n + k
        PROVE  Over(c, b, d) \/ \E i \in DOMAIN t : i < j /\ t[i] = c
    <3>1. Over(c, b, d) \/ c \in Range(q) \/ \E i \in DOMAIN s : i < k /\ s[i] = c
      BY <1>8, <2>2, <2>3, <2>5
    <3>2. ASSUME NEW i \in 1..n, q[i] = c PROVE i \in DOMAIN t /\ i < j /\ t[i] = c
      BY <2>2, <2>5, <3>2
    <3>3. ASSUME NEW i \in 1..m, i < k, s[i] = c PROVE n + i \in DOMAIN t /\ n + i < j /\ t[n + i] = c
      BY <2>2, <2>5, <3>3
    <3>4. c \in Range(q) => \E i \in 1..n : q[i] = c BY <2>2 DEF Range
    <3> QED BY <2>2, <3>1, <3>2, <3>3, <3>4
  <2> QED BY <2>2, <2>4, <2>5
<1>10. FlightInv(p, d, old)
  <2>1. InTurn(p.inFlight, p, d) /\ InTurn(old, p, d) BY <1>2, <1>4, <1>9, InTurnStays DEF FlightInv
  <2>2. Range(q) \subseteq Range(p.inFlight) BY <1>1, <1>2, <1>3, ConcatFacts
  <2> QED BY <1>2, <2>1, <2>2 DEF FlightInv, q
<1>11. SendInTurn(carried, s, b, d)
  <2>1. SUFFICES ASSUME NEW i \in DOMAIN s
        PROVE  /\ Known(s[i], d)
               /\ \A e \in Commands : e < s[i] =>
                    \/ Over(e, b, d) \/ Reaches(e, carried, Len(carried))
                    \/ \E k \in DOMAIN s : k < i /\ s[k] = e
    BY DEF SendInTurn
  <2>2. Known(s[i], d) BY <1>4 DEF Range
  <2>3. s # <<>> OBVIOUS
  <2>4. ASSUME NEW e \in Commands, e < s[i], e \in Range(q)
        PROVE  Over(e, b, d) \/ Reaches(e, carried, Len(carried))
    <3>1. CASE e \in b.fenced BY <1>1, <1>7, <2>3, <2>4, <3>1 DEF Over
    <3>2. CASE e \notin b.fenced BY <2>4, <3>2 DEF ReachInv, q, Over
    <3> QED BY <3>1, <3>2
  <2> QED BY <1>8, <2>2, <2>4
<1>12. UpInv(up2, b, d) BY <1>1, <1>11, SendKeepsUp DEF up2
<1>13. UpInv(up2, p, d) BY <1>4, <1>5, <1>12, UpStays
<1>14. ReachInv(p, up2)
  <2>1. SUFFICES ASSUME NEW c \in p.armed \cup (Range(p.inFlight) \ p.fenced)
        PROVE  Reported(c) \/ Reaches(c, up2, Len(up2))
    BY DEF ReachInv
  <2>2. CASE c \in b.armed \/ (c \in Range(q) /\ c \notin b.fenced)
    BY <1>6, <2>2 DEF ReachInv, q
  <2>3. CASE c \in Range(s) BY <1>6, <2>3
  <2>4. CASE c \in Range(q) /\ c \in b.fenced /\ c \notin p.fenced
    BY <1>2, <1>7, <2>4
  <2>5. Range(p.inFlight) = Range(q) \cup Range(s) BY <1>1, <1>2, <1>3, ConcatFacts
  <2> QED BY <1>2, <2>1, <2>2, <2>3, <2>4, <2>5
<1> QED BY <1>5, <1>10, <1>13, <1>14 DEF s, p, up2

-----------------------------------------------------------------------------
(* The operations of the chain. *)

\* The record of the first operation's command once that operation started.
Became(b) ==
  LET op == Head(b.chain)
  IN  CASE op.kind \in {"acked", "failed"} /\ Pending(b, op.c) -> op.kind
        [] op.kind = "seen" /\ b.rec[op.c] = "pending" -> "delivered"
        [] op.kind = "taken" /\ b.rec[op.c] # "none" -> "acked"
        [] OTHER -> b.rec[op.c]

\* The outbox b2 is b with its first operation started.
Started(b, b2) ==
  /\ b2 \in Boxes /\ b2.inFlight = b.inFlight /\ b2.fenced = b.fenced /\ b2.acking = b.acking
  /\ b2.timer = b.timer /\ b2.attempts = b.attempts /\ b2.armed = b.armed
  /\ b2.rec = [b.rec EXCEPT ![Head(b.chain).c] = Became(b)]
  /\ DOMAIN b2.chain = DOMAIN b.chain /\ b2.chain # <<>>
  /\ \A i \in DOMAIN b.chain : b2.chain[i].kind = b.chain[i].kind /\ b2.chain[i].c = b.chain[i].c
  /\ b2.chain[1].was = b.rec[Head(b.chain).c]

\* The storage operation in front of the chain and the state it gives its command.
LEMMA BecameState ==
  ASSUME NEW b \in Boxes, b.chain # <<>>
  PROVE  /\ Head(b.chain) = b.chain[1] /\ 1 \in DOMAIN b.chain /\ b.chain[1] \in Operations
         /\ b.chain[1].c \in Commands /\ Became(b) \in States
<1>1. b.chain \in Seq(Operations) BY BoxFields
<1>2. Head(b.chain) = b.chain[1] /\ 1 \in DOMAIN b.chain /\ b.chain[1] \in Operations BY <1>1
<1>3. b.chain[1].c \in Commands BY <1>2 DEF Operations
<1>4. b.rec[b.chain[1].c] \in States BY <1>3, BoxFields
<1> QED BY <1>2, <1>3, <1>4 DEF Became, States, Results

\* What beginning the storage operation in front of the chain does to each field.
LEMMA BeginFields ==
  ASSUME NEW b \in Boxes, b.chain # <<>>, b.chain[1].kind # "save"
  PROVE  Started(b, Begin(b))
<1> DEFINE c == b.chain[1].c
           to == Became(b)
           was == b.rec[c]
           b2 == [b EXCEPT !.rec[c] = to, !.chain[1].was = was]
<1>1. /\ Head(b.chain) = b.chain[1] /\ 1 \in DOMAIN b.chain /\ b.chain[1] \in Operations
      /\ c \in Commands /\ to \in States
  BY BecameState
<1>2. Begin(b) = b2 BY <1>1 DEF Begin, Became
<1>3. was \in States BY <1>1, BoxFields
<1>4. b.chain \in Seq(Operations) BY BoxFields
<1>5. [b.rec EXCEPT ![c] = to] \in [Commands -> States] BY <1>1, BoxFields
<1> DEFINE op == [b.chain[1] EXCEPT !.was = was]
           ch == [b.chain EXCEPT ![1] = op]
<1>6. op \in Operations /\ op.kind = b.chain[1].kind /\ op.c = b.chain[1].c /\ op.was = was
  BY <1>1, <1>3 DEF Operations
<1>7. b2 = [b EXCEPT !.rec = [b.rec EXCEPT ![c] = to], !.chain = ch] OBVIOUS
<1> HIDE DEF op, to, was, c
<1>8. ch \in Seq(Operations) /\ DOMAIN ch = DOMAIN b.chain BY <1>4, <1>6
<1>9. /\ ch[1] = op /\ \A i \in DOMAIN b.chain : i # 1 => ch[i] = b.chain[i] BY <1>1, <1>4
<1>10. \A i \in DOMAIN b.chain : ch[i].kind = b.chain[i].kind /\ ch[i].c = b.chain[i].c
  BY <1>6, <1>9
<1>11. ch # <<>> BY <1>1, <1>8
<1> HIDE DEF ch
<1> DEFINE r == [b.rec EXCEPT ![c] = to]
<1> HIDE DEF r
<1>12. b2 = [b EXCEPT !.rec = r, !.chain = ch] BY <1>7 DEF r
<1>13. r \in [Commands -> States] BY <1>5 DEF r
<1> DEFINE e == [b EXCEPT !.rec = r, !.chain = ch]
<1>14. e \in Boxes BY <1>8, <1>13 DEF Boxes
<1>15. /\ e.inFlight = b.inFlight /\ e.fenced = b.fenced /\ e.acking = b.acking
       /\ e.timer = b.timer /\ e.attempts = b.attempts /\ e.armed = b.armed
       /\ e.rec = r /\ e.chain = ch
  BY DEF Boxes
<1> HIDE DEF e, b2
<1>16. Begin(b) = e BY <1>2, <1>12 DEF e
<1>17. r = [b.rec EXCEPT ![Head(b.chain).c] = Became(b)] BY <1>1 DEF r, c, to
<1>18. ch[1].was = b.rec[Head(b.chain).c] BY <1>1, <1>6, <1>9 DEF was, c
<1> QED BY <1>8, <1>10, <1>11, <1>14, <1>15, <1>16, <1>17, <1>18 DEF Started

\* The outbox b2 follows b: what is over stays over, and nothing is sent or released.
Quiet(b, b2, d) ==
  /\ b2 \in Boxes /\ BoxInv(b2, d) /\ Stays(b, d, b2, d)
  /\ b2.inFlight = b.inFlight /\ b2.fenced = b.fenced /\ b2.armed = b.armed

\* Undoing no ending composes.
LEMMA StaysTransitive ==
  ASSUME NEW b, NEW d, NEW b2, NEW d2, NEW b3, NEW d3,
         Stays(b, d, b2, d2), Stays(b2, d2, b3, d3)
  PROVE  Stays(b, d, b3, d3)
BY DEF Stays

\* Starting an operation is justified by what it was asked for.
LEMMA BeginKeeps ==
  ASSUME NEW b \in Boxes, NEW d, Context(d), BoxCore(b, d)
  PROVE  Quiet(b, Begin(b), d)
<1>1. CASE b.chain = <<>> \/ Head(b.chain).kind = "save"
  <2>1. Begin(b) = b BY <1>1 DEF Begin
  <2>2. BoxInv(b, d) BY <1>1 DEF BoxInv
  <2> QED BY <2>1, <2>2 DEF Quiet, Stays
<1>2. CASE b.chain # <<>> /\ Head(b.chain).kind # "save"
  <2> DEFINE op == b.chain[1]
             c == op.c
             b2 == Begin(b)
  <2>1. /\ Head(b.chain) = op /\ 1 \in DOMAIN b.chain /\ op \in Operations
        /\ c \in Commands /\ Became(b) \in States
    BY <1>2, BecameState
  <2>2. Started(b, b2) BY <1>2, <2>1, BeginFields
  <2> HIDE DEF b2
  <2>3. /\ b2 \in Boxes /\ b2.inFlight = b.inFlight /\ b2.fenced = b.fenced
        /\ b2.acking = b.acking /\ b2.timer = b.timer /\ b2.armed = b.armed
        /\ DOMAIN b2.chain = DOMAIN b.chain /\ b2.chain # <<>>
        /\ \A i \in DOMAIN b.chain : b2.chain[i].kind = b.chain[i].kind /\ b2.chain[i].c = b.chain[i].c
    BY <2>2 DEF Started
  <2>4. OperationInv(op, b, d) BY <2>1 DEF BoxCore
  <2>5. b.rec \in [Commands -> States] BY BoxFields
  <2>6. /\ b2.rec[c] = Became(b) /\ \A e \in Commands : e # c => b2.rec[e] = b.rec[e]
        /\ b2.chain[1].was = b.rec[c]
    BY <2>1, <2>2, <2>5 DEF Started
  <2>7. RecordInv(c, b.rec[c], d) /\ Known(c, d) BY <1>2, <2>1, <2>4 DEF BoxCore, OperationInv
  <2>8. b.rec[c] # "saving" BY <2>7 DEF RecordInv, Known
  <2>9. RecordInv(c, Became(b), d) /\ Became(b) # "saving"
    <3>1. CASE op.kind \in {"acked", "failed"} /\ Pending(b, c)
      <4>1. Became(b) = op.kind BY <2>1, <3>1 DEF Became
      <4>2. d[c] # "none" BY <2>7, <3>1 DEF Pending, RecordInv
      <4> QED BY <2>4, <3>1, <4>1, <4>2 DEF OperationInv, RecordInv
    <3>2. CASE op.kind = "seen" /\ b.rec[c] = "pending"
      <4>1. Became(b) = "delivered" BY <2>1, <3>2 DEF Became
      <4> QED BY <2>4, <2>7, <3>2, <4>1 DEF OperationInv, RecordInv
    <3>3. CASE op.kind = "taken" /\ b.rec[c] # "none"
      <4>1. Became(b) = "acked" BY <2>1, <3>3 DEF Became
      <4> QED BY <2>4, <3>3, <4>1 DEF OperationInv, RecordInv
    <3>4. CASE /\ ~(op.kind \in {"acked", "failed"} /\ Pending(b, c))
               /\ ~(op.kind = "seen" /\ b.rec[c] = "pending")
               /\ ~(op.kind = "taken" /\ b.rec[c] # "none")
      <4>1. Became(b) = b.rec[c] BY <2>1, <3>4 DEF Became
      <4> QED BY <2>7, <2>8, <4>1
    <3> QED BY <3>1, <3>2, <3>3, <3>4
  <2>10. c <= issued
    <3>1. d[c] # "none" => ~(c > issued) BY <2>1 DEF BoxCore
    <3>2. issued \in Nat /\ c \in Nat
      <4>1. issued \in 0..MaxCommands BY DEF Context
      <4>2. c \in Commands BY <2>1
      <4> HIDE DEF c
      <4> QED BY <4>1, <4>2, CommandsAreNumbers
    <3> QED BY <2>1, <2>7, <3>1, <3>2 DEF Context, Known
  <2>11. ASSUME NEW e \in Commands
         PROVE  RecordInv(e, b2.rec[e], d) /\ (e > issued => b2.rec[e] = "none" /\ d[e] = "none")
    <3>1. RecordInv(e, b.rec[e], d) /\ (e > issued => b.rec[e] = "none" /\ d[e] = "none")
      BY DEF BoxCore
    <3>2. CASE e = c
      <4>1. ~(c > issued) BY <2>1, <2>10, CommandsAreNumbers DEF Context
      <4> QED BY <2>6, <2>9, <3>2, <4>1
    <3>3. CASE e # c BY <2>6, <3>1, <3>3
    <3> QED BY <3>2, <3>3
  <2>12. ASSUME NEW i \in DOMAIN b2.chain PROVE OperationInv(b2.chain[i], b2, d)
    <3>1. i \in DOMAIN b.chain /\ OperationInv(b.chain[i], b, d) BY <2>3 DEF BoxCore
    <3>2. b.chain[i].c \in Commands
      <4>1. b.chain[i] \in Operations BY <3>1, BoxFields
      <4> QED BY <4>1 DEF Operations
    <3>3. b2.chain[i].kind = b.chain[i].kind /\ b2.chain[i].c = b.chain[i].c BY <2>3, <3>1
    <3>4. b.chain[i].kind = "save" => b2.rec[b.chain[i].c] = "saving"
      BY <2>6, <2>8, <3>1, <3>2 DEF OperationInv
    <3> QED BY <3>1, <3>3, <3>4 DEF OperationInv
  <2>13. SavesInv(b2, d)
    <3>1. SavesInv(b, d) BY DEF BoxCore
    <3>2. ASSUME NEW i \in DOMAIN b2.chain, NEW j \in DOMAIN b2.chain,
                 i < j, b2.chain[i].kind = "save", b2.chain[j].kind = "save"
          PROVE  b2.chain[i].c < b2.chain[j].c
      BY <2>3, <3>1, <3>2 DEF SavesInv
    <3>3. ASSUME NEW e \in Commands, b2.rec[e] = "saving"
          PROVE  /\ \E i \in DOMAIN b2.chain : b2.chain[i].kind = "save" /\ b2.chain[i].c = e
                 /\ \A x \in Commands : e < x => d[x] = "none"
      <4>1. b.rec[e] = "saving" BY <2>6, <2>9, <3>3
      <4>2. PICK i \in DOMAIN b.chain : b.chain[i].kind = "save" /\ b.chain[i].c = e
        BY <3>1, <4>1 DEF SavesInv
      <4>3. \A x \in Commands : e < x => d[x] = "none" BY <3>1, <4>1 DEF SavesInv
      <4> QED BY <2>3, <4>2, <4>3
    <3> QED BY <3>2, <3>3 DEF SavesInv
  <2>14. BoxCore(b2, d)
    <3>1. \A x \in Range(b2.inFlight) : Known(x, d) BY <2>3 DEF BoxCore
    <3>2. IsInjective(b2.inFlight) /\ (\A x \in b2.acking : Reported(x)) /\ b2.timer \subseteq refused
      BY <2>3 DEF BoxCore
    <3> QED BY <2>11, <2>12, <2>13, <3>1, <3>2 DEF BoxCore
  <2>15. BoxInv(b2, d)
    <3>1. Head(b2.chain) = b2.chain[1] BY <2>3, BecameState
    <3>2. b2.chain[1].c = c BY <2>1, <2>3
    <3> QED BY <2>6, <2>7, <2>14, <3>1, <3>2 DEF BoxInv
  <2>16. Stays(b, d, b2, d)
    <3>1. ASSUME NEW e \in Commands, Over(e, b, d) PROVE Over(e, b2, d)
      <4>1. CASE e = c BY <2>7, <3>1, <4>1 DEF Over, Lost, Known
      <4>2. CASE e # c BY <2>6, <3>1, <4>2 DEF Over, Lost
      <4> QED BY <4>1, <4>2
    <3> QED BY <3>1 DEF Stays
  <2> QED BY <2>3, <2>15, <2>16 DEF Quiet, b2
<1> QED BY <1>1, <1>2

\* A quiet step after one that leaves the window alone is quiet.
LEMMA QuietTransitive ==
  ASSUME NEW b, NEW b2, NEW b3, NEW d, Stays(b, d, b2, d), Quiet(b2, b3, d),
         b2.inFlight = b.inFlight, b2.fenced = b.fenced, b2.armed = b.armed
  PROVE  Quiet(b, b3, d)
BY StaysTransitive DEF Quiet

\* Where the operations are once one more is queued.
LEMMA AppendFacts ==
  ASSUME NEW S, NEW s \in Seq(S), NEW x \in S
  PROVE  /\ Append(s, x) \in Seq(S) /\ Len(Append(s, x)) = Len(s) + 1 /\ Append(s, x) # <<>>
         /\ Len(s) \in Nat /\ DOMAIN s = 1..Len(s) /\ DOMAIN Append(s, x) = 1..(Len(s) + 1)
         /\ \A i \in 1..Len(s) : Append(s, x)[i] = s[i]
         /\ Append(s, x)[Len(s) + 1] = x
OBVIOUS

\* A change asked for by the daemon or the transcript joins the chain.
LEMMA SerializeKeeps ==
  ASSUME NEW b \in Boxes, NEW d, Context(d), BoxInv(b, d), NEW c \in Commands,
         NEW kind \in {"acked", "failed", "seen", "taken"}, Known(c, d),
         kind # "failed" => receipts[c] = "acked", kind = "failed" => GivenUp(c)
  PROVE  Quiet(b, serialize(b, kind, c), d)
<1> DEFINE op == [kind |-> kind, c |-> c, was |-> "none"]
           q == b.chain
           q2 == Append(q, op)
           next == [b EXCEPT !.chain = q2]
<1>1. op \in Operations /\ op.kind = kind /\ op.c = c BY DEF Operations, States
<1>2. q \in Seq(Operations) BY BoxFields
<1>3. PICK n \in Nat : n = Len(q) BY <1>2
<1> HIDE DEF op
<1>4. /\ q2 \in Seq(Operations) /\ q2 # <<>> /\ DOMAIN q = 1..n /\ DOMAIN q2 = 1..(n + 1)
      /\ q2[n + 1] = op
  BY <1>1, <1>2, <1>3, AppendFacts
<1>5. \A i \in 1..n : q2[i] = q[i] BY <1>1, <1>2, <1>3, AppendFacts
<1> HIDE DEF q2
<1>6. next \in Boxes BY <1>4 DEF Boxes
<1>7. /\ next.rec = b.rec /\ next.inFlight = b.inFlight /\ next.fenced = b.fenced
      /\ next.acking = b.acking /\ next.timer = b.timer /\ next.armed = b.armed /\ next.chain = q2
  BY DEF Boxes
<1>8. serialize(b, kind, c) = IF q = <<>> THEN Begin(next) ELSE next BY DEF serialize, q2, op
<1> HIDE DEF next, q
<1>9. BoxCore(b, d) BY DEF BoxInv
<1>10. ASSUME NEW i \in 1..(n + 1) PROVE OperationInv(q2[i], next, d)
  <2>1. CASE i \in 1..n
    <3>1. OperationInv(q[i], b, d) BY <1>4, <1>9, <2>1 DEF BoxCore, q
    <3> QED BY <1>5, <1>7, <2>1, <3>1 DEF OperationInv
  <2>2. CASE i = n + 1 BY <1>1, <1>4, <2>2 DEF OperationInv
  <2> QED BY <2>1, <2>2
<1>11. SavesInv(next, d)
  <2>1. SavesInv(b, d) BY <1>9 DEF BoxCore
  <2>2. op.kind # "save" BY <1>1
  <2>3. ASSUME NEW i \in 1..(n + 1), NEW j \in 1..(n + 1),
               i < j, q2[i].kind = "save", q2[j].kind = "save"
        PROVE  q2[i].c < q2[j].c
    <3>1. i \in 1..n /\ j \in 1..n BY <1>4, <2>2, <2>3
    <3>2. q[i].kind = "save" /\ q[j].kind = "save" BY <1>5, <2>3, <3>1
    <3>3. q[i].c < q[j].c BY <1>4, <2>1, <2>3, <3>1, <3>2 DEF SavesInv, q
    <3> QED BY <1>5, <3>1, <3>3
  <2>4. ASSUME NEW e \in Commands, b.rec[e] = "saving"
        PROVE  /\ \E i \in 1..(n + 1) : q2[i].kind = "save" /\ q2[i].c = e
               /\ \A x \in Commands : e < x => d[x] = "none"
    <3>1. PICK i \in 1..n : q[i].kind = "save" /\ q[i].c = e BY <1>4, <2>1, <2>4 DEF SavesInv, q
    <3>2. i \in 1..(n + 1) OBVIOUS
    <3>3. \A x \in Commands : e < x => d[x] = "none" BY <2>1, <2>4 DEF SavesInv
    <3> QED BY <1>5, <3>1, <3>2, <3>3
  <2>5. next.chain = q2 /\ DOMAIN q2 = 1..(n + 1) /\ next.rec = b.rec BY <1>4, <1>7
  <2> QED BY <2>3, <2>4, <2>5 DEF SavesInv
<1>12. BoxCore(next, d)
  <2>1. /\ \A e \in Commands : /\ RecordInv(e, next.rec[e], d)
                               /\ e > issued => next.rec[e] = "none" /\ d[e] = "none"
        /\ \A e \in Range(next.inFlight) : Known(e, d)
        /\ IsInjective(next.inFlight)
        /\ \A e \in next.acking : Reported(e)
        /\ next.timer \subseteq refused
    BY <1>7, <1>9 DEF BoxCore
  <2>2. \A i \in DOMAIN next.chain : OperationInv(next.chain[i], next, d) BY <1>4, <1>7, <1>10
  <2> QED BY <1>11, <2>1, <2>2 DEF BoxCore
<1>13. Stays(b, d, next, d) BY <1>7 DEF Stays, Over, Lost
<1>14. CASE q = <<>>
  <2>1. Quiet(next, Begin(next), d) BY <1>6, <1>12, BeginKeeps
  <2>2. Quiet(b, Begin(next), d) BY <1>7, <1>13, <2>1, QuietTransitive
  <2> QED BY <1>8, <1>14, <2>2
<1>15. CASE q # <<>>
  <2>1. 1 \in 1..n BY <1>2, <1>3, <1>4, <1>15
  <2>2. Head(q2) = q2[1] /\ Head(q) = q[1] /\ q2[1] = q[1] BY <1>2, <1>4, <1>5, <1>15, <2>1
  <2>3. BoxInv(next, d) BY <1>7, <1>12, <1>15, <2>2 DEF BoxInv, q
  <2>4. Quiet(b, next, d) BY <1>6, <1>7, <1>13, <2>3 DEF Quiet
  <2> QED BY <1>8, <1>15, <2>4
<1> QED BY <1>14, <1>15

-----------------------------------------------------------------------------
(* Receipts and refusals. *)

\* The outbox b2 follows b, from which one answered command may have been released.
Settles(b, d, b2, d2) ==
  /\ b2 \in Boxes /\ Stays(b, d, b2, d2) /\ b2.fenced = b.fenced /\ b2.armed = b.armed
  /\ \/ b2.inFlight = b.inFlight
     \/ \E c \in Commands : Reported(c) /\ b2.inFlight = Without(b.inFlight, c)

\* A settled outbox has what it needs in flight and on its way.
LEMMA SettlesKeeps ==
  ASSUME NEW b \in Boxes, NEW d, NEW b2, NEW d2, Settles(b, d, b2, d2),
         NEW old \in Seq(Commands), FlightInv(b, d, old)
  PROVE  /\ FlightInv(b2, d2, old)
         /\ \A carried : ReachInv(b, carried) => ReachInv(b2, carried)
         /\ \A carried \in Seq(Asks) : UpInv(carried, b, d) => UpInv(carried, b2, d2)
<1>1. b2 \in Boxes /\ Stays(b, d, b2, d2) /\ b2.fenced = b.fenced /\ b2.armed = b.armed
  BY DEF Settles
<1>2. \A carried \in Seq(Asks) : UpInv(carried, b, d) => UpInv(carried, b2, d2)
  BY <1>1, UpStays
<1>3. CASE b2.inFlight = b.inFlight
  <2>1. FlightInv(b2, d2, old) BY <1>1, <1>3, FlightSame
  <2>2. \A carried : ReachInv(b, carried) => ReachInv(b2, carried) BY <1>1, <1>3 DEF ReachInv
  <2> QED BY <1>2, <2>1, <2>2
<1>4. ASSUME NEW c \in Commands, Reported(c), b2.inFlight = Without(b.inFlight, c)
      PROVE  FlightInv(b2, d2, old) /\ \A carried : ReachInv(b, carried) => ReachInv(b2, carried)
  <2>1. b2.inFlight = Only(b.inFlight, Commands \ {c}) BY <1>4 DEF Without
  <2>2. b.inFlight \in Seq(Commands) BY BoxFields
  <2>3. \A e \in Range(b.inFlight) : e \notin Commands \ {c} => Reported(e)
    BY <1>4, <2>2 DEF Range
  <2>4. FlightInv(b2, d2, old) BY <1>1, <2>1, <2>3, FlightOnly
  <2>5. Range(b2.inFlight) \subseteq Range(b.inFlight) BY <2>1, <2>2, OnlyFacts
  <2>6. \A carried : ReachInv(b, carried) => ReachInv(b2, carried) BY <1>1, <2>5 DEF ReachInv
  <2> QED BY <2>4, <2>6
<1> QED BY <1>2, <1>3, <1>4 DEF Settles

\* A quiet step keeps the outbox's own invariant.
LEMMA QuietSettles ==
  ASSUME NEW b, NEW b2, NEW d, Quiet(b, b2, d)
  PROVE  Settles(b, d, b2, d) /\ BoxInv(b2, d)
BY DEF Quiet, Settles

\* Taking a command out of what is in flight.
LEMMA WithoutFacts ==
  ASSUME NEW q \in Seq(Commands), NEW c
  PROVE  /\ Without(q, c) \in Seq(Commands) /\ Range(Without(q, c)) \subseteq Range(q)
         /\ IsInjective(q) => IsInjective(Without(q, c))
BY OnlyFacts DEF Without

\* A result, or the end of the retries, is recorded once.
LEMMA AcknowledgeKeeps ==
  ASSUME NEW b \in Boxes, NEW d, Context(d), BoxInv(b, d), NEW c \in Commands, Known(c, d),
         NEW result \in Results,
         result = "acked" => receipts[c] = "acked", result = "failed" => GivenUp(c)
  PROVE  Quiet(b, acknowledge(b, c, result), d)
<1> DEFINE calm == [b EXCEPT !.timer = @ \ {c}, !.attempts[c] = 0]
           more == [calm EXCEPT !.acking = @ \cup {c}]
<1>1. Reported(c) BY DEF Reported, GivenUp, Results
<1>2. [b.attempts EXCEPT ![c] = 0] \in [Commands -> 0..MaxRetries]
  BY BoxFields, BoundsAssumption
<1>3. calm \in Boxes BY <1>2, BoxFields DEF Boxes
<1>4. /\ calm.rec = b.rec /\ calm.inFlight = b.inFlight /\ calm.fenced = b.fenced
      /\ calm.acking = b.acking /\ calm.timer = b.timer \ {c} /\ calm.armed = b.armed
      /\ calm.chain = b.chain
  BY DEF Boxes
<1> HIDE DEF calm
<1>5. more \in Boxes BY <1>3, BoxFields DEF Boxes
<1>6. /\ more.rec = b.rec /\ more.inFlight = b.inFlight /\ more.fenced = b.fenced
      /\ more.acking = b.acking \cup {c} /\ more.timer = b.timer \ {c} /\ more.armed = b.armed
      /\ more.chain = b.chain
  BY <1>3, <1>4 DEF Boxes
<1> HIDE DEF more
<1>7. BoxCore(b, d) BY DEF BoxInv
<1>8. /\ \A e \in Range(b.inFlight) : Known(e, d)
      /\ IsInjective(b.inFlight) /\ b.timer \subseteq refused
      /\ \A e \in b.acking : Reported(e)
  BY <1>7 DEF BoxCore
<1>9. BoxInv(calm, d) /\ Stays(b, d, calm, d) BY <1>3, <1>4, <1>7, <1>8, SameRecords
<1>10. BoxInv(more, d) /\ Stays(b, d, more, d) BY <1>1, <1>5, <1>6, <1>7, <1>8, SameRecords
<1>11. CASE c \in b.acking
  <2>1. acknowledge(b, c, result) = calm BY <1>11 DEF acknowledge, calm
  <2> QED BY <1>3, <1>4, <1>9, <2>1 DEF Quiet
<1>12. CASE c \notin b.acking
  <2>1. acknowledge(b, c, result) = serialize(more, result, c)
    BY <1>12 DEF acknowledge, calm, more
  <2>2. result \in {"acked", "failed", "seen", "taken"} BY DEF Results
  <2>3. Quiet(more, serialize(more, result, c), d)
    BY <1>5, <1>10, <2>2, SerializeKeeps DEF Results
  <2> QED BY <1>6, <1>10, <2>1, <2>3, QuietTransitive
<1> QED BY <1>11, <1>12

\* A refusal is retried, or after too many of them recorded as the command's end.
LEMMA RefuseKeeps ==
  ASSUME NEW b \in Boxes, NEW d, Context(d), BoxInv(b, d), NEW c \in refused,
         NEW retryable \in BOOLEAN
  PROVE  Settles(b, d, refuse(b, c, retryable), d) /\ BoxInv(refuse(b, c, retryable), d)
<1>0. c \in Commands BY DEF Context
<1>1. CASE ~Pending(b, c)
  <2>1. refuse(b, c, retryable) = b BY <1>1 DEF refuse
  <2> QED BY <2>1 DEF Settles, Stays
<1>2. CASE Pending(b, c) /\ (~retryable \/ b.attempts[c] >= MaxRetries)
  <2>1. refuse(b, c, retryable) = acknowledge(b, c, "failed") BY <1>2 DEF refuse
  <2>2. RecordInv(c, b.rec[c], d) BY <1>0 DEF BoxInv, BoxCore
  <2>3. Known(c, d) BY <1>2, <2>2 DEF Pending, RecordInv, Known
  <2>4. GivenUp(c) /\ "failed" \in Results BY DEF GivenUp, Results
  <2>5. Quiet(b, acknowledge(b, c, "failed"), d) BY <1>0, <2>3, <2>4, AcknowledgeKeeps
  <2> QED BY <2>1, <2>5, QuietSettles
<1>3. CASE Pending(b, c) /\ ~(~retryable \/ b.attempts[c] >= MaxRetries)
  <2> DEFINE q == Without(b.inFlight, c)
             a == [b.attempts EXCEPT ![c] = @ + 1]
             b2 == [b EXCEPT !.inFlight = q, !.timer = @ \cup {c}, !.attempts = a]
  <2>1. refuse(b, c, retryable) = b2 BY <1>3 DEF refuse
  <2>2. b.inFlight \in Seq(Commands) BY BoxFields
  <2>3. /\ q \in Seq(Commands) /\ Range(q) \subseteq Range(b.inFlight)
        /\ IsInjective(b.inFlight) => IsInjective(q)
    BY <2>2, WithoutFacts
  <2>4. a \in [Commands -> 0..MaxRetries]
    <3>1. b.attempts[c] \in 0..MaxRetries /\ MaxRetries \in Nat
      BY <1>0, BoxFields, BoundsAssumption
    <3>2. b.attempts[c] + 1 \in 0..MaxRetries BY <1>3, <3>1
    <3> QED BY <1>0, <3>2, BoxFields
  <2> HIDE DEF q, a
  <2>5. b2 \in Boxes BY <1>0, <2>3, <2>4, BoxFields DEF Boxes
  <2>6. /\ b2.rec = b.rec /\ b2.inFlight = q /\ b2.fenced = b.fenced /\ b2.acking = b.acking
        /\ b2.timer = b.timer \cup {c} /\ b2.armed = b.armed /\ b2.chain = b.chain
    BY DEF Boxes
  <2> HIDE DEF b2
  <2>7. BoxCore(b, d) BY DEF BoxInv
  <2>8. /\ \A e \in Range(b2.inFlight) : Known(e, d)
        /\ IsInjective(b2.inFlight) /\ b2.timer \subseteq refused
        /\ \A e \in b2.acking : Reported(e)
    BY <2>3, <2>6, <2>7 DEF BoxCore
  <2>9. BoxInv(b2, d) /\ Stays(b, d, b2, d) BY <2>5, <2>6, <2>7, <2>8, SameRecords
  <2>10. Reported(c) BY DEF Reported
  <2>11. Settles(b, d, b2, d) BY <1>0, <2>5, <2>6, <2>9, <2>10 DEF Settles, q
  <2> QED BY <2>1, <2>9, <2>11
<1> QED BY <1>1, <1>2, <1>3

-----------------------------------------------------------------------------
(* Paths that end, are replaced or drained. *)

\* disconnect: nothing is in flight and nothing is timed.
LEMMA DisconnectKeeps ==
  ASSUME NEW b \in Boxes, NEW d, BoxCore(b, d)
  PROVE  /\ disconnect(b) \in Boxes /\ BoxCore(disconnect(b), d) /\ Stays(b, d, disconnect(b), d)
         /\ BoxInv(b, d) => BoxInv(disconnect(b), d)
         /\ FlightInv(disconnect(b), d, <<>>)
         /\ \A carried : ReachInv(disconnect(b), carried)
         /\ disconnect(b).chain = b.chain /\ disconnect(b).timer = {}
<1>0. PICK none \in Seq(Commands) : none = <<>> BY EmptySeq
<1> DEFINE b2 == [b EXCEPT !.fenced = {}, !.inFlight = none, !.timer = {}, !.armed = {}]
<1>1. b2 \in Boxes BY BoxFields DEF Boxes
<1>2. /\ b2.rec = b.rec /\ b2.inFlight = <<>> /\ b2.fenced = {} /\ b2.acking = b.acking
      /\ b2.timer = {} /\ b2.armed = {} /\ b2.chain = b.chain
  BY <1>0 DEF Boxes
<1>3. disconnect(b) = b2 BY <1>0 DEF disconnect
<1> HIDE DEF b2
<1>4. Range(b2.inFlight) = {} /\ IsInjective(b2.inFlight) BY <1>2 DEF Range, IsInjective
<1>5. \A e \in b2.acking : Reported(e) BY <1>2 DEF BoxCore
<1>6. BoxCore(b2, d) /\ Stays(b, d, b2, d) /\ (BoxInv(b, d) => BoxInv(b2, d))
  BY <1>1, <1>2, <1>4, <1>5, SameRecords
<1>7. FlightInv(b2, d, <<>>) BY <1>2 DEF FlightInv, InTurn, Range
<1>8. \A carried : ReachInv(b2, carried) BY <1>2, <1>4 DEF ReachInv
<1> QED BY <1>1, <1>2, <1>3, <1>6, <1>7, <1>8

\* fence: what was in flight on the path that is left stays in flight, fenced.
LEMMA FenceKeeps ==
  ASSUME NEW b \in Boxes, NEW d, BoxInv(b, d), NEW old, FlightInv(b, d, old)
  PROVE  /\ fence(b) \in Boxes /\ BoxInv(fence(b), d) /\ Stays(b, d, fence(b), d)
         /\ FlightInv(fence(b), d, b.inFlight)
         /\ \A carried : ReachInv(fence(b), carried)
         /\ fence(b).chain = b.chain /\ fence(b).timer = b.timer
<1> DEFINE f == Range(b.inFlight)
           b2 == [b EXCEPT !.fenced = f, !.armed = {}]
<1>0. f \in SUBSET Commands BY BoxFields DEF Range
<1>3. fence(b) = b2 BY DEF fence
<1> HIDE DEF f
<1>1. b2 \in Boxes BY <1>0, BoxFields DEF Boxes
<1>2. /\ b2.rec = b.rec /\ b2.inFlight = b.inFlight /\ b2.fenced = f /\ b2.acking = b.acking
      /\ b2.timer = b.timer /\ b2.armed = {} /\ b2.chain = b.chain
  BY DEF Boxes
<1> HIDE DEF b2
<1>4. BoxCore(b, d) BY DEF BoxInv
<1>5. /\ \A e \in b2.acking : Reported(e)
      /\ b2.timer \subseteq refused /\ IsInjective(b2.inFlight)
      /\ \A e \in Range(b2.inFlight) : Known(e, d)
  BY <1>2, <1>4 DEF BoxCore
<1>6. BoxInv(b2, d) /\ Stays(b, d, b2, d) BY <1>1, <1>2, <1>4, <1>5, SameRecords
<1>7. InTurn(b2.inFlight, b2, d) BY <1>2, <1>6, InTurnStays DEF FlightInv
<1>8. FlightInv(b2, d, b.inFlight) BY <1>2, <1>5, <1>7 DEF FlightInv, f
<1>9. \A carried : ReachInv(b2, carried) BY <1>2 DEF ReachInv, f
<1> QED BY <1>1, <1>2, <1>3, <1>6, <1>8, <1>9

\* What the old path owed and no one answered is sent again, in the order first sent.
LEMMA ReaskKeeps ==
  ASSUME NEW b \in Boxes, NEW d, Context(d), BoxInv(b, d), app # "down",
         NEW old \in Seq(Commands), FlightInv(b, d, old),
         NEW carried \in Seq(Asks), ReachInv(b, carried), UpInv(carried, b, d)
  PROVE  /\ reask(b, old) \in Boxes /\ BoxInv(reask(b, old), d) /\ Stays(b, d, reask(b, old), d)
         /\ reask(b, old).chain = b.chain /\ reask(b, old).timer = b.timer
         /\ FlightInv(reask(b, old), d, <<>>)
         /\ Sent(carried, Asked(b, old)) \in Seq(Asks)
         /\ ReachInv(reask(b, old), Sent(carried, Asked(b, old)))
         /\ UpInv(Sent(carried, Asked(b, old)), reask(b, old), d)
<1> DEFINE W == {c \in Commands : awaitingReceipt(b, c)}
           ids == Asked(b, old)
           a == b.armed \cup Range(ids)
           b2 == [b EXCEPT !.fenced = {}, !.armed = a]
           up2 == Sent(carried, ids)
<1>1. /\ ids \in Seq(Commands) /\ Range(ids) = Range(old) \cap W
      /\ ids = Only(old, W)
  BY OnlyFacts DEF Asked
<1>2. reask(b, old) = b2 BY DEF reask
<1>3. a \in SUBSET Commands BY <1>1, BoxFields
<1>4. \A c \in Commands : c \in W <=> awaitingReceipt(b, c) OBVIOUS
<1> HIDE DEF W, ids, a
<1>5. b2 \in Boxes BY <1>3, BoxFields DEF Boxes
<1>6. /\ b2.rec = b.rec /\ b2.inFlight = b.inFlight /\ b2.fenced = {} /\ b2.acking = b.acking
      /\ b2.timer = b.timer /\ b2.armed = a /\ b2.chain = b.chain
  BY DEF Boxes
<1> HIDE DEF b2
<1>7. BoxCore(b, d) BY DEF BoxInv
<1>8. /\ \A e \in b2.acking : Reported(e)
      /\ b2.timer \subseteq refused /\ IsInjective(b2.inFlight)
      /\ \A e \in Range(b2.inFlight) : Known(e, d)
  BY <1>6, <1>7 DEF BoxCore
<1>9. BoxInv(b2, d) /\ Stays(b, d, b2, d) BY <1>5, <1>6, <1>7, <1>8, SameRecords
<1>10. FlightInv(b2, d, <<>>)
  <2>1. InTurn(b2.inFlight, b2, d) BY <1>6, <1>9, InTurnStays DEF FlightInv
  <2> QED BY <1>6, <2>1 DEF FlightInv, InTurn, Range
<1>11. \A c \in Range(b.inFlight) : ~awaitingReceipt(b, c) => Reported(c) BY <1>7, NotAwaited
<1>12. ASSUME NEW c \in Range(old) PROVE c \in Commands /\ Known(c, d) /\ (c \in W \/ Reported(c))
  <2>1. c \in Commands BY DEF Range
  <2> QED BY <1>4, <1>11, <2>1 DEF FlightInv
<1>13. up2 \in Seq(Asks)
  <2>1. PICK l \in Nat, m \in Nat : After(up2, carried, ids, l, m) BY <1>1, SentFacts
  <2> QED BY <2>1 DEF After
<1>14. /\ \A c : Reaches(c, carried, Len(carried)) => Reaches(c, up2, Len(up2))
       /\ \A c \in Range(ids) : Reaches(c, up2, Len(up2))
  BY <1>1, SendReaches
<1>15. InTurn(ids, b, d)
  <2>1. \A c \in Range(old) : c \notin W => Reported(c) BY <1>12
  <2> QED BY <1>1, <2>1, InTurnOnly DEF FlightInv
<1>16. SendInTurn(carried, ids, b, d)
  <2>1. SUFFICES ASSUME NEW i \in DOMAIN ids
        PROVE  /\ Known(ids[i], d)
               /\ \A e \in Commands : e < ids[i] =>
                    \/ Over(e, b, d) \/ Reaches(e, carried, Len(carried))
                    \/ \E k \in DOMAIN ids : k < i /\ ids[k] = e
    BY DEF SendInTurn
  <2>2. ids[i] \in Range(old) BY <1>1 DEF Range
  <2>3. Known(ids[i], d) BY <1>12, <2>2
  <2> QED BY <1>15, <2>3 DEF InTurn
<1>17. UpInv(up2, b2, d)
  <2>1. UpInv(up2, b, d) BY <1>1, <1>16, SendKeepsUp
  <2> QED BY <1>9, <1>13, <2>1, UpStays
<1>18. ReachInv(b2, up2)
  <2>1. SUFFICES ASSUME NEW c \in b2.armed \cup Range(b2.inFlight)
        PROVE  Reported(c) \/ Reaches(c, up2, Len(up2))
    BY DEF ReachInv
  <2>2. CASE c \in Range(ids) BY <1>14, <2>2
  <2>3. CASE c \in b.armed \/ (c \in Range(b.inFlight) /\ c \notin b.fenced)
    BY <1>14, <2>3 DEF ReachInv
  <2>4. CASE c \in b.fenced
    <3>1. c \in Range(old) BY <2>4 DEF FlightInv
    <3>2. c \in Range(ids) \/ Reported(c) BY <1>1, <1>12, <3>1
    <3> QED BY <1>14, <3>2
  <2> QED BY <1>6, <2>1, <2>2, <2>3, <2>4 DEF a
<1> HIDE DEF up2
<1>19. Sent(carried, Asked(b, old)) = up2 BY DEF up2, ids
<1> QED BY <1>2, <1>5, <1>6, <1>9, <1>10, <1>13, <1>17, <1>18, <1>19

-----------------------------------------------------------------------------
(* The end of an operation. *)

\* The first operation, of command c, ends: b2 on disk d2 is b on disk d with c settled.
Ended(b, d, b2, d2, c) ==
  /\ b.chain # <<>> /\ b2.chain = Tail(b.chain) /\ c = b.chain[1].c
  /\ \A e \in Commands : e # c => b2.rec[e] = b.rec[e] /\ d2[e] = d[e]
  /\ RecordInv(c, b2.rec[c], d2) /\ b2.rec[c] # "saving" /\ (Known(c, d) => Known(c, d2))
  /\ d2[c] # "none" => d[c] # "none" \/ b.chain[1].kind = "save"
  /\ b2.acking \subseteq b.acking /\ b2.timer \subseteq b.timer
  /\ Range(b2.inFlight) \subseteq Range(b.inFlight) /\ IsInjective(b2.inFlight)

\* The end of an operation keeps the outbox.
LEMMA TailKeeps ==
  ASSUME NEW b \in Boxes, NEW b2 \in Boxes, NEW d, NEW d2 \in Disks, Context(d), BoxInv(b, d),
         NEW c, Ended(b, d, b2, d2, c)
  PROVE  BoxCore(b2, d2) /\ Stays(b, d, b2, d2)
<1> /\ b.chain # <<>> /\ b2.chain = Tail(b.chain) /\ c = b.chain[1].c
    /\ \A e \in Commands : e # c => b2.rec[e] = b.rec[e] /\ d2[e] = d[e]
    /\ RecordInv(c, b2.rec[c], d2) /\ b2.rec[c] # "saving" /\ (Known(c, d) => Known(c, d2))
    /\ d2[c] # "none" => d[c] # "none" \/ b.chain[1].kind = "save"
    /\ b2.acking \subseteq b.acking /\ b2.timer \subseteq b.timer
    /\ Range(b2.inFlight) \subseteq Range(b.inFlight) /\ IsInjective(b2.inFlight)
  BY DEF Ended
<1> DEFINE q == b.chain
           q2 == b2.chain
<1>0. BoxCore(b, d) BY DEF BoxInv
<1>1. q \in Seq(Operations) BY BoxFields
<1>2. PICK n \in Nat : n = Len(q) /\ DOMAIN q = 1..n BY <1>1
<1>3. 1 \in 1..n /\ q[1] \in Operations /\ c \in Commands
  <2>1. 1 \in DOMAIN q /\ q[1] \in Operations /\ q[1].c \in Commands BY BecameState
  <2> QED BY <1>2, <2>1
<1>4. DOMAIN q2 = 1..(n - 1) /\ \A i \in 1..(n - 1) : q2[i] = q[i + 1]
  BY <1>1, <1>2, <1>3
<1>5. OperationInv(q[1], b, d) BY <1>0, <1>2, <1>3 DEF BoxCore
<1>6. RecordInv(c, b.rec[c], d) /\ SavesInv(b, d) BY <1>0, <1>3 DEF BoxCore
<1> HIDE DEF q, q2
<1>7. q[1].kind = "save" \/ Known(c, d) BY <1>5 DEF OperationInv, q
<1>8. q[1].kind = "save" => b.rec[c] = "saving" BY <1>5 DEF OperationInv, q
<1>9. Known(c, d) => b.rec[c] # "saving" BY <1>6 DEF RecordInv, Known
<1>10. ~(c > issued)
  <2>1. c > issued => b.rec[c] = "none" /\ d[c] = "none" BY <1>0, <1>3 DEF BoxCore
  <2>2. receipts[c] # "none" => c <= issued BY <1>3 DEF Context
  <2>3. c \in Nat /\ issued \in Int
    <3>1. issued \in 0..MaxCommands BY DEF Context
    <3> QED BY <1>3, <3>1, CommandsAreNumbers
  <2>4. receipts[c] # "none" => ~(c > issued) BY <2>2, <2>3
  <2> QED BY <1>7, <1>8, <2>1, <2>4 DEF Known
<1>11. \A e \in Commands : Known(e, d) => Known(e, d2) BY DEF Known
<1>12. ASSUME NEW i \in 2..n, q[i].kind = "save" PROVE q[i].c # c /\ q[i].c \in Commands
  <2>0. i \in DOMAIN q /\ 1 \in DOMAIN q /\ 1 < i BY <1>2, <1>3
  <2>1. OperationInv(q[i], b, d) BY <1>0, <2>0 DEF BoxCore, q
  <2>2. b.rec[q[i].c] = "saving" BY <1>12, <2>1 DEF OperationInv
  <2>3. q[1].kind = "save" => q[1].c < q[i].c BY <1>6, <1>12, <2>0 DEF SavesInv, q
  <2>4. q[i] \in Operations BY <1>1, <2>0 DEF q
  <2>5. q[i].c \in Commands BY <2>4 DEF Operations
  <2>6. q[i].c \in Nat /\ c \in Nat BY <1>3, <2>5, CommandsAreNumbers
  <2>7. q[1].c = c BY DEF q
  <2>8. CASE q[1].kind = "save" BY <2>3, <2>5, <2>6, <2>7, <2>8
  <2>9. CASE q[1].kind # "save" BY <1>7, <1>9, <2>2, <2>5, <2>9
  <2> QED BY <2>8, <2>9
<1>13. ASSUME NEW i \in 1..(n - 1) PROVE OperationInv(q2[i], b2, d2)
  <2>0. i + 1 \in 2..n /\ i + 1 \in DOMAIN q BY <1>2
  <2>1. OperationInv(q[i + 1], b, d) BY <1>0, <2>0 DEF BoxCore, q
  <2>2. q2[i] = q[i + 1] BY <1>4
  <2>3. q[i + 1] \in Operations BY <1>1, <2>0 DEF q
  <2>4. q[i + 1].c \in Commands BY <2>3 DEF Operations
  <2>5. q[i + 1].kind = "save" => b2.rec[q[i + 1].c] = "saving"
    <3>1. q[i + 1].kind = "save" => q[i + 1].c # c BY <1>12, <2>0
    <3> QED BY <2>1, <2>4, <3>1 DEF OperationInv
  <2>6. q[i + 1].kind # "save" => Known(q[i + 1].c, d2) BY <1>11, <2>1, <2>4 DEF OperationInv
  <2> QED BY <2>1, <2>2, <2>5, <2>6 DEF OperationInv
<1>14. SavesInv(b2, d2)
  <2>1. ASSUME NEW i \in 1..(n - 1), NEW j \in 1..(n - 1), i < j,
               q2[i].kind = "save", q2[j].kind = "save"
        PROVE  q2[i].c < q2[j].c
    <3>1. i + 1 \in DOMAIN q /\ j + 1 \in DOMAIN q /\ i + 1 < j + 1 BY <1>2, <2>1
    <3>2. q2[i] = q[i + 1] /\ q2[j] = q[j + 1] BY <1>4
    <3> QED BY <1>6, <2>1, <3>1, <3>2 DEF SavesInv, q
  <2>2. ASSUME NEW e \in Commands, b2.rec[e] = "saving"
        PROVE  /\ \E i \in 1..(n - 1) : q2[i].kind = "save" /\ q2[i].c = e
               /\ \A x \in Commands : e < x => d2[x] = "none"
    <3>1. e # c /\ b.rec[e] = "saving" BY <2>2
    <3>2. PICK i \in 1..n : q[i].kind = "save" /\ q[i].c = e BY <1>2, <1>6, <3>1 DEF SavesInv, q
    <3>3. i # 1 BY <3>1, <3>2 DEF q
    <3>4. i - 1 \in 1..(n - 1) /\ (i - 1) + 1 = i BY <3>2, <3>3
    <3>5. q2[i - 1].kind = "save" /\ q2[i - 1].c = e BY <1>4, <3>2, <3>4
    <3>6. ASSUME NEW x \in Commands, e < x PROVE d2[x] = "none"
      <4>1. d[x] = "none" BY <1>6, <3>1, <3>6 DEF SavesInv
      <4>2. CASE x # c BY <4>1, <4>2
      <4>3. CASE x = c
        <5>1. 1 \in DOMAIN q /\ i \in DOMAIN q /\ 1 < i BY <1>2, <1>3, <3>3
        <5>2. q[1].kind = "save" => q[1].c < q[i].c BY <1>6, <3>2, <5>1 DEF SavesInv, q
        <5>3. q[1].c = c /\ q[i].c = e BY <3>2 DEF q
        <5>4. ~(c < e) BY <1>3, <3>6, <4>3, CommandsAreNumbers
        <5>5. q[1].kind # "save" BY <5>2, <5>3, <5>4
        <5> QED BY <4>1, <4>3, <5>5 DEF q
      <4> QED BY <4>2, <4>3
    <3> QED BY <3>4, <3>5, <3>6
  <2> QED BY <1>4, <2>1, <2>2 DEF SavesInv, q2
<1>15. ASSUME NEW e \in Commands
       PROVE  RecordInv(e, b2.rec[e], d2) /\ (e > issued => b2.rec[e] = "none" /\ d2[e] = "none")
  <2>1. RecordInv(e, b.rec[e], d) /\ (e > issued => b.rec[e] = "none" /\ d[e] = "none")
    BY <1>0 DEF BoxCore
  <2>2. CASE e = c BY <1>10, <2>2
  <2>3. CASE e # c BY <2>1, <2>3 DEF RecordInv
  <2> QED BY <2>2, <2>3
<1>16. BoxCore(b2, d2)
  <2>1. \A x \in Range(b2.inFlight) : Known(x, d2)
    <3>1. ASSUME NEW x \in Range(b2.inFlight) PROVE Known(x, d2)
      <4>1. x \in Commands BY BoxFields DEF Range
      <4>2. Known(x, d) BY <1>0 DEF BoxCore
      <4> QED BY <1>11, <4>1, <4>2
    <3> QED BY <3>1
  <2>2. (\A x \in b2.acking : Reported(x)) /\ b2.timer \subseteq refused BY <1>0 DEF BoxCore
  <2>3. \A i \in DOMAIN b2.chain : OperationInv(b2.chain[i], b2, d2) BY <1>4, <1>13 DEF q2
  <2> QED BY <1>14, <1>15, <2>1, <2>2, <2>3 DEF BoxCore
<1>17. Stays(b, d, b2, d2)
  <2>1. ASSUME NEW e \in Commands, Over(e, b, d) PROVE Over(e, b2, d2)
    <3>1. CASE e = c
      <4>1. ~Lost(c, b, d) BY <1>7, <1>8 DEF Lost, Known
      <4> QED BY <2>1, <3>1, <4>1 DEF Over
    <3>2. CASE e # c BY <2>1, <3>2 DEF Over, Lost
    <3> QED BY <3>1, <3>2
  <2> QED BY <1>11, <2>1 DEF Stays
<1> QED BY <1>16, <1>17
=============================================================================
