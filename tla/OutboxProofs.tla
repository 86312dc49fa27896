----------------------------- MODULE OutboxProofs -----------------------------
(***************************************************************************)
(* The outbox and the daemon keep OutboxInv, for any number of commands,   *)
(* paths, retries and disturbances and any window: commands are decided in *)
(* the order they were issued, none is given up while it may still be      *)
(* carried out, and the whole implements CommandOnce.                      *)
(***************************************************************************)
EXTENDS OutboxBoxProofs

-----------------------------------------------------------------------------
(* A step of the client. *)

\* What no step of the client's changes, except that an app that starts or ends is not here.
ClientSide ==
  /\ receipts' = receipts /\ refused' = refused /\ ran' = ran /\ issued' = issued
  /\ DOMAIN lane' = DOMAIN lane /\ \A i \in DOMAIN lane : lane'[i].c = lane[i].c
  /\ \A p \in Paths : Range(down'[p]) \subseteq Range(down[p])

\* What it has to keep of the outbox and of the messages on the paths.
PathsKept ==
  /\ FlightInv(box', disk', owed') /\ Stays(box, disk, box', disk')
  /\ active' # NoPath => ReachInv(box', up'[active'])
  /\ active' = NoPath => draining' = NoPath
  /\ draining' = NoPath => owed' = <<>>
  /\ app' = "down" => active' = NoPath /\ box'.chain = <<>> /\ box'.timer = {}
  /\ \A p \in Paths : UpInv(up'[p], box', disk')
  /\ \A c \in Commands : /\ disk'[c] = "failed" => GivenUp(c)
                         /\ disk'[c] = "delivered" => receipts[c] = "acked"
ClientKeeps == BoxInv(box', disk') /\ PathsKept

\* The invariant gives the lemmas on one outbox their premises.
LEMMA ContextHolds ==
  ASSUME OutboxInv
  PROVE  Context(disk) /\ box \in Boxes /\ BoxCore(box, disk) /\ BoxInv(box, disk)
BY DEF OutboxInv, Types, DaemonInv, Context, BoxInv

\* The daemon's lane holds commands.
LEMMA LanedCommands ==
  ASSUME OutboxInv
  PROVE  Laned \subseteq Commands
<1>1. lane \in Seq(Jobs) BY DEF OutboxInv, Types
<1>2. \A i \in DOMAIN lane : lane[i] \in Jobs BY <1>1
<1>3. \A i \in DOMAIN lane : lane[i].c \in Commands BY <1>2 DEF Jobs
<1> QED BY <1>3 DEF Laned

\* The invariants of the outbox do not change with what a client's step leaves alone.
LEMMA SameBox ==
  ASSUME receipts' = receipts, refused' = refused, issued' = issued,
         app' = "down" <=> app = "down", BoxInv(box', disk')
  PROVE  BoxInv(box, disk)'
<1>1. BoxCore(box', disk') BY DEF BoxInv
<1>2. \A c, s : RecordInv(c, s, disk') => RecordInv(c, s, disk)'
  BY DEF RecordInv, GivenUp
<1>3. ASSUME NEW c \in Commands
      PROVE  (RecordInv(c, box.rec[c], disk) /\ (c > issued => box.rec[c] = "none" /\ disk[c] = "none"))'
  <2>1. RecordInv(c, box'.rec[c], disk') /\ (c > issued => box'.rec[c] = "none" /\ disk'[c] = "none")
    BY <1>1 DEF BoxCore
  <2> QED BY <2>1 DEF RecordInv, GivenUp
<1>4. \A c \in Range(box'.inFlight) : Known(c, disk)' BY <1>1 DEF BoxCore, Known
<1>5. (\A c \in box'.acking : Reported(c)') /\ box'.timer \subseteq refused'
  BY <1>1 DEF BoxCore, Reported
<1>6. ASSUME NEW i \in DOMAIN box'.chain PROVE OperationInv(box.chain[i], box, disk)'
  <2>1. OperationInv(box'.chain[i], box', disk') BY <1>1 DEF BoxCore
  <2> QED BY <2>1 DEF OperationInv, Known, GivenUp
<1>7. SavesInv(box, disk)' BY <1>1 DEF BoxCore, SavesInv
<1>8. IsInjective(box'.inFlight) BY <1>1 DEF BoxCore
<1>9. BoxCore(box, disk)'
  BY <1>3, <1>4, <1>5, <1>6, <1>7, <1>8 DEF BoxCore
<1>10. box'.chain # <<>> /\ Head(box'.chain).kind # "save" =>
         RecordInv(Head(box.chain).c, Head(box.chain).was, disk)'
  BY <1>2 DEF BoxInv
<1> QED BY <1>9, <1>10 DEF BoxInv

\* An ending that rests on the daemon stands when the daemon does not move.
LEMMA SameOver ==
  ASSUME receipts' = receipts, refused' = refused, issued' = issued,
         NEW c, Over(c, box', disk')
  PROVE  Over(c, box, disk)'
BY DEF Over, Reported, Lost

\* Nor does the order of a sequence change then.
LEMMA SameInTurn ==
  ASSUME receipts' = receipts, refused' = refused, issued' = issued,
         NEW seq, InTurn(seq, box', disk')
  PROVE  InTurn(seq, box, disk)'
<1>1. SUFFICES ASSUME NEW j \in DOMAIN seq, NEW c \in Commands, c < seq[j]
      PROVE  Over(c, box, disk)' \/ \E i \in DOMAIN seq : i < j /\ seq[i] = c
  BY DEF InTurn
<1>2. Over(c, box', disk') \/ \E i \in DOMAIN seq : i < j /\ seq[i] = c BY <1>1 DEF InTurn
<1> QED BY <1>2, SameOver

\* Nor the order of a path.
LEMMA SameUp ==
  ASSUME receipts' = receipts, refused' = refused, issued' = issued, Laned' = Laned,
         NEW carried \in Seq(Asks), UpInv(carried, box', disk')
  PROVE  UpInv(carried, box, disk)'
<1>1. \A c, n : Reaches(c, carried, n)' <=> Reaches(c, carried, n) BY DEF Reaches
<1>2. \A c : Reported(c) => Reported(c)' BY DEF Reported
<1>3. \A c : Known(c, disk') => Known(c, disk)' BY DEF Known
<1>4. SUFFICES ASSUME NEW j \in DOMAIN carried
      PROVE  IF carried[j].kind = "status"
             THEN Reported(carried[j].c)' \/ Reaches(carried[j].c, carried, j - 1)'
             ELSE /\ Known(carried[j].c, disk)'
                  /\ \A e \in Commands : e < carried[j].c =>
                       Over(e, box, disk)' \/ Reaches(e, carried, j - 1)'
  BY DEF UpInv
<1>5. IF carried[j].kind = "status"
      THEN Reported(carried[j].c) \/ Reaches(carried[j].c, carried, j - 1)
      ELSE /\ Known(carried[j].c, disk')
           /\ \A e \in Commands :
                e < carried[j].c => Over(e, box', disk') \/ Reaches(e, carried, j - 1)
  BY DEF UpInv
<1>6. CASE carried[j].kind = "status" BY <1>1, <1>2, <1>5, <1>6
<1>7. CASE carried[j].kind # "status"
  <2>1. ASSUME NEW e \in Commands, e < carried[j].c
        PROVE  Over(e, box, disk)' \/ Reaches(e, carried, j - 1)'
    <3>1. Over(e, box', disk') \/ Reaches(e, carried, j - 1) BY <1>5, <1>7, <2>1
    <3> QED BY <1>1, <3>1, SameOver
  <2>2. Known(carried[j].c, disk)' BY <1>3, <1>5, <1>7
  <2> QED BY <1>7, <2>1, <2>2
<1> QED BY <1>6, <1>7

\* Nor the truth of an answer on its way.
LEMMA SameAnswer ==
  ASSUME receipts' = receipts, refused' = refused, Laned' = Laned, NEW m, AnswerInv(m)
  PROVE  AnswerInv(m)'
BY DEF AnswerInv, Reported

\* A step of the client keeps the invariant once its outbox and its paths do.
LEMMA PathsStep ==
  ASSUME OutboxInv, Types', ClientSide, BoxInv(box, disk)', PathsKept
  PROVE  OutboxInv'
<1>1. /\ receipts' = receipts /\ refused' = refused /\ ran' = ran /\ issued' = issued
      /\ DOMAIN lane' = DOMAIN lane /\ \A i \in DOMAIN lane : lane'[i].c = lane[i].c
      /\ \A p \in Paths : Range(down'[p]) \subseteq Range(down[p])
  BY DEF ClientSide
<1>2. Laned' = Laned BY <1>1 DEF Laned
<1>3. BoxInv(box, disk)' OBVIOUS
<1>4. \A c : Known(c, disk') => Known(c, disk)' BY <1>1 DEF Known
<1>5. \A c : Reported(c) => Reported(c)' BY <1>1 DEF Reported
<1>6. FlightInv(box, disk, owed)'
  <2>1. FlightInv(box', disk', owed') BY DEF PathsKept
  <2>2. InTurn(box.inFlight, box, disk)' BY <1>1, <2>1, SameInTurn DEF FlightInv
  <2>3. InTurn(owed, box, disk)' BY <1>1, <2>1, SameInTurn DEF FlightInv
  <2>4. \A c \in Range(owed') : Known(c, disk)' /\ (c \in Range(box'.inFlight) \/ Reported(c)')
    BY <1>4, <1>5, <2>1 DEF FlightInv
  <2>5. box'.fenced \subseteq Range(owed') BY <2>1 DEF FlightInv
  <2> QED BY <2>2, <2>3, <2>4, <2>5 DEF FlightInv
<1>7. (active # NoPath => ReachInv(box, up[active]))'
  <2>1. active' # NoPath => ReachInv(box', up'[active']) BY DEF PathsKept
  <2>2. \A c, x, n : Reaches(c, x, n) => Reaches(c, x, n)' BY <1>2 DEF Reaches
  <2> QED BY <1>5, <2>1, <2>2 DEF ReachInv
<1>8. ASSUME NEW p \in Paths
      PROVE  UpInv(up[p], box, disk)' /\ \A m \in Range(down'[p]) : AnswerInv(m)'
  <2>1. up'[p] \in Seq(Asks) BY DEF Types
  <2>2. UpInv(up'[p], box', disk') BY DEF PathsKept
  <2>3. UpInv(up[p], box, disk)' BY <1>1, <1>2, <2>1, <2>2, SameUp
  <2>4. \A m \in Range(down'[p]) : AnswerInv(m) BY <1>1 DEF OutboxInv
  <2> QED BY <1>1, <1>2, <2>3, <2>4, SameAnswer
<1>9. DaemonInv'
  <2> DEFINE cs == [i \in DOMAIN lane |-> lane[i].c]
  <2>1. DaemonInv /\ Stays(box, disk, box', disk') BY DEF OutboxInv, PathsKept
  <2>2. cs' = cs BY <1>1
  <2>3. InTurn(cs, box', disk') BY <2>1, InTurnStays DEF DaemonInv
  <2> HIDE DEF cs
  <2>4. InTurn(cs, box, disk)' BY <1>1, <2>2, <2>3, SameInTurn
  <2>5. ASSUME NEW c \in Commands
        PROVE  /\ receipts'[c] # "none" => Known(c, disk)' /\ c <= issued'
               /\ disk'[c] = "failed" => GivenUp(c)'
               /\ disk'[c] = "delivered" => receipts'[c] = "acked"
    <3>1. receipts[c] # "none" => Known(c, disk') /\ c <= issued BY <2>1 DEF DaemonInv, Stays
    <3>2. /\ disk'[c] = "failed" => GivenUp(c)
          /\ disk'[c] = "delivered" => receipts[c] = "acked"
      BY DEF PathsKept
    <3>3. GivenUp(c) => GivenUp(c)' BY <1>1 DEF GivenUp
    <3> QED BY <1>1, <1>4, <3>1, <3>2, <3>3
  <2>6. \A c \in Laned' : Known(c, disk)'
    <3>1. ASSUME NEW c \in Laned PROVE Known(c, disk)'
      <4>1. c \in Commands BY LanedCommands
      <4>2. Known(c, disk) BY <2>1 DEF DaemonInv
      <4> QED BY <1>4, <2>1, <4>1, <4>2 DEF Stays
    <3> QED BY <1>2, <3>1
  <2>7. ASSUME NEW j \in DOMAIN ran'
        PROVE  /\ receipts'[ran'[j]] # "none"
               /\ \A c \in Commands : c < ran'[j] => Over(c, box, disk)'
    <3>1. receipts[ran[j]] # "none" /\ \A c \in Commands : c < ran[j] => Over(c, box, disk)
      BY <1>1, <2>1, <2>7 DEF DaemonInv
    <3>2. \A c \in Commands : Over(c, box, disk) => Over(c, box, disk)'
      BY <1>1, <2>1, SameOver DEF Stays
    <3> QED BY <1>1, <3>1, <3>2
  <2> QED BY <2>4, <2>5, <2>6, <2>7 DEF DaemonInv, cs
<1>10. NoneOvertakes' BY <1>1 DEF OutboxInv, NoneOvertakes
<1>11. /\ active' = NoPath => draining' = NoPath
       /\ draining' = NoPath => owed' = <<>>
       /\ app' = "down" => active' = NoPath /\ box'.chain = <<>> /\ box'.timer = {}
  BY DEF PathsKept
<1> QED BY <1>3, <1>6, <1>7, <1>8, <1>9, <1>10, <1>11 DEF OutboxInv

\* A step of the client's that keeps what it has to keeps the invariant.
LEMMA ClientStep ==
  ASSUME OutboxInv, Types', ClientSide, app' = "down" <=> app = "down", ClientKeeps
  PROVE  OutboxInv'
<1>1. BoxInv(box, disk)' BY SameBox DEF ClientKeeps, ClientSide
<1> QED BY <1>1, PathsStep DEF ClientKeeps

-----------------------------------------------------------------------------
(* Paths are lost, replaced and drained. *)

\* Leaving paths forgets answers and senders; no job and no answer is added.
LEMMA LeaveFacts ==
  ASSUME Types, NEW ps, Leave(ps)
  PROVE  /\ lane' \in Seq(Jobs)
         /\ DOMAIN lane' = DOMAIN lane /\ \A i \in DOMAIN lane : lane'[i].c = lane[i].c
         /\ down' \in [Paths -> Seq(Answers)]
         /\ \A p \in Paths : Range(down'[p]) \subseteq Range(down[p])
<1>1. lane \in Seq(Jobs) /\ down \in [Paths -> Seq(Answers)] BY DEF Types
<1>2. PICK n \in Nat : DOMAIN lane = 1..n BY <1>1
<1>3. ASSUME NEW i \in 1..n
      PROVE  /\ lane'[i] = IF lane[i].p \in ps THEN [lane[i] EXCEPT !.p = NoPath] ELSE lane[i]
             /\ lane'[i] \in Jobs /\ lane'[i].c = lane[i].c
  <2>1. lane'[i] = IF lane[i].p \in ps THEN [lane[i] EXCEPT !.p = NoPath] ELSE lane[i]
    BY <1>2 DEF Leave
  <2>2. lane[i] \in Jobs BY <1>1, <1>2
  <2> QED BY <2>1, <2>2 DEF Jobs
<1>4. lane' \in [1..n -> Jobs]
  <2>1. DOMAIN lane' = 1..n /\ lane' = [i \in 1..n |-> lane'[i]] BY <1>2 DEF Leave
  <2> QED BY <1>3, <2>1
<1>5. lane' \in Seq(Jobs) BY <1>4, SeqDef
<1>6. down' = [p \in Paths |-> IF p \in ps THEN <<>> ELSE down[p]] BY DEF Leave
<1>7. ASSUME NEW p \in Paths
      PROVE  down'[p] \in Seq(Answers) /\ Range(down'[p]) \subseteq Range(down[p])
  <2>1. CASE p \in ps
    <3>1. down'[p] = <<>> BY <1>6, <2>1
    <3> QED BY <3>1, EmptySeq DEF Range
  <2>2. CASE p \notin ps BY <1>1, <1>6, <2>2
  <2> QED BY <2>1, <2>2
<1>8. down' \in [Paths -> Seq(Answers)]
  <2>1. DOMAIN down' = Paths /\ down' = [p \in Paths |-> down'[p]] BY <1>6
  <2> QED BY <1>7, <2>1
<1> QED BY <1>2, <1>3, <1>4, <1>5, <1>7, <1>8

\* A path in use is a path of a running app.
LEMMA OpenPaths ==
  ASSUME OutboxInv, active # NoPath
  PROVE  active \in Paths /\ app # "down" /\ up[active] \in Seq(Asks)
BY DEF OutboxInv, Types

\* What the disk says of a finished command is true of the daemon.
LEMMA DiskStands ==
  ASSUME OutboxInv, NEW c \in Commands
  PROVE  (disk[c] = "failed" => GivenUp(c)) /\ (disk[c] = "delivered" => receipts[c] = "acked")
BY DEF OutboxInv, DaemonInv

\* Disturbances are counted down.
LEMMA DisturbanceCounts ==
  ASSUME Types, Disturbance
  PROVE  left' \in 0..MaxEvents
BY BoundsAssumption DEF Types, Disturbance

\* A socket is lost.
LEMMA LoseKeeps ==
  ASSUME OutboxInv, Lose
  PROVE  OutboxInv'
<1>1. Context(disk) /\ box \in Boxes /\ BoxInv(box, disk) /\ BoxCore(box, disk) BY ContextHolds
<1>2. /\ box' \in Boxes /\ Stays(box, disk, box', disk) /\ BoxInv(box', disk)
      /\ FlightInv(box', disk, <<>>)
  BY <1>1, DisconnectKeeps DEF Lose
<1>3. Types BY DEF OutboxInv
<1>4. /\ lane' \in Seq(Jobs)
      /\ DOMAIN lane' = DOMAIN lane /\ \A i \in DOMAIN lane : lane'[i].c = lane[i].c
      /\ down' \in [Paths -> Seq(Answers)]
      /\ \A p \in Paths : Range(down'[p]) \subseteq Range(down[p])
  BY <1>3, LeaveFacts DEF Lose
<1>5. /\ disk' = disk /\ app' = app /\ up' = up /\ receipts' = receipts /\ ran' = ran
      /\ refused' = refused /\ issued' = issued
      /\ active' = NoPath /\ draining' = NoPath /\ owed' = <<>>
  BY DEF Lose
<1>6. left' \in 0..MaxEvents BY <1>3, DisturbanceCounts DEF Lose
<1>7. Types'
  <2>1. owed' \in Seq(Commands) BY <1>5, EmptySeq
  <2> QED BY <1>2, <1>3, <1>4, <1>5, <1>6, <2>1 DEF Types
<1>8. ClientSide BY <1>4, <1>5 DEF ClientSide
<1>9. active # NoPath => app # "down" BY OpenPaths
<1>10. \A p \in Paths : UpInv(up'[p], box', disk')
  <2>1. ASSUME NEW p \in Paths PROVE UpInv(up[p], box', disk)
    <3>1. up[p] \in Seq(Asks) /\ UpInv(up[p], box, disk) BY <1>3 DEF OutboxInv, Types
    <3> QED BY <1>2, <3>1, UpStays
  <2> QED BY <1>5, <2>1
<1>11. app' # "down" BY <1>5, <1>9 DEF Lose
<1>12. ClientKeeps
  BY <1>2, <1>5, <1>10, <1>11, DiskStands DEF ClientKeeps, PathsKept
<1> QED BY <1>5, <1>7, <1>8, <1>12, ClientStep

\* Sending nothing changes nothing.
LEMMA SentNone ==
  ASSUME NEW to \in Seq(Asks)
  PROVE  Sent(to, <<>>) = to
<1>1. [i \in DOMAIN <<>> |-> Command(<<>>[i])] = <<>> OBVIOUS
<1>2. to \o <<>> = to BY ConcatEmptySeq
<1> QED BY <1>1, <1>2 DEF Sent

\* The client changes its outbox to b and pumps it, on path p if it has one.
LEMMA SettleKeeps ==
  ASSUME OutboxInv, NEW b \in Boxes, BoxInv(b, disk), Stays(box, disk, b, disk),
         NEW old \in Seq(Commands), FlightInv(b, disk, old), app # "down",
         NEW p \in Paths \cup {NoPath}, NEW first, Settle(b, p, first),
         p # NoPath => /\ Sent(up[p], first) \in Seq(Asks)
                       /\ ReachInv(b, Sent(up[p], first))
                       /\ UpInv(Sent(up[p], first), b, disk)
  PROVE  /\ box' \in Boxes /\ BoxInv(box', disk) /\ Stays(box, disk, box', disk)
         /\ FlightInv(box', disk, old)
         /\ up' \in [Paths -> Seq(Asks)] /\ \A q \in Paths : UpInv(up'[q], box', disk)
         /\ p # NoPath => ReachInv(box', up'[p])
         /\ p = NoPath => box' = b /\ up' = up
<1>0. Context(disk) /\ BoxCore(b, disk) BY ContextHolds DEF BoxInv
<1>1. up \in [Paths -> Seq(Asks)] /\ \A q \in Paths : UpInv(up[q], box, disk)
  BY DEF OutboxInv, Types
<1>2. CASE p = NoPath
  <2>1. box' = b /\ up' = up BY <1>2 DEF Settle
  <2>2. ASSUME NEW q \in Paths PROVE UpInv(up[q], b, disk) BY <1>1, UpStays
  <2> QED BY <1>1, <1>2, <2>1, <2>2
<1>3. CASE p # NoPath
  <2> DEFINE carried == Sent(up[p], first)
             sent == Sent(carried, ToSend(b))
  <2>1. p \in Paths BY <1>3
  <2>2. carried \in Seq(Asks) /\ ReachInv(b, carried) /\ UpInv(carried, b, disk) BY <1>3
  <2>3. box' = Pumped(b) /\ up' = [up EXCEPT ![p] = sent] BY <1>3 DEF Settle
  <2> HIDE DEF carried
  <2>4. /\ FlightInv(Pumped(b), disk, old) /\ sent \in Seq(Asks)
        /\ ReachInv(Pumped(b), sent) /\ UpInv(sent, Pumped(b), disk)
    BY <1>0, <2>2, PumpKeepsTurn
  <2>5. BoxInv(Pumped(b), disk) /\ Stays(b, disk, Pumped(b), disk) BY <1>0, PumpKeepsBox
  <2>6. Pumped(b) \in Boxes BY PumpFields
  <2>7. Stays(box, disk, Pumped(b), disk) BY <2>5, StaysTransitive
  <2> HIDE DEF sent
  <2>8. up' \in [Paths -> Seq(Asks)] /\ up'[p] = sent /\ \A q \in Paths : q # p => up'[q] = up[q]
    BY <1>1, <2>1, <2>3, <2>4
  <2>9. ASSUME NEW q \in Paths PROVE UpInv(up'[q], Pumped(b), disk)
    <3>1. CASE q = p BY <2>4, <2>8, <3>1
    <3>2. CASE q # p
      <4>1. UpInv(up[q], Pumped(b), disk) BY <1>1, <2>7, UpStays
      <4> QED BY <2>8, <3>2, <4>1
    <3> QED BY <3>1, <3>2
  <2> QED BY <1>3, <2>3, <2>4, <2>5, <2>6, <2>7, <2>8, <2>9
<1> QED BY <1>2, <1>3

\* A new path is empty.
LEMMA FreePath ==
  ASSUME Types, Free # {}
  PROVE  Min(Free) \in Paths /\ Min(Free) # NoPath /\ up[Min(Free)] = <<>>
<1>1. MaxPaths \in Nat BY BoundsAssumption
<1>2. Free \subseteq Paths /\ Free \subseteq Nat /\ IsFiniteSet(Free)
  <2>1. Free \subseteq Paths BY DEF Free
  <2>2. IsFiniteSet(Paths) /\ Paths \subseteq Nat BY <1>1, FS_Interval DEF Paths
  <2> QED BY <2>1, <2>2, FS_Subset
<1>3. Cardinality(Free) \in Nat /\ Cardinality(Free) # 0
  BY <1>2, FS_CardinalityType, FS_EmptySet
<1>4. PICK n \in Free : Rank(Free, n) = 1 - 1
  <2>1. 1 \in 1..Cardinality(Free) BY <1>3
  <2> QED BY <1>2, <2>1, RankTaken
<1>5. {m \in Free : m < n} = {}
  <2>1. IsFiniteSet({m \in Free : m < n}) BY <1>2, FS_Subset
  <2>2. Cardinality({m \in Free : m < n}) = 0 BY <1>4 DEF Rank
  <2> QED BY <2>1, <2>2, FS_EmptySet
<1>6. \A y \in Free : n <= y BY <1>2, <1>5
<1>7. Min(Free) \in Free BY <1>4, <1>6 DEF Min
<1> QED BY <1>2, <1>7 DEF Free, Paths, NoPath

\* The client connects: the unfinished commands are sent, in order, as the window allows.
LEMMA ConnectKeeps ==
  ASSUME OutboxInv, Connect
  PROVE  OutboxInv'
<1> DEFINE b == disconnect(box)
           p == Min(Free)
<1>1. Context(disk) /\ box \in Boxes /\ BoxInv(box, disk) /\ BoxCore(box, disk) /\ Types
  BY ContextHolds DEF OutboxInv
<1>2. /\ b \in Boxes /\ Stays(box, disk, b, disk) /\ BoxInv(b, disk)
      /\ FlightInv(b, disk, <<>>) /\ \A carried : ReachInv(b, carried)
  BY <1>1, DisconnectKeeps
<1>3. p \in Paths /\ p # NoPath /\ up[p] = <<>> BY <1>1, FreePath DEF Connect
<1>4. /\ active = NoPath /\ active' = p /\ Settle(b, p, <<>>) /\ app = "up" /\ disk' = disk
      /\ app' = app /\ draining' = draining /\ owed' = owed /\ down' = down /\ issued' = issued
      /\ left' = left /\ lane' = lane /\ receipts' = receipts /\ ran' = ran /\ refused' = refused
  BY DEF Connect, daemon
<1>5. draining = NoPath /\ owed = <<>> BY <1>4 DEF OutboxInv
<1> HIDE DEF b, p
<1>6. UpInv(<<>>, b, disk) BY DEF UpInv
<1>7. <<>> \in Seq(Asks) /\ <<>> \in Seq(Commands) BY EmptySeq
<1>8. Sent(up[p], <<>>) = <<>> BY <1>3, <1>7, SentNone
<1>9. /\ box' \in Boxes /\ BoxInv(box', disk) /\ Stays(box, disk, box', disk)
      /\ FlightInv(box', disk, <<>>)
      /\ up' \in [Paths -> Seq(Asks)] /\ \A q \in Paths : UpInv(up'[q], box', disk)
      /\ ReachInv(box', up'[p])
  <2>1. app # "down" /\ p \in Paths \cup {NoPath} BY <1>3, <1>4
  <2>2. /\ Sent(up[p], <<>>) \in Seq(Asks) /\ ReachInv(b, Sent(up[p], <<>>))
        /\ UpInv(Sent(up[p], <<>>), b, disk)
    BY <1>2, <1>6, <1>7, <1>8
  <2> QED BY <1>2, <1>3, <1>4, <1>7, <2>1, <2>2, SettleKeeps
<1>10. Types' BY <1>1, <1>3, <1>4, <1>9 DEF Types
<1>11. ClientSide BY <1>4 DEF ClientSide
<1>12. ClientKeeps
  BY <1>3, <1>4, <1>5, <1>9, DiskStands DEF ClientKeeps, PathsKept
<1> QED BY <1>4, <1>10, <1>11, <1>12, ClientStep

\* The client moves to a better path and drains the old one.
LEMMA SwitchKeeps ==
  ASSUME OutboxInv, Switch
  PROVE  OutboxInv'
<1>1. Context(disk) /\ box \in Boxes /\ BoxInv(box, disk) /\ FlightInv(box, disk, owed) /\ Types
  BY ContextHolds DEF OutboxInv
<1>2. /\ active # NoPath /\ draining = NoPath /\ active' = Min(Free) /\ draining' = active
      /\ owed' = box.inFlight /\ box' = fence(box) /\ disk' = disk /\ app' = app /\ up' = up
      /\ down' = down /\ lane' = lane /\ receipts' = receipts /\ ran' = ran /\ refused' = refused
      /\ issued' = issued
  BY DEF Switch, net, daemon
<1>3. Min(Free) \in Paths /\ Min(Free) # NoPath BY <1>1, FreePath DEF Switch
<1>4. /\ box' \in Boxes /\ BoxInv(box', disk) /\ Stays(box, disk, box', disk)
      /\ FlightInv(box', disk, box.inFlight) /\ \A carried : ReachInv(box', carried)
  BY <1>1, <1>2, FenceKeeps
<1>5. left' \in 0..MaxEvents BY <1>1, DisturbanceCounts DEF Switch
<1>6. box.inFlight \in Seq(Commands) BY <1>1, BoxFields
<1>7. Types' BY <1>1, <1>2, <1>3, <1>4, <1>5, <1>6 DEF Types
<1>8. ClientSide BY <1>2 DEF ClientSide
<1>9. \A p \in Paths : UpInv(up'[p], box', disk')
  <2>1. ASSUME NEW p \in Paths PROVE UpInv(up[p], box', disk)
    <3>1. up[p] \in Seq(Asks) /\ UpInv(up[p], box, disk) BY <1>1 DEF OutboxInv, Types
    <3> QED BY <1>4, <3>1, UpStays
  <2> QED BY <1>2, <2>1
<1>10. app # "down" BY <1>2, OpenPaths
<1>11. ClientKeeps BY <1>2, <1>3, <1>4, <1>9, <1>10, DiskStands DEF ClientKeeps, PathsKept
<1> QED BY <1>2, <1>7, <1>8, <1>11, ClientStep

\* The drained path is closed, and the commands fenced for it are freed.
LEMMA FinishDrainKeeps ==
  ASSUME OutboxInv, FinishDrain
  PROVE  OutboxInv'
<1> DEFINE b == reask(box, owed)
           first == Asked(box, owed)
<1>1. Context(disk) /\ box \in Boxes /\ BoxInv(box, disk) /\ FlightInv(box, disk, owed) /\ Types
  BY ContextHolds DEF OutboxInv
<1>2. /\ draining # NoPath /\ Leave({draining}) /\ draining' = NoPath /\ owed' = <<>>
      /\ Settle(b, active, first) /\ disk' = disk /\ app' = app /\ active' = active
      /\ receipts' = receipts /\ ran' = ran /\ refused' = refused /\ issued' = issued
      /\ left' = left
  BY DEF FinishDrain
<1>3. active # NoPath BY <1>2 DEF OutboxInv
<1>4. active \in Paths /\ app # "down" /\ up[active] \in Seq(Asks) BY <1>3, OpenPaths
<1>5. ReachInv(box, up[active]) /\ UpInv(up[active], box, disk) BY <1>3, <1>4 DEF OutboxInv
<1>6. /\ b \in Boxes /\ BoxInv(b, disk) /\ Stays(box, disk, b, disk)
      /\ FlightInv(b, disk, <<>>) /\ Sent(up[active], first) \in Seq(Asks)
      /\ ReachInv(b, Sent(up[active], first)) /\ UpInv(Sent(up[active], first), b, disk)
  <2>1. owed \in Seq(Commands) BY <1>1 DEF Types
  <2> QED BY <1>1, <1>4, <1>5, <2>1, ReaskKeeps
<1> HIDE DEF b, first
<1>7. <<>> \in Seq(Commands) /\ active \in Paths \cup {NoPath} BY <1>4, EmptySeq
<1>8. /\ box' \in Boxes /\ BoxInv(box', disk) /\ Stays(box, disk, box', disk)
      /\ FlightInv(box', disk, <<>>)
      /\ up' \in [Paths -> Seq(Asks)] /\ \A q \in Paths : UpInv(up'[q], box', disk)
      /\ ReachInv(box', up'[active])
  BY <1>2, <1>3, <1>4, <1>6, <1>7, SettleKeeps
<1>9. /\ lane' \in Seq(Jobs)
      /\ DOMAIN lane' = DOMAIN lane /\ \A i \in DOMAIN lane : lane'[i].c = lane[i].c
      /\ down' \in [Paths -> Seq(Answers)]
      /\ \A p \in Paths : Range(down'[p]) \subseteq Range(down[p])
  BY <1>1, <1>2, LeaveFacts
<1>10. Types' BY <1>1, <1>2, <1>7, <1>8, <1>9 DEF Types
<1>11. ClientSide BY <1>2, <1>9 DEF ClientSide
<1>12. ClientKeeps BY <1>2, <1>3, <1>4, <1>8, DiskStands DEF ClientKeeps, PathsKept
<1> QED BY <1>2, <1>10, <1>11, <1>12, ClientStep

\* The active path dies while the other still drains.
LEMMA FailoverKeeps ==
  ASSUME OutboxInv, Failover
  PROVE  OutboxInv'
<1> DEFINE f == fence(box)
           b == reask(f, box.inFlight)
           first == Asked(f, box.inFlight)
           p == Min(Free)
<1>1. Context(disk) /\ box \in Boxes /\ BoxInv(box, disk) /\ FlightInv(box, disk, owed) /\ Types
  BY ContextHolds DEF OutboxInv
<1>2. /\ active # NoPath /\ draining = NoPath /\ active' = p /\ Leave({active})
      /\ Settle(b, p, first) /\ disk' = disk /\ app' = app /\ draining' = draining
      /\ owed' = owed /\ receipts' = receipts /\ ran' = ran /\ refused' = refused
      /\ issued' = issued
  BY DEF Failover
<1>3. p \in Paths /\ p # NoPath /\ up[p] = <<>> BY <1>1, FreePath DEF Failover
<1>4. app # "down" /\ owed = <<>> BY <1>2, OpenPaths DEF OutboxInv
<1>5. /\ f \in Boxes /\ BoxInv(f, disk) /\ Stays(box, disk, f, disk)
      /\ FlightInv(f, disk, box.inFlight) /\ \A carried : ReachInv(f, carried)
  BY <1>1, FenceKeeps
<1>6. box.inFlight \in Seq(Commands) /\ up[p] \in Seq(Asks) BY <1>1, <1>3, BoxFields DEF Types
<1>7. UpInv(up[p], f, disk) /\ ReachInv(f, up[p]) BY <1>3, <1>5 DEF UpInv
<1> HIDE DEF f, p
<1>8. /\ b \in Boxes /\ BoxInv(b, disk) /\ Stays(f, disk, b, disk)
      /\ FlightInv(b, disk, <<>>) /\ Sent(up[p], first) \in Seq(Asks)
      /\ ReachInv(b, Sent(up[p], first)) /\ UpInv(Sent(up[p], first), b, disk)
  BY <1>1, <1>4, <1>5, <1>6, <1>7, ReaskKeeps
<1> HIDE DEF b, first
<1>9. Stays(box, disk, b, disk) BY <1>5, <1>8, StaysTransitive
<1>10. <<>> \in Seq(Commands) /\ p \in Paths \cup {NoPath} BY <1>3, EmptySeq
<1>11. /\ box' \in Boxes /\ BoxInv(box', disk) /\ Stays(box, disk, box', disk)
       /\ FlightInv(box', disk, <<>>)
       /\ up' \in [Paths -> Seq(Asks)] /\ \A q \in Paths : UpInv(up'[q], box', disk)
       /\ ReachInv(box', up'[p])
  BY <1>2, <1>3, <1>4, <1>8, <1>9, <1>10, SettleKeeps
<1>12. /\ lane' \in Seq(Jobs)
       /\ DOMAIN lane' = DOMAIN lane /\ \A i \in DOMAIN lane : lane'[i].c = lane[i].c
       /\ down' \in [Paths -> Seq(Answers)]
       /\ \A q \in Paths : Range(down'[q]) \subseteq Range(down[q])
  BY <1>1, <1>2, LeaveFacts
<1>13. left' \in 0..MaxEvents BY <1>1, DisturbanceCounts DEF Failover
<1>14. Types' BY <1>1, <1>2, <1>3, <1>11, <1>12, <1>13 DEF Types
<1>15. ClientSide BY <1>2, <1>12 DEF ClientSide
<1>16. ClientKeeps BY <1>2, <1>3, <1>4, <1>11, DiskStands DEF ClientKeeps, PathsKept
<1> QED BY <1>2, <1>14, <1>15, <1>16, ClientStep

-----------------------------------------------------------------------------
(* Timers, the transcript and messages from the daemon. *)

\* The client asks after a command that waits too long.
LEMMA AskKeeps ==
  ASSUME OutboxInv, NEW c \in Commands, Ask(c)
  PROVE  OutboxInv'
<1> DEFINE x == [kind |-> "status", c |-> c]
           q == up[active]
           q2 == Append(q, x)
           b2 == [box EXCEPT !.armed = @ \ {c}]
<1>1. Context(disk) /\ box \in Boxes /\ BoxInv(box, disk) /\ FlightInv(box, disk, owed) /\ Types
  BY ContextHolds DEF OutboxInv
<1>2. /\ active # NoPath /\ c \in box.armed /\ box' = b2
      /\ up' = [up EXCEPT ![active] = q2]
      /\ disk' = disk /\ app' = app /\ active' = active /\ draining' = draining
      /\ owed' = owed /\ down' = down /\ issued' = issued /\ lane' = lane
      /\ receipts' = receipts /\ ran' = ran /\ refused' = refused
  BY DEF Ask, daemon
<1>3. active \in Paths /\ app # "down" /\ q \in Seq(Asks) BY <1>2, OpenPaths
<1>4. x \in Asks /\ x.kind = "status" /\ x.c = c BY DEF Asks
<1> HIDE DEF x, q
<1>5. PICK n \in Nat : n = Len(q) BY <1>3
<1>6. /\ q2 \in Seq(Asks) /\ DOMAIN q = 1..n /\ DOMAIN q2 = 1..(n + 1) /\ q2[n + 1] = x
      /\ Len(q2) = n + 1
  BY <1>3, <1>4, <1>5, AppendFacts
<1>7. \A i \in 1..n : q2[i] = q[i] BY <1>3, <1>4, <1>5, AppendFacts
<1> HIDE DEF q2
<1>8. b2 \in Boxes BY <1>1, BoxFields DEF Boxes
<1>9. /\ b2.rec = box.rec /\ b2.inFlight = box.inFlight /\ b2.fenced = box.fenced
      /\ b2.acking = box.acking /\ b2.timer = box.timer /\ b2.armed = box.armed \ {c}
      /\ b2.chain = box.chain
  BY <1>1 DEF Boxes
<1> HIDE DEF b2
<1>10. BoxInv(b2, disk) /\ Stays(box, disk, b2, disk)
  <2>1. BoxCore(box, disk) BY <1>1 DEF BoxInv
  <2>2. /\ \A e \in b2.acking : Reported(e)
        /\ b2.timer \subseteq refused /\ IsInjective(b2.inFlight)
        /\ \A e \in Range(b2.inFlight) : Known(e, disk)
    BY <1>9, <2>1 DEF BoxCore
  <2> QED BY <1>1, <1>8, <1>9, <2>1, <2>2, SameRecords
<1>11. FlightInv(b2, disk, owed)
  <2>1. owed \in Seq(Commands) BY <1>1 DEF Types
  <2> QED BY <1>1, <1>9, <1>10, <2>1, FlightSame
<1>12. \A e, k : Reaches(e, q, k) => Reaches(e, q2, k)
  <2>1. ASSUME NEW i \in 1..n PROVE i \in DOMAIN q2 /\ q2[i] = q[i] BY <1>6, <1>7
  <2> QED BY <1>6, <2>1 DEF Reaches
<1>13. \A e : Reaches(e, q, n) => Reaches(e, q2, n + 1)
  <2>1. ASSUME NEW i \in 1..n PROVE i \in DOMAIN q2 /\ q2[i] = q[i] /\ i <= n + 1 BY <1>6, <1>7
  <2> QED BY <1>6, <2>1 DEF Reaches
<1>14. ReachInv(box, q) BY <1>2 DEF OutboxInv, q
<1>15. ReachInv(b2, q2) BY <1>5, <1>6, <1>9, <1>13, <1>14 DEF ReachInv
<1>16. UpInv(q2, box, disk)
  <2>1. UpInv(q, box, disk) BY <1>3 DEF OutboxInv, q
  <2>2. SUFFICES ASSUME NEW j \in DOMAIN q2
        PROVE  IF q2[j].kind = "status" THEN Reported(q2[j].c) \/ Reaches(q2[j].c, q2, j - 1)
               ELSE /\ Known(q2[j].c, disk)
                    /\ \A e \in Commands :
                         e < q2[j].c => Over(e, box, disk) \/ Reaches(e, q2, j - 1)
    BY DEF UpInv
  <2>3. CASE j \in 1..n
    <3>1. j \in DOMAIN q /\ q2[j] = q[j] BY <1>6, <1>7, <2>3
    <3>2. IF q[j].kind = "status" THEN Reported(q[j].c) \/ Reaches(q[j].c, q, j - 1)
          ELSE /\ Known(q[j].c, disk)
               /\ \A e \in Commands : e < q[j].c => Over(e, box, disk) \/ Reaches(e, q, j - 1)
      BY <2>1, <3>1 DEF UpInv
    <3> QED BY <1>12, <3>1, <3>2
  <2>4. CASE j = n + 1
    <3>1. q2[j].kind = "status" /\ q2[j].c = c /\ j - 1 = n BY <1>4, <1>6, <2>4
    <3>2. Reported(c) \/ Reaches(c, q, n) BY <1>2, <1>5, <1>14 DEF ReachInv
    <3> QED BY <1>12, <3>1, <3>2
  <2> QED BY <1>6, <2>3, <2>4
<1>17. up' \in [Paths -> Seq(Asks)] /\ up'[active] = q2
       /\ \A p \in Paths : p # active => up'[p] = up[p]
  BY <1>1, <1>2, <1>3, <1>6 DEF Types
<1>18. ASSUME NEW p \in Paths PROVE UpInv(up'[p], box', disk')
  <2>1. up'[p] \in Seq(Asks) BY <1>17
  <2>2. UpInv(up'[p], box, disk)
    <3>1. CASE p = active BY <1>16, <1>17, <3>1
    <3>2. CASE p # active BY <1>17, <3>2 DEF OutboxInv
    <3> QED BY <3>1, <3>2
  <2>3. UpInv(up'[p], b2, disk) BY <1>10, <2>1, <2>2, UpStays
  <2> QED BY <1>2, <2>3
<1>19. left' \in 0..MaxEvents BY <1>1, DisturbanceCounts DEF Ask
<1>20. Types' BY <1>1, <1>2, <1>8, <1>17, <1>19 DEF Types
<1>21. ClientSide BY <1>2 DEF ClientSide
<1>22. (active = NoPath => draining = NoPath) /\ (draining = NoPath => owed = <<>>)
  BY DEF OutboxInv
<1>23. ClientKeeps
  BY <1>2, <1>3, <1>10, <1>11, <1>15, <1>17, <1>18, <1>22, DiskStands DEF ClientKeeps, PathsKept
<1> QED BY <1>2, <1>20, <1>21, <1>23, ClientStep

\* The client's outbox becomes b, and is pumped or not; the paths are the same.
LEMMA SettleStep ==
  ASSUME OutboxInv, app # "down", NEW b \in Boxes, BoxInv(b, disk), Stays(box, disk, b, disk),
         FlightInv(b, disk, owed), active # NoPath => ReachInv(b, up[active]),
         NEW p \in {active, NoPath}, Settle(b, p, <<>>),
         disk' = disk, app' = app, active' = active, draining' = draining, owed' = owed,
         left' = left, lane' = lane, down' \in [Paths -> Seq(Answers)], ClientSide
  PROVE  OutboxInv'
<1>1. Types BY DEF OutboxInv
<1>2. p \in Paths \cup {NoPath} /\ owed \in Seq(Commands) BY <1>1 DEF Types
<1>3. ASSUME p # NoPath
      PROVE  /\ Sent(up[p], <<>>) \in Seq(Asks) /\ ReachInv(b, Sent(up[p], <<>>))
             /\ UpInv(Sent(up[p], <<>>), b, disk)
  <2>1. active # NoPath /\ p = active BY <1>3
  <2>2. active \in Paths /\ up[active] \in Seq(Asks) BY <2>1, OpenPaths
  <2>3. UpInv(up[p], box, disk) BY <2>1, <2>2 DEF OutboxInv
  <2>4. UpInv(up[p], b, disk) BY <2>1, <2>2, <2>3, UpStays
  <2>5. Sent(up[p], <<>>) = up[p] BY <2>1, <2>2, SentNone
  <2> QED BY <2>1, <2>2, <2>4, <2>5
<1>4. /\ box' \in Boxes /\ BoxInv(box', disk) /\ Stays(box, disk, box', disk)
      /\ FlightInv(box', disk, owed)
      /\ up' \in [Paths -> Seq(Asks)] /\ \A q \in Paths : UpInv(up'[q], box', disk)
      /\ p # NoPath => ReachInv(box', up'[p])
      /\ p = NoPath => box' = b /\ up' = up
  BY <1>2, <1>3, SettleKeeps
<1>5. active # NoPath => ReachInv(box', up'[active]) BY <1>4
<1>6. Types' BY <1>1, <1>4 DEF Types, ClientSide
<1>7. (active = NoPath => draining = NoPath) /\ (draining = NoPath => owed = <<>>)
  BY DEF OutboxInv
<1>8. ClientKeeps BY <1>4, <1>5, <1>7, DiskStands DEF ClientKeeps, PathsKept
<1> QED BY <1>6, <1>8, ClientStep

\* A refused command is tried again after its delay.
LEMMA RetryKeeps ==
  ASSUME OutboxInv, NEW c \in Commands, Retry(c)
  PROVE  OutboxInv'
<1> DEFINE b == [box EXCEPT !.timer = @ \ {c}]
           p == IF Pending(box, c) THEN active ELSE NoPath
<1>1. Context(disk) /\ box \in Boxes /\ BoxInv(box, disk) /\ FlightInv(box, disk, owed) /\ Types
  BY ContextHolds DEF OutboxInv
<1>2. /\ c \in box.timer /\ Settle(b, p, <<>>)
      /\ disk' = disk /\ app' = app /\ active' = active /\ draining' = draining
      /\ owed' = owed /\ down' = down /\ issued' = issued /\ left' = left /\ lane' = lane
      /\ receipts' = receipts /\ ran' = ran /\ refused' = refused
  BY DEF Retry, daemon
<1>3. app # "down" BY <1>2 DEF OutboxInv
<1>4. p \in {active, NoPath} OBVIOUS
<1> HIDE DEF p
<1>5. b \in Boxes BY <1>1, BoxFields DEF Boxes
<1>6. /\ b.rec = box.rec /\ b.inFlight = box.inFlight /\ b.fenced = box.fenced
      /\ b.acking = box.acking /\ b.timer = box.timer \ {c} /\ b.armed = box.armed
      /\ b.chain = box.chain
  BY <1>1 DEF Boxes
<1> HIDE DEF b
<1>7. BoxInv(b, disk) /\ Stays(box, disk, b, disk)
  <2>1. BoxCore(box, disk) BY <1>1 DEF BoxInv
  <2>2. /\ \A e \in b.acking : Reported(e)
        /\ b.timer \subseteq refused /\ IsInjective(b.inFlight)
        /\ \A e \in Range(b.inFlight) : Known(e, disk)
    BY <1>6, <2>1 DEF BoxCore
  <2> QED BY <1>1, <1>5, <1>6, <2>1, <2>2, SameRecords
<1>8. owed \in Seq(Commands) BY <1>1 DEF Types
<1>9. Settles(box, disk, b, disk) BY <1>5, <1>6, <1>7 DEF Settles
<1>10. /\ FlightInv(b, disk, owed)
       /\ \A carried : ReachInv(box, carried) => ReachInv(b, carried)
  BY <1>1, <1>8, <1>9, SettlesKeeps
<1>11. active # NoPath => ReachInv(b, up[active]) BY <1>10 DEF OutboxInv
<1>12. ClientSide BY <1>2 DEF ClientSide
<1>13. down' \in [Paths -> Seq(Answers)] BY <1>1, <1>2 DEF Types
<1> QED BY <1>2, <1>3, <1>4, <1>5, <1>7, <1>10, <1>11, <1>12, <1>13, SettleStep

\* The client's outbox settles a record while nothing is sent.
LEMMA SettledStep ==
  ASSUME OutboxInv, app # "down", BoxInv(box', disk), Settles(box, disk, box', disk),
         disk' = disk, app' = app, active' = active, draining' = draining, owed' = owed,
         up' = up, ClientSide, Types'
  PROVE  OutboxInv'
<1>1. Context(disk) /\ box \in Boxes /\ FlightInv(box, disk, owed) /\ Types
  BY ContextHolds DEF OutboxInv
<1>2. owed \in Seq(Commands) /\ \A p \in Paths : up[p] \in Seq(Asks) BY <1>1 DEF Types
<1>3. /\ FlightInv(box', disk, owed)
      /\ \A carried : ReachInv(box, carried) => ReachInv(box', carried)
      /\ \A carried \in Seq(Asks) : UpInv(carried, box, disk) => UpInv(carried, box', disk)
  BY <1>1, <1>2, SettlesKeeps
<1>4. Stays(box, disk, box', disk) BY DEF Settles
<1>5. active # NoPath => ReachInv(box', up[active]) BY <1>3 DEF OutboxInv
<1>6. \A p \in Paths : UpInv(up[p], box', disk) BY <1>2, <1>3 DEF OutboxInv
<1>7. (active = NoPath => draining = NoPath) /\ (draining = NoPath => owed = <<>>)
  BY DEF OutboxInv
<1>8. ClientKeeps BY <1>3, <1>4, <1>5, <1>6, <1>7, DiskStands DEF ClientKeeps, PathsKept
<1> QED BY <1>8, ClientStep

\* The transcript shows a command before its receipt does.
LEMMA ObserveKeeps ==
  ASSUME OutboxInv, NEW c \in Commands, NEW kind \in {"seen", "taken"}, Observe(c, kind)
  PROVE  OutboxInv'
<1>1. Context(disk) /\ box \in Boxes /\ BoxInv(box, disk) /\ Types BY ContextHolds DEF OutboxInv
<1>2. /\ active # NoPath /\ receipts[c] = "acked" /\ box' = serialize(box, kind, c)
      /\ disk' = disk /\ app' = app /\ active' = active /\ draining' = draining
      /\ owed' = owed /\ up' = up /\ down' = down /\ issued' = issued /\ lane' = lane
      /\ receipts' = receipts /\ ran' = ran /\ refused' = refused
  BY DEF Observe, net, daemon
<1>3. app # "down" BY <1>2, OpenPaths
<1>4. Known(c, disk) BY <1>2 DEF Known
<1>5. Quiet(box, box', disk) BY <1>1, <1>2, <1>4, SerializeKeeps
<1>6. Settles(box, disk, box', disk) /\ BoxInv(box', disk) BY <1>5, QuietSettles
<1>7. left' \in 0..MaxEvents BY <1>1, DisturbanceCounts DEF Observe
<1>8. Types' BY <1>1, <1>2, <1>6, <1>7 DEF Types, Settles
<1>9. ClientSide BY <1>2 DEF ClientSide
<1> QED BY <1>2, <1>3, <1>6, <1>8, <1>9, SettledStep

\* The client reads an answer: the receipt, the refusal or the status.
LEMMA ReceiveKeeps ==
  ASSUME OutboxInv, NEW p \in Paths, Receive(p)
  PROVE  OutboxInv'
<1> DEFINE m == Head(down[p])
           c == m.c
           b == CASE m.kind = "result" -> acknowledge(box, m.c, m.value)
                  [] m.kind = "error" -> refuse(box, m.c, m.value = "retry")
                  [] m.kind = "status" /\ p = active /\ awaitingReceipt(box, m.c) ->
                       (CASE m.value = "unknown" -> acknowledge(box, m.c, "failed")
                          [] m.value = "running" -> [box EXCEPT !.armed = @ \cup {m.c}]
                          [] OTHER -> box)
                  [] OTHER -> box
           pumps == m.kind = "error" /\ Pending(box, m.c) /\ m.c \in b.timer
           to == IF pumps THEN active ELSE NoPath
           Fine(x) == /\ x \in Boxes /\ BoxInv(x, disk) /\ Stays(box, disk, x, disk)
                      /\ FlightInv(x, disk, owed)
                      /\ active # NoPath => ReachInv(x, up[active])
<1>1. Context(disk) /\ box \in Boxes /\ BoxInv(box, disk) /\ FlightInv(box, disk, owed) /\ Types
  BY ContextHolds DEF OutboxInv
<1>2. /\ p \in Open /\ down[p] # <<>> /\ down' = [down EXCEPT ![p] = Tail(@)]
      /\ Settle(b, to, <<>>)
      /\ disk' = disk /\ app' = app /\ active' = active /\ draining' = draining
      /\ owed' = owed /\ issued' = issued /\ left' = left /\ lane' = lane
      /\ receipts' = receipts /\ ran' = ran /\ refused' = refused
  BY DEF Receive, daemon
<1>3. app # "down" BY <1>2, OpenPaths DEF Open, OutboxInv
<1>4. down \in [Paths -> Seq(Answers)] /\ down[p] \in Seq(Answers) BY <1>1 DEF Types
<1>5. m \in Answers /\ m \in Range(down[p]) BY <1>2, <1>4 DEF Range
<1>6. c \in Commands /\ AnswerInv(m) /\ m.kind \in {"result", "error", "status"}
  <2>1. AnswerInv(m) BY <1>5 DEF OutboxInv
  <2> QED BY <1>5, <2>1 DEF Answers
<1>7. m.value \in Results \cup {"retry", "final", "running", "settled", "unknown"}
  BY <1>5 DEF Answers
<1> HIDE DEF m
<1>8. ASSUME NEW x, Settles(box, disk, x, disk), BoxInv(x, disk) PROVE Fine(x)
  <2>1. owed \in Seq(Commands) BY <1>1 DEF Types
  <2>2. x \in Boxes /\ Stays(box, disk, x, disk) BY <1>8 DEF Settles
  <2>3. /\ FlightInv(x, disk, owed)
        /\ \A carried : ReachInv(box, carried) => ReachInv(x, carried)
    BY <1>1, <1>8, <2>1, SettlesKeeps
  <2> QED BY <1>8, <2>2, <2>3 DEF OutboxInv
<1>9. ASSUME NEW result \in Results, Known(c, disk),
             result = "acked" => receipts[c] = "acked", result = "failed" => GivenUp(c)
      PROVE  Fine(acknowledge(box, c, result))
  <2>1. Quiet(box, acknowledge(box, c, result), disk) BY <1>1, <1>6, <1>9, AcknowledgeKeeps
  <2> QED BY <1>8, <2>1, QuietSettles
<1>10. Settles(box, disk, box, disk) BY <1>1 DEF Settles, Stays
<1>11. Fine(box) BY <1>1, <1>8, <1>10
<1> HIDE DEF Fine
<1>17. Fine(b)
  <2>1. CASE m.kind = "result"
    <3>1. receipts[c] = m.value BY <1>6, <2>1 DEF AnswerInv
    <3>2. m.value \in Results
      <4>1. receipts[c] \in Results \cup {"none"} BY <1>1, <1>6 DEF Context
      <4> QED BY <1>7, <3>1, <4>1 DEF Results
    <3>3. Known(c, disk) BY <1>1, <1>6, <3>1, <3>2 DEF Context, Results
    <3>4. Fine(acknowledge(box, c, m.value)) BY <1>9, <3>1, <3>2, <3>3 DEF GivenUp
    <3>5. b = acknowledge(box, c, m.value) BY <2>1
    <3> QED BY <3>4, <3>5
  <2>2. CASE m.kind = "error"
    <3>1. c \in refused BY <1>6, <2>2 DEF AnswerInv
    <3>2. (m.value = "retry") \in BOOLEAN OBVIOUS
    <3>3. /\ Settles(box, disk, refuse(box, c, m.value = "retry"), disk)
          /\ BoxInv(refuse(box, c, m.value = "retry"), disk)
      BY <1>1, <3>1, <3>2, RefuseKeeps
    <3>4. Fine(refuse(box, c, m.value = "retry")) BY <1>8, <3>3
    <3>5. b = refuse(box, c, m.value = "retry") BY <2>2
    <3> QED BY <3>4, <3>5
  <2>3. CASE m.kind = "status" /\ p = active /\ awaitingReceipt(box, c) /\ m.value = "unknown"
    <3>1. c \in refused BY <1>6, <2>3 DEF AnswerInv
    <3>2. RecordInv(c, box.rec[c], disk) BY <1>1, <1>6 DEF BoxInv, BoxCore
    <3>3. Known(c, disk) BY <2>3, <3>2 DEF awaitingReceipt, RecordInv, Known
    <3>4. Fine(acknowledge(box, c, "failed")) BY <1>9, <3>1, <3>3 DEF GivenUp, Results
    <3>5. b = acknowledge(box, c, "failed") BY <2>3
    <3> QED BY <3>4, <3>5
  <2>4. CASE m.kind = "status" /\ p = active /\ awaitingReceipt(box, c) /\ m.value = "running"
    <3> DEFINE x == [box EXCEPT !.armed = @ \cup {c}]
    <3>1. x \in Boxes BY <1>1, <1>6, BoxFields DEF Boxes
    <3>2. /\ x.rec = box.rec /\ x.inFlight = box.inFlight /\ x.fenced = box.fenced
          /\ x.acking = box.acking /\ x.timer = box.timer /\ x.armed = box.armed \cup {c}
          /\ x.chain = box.chain
      BY <1>1 DEF Boxes
    <3>3. b = x BY <2>4
    <3> HIDE DEF x
    <3>4. BoxInv(x, disk) /\ Stays(box, disk, x, disk)
      <4>1. BoxCore(box, disk) BY <1>1 DEF BoxInv
      <4>2. /\ \A e \in x.acking : Reported(e)
            /\ x.timer \subseteq refused /\ IsInjective(x.inFlight)
            /\ \A e \in Range(x.inFlight) : Known(e, disk)
        BY <3>2, <4>1 DEF BoxCore
      <4> QED BY <1>1, <3>1, <3>2, <4>1, <4>2, SameRecords
    <3>5. FlightInv(x, disk, owed)
      <4>1. owed \in Seq(Commands) BY <1>1 DEF Types
      <4> QED BY <1>1, <3>2, <3>4, <4>1, FlightSame
    <3>6. Reported(c) \/ c \in Laned BY <1>6, <2>4 DEF AnswerInv
    <3>7. active # NoPath => ReachInv(x, up[active])
      <4>1. active # NoPath => ReachInv(box, up[active]) BY DEF OutboxInv
      <4>2. c \in Laned => Reaches(c, up[active], Len(up[active])) BY DEF Reaches
      <4> QED BY <3>2, <3>6, <4>1, <4>2 DEF ReachInv
    <3> QED BY <3>1, <3>3, <3>4, <3>5, <3>7 DEF Fine
  <2>5. CASE m.kind = "status" /\ ~(p = active /\ awaitingReceipt(box, c) /\ m.value \in {"unknown", "running"})
    <3>1. b = box BY <2>5
    <3> QED BY <1>11, <3>1
  <2> QED BY <1>6, <2>1, <2>2, <2>3, <2>4, <2>5
<1>18. to \in {active, NoPath} OBVIOUS
<1> HIDE DEF b, to
<1>19. down' \in [Paths -> Seq(Answers)] /\ \A q \in Paths : Range(down'[q]) \subseteq Range(down[q])
  <2>1. Tail(down[p]) \in Seq(Answers) BY <1>2, <1>4
  <2>2. Range(Tail(down[p])) \subseteq Range(down[p])
    <3>1. PICK n \in Nat : n = Len(down[p]) /\ DOMAIN down[p] = 1..n BY <1>4
    <3>2. ASSUME NEW i \in DOMAIN Tail(down[p]) PROVE Tail(down[p])[i] \in Range(down[p])
      <4>1. i \in 1..(n - 1) /\ Tail(down[p])[i] = down[p][i + 1] BY <1>2, <1>4, <3>1, <3>2
      <4>2. i + 1 \in 1..n BY <4>1
      <4> QED BY <3>1, <4>1, <4>2 DEF Range
    <3> QED BY <3>2 DEF Range
  <2> QED BY <1>2, <1>4, <2>1, <2>2
<1>20. ClientSide BY <1>2, <1>19 DEF ClientSide
<1> QED BY <1>2, <1>3, <1>17, <1>18, <1>19, <1>20, SettleStep DEF Fine

-----------------------------------------------------------------------------
(* The end of a write to storage. *)

\* #pump does not look at the chain.
LEMMA PumpIgnoresChain ==
  ASSUME NEW b \in Boxes, NEW q \in Seq(Operations)
  PROVE  /\ [b EXCEPT !.chain = q] \in Boxes
         /\ ToSend([b EXCEPT !.chain = q]) = ToSend(b)
         /\ [Pumped(b) EXCEPT !.chain = q] = Pumped([b EXCEPT !.chain = q])
<1> DEFINE e == [b EXCEPT !.chain = q]
<1>1. e \in Boxes BY DEF Boxes
<1>2. /\ e.rec = b.rec /\ e.inFlight = b.inFlight /\ e.fenced = b.fenced /\ e.acking = b.acking
      /\ e.timer = b.timer /\ e.attempts = b.attempts /\ e.armed = b.armed /\ e.chain = q
  BY DEF Boxes
<1> HIDE DEF e
<1>3. \A c : awaitingReceipt(e, c) <=> awaitingReceipt(b, c) BY <1>2 DEF awaitingReceipt
<1>4. Ready(e) = Ready(b) BY <1>2 DEF Ready, Pending
<1>5. ToSend(e) = ToSend(b) BY <1>2, <1>3, <1>4 DEF ToSend
<1> DEFINE p == Pumped(b)
           x == [p EXCEPT !.chain = q]
           y == Pumped(e)
<1>6. /\ p \in Boxes /\ p.rec = b.rec /\ p.acking = b.acking /\ p.timer = b.timer
      /\ p.attempts = b.attempts /\ p.inFlight = b.inFlight \o ToSend(b)
      /\ p.fenced = {c \in b.fenced : awaitingReceipt(b, c)}
      /\ p.armed = b.armed \cup Range(ToSend(b))
  BY PumpFields
<1>7. /\ y \in Boxes /\ y.rec = e.rec /\ y.acking = e.acking /\ y.timer = e.timer
      /\ y.attempts = e.attempts /\ y.inFlight = e.inFlight \o ToSend(e)
      /\ y.fenced = {c \in e.fenced : awaitingReceipt(e, c)}
      /\ y.armed = e.armed \cup Range(ToSend(e)) /\ y.chain = e.chain
  BY <1>1, PumpFields
<1>8. y.fenced = p.fenced BY <1>2, <1>3, <1>6, <1>7
<1> HIDE DEF p, y
<1>9. x \in Boxes BY <1>6 DEF Boxes
<1>10. /\ x.rec = p.rec /\ x.inFlight = p.inFlight /\ x.fenced = p.fenced /\ x.acking = p.acking
       /\ x.timer = p.timer /\ x.attempts = p.attempts /\ x.armed = p.armed /\ x.chain = q
  BY <1>6 DEF Boxes
<1> HIDE DEF x
<1>11. x = y
  <2>1. y \in Boxes BY <1>7
  <2>2. /\ x.rec = y.rec /\ x.acking = y.acking /\ x.timer = y.timer
        /\ x.attempts = y.attempts /\ x.chain = y.chain /\ x.fenced = y.fenced
    BY <1>2, <1>6, <1>7, <1>8, <1>10
  <2>3. x.inFlight = y.inFlight /\ x.armed = y.armed BY <1>2, <1>5, <1>6, <1>7, <1>10
  <2> QED BY <1>9, <2>1, <2>2, <2>3, BoxEqual
<1> QED BY <1>1, <1>5, <1>11 DEF e, x, y, p

\* The first operation of b, of command c, is saved: its record is now `to`, the disk d2.
Written(b, d, c, to, d2) ==
  /\ b.chain # <<>> /\ c = b.chain[1].c
  /\ to = IF b.chain[1].kind = "save" THEN "pending" ELSE b.rec[c]
  /\ d2 = [d EXCEPT ![c] = Retained(to)]

\* The outbox b2 is b with that record, and without c in flight if the daemon answered it.
Released(b, b2, c, to) ==
  /\ b2.rec = [b.rec EXCEPT ![c] = to] /\ b2.chain = Tail(b.chain)
  /\ b2.fenced = b.fenced /\ b2.armed = b.armed
  /\ b2.acking \subseteq b.acking /\ b2.timer \subseteq b.timer
  /\ \/ b2.inFlight = b.inFlight
     \/ b.chain[1].kind \in {"acked", "failed", "taken"} /\ b2.inFlight = Without(b.inFlight, c)

\* What the end of a write leaves on disk is what the record says.
LEMMA SavedRecord ==
  ASSUME NEW b \in Boxes, NEW d, Context(d), BoxInv(b, d), app # "down",
         NEW c, NEW to, NEW d2, Written(b, d, c, to, d2)
  PROVE  /\ c \in Commands /\ to \in States /\ d2 \in Disks /\ Context(d2)
         /\ \A e \in Commands : e # c => d2[e] = d[e]
         /\ RecordInv(c, to, d2) /\ to # "saving" /\ (Known(c, d) => Known(c, d2))
         /\ d2[c] # "none" => d[c] # "none" \/ b.chain[1].kind = "save"
         /\ d2[c] = "failed" => GivenUp(c)
         /\ d2[c] = "delivered" => receipts[c] = "acked"
<1>0. /\ b.chain # <<>> /\ c = b.chain[1].c
      /\ to = IF b.chain[1].kind = "save" THEN "pending" ELSE b.rec[c]
      /\ d2 = [d EXCEPT ![c] = Retained(to)]
  BY DEF Written
<1> DEFINE op == b.chain[1]
<1>1. 1 \in DOMAIN b.chain /\ op \in Operations /\ c \in Commands BY <1>0, BecameState
<1>2. /\ OperationInv(op, b, d) /\ RecordInv(c, b.rec[c], d) /\ b.rec[c] \in States
      /\ d \in Disks /\ DOMAIN d = Commands
  <2>1. BoxCore(b, d) BY DEF BoxInv
  <2> QED BY <1>1, <2>1, BoxFields DEF BoxCore, Context, Disks
<1>3. op.kind = "save" => b.rec[c] = "saving" BY <1>0, <1>2 DEF OperationInv
<1>4. op.kind # "save" => Known(c, d) BY <1>0, <1>2 DEF OperationInv
<1> HIDE DEF op
<1>5. to = IF op.kind = "save" THEN "pending" ELSE b.rec[c] BY <1>0 DEF op
<1>6. Retained(to) \in {"none", "pending", "delivered", "failed"} BY DEF Retained
<1>7. /\ d2[c] = Retained(to) /\ d2 \in Disks
      /\ \A e \in Commands : e # c => d2[e] = d[e]
  BY <1>0, <1>1, <1>2, <1>6 DEF Disks
<1>8. to \in States BY <1>2, <1>5 DEF States
<1>9. CASE op.kind = "save"
  <2>1. to = "pending" /\ b.rec[c] = "saving" BY <1>3, <1>5, <1>9
  <2>2. d2[c] = "pending" BY <1>7, <2>1 DEF Retained
  <2>3. d[c] = "none" /\ receipts[c] = "none" BY <1>2, <2>1 DEF RecordInv
  <2>4. RecordInv(c, to, d2) /\ Known(c, d2) BY <2>1, <2>2 DEF RecordInv, Known
  <2>5. Context(d2) BY <1>7, <2>4 DEF Context, Known
  <2> QED BY <1>1, <1>7, <1>8, <1>9, <2>1, <2>2, <2>4, <2>5 DEF op
<1>10. CASE op.kind # "save"
  <2>1. to = b.rec[c] /\ Known(c, d) BY <1>4, <1>5, <1>10
  <2>2. RecordInv(c, to, d) BY <1>2, <2>1
  <2>3. to # "saving" BY <2>1, <2>2 DEF RecordInv, Known
  <2>4. to = "failed" => GivenUp(c) /\ d[c] # "none" BY <2>1, <2>2 DEF RecordInv, Known
  <2>5. to = "none" => receipts[c] = "acked" BY <2>1, <2>2 DEF RecordInv, Known
  <2>6. RecordInv(c, to, d2) /\ Known(c, d2)
    <3>1. to \in {"none", "pending", "delivered", "failed", "acked"}
      BY <1>8, <2>3 DEF States, Results
    <3>2. CASE to = "none" BY <1>7, <2>5, <3>2 DEF Retained, RecordInv, Known
    <3>3. CASE to = "pending" BY <1>7, <3>3 DEF Retained, RecordInv, Known
    <3>4. CASE to = "delivered" BY <1>7, <2>2, <3>4 DEF Retained, RecordInv, Known
    <3>5. CASE to = "failed" BY <1>7, <2>4, <3>5 DEF Retained, RecordInv, Known
    <3>6. CASE to = "acked" BY <1>7, <2>2, <3>6 DEF Retained, RecordInv, Known
    <3> QED BY <3>1, <3>2, <3>3, <3>4, <3>5, <3>6
  <2>7. d2[c] # "none" => d[c] # "none"
    BY <1>7, <2>2, <2>4 DEF Retained, RecordInv
  <2>8. d2[c] = "failed" => GivenUp(c) BY <1>7, <2>4 DEF Retained
  <2>9. d2[c] = "delivered" => receipts[c] = "acked" BY <1>7, <2>2 DEF Retained, RecordInv
  <2>10. Context(d2) BY <1>7, <2>6 DEF Context, Known
  <2> QED BY <1>1, <1>7, <1>8, <2>3, <2>6, <2>7, <2>8, <2>9, <2>10
<1> QED BY <1>9, <1>10

\* The outbox when the first operation's write took effect, before the next one starts.
LEMMA SavedSettles ==
  ASSUME NEW b \in Boxes, NEW d, Context(d), BoxInv(b, d), app # "down",
         NEW c, NEW to, NEW d2, Written(b, d, c, to, d2),
         NEW b2 \in Boxes, Released(b, b2, c, to)
  PROVE  BoxCore(b2, d2) /\ Settles(b, d, b2, d2) /\ Context(d2)
<1>1. /\ b2.rec = [b.rec EXCEPT ![c] = to] /\ b2.chain = Tail(b.chain)
      /\ b2.fenced = b.fenced /\ b2.armed = b.armed
      /\ b2.acking \subseteq b.acking /\ b2.timer \subseteq b.timer
      /\ \/ b2.inFlight = b.inFlight
         \/ b.chain[1].kind \in {"acked", "failed", "taken"} /\ b2.inFlight = Without(b.inFlight, c)
  BY DEF Released
<1>2. /\ c \in Commands /\ d2 \in Disks /\ Context(d2)
      /\ \A e \in Commands : e # c => d2[e] = d[e]
      /\ RecordInv(c, to, d2) /\ to # "saving" /\ (Known(c, d) => Known(c, d2))
      /\ d2[c] # "none" => d[c] # "none" \/ b.chain[1].kind = "save"
  BY SavedRecord
<1>3. b.chain # <<>> /\ c = b.chain[1].c BY DEF Written
<1>4. b2.rec[c] = to /\ \A e \in Commands : e # c => b2.rec[e] = b.rec[e]
  BY <1>2, <1>1, BoxFields
<1>5. b.inFlight \in Seq(Commands) /\ IsInjective(b.inFlight) BY BoxFields DEF BoxInv, BoxCore
<1>6. Range(b2.inFlight) \subseteq Range(b.inFlight) /\ IsInjective(b2.inFlight)
  BY <1>5, <1>1, WithoutFacts
<1>7. Ended(b, d, b2, d2, c) BY <1>3, <1>2, <1>4, <1>6, <1>1 DEF Ended
<1>8. BoxCore(b2, d2) /\ Stays(b, d, b2, d2) BY <1>2, <1>7, TailKeeps
<1>9. b.chain[1].kind \in {"acked", "failed", "taken"} => Reported(c)
  <2>1. 1 \in DOMAIN b.chain BY <1>3, BecameState
  <2>2. OperationInv(b.chain[1], b, d) BY <2>1 DEF BoxInv, BoxCore
  <2> QED BY <1>3, <2>2 DEF OperationInv, Reported, GivenUp
<1>10. Settles(b, d, b2, d2) BY <1>2, <1>8, <1>9, <1>1 DEF Settles
<1> QED BY <1>2, <1>8, <1>10

\* A storage operation ends, well or badly.
LEMMA SavedKeeps ==
  ASSUME OutboxInv, Saved
  PROVE  OutboxInv'
<1> DEFINE op == Head(box.chain)
           c == op.c
           to == IF op.kind = "save" THEN "pending" ELSE box.rec[c]
           b == [box EXCEPT !.rec[c] = to]
           done == CASE op.kind \in {"acked", "failed"} ->
                          releaseSlot([b EXCEPT !.acking = @ \ {c}], c)
                     [] op.kind = "taken" -> releaseSlot(b, c)
                     [] OTHER -> b
           pumps == active # NoPath /\ (op.kind = "seen" => c \in box.fenced)
           d2 == [disk EXCEPT ![c] = Retained(to)]
           q == Tail(box.chain)
           b2 == [done EXCEPT !.chain = q]
<1>1. Context(disk) /\ box \in Boxes /\ BoxInv(box, disk) /\ FlightInv(box, disk, owed) /\ Types
  BY ContextHolds DEF OutboxInv
<1>2. /\ box.chain # <<>> /\ disk' = d2
      /\ box' = Dequeued(IF pumps THEN Pumped(done) ELSE done)
      /\ up' = IF pumps THEN [up EXCEPT ![active] = Sent(@, ToSend(done))] ELSE up
      /\ app' = app /\ active' = active /\ draining' = draining /\ owed' = owed
      /\ down' = down /\ issued' = issued /\ left' = left /\ lane' = lane
      /\ receipts' = receipts /\ ran' = ran /\ refused' = refused
  BY DEF Saved, daemon
<1>3. app # "down" BY <1>2 DEF OutboxInv
<1>4. op = box.chain[1] /\ c \in Commands BY <1>1, <1>2, BecameState
<1>5. to \in States BY <1>1, <1>4, BoxFields DEF States
<1>6. q \in Seq(Operations) BY <1>1, <1>2, BoxFields, SMTT(30)
<1>7. /\ done \in Boxes /\ done.rec = [box.rec EXCEPT ![c] = to] /\ done.chain = box.chain
      /\ done.fenced = box.fenced /\ done.armed = box.armed
      /\ done.acking \subseteq box.acking /\ done.timer \subseteq box.timer
      /\ \/ done.inFlight = box.inFlight
         \/ op.kind \in {"acked", "failed", "taken"} /\ done.inFlight = Without(box.inFlight, c)
  <2> DEFINE r == [box.rec EXCEPT ![c] = to]
             w == Without(box.inFlight, c)
             a == [box.attempts EXCEPT ![c] = 0]
  <2>1. r \in [Commands -> States] BY <1>1, <1>4, <1>5, BoxFields
  <2>2. w \in Seq(Commands) BY <1>1, BoxFields, WithoutFacts
  <2>3. a \in [Commands -> 0..MaxRetries] BY <1>1, <1>4, BoxFields, BoundsAssumption
  <2>4. b = [box EXCEPT !.rec = r] OBVIOUS
  <2> HIDE DEF r, w, a, op, to
  <2>5. b \in Boxes /\ b.rec = r /\ b.chain = box.chain /\ b.fenced = box.fenced
        /\ b.armed = box.armed /\ b.acking = box.acking /\ b.timer = box.timer
        /\ b.inFlight = box.inFlight /\ b.attempts = box.attempts
    BY <1>1, <2>1, <2>4 DEF Boxes
  <2> HIDE DEF b
  <2> DEFINE x == [b EXCEPT !.acking = @ \ {c}, !.inFlight = w, !.timer = @ \ {c}, !.attempts = a]
             y == [b EXCEPT !.inFlight = w, !.timer = @ \ {c}, !.attempts = a]
  <2>6. releaseSlot([b EXCEPT !.acking = @ \ {c}], c) = x /\ releaseSlot(b, c) = y
    BY <2>5 DEF releaseSlot, w, a, Boxes
  <2>7. /\ x \in Boxes /\ x.rec = r /\ x.chain = box.chain /\ x.fenced = box.fenced
        /\ x.armed = box.armed /\ x.acking = box.acking \ {c} /\ x.timer = box.timer \ {c}
        /\ x.inFlight = w
    BY <2>2, <2>3, <2>5, BoxFields DEF Boxes
  <2>8. /\ y \in Boxes /\ y.rec = r /\ y.chain = box.chain /\ y.fenced = box.fenced
        /\ y.armed = box.armed /\ y.acking = box.acking /\ y.timer = box.timer \ {c}
        /\ y.inFlight = w
    BY <2>2, <2>3, <2>5, BoxFields DEF Boxes
  <2> HIDE DEF x, y, c
  <2>9. CASE op.kind \in {"acked", "failed"}
    <3>1. done = x BY <2>6, <2>9
    <3> HIDE DEF done
    <3> QED BY <2>7, <2>9, <3>1 DEF r, w
  <2>10. CASE op.kind = "taken"
    <3>1. done = y BY <2>6, <2>10
    <3> HIDE DEF done
    <3> QED BY <2>8, <2>10, <3>1 DEF r, w
  <2>11. CASE op.kind \notin {"acked", "failed", "taken"}
    <3>1. done = b BY <2>11
    <3> HIDE DEF done
    <3> QED BY <2>5, <2>11, <3>1 DEF r
  <2> QED BY <2>9, <2>10, <2>11
<1> HIDE DEF done
<1>8. /\ b2 \in Boxes /\ ToSend(b2) = ToSend(done)
      /\ [Pumped(done) EXCEPT !.chain = q] = Pumped(b2)
  BY <1>6, <1>7, PumpIgnoresChain
<1>9. /\ b2.rec = done.rec /\ b2.chain = q /\ b2.fenced = done.fenced /\ b2.armed = done.armed
      /\ b2.acking = done.acking /\ b2.timer = done.timer /\ b2.inFlight = done.inFlight
  BY <1>7 DEF Boxes
<1>10. Pumped(done).chain = box.chain BY <1>7, PumpFields
<1>11. box' = Begin(IF pumps THEN Pumped(b2) ELSE b2)
  BY <1>2, <1>7, <1>8, <1>10 DEF Dequeued
<1>12. up' = IF pumps THEN [up EXCEPT ![active] = Sent(@, ToSend(b2))] ELSE up
  BY <1>2, <1>8
<1> HIDE DEF b2, pumps
<1>13. BoxCore(b2, d2) /\ Settles(box, disk, b2, d2) /\ Context(d2)
  <2>1. \/ b2.inFlight = box.inFlight
        \/ box.chain[1].kind \in {"acked", "failed", "taken"} /\ b2.inFlight = Without(box.inFlight, c)
    BY <1>4, <1>7, <1>9
  <2>2. /\ b2.rec = [box.rec EXCEPT ![c] = to] /\ b2.chain = Tail(box.chain)
        /\ b2.fenced = box.fenced /\ b2.armed = box.armed
        /\ b2.acking \subseteq box.acking /\ b2.timer \subseteq box.timer
    BY <1>7, <1>9
  <2>3. c = box.chain[1].c /\ to = IF box.chain[1].kind = "save" THEN "pending" ELSE box.rec[c]
    BY <1>4
  <2>4. b2 \in Boxes BY <1>8
  <2> HIDE DEF op, c, to
  <2>5. Written(box, disk, c, to, d2) BY <1>2, <2>3 DEF Written
  <2> HIDE DEF d2
  <2>6. Released(box, b2, c, to) BY <2>1, <2>2 DEF Released
  <2> QED BY <1>1, <1>3, <2>4, <2>5, <2>6, SavedSettles
<1>14. /\ d2 \in Disks
       /\ \A e \in Commands : /\ d2[e] = "failed" => GivenUp(e)
                              /\ d2[e] = "delivered" => receipts[e] = "acked"
  <2>1. /\ d2 \in Disks /\ \A e \in Commands : e # c => d2[e] = disk[e]
        /\ d2[c] = "failed" => GivenUp(c)
        /\ d2[c] = "delivered" => receipts[c] = "acked"
    <3>1. c = box.chain[1].c /\ to = IF box.chain[1].kind = "save" THEN "pending" ELSE box.rec[c]
      BY <1>4
    <3> HIDE DEF op, c, to
    <3>2. Written(box, disk, c, to, d2) BY <1>2, <3>1 DEF Written
    <3> HIDE DEF d2
    <3> QED BY <1>1, <1>3, <3>2, SavedRecord
  <2> HIDE DEF d2, c
  <2> QED BY <2>1, DiskStands
<1> HIDE DEF d2, op, c, to, q
<1>15. up \in [Paths -> Seq(Asks)] /\ owed \in Seq(Commands) BY <1>1 DEF Types
<1>16. /\ FlightInv(b2, d2, owed)
       /\ \A carried : ReachInv(box, carried) => ReachInv(b2, carried)
       /\ \A carried \in Seq(Asks) : UpInv(carried, box, disk) => UpInv(carried, b2, d2)
  BY <1>1, <1>13, <1>15, SettlesKeeps
<1>17. /\ active # NoPath => ReachInv(b2, up[active])
       /\ \A p \in Paths : UpInv(up[p], b2, d2)
  BY <1>15, <1>16 DEF OutboxInv
<1> DEFINE x == IF pumps THEN Pumped(b2) ELSE b2
<1>18. /\ x \in Boxes /\ BoxCore(x, d2) /\ Stays(box, disk, x, d2)
       /\ FlightInv(x, d2, owed) /\ up' \in [Paths -> Seq(Asks)]
       /\ active # NoPath => ReachInv(x, up'[active])
       /\ \A p \in Paths : UpInv(up'[p], x, d2)
  <2>0. Stays(box, disk, b2, d2) /\ b2 \in Boxes BY <1>13 DEF Settles
  <2>1. CASE ~pumps
    <3>1. x = b2 /\ up' = up BY <1>12, <2>1
    <3> HIDE DEF x
    <3> QED BY <1>13, <1>15, <1>16, <1>17, <2>0, <3>1
  <2>2. CASE pumps
    <3> DEFINE sent == Sent(up[active], ToSend(b2))
    <3>1. x = Pumped(b2) /\ up' = [up EXCEPT ![active] = sent] /\ active # NoPath
      BY <1>12, <2>2 DEF pumps
    <3>2. active \in Paths /\ up[active] \in Seq(Asks) BY <3>1, OpenPaths
    <3>3. ReachInv(b2, up[active]) /\ UpInv(up[active], b2, d2) BY <1>17, <3>1, <3>2
    <3>4. /\ FlightInv(Pumped(b2), d2, owed) /\ sent \in Seq(Asks)
          /\ ReachInv(Pumped(b2), sent) /\ UpInv(sent, Pumped(b2), d2)
      BY <1>3, <1>13, <1>15, <1>16, <2>0, <3>2, <3>3, PumpKeepsTurn
    <3>5. BoxCore(Pumped(b2), d2) /\ Stays(b2, d2, Pumped(b2), d2) BY <1>13, <2>0, PumpKeepsBox
    <3>6. Pumped(b2) \in Boxes BY <2>0, PumpFields
    <3>7. Stays(box, disk, Pumped(b2), d2) BY <2>0, <3>5, StaysTransitive
    <3> HIDE DEF sent, x
    <3>8. up' \in [Paths -> Seq(Asks)] /\ up'[active] = sent
          /\ \A p \in Paths : p # active => up'[p] = up[p]
      BY <1>15, <3>1, <3>2, <3>4
    <3>9. ASSUME NEW p \in Paths PROVE UpInv(up'[p], Pumped(b2), d2)
      <4>1. CASE p = active BY <3>4, <3>8, <4>1
      <4>2. CASE p # active
        <5>1. up[p] \in Seq(Asks) /\ UpInv(up[p], b2, d2) BY <1>15, <1>17
        <5>2. UpInv(up[p], Pumped(b2), d2) BY <3>5, <5>1, UpStays
        <5> QED BY <3>8, <4>2, <5>2
      <4> QED BY <4>1, <4>2
    <3> QED BY <3>1, <3>4, <3>5, <3>6, <3>7, <3>8, <3>9
  <2> QED BY <2>1, <2>2
<1> HIDE DEF x
<1>19. box' = Begin(x) BY <1>11 DEF x
<1>20. Quiet(x, box', d2) BY <1>13, <1>18, <1>19, BeginKeeps
<1>21. Settles(x, d2, box', d2) /\ BoxInv(box', d2) BY <1>20, QuietSettles
<1>22. /\ FlightInv(box', d2, owed)
       /\ \A carried : ReachInv(x, carried) => ReachInv(box', carried)
       /\ \A carried \in Seq(Asks) : UpInv(carried, x, d2) => UpInv(carried, box', d2)
  BY <1>15, <1>18, <1>21, SettlesKeeps
<1>23. box' \in Boxes /\ Stays(box, disk, box', d2)
  <2>1. box' \in Boxes /\ Stays(x, d2, box', d2) BY <1>21 DEF Settles
  <2> QED BY <1>18, <2>1, StaysTransitive
<1>24. Types' BY <1>1, <1>2, <1>14, <1>18, <1>23 DEF Types
<1>25. ClientSide BY <1>2 DEF ClientSide
<1>26. (active = NoPath => draining = NoPath) /\ (draining = NoPath => owed = <<>>)
  BY DEF OutboxInv
<1>27. active' # NoPath => ReachInv(box', up'[active']) BY <1>2, <1>18, <1>22
<1>28. \A p \in Paths : UpInv(up'[p], box', disk') BY <1>2, <1>18, <1>22
<1>29. ClientKeeps
  BY <1>2, <1>3, <1>14, <1>21, <1>22, <1>23, <1>26, <1>27, <1>28 DEF ClientKeeps, PathsKept
<1> QED BY <1>2, <1>24, <1>25, <1>29, ClientStep

\* A write that fails: the command fails here, or its record is what it was.
LEMMA SaveFailsKeeps ==
  ASSUME OutboxInv, SaveFails
  PROVE  OutboxInv'
<1> DEFINE op == Head(box.chain)
           c == op.c
           to == IF op.kind = "save" THEN "failed" ELSE op.was
           r == [box.rec EXCEPT ![c] = to]
           a == IF op.kind \in {"acked", "failed"} THEN box.acking \ {c} ELSE box.acking
           q == Tail(box.chain)
           b == [box EXCEPT !.rec[c] = to,
                            !.acking = IF op.kind \in {"acked", "failed"} THEN @ \ {c} ELSE @]
           b2 == [box EXCEPT !.rec = r, !.acking = a, !.chain = q]
<1>1. Context(disk) /\ box \in Boxes /\ BoxInv(box, disk) /\ FlightInv(box, disk, owed) /\ Types
  BY ContextHolds DEF OutboxInv
<1>2. /\ box.chain # <<>> /\ disk' = disk /\ up' = up /\ receipts' = receipts /\ ran' = ran
      /\ refused' = refused /\ issued' = issued
      /\ IF op.kind = "save"
         THEN /\ box' = Dequeued(b)
              /\ app' = app /\ active' = active /\ draining' = draining /\ owed' = owed
              /\ down' = down /\ lane' = lane
         ELSE /\ box' = disconnect(Dequeued(b))
              /\ app' = "fatal" /\ active' = NoPath /\ draining' = NoPath /\ owed' = <<>>
              /\ Leave(Open)
  BY DEF SaveFails
<1>3. app # "down" BY <1>2 DEF OutboxInv
<1>4. op = box.chain[1] /\ 1 \in DOMAIN box.chain /\ c \in Commands /\ op \in Operations
  BY <1>1, <1>2, BecameState
<1>5. /\ OperationInv(op, box, disk) /\ RecordInv(c, box.rec[c], disk)
      /\ op.kind # "save" => RecordInv(c, op.was, disk)
  <2>1. BoxCore(box, disk) BY <1>1 DEF BoxInv
  <2> QED BY <1>1, <1>2, <1>4, <2>1 DEF BoxInv, BoxCore
<1>6. RecordInv(c, to, disk) /\ to # "saving" /\ to \in States
  <2>1. CASE op.kind = "save"
    <3>1. box.rec[c] = "saving" BY <1>5, <2>1 DEF OperationInv
    <3>2. disk[c] = "none" /\ receipts[c] = "none" BY <1>5, <3>1 DEF RecordInv
    <3> QED BY <2>1, <3>2 DEF RecordInv, States, Results
  <2>2. CASE op.kind # "save"
    <3>1. Known(c, disk) /\ RecordInv(c, op.was, disk) BY <1>5, <2>2 DEF OperationInv
    <3>2. op.was # "saving" BY <3>1 DEF RecordInv, Known
    <3>3. op.was \in States BY <1>4 DEF Operations
    <3> QED BY <2>2, <3>1, <3>2, <3>3
  <2> QED BY <2>1, <2>2
<1>7. q \in Seq(Operations) BY <1>1, <1>2, BoxFields
<1>8. r \in [Commands -> States] /\ r[c] = to /\ \A e \in Commands : e # c => r[e] = box.rec[e]
  BY <1>1, <1>4, <1>6, BoxFields
<1>9. a \subseteq box.acking OBVIOUS
<1>10. Dequeued(b) = Begin(b2)
  <2>1. b.chain = box.chain BY <1>1 DEF Boxes
  <2>2. [b EXCEPT !.chain = Tail(@)] = b2 BY <1>1 DEF Boxes
  <2> QED BY <2>2 DEF Dequeued
<1> HIDE DEF to, r, a, q, b, op
<1>11. b2 \in Boxes BY <1>1, <1>7, <1>8, <1>9, BoxFields DEF Boxes
<1>12. /\ b2.rec = r /\ b2.inFlight = box.inFlight /\ b2.fenced = box.fenced /\ b2.acking = a
       /\ b2.timer = box.timer /\ b2.armed = box.armed /\ b2.chain = q
  BY <1>1 DEF Boxes
<1> HIDE DEF b2
<1>13. Ended(box, disk, b2, disk, c)
  <2>1. IsInjective(box.inFlight) BY <1>1 DEF BoxInv, BoxCore
  <2> QED BY <1>2, <1>4, <1>6, <1>8, <1>9, <1>12, <2>1 DEF Ended, q
<1>14. disk \in Disks BY <1>1 DEF Types
<1>15. BoxCore(b2, disk) /\ Stays(box, disk, b2, disk) BY <1>1, <1>11, <1>13, <1>14, TailKeeps
<1>16. Quiet(b2, Begin(b2), disk) BY <1>1, <1>11, <1>15, BeginKeeps
<1>17. Quiet(box, Begin(b2), disk) BY <1>12, <1>15, <1>16, QuietTransitive
<1>18. left' \in 0..MaxEvents BY <1>1, DisturbanceCounts DEF SaveFails
<1>19. CASE op.kind = "save"
  <2>1. Quiet(box, box', disk) BY <1>2, <1>10, <1>17, <1>19
  <2>2. Settles(box, disk, box', disk) /\ BoxInv(box', disk) BY <2>1, QuietSettles
  <2>3. Types' BY <1>1, <1>2, <1>18, <1>19, <2>1 DEF Types, Quiet
  <2>4. ClientSide BY <1>2, <1>19 DEF ClientSide
  <2> QED BY <1>2, <1>3, <1>19, <2>2, <2>3, <2>4, SettledStep
<1>20. CASE op.kind # "save"
  <2> DEFINE x == Begin(b2)
  <2>0. /\ box' = disconnect(x) /\ app' = "fatal" /\ active' = NoPath /\ draining' = NoPath
        /\ owed' = <<>> /\ Leave(Open)
    BY <1>2, <1>10, <1>20
  <2> HIDE DEF x
  <2>1. x \in Boxes /\ BoxInv(x, disk) /\ Stays(box, disk, x, disk) BY <1>17 DEF Quiet, x
  <2>2. BoxCore(x, disk) BY <2>1 DEF BoxInv
  <2>3. /\ box' \in Boxes /\ Stays(x, disk, box', disk) /\ BoxInv(box', disk)
        /\ FlightInv(box', disk, <<>>)
    BY <2>0, <2>1, <2>2, DisconnectKeeps
  <2>4. Stays(box, disk, box', disk) BY <2>1, <2>3, StaysTransitive
  <2>5. /\ lane' \in Seq(Jobs)
        /\ DOMAIN lane' = DOMAIN lane /\ \A i \in DOMAIN lane : lane'[i].c = lane[i].c
        /\ down' \in [Paths -> Seq(Answers)]
        /\ \A p \in Paths : Range(down'[p]) \subseteq Range(down[p])
    BY <1>1, <2>0, LeaveFacts
  <2>6. Types'
    <3>1. owed' \in Seq(Commands) BY <2>0, EmptySeq
    <3> QED BY <1>1, <1>2, <1>18, <2>0, <2>3, <2>5, <3>1 DEF Types
  <2>7. ClientSide BY <1>2, <2>5 DEF ClientSide
  <2>8. \A p \in Paths : UpInv(up'[p], box', disk')
    <3>1. ASSUME NEW p \in Paths PROVE UpInv(up[p], box', disk)
      <4>1. up[p] \in Seq(Asks) /\ UpInv(up[p], box, disk) BY <1>1 DEF OutboxInv, Types
      <4> QED BY <2>4, <4>1, UpStays
    <3> QED BY <1>2, <3>1
  <2>9. ClientKeeps
    BY <1>2, <2>0, <2>3, <2>4, <2>8, DiskStands DEF ClientKeeps, PathsKept
  <2> QED BY <1>3, <2>0, <2>6, <2>7, <2>9, ClientStep
<1> QED BY <1>19, <1>20

-----------------------------------------------------------------------------
(* The app ends and starts. *)

\* The outbox of an app that starts with no records.
LEMMA EmptyFields ==
  /\ EmptyBox \in Boxes /\ EmptyBox.rec = [c \in Commands |-> "none"]
  /\ EmptyBox.inFlight = <<>> /\ EmptyBox.fenced = {} /\ EmptyBox.acking = {}
  /\ EmptyBox.timer = {} /\ EmptyBox.armed = {} /\ EmptyBox.chain = <<>>
<1> DEFINE z == [c \in Commands |-> 0]
           n == [c \in Commands |-> "none"]
<1>1. z \in [Commands -> 0..MaxRetries] BY BoundsAssumption
<1>2. n \in [Commands -> States] BY DEF States
<1>3. <<>> \in Seq(Commands) /\ <<>> \in Seq(Operations) BY EmptySeq
<1>4. EmptyBox = [rec |-> n, inFlight |-> <<>>, fenced |-> {}, acking |-> {}, timer |-> {},
                  attempts |-> z, armed |-> {}, chain |-> <<>>]
  BY DEF EmptyBox
<1> HIDE DEF z, n
<1> QED BY <1>1, <1>2, <1>3, <1>4 DEF Boxes, n

\* The invariant holds of an outbox with nothing but records when it does of these.
LEMMA EmptyKept ==
  ASSUME Types', box'.inFlight = <<>>, box'.fenced = {}, box'.acking = {}, box'.timer = {},
         box'.chain = <<>>,
         \A c \in Commands : /\ RecordInv(c, box.rec[c], disk)' /\ box'.rec[c] # "saving"
                             /\ c > issued' => box'.rec[c] = "none" /\ disk'[c] = "none"
  PROVE  BoxInv(box, disk)'
<1>1. Range(box'.inFlight) = {} /\ IsInjective(box'.inFlight) BY DEF Range, IsInjective
<1>2. SavesInv(box, disk)' BY DEF SavesInv
<1>3. BoxCore(box, disk)' BY <1>1, <1>2 DEF BoxCore
<1> QED BY <1>3 DEF BoxInv

\* The app dies with everything in memory.
LEMMA CrashKeeps ==
  ASSUME OutboxInv, Crash
  PROVE  OutboxInv'
<1>1. Context(disk) /\ BoxCore(box, disk) /\ Types BY ContextHolds DEF OutboxInv
<1>2. /\ app' = "down" /\ active' = NoPath /\ draining' = NoPath /\ owed' = <<>>
      /\ box' = EmptyBox /\ Leave(Open) /\ disk' = disk /\ up' = up /\ receipts' = receipts
      /\ ran' = ran /\ refused' = refused /\ issued' = issued
  BY DEF Crash
<1>5. /\ box' \in Boxes /\ box'.rec = [c \in Commands |-> "none"] /\ box'.inFlight = <<>> /\ box'.fenced = {}
      /\ box'.acking = {} /\ box'.timer = {} /\ box'.armed = {} /\ box'.chain = <<>>
  BY <1>2, EmptyFields
<1>6. \A c \in Commands : box'.rec[c] = "none" BY <1>5
<1>7. /\ lane' \in Seq(Jobs)
      /\ DOMAIN lane' = DOMAIN lane /\ \A i \in DOMAIN lane : lane'[i].c = lane[i].c
      /\ down' \in [Paths -> Seq(Answers)]
      /\ \A p \in Paths : Range(down'[p]) \subseteq Range(down[p])
  BY <1>1, <1>2, LeaveFacts
<1>8. left' \in 0..MaxEvents BY <1>1, DisturbanceCounts DEF Crash
<1>9. Types'
  <2>1. owed' \in Seq(Commands) BY <1>2, EmptySeq
  <2> QED BY <1>1, <1>2, <1>5, <1>7, <1>8, <2>1 DEF Types
<1>10. ClientSide BY <1>2, <1>7 DEF ClientSide
<1>11. BoxInv(box, disk)'
  <2>1. ASSUME NEW c \in Commands
        PROVE  /\ RecordInv(c, box.rec[c], disk)' /\ box'.rec[c] # "saving"
               /\ c > issued' => box'.rec[c] = "none" /\ disk'[c] = "none"
    <3>1. c > issued => disk[c] = "none" BY <1>1 DEF BoxCore
    <3> QED BY <1>2, <1>6, <3>1 DEF RecordInv
  <2> QED BY <1>5, <1>9, <2>1, EmptyKept
<1>12. Stays(box, disk, box', disk) BY <1>6 DEF Stays, Over, Lost
<1>13. FlightInv(box', disk, <<>>) BY <1>5 DEF FlightInv, InTurn, Range
<1>14. \A p \in Paths : UpInv(up'[p], box', disk')
  <2>1. ASSUME NEW p \in Paths PROVE UpInv(up[p], box', disk)
    <3>1. up[p] \in Seq(Asks) /\ UpInv(up[p], box, disk) BY <1>1 DEF OutboxInv, Types
    <3> QED BY <1>12, <3>1, UpStays
  <2> QED BY <1>2, <2>1
<1>15. PathsKept BY <1>2, <1>5, <1>12, <1>13, <1>14, DiskStands DEF PathsKept
<1> QED BY <1>9, <1>10, <1>11, <1>15, PathsStep

\* The app starts from what it saved.
LEMMA initializeKeeps ==
  ASSUME OutboxInv, initialize
  PROVE  OutboxInv'
<1>1. Context(disk) /\ BoxCore(box, disk) /\ Types BY ContextHolds DEF OutboxInv
<1>2. /\ app = "down" /\ app' = "up" /\ box' = [EmptyBox EXCEPT !.rec = disk]
      /\ disk' = disk /\ active' = active /\ draining' = draining /\ owed' = owed /\ up' = up
      /\ down' = down /\ lane' = lane /\ receipts' = receipts /\ ran' = ran
      /\ refused' = refused /\ issued' = issued /\ left' = left
  BY DEF initialize, net, daemon
<1>3. active = NoPath /\ draining = NoPath /\ owed = <<>> BY <1>2 DEF OutboxInv
<1>4. disk \in [Commands -> States] BY <1>1 DEF Types, Disks, States, Results
<1>5. /\ box' \in Boxes /\ box'.rec = disk /\ box'.inFlight = <<>> /\ box'.fenced = {}
      /\ box'.acking = {} /\ box'.timer = {} /\ box'.armed = {} /\ box'.chain = <<>>
  <2>1. [EmptyBox EXCEPT !.rec = disk] \in Boxes BY <1>4, EmptyFields DEF Boxes
  <2> QED BY <1>2, <2>1, EmptyFields DEF Boxes
<1>6. Types' BY <1>1, <1>2, <1>5 DEF Types
<1>7. ClientSide BY <1>2 DEF ClientSide
<1>8. BoxInv(box, disk)'
  <2>1. ASSUME NEW c \in Commands
        PROVE  /\ RecordInv(c, box.rec[c], disk)' /\ box'.rec[c] # "saving"
               /\ c > issued' => box'.rec[c] = "none" /\ disk'[c] = "none"
    <3>1. c > issued => disk[c] = "none" BY <1>1 DEF BoxCore
    <3>2. (disk[c] = "failed" => GivenUp(c)) /\ (disk[c] = "delivered" => receipts[c] = "acked")
      BY DiskStands
    <3>3. disk[c] \in {"none", "pending", "delivered", "failed"} BY <1>1 DEF Types, Disks
    <3> QED BY <1>2, <1>5, <3>1, <3>2, <3>3 DEF RecordInv, GivenUp
  <2> QED BY <1>5, <1>6, <2>1, EmptyKept
<1>9. Stays(box, disk, box', disk) BY <1>5 DEF Stays, Over, Lost
<1>10. FlightInv(box', disk, <<>>) BY <1>5 DEF FlightInv, InTurn, Range
<1>11. \A p \in Paths : UpInv(up'[p], box', disk')
  <2>1. ASSUME NEW p \in Paths PROVE UpInv(up[p], box', disk)
    <3>1. up[p] \in Seq(Asks) /\ UpInv(up[p], box, disk) BY <1>1 DEF OutboxInv, Types
    <3> QED BY <1>9, <3>1, UpStays
  <2> QED BY <1>2, <2>1
<1>12. PathsKept BY <1>2, <1>3, <1>9, <1>10, <1>11, DiskStands DEF PathsKept
<1> QED BY <1>6, <1>7, <1>8, <1>12, PathsStep

-----------------------------------------------------------------------------
(* Steps that leave what is in flight alone. *)

\* What the daemon knew, answered or accepted, it still did; and the client's paths are the same.
Onward ==
  /\ \A c \in Commands : /\ Over(c, box, disk) => Over(c, box, disk)'
                         /\ Known(c, disk) => Known(c, disk)'
                         /\ Reported(c) => Reported(c)'
  /\ \A c \in Laned : Reported(c)' \/ c \in Laned'
  /\ box'.inFlight = box.inFlight /\ box'.fenced = box.fenced /\ box'.armed = box.armed
  /\ active' = active /\ draining' = draining /\ owed' = owed

\* A sequence in its turn stays so.
LEMMA OnwardInTurn ==
  ASSUME Onward, NEW seq, InTurn(seq, box, disk)
  PROVE  InTurn(seq, box, disk)'
<1>1. \A c \in Commands : Over(c, box, disk) => Over(c, box, disk)' BY DEF Onward
<1>2. SUFFICES ASSUME NEW j \in DOMAIN seq, NEW c \in Commands, c < seq[j]
      PROVE  Over(c, box, disk)' \/ \E i \in DOMAIN seq : i < j /\ seq[i] = c
  BY DEF InTurn
<1>3. Over(c, box, disk) \/ \E i \in DOMAIN seq : i < j /\ seq[i] = c BY <1>2 DEF InTurn
<1> QED BY <1>1, <1>3

\* So does what is in flight and owed.
LEMMA OnwardFlight ==
  ASSUME OutboxInv, Onward
  PROVE  FlightInv(box, disk, owed)'
<1>1. /\ \A c \in Commands : (Known(c, disk) => Known(c, disk)') /\ (Reported(c) => Reported(c)')
      /\ box'.inFlight = box.inFlight /\ box'.fenced = box.fenced /\ owed' = owed
  BY DEF Onward
<1>2. FlightInv(box, disk, owed) /\ owed \in Seq(Commands) BY DEF OutboxInv, Types
<1>3. InTurn(box.inFlight, box, disk)' BY <1>1, <1>2, OnwardInTurn DEF FlightInv
<1>4. InTurn(owed, box, disk)' BY <1>1, <1>2, OnwardInTurn DEF FlightInv
<1>5. ASSUME NEW c \in Range(owed')
      PROVE  Known(c, disk)' /\ (c \in Range(box'.inFlight) \/ Reported(c)')
  <2>1. c \in Range(owed) /\ c \in Commands BY <1>1, <1>2, <1>5 DEF Range
  <2>2. Known(c, disk) /\ (c \in Range(box.inFlight) \/ Reported(c)) BY <1>2, <2>1 DEF FlightInv
  <2> QED BY <1>1, <2>1, <2>2
<1>6. box'.fenced \subseteq Range(owed') BY <1>1, <1>2 DEF FlightInv
<1> QED BY <1>3, <1>4, <1>5, <1>6 DEF FlightInv

\* The daemon may have read the first message of path p, and accepted or refused a command.
Moved(p) ==
  \/ up'[p] = up[p]
  \/ /\ up[p] # <<>> /\ up'[p] = Tail(up[p])
     /\ \A c \in Commands : up[p][1] = Command(c) => Reported(c)' \/ c \in Laned'

\* A command that was on its way to the daemon still is, or was answered.
LEMMA MovedReaches ==
  ASSUME OutboxInv, Onward, NEW p \in Paths, Moved(p), NEW k \in {0, 1},
         k = 0 => up'[p] = up[p], k = 1 => up[p] # <<>> /\ up'[p] = Tail(up[p]),
         NEW c \in Commands, NEW n \in Int, Reaches(c, up[p], n)
  PROVE  Reported(c)' \/ Reaches(c, up[p], n - k)'
<1>1. up[p] \in Seq(Asks) BY DEF OutboxInv, Types
<1>2. c \in Laned => Reported(c)' \/ Reaches(c, up[p], n - k)' BY DEF Onward, Reaches
<1>3. CASE c \notin Laned
  <2>1. PICK i \in DOMAIN up[p] : i <= n /\ up[p][i] = Command(c) BY <1>3 DEF Reaches
  <2>2. CASE k = 0
    <3>1. n - k = n BY <2>2
    <3> QED BY <2>1, <2>2, <3>1 DEF Reaches
  <2>3. CASE k = 1
    <3>0. up[p] # <<>> /\ up'[p] = Tail(up[p]) BY <2>3
    <3>1. PICK l \in Nat : l = Len(up[p]) /\ DOMAIN up[p] = 1..l BY <1>1
    <3>2. CASE i = 1
      <4>1. up[p][1] = Command(c) BY <2>1, <3>2
      <4>2. up'[p] # up[p]
        <5>1. DOMAIN Tail(up[p]) = 1..(l - 1) BY <1>1, <3>0, <3>1
        <5>2. l \in 1..l /\ l \notin 1..(l - 1) BY <2>1, <3>1
        <5> QED BY <3>0, <3>1, <5>1, <5>2
      <4>3. Reported(c)' \/ c \in Laned' BY <4>1, <4>2 DEF Moved
      <4> QED BY <4>3 DEF Reaches
    <3>3. CASE i # 1
      <4>1. i - 1 \in 1..(l - 1) /\ i - 1 <= n - k /\ (i - 1) + 1 = i BY <2>1, <2>3, <3>1, <3>3
      <4>2. DOMAIN Tail(up[p]) = 1..(l - 1) BY <1>1, <3>0, <3>1
      <4>3. Tail(up[p])[i - 1] = up[p][i] BY <1>1, <3>0, <3>1, <4>1
      <4> QED BY <2>1, <3>0, <4>1, <4>2, <4>3 DEF Reaches
    <3> QED BY <3>2, <3>3
  <2> QED BY <2>2, <2>3
<1> QED BY <1>2, <1>3

\* The messages on the path stay in their turn.
LEMMA MovedUp ==
  ASSUME OutboxInv, Onward, NEW p \in Paths, Moved(p)
  PROVE  /\ UpInv(up[p], box, disk)'
         /\ p = active => ReachInv(box, up[p])'
<1>0. up[p] \in Seq(Asks) /\ UpInv(up[p], box, disk) BY DEF OutboxInv, Types
<1>1. PICK k \in {0, 1} : /\ k = 0 => up'[p] = up[p]
                          /\ k = 1 => up[p] # <<>> /\ up'[p] = Tail(up[p])
  BY DEF Moved
<1>2. PICK l \in Nat : l = Len(up[p]) /\ DOMAIN up[p] = 1..l BY <1>0
<1>3. /\ up'[p] \in Seq(Asks) /\ DOMAIN up'[p] = 1..(l - k) /\ Len(up'[p]) = l - k
      /\ \A j \in 1..(l - k) : j + k \in DOMAIN up[p] /\ up'[p][j] = up[p][j + k]
  <2>1. CASE k = 0 BY <1>0, <1>1, <1>2, <2>1
  <2>2. CASE k = 1
    <3>1. up[p] # <<>> /\ up'[p] = Tail(up[p]) BY <1>1, <2>2
    <3>2. /\ Tail(up[p]) \in Seq(Asks) /\ DOMAIN Tail(up[p]) = 1..(l - 1)
          /\ Len(Tail(up[p])) = l - 1
      BY <1>0, <1>2, <3>1
    <3>3. \A j \in 1..(l - 1) : Tail(up[p])[j] = up[p][j + 1] BY <1>0, <1>2, <3>1
    <3>4. \A j \in 1..(l - 1) : j + 1 \in DOMAIN up[p] BY <1>2
    <3> QED BY <2>2, <3>1, <3>2, <3>3, <3>4
  <2> QED BY <2>1, <2>2
<1>4. \A c \in Commands : \A n \in Int :
        Reaches(c, up[p], n) => Reported(c)' \/ Reaches(c, up[p], n - k)'
  BY <1>1, MovedReaches
<1>5. \A c \in Commands : /\ Over(c, box, disk) => Over(c, box, disk)'
                          /\ Known(c, disk) => Known(c, disk)'
                          /\ Reported(c) => Reported(c)'
                          /\ Reported(c)' => Over(c, box, disk)'
  BY DEF Onward, Over
<1>6. UpInv(up[p], box, disk)'
  <2>1. SUFFICES ASSUME NEW j \in DOMAIN up'[p]
        PROVE  IF up'[p][j].kind = "status"
               THEN Reported(up[p][j].c)' \/ Reaches(up[p][j].c, up[p], j - 1)'
               ELSE /\ Known(up[p][j].c, disk)'
                    /\ \A e \in Commands :
                         e < up'[p][j].c => Over(e, box, disk)' \/ Reaches(e, up[p], j - 1)'
    BY DEF UpInv
  <2>2. /\ j \in Int /\ j + k \in DOMAIN up[p] /\ up'[p][j] = up[p][j + k]
        /\ ((j + k) - 1) - k = j - 1 /\ (j + k) - 1 \in Int
    BY <1>3, <2>1, SMTT(30)
  <2>3. up[p][j + k] \in Asks BY <1>0, <2>2
  <2>4. PICK c \in Commands : c = up[p][j + k].c BY <2>3 DEF Asks
  <2>5. IF up[p][j + k].kind = "status" THEN Reported(c) \/ Reaches(c, up[p], (j + k) - 1)
        ELSE /\ Known(c, disk)
             /\ \A e \in Commands : e < c => Over(e, box, disk) \/ Reaches(e, up[p], (j + k) - 1)
    BY <1>0, <2>2, <2>4 DEF UpInv
  <2>6. \A e \in Commands : Reaches(e, up[p], (j + k) - 1) => Reported(e)' \/ Reaches(e, up[p], j - 1)'
    BY <1>4, <2>2
  <2>7. CASE up[p][j + k].kind = "status" BY <1>5, <2>2, <2>4, <2>5, <2>6, <2>7
  <2>8. CASE up[p][j + k].kind # "status" BY <1>5, <2>2, <2>4, <2>5, <2>6, <2>8
  <2> QED BY <2>7, <2>8
<1>7. ASSUME p = active PROVE ReachInv(box, up[p])'
  <2>1. ReachInv(box, up[p]) /\ box \in Boxes BY <1>7 DEF OutboxInv, Types, Paths, NoPath
  <2>2. SUFFICES ASSUME NEW c \in box'.armed \cup (Range(box'.inFlight) \ box'.fenced)
        PROVE  Reported(c)' \/ Reaches(c, up[p], l - k)'
    BY <1>3 DEF ReachInv
  <2>3. c \in box.armed \cup (Range(box.inFlight) \ box.fenced) BY <2>2 DEF Onward
  <2>4. c \in Commands BY <2>1, <2>3, BoxFields DEF Range
  <2>5. Reported(c) \/ Reaches(c, up[p], l) BY <1>2, <2>1, <2>3 DEF ReachInv
  <2> QED BY <1>2, <1>4, <1>5, <2>4, <2>5
<1> QED BY <1>6, <1>7

\* What such a step has to keep of the daemon, the messages and the outbox.
OnwardKeeps ==
  /\ BoxInv(box, disk)' /\ app' = app /\ box'.timer \in {box.timer, {}}
  /\ app' = "down" => box'.chain = <<>>
  /\ \A p \in Paths : /\ Moved(p) \/ (up'[p] = <<>> /\ p # active)
                      /\ \A m \in Range(down'[p]) : AnswerInv(m)'
  /\ DaemonInv' /\ NoneOvertakes'

\* A step that leaves what is in flight alone keeps the invariant.
LEMMA OnwardStep ==
  ASSUME OutboxInv, Types', Onward, OnwardKeeps
  PROVE  OutboxInv'
<1>1. BoxInv(box, disk)' /\ DaemonInv' /\ NoneOvertakes' BY DEF OnwardKeeps
<1>2. FlightInv(box, disk, owed)' BY OnwardFlight
<1>3. active' = active /\ draining' = draining /\ owed' = owed BY DEF Onward
<1>4. (active # NoPath => ReachInv(box, up[active]))'
  <2>1. ASSUME active # NoPath PROVE ReachInv(box, up[active])'
    <3>1. active \in Paths BY <2>1 DEF OutboxInv, Types
    <3>2. PICK p \in Paths : p = active BY <3>1
    <3>3. ReachInv(box, up[p])' BY <3>2, MovedUp DEF OnwardKeeps
    <3> QED BY <1>3, <3>2, <3>3
  <2> QED BY <1>3, <2>1
<1>5. /\ active' = NoPath => draining' = NoPath
      /\ draining' = NoPath => owed' = <<>>
      /\ app' = "down" => active' = NoPath /\ box'.chain = <<>> /\ box'.timer = {}
  BY <1>3 DEF OutboxInv, OnwardKeeps
<1>6. ASSUME NEW p \in Paths PROVE UpInv(up[p], box, disk)'
  <2>1. CASE Moved(p) BY <2>1, MovedUp
  <2>2. CASE up'[p] = <<>> BY <2>2 DEF UpInv
  <2> QED BY <2>1, <2>2 DEF OnwardKeeps
<1>7. \A p \in Paths : \A m \in Range(down'[p]) : AnswerInv(m)' BY DEF OnwardKeeps
<1> QED BY <1>1, <1>2, <1>4, <1>5, <1>6, <1>7 DEF OutboxInv

-----------------------------------------------------------------------------
(* The daemon. *)

\* A step of the daemon's: receipts are stored once, for commands that were saved.
Forward ==
  /\ box' = box /\ disk' = disk /\ app' = app /\ active' = active /\ draining' = draining
  /\ owed' = owed /\ issued' = issued
  /\ refused \subseteq refused'
  /\ \A c \in Commands : receipts'[c] = receipts[c] \/ (receipts[c] = "none" /\ disk[c] # "none")
  /\ \A c \in Laned : Reported(c)' \/ c \in Laned'

\* It leaves what is in flight alone.
LEMMA ForwardOnward ==
  ASSUME Forward
  PROVE  /\ Onward
         /\ \A c \in Commands : GivenUp(c) => GivenUp(c)'
         /\ \A c \in Commands : receipts[c] # "none" => receipts'[c] = receipts[c]
<1>1. /\ box' = box /\ disk' = disk /\ app' = app /\ active' = active /\ draining' = draining
      /\ owed' = owed /\ issued' = issued /\ refused \subseteq refused'
      /\ \A c \in Laned : Reported(c)' \/ c \in Laned'
  BY DEF Forward
<1>2. ASSUME NEW c \in Commands
      PROVE  /\ Over(c, box, disk) => Over(c, box, disk)'
             /\ Known(c, disk) => Known(c, disk)'
             /\ Reported(c) => Reported(c)'
             /\ GivenUp(c) => GivenUp(c)'
             /\ receipts[c] # "none" => receipts'[c] = receipts[c]
  <2>1. receipts'[c] = receipts[c] \/ (receipts[c] = "none" /\ disk[c] # "none") BY DEF Forward
  <2>2. Known(c, disk) => Known(c, disk)' BY <1>1, <2>1 DEF Known
  <2>3. (Reported(c) => Reported(c)') /\ (GivenUp(c) => GivenUp(c)')
    BY <1>1, <2>1 DEF Reported, GivenUp
  <2>4. Lost(c, box, disk) => Lost(c, box, disk)' BY <1>1, <2>1 DEF Lost
  <2> QED BY <2>1, <2>2, <2>3, <2>4 DEF Over
<1> QED BY <1>1, <1>2 DEF Onward

\* It keeps the outbox.
LEMMA ForwardBox ==
  ASSUME OutboxInv, Forward
  PROVE  BoxInv(box, disk)'
<1>1. BoxInv(box, disk) /\ BoxCore(box, disk) /\ box \in Boxes BY ContextHolds
<1>2. box' = box /\ disk' = disk /\ app' = app /\ issued' = issued /\ refused \subseteq refused'
  BY DEF Forward
<1>3. \A c \in Commands : /\ Known(c, disk) => Known(c, disk)'
                          /\ Reported(c) => Reported(c)'
                          /\ GivenUp(c) => GivenUp(c)'
                          /\ receipts[c] # "none" => receipts'[c] = receipts[c]
  BY ForwardOnward DEF Onward
<1>4. ASSUME NEW c \in Commands, NEW s, RecordInv(c, s, disk) PROVE RecordInv(c, s, disk)'
  <2>1. receipts'[c] = receipts[c] \/ (receipts[c] = "none" /\ disk[c] # "none") BY DEF Forward
  <2> QED BY <1>2, <1>3, <1>4, <2>1 DEF RecordInv
<1>5. \A c \in Commands : (RecordInv(c, box.rec[c], disk) /\ (c > issued => box.rec[c] = "none" /\ disk[c] = "none"))'
  <2>1. ASSUME NEW c \in Commands PROVE RecordInv(c, box.rec[c], disk)'
    <3>1. RecordInv(c, box.rec[c], disk) BY <1>1 DEF BoxCore
    <3>2. PICK s : s = box.rec[c] OBVIOUS
    <3>3. RecordInv(c, s, disk)' BY <1>4, <3>1, <3>2
    <3> QED BY <1>2, <3>2, <3>3
  <2> QED BY <1>1, <1>2, <2>1 DEF BoxCore
<1>6. ASSUME NEW i \in DOMAIN box'.chain PROVE OperationInv(box.chain[i], box, disk)'
  <2>1. box.chain \in Seq(Operations) BY <1>1, BoxFields
  <2>2. box.chain[i] \in Operations BY <1>2, <2>1
  <2>3. box.chain[i].c \in Commands BY <2>2 DEF Operations
  <2>4. OperationInv(box.chain[i], box, disk) BY <1>1, <1>2 DEF BoxCore
  <2>5. PICK op : op = box.chain[i] OBVIOUS
  <2>6. OperationInv(op, box, disk) /\ op.c \in Commands BY <2>3, <2>4, <2>5
  <2>7. OperationInv(op, box, disk)' BY <1>2, <1>3, <2>6 DEF OperationInv
  <2> QED BY <1>2, <2>5, <2>7
<1>7. \A c \in Range(box'.inFlight) : Known(c, disk)'
  <2>1. Range(box.inFlight) \subseteq Commands BY <1>1, BoxFields DEF Range
  <2> QED BY <1>1, <1>2, <1>3, <2>1 DEF BoxCore
<1>8. (\A c \in box'.acking : Reported(c)') /\ box'.timer \subseteq refused'
  BY <1>1, <1>2, <1>3, BoxFields DEF BoxCore
<1>9. SavesInv(box, disk)' BY <1>1, <1>2 DEF BoxCore, SavesInv
<1>10. IsInjective(box'.inFlight) BY <1>1, <1>2 DEF BoxCore
<1>11. BoxCore(box, disk)' BY <1>5, <1>6, <1>7, <1>8, <1>9, <1>10 DEF BoxCore
<1>12. ASSUME box'.chain # <<>> /\ Head(box'.chain).kind # "save"
       PROVE  RecordInv(Head(box.chain).c, Head(box.chain).was, disk)'
  <2>1. PICK c \in Commands : c = Head(box.chain).c BY <1>1, <1>2, <1>12, BecameState
  <2>2. PICK s : s = Head(box.chain).was OBVIOUS
  <2>3. RecordInv(c, s, disk) BY <1>1, <1>2, <1>12, <2>1, <2>2 DEF BoxInv
  <2>4. RecordInv(c, s, disk)' BY <1>4, <2>3
  <2> QED BY <1>2, <2>1, <2>2, <2>4
<1> QED BY <1>11, <1>12 DEF BoxInv

\* What was answered stays true.
LEMMA ForwardAnswer ==
  ASSUME Forward, NEW m \in Answers, AnswerInv(m)
  PROVE  AnswerInv(m)'
<1>1. m.c \in Commands /\ m.value # "none" BY DEF Answers, Results
<1>2. receipts[m.c] # "none" => receipts'[m.c] = receipts[m.c] BY <1>1, ForwardOnward
<1>3. Reported(m.c) \/ m.c \in Laned => Reported(m.c)' \/ m.c \in Laned'
  BY <1>1, ForwardOnward DEF Onward
<1>4. refused \subseteq refused' BY DEF Forward
<1> QED BY <1>1, <1>2, <1>3, <1>4 DEF AnswerInv

\* What it has to keep itself: the messages, its lane, and the order of its decisions.
DaemonKeeps ==
  /\ \A p \in Paths : Moved(p) \/ (up'[p] = <<>> /\ p # active)
  /\ \A p \in Paths : \A m \in Range(down'[p]) : m \in Range(down[p]) \/ AnswerInv(m)'
  /\ \A c \in Laned' : Known(c, disk)'
  /\ InTurn([i \in DOMAIN lane |-> lane[i].c], box, disk)'
  /\ \A j \in DOMAIN ran' : /\ receipts'[ran'[j]] # "none"
                            /\ \A c \in Commands : c < ran'[j] => Over(c, box, disk)'
  /\ NoneOvertakes'

\* A step of the daemon keeps the invariant when it forgets no ending and answers truthfully.
LEMMA DaemonStep ==
  ASSUME OutboxInv, Types', Forward, DaemonKeeps
  PROVE  OutboxInv'
<1>1. Onward BY ForwardOnward
<1>2. BoxInv(box, disk)' BY ForwardBox
<1>3. box' = box /\ disk' = disk /\ app' = app /\ active' = active /\ issued' = issued
  BY DEF Forward
<1>4. \A p \in Paths : \A m \in Range(down'[p]) : AnswerInv(m)'
  <2>1. ASSUME NEW p \in Paths, NEW m \in Range(down'[p]), m \in Range(down[p]) PROVE AnswerInv(m)'
    <3>1. AnswerInv(m) BY <2>1 DEF OutboxInv
    <3>2. down[p] \in Seq(Answers) BY DEF OutboxInv, Types
    <3>3. m \in Answers BY <2>1, <3>2 DEF Range
    <3> QED BY <3>1, <3>3, ForwardAnswer
  <2> QED BY <2>1 DEF DaemonKeeps
<1>5. DaemonInv'
  <2>1. ASSUME NEW c \in Commands
        PROVE  /\ receipts'[c] # "none" => Known(c, disk)' /\ c <= issued'
               /\ disk'[c] = "failed" => GivenUp(c)'
               /\ disk'[c] = "delivered" => receipts'[c] = "acked"
    <3>1. /\ receipts[c] # "none" => Known(c, disk) /\ c <= issued
          /\ disk[c] = "failed" => GivenUp(c)
          /\ disk[c] = "delivered" => receipts[c] = "acked"
      BY DEF OutboxInv, DaemonInv
    <3>2. receipts'[c] = receipts[c] \/ (receipts[c] = "none" /\ disk[c] # "none") BY DEF Forward
    <3>3. (Known(c, disk) => Known(c, disk)') /\ (GivenUp(c) => GivenUp(c)')
      BY ForwardOnward DEF Onward
    <3>4. disk[c] # "none" => c <= issued
      <4>1. c > issued => disk[c] = "none" BY DEF OutboxInv, BoxInv, BoxCore
      <4>2. c \in Nat /\ issued \in Nat
        <5>1. issued \in 0..MaxCommands BY DEF OutboxInv, Types
        <5> QED BY <5>1, CommandsAreNumbers
      <4> QED BY <4>1, <4>2
    <3>5. disk[c] # "none" => Known(c, disk)' BY <1>3 DEF Known
    <3> QED BY <1>3, <3>1, <3>2, <3>3, <3>4, <3>5
  <2>2. /\ \A c \in Laned' : Known(c, disk)'
        /\ InTurn([i \in DOMAIN lane |-> lane[i].c], box, disk)'
        /\ \A j \in DOMAIN ran' : /\ receipts'[ran'[j]] # "none"
                                  /\ \A c \in Commands : c < ran'[j] => Over(c, box, disk)'
    BY DEF DaemonKeeps
  <2> QED BY <2>1, <2>2 DEF DaemonInv
<1>6. OnwardKeeps BY <1>2, <1>3, <1>4, <1>5 DEF OnwardKeeps, DaemonKeeps, OutboxInv
<1> QED BY <1>1, <1>6, OnwardStep

\* What the daemon answers goes to the path it is for, if the client still reads that one.
LEMMA AnswerFacts ==
  ASSUME Types, NEW p, NEW messages \in Seq(Answers), Answer(p, messages)
  PROVE  /\ down' \in [Paths -> Seq(Answers)]
         /\ \A q \in Paths : \A m \in Range(down'[q]) : m \in Range(down[q]) \/ m \in Range(messages)
<1>1. down \in [Paths -> Seq(Answers)] /\ Open \subseteq Paths BY DEF Types, Open
<1>2. CASE p \notin Open BY <1>1, <1>2 DEF Answer
<1>3. CASE p \in Open
  <2>1. p \in Paths /\ down' = [down EXCEPT ![p] = @ \o messages] BY <1>1, <1>3 DEF Answer
  <2>2. down[p] \in Seq(Answers) BY <1>1, <2>1
  <2>3. /\ down[p] \o messages \in Seq(Answers)
        /\ Range(down[p] \o messages) = Range(down[p]) \cup Range(messages)
    BY <2>2, ConcatFacts
  <2>4. ASSUME NEW q \in Paths, NEW m \in Range(down'[q])
        PROVE  m \in Range(down[q]) \/ m \in Range(messages)
    <3>1. CASE q = p BY <1>1, <2>1, <2>3, <2>4, <3>1
    <3>2. CASE q # p BY <1>1, <2>1, <2>4, <3>2
    <3> QED BY <3>1, <3>2
  <2> QED BY <1>1, <2>1, <2>3, <2>4
<1> QED BY <1>2, <1>3

\* The decisions stay in order when none is added.
LEMMA RanSame ==
  ASSUME OutboxInv, Forward, ran' = ran
  PROVE  /\ \A j \in DOMAIN ran' : /\ receipts'[ran'[j]] # "none"
                                   /\ \A c \in Commands : c < ran'[j] => Over(c, box, disk)'
         /\ NoneOvertakes'
<1>1. \A c \in Commands : /\ Over(c, box, disk) => Over(c, box, disk)'
                          /\ receipts[c] # "none" => receipts'[c] = receipts[c]
  BY ForwardOnward DEF Onward
<1>2. ran \in Seq(Commands) BY DEF OutboxInv, Types
<1>3. ASSUME NEW j \in DOMAIN ran'
      PROVE  /\ receipts'[ran'[j]] # "none"
             /\ \A c \in Commands : c < ran'[j] => Over(c, box, disk)'
  <2>1. ran[j] \in Commands BY <1>2, <1>3
  <2>2. receipts[ran[j]] # "none" /\ \A c \in Commands : c < ran[j] => Over(c, box, disk)
    BY <1>3 DEF OutboxInv, DaemonInv
  <2> QED BY <1>1, <2>1, <2>2
<1>4. NoneOvertakes' BY DEF OutboxInv, NoneOvertakes, Forward
<1> QED BY <1>3, <1>4

\* The first message of a path is a command, or asks after one.
LEMMA FirstMessage ==
  ASSUME OutboxInv, NEW p \in Paths, up[p] # <<>>
  PROVE  /\ up[p] \in Seq(Asks) /\ Head(up[p]) = up[p][1] /\ 1 \in DOMAIN up[p]
         /\ up[p][1] \in Asks /\ Tail(up[p]) \in Seq(Asks)
         /\ \A c \in Commands : up[p][1] = Command(c) <=> up[p][1].kind = "command" /\ up[p][1].c = c
<1>1. up[p] \in Seq(Asks) BY DEF OutboxInv, Types
<1>2. Head(up[p]) = up[p][1] /\ 1 \in DOMAIN up[p] /\ up[p][1] \in Asks /\ Tail(up[p]) \in Seq(Asks)
  BY <1>1
<1>3. \A c \in Commands : \A x \in Asks : x = Command(c) <=> x.kind = "command" /\ x.c = c
  BY DEF Command, Asks
<1> QED BY <1>1, <1>2, <1>3

\* A command that is read was saved, and the older ones are over or on the lane.
LEMMA FirstInTurn ==
  ASSUME OutboxInv, NEW p \in Paths, up[p] # <<>>, NEW c \in Commands, up[p][1] = Command(c)
  PROVE  Known(c, disk) /\ \A e \in Commands : e < c => Over(e, box, disk) \/ e \in Laned
<1>1. up[p] \in Seq(Asks) /\ 1 \in DOMAIN up[p] BY FirstMessage
<1>2. UpInv(up[p], box, disk) BY DEF OutboxInv
<1>3. up[p][1].kind # "status" /\ up[p][1].c = c BY DEF Command
<1>4. /\ Known(c, disk)
      /\ \A e \in Commands : e < c => Over(e, box, disk) \/ Reaches(e, up[p], 1 - 1)
  BY <1>1, <1>2, <1>3 DEF UpInv
<1>5. \A i \in DOMAIN up[p] : ~(i <= 1 - 1) BY <1>1
<1> QED BY <1>4, <1>5 DEF Reaches

\* The daemon takes a command from a path into its lane, or answers the copy of one it has
\* decided.
LEMMA AdmitKeeps ==
  ASSUME OutboxInv, NEW p \in Paths, Admit(p)
  PROVE  OutboxInv'
<1> DEFINE x == [c |-> Head(up[p]).c, p |-> IF p \in Open THEN p ELSE NoPath]
           cs == [i \in DOMAIN lane |-> lane[i].c]
<1>1. Types BY DEF OutboxInv
<1>2. /\ up[p] # <<>> /\ Head(up[p]).kind = "command" /\ up' = [up EXCEPT ![p] = Tail(@)]
      /\ lane' = Append(lane, x) /\ box' = box /\ disk' = disk /\ app' = app
      /\ active' = active /\ draining' = draining /\ owed' = owed /\ down' = down
      /\ receipts' = receipts /\ ran' = ran /\ refused' = refused /\ issued' = issued
      /\ left' = left
  BY DEF Admit, client
<1>3. /\ up[p] \in Seq(Asks) /\ Head(up[p]) = up[p][1] /\ up[p][1] \in Asks
      /\ Tail(up[p]) \in Seq(Asks)
  BY <1>2, FirstMessage
<1>4. PICK c \in Commands : c = Head(up[p]).c BY <1>3 DEF Asks
<1>5. up[p][1] = Command(c) BY <1>2, <1>3, <1>4, FirstMessage
<1>6. x \in Jobs /\ x.c = c BY <1>4 DEF Jobs
<1> HIDE DEF x
<1>7. lane \in Seq(Jobs) BY <1>1 DEF Types
<1>8. PICK n \in Nat : n = Len(lane) BY <1>7
<1>9. /\ lane' \in Seq(Jobs) /\ DOMAIN lane = 1..n /\ DOMAIN lane' = 1..(n + 1)
      /\ lane'[n + 1] = x /\ \A i \in 1..n : lane'[i] = lane[i]
  BY <1>2, <1>6, <1>7, <1>8, AppendFacts
<1>10. Laned' = Laned \cup {c}
  <2>1. Laned' = {lane'[i].c : i \in 1..(n + 1)} BY <1>9 DEF Laned
  <2>2. Laned = {lane[i].c : i \in 1..n} BY <1>9 DEF Laned
  <2>3. 1..(n + 1) = 1..n \cup {n + 1} OBVIOUS
  <2>4. {lane'[i].c : i \in 1..n} = {lane[i].c : i \in 1..n} BY <1>9
  <2> QED BY <1>6, <1>9, <2>1, <2>2, <2>3, <2>4
<1>11. up' \in [Paths -> Seq(Asks)] /\ up'[p] = Tail(up[p]) /\ \A q \in Paths : q # p => up'[q] = up[q]
  BY <1>1, <1>2, <1>3 DEF Types
<1>12. Types' BY <1>1, <1>2, <1>9, <1>11 DEF Types
<1>13. Forward BY <1>2, <1>10 DEF Forward
<1>14. Known(c, disk) /\ \A e \in Commands : e < c => Over(e, box, disk) \/ e \in Laned
  BY <1>2, <1>5, FirstInTurn
<1>15. \A q \in Paths : Moved(q)
  <2>1. Moved(p) BY <1>2, <1>4, <1>5, <1>10, <1>11 DEF Moved, Command
  <2> QED BY <1>11, <2>1 DEF Moved
<1>16. Onward BY <1>13, ForwardOnward
<1>17. \A e \in Laned' : Known(e, disk)'
  <2>1. \A e \in Laned : Known(e, disk) BY DEF OutboxInv, DaemonInv
  <2> QED BY <1>2, <1>10, <1>14, <2>1 DEF Known
<1>18. InTurn(cs, box, disk)'
  <2>1. cs' = [i \in 1..(n + 1) |-> IF i = n + 1 THEN c ELSE lane[i].c]
    <3>1. cs' = [i \in 1..(n + 1) |-> lane'[i].c] BY <1>9
    <3>2. ASSUME NEW i \in 1..(n + 1) PROVE lane'[i].c = IF i = n + 1 THEN c ELSE lane[i].c
      BY <1>6, <1>9
    <3> QED BY <3>1, <3>2
  <2>2. InTurn(cs, box, disk) BY DEF OutboxInv, DaemonInv
  <2>3. DOMAIN cs = 1..n /\ \A i \in 1..n : cs[i] = lane[i].c BY <1>9
  <2> HIDE DEF cs
  <2>4. DOMAIN cs' = 1..(n + 1) /\ cs'[n + 1] = c /\ \A i \in 1..n : cs'[i] = cs[i]
    BY <2>1, <2>3
  <2>5. \A e \in Commands : Over(e, box, disk) => Over(e, box, disk)' BY <1>16 DEF Onward
  <2>6. SUFFICES ASSUME NEW j \in 1..(n + 1), NEW e \in Commands, e < cs'[j]
        PROVE  Over(e, box, disk)' \/ \E i \in 1..(n + 1) : i < j /\ cs'[i] = e
    BY <2>4 DEF InTurn
  <2>7. CASE j \in 1..n
    <3>1. Over(e, box, disk) \/ \E i \in 1..n : i < j /\ cs[i] = e
      BY <2>2, <2>3, <2>4, <2>6, <2>7 DEF InTurn
    <3> QED BY <2>4, <2>5, <3>1
  <2>8. CASE j = n + 1
    <3>1. Over(e, box, disk) \/ e \in Laned BY <1>14, <2>4, <2>6, <2>8
    <3>2. ASSUME e \in Laned PROVE \E i \in 1..(n + 1) : i < j /\ cs'[i] = e
      <4>1. PICK i \in 1..n : lane[i].c = e BY <1>9, <3>2 DEF Laned
      <4>2. i \in 1..(n + 1) /\ i < j /\ cs'[i] = e BY <2>3, <2>4, <2>8, <4>1
      <4> QED BY <4>2
    <3> QED BY <2>5, <3>1, <3>2
  <2> QED BY <2>7, <2>8
<1>19. DaemonKeeps
  <2>1. \A q \in Paths : \A m \in Range(down'[q]) : m \in Range(down[q]) BY <1>2
  <2> QED BY <1>2, <1>13, <1>15, <1>17, <1>18, <2>1, RanSame DEF DaemonKeeps
<1> QED BY <1>12, <1>13, <1>19, DaemonStep

\* The lane stays in order when nothing joins or leaves it.
LEMMA LaneSame ==
  ASSUME OutboxInv, Forward, lane' = lane
  PROVE  (\A e \in Laned' : Known(e, disk)') /\ InTurn([i \in DOMAIN lane |-> lane[i].c], box, disk)'
<1> DEFINE cs == [i \in DOMAIN lane |-> lane[i].c]
<1>1. Onward BY ForwardOnward
<1>2. Laned' = Laned /\ cs' = cs BY DEF Laned
<1>3. InTurn(cs, box, disk) /\ \A e \in Laned : Known(e, disk) BY DEF OutboxInv, DaemonInv
<1>4. Laned \subseteq Commands BY LanedCommands
<1>5. \A e \in Laned' : Known(e, disk)' BY <1>1, <1>2, <1>3, <1>4 DEF Onward
<1> HIDE DEF cs
<1>6. InTurn(cs, box, disk)' BY <1>1, <1>2, <1>3, OnwardInTurn
<1> QED BY <1>5, <1>6 DEF cs

\* The first job of the lane.
LEMMA FirstJob ==
  ASSUME OutboxInv, lane # <<>>
  PROVE  /\ Head(lane) = lane[1] /\ Tail(lane) \in Seq(Jobs) /\ 1 \in DOMAIN lane
         /\ lane[1] \in Jobs /\ lane[1].c \in Commands /\ lane[1].c \in Laned
<1>1. lane \in Seq(Jobs) BY DEF OutboxInv, Types
<1>2. Head(lane) = lane[1] /\ Tail(lane) \in Seq(Jobs) /\ 1 \in DOMAIN lane /\ lane[1] \in Jobs
  BY <1>1
<1> QED BY <1>2 DEF Jobs, Laned

\* What is left on the lane when its first job is taken.
LEMMA LaneLeft ==
  ASSUME OutboxInv, lane # <<>>, lane' = Tail(lane), NEW c, c = lane[1].c
  PROVE  \A e \in Laned : e = c \/ e \in Laned'
<1>1. lane \in Seq(Jobs) BY DEF OutboxInv, Types
<1>2. PICK n \in Nat : n = Len(lane) /\ DOMAIN lane = 1..n BY <1>1
<1>3. DOMAIN lane' = 1..(n - 1) /\ \A i \in 1..(n - 1) : lane'[i] = lane[i + 1] BY <1>1, <1>2
<1>4. SUFFICES ASSUME NEW i \in 1..n, i # 1 PROVE lane[i].c \in Laned'
  BY <1>2 DEF Laned
<1>5. i - 1 \in 1..(n - 1) /\ (i - 1) + 1 = i BY <1>4
<1>6. lane'[i - 1] = lane[i] BY <1>3, <1>5
<1> QED BY <1>3, <1>5, <1>6 DEF Laned

\* The lane stays in order when its first job is answered and leaves.
LEMMA LaneTail ==
  ASSUME OutboxInv, Forward, lane # <<>>, lane' = Tail(lane), NEW c, c = lane[1].c, Reported(c)'
  PROVE  (\A e \in Laned' : Known(e, disk)') /\ InTurn([i \in DOMAIN lane |-> lane[i].c], box, disk)'
<1> DEFINE cs == [i \in DOMAIN lane |-> lane[i].c]
<1>1. Onward BY ForwardOnward
<1>2. lane \in Seq(Jobs) BY DEF OutboxInv, Types
<1>3. PICK n \in Nat : n = Len(lane) /\ DOMAIN lane = 1..n BY <1>2
<1>4. DOMAIN lane' = 1..(n - 1) /\ \A i \in 1..(n - 1) : lane'[i] = lane[i + 1] BY <1>2, <1>3
<1>5. \A i \in 1..(n - 1) : i + 1 \in 1..n BY <1>3
<1>6. Laned' \subseteq Laned BY <1>3, <1>4, <1>5 DEF Laned
<1>7. InTurn(cs, box, disk) /\ \A e \in Laned : Known(e, disk) BY DEF OutboxInv, DaemonInv
<1>8. Laned \subseteq Commands BY LanedCommands
<1>9. \A e \in Laned' : Known(e, disk)' BY <1>1, <1>6, <1>7, <1>8 DEF Onward
<1>10. DOMAIN cs = 1..n /\ DOMAIN cs' = 1..(n - 1) /\ \A i \in 1..(n - 1) : cs'[i] = cs[i + 1]
  BY <1>3, <1>4, <1>5
<1>11. 1 \in DOMAIN lane => cs[1] = c OBVIOUS
<1> HIDE DEF cs
<1>12. \A e \in Commands : /\ Over(e, box, disk) => Over(e, box, disk)'
                           /\ Reported(e)' => Over(e, box, disk)'
  BY <1>1 DEF Onward, Over
<1>13. InTurn(cs, box, disk)'
  <2>1. SUFFICES ASSUME NEW j \in 1..(n - 1), NEW e \in Commands, e < cs'[j]
        PROVE  Over(e, box, disk)' \/ \E i \in 1..(n - 1) : i < j /\ cs'[i] = e
    BY <1>10 DEF InTurn
  <2>2. j + 1 \in 1..n /\ e < cs[j + 1] BY <1>5, <1>10, <2>1
  <2>3. Over(e, box, disk) \/ \E i \in 1..n : i < j + 1 /\ cs[i] = e
    BY <1>7, <1>10, <2>2 DEF InTurn
  <2>4. ASSUME NEW i \in 1..n, i < j + 1, cs[i] = e
        PROVE  Over(e, box, disk)' \/ \E k \in 1..(n - 1) : k < j /\ cs'[k] = e
    <3>1. CASE i = 1 BY <1>3, <1>11, <1>12, <2>4, <3>1
    <3>2. CASE i # 1
      <4>1. i - 1 \in 1..(n - 1) /\ i - 1 < j /\ (i - 1) + 1 = i BY <2>1, <2>4, <3>2
      <4>2. cs'[i - 1] = e BY <1>10, <2>4, <4>1
      <4> QED BY <4>1, <4>2
    <3> QED BY <3>1, <3>2
  <2> QED BY <1>12, <2>3, <2>4
<1> QED BY <1>9, <1>13 DEF cs

\* The daemon refuses a command without deciding it.
LEMMA RefuseStep ==
  ASSUME OutboxInv, NEW p \in Paths, NEW value \in {"retry", "final"}, Refuse(p, value)
  PROVE  OutboxInv'
<1>1. Types BY DEF OutboxInv
<1>2. /\ up[p] # <<>> /\ Head(up[p]).kind = "command" /\ up' = [up EXCEPT ![p] = Tail(@)]
      /\ refused' = refused \cup {Head(up[p]).c}
      /\ Answer(p, <<[kind |-> "error", c |-> Head(up[p]).c, value |-> value]>>)
      /\ lane' = lane /\ box' = box /\ disk' = disk /\ app' = app
      /\ active' = active /\ draining' = draining /\ owed' = owed
      /\ receipts' = receipts /\ ran' = ran /\ issued' = issued
  BY DEF Refuse, client
<1>3. /\ up[p] \in Seq(Asks) /\ Head(up[p]) = up[p][1] /\ up[p][1] \in Asks
      /\ Tail(up[p]) \in Seq(Asks)
  BY <1>2, FirstMessage
<1>4. PICK c \in Commands : c = Head(up[p]).c BY <1>3 DEF Asks
<1> DEFINE m == [kind |-> "error", c |-> c, value |-> value]
<1>5. m \in Answers /\ m.kind = "error" /\ m.c = c BY DEF Answers
<1>6. Answer(p, <<m>>) BY <1>2, <1>4
<1> HIDE DEF m
<1>7. <<m>> \in Seq(Answers) /\ Range(<<m>>) = {m} BY <1>5 DEF Range
<1>8. /\ down' \in [Paths -> Seq(Answers)]
      /\ \A q \in Paths : \A x \in Range(down'[q]) : x \in Range(down[q]) \/ x = m
  BY <1>1, <1>6, <1>7, AnswerFacts
<1>9. AnswerInv(m)' BY <1>2, <1>4, <1>5 DEF AnswerInv
<1>10. up' \in [Paths -> Seq(Asks)] /\ up'[p] = Tail(up[p]) /\ \A q \in Paths : q # p => up'[q] = up[q]
  BY <1>1, <1>2, <1>3 DEF Types
<1>11. left' \in 0..MaxEvents BY <1>1, DisturbanceCounts DEF Refuse
<1>12. Types' BY <1>1, <1>2, <1>4, <1>8, <1>10, <1>11 DEF Types
<1>13. Forward BY <1>2 DEF Forward, Laned
<1>14. \A q \in Paths : Moved(q)
  <2>1. Reported(c)' BY <1>2, <1>4 DEF Reported
  <2>2. \A e \in Commands : up[p][1] = Command(e) => e = c BY <1>3, <1>4 DEF Command
  <2>3. Moved(p) BY <1>2, <1>10, <2>1, <2>2 DEF Moved
  <2> QED BY <1>10, <2>3 DEF Moved
<1>15. DaemonKeeps BY <1>2, <1>8, <1>9, <1>13, <1>14, RanSame, LaneSame DEF DaemonKeeps
<1> QED BY <1>12, <1>13, <1>15, DaemonStep

\* The daemon says what it knows of a command.
LEMMA StatusStep ==
  ASSUME OutboxInv, NEW p \in Paths, Status(p)
  PROVE  OutboxInv'
<1>1. Types BY DEF OutboxInv
<1>2. /\ up[p] # <<>> /\ Head(up[p]).kind = "status" /\ up' = [up EXCEPT ![p] = Tail(@)]
      /\ Answer(p, commandState(Head(up[p]).c))
      /\ lane' = lane /\ box' = box /\ disk' = disk /\ app' = app
      /\ active' = active /\ draining' = draining /\ owed' = owed /\ refused' = refused
      /\ receipts' = receipts /\ ran' = ran /\ issued' = issued /\ left' = left
  BY DEF Status, client, daemon
<1>3. /\ up[p] \in Seq(Asks) /\ Head(up[p]) = up[p][1] /\ up[p][1] \in Asks
      /\ Tail(up[p]) \in Seq(Asks) /\ 1 \in DOMAIN up[p]
  BY <1>2, FirstMessage
<1>4. PICK c \in Commands : c = Head(up[p]).c BY <1>3 DEF Asks
<1>5. up' \in [Paths -> Seq(Asks)] /\ up'[p] = Tail(up[p]) /\ \A q \in Paths : q # p => up'[q] = up[q]
  BY <1>1, <1>2, <1>3 DEF Types
<1>6. Forward BY <1>2 DEF Forward, Laned
<1>7. Reported(c) \/ c \in Laned
  <2>1. UpInv(up[p], box, disk) BY DEF OutboxInv
  <2>2. Reported(c) \/ Reaches(c, up[p], 1 - 1) BY <1>2, <1>3, <1>4, <2>1 DEF UpInv
  <2>3. \A i \in DOMAIN up[p] : ~(i <= 1 - 1) BY <1>3
  <2> QED BY <2>2, <2>3 DEF Reaches
<1>8. Running(c) <=> c \in Laned BY DEF Running, Laned
<1> DEFINE status(value) == [kind |-> "status", c |-> c, value |-> value]
           Good(s) == s \in Seq(Answers) /\ \A m \in Range(s) : AnswerInv(m)'
<1>9. Good(commandState(c))
  <2>1. \A value \in {"running", "settled", "unknown"} : status(value) \in Answers BY DEF Answers
  <2>2. CASE Running(c)
    <3>1. commandState(c) = <<status("running")>> BY <2>2 DEF commandState
    <3>2. AnswerInv(status("running"))' BY <1>2, <1>8, <2>2 DEF AnswerInv, Laned
    <3> QED BY <2>1, <3>1, <3>2 DEF Range
  <2>3. CASE ~Running(c) /\ receipts[c] # "none"
    <3>0. PICK v \in Results : v = receipts[c] BY <1>1, <2>3 DEF Types
    <3>1. commandState(c) = <<Result(c, v), status("settled")>> BY <2>3, <3>0 DEF commandState
    <3>3. Result(c, v) \in Answers BY DEF Result, Answers
    <3>4. AnswerInv(Result(c, v))' BY <1>2, <3>0 DEF AnswerInv, Result
    <3>5. AnswerInv(status("settled"))' BY DEF AnswerInv
    <3> QED BY <2>1, <3>1, <3>3, <3>4, <3>5 DEF Range
  <2>4. CASE ~Running(c) /\ receipts[c] = "none"
    <3>1. commandState(c) = <<status("unknown")>> BY <2>4 DEF commandState
    <3>2. c \in refused BY <1>7, <1>8, <2>4 DEF Reported
    <3>3. AnswerInv(status("unknown"))' BY <1>2, <3>2 DEF AnswerInv
    <3> QED BY <2>1, <3>1, <3>3 DEF Range
  <2> QED BY <2>2, <2>3, <2>4
<1>10. PICK s : s = commandState(c) OBVIOUS
<1>11. s \in Seq(Answers) /\ (\A m \in Range(s) : AnswerInv(m)') /\ Answer(p, s)
  BY <1>2, <1>4, <1>9, <1>10
<1>12. /\ down' \in [Paths -> Seq(Answers)]
       /\ \A q \in Paths : \A x \in Range(down'[q]) : x \in Range(down[q]) \/ x \in Range(s)
  BY <1>1, <1>11, AnswerFacts
<1>13. Types' BY <1>1, <1>2, <1>5, <1>12 DEF Types
<1>14. \A q \in Paths : Moved(q)
  <2>1. \A e \in Commands : up[p][1] # Command(e) BY <1>2, <1>3 DEF Command
  <2>2. Moved(p) BY <1>2, <1>5, <2>1 DEF Moved
  <2> QED BY <1>5, <2>2 DEF Moved
<1>15. DaemonKeeps BY <1>2, <1>6, <1>11, <1>12, <1>14, RanSame, LaneSame DEF DaemonKeeps
<1> QED BY <1>6, <1>13, <1>15, DaemonStep

\* A job leaves the lane with an answer to its command.
LEMMA JobStep ==
  ASSUME OutboxInv, lane # <<>>, lane' = Tail(lane), NEW c \in Commands, c = lane[1].c,
         NEW m \in Answers, AnswerInv(m)', Answer(lane[1].p, <<m>>), Reported(c)',
         box' = box, disk' = disk, app' = app, active' = active, draining' = draining,
         owed' = owed, issued' = issued, up' = up, left' \in 0..MaxEvents,
         refused \subseteq refused', refused' \in SUBSET Commands,
         receipts' \in [Commands -> Results \cup {"none"}],
         \A e \in Commands : receipts'[e] = receipts[e] \/ (receipts[e] = "none" /\ disk[e] # "none"),
         ran' \in Seq(Commands),
         ran' = ran \/ /\ \A j \in DOMAIN ran' :
                            /\ receipts'[ran'[j]] # "none"
                            /\ \A e \in Commands : e < ran'[j] => Over(e, box, disk)'
                       /\ NoneOvertakes'
  PROVE  OutboxInv' /\ Forward
<1>1. Types BY DEF OutboxInv
<1>2. Tail(lane) \in Seq(Jobs) BY FirstJob
<1>3. <<m>> \in Seq(Answers) /\ Range(<<m>>) = {m} BY DEF Range
<1>4. /\ down' \in [Paths -> Seq(Answers)]
      /\ \A q \in Paths : \A x \in Range(down'[q]) : x \in Range(down[q]) \/ x = m
  BY <1>1, <1>3, AnswerFacts
<1>5. Types' BY <1>1, <1>2, <1>4 DEF Types
<1>6. \A e \in Laned : Reported(e)' \/ e \in Laned' BY LaneLeft
<1>7. Forward BY <1>6 DEF Forward
<1>8. (\A e \in Laned' : Known(e, disk)') /\ InTurn([i \in DOMAIN lane |-> lane[i].c], box, disk)'
  BY <1>7, LaneTail
<1>9. /\ \A j \in DOMAIN ran' : /\ receipts'[ran'[j]] # "none"
                                /\ \A e \in Commands : e < ran'[j] => Over(e, box, disk)'
      /\ NoneOvertakes'
  BY <1>7, RanSame
<1>10. \A p \in Paths : Moved(p) BY DEF Moved
<1>11. DaemonKeeps BY <1>4, <1>8, <1>9, <1>10 DEF DaemonKeeps
<1> QED BY <1>5, <1>7, <1>11, DaemonStep

\* The command in front of the lane is decided, with its receipt.
LEMMA recordCommandKeeps ==
  ASSUME OutboxInv, recordCommand
  PROVE  OutboxInv'
<1>1. Types BY DEF OutboxInv
<1>2. /\ lane # <<>> /\ lane' = Tail(lane) /\ up' = up /\ refused' = refused /\ issued' = issued
      /\ box' = box /\ disk' = disk /\ app' = app /\ active' = active /\ draining' = draining
      /\ owed' = owed
  BY DEF recordCommand, client
<1>3. Head(lane) = lane[1] /\ lane[1].c \in Commands /\ lane[1].c \in Laned /\ 1 \in DOMAIN lane
  BY <1>2, FirstJob
<1>4. PICK c \in Commands : c = lane[1].c BY <1>3
<1>5. /\ receipts \in [Commands -> Results \cup {"none"}] /\ ran \in Seq(Commands)
      /\ refused \in SUBSET Commands /\ left \in 0..MaxEvents
  BY <1>1 DEF Types
<1>6. \A v \in Results : Result(c, v) \in Answers BY DEF Result, Answers
<1>7. CASE receipts[c] # "none"
  <2>1. /\ Answer(lane[1].p, <<Result(c, receipts[c])>>)
        /\ receipts' = receipts /\ ran' = ran /\ left' = left
    BY <1>3, <1>4, <1>7 DEF recordCommand
  <2>2. PICK v \in Results : v = receipts[c] BY <1>5, <1>7
  <2>3. AnswerInv(Result(c, v))' BY <2>1, <2>2 DEF AnswerInv, Result
  <2>4. Reported(c)' BY <1>7, <2>1 DEF Reported
  <2>5. PICK m \in Answers : m = Result(c, v) BY <1>6
  <2>6. AnswerInv(m)' /\ Answer(lane[1].p, <<m>>) BY <2>1, <2>2, <2>3, <2>5
  <2> QED BY <1>2, <1>4, <1>5, <2>1, <2>4, <2>6, JobStep
<1>8. CASE receipts[c] = "none"
  <2>1. PICK v \in {"acked", "failed"} :
          /\ IF v = "failed" THEN Disturbance ELSE left' = left
          /\ receipts' = [receipts EXCEPT ![c] = v]
          /\ ran' = Append(ran, c)
          /\ Answer(lane[1].p, <<Result(c, v)>>)
    BY <1>3, <1>4, <1>8 DEF recordCommand
  <2>2. v \in Results /\ v # "none" BY DEF Results
  <2>3. receipts' \in [Commands -> Results \cup {"none"}] /\ receipts'[c] = v
        /\ \A e \in Commands : e # c => receipts'[e] = receipts[e]
    BY <1>5, <2>1, <2>2
  <2>4. left' \in 0..MaxEvents BY <1>1, <1>5, <2>1, DisturbanceCounts
  <2>5. AnswerInv(Result(c, v))' BY <2>3 DEF AnswerInv, Result
  <2>6. Reported(c)' BY <2>2, <2>3 DEF Reported
  <2>7. disk[c] # "none"
    <3>1. Known(c, disk) BY <1>3, <1>4 DEF OutboxInv, DaemonInv
    <3> QED BY <1>8, <3>1 DEF Known
  <2>8. \A e \in Commands : receipts'[e] = receipts[e] \/ (receipts[e] = "none" /\ disk[e] # "none")
    BY <1>8, <2>3, <2>7
  <2>9. \A e \in Laned : Reported(e)' \/ e \in Laned' BY <1>2, <1>4, <2>6, LaneLeft
  <2>10. Forward BY <1>2, <2>8, <2>9 DEF Forward
  <2>11. \A e \in Commands : Over(e, box, disk) => Over(e, box, disk)' BY <2>10, ForwardOnward DEF Onward
  <2>12. \A e \in Commands : e < c => Over(e, box, disk)
    <3> DEFINE cs == [i \in DOMAIN lane |-> lane[i].c]
    <3>1. InTurn(cs, box, disk) BY DEF OutboxInv, DaemonInv
    <3>2. DOMAIN cs = DOMAIN lane /\ cs[1] = c BY <1>3, <1>4
    <3>3. lane \in Seq(Jobs) BY <1>1 DEF Types
    <3>4. \A i \in DOMAIN lane : ~(i < 1) BY <3>3
    <3> HIDE DEF cs
    <3> QED BY <1>3, <3>1, <3>2, <3>4 DEF InTurn
  <2>13. PICK n \in Nat : n = Len(ran) BY <1>5
  <2>14. /\ ran' \in Seq(Commands) /\ DOMAIN ran = 1..n /\ DOMAIN ran' = 1..(n + 1)
         /\ ran'[n + 1] = c /\ \A i \in 1..n : ran'[i] = ran[i]
    BY <1>5, <2>1, <2>13, AppendFacts
  <2>15. ASSUME NEW j \in DOMAIN ran
         PROVE  /\ ran[j] \in Commands /\ receipts[ran[j]] # "none"
                /\ \A e \in Commands : e < ran[j] => Over(e, box, disk)
    BY <1>5 DEF OutboxInv, DaemonInv
  <2>16. ASSUME NEW j \in DOMAIN ran'
         PROVE  /\ receipts'[ran'[j]] # "none"
                /\ \A e \in Commands : e < ran'[j] => Over(e, box, disk)'
    <3>1. CASE j \in 1..n
      <4>1. ran'[j] = ran[j] /\ j \in DOMAIN ran BY <2>14, <3>1
      <4> QED BY <1>8, <2>3, <2>11, <2>15, <4>1
    <3>2. CASE j = n + 1 BY <2>2, <2>3, <2>11, <2>12, <2>14, <3>2
    <3> QED BY <2>14, <2>16, <3>1, <3>2
  <2>17. NoneOvertakes'
    <3>1. SUFFICES ASSUME NEW i \in 1..(n + 1), NEW j \in 1..(n + 1), i < j, ran'[i] > ran'[j]
          PROVE  ran'[j] \in refused
      BY <1>2, <2>14 DEF NoneOvertakes
    <3>2. i \in 1..n BY <3>1
    <3>3. CASE j \in 1..n BY <2>14, <3>1, <3>2, <3>3 DEF OutboxInv, NoneOvertakes
    <3>4. CASE j = n + 1
      <4>1. ran[i] > c /\ i \in DOMAIN ran BY <2>14, <3>1, <3>2, <3>4
      <4>2. ran[i] \in Nat /\ c \in Nat BY <2>15, <4>1, CommandsAreNumbers
      <4>3. c < ran[i] BY <4>1, <4>2
      <4>4. Over(c, box, disk) BY <2>15, <4>1, <4>3
      <4>5. c \in refused BY <1>8, <2>7, <4>4 DEF Over, Reported, Lost
      <4> QED BY <2>14, <3>4, <4>5
    <3> QED BY <3>1, <3>3, <3>4
  <2>18. PICK m \in Answers : m = Result(c, v) BY <1>6, <2>2
  <2>19. AnswerInv(m)' /\ Answer(lane[1].p, <<m>>) BY <2>1, <2>5, <2>18
  <2> QED BY <1>2, <1>4, <1>5, <2>3, <2>4, <2>6, <2>8, <2>14, <2>16, <2>17, <2>19, JobStep
<1> QED BY <1>7, <1>8

\* Its transaction is rolled back.
LEMMA RollBackKeeps ==
  ASSUME OutboxInv, RollBack
  PROVE  OutboxInv'
<1>1. Types BY DEF OutboxInv
<1>2. /\ lane # <<>> /\ lane' = Tail(lane) /\ up' = up /\ issued' = issued
      /\ box' = box /\ disk' = disk /\ app' = app /\ active' = active /\ draining' = draining
      /\ owed' = owed /\ receipts' = receipts /\ ran' = ran
      /\ refused' = refused \cup {Head(lane).c}
      /\ Answer(Head(lane).p, <<[kind |-> "error", c |-> Head(lane).c, value |-> "retry"]>>)
  BY DEF RollBack, client
<1>3. Head(lane) = lane[1] /\ lane[1].c \in Commands BY <1>2, FirstJob
<1>4. PICK c \in Commands : c = lane[1].c BY <1>3
<1>5. PICK m : m = [kind |-> "error", c |-> c, value |-> "retry"] OBVIOUS
<1>6. m \in Answers /\ m.kind = "error" /\ m.c = c BY <1>5 DEF Answers
<1>7. refused' = refused \cup {c} /\ Answer(lane[1].p, <<m>>) BY <1>2, <1>3, <1>4, <1>5
<1>8. AnswerInv(m)' /\ Reported(c)' BY <1>6, <1>7 DEF AnswerInv, Reported
<1>9. left' \in 0..MaxEvents BY <1>1, DisturbanceCounts DEF RollBack
<1>10. refused' \in SUBSET Commands /\ receipts' \in [Commands -> Results \cup {"none"}]
       /\ ran' \in Seq(Commands)
  BY <1>1, <1>2, <1>7 DEF Types
<1> QED BY <1>2, <1>4, <1>6, <1>7, <1>8, <1>9, <1>10, JobStep

\* A path that was left behind ends.
LEMMA VanishKeeps ==
  ASSUME OutboxInv, NEW p \in Paths, Vanish(p)
  PROVE  OutboxInv'
<1>1. Types BY DEF OutboxInv
<1>2. /\ p \notin Open /\ up' = [up EXCEPT ![p] = <<>>] /\ box' = box /\ disk' = disk /\ app' = app
      /\ active' = active /\ draining' = draining /\ owed' = owed /\ down' = down
      /\ lane' = lane /\ receipts' = receipts /\ ran' = ran /\ refused' = refused
      /\ issued' = issued /\ left' = left
  BY DEF Vanish, client, daemon
<1>3. p # active BY <1>2 DEF Open, Paths, NoPath
<1>4. up' \in [Paths -> Seq(Asks)] /\ up'[p] = <<>> /\ \A q \in Paths : q # p => up'[q] = up[q]
  <2>1. <<>> \in Seq(Asks) BY EmptySeq
  <2> QED BY <1>1, <1>2, <2>1 DEF Types
<1>5. Types' BY <1>1, <1>2, <1>4 DEF Types
<1>6. Forward BY <1>2 DEF Forward, Laned
<1>7. \A q \in Paths : Moved(q) \/ (up'[q] = <<>> /\ q # active) BY <1>3, <1>4 DEF Moved
<1>8. \A q \in Paths : \A m \in Range(down'[q]) : m \in Range(down[q]) BY <1>2
<1>9. DaemonKeeps BY <1>2, <1>6, <1>7, <1>8, RanSame, LaneSame DEF DaemonKeeps
<1> QED BY <1>5, <1>6, <1>9, DaemonStep

\* The daemon restarts: its lane is lost, its receipts are not.
LEMMA RestartKeeps ==
  ASSUME OutboxInv, Restart
  PROVE  OutboxInv'
<1>1. Context(disk) /\ box \in Boxes /\ BoxInv(box, disk) /\ BoxCore(box, disk) /\ Types
  BY ContextHolds DEF OutboxInv
<1>2. /\ lane' = <<>> /\ up' = [p \in Paths |-> <<>>] /\ down' = up' /\ active' = NoPath
      /\ draining' = NoPath /\ owed' = <<>> /\ box' = disconnect(box) /\ disk' = disk /\ app' = app
      /\ receipts' = receipts /\ ran' = ran /\ refused' = refused /\ issued' = issued
  BY DEF Restart
<1>3. /\ box' \in Boxes /\ Stays(box, disk, box', disk) /\ BoxInv(box', disk)
      /\ box'.chain = box.chain /\ box'.timer = {}
  BY <1>1, <1>2, DisconnectKeeps
<1>4. box'.inFlight = <<>> /\ box'.fenced = {} BY <1>1, <1>2 DEF disconnect, Boxes
<1>5. left' \in 0..MaxEvents BY <1>1, DisturbanceCounts DEF Restart
<1>6. Types'
  <2>1. /\ <<>> \in Seq(Commands) /\ <<>> \in Seq(Asks) /\ <<>> \in Seq(Answers)
        /\ <<>> \in Seq(Jobs)
    BY EmptySeq
  <2> QED BY <1>1, <1>2, <1>3, <1>5, <2>1 DEF Types
<1>7. BoxInv(box, disk)' BY <1>2, <1>3, SameBox
<1>8. FlightInv(box, disk, owed)' BY <1>2, <1>4 DEF FlightInv, InTurn, Range
<1>9. ASSUME NEW p \in Paths
      PROVE  UpInv(up[p], box, disk)' /\ \A m \in Range(down'[p]) : AnswerInv(m)'
  <2>1. up'[p] = <<>> /\ down'[p] = <<>> BY <1>2
  <2> QED BY <2>1 DEF UpInv, Range
<1>10. \A c \in Commands : Over(c, box, disk) => Over(c, box, disk)'
  BY <1>2, <1>3, SameOver DEF Stays
<1>11. DaemonInv'
  <2>1. ASSUME NEW c \in Commands
        PROVE  /\ receipts'[c] # "none" => Known(c, disk)' /\ c <= issued'
               /\ disk'[c] = "failed" => GivenUp(c)'
               /\ disk'[c] = "delivered" => receipts'[c] = "acked"
    <3>1. /\ receipts[c] # "none" => Known(c, disk) /\ c <= issued
          /\ disk[c] = "failed" => GivenUp(c)
          /\ disk[c] = "delivered" => receipts[c] = "acked"
      BY DEF OutboxInv, DaemonInv
    <3> QED BY <1>2, <3>1 DEF Known, GivenUp
  <2>2. Laned' = {} BY <1>2 DEF Laned
  <2>3. InTurn([i \in DOMAIN lane |-> lane[i].c], box, disk)' BY <1>2 DEF InTurn
  <2>4. ASSUME NEW j \in DOMAIN ran'
        PROVE  /\ receipts'[ran'[j]] # "none"
               /\ \A c \in Commands : c < ran'[j] => Over(c, box, disk)'
    <3>1. receipts[ran[j]] # "none" /\ \A c \in Commands : c < ran[j] => Over(c, box, disk)
      BY <1>2, <2>4 DEF OutboxInv, DaemonInv
    <3> QED BY <1>2, <1>10, <3>1
  <2> QED BY <2>1, <2>2, <2>3, <2>4 DEF DaemonInv
<1>12. NoneOvertakes' BY <1>2 DEF OutboxInv, NoneOvertakes
<1>13. app' = "down" => active' = NoPath /\ box'.chain = <<>> /\ box'.timer = {}
  BY <1>2, <1>3 DEF OutboxInv
<1> QED BY <1>2, <1>6, <1>7, <1>8, <1>9, <1>11, <1>12, <1>13 DEF OutboxInv

-----------------------------------------------------------------------------
(* The person issues a command. *)

\* The person issues a command.
LEMMA EnqueueKeeps ==
  ASSUME OutboxInv, Enqueue
  PROVE  OutboxInv'
<1>1. Context(disk) /\ box \in Boxes /\ BoxInv(box, disk) /\ BoxCore(box, disk) /\ Types
  BY ContextHolds DEF OutboxInv
<1>2. /\ app # "down" /\ issued < MaxCommands /\ issued' = issued + 1 /\ disk' = disk
      /\ box' = serialize([box EXCEPT !.rec[issued + 1] = "saving"], "save", issued + 1)
      /\ app' = app /\ active' = active /\ draining' = draining /\ owed' = owed /\ up' = up
      /\ down' = down /\ lane' = lane /\ receipts' = receipts /\ ran' = ran
      /\ refused' = refused /\ left' = left
  BY DEF Enqueue, net, daemon
<1>3. issued \in Nat /\ issued' \in 0..MaxCommands /\ issued + 1 \in Commands /\ Commands \subseteq Nat
  BY <1>1, <1>2, CommandsAreNumbers DEF Types, Commands
<1>4. PICK c \in Commands : c = issued + 1 BY <1>3
<1> DEFINE op == [kind |-> "save", c |-> c, was |-> "none"]
           r == [box.rec EXCEPT ![c] = "saving"]
           q == box.chain
           q2 == Append(q, op)
           b2 == [box EXCEPT !.rec = r, !.chain = q2]
<1>5. op \in Operations /\ op.kind = "save" /\ op.c = c BY DEF Operations, States
<1>6. q \in Seq(Operations) BY <1>1, BoxFields
<1>7. r \in [Commands -> States] /\ r[c] = "saving" /\ \A e \in Commands : e # c => r[e] = box.rec[e]
  <2>1. "saving" \in States BY DEF States
  <2> QED BY <1>1, <2>1, BoxFields
<1>8. PICK n \in Nat : n = Len(q) BY <1>6
<1>9. /\ q2 \in Seq(Operations) /\ DOMAIN q = 1..n /\ DOMAIN q2 = 1..(n + 1) /\ q2[n + 1] = op
      /\ \A i \in 1..n : q2[i] = q[i]
  <2> HIDE DEF op, q
  <2> QED BY <1>5, <1>6, <1>8, AppendFacts
<1>10. box' = b2
  <2> DEFINE b == [box EXCEPT !.rec[c] = "saving"]
             next == [b EXCEPT !.chain = Append(@, op)]
  <2>1. b.chain = q BY <1>1 DEF Boxes
  <2>2. next = b2 BY <1>1 DEF Boxes
  <2>3. box' = IF b.chain = <<>> THEN Begin(next) ELSE next BY <1>2, <1>4 DEF serialize
  <2>4. ASSUME q = <<>> PROVE Begin(next) = next
    <3>1. next.chain = q2 BY <1>1 DEF Boxes
    <3>2. Head(next.chain) = op BY <2>4, <3>1
    <3> HIDE DEF next, op
    <3> QED BY <1>5, <3>2 DEF Begin
  <2> HIDE DEF next, b, b2
  <2> QED BY <2>1, <2>2, <2>3, <2>4
<1> HIDE DEF op, r, q2
<1>11. b2 \in Boxes BY <1>1, <1>7, <1>9, BoxFields DEF Boxes
<1>12. /\ b2.rec = r /\ b2.inFlight = box.inFlight /\ b2.fenced = box.fenced
       /\ b2.acking = box.acking /\ b2.timer = box.timer /\ b2.armed = box.armed /\ b2.chain = q2
  BY <1>1 DEF Boxes
<1> HIDE DEF b2
<1>13. /\ box' \in Boxes /\ box'.rec = r /\ box'.inFlight = box.inFlight /\ box'.fenced = box.fenced
       /\ box'.acking = box.acking /\ box'.timer = box.timer /\ box'.armed = box.armed
       /\ box'.chain = q2
  BY <1>10, <1>11, <1>12
<1>14. Types' BY <1>1, <1>2, <1>3, <1>13 DEF Types
<1>15. \A e \in Commands : (e > issued <=> ~(e <= issued)) /\ (e <= issued => e # c /\ e < c)
                           /\ (e > issued + 1 <=> e > c) /\ (e > c => e > issued)
                           /\ (e <= issued => e <= issued + 1)
  BY <1>3, <1>4
<1>16. c > issued BY <1>3, <1>4
<1>17. box.rec[c] = "none" /\ disk[c] = "none" /\ receipts[c] = "none"
  <2>1. box.rec[c] = "none" /\ disk[c] = "none" BY <1>1, <1>16 DEF BoxCore
  <2>2. receipts[c] # "none" => c <= issued BY <1>1 DEF Context
  <2> QED BY <1>15, <1>16, <2>1, <2>2
<1>18. ASSUME NEW e \in Commands
       PROVE  /\ Over(e, box, disk) => Over(e, box, disk)'
              /\ Known(e, disk) <=> Known(e, disk)'
              /\ Reported(e) <=> Reported(e)'
              /\ GivenUp(e) <=> GivenUp(e)'
  <2>1. (Known(e, disk) <=> Known(e, disk)') /\ (Reported(e) <=> Reported(e)')
        /\ (GivenUp(e) <=> GivenUp(e)')
    BY <1>2 DEF Known, Reported, GivenUp
  <2>2. Lost(e, box, disk) => Lost(e, box, disk)' BY <1>2, <1>7, <1>13, <1>15 DEF Lost
  <2> QED BY <2>1, <2>2 DEF Over
<1>19. ASSUME NEW e, NEW s, RecordInv(e, s, disk) PROVE RecordInv(e, s, disk)'
  BY <1>2, <1>19 DEF RecordInv, GivenUp
<1>20. ASSUME NEW e \in Commands
       PROVE  (RecordInv(e, box.rec[e], disk) /\ (e > issued => box.rec[e] = "none" /\ disk[e] = "none"))'
  <2>1. RecordInv(e, box.rec[e], disk) /\ (e > issued => box.rec[e] = "none" /\ disk[e] = "none")
    BY <1>1 DEF BoxCore
  <2>2. CASE e = c
    <3>1. RecordInv(e, box.rec[e], disk)' BY <1>2, <1>7, <1>13, <1>17, <2>2 DEF RecordInv
    <3>2. ~(e > issued + 1) BY <1>3, <1>4, <2>2
    <3> QED BY <1>2, <3>1, <3>2
  <2>3. CASE e # c
    <3>1. box'.rec[e] = box.rec[e] BY <1>7, <1>13, <2>3
    <3>2. PICK s : s = box.rec[e] OBVIOUS
    <3>3. RecordInv(e, s, disk)' BY <1>19, <2>1, <3>2
    <3>4. RecordInv(e, box.rec[e], disk)' BY <3>1, <3>2, <3>3
    <3> QED BY <1>2, <1>15, <2>1, <3>1, <3>4
  <2> QED BY <2>2, <2>3
<1>21. ASSUME NEW i \in 1..n
       PROVE  /\ OperationInv(q[i], box, disk) /\ q[i].c \in Commands
              /\ q[i].kind = "save" => q[i].c # c /\ q[i].c < c /\ box.rec[q[i].c] = "saving"
  <2>1. OperationInv(q[i], box, disk) BY <1>1, <1>9 DEF BoxCore
  <2>2. q[i] \in Operations BY <1>6, <1>9
  <2>3. q[i].c \in Commands BY <2>2 DEF Operations
  <2>4. q[i].kind = "save" => box.rec[q[i].c] = "saving" BY <2>1 DEF OperationInv
  <2>5. box.rec[q[i].c] = "saving" => ~(q[i].c > issued) BY <1>1, <2>3 DEF BoxCore
  <2> QED BY <1>15, <2>1, <2>3, <2>4, <2>5
<1>22. ASSUME NEW i \in 1..(n + 1) PROVE OperationInv(box.chain[i], box, disk)'
  <2>1. CASE i = n + 1
    <3>1. box'.chain[i] = op BY <1>9, <1>13, <2>1
    <3> QED BY <1>5, <1>7, <1>13, <3>1 DEF OperationInv
  <2>2. CASE i \in 1..n
    <3>1. PICK x : x = q[i] OBVIOUS
    <3>2. box'.chain[i] = x BY <1>9, <1>13, <2>2, <3>1
    <3>3. /\ OperationInv(x, box, disk) /\ x.c \in Commands
          /\ x.kind = "save" => x.c # c /\ box.rec[x.c] = "saving"
      BY <1>21, <2>2, <3>1
    <3>4. OperationInv(x, box, disk)' BY <1>2, <1>7, <1>13, <1>18, <3>3 DEF OperationInv
    <3> QED BY <3>2, <3>4
  <2> QED BY <2>1, <2>2
<1>23. SavesInv(box, disk)'
  <2>1. SavesInv(box, disk) BY <1>1 DEF BoxCore
  <2>2. ASSUME NEW i \in 1..(n + 1), NEW j \in 1..(n + 1), i < j,
               q2[i].kind = "save", q2[j].kind = "save"
        PROVE  q2[i].c < q2[j].c
    <3>1. i \in 1..n /\ q2[i] = q[i] BY <1>9, <2>2
    <3>2. CASE j \in 1..n BY <1>9, <2>1, <2>2, <3>1, <3>2 DEF SavesInv
    <3>3. CASE j = n + 1 BY <1>5, <1>9, <1>21, <2>2, <3>1, <3>3
    <3> QED BY <3>2, <3>3
  <2>3. ASSUME NEW e \in Commands, r[e] = "saving"
        PROVE  /\ \E i \in 1..(n + 1) : q2[i].kind = "save" /\ q2[i].c = e
               /\ \A f \in Commands : e < f => disk[f] = "none"
    <3>1. CASE e = c
      <4>1. n + 1 \in 1..(n + 1) /\ q2[n + 1].kind = "save" /\ q2[n + 1].c = e
        BY <1>5, <1>9, <3>1
      <4>2. \A f \in Commands : c < f => f > issued BY <1>3, <1>4
      <4> QED BY <1>1, <3>1, <4>1, <4>2 DEF BoxCore
    <3>2. CASE e # c
      <4>1. box.rec[e] = "saving" BY <1>7, <2>3, <3>2
      <4>2. PICK i \in 1..n : q[i].kind = "save" /\ q[i].c = e BY <1>9, <2>1, <4>1 DEF SavesInv
      <4>3. i \in 1..(n + 1) /\ q2[i] = q[i] BY <1>9, <4>2
      <4>4. \A f \in Commands : e < f => disk[f] = "none" BY <2>1, <4>1 DEF SavesInv
      <4> QED BY <4>2, <4>3, <4>4
    <3> QED BY <3>1, <3>2
  <2> QED BY <1>2, <1>9, <1>13, <2>2, <2>3, SMTT(30) DEF SavesInv
<1>24. BoxCore(box, disk)'
  <2>1. \A e \in Range(box'.inFlight) : Known(e, disk)'
    <3>1. Range(box.inFlight) \subseteq Commands BY <1>1, BoxFields DEF Range
    <3> QED BY <1>1, <1>13, <1>18, <3>1 DEF BoxCore
  <2>2. (\A e \in box'.acking : Reported(e)') /\ box'.timer \subseteq refused'
    BY <1>1, <1>2, <1>13, <1>18, BoxFields DEF BoxCore
  <2>3. IsInjective(box'.inFlight) BY <1>1, <1>13 DEF BoxCore
  <2>4. \A i \in DOMAIN box'.chain : OperationInv(box.chain[i], box, disk)' BY <1>9, <1>13, <1>22
  <2> QED BY <1>20, <1>23, <2>1, <2>2, <2>3, <2>4 DEF BoxCore
<1>25. BoxInv(box, disk)'
  <2>1. ASSUME box'.chain # <<>>, Head(box'.chain).kind # "save"
        PROVE  RecordInv(Head(box.chain).c, Head(box.chain).was, disk)'
    <3>1. Head(box'.chain) = q2[1] BY <1>9, <1>13, <2>1
    <3>2. n # 0 BY <1>5, <1>9, <2>1, <3>1
    <3>3. 1 \in 1..n /\ q2[1] = q[1] BY <1>9, <3>2
    <3>4. q # <<>> /\ Head(q) = q[1] BY <1>6, <1>9, <3>3
    <3>5. PICK e, s : e = q[1].c /\ s = q[1].was OBVIOUS
    <3>6. RecordInv(e, s, disk) BY <1>1, <2>1, <3>1, <3>3, <3>4, <3>5 DEF BoxInv
    <3>7. RecordInv(e, s, disk)' BY <1>19, <3>6
    <3> QED BY <3>1, <3>3, <3>5, <3>7
  <2> QED BY <1>24, <2>1 DEF BoxInv
<1>26. Onward
  <2>1. Laned' = Laned BY <1>2 DEF Laned
  <2> QED BY <1>2, <1>13, <1>18, <2>1 DEF Onward
<1>27. DaemonInv'
  <2> DEFINE cs == [i \in DOMAIN lane |-> lane[i].c]
  <2>1. ASSUME NEW e \in Commands
        PROVE  /\ receipts'[e] # "none" => Known(e, disk)' /\ e <= issued'
               /\ disk'[e] = "failed" => GivenUp(e)'
               /\ disk'[e] = "delivered" => receipts'[e] = "acked"
    <3>1. /\ receipts[e] # "none" => Known(e, disk) /\ e <= issued
          /\ disk[e] = "failed" => GivenUp(e)
          /\ disk[e] = "delivered" => receipts[e] = "acked"
      BY DEF OutboxInv, DaemonInv
    <3> QED BY <1>2, <1>15, <1>18, <3>1
  <2>2. \A e \in Laned' : Known(e, disk)'
    <3>1. Laned' = Laned /\ Laned \subseteq Commands BY <1>2, LanedCommands DEF Laned
    <3>2. \A e \in Laned : Known(e, disk) BY DEF OutboxInv, DaemonInv
    <3> QED BY <1>18, <3>1, <3>2
  <2>3. InTurn(cs, box, disk) /\ cs' = cs BY <1>2 DEF OutboxInv, DaemonInv
  <2> HIDE DEF cs
  <2>4. InTurn(cs, box, disk)' BY <1>26, <2>3, OnwardInTurn
  <2>5. ASSUME NEW j \in DOMAIN ran'
        PROVE  /\ receipts'[ran'[j]] # "none"
               /\ \A e \in Commands : e < ran'[j] => Over(e, box, disk)'
    <3>1. receipts[ran[j]] # "none" /\ \A e \in Commands : e < ran[j] => Over(e, box, disk)
      BY <1>2, <2>5 DEF OutboxInv, DaemonInv
    <3> QED BY <1>2, <1>18, <3>1
  <2> QED BY <2>1, <2>2, <2>4, <2>5 DEF DaemonInv, cs
<1>28. NoneOvertakes' BY <1>2 DEF OutboxInv, NoneOvertakes
<1>29. ASSUME NEW p \in Paths PROVE Moved(p) /\ \A m \in Range(down'[p]) : AnswerInv(m)'
  <2>1. Laned' = Laned BY <1>2 DEF Laned
  <2>2. \A m \in Range(down[p]) : AnswerInv(m) BY DEF OutboxInv
  <2> QED BY <1>2, <2>1, <2>2, SameAnswer DEF Moved
<1>30. OnwardKeeps BY <1>2, <1>13, <1>25, <1>27, <1>28, <1>29 DEF OnwardKeeps
<1> QED BY <1>14, <1>26, <1>30, OnwardStep

-----------------------------------------------------------------------------
(* The invariant. *)

\* It holds at the start, when nothing was issued.
LEMMA OutboxStart == Init => OutboxInv
<1> SUFFICES ASSUME Init PROVE OutboxInv
  OBVIOUS
<1>1. /\ box = EmptyBox /\ disk = [c \in Commands |-> "none"] /\ app = "up"
      /\ active = NoPath /\ draining = NoPath /\ owed = <<>>
      /\ up = [p \in Paths |-> <<>>] /\ down = up /\ lane = <<>> /\ receipts = disk
      /\ ran = <<>> /\ refused = {} /\ issued = 0 /\ left = MaxEvents
  BY DEF Init
<1>2. /\ box \in Boxes /\ box.rec = [c \in Commands |-> "none"]
      /\ box.inFlight = <<>> /\ box.fenced = {} /\ box.acking = {}
      /\ box.timer = {} /\ box.armed = {} /\ box.chain = <<>>
  BY <1>1, EmptyFields
<1>3. Types
  <2>1. /\ <<>> \in Seq(Commands) /\ <<>> \in Seq(Asks) /\ <<>> \in Seq(Answers)
        /\ <<>> \in Seq(Jobs)
    BY EmptySeq
  <2>2. disk \in Disks /\ receipts \in [Commands -> Results \cup {"none"}] BY <1>1 DEF Disks
  <2>3. issued \in 0..MaxCommands /\ left \in 0..MaxEvents BY <1>1, BoundsAssumption
  <2> QED BY <1>1, <1>2, <2>1, <2>2, <2>3 DEF Types
<1>4. \A c \in Commands : disk[c] = "none" /\ receipts[c] = "none" /\ box.rec[c] = "none" BY <1>1, <1>2
<1>5. BoxInv(box, disk)
  <2>1. Range(box.inFlight) = {} /\ IsInjective(box.inFlight) BY <1>2 DEF Range, IsInjective
  <2>2. \A c \in Commands : RecordInv(c, box.rec[c], disk) BY <1>4 DEF RecordInv
  <2>3. SavesInv(box, disk) BY <1>2, <1>4 DEF SavesInv
  <2>4. BoxCore(box, disk) BY <1>1, <1>2, <1>4, <2>1, <2>2, <2>3 DEF BoxCore
  <2> QED BY <1>2, <2>4 DEF BoxInv
<1>6. FlightInv(box, disk, owed) BY <1>1, <1>2 DEF FlightInv, InTurn, Range
<1>7. \A p \in Paths : UpInv(up[p], box, disk) /\ \A m \in Range(down[p]) : AnswerInv(m)
  <2>1. \A p \in Paths : up[p] = <<>> /\ down[p] = <<>> BY <1>1
  <2>2. UpInv(<<>>, box, disk) /\ Range(<<>>) = {} BY DEF UpInv, Range
  <2> QED BY <2>1, <2>2
<1>8. DaemonInv
  <2>1. Laned = {} /\ InTurn([i \in DOMAIN lane |-> lane[i].c], box, disk)
    BY <1>1 DEF Laned, InTurn
  <2> QED BY <1>1, <1>4, <2>1 DEF DaemonInv
<1>9. NoneOvertakes BY <1>1 DEF NoneOvertakes
<1> QED BY <1>1, <1>3, <1>5, <1>6, <1>7, <1>8, <1>9 DEF OutboxInv

\* Every step keeps it.
LEMMA OutboxStep == OutboxInv /\ [Next]_vars => OutboxInv'
<1> SUFFICES ASSUME OutboxInv, [Next]_vars PROVE OutboxInv'
  OBVIOUS
<1>1. CASE UNCHANGED vars
  <2>1. /\ box' = box /\ disk' = disk /\ app' = app /\ active' = active /\ draining' = draining
        /\ owed' = owed /\ up' = up /\ down' = down /\ lane' = lane /\ receipts' = receipts
        /\ ran' = ran /\ refused' = refused /\ issued' = issued /\ left' = left
    BY <1>1 DEF vars, client, net, daemon
  <2>2. Types' BY <2>1 DEF OutboxInv, Types
  <2>3. Forward BY <2>1 DEF Forward, Laned
  <2>4. DaemonKeeps BY <2>1, <2>3, RanSame, LaneSame DEF DaemonKeeps, Moved
  <2> QED BY <2>2, <2>3, <2>4, DaemonStep
<1>2. CASE Enqueue \/ Saved \/ SaveFails BY <1>2, EnqueueKeeps, SavedKeeps, SaveFailsKeeps
<1>3. CASE Connect \/ Lose \/ Switch \/ FinishDrain \/ Failover
  BY <1>3, ConnectKeeps, LoseKeeps, SwitchKeeps, FinishDrainKeeps, FailoverKeeps
<1>4. CASE \E c \in Commands : Ask(c) \/ Retry(c) BY <1>4, AskKeeps, RetryKeeps
<1>5. CASE \E c \in Commands, kind \in {"seen", "taken"} : Observe(c, kind) BY <1>5, ObserveKeeps
<1>6. CASE Crash \/ initialize BY <1>6, CrashKeeps, initializeKeeps
<1>7. CASE recordCommand \/ RollBack \/ Restart
  BY <1>7, recordCommandKeeps, RollBackKeeps, RestartKeeps
<1>8. CASE \E p \in Paths : Receive(p) \/ Reads(p) \/ Vanish(p)
  BY <1>8, ReceiveKeeps, AdmitKeeps, StatusStep, RefuseStep, VanishKeeps DEF Reads
<1> QED BY <1>1, <1>2, <1>3, <1>4, <1>5, <1>6, <1>7, <1>8 DEF Next

\* So it holds of every behaviour.
LEMMA OutboxAlways == Spec => []OutboxInv
BY OutboxStart, OutboxStep, PTL DEF Spec

\* Whatever is cut, switched, refused or restarted, the outbox, the disk, the paths and the
\* receipts hold what they should, and no command is in flight twice.
THEOREM OutboxTypes == Spec => []TypeOK
<1>1. OutboxInv => TypeOK
  <2> SUFFICES ASSUME OutboxInv PROVE TypeOK
    OBVIOUS
  <2>1. Types /\ box \in Boxes /\ IsInjective(box.inFlight)
    BY ContextHolds DEF OutboxInv, BoxCore
  <2>2. /\ box.rec \in [Commands -> States] /\ box.inFlight \in Seq(Commands)
        /\ box.fenced \in SUBSET Commands /\ box.acking \in SUBSET Commands
        /\ box.timer \in SUBSET Commands /\ box.armed \in SUBSET Commands
        /\ box.attempts \in [Commands -> 0..MaxRetries]
    BY <2>1, BoxFields
  <2> QED BY <2>1, <2>2 DEF TypeOK, Types, Disks, States
<1> QED BY <1>1, OutboxAlways, PTL

\* The daemon decides on commands in the order they were issued, except those it refused
\* without a receipt, over any number of paths and with any window (ADR 0114).
THEOREM CommandsKeepOrder == Spec => []NoneOvertakes
<1>1. OutboxInv => NoneOvertakes BY DEF OutboxInv
<1> QED BY <1>1, OutboxAlways, PTL

\* A command the daemon carried out is shown as failed only if the daemon refused an attempt
\* of it: a status answer never gives up a command on its way (command-status.ts:82-100).
THEOREM FailuresAreReported == Spec => []FailedForAReason
<1>1. OutboxInv => FailedForAReason
  <2> SUFFICES ASSUME OutboxInv, NEW c \in Commands, box.rec[c] = "failed", receipts[c] = "acked"
               PROVE  c \in refused
    BY DEF FailedForAReason
  <2>1. RecordInv(c, box.rec[c], disk) BY ContextHolds DEF BoxCore
  <2> QED BY <2>1 DEF RecordInv, GivenUp
<1> QED BY <1>1, OutboxAlways, PTL

-----------------------------------------------------------------------------
(* The outbox and the daemon implement CommandOnce. *)

\* What the client keeps of each command, as CommandOnce sees it.
KeptAll == [c \in Commands |-> Kept(c)]

\* Only the end of a write and the daemon's decision are seen there.
LEMMA OthersUnseen ==
  ASSUME OutboxInv, [Next]_vars
  PROVE  Saved \/ recordCommand \/ (disk' = disk /\ receipts' = receipts /\ ran' = ran)
<1>1. CASE UNCHANGED vars BY <1>1 DEF vars, client, daemon
<1>2. CASE Enqueue \/ SaveFails BY <1>2 DEF Enqueue, SaveFails, daemon
<1>3. CASE Connect \/ Lose \/ Switch \/ FinishDrain \/ Failover
  BY <1>3 DEF Connect, Lose, Switch, FinishDrain, Failover, daemon
<1>4. CASE \E c \in Commands : Ask(c) \/ Retry(c) BY <1>4 DEF Ask, Retry, daemon
<1>5. CASE \E c \in Commands, kind \in {"seen", "taken"} : Observe(c, kind)
  BY <1>5 DEF Observe, daemon
<1>6. CASE Crash \/ initialize BY <1>6 DEF Crash, initialize, daemon
<1>7. CASE RollBack \/ Restart BY <1>7 DEF RollBack, Restart, client
<1>8. CASE \E p \in Paths : Receive(p) \/ Reads(p) \/ Vanish(p)
  BY <1>8 DEF Receive, Reads, Admit, Status, Refuse, Vanish, client, daemon
<1> QED BY <1>1, <1>2, <1>3, <1>4, <1>5, <1>6, <1>7, <1>8 DEF Next

\* A write that ends saves the command, or shows that it failed or is done.
LEMMA SavedPromised ==
  ASSUME OutboxInv, Saved
  PROVE  \/ KeptAll' = KeptAll /\ receipts' = receipts /\ ran' = ran
         \/ \E c \in Commands : Promise!Save(c) \/ Promise!Fail(c) \/ Promise!Finish(c)
<1> DEFINE c == Head(box.chain).c
           op == Head(box.chain)
           to == IF op.kind = "save" THEN "pending" ELSE box.rec[c]
<1>1. Context(disk) /\ box \in Boxes /\ BoxCore(box, disk) /\ Types BY ContextHolds DEF OutboxInv
<1>2. /\ box.chain # <<>> /\ disk' = [disk EXCEPT ![c] = Retained(to)]
      /\ receipts' = receipts /\ ran' = ran
  BY DEF Saved, daemon
<1>3. app # "down" BY <1>2 DEF OutboxInv
<1>4. op = box.chain[1] /\ 1 \in DOMAIN box.chain /\ c \in Commands BY <1>1, <1>2, BecameState
<1>5. OperationInv(op, box, disk) /\ RecordInv(c, box.rec[c], disk) /\ box.rec[c] \in States
  BY <1>1, <1>4, BoxFields DEF BoxCore
<1>6. disk \in Disks /\ receipts[c] \in Results \cup {"none"} BY <1>1, <1>4 DEF Types
<1>7. disk[c] \in {"none", "pending", "delivered", "failed"} BY <1>4, <1>6 DEF Disks
<1>8. op.kind = "save" => box.rec[c] = "saving" BY <1>5 DEF OperationInv
<1>9. op.kind # "save" => Known(c, disk) BY <1>5 DEF OperationInv
<1> HIDE DEF op
<1>10. PICK x \in Commands : x = c BY <1>4
<1> HIDE DEF c
<1>11. /\ disk'[x] = Retained(to)
       /\ \A e \in Commands : e # x => disk'[e] = disk[e]
  BY <1>2, <1>6, <1>10 DEF Disks
<1>12. KeptAll' = [KeptAll EXCEPT ![x] = Kept(x)']
  <2>1. \A e \in Commands : e # x => Kept(e)' = Kept(e) BY <1>2, <1>11 DEF Kept
  <2> QED BY <2>1 DEF KeptAll
<1>13. KeptAll[x] = Kept(x) BY DEF KeptAll
<1>14. Kept(x)' = Kept(x) => KeptAll' = KeptAll
  <2>1. \A e \in Commands : e # x => Kept(e)' = Kept(e) BY <1>2, <1>11 DEF Kept
  <2> QED BY <2>1 DEF KeptAll
<1>15. \/ Kept(x)' = Kept(x)
       \/ Kept(x) = "new" /\ Kept(x)' = "saved"
       \/ Kept(x) = "saved" /\ Kept(x)' = "failed"
       \/ Kept(x) \in {"saved", "failed"} /\ receipts[x] = "acked" /\ Kept(x)' = "done"
  <2>1. CASE op.kind = "save"
    <3>1. disk[x] = "none" /\ receipts[x] = "none" BY <1>5, <1>8, <1>10, <2>1 DEF RecordInv
    <3>2. disk'[x] = "pending" BY <1>11, <2>1 DEF Retained
    <3> QED BY <3>1, <3>2 DEF Kept
  <2>2. CASE op.kind # "save"
    <3>1. to = box.rec[x] /\ Known(x, disk) BY <1>9, <1>10, <2>2
    <3>2. RecordInv(x, to, disk) BY <1>5, <1>10, <3>1
    <3>3. to \in {"none", "pending", "delivered", "failed", "acked"}
      BY <1>5, <1>10, <3>1, <3>2 DEF States, Results, RecordInv, Known
    <3>4. disk[x] \in {"none", "pending", "delivered", "failed"} BY <1>7, <1>10
    <3> HIDE DEF to
    <3>5. CASE to = "none" BY <1>2, <1>3, <1>11, <3>2, <3>5 DEF Retained, RecordInv, Kept
    <3>6. CASE to \in {"pending", "delivered"}
      BY <1>2, <1>11, <3>2, <3>6 DEF Retained, RecordInv, Kept
    <3>7. CASE to = "failed"
      <4>1. disk'[x] = "failed" BY <1>11, <3>7 DEF Retained
      <4>2. disk[x] # "none" BY <3>1, <3>2, <3>7 DEF RecordInv, Known
      <4> QED BY <3>4, <4>1, <4>2 DEF Kept
    <3>8. CASE to = "acked"
      <4>1. disk'[x] = "none" BY <1>11, <3>8 DEF Retained
      <4>2. receipts[x] = "acked" BY <3>2, <3>8 DEF RecordInv
      <4> QED BY <1>2, <3>4, <4>1, <4>2 DEF Kept
    <3> QED BY <3>3, <3>5, <3>6, <3>7, <3>8
  <2> QED BY <2>1, <2>2
<1>16. CASE Kept(x)' = Kept(x) BY <1>2, <1>14, <1>16
<1>17. CASE Kept(x) = "new" /\ Kept(x)' = "saved"
  BY <1>2, <1>12, <1>13, <1>17 DEF Promise!Save, KeptAll
<1>18. CASE Kept(x) = "saved" /\ Kept(x)' = "failed"
  BY <1>2, <1>12, <1>13, <1>18 DEF Promise!Fail, KeptAll
<1>19. CASE Kept(x) \in {"saved", "failed"} /\ receipts[x] = "acked" /\ Kept(x)' = "done"
  BY <1>2, <1>12, <1>13, <1>19 DEF Promise!Finish, KeptAll
<1> QED BY <1>15, <1>16, <1>17, <1>18, <1>19

\* The daemon decides on a saved command, once.
LEMMA recordPromised ==
  ASSUME OutboxInv, recordCommand
  PROVE  \/ KeptAll' = KeptAll /\ receipts' = receipts /\ ran' = ran
         \/ \E c \in Commands : Promise!Decide(c)
<1>1. lane # <<>> /\ disk' = disk BY DEF recordCommand, client
<1>2. Head(lane) = lane[1] /\ lane[1].c \in Commands /\ lane[1].c \in Laned BY <1>1, FirstJob
<1>3. PICK c \in Commands : c = Head(lane).c BY <1>2
<1>4. CASE receipts[c] # "none"
  <2>1. receipts' = receipts /\ ran' = ran BY <1>3, <1>4 DEF recordCommand
  <2> QED BY <1>1, <2>1 DEF KeptAll, Kept
<1>5. CASE receipts[c] = "none"
  <2>1. PICK v \in {"acked", "failed"} : /\ receipts' = [receipts EXCEPT ![c] = v]
                                         /\ ran' = Append(ran, c)
    BY <1>3, <1>5 DEF recordCommand
  <2>2. Known(c, disk) BY <1>2, <1>3 DEF OutboxInv, DaemonInv
  <2>3. disk[c] # "none" /\ disk \in Disks BY <1>5, <2>2 DEF Known, OutboxInv, Types
  <2>4. disk[c] \in {"pending", "delivered", "failed"} BY <2>3 DEF Disks
  <2>5. receipts \in [Commands -> Results \cup {"none"}] BY DEF OutboxInv, Types
  <2>6. KeptAll' = KeptAll
    <3>1. Kept(c)' = Kept(c) BY <1>1, <2>4 DEF Kept
    <3>2. \A e \in Commands : e # c => Kept(e)' = Kept(e) BY <1>1, <2>1, <2>5 DEF Kept
    <3> QED BY <3>1, <3>2 DEF KeptAll
  <2>7. KeptAll[c] \in {"saved", "failed"} BY <2>4 DEF KeptAll, Kept
  <2> QED BY <1>5, <2>1, <2>6, <2>7 DEF Promise!Decide, KeptAll
<1> QED BY <1>4, <1>5

\* The outbox and the daemon implement CommandOnce: a command is saved before it can run, runs
\* at most once, and leaves the disk only as failed or with the daemon's acceptance stored.
THEOREM CommandsRunOnce == Spec => OncePerCommand
<1>1. Init => Promise!OnceInit
  <2> SUFFICES ASSUME Init PROVE Promise!OnceInit
    OBVIOUS
  <2>1. /\ disk = [c \in Commands |-> "none"] /\ receipts = disk /\ ran = <<>>
    BY DEF Init
  <2>2. \A c \in Commands : Kept(c) = "new" BY <2>1 DEF Kept
  <2> QED BY <2>1, <2>2 DEF Promise!OnceInit
<1>2. OutboxInv /\ [Next]_vars => [Promise!OnceNext]_<<KeptAll, receipts, ran>>
  <2> SUFFICES ASSUME OutboxInv, [Next]_vars
               PROVE  Promise!OnceNext \/ (KeptAll' = KeptAll /\ receipts' = receipts /\ ran' = ran)
    OBVIOUS
  <2>1. CASE Saved BY <2>1, SavedPromised DEF Promise!OnceNext
  <2>2. CASE recordCommand BY <2>2, recordPromised DEF Promise!OnceNext
  <2>3. CASE disk' = disk /\ receipts' = receipts /\ ran' = ran BY <2>3 DEF KeptAll, Kept
  <2> QED BY <2>1, <2>2, <2>3, OthersUnseen
<1>3. OutboxInv /\ [Next]_vars => [Promise!OnceNext]_<<[c \in Commands |-> Kept(c)], receipts, ran>>
  BY <1>2 DEF KeptAll
<1> QED BY <1>1, <1>3, OutboxAlways, PTL DEF Spec, OncePerCommand, Promise!OnceSpec
=============================================================================
