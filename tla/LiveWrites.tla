----------------------------- MODULE LiveWrites -----------------------------
(***************************************************************************)
(* The daemon's event log and the buffer in front of it (store.ts,         *)
(* store-stream.ts, live-write-buffer.ts, stream-sequences.ts).  Streamed  *)
(* text is shown to subscribers under its sequence number before it is     *)
(* stored; everything else is stored first and shown after the commit.     *)
(* Each method runs to completion on the daemon's one thread, so it is an  *)
(* operator from a store s to a store; how the database takes the pinned   *)
(* batch is its argument "how".                                            *)
(*                                                                         *)
(* Abstracted: an event's payload is the sequence of pieces of text it     *)
(* carries (a follow-up of piece p is -p); bytes are counted in pieces or  *)
(* events.  Left out: batches without events; a stream inside an open      *)
(* transaction, which the engine never starts; history imports, whose      *)
(* worker writes on a connection of its own; a commit that took effect     *)
(* but was reported as failed.                                             *)
(***************************************************************************)
EXTENDS Integers, Sequences, SequencesExt, FiniteSetsExt

CONSTANTS
  Threads,          \* the threads that write to the log
  Span,             \* sequence numbers reserved at a time (65536)
  RowPieces,        \* pieces one merged row may carry (4 KiB)
  FullAt,           \* buffered events that are written at once (64 KiB)
  QuarantineAfter   \* refusals before the batch is split by thread (6)

ASSUME LiveWritesAssumption ==
  {Span, RowPieces, FullAt, QuarantineAfter} \subseteq Nat \ {0}

\* busy: contention.  refused: any other failure of the transaction.
Outcomes == {"stored", "busy", "refused"}

EmptyStore ==
  [rows |-> <<>>, tomb |-> 0, host |-> 0,                \* durable
   cursor |-> 0, reserved |-> 0,                       \* StreamSequences
   buf |-> <<>>, through |-> 0, failed |-> FALSE, strikes |-> 0,
   shown |-> 0, out |-> <<>>]                          \* publishedSeq, publications

-----------------------------------------------------------------------------
(* Sequence numbers (stream-sequences.ts). *)

StoredHead(s) == Max({0, s.tomb} \cup {r.seq : r \in Range(s.rows)})

\* headSeq(), as every reader between two steps of the daemon finds it.
HeadSeq(s) == IF s.buf = <<>> THEN StoredHead(s) ELSE Last(s.buf).seq

Following(s, after) == Max({s.cursor, after}) + 1

\* Mutant of ReplaySafe: every cursor within the log may be replayed from.
AnyCursorSafe(s, after) == after <= StoredHead(s)
ReplaySafe(s, after) ==
  /\ after <= StoredHead(s) \/ after <= s.reserved
  /\ after \in {0, StoredHead(s)} \cup {r.seq : r \in Range(s.rows)}

\* initialize() over what a crash left on disk.
Recovered(s) ==
  [EmptyStore EXCEPT !.rows = s.rows, !.tomb = s.tomb, !.host = s.host,
                     !.cursor = s.host, !.reserved = s.host, !.shown = StoredHead(s)]

-----------------------------------------------------------------------------
(* Rows (event-writer.ts). *)

\* The events table, in the order of its key, and the durable high-water mark.
Insert(s, e) ==
  [s EXCEPT !.rows = SelectSeq(@, LAMBDA r : r.seq < e.seq) \o <<e>>
                     \o SelectSeq(@, LAMBDA r : r.seq > e.seq),
            !.host = Max({@, e.seq})]

FollowUp(e, seq) ==
  [seq |-> seq, thread |-> e.thread, text |-> <<-Last(e.text)>>, delta |-> FALSE,
   follow |-> FALSE]

\* A row under its own number, then the metadata change it causes under a new one.
\* acc: the store, the rows nobody has seen, whether held rows take new numbers.
Persist(acc, e, seen) ==
  LET s == Insert(acc.s, e)
      n == Following(s, e.seq)
      own == IF seen THEN <<>> ELSE <<e>>
  IN IF e.follow
     THEN [s |-> Insert([s EXCEPT !.cursor = n], FollowUp(e, n)),
           rows |-> acc.rows \o own \o <<FollowUp(e, n)>>, renumber |-> TRUE]
     ELSE [acc EXCEPT !.s = s, !.rows = @ \o own]

PersistShown(acc, e) == Persist(acc, e, TRUE)

\* Mutant of PersistHeld: a held row keeps its number behind a follow-up.
PersistHeldAsIs(acc, e) == Persist(acc, e, FALSE)
PersistHeld(acc, e) ==
  LET n == Following(acc.s, StoredHead(acc.s))
  IN IF acc.renumber
     THEN Persist([acc EXCEPT !.s.cursor = n], [e EXCEPT !.seq = n], FALSE)
     ELSE Persist(acc, e, FALSE)

\* Adjacent deltas of one thread become one row under the last one's number.
Merged(rows, e) ==
  IF /\ rows # <<>>
     /\ Last(rows).delta /\ e.delta
     /\ Last(rows).thread = e.thread
     /\ Len(Last(rows).text) + Len(e.text) <= RowPieces
  THEN Append(Front(rows), [e EXCEPT !.text = Last(rows).text \o @])
  ELSE Append(rows, e)

CompactDeltas(events) == FoldLeft(Merged, <<>>, events)

-----------------------------------------------------------------------------
(* The pinned batch (store-stream.ts). *)

Publish(s, events) ==
  IF events = <<>> THEN s
  ELSE [s EXCEPT !.out = Append(@, events), !.shown = Max({@, Last(events).seq})]

\* The buffer without these threads; an empty one is healthy again.
Released(s, threads) ==
  LET rest == SelectSeq(s.buf, LAMBDA e : e.thread \notin threads)
  IN [s EXCEPT !.buf = rest, !.failed = @ /\ rest # <<>>]

\* write(): one transaction for these threads' share of the batch.
\* Mutant of Write: what was shown is forgotten while other shares still wait.
WriteForgetsShown(s, threads) ==
  LET mine(e) == e.thread \in threads
      share == SelectSeq(s.buf, mine)
      seen == SelectSeq(share, LAMBDA e : e.seq <= s.through)
      held == SelectSeq(share, LAMBDA e : e.seq > s.through)
      first == FoldLeft(PersistShown, [s |-> s, rows |-> <<>>, renumber |-> FALSE],
                        CompactDeltas(seen))
      last == FoldLeft(PersistHeld, first, held)
  IN Publish([Released(last.s, threads) EXCEPT !.through = 0], last.rows)
Write(s, threads) ==
  LET mine(e) == e.thread \in threads
      share == SelectSeq(s.buf, mine)
      seen == SelectSeq(share, LAMBDA e : e.seq <= s.through)
      held == SelectSeq(share, LAMBDA e : e.seq > s.through)
      first == FoldLeft(PersistShown, [s |-> s, rows |-> <<>>, renumber |-> FALSE],
                        CompactDeltas(seen))
      last == FoldLeft(PersistHeld, first, held)
      done == Released(last.s, threads)
  IN Publish([done EXCEPT !.through = IF done.buf = <<>> THEN 0 ELSE @], last.rows)

BufferedThreads(s) == {e.thread : e \in Range(s.buf)}

\* attempt() before the batch has been refused too often.
Attempt(s, how) ==
  IF how = "stored" THEN [Write(s, BufferedThreads(s)) EXCEPT !.strikes = 0]
  ELSE [s EXCEPT !.failed = TRUE, !.strikes = IF how = "refused" THEN @ + 1 ELSE @]

\* threads(), oldest first.
Shares(s) == FoldLeft(LAMBDA seen, e : IF e.thread \in Range(seen) THEN seen
                                       ELSE Append(seen, e.thread), <<>>, s.buf)

\* attempt() by thread: those in bad are still refused and lose their share;
\* contention stops the pass after n threads.
Isolate(s, bad, n) ==
  LET one(acc, t) == IF t \in bad THEN Released(acc, {t}) ELSE Write(acc, {t})
      done == FoldLeft(one, s, SubSeq(Shares(s), 1, n))
  IN [done EXCEPT !.strikes = IF done.buf = <<>> THEN 0 ELSE @]

\* flush(): callers have found no failed batch waiting.
Flush(s, how) == IF s.buf = <<>> THEN s ELSE Attempt(s, how)

\* sequences.prepare(): a range is durable before a number of it is used.  Its
\* transaction, like any other, writes the pinned batch first.
Reserve(s, n, after, how) ==
  LET drained == Flush(s, how)
      end == after + Max({Span, n})
  IN IF after + n <= s.reserved THEN s
     ELSE IF drained.failed THEN drained
     ELSE [drained EXCEPT !.host = Max({@, end}), !.reserved = end]

\* The next numbers for a batch of events without one.
Numbered(s, events) ==
  LET first == Following(s, HeadSeq(s))
  IN [i \in DOMAIN events |-> [events[i] EXCEPT !.seq = first + i - 1]]

PublishPending(s) ==
  Publish([s EXCEPT !.through = Last(s.buf).seq],
          SelectSeq(s.buf, LAMBDA e : e.seq > s.through))

\* append(): the batch is pinned, its numbers are reserved, then it is shown (text
\* only) or written at once (anything else).
\* Mutant of AppendLive: the batch is shown before its numbers are reserved.
AppendUnreserved(s, batch, how) ==
  LET events == Numbered(s, batch)
      text == \A i \in DOMAIN events : events[i].delta
      pinned == [s EXCEPT !.buf = @ \o events, !.cursor = Last(events).seq]
      open == IF text THEN PublishPending(pinned) ELSE pinned
  IN IF ~text \/ Len(open.buf) >= FullAt THEN Attempt(open, how) ELSE open
AppendLive(s, batch, how) ==
  LET events == Numbered(s, batch)
      text == \A i \in DOMAIN events : events[i].delta
      pinned == [s EXCEPT !.buf = @ \o events, !.cursor = Last(events).seq]
      ready == Reserve(pinned, Len(events), events[1].seq - 1, how)
      open == IF text THEN PublishPending(ready) ELSE ready
  IN IF ready.failed \/ events[1].thread \notin BufferedThreads(ready) THEN ready
     ELSE IF ~text \/ Len(open.buf) >= FullAt THEN Attempt(open, how)
     ELSE open

\* prepare() then append(): bufferLiveWrite as the engine calls it.  A failed first
\* step throws, and the engine keeps the facts for later.
Admitted(s, how) == Reserve(s, 1, HeadSeq(s), how)

\* appendEvents(): a transaction of its own, shown once committed.
AppendEvents(s, batch) ==
  LET acc == FoldLeft(PersistHeld, [s |-> s, rows |-> <<>>, renumber |-> TRUE], batch)
  IN Publish(acc.s, SelectSeq(acc.rows, LAMBDA e : e.seq > s.shown))

\* deleteThread(): the rows go, a tombstone takes a number nobody is told of.
DeleteRows(s, t) ==
  LET n == Following(s, HeadSeq(s))
  IN [s EXCEPT !.rows = SelectSeq(@, LAMBDA r : r.thread # t), !.tomb = n, !.cursor = n,
               !.host = Max({@, n})]
=============================================================================
