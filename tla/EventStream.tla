----------------------------- MODULE EventStream -----------------------------
(***************************************************************************)
(* The event log of one run and a client that streams it: _append_event    *)
(* and list_events (persistence.py), WorkflowRun.events and .stream        *)
(* (userplane.py), and the SSE route (asgi.py), whose loop is the same.    *)
(*                                                                         *)
(* event_id is a BIGSERIAL: a transaction draws it when it inserts the     *)
(* event, and the event becomes visible when the transaction commits.      *)
(* Transactions that report on different tasks of a run do not exclude     *)
(* each other, so they may commit in another order than they drew.         *)
(***************************************************************************)
EXTENDS Naturals, Sequences, FiniteSetsExt

CONSTANTS
  MaxEvents,     \* bound on the events of the run
  Limit,         \* the page size: limit of events()
  BatchFloor,    \* 32 in events()
  BatchFactor,   \* 4 in events()
  BatchCap,      \* 1001 in events()
  MaxReconnects  \* bound on the reconnections of the client

ASSUME StreamAssumption ==
  /\ MaxEvents \in Nat /\ MaxReconnects \in Nat
  /\ Limit \in Nat \ {0} /\ BatchFloor \in Nat \ {0} /\ BatchFactor \in Nat \ {0}
  /\ BatchCap \in Nat /\ BatchCap > Limit

VARIABLES
  lastId,      \* the last event_id drawn
  state,       \* what became of the transaction that drew an event_id
  kind,        \* "public", "internal" or "end": the event that ends the run
  runEnded,    \* the status of the run is terminal
  overtaken,   \* some event has committed before one with a smaller id
  pc,          \* where the stream is
  cursor,      \* stream(): the last sequence consumed
  position,    \* events(): its own cursor while it collects a page
  page,        \* the events of the page that are not yet yielded
  room,        \* how many more events the page may take
  hasMore,     \* has_more of the page
  delivered,   \* what the client has received
  reconnects   \* how often the client has reconnected

logVars == <<lastId, state, kind, runEnded, overtaken>>

readerVars == <<pc, cursor, position, page, room, hasMore, delivered, reconnects>>

vars == <<logVars, readerVars>>

Ids == 1 .. MaxEvents

TypeOK ==
  /\ lastId \in 0 .. MaxEvents
  /\ state \in [Ids -> {"none", "open", "committed", "rolledback"}]
  /\ kind \in [Ids -> {"public", "internal", "end"}]
  /\ runEnded \in BOOLEAN
  /\ overtaken \in BOOLEAN
  /\ pc \in {"read", "yield", "done"}
  /\ cursor \in 0 .. MaxEvents
  /\ position \in 0 .. MaxEvents
  /\ page \in SUBSET Ids
  /\ room \in 0 .. Limit
  /\ hasMore \in BOOLEAN
  /\ delivered \in Seq(Ids)
  /\ reconnects \in 0 .. MaxReconnects

Init ==
  /\ lastId = 0
  /\ state = [i \in Ids |-> "none"]
  /\ kind = [i \in Ids |-> "public"]
  /\ runEnded = FALSE
  /\ overtaken = FALSE
  /\ pc = "read"
  /\ cursor = 0
  /\ position = 0
  /\ page = {}
  /\ room = Limit
  /\ hasMore = FALSE
  /\ delivered = <<>>
  /\ reconnects = 0

-----------------------------------------------------------------------------
\* The log.

\* _append_event.  The transactions that end a run update its row first, so only
\* one of them is under way at a time, and none after one has committed.
AppendEvent(k) ==
  /\ lastId < MaxEvents
  /\ k = "end" => /\ ~runEnded
                  /\ \A i \in Ids : ~(state[i] = "open" /\ kind[i] = "end")
  /\ lastId' = lastId + 1
  /\ state' = [state EXCEPT ![lastId + 1] = "open"]
  /\ kind' = [kind EXCEPT ![lastId + 1] = k]
  /\ UNCHANGED <<runEnded, overtaken, readerVars>>

Commit(i) ==
  /\ state[i] = "open"
  /\ state' = [state EXCEPT ![i] = "committed"]
  /\ runEnded' = (runEnded \/ kind[i] = "end")
  /\ overtaken' = (overtaken \/ \E j \in 1 .. i - 1 : state[j] = "open")
  /\ UNCHANGED <<lastId, kind, readerVars>>

\* A transaction that fails leaves a gap in the ids.
Rollback(i) ==
  /\ state[i] = "open"
  /\ state' = [state EXCEPT ![i] = "rolledback"]
  /\ UNCHANGED <<lastId, kind, runEnded, overtaken, readerVars>>

-----------------------------------------------------------------------------
\* The reader.

\* Mutant: one row more than the limit.
First_OneMore(S, n) == {i \in S : Cardinality({j \in S : j < i}) <= n}

\* The n smallest members of a set of ids: ORDER BY event_id LIMIT n.
First(S, n) == {i \in S : Cardinality({j \in S : j <= i}) <= n}

\* list_events.
ListEvents(after, n) == First({i \in Ids : state[i] = "committed" /\ i > after}, n)

BatchLimit == Min({BatchCap, Max({BatchFloor, room * BatchFactor})})

\* Mutant: the rest of a full batch is skipped.
NextPosition_SkipRest(loaded, taken) ==
  IF loaded = {} THEN position ELSE Max(loaded)

\* Mutant: internal events do not advance the cursor.
NextPosition_PublicOnly(loaded, taken) ==
  IF taken = {} THEN position ELSE Max(taken)

\* Where events() continues after a batch of which it took the given events.
NextPosition(loaded, taken) ==
  IF loaded = {} THEN position
  ELSE IF Cardinality(taken) = room THEN Max(taken)
  ELSE Max(loaded)

\* has_more of a page that ends with this batch.
PageHasMore(loaded, taken) ==
  /\ Cardinality(taken) = room
  /\ Max(taken) < Max(loaded) \/ Cardinality(loaded) = BatchLimit

\* One batch of events(): internal events are passed over, and the page ends
\* when it is full or the batch was short.
ReadBatch ==
  LET loaded == ListEvents(position, BatchLimit)
      taken == First({i \in loaded : kind[i] # "internal"}, room)
  IN
  /\ pc = "read"
  /\ position' = NextPosition(loaded, taken)
  /\ page' = page \cup taken
  /\ room' = room - Cardinality(taken)
  /\ hasMore' = PageHasMore(loaded, taken)
  /\ pc' = IF Cardinality(taken) = room \/ Cardinality(loaded) < BatchLimit
           THEN "yield" ELSE "read"
  /\ UNCHANGED <<logVars, cursor, delivered, reconnects>>

\* stream() yields the events of the page one by one.
YieldEvent ==
  LET i == Min(page) IN
  /\ pc = "yield"
  /\ page # {}
  /\ page' = page \ {i}
  /\ cursor' = i
  /\ delivered' = Append(delivered, i)
  /\ UNCHANGED <<logVars, pc, position, room, hasMore, reconnects>>

\* After the page stream() ends if it was the last one and the run's snapshot is
\* terminal; otherwise it reads the next page, at once or after a pause.
FinishPage ==
  /\ pc = "yield"
  /\ page = {}
  /\ cursor' = Max({cursor, position})
  /\ position' = cursor'
  /\ room' = Limit
  /\ pc' = IF ~hasMore /\ runEnded THEN "done" ELSE "read"
  /\ UNCHANGED <<logVars, page, hasMore, delivered, reconnects>>

\* Where a client that lost its connection asks to continue: Last-Event-ID.
LastDelivered == IF delivered = <<>> THEN 0 ELSE delivered[Len(delivered)]

\* Mutant: the client asks for the last event again.
Reconnect_Inclusive ==
  /\ pc # "done"
  /\ reconnects < MaxReconnects
  /\ reconnects' = reconnects + 1
  /\ cursor' = IF LastDelivered = 0 THEN 0 ELSE LastDelivered - 1
  /\ position' = cursor'
  /\ page' = {}
  /\ room' = Limit
  /\ pc' = "read"
  /\ UNCHANGED <<logVars, hasMore, delivered>>

Reconnect ==
  /\ pc # "done"
  /\ reconnects < MaxReconnects
  /\ reconnects' = reconnects + 1
  /\ cursor' = LastDelivered
  /\ position' = cursor'
  /\ page' = {}
  /\ room' = Limit
  /\ pc' = "read"
  /\ UNCHANGED <<logVars, hasMore, delivered>>

-----------------------------------------------------------------------------
ReaderStep == ReadBatch \/ YieldEvent \/ FinishPage

Next ==
  \/ \E k \in {"public", "internal", "end"} : AppendEvent(k)
  \/ \E i \in Ids : Commit(i)
  \/ \E i \in Ids : Rollback(i)
  \/ ReaderStep
  \/ Reconnect

\* The reader's loop is never left before its end, and a transaction ends.
Fairness ==
  /\ WF_vars(ReaderStep)
  /\ \A i \in Ids : WF_vars(Commit(i) \/ Rollback(i))

Spec == Init /\ [][Next]_vars /\ Fairness

-----------------------------------------------------------------------------
(***************************************************************************)
(* Properties.                                                             *)
(***************************************************************************)

Public(i) == state[i] = "committed" /\ kind[i] # "internal"

\* Whatever batches, pages, gaps, internal events and reconnections come in
\* between, the client receives events in the order of their ids, none twice.
DeliveredOnce ==
  \A k \in 1 .. Len(delivered) - 1 : delivered[k] < delivered[k + 1]

\* RunEvent.sequence is documented as a "Monotonic event ID used as a reconnect
\* cursor": what the cursor of events() has passed was delivered, or is on the
\* page about to be delivered.
NothingSkipped ==
  \A i \in Ids : Public(i) /\ i <= position =>
    i \in page \/ \E k \in 1 .. Len(delivered) : delivered[k] = i

\* As long as transactions commit in the order in which they drew their ids,
\* batching, paging, internal events, gaps and reconnections skip nothing.
OrderedNothingSkipped == ~overtaken => NothingSkipped

\* A public event that was committed reaches the client, unless the stream ended
\* or events have overtaken each other.
EventDelivered ==
  \A i \in Ids :
    Public(i) ~> \/ pc = "done"
                 \/ overtaken
                 \/ \E k \in 1 .. Len(delivered) : delivered[k] = i

\* The stream of a run that has ended comes to its end.
StreamEnds == runEnded ~> (pc = "done")

\* The stream of a run that ended has yielded the event that ended it, as
\* test_async_event_stream_omits_worker_protocol_events expects of the last
\* streamed event.
EndIsStreamed ==
  pc = "done" => \E k \in 1 .. Len(delivered) : kind[delivered[k]] = "end"

=============================================================================
