-------------------------- MODULE EventStreamProofs --------------------------
(***************************************************************************)
(* The event stream delivers in order, once, and skips nothing while       *)
(* transactions commit in the order of their ids: proved for every number  *)
(* of events, page size, batch limit and number of reconnections.          *)
(***************************************************************************)
EXTENDS EventStream, SetLemmas, FiniteSetTheorems, TLAPS

\* What Min returns: the smallest id of a page.
LEMMA MinOfIds ==
  ASSUME NEW S \in SUBSET Ids, S # {}
  PROVE  Min(S) \in S /\ \A y \in S : Min(S) <= y
<1>1. S \in SUBSET Nat BY StreamAssumption DEF Ids
<1>2. \E x \in S : \A y \in S : x <= y BY <1>1, NatMin
<1> QED BY <1>2 DEF Min

\* What Max returns: the last id of a batch.
LEMMA MaxOfIds ==
  ASSUME NEW S \in SUBSET Ids, S # {}
  PROVE  Max(S) \in S /\ \A y \in S : Max(S) >= y
<1>1. \E x \in S : \A y \in S : y <= x BY StreamAssumption, IntervalMax DEF Ids
<1>2. \A x, y \in S : y <= x <=> x >= y OBVIOUS
<1> QED BY <1>1, <1>2 DEF Max

\* Ids are finitely many, so every set of them has a cardinality.
LEMMA IdsFinite ==
  ASSUME NEW S \in SUBSET Ids
  PROVE  IsFiniteSet(S) /\ Cardinality(S) \in Nat
<1>1. IsFiniteSet(Ids) BY StreamAssumption, FS_Interval DEF Ids
<1>2. IsFiniteSet(S) BY <1>1, FS_Subset
<1> QED BY <1>2, FS_CardinalityType

\* LIMIT n returns no more than n rows.
LEMMA FirstAtMost ==
  ASSUME NEW S \in SUBSET Ids, NEW n \in Nat
  PROVE  Cardinality(First(S, n)) <= n
<1> DEFINE F == First(S, n)
<1>1. F \in SUBSET S /\ F \in SUBSET Ids BY DEF First
<1>2. CASE F = {} BY <1>2, FS_EmptySet
<1>3. CASE F # {}
  <2>1. PICK m \in F : \A y \in F : y <= m
    BY <1>1, <1>3, StreamAssumption, IntervalMax DEF Ids
  <2> DEFINE G == {j \in S : j <= m}
  <2>2. Cardinality(G) <= n BY <2>1 DEF First
  <2>3. F \in SUBSET G BY <1>1, <2>1, StreamAssumption DEF Ids
  <2>4. IsFiniteSet(G) /\ Cardinality(G) \in Nat /\ Cardinality(F) \in Nat
    BY <1>1, IdsFinite
  <2>5. Cardinality(F) <= Cardinality(G) BY <2>3, <2>4, FS_Subset
  <2> QED BY <2>2, <2>4, <2>5
<1> QED BY <1>2, <1>3

\* ORDER BY event_id: what is returned has nothing missing below it.
LEMMA FirstDownClosed ==
  ASSUME NEW S \in SUBSET Ids, NEW n \in Nat,
         NEW i \in First(S, n), NEW j \in S, j <= i
  PROVE  j \in First(S, n)
<1> DEFINE Gi == {k \in S : k <= i}
           Gj == {k \in S : k <= j}
<1>1. i \in S /\ Cardinality(Gi) <= n BY DEF First
<1>2. Gj \in SUBSET Gi
  <2>1. \A k \in S : k <= j => k <= i BY <1>1, StreamAssumption DEF Ids
  <2> QED BY <2>1
<1>3. IsFiniteSet(Gi) /\ Cardinality(Gi) \in Nat /\ Cardinality(Gj) \in Nat BY IdsFinite
<1>4. Cardinality(Gj) <= Cardinality(Gi) BY <1>2, <1>3, FS_Subset
<1>5. Cardinality(Gj) <= n BY <1>1, <1>3, <1>4
<1> QED BY <1>5 DEF First

\* A result shorter than its limit is the whole of it.
LEMMA FirstShortIsAll ==
  ASSUME NEW S \in SUBSET Ids, NEW n \in Nat, Cardinality(First(S, n)) < n
  PROVE  First(S, n) = S
<1> DEFINE F == First(S, n)
<1>1. F \in SUBSET S BY DEF First
<1>2. ASSUME S \ F # {} PROVE FALSE
  <2>1. S \ F \in SUBSET Nat
    <3>1. \A x \in S : x \in Nat BY StreamAssumption DEF Ids
    <3> QED BY <3>1
  <2>2. PICK x \in S \ F : \A y \in S \ F : x <= y BY <1>2, <2>1, NatMin
  <2> DEFINE G == {j \in S : j <= x}
  <2>3. G \in SUBSET (F \cup {x})
    <3> SUFFICES ASSUME NEW j \in G, j # x PROVE j \in F OBVIOUS
    <3>1. j < x BY <2>2, StreamAssumption DEF Ids
    <3>2. j \notin S \ F BY <2>2, <3>1, StreamAssumption DEF Ids
    <3> QED BY <3>2
  <2>4. IsFiniteSet(F) /\ Cardinality(F) \in Nat /\ Cardinality(G) \in Nat
    BY <1>1, IdsFinite
  <2>5. IsFiniteSet(F \cup {x}) /\ Cardinality(F \cup {x}) = Cardinality(F) + 1
    BY <2>2, <2>4, FS_AddElement
  <2>6. Cardinality(G) <= Cardinality(F \cup {x}) BY <2>3, <2>5, FS_Subset
  <2>7. Cardinality(G) <= n BY <2>4, <2>5, <2>6
  <2>8. x \in F BY <2>2, <2>7 DEF First
  <2> QED BY <2>2, <2>8
<1> QED BY <1>1, <1>2

-----------------------------------------------------------------------------
(***************************************************************************)
(* The inductive invariant.                                                *)
(***************************************************************************)

\* Ids above the sequence are unused, and without an overtaking no event is
\* visible above one whose transaction is still open.
LogInv ==
  /\ \A i \in Ids : i > lastId => state[i] = "none"
  /\ ~overtaken =>
       \A i, j \in Ids : state[i] = "committed" /\ state[j] = "open" => i < j

\* The page lies between the two cursors, events() only ever stops at a visible
\* event, and it never reads for a page that is full.
ReaderInv ==
  /\ position = 0 \/ (position \in Ids /\ state[position] = "committed")
  /\ cursor <= position
  /\ \A i \in page : Public(i) /\ cursor < i /\ i <= position
  /\ pc = "read" => room > 0

\* What was delivered is visible, not beyond the cursor, and in order.
DeliveredInv ==
  /\ \A k \in 1 .. Len(delivered) :
       state[delivered[k]] = "committed" /\ delivered[k] <= cursor
  /\ \A k, m \in 1 .. Len(delivered) : k < m => delivered[k] < delivered[m]

StreamInv ==
  TypeOK /\ LogInv /\ ReaderInv /\ DeliveredInv /\ OrderedNothingSkipped

\* The limit of a batch is a number of rows.
LEMMA BatchLimitNat ==
  ASSUME room \in Nat PROVE BatchLimit \in Nat
<1> DEFINE a == room * BatchFactor
           b == Max({BatchFloor, a})
<1>1. a \in Nat BY StreamAssumption
<1> HIDE DEF a
<1>2. b \in Nat
  <2>1. \E x \in {BatchFloor, a} : \A y \in {BatchFloor, a} : x >= y
    BY <1>1, StreamAssumption
  <2>2. b \in {BatchFloor, a} BY <2>1 DEF Max
  <2> QED BY <1>1, <2>2, StreamAssumption
<1>3. BatchLimit = Min({BatchCap, b}) BY DEF BatchLimit, a
<1> HIDE DEF b
<1>4. \E x \in {BatchCap, b} : \A y \in {BatchCap, b} : x =< y
  BY <1>2, StreamAssumption
<1>5. Min({BatchCap, b}) \in {BatchCap, b} BY <1>4 DEF Min
<1> QED BY <1>2, <1>3, <1>5, StreamAssumption

\* What one batch of events() does: it takes visible public events above its
\* cursor, no more than the page has room for, moves its cursor past all of
\* them, and passes over no public event that was visible.
LEMMA Batch ==
  ASSUME TypeOK, room > 0,
         NEW loaded, loaded = ListEvents(position, BatchLimit),
         NEW taken, taken = First({i \in loaded : kind[i] # "internal"}, room),
         NEW p, p = NextPosition(loaded, taken)
  PROVE  /\ taken \in SUBSET Ids
         /\ Cardinality(taken) \in 0 .. room
         /\ \A i \in taken : Public(i) /\ position < i /\ i <= p
         /\ p = position \/ (p \in Ids /\ state[p] = "committed" /\ p > position)
         /\ \A i \in Ids : Public(i) /\ position < i /\ i <= p => i \in taken
<1> DEFINE C == {i \in Ids : state[i] = "committed" /\ i > position}
           P == {i \in loaded : kind[i] # "internal"}
<1>0. room \in Nat /\ position \in Nat BY StreamAssumption DEF TypeOK
<1>1. BatchLimit \in Nat BY <1>0, BatchLimitNat
<1>2. loaded = First(C, BatchLimit) BY DEF ListEvents
<1>3. C \in SUBSET Ids /\ loaded \in SUBSET C BY <1>2 DEF First
<1>4. P \in SUBSET Ids /\ P \in SUBSET loaded BY <1>3
<1>5. taken \in SUBSET P BY DEF First
<1>6. IsFiniteSet(taken) /\ Cardinality(taken) \in Nat BY <1>4, <1>5, IdsFinite
<1>7. Cardinality(taken) <= room BY <1>0, <1>4, FirstAtMost
<1>8. \A i \in loaded : i \in Nat /\ position < i /\ state[i] = "committed"
  BY <1>3, StreamAssumption DEF Ids
<1>9. \A i \in taken : Public(i) /\ position < i BY <1>4, <1>5, <1>8 DEF Public
\* A public event up to a row of the batch is in the batch.
<1>10. ASSUME NEW m \in loaded, NEW i \in Ids, Public(i), position < i, i <= m
       PROVE  i \in P
  <2>1. i \in C BY <1>10, StreamAssumption, <1>0 DEF Public, Ids
  <2>2. i \in loaded BY <1>1, <1>2, <1>3, <1>10, <2>1, FirstDownClosed
  <2> QED BY <1>10, <2>2 DEF Public
<1>11. CASE loaded = {}
  <2>1. p = position BY <1>11 DEF NextPosition
  <2>2. taken = {} BY <1>4, <1>5, <1>11
  <2>3. \A i \in Ids : ~(position < i /\ i <= p)
    BY <2>1, <1>0, StreamAssumption DEF Ids
  <2> QED BY <2>1, <2>2, <2>3, <1>0, <1>6, <1>7
<1>12. CASE loaded # {} /\ Cardinality(taken) = room
  <2>1. p = Max(taken) BY <1>12 DEF NextPosition
  <2>2. taken # {} BY <1>0, <1>12, FS_EmptySet
  <2>3. p \in taken /\ \A y \in taken : p >= y BY <1>4, <1>5, <2>1, <2>2, MaxOfIds
  <2>4. p \in loaded BY <1>4, <1>5, <2>3
  <2>5. ASSUME NEW i \in Ids, Public(i), position < i, i <= p PROVE i \in taken
    <3>1. i \in P BY <1>10, <2>4, <2>5
    <3> QED BY <1>0, <1>4, <2>3, <2>5, <3>1, FirstDownClosed
  <2>6. \A i \in taken : i <= p BY <2>3, <1>4, <1>5, <1>8
  <2> QED BY <1>0, <1>3, <1>4, <1>5, <1>6, <1>7, <1>8, <1>9, <2>4, <2>5, <2>6
<1>13. CASE loaded # {} /\ Cardinality(taken) # room
  <2>1. p = Max(loaded) BY <1>13 DEF NextPosition
  <2>2. p \in loaded /\ \A y \in loaded : p >= y BY <1>3, <1>13, <2>1, MaxOfIds
  <2>3. taken = P BY <1>0, <1>4, <1>6, <1>7, <1>13, FirstShortIsAll
  <2>4. \A i \in Ids : Public(i) /\ position < i /\ i <= p => i \in taken
    BY <1>10, <2>2, <2>3
  <2>5. \A i \in taken : i <= p BY <2>2, <1>4, <1>5, <1>8
  <2> QED BY <1>0, <1>3, <1>4, <1>5, <1>6, <1>7, <1>8, <1>9, <2>2, <2>4, <2>5
<1> QED BY <1>11, <1>12, <1>13

-----------------------------------------------------------------------------
(***************************************************************************)
(* The invariant holds initially and no step breaks it.                    *)
(***************************************************************************)

\* The invariant holds of an empty log and a reader at its start.
LEMMA InitStreamInv == Init => StreamInv
<1> SUFFICES ASSUME Init PROVE StreamInv OBVIOUS
<1> USE StreamAssumption DEF Init
<1>1. TypeOK
  <2>1. /\ state \in [Ids -> {"none", "open", "committed", "rolledback"}]
        /\ kind \in [Ids -> {"public", "internal", "end"}]
        /\ page \in SUBSET Ids
        /\ delivered \in Seq(Ids)
    OBVIOUS
  <2>2. /\ lastId \in 0 .. MaxEvents /\ cursor \in 0 .. MaxEvents
        /\ position \in 0 .. MaxEvents /\ room \in 0 .. Limit
        /\ reconnects \in 0 .. MaxReconnects
    OBVIOUS
  <2> QED BY <2>1, <2>2 DEF TypeOK
<1>2. LogInv BY DEF LogInv
<1>3. ReaderInv BY DEF ReaderInv
<1>4. DeliveredInv BY DEF DeliveredInv
<1>5. OrderedNothingSkipped BY DEF OrderedNothingSkipped, NothingSkipped, Public
<1> QED BY <1>1, <1>2, <1>3, <1>4, <1>5 DEF StreamInv

\* A step of the log keeps what the reader relies on.
LEMMA LogStep ==
  ASSUME StreamInv,
         \/ \E k \in {"public", "internal", "end"} : AppendEvent(k)
         \/ \E i \in Ids : Commit(i)
         \/ \E i \in Ids : Rollback(i)
  PROVE  StreamInv'
<1> USE StreamAssumption DEF StreamInv, Ids
<1>1. ASSUME NEW k \in {"public", "internal", "end"}, AppendEvent(k)
      PROVE  StreamInv'
  <2> USE <1>1 DEF AppendEvent, readerVars
  <2>1. TypeOK' BY DEF TypeOK
  <2>2. LogInv' BY DEF TypeOK, LogInv
  <2>3. \A i \in Ids : /\ state[i] = "committed" => state'[i] = "committed" /\ kind'[i] = kind[i]
                       /\ state'[i] = "committed" => state[i] = "committed"
    BY DEF TypeOK, LogInv
  <2>4. ReaderInv' BY <2>3, Zenon DEF TypeOK, ReaderInv, Public
  <2>5. DeliveredInv' BY <2>3 DEF TypeOK, DeliveredInv
  <2>6. OrderedNothingSkipped'
    BY <2>3 DEF TypeOK, OrderedNothingSkipped, NothingSkipped, Public
  <2> QED BY <2>1, <2>2, <2>4, <2>5, <2>6
<1>2. ASSUME NEW i \in Ids, Commit(i) PROVE StreamInv'
  <2> USE <1>2 DEF Commit, readerVars
  <2>1. TypeOK' BY DEF TypeOK
  <2>2. LogInv'
    <3>1. \A j \in Ids : j > lastId' => state'[j] = "none" BY DEF TypeOK, LogInv
    <3>2. ASSUME ~overtaken', NEW j \in Ids, NEW m \in Ids,
                 state'[j] = "committed", state'[m] = "open"
          PROVE  j < m
      <4>1. ~overtaken /\ state[m] = "open" /\ m # i /\ ~(m \in 1 .. i - 1)
        BY <3>2 DEF TypeOK
      <4>2. CASE j = i BY <4>1, <4>2
      <4>3. CASE j # i BY <3>2, <4>1, <4>3 DEF TypeOK, LogInv
      <4> QED BY <4>2, <4>3
    <3> QED BY <3>1, <3>2 DEF LogInv
  <2>3. \A j \in Ids : /\ state[j] = "committed" => state'[j] = "committed"
                       /\ state'[j] = "committed" => state[j] = "committed" \/ j = i
    BY DEF TypeOK
  <2>4. ReaderInv' BY <2>3 DEF TypeOK, ReaderInv, Public
  <2>5. DeliveredInv' BY <2>3 DEF TypeOK, DeliveredInv
  <2>6. OrderedNothingSkipped'
    <3>1. ~overtaken' => position < i BY DEF TypeOK, LogInv, ReaderInv
    <3> QED BY <2>3, <3>1 DEF TypeOK, OrderedNothingSkipped, NothingSkipped, Public
  <2> QED BY <2>1, <2>2, <2>4, <2>5, <2>6
<1>3. ASSUME NEW i \in Ids, Rollback(i) PROVE StreamInv'
  <2> USE <1>3 DEF Rollback, readerVars
  <2>1. TypeOK' BY DEF TypeOK
  <2>2. LogInv' BY DEF TypeOK, LogInv
  <2>3. \A j \in Ids : state[j] = "committed" <=> state'[j] = "committed"
    BY DEF TypeOK
  <2>4. ReaderInv' BY <2>3 DEF TypeOK, ReaderInv, Public
  <2>5. DeliveredInv' BY <2>3 DEF TypeOK, DeliveredInv
  <2>6. OrderedNothingSkipped'
    BY <2>3 DEF TypeOK, OrderedNothingSkipped, NothingSkipped, Public
  <2> QED BY <2>1, <2>2, <2>4, <2>5, <2>6
<1> QED BY <1>1, <1>2, <1>3

\* One batch, one yielded event and the end of a page keep the page between the
\* cursors and skip nothing.
LEMMA ReaderStepInv ==
  ASSUME StreamInv, ReaderStep PROVE StreamInv'
<1> USE StreamAssumption DEF StreamInv
<1>1. CASE ReadBatch
  <2> DEFINE loaded == ListEvents(position, BatchLimit)
             taken == First({i \in loaded : kind[i] # "internal"}, room)
  <2>1. /\ pc = "read" /\ position' = NextPosition(loaded, taken)
        /\ page' = page \cup taken /\ room' = room - Cardinality(taken)
        /\ hasMore' = PageHasMore(loaded, taken)
        /\ pc' = IF Cardinality(taken) = room \/ Cardinality(loaded) < BatchLimit
                 THEN "yield" ELSE "read"
        /\ UNCHANGED <<logVars, cursor, delivered, reconnects>>
    BY <1>1 DEF ReadBatch
  <2>2. /\ taken \in SUBSET Ids
        /\ Cardinality(taken) \in 0 .. room
        /\ \A i \in taken : Public(i) /\ position < i /\ i <= position'
        /\ \/ position' = position
           \/ position' \in Ids /\ state[position'] = "committed" /\ position' > position
        /\ \A i \in Ids : Public(i) /\ position < i /\ i <= position' => i \in taken
    BY <2>1, Batch DEF ReaderInv
  <2>3. hasMore' \in BOOLEAN BY <2>1 DEF PageHasMore
  <2> HIDE DEF taken, loaded
  <2>4. UNCHANGED <<lastId, state, kind, runEnded, overtaken>> BY <2>1 DEF logVars
  <2>5. TypeOK' BY <2>1, <2>2, <2>3, <2>4 DEF TypeOK, Ids
  <2>6. LogInv' BY <2>4 DEF LogInv
  <2>7. ReaderInv' BY <2>1, <2>2, <2>4 DEF ReaderInv, TypeOK, Public, Ids
  <2>8. DeliveredInv' BY <2>1, <2>4 DEF DeliveredInv
  <2>9. OrderedNothingSkipped'
    BY <2>1, <2>2, <2>4 DEF OrderedNothingSkipped, NothingSkipped, TypeOK, Public, Ids
  <2> QED BY <2>5, <2>6, <2>7, <2>8, <2>9
<1>2. CASE YieldEvent
  <2> DEFINE i == Min(page)
  <2>1. i \in page /\ \A y \in page : i <= y
    BY <1>2, MinOfIds DEF YieldEvent, TypeOK
  <2>2. /\ pc = "yield" /\ page' = page \ {i} /\ cursor' = i
        /\ delivered' = Append(delivered, i)
        /\ UNCHANGED <<lastId, state, kind, runEnded, overtaken>>
        /\ UNCHANGED <<pc, position, room, hasMore, reconnects>>
    BY <1>2 DEF YieldEvent, logVars
  <2> HIDE DEF i
  <2>3. TypeOK' BY <2>1, <2>2 DEF TypeOK, Ids
  <2>4. LogInv' BY <2>2 DEF LogInv
  <2>5. ReaderInv' BY <2>1, <2>2 DEF ReaderInv, TypeOK, Public, Ids
  <2>6. /\ Len(delivered') = Len(delivered) + 1
        /\ Len(delivered) \in Nat
        /\ \A k \in 1 .. Len(delivered) : delivered'[k] = delivered[k] /\ delivered[k] \in Ids
        /\ delivered'[Len(delivered) + 1] = i
    BY <2>1, <2>2 DEF TypeOK
  <2>7. DeliveredInv' BY <2>1, <2>2, <2>6, SMTT(30) DEF DeliveredInv, ReaderInv, TypeOK, Public, Ids
  <2>8. OrderedNothingSkipped'
    BY <2>1, <2>2, <2>6 DEF OrderedNothingSkipped, NothingSkipped, TypeOK, Public, Ids
  <2> QED BY <2>3, <2>4, <2>5, <2>7, <2>8
<1>3. CASE FinishPage
  <2>1. Max({cursor, position}) = position
    <3>1. \A x \in {cursor, position} : (\A y \in {cursor, position} : x >= y) <=> x = position
      BY DEF TypeOK, ReaderInv
    <3> QED BY <3>1 DEF Max
  <2>2. /\ pc = "yield" /\ page = {} /\ cursor' = position /\ position' = position
        /\ room' = Limit /\ pc' = IF ~hasMore /\ runEnded THEN "done" ELSE "read"
        /\ UNCHANGED <<lastId, state, kind, runEnded, overtaken>>
        /\ UNCHANGED <<page, hasMore, delivered, reconnects>>
    BY <1>3, <2>1 DEF FinishPage, logVars
  <2>3. TypeOK' BY <2>2 DEF TypeOK
  <2>4. LogInv' BY <2>2 DEF LogInv
  <2>5. ReaderInv' BY <2>2 DEF ReaderInv, TypeOK, Public
  <2>6. DeliveredInv' BY <2>2 DEF DeliveredInv, ReaderInv, TypeOK, Ids
  <2>7. OrderedNothingSkipped' BY <2>2 DEF OrderedNothingSkipped, NothingSkipped, Public
  <2> QED BY <2>3, <2>4, <2>5, <2>6, <2>7
<1> QED BY <1>1, <1>2, <1>3 DEF ReaderStep

\* A client that reconnects drops its page, and with it nothing: what it had
\* received reaches up to the cursor it sends.
LEMMA ReconnectInv ==
  ASSUME StreamInv, Reconnect PROVE StreamInv'
<1> USE StreamAssumption DEF StreamInv
<1>1. /\ LastDelivered \in 0 .. MaxEvents /\ LastDelivered <= cursor
      /\ LastDelivered = 0 \/ (LastDelivered \in Ids /\ state[LastDelivered] = "committed")
      /\ \A k \in 1 .. Len(delivered) : delivered[k] <= LastDelivered
  BY SMTT(30) DEF LastDelivered, TypeOK, DeliveredInv, Ids
<1>2. /\ cursor' = LastDelivered /\ position' = LastDelivered /\ page' = {}
      /\ room' = Limit /\ pc' = "read" /\ reconnects < MaxReconnects
      /\ reconnects' = reconnects + 1
      /\ UNCHANGED <<lastId, state, kind, runEnded, overtaken>>
      /\ UNCHANGED <<hasMore, delivered>>
  BY DEF Reconnect, logVars
<1>3. TypeOK' BY <1>1, <1>2 DEF TypeOK
<1>4. LogInv' BY <1>2 DEF LogInv
<1>5. ReaderInv' BY <1>1, <1>2 DEF ReaderInv, TypeOK
<1>6. DeliveredInv' BY <1>1, <1>2 DEF DeliveredInv
<1>7. OrderedNothingSkipped'
  <2> SUFFICES ASSUME ~overtaken, NEW i \in Ids, Public(i), i <= LastDelivered
               PROVE  \E k \in 1 .. Len(delivered) : delivered[k] = i
    BY <1>2 DEF OrderedNothingSkipped, NothingSkipped, Public
  <2>1. i <= cursor /\ i <= position BY <1>1 DEF TypeOK, ReaderInv, Ids
  <2>2. i \notin page BY <2>1 DEF TypeOK, ReaderInv, Ids
  <2> QED BY <2>1, <2>2 DEF OrderedNothingSkipped, NothingSkipped
<1> QED BY <1>3, <1>4, <1>5, <1>6, <1>7

\* The inductive invariant holds of every state of the stream.
THEOREM StreamInvariant == Spec => []StreamInv
<1>1. StreamInv /\ [Next]_vars => StreamInv'
  <2> SUFFICES ASSUME StreamInv, [Next]_vars PROVE StreamInv' OBVIOUS
  <2>1. CASE UNCHANGED vars
    BY <2>1 DEF vars, logVars, readerVars, StreamInv, TypeOK, LogInv, ReaderInv,
                DeliveredInv, OrderedNothingSkipped, NothingSkipped, Public
  <2> QED BY <2>1, LogStep, ReaderStepInv, ReconnectInv DEF Next
<1> QED BY <1>1, InitStreamInv, PTL DEF Spec

\* Cursors, pages, rooms and ids stay within their ranges: a page never takes
\* more events than its limit.
THEOREM StreamTyped == Spec => []TypeOK
<1>1. StreamInv => TypeOK BY DEF StreamInv
<1> QED BY <1>1, StreamInvariant, PTL

\* Events reach the client in the order of their ids, none twice, whatever
\* batches, gaps and reconnections come in between.
THEOREM StreamDeliveredOnce == Spec => []DeliveredOnce
<1>1. StreamInv => DeliveredOnce
  BY DEF StreamInv, DeliveredInv, DeliveredOnce, TypeOK
<1> QED BY <1>1, StreamInvariant, PTL

\* While transactions commit in the order of their ids, the cursor of events()
\* passes no public event that was not delivered or is not about to be.
THEOREM StreamNothingSkipped == Spec => []OrderedNothingSkipped
<1>1. StreamInv => OrderedNothingSkipped BY DEF StreamInv
<1> QED BY <1>1, StreamInvariant, PTL

=============================================================================
