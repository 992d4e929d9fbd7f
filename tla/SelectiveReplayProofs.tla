----------------------- MODULE SelectiveReplayProofs -----------------------
(***************************************************************************)
(* A selective replay that passes has compared every chosen execution, for *)
(* every fixture, every choice of steps and whatever the handlers do.      *)
(***************************************************************************)
EXTENDS SelectiveReplay, SetLemmas, FiniteSetTheorems, TLAPS

CountBelow(S, p) == Cardinality({j \in S : j < p})

CountUpTo(S, p) == Cardinality({j \in S : j <= p})

\* The numbers of a set below p are counted one by one as p grows.
LEMMA Ranks ==
  ASSUME NEW n \in Nat, NEW S \in SUBSET (1 .. n), NEW p \in 1 .. (n + 1)
  PROVE  /\ CountBelow(S, p) \in Nat
         /\ \A i \in S : i < p => CountUpTo(S, i) \in 1 .. CountBelow(S, p)
         /\ p \in S => /\ CountBelow(S, p + 1) = CountBelow(S, p) + 1
                       /\ CountUpTo(S, p) = CountBelow(S, p) + 1
         /\ p \notin S => CountBelow(S, p + 1) = CountBelow(S, p)
<1> DEFINE Below == {j \in S : j < p}
<1>00. S \subseteq Nat /\ p \in Nat OBVIOUS
<1>01. \A j \in S : /\ j < p + 1 <=> j < p \/ j = p
                  /\ j <= p <=> j < p \/ j = p
  BY <1>00
<1>1. ASSUME NEW T \in SUBSET S PROVE IsFiniteSet(T) /\ Cardinality(T) \in Nat
  <2>1. IsFiniteSet(1 .. n) BY FS_Interval
  <2>2. IsFiniteSet(T) BY <2>1, FS_Subset
  <2> QED BY <2>2, FS_CardinalityType
<1>2. IsFiniteSet(Below) /\ Cardinality(Below) \in Nat BY <1>1
<1>3. ASSUME NEW i \in S, i < p
      PROVE  Cardinality({j \in S : j <= i}) \in 1 .. Cardinality(Below)
  <2> DEFINE T == {j \in S : j <= i}
  <2>0. \A j \in S : j <= i => j < p BY <1>3, <1>00
  <2>1. T \subseteq Below BY <2>0, Zenon
  <2>6. i \in T BY <1>00
  <2>2. IsFiniteSet(T) /\ Cardinality(T) \in Nat BY <1>1
  <2>3. Cardinality(T) <= Cardinality(Below) BY <1>2, <2>1, FS_Subset
  <2>4. Cardinality(T) # 0 BY <2>6, <2>2, FS_EmptySet
  <2> HIDE DEF T, Below
  <2>5. Cardinality(T) \in 1 .. Cardinality(Below) BY <1>2, <2>2, <2>3, <2>4
  <2> QED BY <2>5 DEF T
<1>4. ASSUME p \in S
      PROVE  /\ Cardinality({j \in S : j < p + 1}) = Cardinality(Below) + 1
             /\ Cardinality({j \in S : j <= p}) = Cardinality(Below) + 1
  <2>1. {j \in S : j < p + 1} = Below \cup {p}
    <3>1. \A j \in S : j < p + 1 <=> j < p \/ j = p BY <1>01
    <3> QED BY <1>4, <3>1, Zenon
  <2>2. {j \in S : j <= p} = Below \cup {p}
    <3>1. \A j \in S : j <= p <=> j < p \/ j = p BY <1>01
    <3> QED BY <1>4, <3>1, Zenon
  <2>3. p \notin Below OBVIOUS
  <2>4. Cardinality(Below \cup {p}) = Cardinality(Below) + 1 BY <1>2, <2>3, FS_AddElement
  <2> QED BY <2>1, <2>2, <2>4
<1>5. p \notin S => {j \in S : j < p + 1} = Below
  <2>1. p \notin S => \A j \in S : j < p + 1 <=> j < p BY <1>01
  <2> QED BY <2>1, Zenon
<1>6. CountBelow(S, p) = Cardinality(Below) BY Zenon DEF CountBelow
<1>7. CountBelow(S, p + 1) = Cardinality({j \in S : j < p + 1}) BY Zenon DEF CountBelow
<1>8. \A i : CountUpTo(S, i) = Cardinality({j \in S : j <= i}) BY Zenon DEF CountUpTo
<1>9. \A i \in S : i < p => CountUpTo(S, i) \in 1 .. Cardinality(Below) BY <1>3, <1>8, Zenon
<1>10. p \in S => /\ CountBelow(S, p + 1) = Cardinality(Below) + 1
                  /\ CountUpTo(S, p) = Cardinality(Below) + 1
  BY <1>4, <1>7, <1>8, Zenon
<1>11. p \notin S => CountBelow(S, p + 1) = Cardinality(Below) BY <1>5, <1>7, Zenon
<1> HIDE DEF Below
<1> QED BY <1>2, <1>6, <1>9, <1>10, <1>11

-----------------------------------------------------------------------------
(***************************************************************************)
(* The invariant of the loop.                                              *)
(***************************************************************************)

\* The chosen boundaries that the loop has passed when it is at position p.
ChosenBefore(p) == {i \in Chosen : i < p}

Matches(i) ==
  /\ ComparisonOf(i).instance = fixture.boundaries[i].instance
  /\ ComparisonOf(i).executed <=> fixture.boundaries[i].instance[1] \notin replay.held

Differs(i) == ComparisonOf(i).output # fixture.boundaries[i].output

\* What has been compared when the loop is at position p.
ComparedBefore(p) ==
  /\ \E C : replay.comparisons \in Seq(C)
  /\ Len(replay.comparisons) = CountBelow(Chosen, p)
  /\ \A i \in ChosenBefore(p) : Matches(i)
  /\ replay.changed <=> ((\E i \in ChosenBefore(p) : Differs(i)) \/ replay.cost > 0)

CaseFields ==
  {"phase", "current", "mode", "selected", "held", "position", "comparisons", "cost", "changed",
   "attempted", "status"}

IsCase(c) == c = [x \in CaseFields |-> c[x]]

LiveInv ==
  /\ replay.phase = "live"
  /\ fixture.boundaries \in Seq(ToSet(fixture.boundaries))
  /\ replay.position \in 1 .. (Len(fixture.boundaries) + 1)
  /\ replay.cost \in Nat
  /\ replay.changed \in BOOLEAN
  /\ replay.attempted = FALSE
  /\ ComparedBefore(replay.position)

\* The invariant of the loop: what a replay under way has compared so far, and
\* what one that has ended amounts to.
LoopInv ==
  \/ replay = Idle
  \/ IsCase(replay) /\ LiveInv
  \/ IsCase(replay) /\ replay.phase = "done" /\ PassedAsCompared

LEMMA BoundariesType ==
  ASSUME LiveInv
  PROVE  /\ Len(fixture.boundaries) \in Nat
         /\ DOMAIN fixture.boundaries = 1 .. Len(fixture.boundaries)
         /\ Chosen \in SUBSET (1 .. Len(fixture.boundaries))
BY DEF LiveInv, Chosen

\* One more comparison.
LEMMA ComparedInv ==
  ASSUME LiveInv, IsCase(replay), InLoop, IsSelected, UNCHANGED fixture,
         NEW executed \in BOOLEAN, executed <=> ~IsHeld,
         NEW p, p = replay.position, NEW k, k = CountBelow(Chosen, p),
         NEW value, NEW cost \in Nat, NEW changed \in BOOLEAN,
         changed <=> replay.changed \/ value # AtBoundary.output \/ cost > 0,
         replay' = [Compared(executed, value, cost) EXCEPT
                      !.attempted = FALSE, !.changed = changed]
  PROVE  LoopInv'
<1> DEFINE n == Len(fixture.boundaries)
           c == [instance |-> AtBoundary.instance, executed |-> executed, output |-> value]
<1>1. /\ IsCase(replay') /\ replay'.phase = "live" /\ replay'.position = p + 1
      /\ replay'.comparisons = Append(replay.comparisons, c)
      /\ replay'.cost = replay.cost + cost /\ replay'.changed = changed
      /\ replay'.attempted = FALSE /\ replay'.selected = replay.selected
      /\ replay'.held = replay.held
  BY Zenon DEF Compared, IsCase, CaseFields, LiveInv
<1>2. /\ n \in Nat /\ Chosen \in SUBSET (1 .. n) /\ p \in 1 .. n /\ p \in Chosen
      /\ replay.cost \in Nat
  BY BoundariesType DEF LiveInv, InLoop, IsSelected, AtBoundary, Chosen
<1>3. Chosen' = Chosen BY <1>1 DEF Chosen
<1>4. PICK C : replay.comparisons \in Seq(C) BY DEF LiveInv, ComparedBefore
<1> DEFINE cs == replay.comparisons
<1>5. Len(cs) = k /\ k \in Nat BY <1>2, Ranks DEF LiveInv, ComparedBefore, ChosenBefore
<1> HIDE DEF c
<1>6. /\ Append(cs, c) \in Seq(C \cup {c}) /\ Len(Append(cs, c)) = k + 1
      /\ Append(cs, c)[k + 1] = c /\ \A i \in 1 .. k : Append(cs, c)[i] = cs[i]
  <2>1. cs \in Seq(C \cup {c}) BY <1>4
  <2> HIDE DEF cs
  <2> QED BY <1>5, <2>1
<1>7. /\ CountUpTo(Chosen, p) = k + 1 /\ CountBelow(Chosen, p + 1) = k + 1
      /\ \A i \in ChosenBefore(p) : CountUpTo(Chosen, i) \in 1 .. k
  <2>1. p \in 1 .. (n + 1) BY <1>2
  <2> HIDE DEF n
  <2>2. n \in Nat /\ Chosen \in SUBSET (1 .. n) /\ p \in Chosen BY <1>2
  <2> HIDE DEF n
  <2> QED BY <2>1, <2>2, Ranks DEF ChosenBefore
<1>8. ChosenBefore(p + 1)' = ChosenBefore(p) \cup {p} BY <1>2, <1>3 DEF ChosenBefore
<1>9. \A i \in ChosenBefore(p) : ComparisonOf(i)' = ComparisonOf(i)
  BY <1>1, <1>3, <1>6, <1>7, Zenon DEF ComparisonOf, CountUpTo
<1>10. ComparisonOf(p)' = c BY <1>1, <1>3, <1>6, <1>7 DEF ComparisonOf, CountUpTo
<1>11. \A i \in ChosenBefore(p) : Matches(i)' /\ (Differs(i)' <=> Differs(i))
  <2>1. \A i \in ChosenBefore(p) : Matches(i) BY DEF LiveInv, ComparedBefore
  <2> QED BY <1>1, <1>9, <2>1 DEF Matches, Differs
<1>12. Matches(p)' /\ (Differs(p)' <=> value # AtBoundary.output)
  BY <1>1, <1>10 DEF Matches, Differs, c, AtBoundary, IsHeld
<1>13. Len(replay'.comparisons) = CountBelow(Chosen, p + 1)'
  BY <1>1, <1>3, <1>6, <1>7 DEF CountBelow
<1>14. replay.changed <=> (\E i \in ChosenBefore(p) : Differs(i)) \/ replay.cost > 0
  BY DEF LiveInv, ComparedBefore
<1>15. changed <=> (\E i \in ChosenBefore(p + 1)' : Differs(i)') \/ replay.cost + cost > 0
  BY <1>2, <1>8, <1>11, <1>12, <1>14
<1>16. ComparedBefore(p + 1)'
  <2>1. replay'.comparisons \in Seq(C \cup {c}) BY <1>1, <1>6
  <2>2. \A i \in ChosenBefore(p + 1)' : Matches(i)' BY <1>8, <1>11, <1>12
  <2>3. replay'.changed <=> (\E i \in ChosenBefore(p + 1)' : Differs(i)') \/ replay'.cost > 0
    BY <1>1, <1>15
  <2> QED BY <1>13, <2>1, <2>2, <2>3 DEF ComparedBefore
<1>17. LiveInv'
  BY <1>1, <1>2, <1>16, SMTT(30) DEF LiveInv
<1> QED BY <1>1, <1>17 DEF LoopInv

\* A boundary that is not chosen is passed over.
LEMMA SkipInv ==
  ASSUME LiveInv, IsCase(replay), Skip
  PROVE  LoopInv'
<1> DEFINE n == Len(fixture.boundaries)
<1>1. PICK p : p = replay.position OBVIOUS
<1>2. /\ IsCase(replay') /\ replay'.phase = "live" /\ replay'.position = p + 1
      /\ replay'.comparisons = replay.comparisons /\ replay'.cost = replay.cost
      /\ replay'.changed = replay.changed /\ replay'.attempted = replay.attempted
      /\ replay'.selected = replay.selected /\ replay'.held = replay.held /\ fixture' = fixture
  BY <1>1 DEF Skip, IsCase, CaseFields, LiveInv
<1>3. n \in Nat /\ Chosen \in SUBSET (1 .. n) /\ p \in 1 .. n /\ p \notin Chosen
  BY <1>1, BoundariesType DEF LiveInv, Skip, InLoop, IsSelected, AtBoundary, Chosen
<1>4. Chosen' = Chosen BY <1>2 DEF Chosen
<1>5. CountBelow(Chosen, p + 1) = CountBelow(Chosen, p)
  <2>1. p \in 1 .. (n + 1) BY <1>3
  <2>2. n \in Nat /\ Chosen \in SUBSET (1 .. n) /\ p \notin Chosen BY <1>3
  <2> HIDE DEF n
  <2> QED BY <2>1, <2>2, Ranks
<1>6. ChosenBefore(p + 1)' = ChosenBefore(p)
  <2>1. \A i \in Chosen : i < p + 1 <=> i < p BY <1>3
  <2>2. ChosenBefore(p + 1)' = {i \in Chosen : i < p + 1} BY <1>4 DEF ChosenBefore
  <2> QED BY <2>1, <2>2, Zenon DEF ChosenBefore
<1>7. \A i : ComparisonOf(i)' = ComparisonOf(i) BY <1>2, <1>4 DEF ComparisonOf
<1>8. \A i : (Matches(i)' <=> Matches(i)) /\ (Differs(i)' <=> Differs(i))
  BY <1>2, <1>7 DEF Matches, Differs
<1>9. ComparedBefore(p) BY <1>1 DEF LiveInv
<1>10. ComparedBefore(p + 1)'
  BY <1>2, <1>4, <1>5, <1>6, <1>8, <1>9 DEF ComparedBefore
<1>11. LiveInv' BY <1>1, <1>2, <1>3, <1>10 DEF LiveInv
<1> QED BY <1>2, <1>11 DEF LoopInv

LEMMA HoldInv ==
  ASSUME LiveInv, IsCase(replay), Hold
  PROVE  LoopInv'
<1>1. PICK p, k : p = replay.position /\ k = CountBelow(Chosen, p) OBVIOUS
<1>2. InLoop /\ IsSelected /\ IsHeld /\ UNCHANGED fixture BY DEF Hold
<1>3. replay.changed \in BOOLEAN /\ replay.attempted = FALSE BY DEF LiveInv
<1>4. replay' = [Compared(FALSE, AtBoundary.output, 0) EXCEPT
                   !.attempted = FALSE, !.changed = replay.changed]
  BY <1>3 DEF Hold, Compared, IsCase, CaseFields
<1>5. FALSE <=> ~IsHeld BY <1>2
<1>6. replay.changed <=> replay.changed \/ AtBoundary.output # AtBoundary.output \/ 0 > 0
  OBVIOUS
<1> QED BY <1>1, <1>2, <1>3, <1>4, <1>5, <1>6, ComparedInv

LEMMA RunInv ==
  ASSUME LiveInv, IsCase(replay), NEW outcome \in Outcomes, Live(outcome)
  PROVE  LoopInv'
<1>1. PICK p, k : p = replay.position /\ k = CountBelow(Chosen, p) OBVIOUS
<1>2. InLoop /\ IsSelected /\ ~IsHeld /\ UNCHANGED fixture BY DEF Live
<1>3. replay.changed \in BOOLEAN /\ replay.attempted = FALSE BY DEF LiveInv
<1>4. outcome.cost \in Nat /\ outcome.attempts \in BOOLEAN 
  <2>1. CASE outcome \in [attempts : {TRUE}, leaves : {"denied"}, value : {<<>>}, cost : {0}]
    <3>1. outcome.cost = 0 /\ outcome.attempts \in {TRUE} BY <2>1
    <3>2. outcome.attempts \in BOOLEAN BY <3>1, Zenon
    <3> QED BY <3>1, <3>2
  <2>2. CASE outcome \in [attempts : BOOLEAN, leaves : {"raises", "mistyped"},
                          value : {<<>>}, cost : {0}]
    BY <2>2
  <2>3. CASE outcome \in [attempts : BOOLEAN, leaves : {"returns"}, value : Values,
                          cost : LiveCosts]
    BY <2>3, CostAssumption
  <2>4. \/ outcome \in [attempts : {TRUE}, leaves : {"denied"}, value : {<<>>}, cost : {0}]
        \/ outcome \in [attempts : BOOLEAN, leaves : {"raises", "mistyped"},
                        value : {<<>>}, cost : {0}]
        \/ outcome \in [attempts : BOOLEAN, leaves : {"returns"}, value : Values,
                        cost : LiveCosts]
    BY Zenon DEF Outcomes
  <2> QED BY <2>1, <2>2, <2>3, <2>4
<1> DEFINE status == LiveStatus(outcome)
           tried == replay.attempted \/ outcome.attempts
<1>5. CASE status = "NONE"
  <2>1. ~outcome.attempts BY <1>4, <1>5 DEF LiveStatus
  <2>2. BehaviorChanged(outcome) \in BOOLEAN
        /\ (BehaviorChanged(outcome)
             <=> replay.changed \/ outcome.value # AtBoundary.output \/ outcome.cost > 0)
    BY <1>3 DEF BehaviorChanged
  <2>3. tried = FALSE BY <1>3, <2>1
  <2>4. replay' = [Compared(TRUE, outcome.value, outcome.cost) EXCEPT
                     !.attempted = FALSE, !.changed = BehaviorChanged(outcome)]
    BY <1>5, <2>3 DEF Live
  <2> QED BY <1>1, <1>2, <1>4, <2>2, <2>4, ComparedInv
<1>6. CASE status # "NONE"
  <2>1. replay' = [Ended(replay, status) EXCEPT !.attempted = tried] BY <1>6 DEF Live
  <2>2. status \notin Accepting BY <1>4, <1>6 DEF LiveStatus, Accepting
  <2> HIDE DEF status, tried
  <2>3. IsCase(replay') /\ replay'.phase = "done" /\ replay'.status = status
    BY <2>1 DEF Ended, IsCase, CaseFields
  <2> QED BY <2>2, <2>3 DEF LoopInv, PassedAsCompared
<1> QED BY <1>5, <1>6

\* When the loop has ended, everything chosen has been compared.
LEMMA FinishInv ==
  ASSUME LiveInv, IsCase(replay), Finish
  PROVE  LoopInv'
<1> DEFINE n == Len(fixture.boundaries)
           status == CASE replay.cost > MaxCost -> "REPLAY_BUDGET_EXCEEDED"
                       [] replay.cost <= MaxCost /\ replay.changed -> "CHANGED"
                       [] OTHER -> "PASS"
<1>1. replay' = Ended(replay, status) /\ fixture' = fixture BY DEF Finish
<1>2. /\ status = "PASS" => ~replay.changed
      /\ status = "CHANGED" => replay.changed /\ replay.cost <= MaxCost
  <2>1. replay.cost \in Nat /\ MaxCost \in Nat BY CostAssumption DEF LiveInv
  <2> QED BY <2>1
<1> HIDE DEF status
<1>3. /\ IsCase(replay') /\ replay'.phase = "done" /\ replay'.status = status
      /\ replay'.comparisons = replay.comparisons /\ replay'.cost = replay.cost
      /\ replay'.attempted = replay.attempted
      /\ replay'.selected = replay.selected /\ replay'.held = replay.held
  BY <1>1 DEF Ended, IsCase, CaseFields
<1>4. Chosen' = Chosen BY <1>1, <1>3 DEF Chosen
<1>5. PICK p : p = replay.position OBVIOUS
<1>6. ChosenBefore(p) = Chosen /\ p = n + 1 /\ n \in Nat
  <2>1. p = n + 1 /\ n \in Nat BY <1>5, BoundariesType DEF LiveInv, Finish
  <2>2. \A i \in Chosen : i < p BY <2>1, BoundariesType
  <2> QED BY <2>1, <2>2 DEF ChosenBefore
<1>7. CountBelow(Chosen, p) = Cardinality(Chosen)
  <2>1. {j \in Chosen : j < p} = Chosen BY <1>6 DEF ChosenBefore
  <2> QED BY <2>1 DEF CountBelow
<1>8. ComparedBefore(p) /\ replay.attempted = FALSE /\ replay.cost \in Nat BY <1>5 DEF LiveInv
<1>9. \A i : ComparisonOf(i)' = ComparisonOf(i) BY <1>3, <1>4 DEF ComparisonOf
<1>10. Len(replay.comparisons) = Cardinality(Chosen) BY <1>7, <1>8 DEF ComparedBefore
<1>11. \A i \in Chosen : Matches(i) BY <1>6, <1>8 DEF ComparedBefore
<1>12. replay.changed <=> (\E i \in Chosen : Differs(i)) \/ replay.cost > 0
  BY <1>6, <1>8 DEF ComparedBefore
<1> HIDE DEF n
<1>13. \A i \in Chosen :
         /\ ComparisonOf(i).instance = fixture.boundaries[i].instance
         /\ ComparisonOf(i).executed <=> fixture.boundaries[i].instance[1] \notin replay.held
  BY <1>11 DEF Matches
<1> DEFINE same == \A i \in Chosen : ComparisonOf(i).output = fixture.boundaries[i].output
<1>14. /\ status = "PASS" => same /\ replay.cost = 0
       /\ status = "CHANGED" => (~same \/ replay.cost > 0) /\ replay.cost <= MaxCost
  BY <1>2, <1>8, <1>12 DEF Differs
<1>15. PassedAsCompared'
  BY <1>1, <1>3, <1>4, <1>8, <1>9, <1>10, <1>13, <1>14 DEF PassedAsCompared
<1> QED BY <1>3, <1>15 DEF LoopInv

LEMMA BeginInv ==
  ASSUME Begin
  PROVE  LoopInv'
<1>1. PICK w, mode, selected, held, status :
        /\ w = replay'.current /\ mode = replay'.mode /\ selected = replay'.selected
        /\ held = replay'.held /\ status = replay'.status
  OBVIOUS
<1> DEFINE case == Case(w, mode, selected, held)
<1>2. IsCase(case) BY DEF Case, IsCase, CaseFields
<1>3. CASE replay' = case
  <2>1. /\ replay'.phase = "live" /\ replay'.position = 1 /\ replay'.comparisons = <<>>
        /\ replay'.cost = 0 /\ replay'.changed = FALSE /\ replay'.attempted = FALSE
    BY <1>3 DEF Case
  <2>2. fixture'.boundaries \in Seq(ToSet(fixture'.boundaries)) BY DEF Begin
  <2>3. Len(fixture'.boundaries) \in Nat
        /\ DOMAIN fixture'.boundaries = 1 .. Len(fixture'.boundaries)
    BY <2>2
  <2>4. ChosenBefore(1)' = {} BY <2>3 DEF ChosenBefore, Chosen
  <2>5. CountBelow(Chosen', 1) = 0
    <3>1. {j \in Chosen' : j < 1} = {} BY <2>4 DEF ChosenBefore
    <3> QED BY <3>1, FS_EmptySet DEF CountBelow
  <2>6. replay'.comparisons \in Seq({}) /\ Len(replay'.comparisons) = 0 BY <2>1
  <2>7. ComparedBefore(1)' BY <2>1, <2>4, <2>5, <2>6 DEF ComparedBefore
  <2>8. replay'.position \in 1 .. (Len(fixture'.boundaries) + 1) BY <2>1, <2>3
  <2>9. ComparedBefore(replay.position)' BY <2>1, <2>7
  <2>10. replay'.changed \in BOOLEAN BY <2>1, Zenon
  <2>11. LiveInv'
    <3>1. replay'.phase = "live" /\ replay'.cost \in Nat /\ replay'.attempted = FALSE BY <2>1
    <3> QED BY <2>2, <2>8, <2>9, <2>10, <3>1 DEF LiveInv
  <2> QED BY <1>2, <1>3, <2>11 DEF LoopInv
<1>4. CASE replay' = Ended(case, status) /\ (mode = "selective" => status \notin Accepting)
  <2>1. IsCase(replay') /\ replay'.phase = "done" /\ replay'.mode = mode
        /\ replay'.status = status
    BY <1>2, <1>4 DEF Ended, IsCase, CaseFields, Case
  <2>2. replay'.mode = "selective" => replay'.status \notin Accepting BY <1>4, <2>1
  <2> HIDE DEF case
  <2>3. PassedAsCompared' BY <2>2 DEF PassedAsCompared
  <2> QED BY <2>1, <2>3 DEF LoopInv
<1> QED BY <1>1, <1>3, <1>4 DEF Begin

LEMMA LoopStepInv ==
  ASSUME LoopInv, [Prepare \/ Begin \/ Loop]_<<fixture, replay>>
  PROVE  LoopInv'
<1>1. CASE UNCHANGED <<fixture, replay>>
  <2>1. fixture' = fixture /\ replay' = replay BY <1>1
  <2>2. Chosen' = Chosen BY <2>1 DEF Chosen
  <2>3. \A i : ComparisonOf(i)' = ComparisonOf(i) BY <2>1, <2>2 DEF ComparisonOf
  <2>4. \A i : (Matches(i)' <=> Matches(i)) /\ (Differs(i)' <=> Differs(i))
    BY <2>1, <2>3 DEF Matches, Differs
  <2>5. \A p : ChosenBefore(p)' = ChosenBefore(p) BY <2>2 DEF ChosenBefore
  <2>6. \A p : ComparedBefore(p) => ComparedBefore(p)'
    BY <2>1, <2>2, <2>4, <2>5 DEF ComparedBefore
  <2>7. LiveInv => LiveInv' BY <2>1, <2>6 DEF LiveInv
  <2>8. PassedAsCompared => PassedAsCompared' BY <2>1, <2>2, <2>3 DEF PassedAsCompared
  <2> QED BY <2>1, <2>7, <2>8 DEF LoopInv
<1>2. CASE Prepare BY <1>2 DEF Prepare, LoopInv
<1>3. CASE Begin BY <1>3, BeginInv
<1>4. CASE Loop
  <2>1. replay.phase = "live" BY <1>4, Zenon DEF Loop, Skip, Hold, Live, Finish, InLoop
  <2>2. IsCase(replay) /\ LiveInv BY <2>1 DEF LoopInv, Idle
  <2> QED BY <1>4, <2>2, SkipInv, HoldInv, RunInv, FinishInv DEF Loop
<1> QED BY <1>1, <1>2, <1>3, <1>4

\* A selective replay passes only when every execution of the chosen steps has
\* been compared and none tried an effect (ReplayEngine._selective).
THEOREM SelectivePassedAsCompared == LoopSpec => []PassedAsCompared
<1>1. LoopInit => LoopInv BY DEF LoopInit, LoopInv
<1>2. LoopInv /\ [Prepare \/ Begin \/ Loop]_<<fixture, replay>> => LoopInv' BY LoopStepInv
<1>3. LoopInv => PassedAsCompared
  <2>1. Idle.phase = "idle" BY DEF Idle
  <2> QED BY <2>1 DEF LoopInv, PassedAsCompared, LiveInv
<1> QED BY <1>1, <1>2, <1>3, PTL DEF LoopSpec

=============================================================================
