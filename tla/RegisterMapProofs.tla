------------------------- MODULE RegisterMapProofs -------------------------
(***************************************************************************)
(* Proofs about the plan with the fewest round trips: it exists whatever   *)
(* fields are left to read, it is one of the plans that the polling core   *)
(* allows, and so what is proved of the core holds of the planned loop.    *)
(***************************************************************************)
EXTENDS RegisterMap, SungrowSHxProofs, FiniteSetTheorems,
        WellFoundedInduction

-----------------------------------------------------------------------------
(* Lemmas about first and last fields *)

LEMMA LeastNumber ==
    ASSUME NEW S \in SUBSET Nat, S # {}
    PROVE  \E n \in S : \A k \in S : n <= k
  <1> DEFINE R == OpToRel(<, Nat)
  <1>1. IsWellFoundedOn(R, Nat)
    BY NatLessThanWellFounded
  <1> HIDE DEF R
  <1>2. PICK n \in S : \A k \in S : <<k, n>> \notin R
    BY <1>1, WFMin
  <1>3. \A k \in S : k < n => <<k, n>> \in R
    BY DEF R, OpToRel
  <1>4. \A k \in S : ~(k < n)
    BY <1>2, <1>3
  <1>5. \A k \in S : n <= k
    BY <1>4
  <1>6. QED
    BY <1>5

(* Any set of fields has a field of the lowest address. *)
LEMMA FirstField ==
    ASSUME NEW S \in SUBSET Fields, S # {}
    PROVE  \E f \in S : \A g \in S : f.addr <= g.addr
  <1> DEFINE Addresses == {f.addr : f \in S}
  <1>1. Addresses \in SUBSET Nat /\ Addresses # {}
    BY FieldFacts
  <1>2. PICK n \in Addresses : \A k \in Addresses : n <= k
    BY <1>1, LeastNumber
  <1>3. QED
    BY <1>2

(* Any set of fields below some address has a field of the highest one. *)
LEMMA LastField ==
    ASSUME NEW S \in SUBSET Fields, S # {},
           NEW top \in Nat, \A f \in S : f.addr <= top
    PROVE  \E f \in S : \A g \in S : g.addr <= f.addr
  <1> DEFINE Distances == {top - f.addr : f \in S}
  <1>1. Distances \in SUBSET Nat /\ Distances # {}
    BY FieldFacts
  <1>2. PICK n \in Distances : \A k \in Distances : n <= k
    BY <1>1, LeastNumber
  <1>3. PICK f \in S : n = top - f.addr
    BY <1>2
  <1>4. ASSUME NEW g \in S
        PROVE  g.addr <= f.addr
    <2>1. top - f.addr <= top - g.addr
      BY <1>2, <1>3
    <2>2. f.addr \in Nat /\ g.addr \in Nat
      BY FieldFacts
    <2>3. QED
      BY <2>1, <2>2
  <1>5. QED
    BY <1>4

LEMMA SpanIsAllowed ==
    ASSUME NEW S, NEW f \in S, NEW g \in S, f.space = g.space,
           f.addr < End(g), End(g) - f.addr <= MaxSpan
    PROVE  Span(f, g) \in Blocks(S)
  <1>1. <<f, g>> \in {q \in S \X S : /\ q[1].space = q[2].space
                                    /\ q[1].addr < End(q[2])
                                    /\ End(q[2]) - q[1].addr <= MaxSpan}
    OBVIOUS
  <1>2. QED
    BY <1>1 DEF Blocks

(* The planned block is one of the blocks that the core may read, and returns *)
(* at least the field in which it ends.                                      *)
LEMMA NextBlockFacts ==
    ASSUME NEW S \in SUBSET Fields, S # {}
    PROVE  NextBlock(S) \in Blocks(S) /\ \E f \in S : Covers(NextBlock(S), f)
  <1> DEFINE space == IF \E f \in S : f.space = "input" THEN "input" ELSE "holding"
             mine  == {f \in S : f.space = space}
             first == CHOOSE f \in mine : \A g \in mine : f.addr <= g.addr
             fits  == {g \in mine : End(g) - first.addr <= MaxSpan}
             last  == CHOOSE g \in fits : \A h \in fits : h.addr <= g.addr
  <1>1. mine \in SUBSET Fields /\ mine # {}
    BY FieldFacts, SpacesAssumption
  <1> HIDE DEF space
  <1>2. first \in mine /\ \A g \in mine : first.addr <= g.addr
    BY <1>1, FirstField
  <1>3. first \in Fields /\ first.addr \in Nat /\ End(first) \in Nat
          /\ End(first) - first.addr <= MaxSpan /\ MaxSpan \in Nat
    BY <1>1, <1>2, FieldFacts DEF End
  <1> HIDE DEF first
  <1>4. fits \in SUBSET Fields /\ fits # {}
    BY <1>1, <1>2, <1>3
  <1>5. \A f \in fits : f.addr <= first.addr + MaxSpan
    <2> SUFFICES ASSUME NEW f \in fits
                 PROVE  f.addr <= first.addr + MaxSpan
      OBVIOUS
    <2>1. f.addr \in Nat /\ End(f) \in Nat /\ End(f) > f.addr
      BY <1>4, FieldFacts
    <2>2. QED
      BY <1>3, <2>1
  <1>6. last \in fits
    <2>1. first.addr + MaxSpan \in Nat
      BY <1>3
    <2> HIDE DEF fits
    <2>2. \E g \in fits : \A h \in fits : h.addr <= g.addr
      BY <1>4, <1>5, <2>1, LastField
    <2>3. QED
      BY <2>2
  <1> HIDE DEF last
  <1>7. last \in Fields /\ End(last) > last.addr /\ last.addr \in Nat /\ End(last) \in Nat
    BY <1>4, <1>6, FieldFacts
  <1>8. /\ first \in S /\ last \in S /\ first.space = last.space
        /\ first.addr < End(last) /\ End(last) - first.addr <= MaxSpan
    BY <1>2, <1>3, <1>6, <1>7
  <1>9. Span(first, last) \in Blocks(S)
    BY <1>8, SpanIsAllowed
  <1>10. NextBlock(S) = Span(first, last)
    BY DEF NextBlock, first, fits, last, mine, space
  <1>11. Covers(NextBlock(S), last)
    <2>1. last.space = first.space /\ first.addr <= last.addr
      BY <1>2, <1>6
    <2>2. End(NextBlock(S)) = End(last)
      BY <1>3, <1>7, <1>10 DEF Span, End
    <2>3. QED
      BY <1>3, <1>7, <1>10, <2>1, <2>2 DEF Covers, Span
  <1>12. QED
    BY <1>8, <1>9, <1>10, <1>11

-----------------------------------------------------------------------------
(* The planned loop is a loop of the core *)

(* Every planned step is a step of the core. *)
LEMMA PlannedStepIsAllowed == TypeOK /\ [PlannedNext]_plannedVars => [Next]_vars
  <1> SUFFICES ASSUME TypeOK, [PlannedNext]_plannedVars
               PROVE  [Next]_vars
    OBVIOUS
  <1>1. ASSUME NEW t \in Tasks, StartUpdate(t)
        PROVE  Next
    BY <1>1 DEF Next
  <1>2. ASSUME NEW t \in Tasks, todo[t] # {},
               ReadServed(t, NextBlock(todo[t])) \/ ReadUnsupported(t, NextBlock(todo[t]))
        PROVE  Next
    <2>1. NextBlock(todo[t]) \in Blocks(todo[t])
      BY <1>2, NextBlockFacts DEF TypeOK
    <2>2. UpdateStep(t)
      BY <1>2, <2>1 DEF UpdateStep
    <2>3. QED
      BY <2>2 DEF Next
  <1>3. ASSUME NEW t \in Tasks, FinishUpdate(t)
        PROVE  Next
    BY <1>3 DEF Next, UpdateStep
  <1>4. QED
    BY <1>1, <1>2, <1>3 DEF PlannedNext, PlannedRead, plannedVars

(* So what holds of the core for every plan holds of this plan.              *)
LEMMA PlannedInvariant == PlannedSpec => []DropInv /\ [][Next]_vars
  <1>1. PlannedInit => DropInv
    BY DEF PlannedInit, Init, DropInv, TypeOK, Ended, DropsAreJustified, ReadSoFarServed,
           UpdatedMeansServed
  <1>2. DropInv => TypeOK
    BY DEF DropInv
  <1>3. QED
    BY <1>1, <1>2, DropInductive, PlannedStepIsAllowed, PTL DEF PlannedSpec

(* A hole in one space never costs a field of the other: with the declared   *)
(* fields or any others, and any set of missing registers.  (sungrow.py:107) *)
THEOREM SpacesStayIndependent == PlannedSpec => []SpacesAreIndependent
  <1>1. DropInv => SpacesAreIndependent
    BY DEF DropInv, DropsAreJustified, SpacesAreIndependent, Near
  <1>2. QED
    BY <1>1, PlannedInvariant, PTL

-----------------------------------------------------------------------------
(* The drop converges *)

(* What is left to read of S after the planned block. *)
Rest(S) == {f \in S : ~Covers(NextBlock(S), f)}

(* The sets of fields that an update has still to read, from the resolved    *)
(* fields down: every one of them but the last was followed by the rest of   *)
(* it, after its planned block was answered.                                 *)
AnsweredUpTo(lacking, plan, last) ==
    \A S \in plan : S # {} /\ S # last
                      => ServedBy(lacking, NextBlock(S)) /\ Rest(S) \in plan

PlanSoFar ==
    \A t \in Tasks : status[t] = "reading" =>
        \E plan : resolved \in plan /\ todo[t] \in plan /\ AnsweredUpTo(missing, plan, todo[t])

(* After a successful update the whole plan is known to be answered, and a   *)
(* later update keeps to it.                                                 *)
PlanIsSettled ==
    settled => \E plan : /\ resolved \in plan
                         /\ AnsweredUpTo(missing, plan, {})
                         /\ \A t \in Tasks : status[t] = "reading" => todo[t] \in plan

PlanInv == TypeOK /\ settled \in BOOLEAN /\ PlanSoFar /\ PlanIsSettled

(* An update that has read nothing yet. *)
LEMMA PlanBegins ==
    ASSUME NEW lacking, NEW S
    PROVE  S \in {S} /\ AnsweredUpTo(lacking, {S}, S)
  BY DEF AnsweredUpTo

(* Once an update has succeeded, every planned block is answered.            *)
LEMMA SettledIsServed ==
    ASSUME PlanIsSettled, settled, NEW t \in Tasks, status[t] = "reading", todo[t] # {}
    PROVE  Served(NextBlock(todo[t]))
  BY DEF PlanIsSettled, AnsweredUpTo, Served

(* PlanInv is inductive for a single task. *)
LEMMA PlanInductive ==
    ASSUME OneTask, PlanInv, [PlannedNext]_plannedVars
    PROVE  PlanInv'
  <1> USE DEF PlanInv
  <1>0. TypeOK' /\ settled' \in BOOLEAN
    <2>1. TypeOK'
      BY PlannedStepIsAllowed, TypeInductive
    <2>2. settled' \in BOOLEAN
      BY DEF PlannedNext, plannedVars
    <2>3. QED
      BY <2>1, <2>2
  <1>1. ASSUME NEW t \in Tasks, StartUpdate(t), UNCHANGED settled
        PROVE  PlanInv'
    <2>1. todo'[t] = resolved' /\ UNCHANGED <<missing, resolved>>
      BY <1>1 DEF StartUpdate, TypeOK
    <2>2. PlanSoFar'
      <3>1. resolved' \in {resolved'} /\ AnsweredUpTo(missing', {resolved'}, resolved')
        BY PlanBegins
      <3>2. QED
        BY <2>1, <3>1 DEF PlanSoFar, OneTask
    <2>3. PlanIsSettled'
      BY <1>1, <2>1 DEF PlanIsSettled, AnsweredUpTo, Served, OneTask
    <2>4. QED
      BY <1>0, <2>2, <2>3
  <1>2. ASSUME NEW t \in Tasks, todo[t] # {}, ReadServed(t, NextBlock(todo[t])),
               UNCHANGED settled
        PROVE  PlanInv'
    <2>1. /\ todo'[t] = Rest(todo[t]) /\ Served(NextBlock(todo[t]))
          /\ status[t] = "reading"
          /\ UNCHANGED <<missing, resolved, status>>
      BY <1>2 DEF ReadServed, TypeOK, Rest
    <2>2. PlanSoFar'
      <3>1. PICK plan : resolved \in plan /\ todo[t] \in plan /\ AnsweredUpTo(missing, plan, todo[t])
        BY <2>1 DEF PlanSoFar
      <3>2. AnsweredUpTo(missing, plan \cup {todo'[t]}, todo'[t])
        BY <2>1, <3>1 DEF AnsweredUpTo, Served
      <3>3. QED
        BY <2>1, <3>1, <3>2 DEF PlanSoFar, OneTask
    <2>3. PlanIsSettled'
      <3> SUFFICES ASSUME settled
                   PROVE  \E plan : /\ resolved' \in plan
                                    /\ AnsweredUpTo(missing', plan, {})
                                    /\ \A u \in Tasks :
                                          status'[u] = "reading" => todo'[u] \in plan
        BY <1>2, <2>1 DEF PlanIsSettled
      <3>1. PICK plan : /\ resolved \in plan /\ AnsweredUpTo(missing, plan, {})
                        /\ todo[t] \in plan
        BY <2>1 DEF PlanIsSettled
      <3>2. todo'[t] \in plan
        BY <1>2, <2>1, <3>1 DEF AnsweredUpTo
      <3>3. AnsweredUpTo(missing', plan, {})
        BY <2>1, <3>1
      <3>4. QED
        BY <2>1, <3>1, <3>2, <3>3 DEF OneTask
    <2>4. QED
      BY <1>0, <2>2, <2>3
  <1>3. ASSUME NEW t \in Tasks, todo[t] # {}, ReadUnsupported(t, NextBlock(todo[t])),
               settled' = (settled \/ status'[t] = "updated")
        PROVE  PlanInv'
    <2>1. status[t] = "reading" /\ ~settled
      BY <1>3, SettledIsServed DEF ReadUnsupported
    <2>2. \/ todo'[t] = resolved' /\ UNCHANGED status
          \/ status'[t] = "unsupported"
      BY <1>3 DEF ReadUnsupported, DropFieldsIn, TypeOK
    <2>3. ~settled'
      BY <1>3, <2>1, <2>2
    <2>4. PlanSoFar'
      <3>1. resolved' \in {resolved'} /\ AnsweredUpTo(missing', {resolved'}, resolved')
        BY PlanBegins
      <3>2. QED
        BY <2>2, <3>1 DEF PlanSoFar, OneTask
    <2>5. QED
      BY <1>0, <2>3, <2>4 DEF PlanIsSettled
  <1>4. ASSUME NEW t \in Tasks, FinishUpdate(t)
        PROVE  PlanInv'
    <2>1. /\ status[t] = "reading" /\ todo[t] = {} /\ status'[t] = "updated"
          /\ UNCHANGED <<missing, resolved, todo>>
      BY <1>4 DEF FinishUpdate, TypeOK
    <2>2. PICK plan : resolved \in plan /\ AnsweredUpTo(missing, plan, {})
      BY <2>1 DEF PlanSoFar
    <2>3. AnsweredUpTo(missing', plan, {})
      BY <2>1, <2>2
    <2>4. \A u \in Tasks : status'[u] # "reading"
      BY <2>1 DEF OneTask
    <2>5. QED
      BY <1>0, <2>1, <2>2, <2>3, <2>4 DEF PlanSoFar, PlanIsSettled
  <1>5. CASE UNCHANGED plannedVars
    BY <1>0, <1>5 DEF plannedVars, vars, PlanSoFar, PlanIsSettled, AnsweredUpTo, Served
  <1>6. ASSUME NEW t \in Tasks, StartUpdate(t) \/ PlannedRead(t) \/ FinishUpdate(t),
               settled' = (settled \/ status'[t] = "updated")
        PROVE  PlanInv'
    <2>1. CASE StartUpdate(t)
      <3>1. status'[t] = "reading"
        BY <2>1 DEF StartUpdate, TypeOK
      <3>2. UNCHANGED settled
        BY <1>6, <3>1
      <3>3. QED
        BY <1>1, <2>1, <3>2
    <2>2. CASE todo[t] # {} /\ ReadServed(t, NextBlock(todo[t]))
      <3>1. status'[t] = "reading"
        BY <2>2 DEF ReadServed
      <3>2. UNCHANGED settled
        BY <1>6, <3>1
      <3>3. QED
        BY <1>2, <2>2, <3>2
    <2>3. QED
      BY <1>3, <1>4, <1>6, <2>1, <2>2 DEF PlannedRead
  <1>7. QED
    BY <1>5, <1>6 DEF PlannedNext

(* With one task, as the coordinator has it, the first update that succeeds  *)
(* is the last one that may drop a field, for any register map and any       *)
(* inverter.  (sungrow.py:79-84)                                             *)
THEOREM DropConverges ==
    ASSUME OneTask
    PROVE  PlannedSpec => PlanConverges
  <1>1. PlannedInit => PlanInv
    BY DEF PlannedInit, Init, PlanInv, TypeOK, Ended, PlanSoFar, PlanIsSettled
  <1>2. PlanInv /\ [PlannedNext]_plannedVars => PlanInv'
    BY PlanInductive
  <1>3. PlanInv /\ [PlannedNext]_plannedVars => [settled => resolved' = resolved]_plannedVars
    <2> SUFFICES ASSUME PlanInv, PlannedNext, settled
                 PROVE  resolved' = resolved
      OBVIOUS
    <2>1. PICK t \in Tasks : StartUpdate(t) \/ PlannedRead(t) \/ FinishUpdate(t)
      BY DEF PlannedNext
    <2>2. CASE todo[t] # {} /\ ReadUnsupported(t, NextBlock(todo[t]))
      BY <2>2, SettledIsServed DEF ReadUnsupported, PlanInv
    <2>3. QED
      BY <2>1, <2>2 DEF PlannedRead, StartUpdate, ReadServed, FinishUpdate
  <1>4. QED
    BY <1>1, <1>2, <1>3, PTL DEF PlannedSpec, PlanConverges

-----------------------------------------------------------------------------
(* The loop is bounded *)

(* How many fields the update of t has still to read. *)
Left(t) == IF status[t] = "reading" THEN Cardinality(todo[t]) ELSE 0

Bound == Cardinality(Fields) * (Cardinality(Fields \ resolved) + 1)

(* A read takes a field from what is left; a drop sets the update back to    *)
(* the resolved fields, but raises the bound by as much.                     *)
RequestInv ==
    /\ TypeOK
    /\ requests \in [Tasks -> Nat]
    /\ \A t \in Tasks : requests[t] + Left(t) <= Bound

LEMMA FieldCounts ==
    ASSUME NEW S \in SUBSET Fields
    PROVE  /\ IsFiniteSet(S) /\ Cardinality(S) \in Nat
           /\ Cardinality(Fields) \in Nat /\ Cardinality(S) <= Cardinality(Fields)
  BY ConstantsAssumption, FS_Subset, FS_CardinalityType

(* Fewer fields of a set are fewer. *)
LEMMA FewerFields ==
    ASSUME NEW S \in SUBSET Fields, NEW T \in SUBSET S
    PROVE  /\ Cardinality(T) <= Cardinality(S)
           /\ T # S => Cardinality(T) + 1 <= Cardinality(S)
  <1>1. IsFiniteSet(S) /\ Cardinality(S) \in Nat /\ Cardinality(T) \in Nat
    BY FieldCounts
  <1>2. Cardinality(T) <= Cardinality(S) /\ (Cardinality(S) = Cardinality(T) => S = T)
    BY <1>1, FS_Subset
  <1>3. QED
    BY <1>1, <1>2

LEMMA ProductGrows ==
    ASSUME NEW n \in Nat, NEW a \in Nat, NEW b \in Nat, a <= b
    PROVE  n * (a + 1) \in Nat /\ n * (a + 1) <= n * (b + 1)
  <1>1. n * (b - a) \in Nat
    OBVIOUS
  <1>2. QED
    BY <1>1

(* A field that is dropped pays for reading all the others once more. *)
LEMMA BoundGrows ==
    ASSUME TypeOK, TypeOK', resolved' \subseteq resolved
    PROVE  /\ Bound \in Nat /\ Bound' \in Nat /\ Bound <= Bound'
           /\ resolved' # resolved => Bound + Cardinality(Fields) <= Bound'
  <1> DEFINE n == Cardinality(Fields)
             a == Cardinality(Fields \ resolved)
             b == Cardinality(Fields \ resolved')
  <1>1. n \in Nat /\ a \in Nat /\ b \in Nat
    BY FieldCounts
  <1>2. Fields \ resolved \in SUBSET (Fields \ resolved')
    OBVIOUS
  <1>3. a <= b /\ (resolved' # resolved => a + 1 <= b)
    <2>1. resolved' # resolved => Fields \ resolved # Fields \ resolved'
      BY DEF TypeOK
    <2>2. QED
      BY <1>2, <2>1, FewerFields
  <1> HIDE DEF n, a, b
  <1>4. n * (a + 1) \in Nat /\ n * (b + 1) \in Nat /\ n * (a + 1) <= n * (b + 1)
    BY <1>1, <1>3, ProductGrows
  <1>5. a + 1 <= b => n * (a + 1) + n <= n * (b + 1)
    <2>1. ASSUME a + 1 <= b
          PROVE  n * (a + 1) + n <= n * (b + 1)
      <3>1. n * ((a + 1) + 1) <= n * (b + 1)
        BY <1>1, <2>1, ProductGrows
      <3>2. n * ((a + 1) + 1) = n * (a + 1) + n
        BY <1>1
      <3>3. QED
        BY <3>1, <3>2
    <2>2. QED
      BY <2>1
  <1>6. QED
    BY <1>3, <1>4, <1>5 DEF Bound, n, a, b

LEMMA RequestInductive == RequestInv /\ [PlannedNext]_plannedVars => RequestInv'
  <1> SUFFICES ASSUME RequestInv, [PlannedNext]_plannedVars
               PROVE  RequestInv'
    OBVIOUS
  <1>a. TypeOK /\ TypeOK'
    BY PlannedStepIsAllowed, TypeInductive DEF RequestInv
  <1>b. \A t \in Tasks : requests[t] \in Nat /\ Left(t) \in Nat /\ Left(t)' \in Nat
    BY <1>a, FieldCounts DEF RequestInv, Left, TypeOK
  <1>0. ASSUME NEW t \in Tasks, requests' \in [Tasks -> Nat], resolved' \subseteq resolved,
               \A u \in Tasks \ {t} : /\ requests'[u] = requests[u]
                                      /\ UNCHANGED <<todo[u], status[u]>>,
               requests'[t] + Left(t)' <= Bound'
        PROVE  RequestInv'
    <2>1. \A u \in Tasks \ {t} : Left(u)' = Left(u)
      BY <1>0 DEF Left
    <2>2. \A u \in Tasks \ {t} : requests'[u] + Left(u)' <= Bound'
      BY <1>0, <1>a, <1>b, <2>1, BoundGrows DEF RequestInv
    <2>3. QED
      BY <1>0, <1>a, <2>2 DEF RequestInv
  <1>1. ASSUME NEW t \in Tasks, StartUpdate(t), requests' = [requests EXCEPT ![t] = 0]
        PROVE  RequestInv'
    <2>1. Left(t)' <= Cardinality(Fields)
      BY <1>1, <1>a, FieldCounts DEF StartUpdate, Left, TypeOK
    <2>2. Cardinality(Fields) <= Bound'
      <3>1. Cardinality(Fields) \in Nat /\ Cardinality(Fields \ resolved') \in Nat
        BY FieldCounts
      <3>2. Cardinality(Fields) * (0 + 1) <= Cardinality(Fields) * (Cardinality(Fields \ resolved') + 1)
        BY <3>1, ProductGrows
      <3>3. QED
        BY <3>1, <3>2 DEF Bound
    <2>3. requests'[t] + Left(t)' <= Bound'
      BY <1>1, <1>a, <1>b, <2>1, <2>2, BoundGrows, FieldCounts DEF StartUpdate, RequestInv
    <2>4. QED
      BY <1>0, <1>1, <1>a, <2>3 DEF StartUpdate, RequestInv, TypeOK
  <1>2. ASSUME NEW t \in Tasks, PlannedRead(t), requests' = [requests EXCEPT ![t] = @ + 1]
        PROVE  RequestInv'
    <2> DEFINE b == NextBlock(todo[t])
    <2>1. /\ status[t] = "reading" /\ todo[t] \in SUBSET Fields /\ todo[t] # {}
          /\ requests[t] + Cardinality(todo[t]) <= Bound
          /\ requests'[t] = requests[t] + 1 /\ requests' \in [Tasks -> Nat]
      BY <1>2, <1>a DEF PlannedRead, ReadServed, ReadUnsupported, RequestInv, Left, TypeOK
    <2>2. Cardinality(todo[t]) \in Nat /\ 1 <= Cardinality(todo[t])
      BY <2>1, FieldCounts, FS_EmptySet
    <2>3. CASE ReadServed(t, b)
      <3>1. todo'[t] = Rest(todo[t]) /\ Left(t)' = Cardinality(todo'[t])
        BY <1>a, <2>1, <2>3 DEF ReadServed, Rest, Left, TypeOK
      <3>2. Rest(todo[t]) \in SUBSET todo[t] /\ Rest(todo[t]) # todo[t]
        BY <2>1, NextBlockFacts DEF Rest
      <3>3. Left(t)' + 1 <= Cardinality(todo[t])
        BY <2>1, <3>1, <3>2, FewerFields
      <3>4. Bound' = Bound /\ Bound \in Nat
        BY <1>a, <2>3, BoundGrows DEF ReadServed, Bound
      <3>5. requests'[t] + Left(t)' <= Bound'
        BY <1>b, <2>1, <2>2, <3>3, <3>4
      <3>6. QED
        BY <1>0, <1>a, <1>2, <2>1, <2>3, <3>5 DEF ReadServed, RequestInv, TypeOK
    <2>4. CASE ReadUnsupported(t, b)
      <3>1. CASE /\ resolved' \subseteq resolved /\ resolved' # resolved
                 /\ todo' = [todo EXCEPT ![t] = resolved'] /\ UNCHANGED status
        <4>1. Left(t)' <= Cardinality(Fields) /\ Cardinality(Fields) \in Nat
          BY <1>a, <2>1, <3>1, FieldCounts DEF Left, TypeOK
        <4>2. Bound + Cardinality(Fields) <= Bound' /\ Bound \in Nat /\ Bound' \in Nat
          BY <1>a, <3>1, BoundGrows
        <4>3. requests'[t] + Left(t)' <= Bound'
          BY <1>b, <2>1, <2>2, <4>1, <4>2
        <4>4. QED
          BY <1>0, <1>2, <2>1, <3>1, <4>3, <1>a DEF RequestInv, TypeOK
      <3>2. CASE /\ status' = [status EXCEPT ![t] = "unsupported"]
                 /\ UNCHANGED <<resolved, todo>>
        <4>1. Left(t)' = 0 /\ Bound' = Bound /\ Bound \in Nat
          BY <1>a, <3>2, BoundGrows DEF Left, Bound, TypeOK
        <4>2. requests'[t] + Left(t)' <= Bound'
          BY <1>b, <2>1, <2>2, <4>1
        <4>3. QED
          BY <1>0, <1>2, <2>1, <3>2, <4>2, <1>a DEF RequestInv, TypeOK
      <3>3. QED
        BY <2>4, <3>1, <3>2 DEF ReadUnsupported, DropFieldsIn, FirstHit, Hit
    <2>5. QED
      BY <1>2, <2>3, <2>4 DEF PlannedRead
  <1>3. ASSUME NEW t \in Tasks, FinishUpdate(t), UNCHANGED requests
        PROVE  RequestInv'
    <2>1. Left(t)' = 0 /\ Bound' = Bound /\ Bound \in Nat
      BY <1>a, <1>3, BoundGrows DEF FinishUpdate, Left, Bound, TypeOK
    <2>2. requests'[t] + Left(t)' <= Bound'
      BY <1>b, <1>3, <2>1 DEF RequestInv
    <2>3. QED
      BY <1>0, <1>3, <1>a, <2>2 DEF FinishUpdate, RequestInv, TypeOK
  <1>4. CASE UNCHANGED plannedVars
    BY <1>4, <1>a DEF plannedVars, vars, RequestInv, Left, Bound
  <1>5. QED
    BY <1>1, <1>2, <1>3, <1>4 DEF PlannedNext

(* The loop always comes to its end: with the declared fields or any others, *)
(* any number of tasks, and whatever the inverter refuses, an update sends   *)
(* at most one read per field, and as many again for each field that was     *)
(* ever dropped.  (sungrow.py:86-93)                                         *)
THEOREM RequestsStayBounded == PlannedSpec => []RequestsAreBounded
  <1>1. PlannedInit => RequestInv
    <2> SUFFICES ASSUME PlannedInit
                 PROVE  RequestInv
      OBVIOUS
    <2>1. TypeOK /\ requests \in [Tasks -> Nat]
      BY DEF PlannedInit, Init, TypeOK, Ended
    <2>2. \A t \in Tasks : requests[t] = 0 /\ Left(t) = 0
      BY DEF PlannedInit, Init, Left
    <2>3. Bound \in Nat
      BY FieldCounts, ProductGrows DEF Bound
    <2>4. QED
      BY <2>1, <2>2, <2>3 DEF RequestInv
  <1>2. RequestInv => RequestsAreBounded
    <2> SUFFICES ASSUME RequestInv, NEW t \in Tasks
                 PROVE  requests[t] <= Bound
      BY DEF RequestsAreBounded, Bound
    <2>1. requests[t] \in Nat /\ Left(t) \in Nat /\ requests[t] + Left(t) <= Bound
      BY FieldCounts DEF RequestInv, Left, TypeOK
    <2>2. Bound \in Nat
      BY FieldCounts, ProductGrows DEF Bound
    <2>3. QED
      BY <2>1, <2>2
  <1>3. QED
    BY <1>1, <1>2, RequestInductive, PTL DEF PlannedSpec
=============================================================================
