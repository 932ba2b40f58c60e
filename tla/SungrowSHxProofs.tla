-------------------------- MODULE SungrowSHxProofs --------------------------
(***************************************************************************)
(* Proofs about SungrowSHx, for every register layout, every inverter and  *)
(* every plan of blocks within max_span: type correctness, the invariants  *)
(* of the drop, the progress of the retry, and the refinement of the safe  *)
(* part of DeviceUpdate.                                                   *)
(***************************************************************************)
EXTENDS SungrowSHx, TLAPS

(* While a task reads, what it need not read any more is served: it was      *)
(* answered, and the set of resolved fields only shrinks.                    *)
ReadSoFarServed ==
    \A t \in Tasks :
        status[t] = "reading" => \A f \in resolved \ todo[t] : Served(f)

(* The inductive invariant of the drop. *)
DropInv == TypeOK /\ DropsAreJustified /\ ReadSoFarServed /\ UpdatedMeansServed

(* A task that reads has only resolved fields to read, which is inductive    *)
(* only when no other task can shrink the resolved fields meanwhile.         *)
TodoResolved ==
    \A t \in Tasks : status[t] = "reading" => todo[t] \subseteq resolved

OneTask == \A s, t \in Tasks : s = t

-----------------------------------------------------------------------------
(* Lemmas about fields and blocks *)

(* A field is a block that could be read on its own, within max_span. *)
LEMMA FieldFacts ==
    ASSUME NEW f \in Fields
    PROVE  /\ f \in Field
           /\ f.comp \in Components /\ f.space \in Spaces
           /\ f.addr \in Nat /\ f.count \in Nat /\ f.count > 0
           /\ f.count <= MaxSpan /\ MaxSpan \in Nat
           /\ End(f) \in Nat /\ End(f) > f.addr
  <1>1. f \in Field /\ f.count <= MaxSpan /\ MaxSpan \in Nat
    BY ConstantsAssumption
  <1>2. QED
    BY <1>1 DEF Field, End

(* A block of any plan lies in one space, is not empty, and is no wider than *)
(* max_span.                                                                 *)
LEMMA BlockFacts ==
    ASSUME NEW S \in SUBSET Fields, NEW b \in Blocks(S)
    PROVE  /\ b \in ReadBlock
           /\ b.count <= MaxSpan
           /\ \E f \in S : Overlaps(f, b)
  <1>1. PICK p \in S \X S : /\ p[1].space = p[2].space
                            /\ p[1].addr < End(p[2])
                            /\ End(p[2]) - p[1].addr <= MaxSpan
                            /\ b = Span(p[1], p[2])
    BY DEF Blocks
  <1>2. p[1] \in S /\ p[2] \in S /\ p[1] \in Fields /\ p[2] \in Fields
    BY <1>1
  <1>3. /\ p[1].space \in Spaces /\ p[1].addr \in Nat
        /\ End(p[1]) \in Nat /\ End(p[1]) > p[1].addr
        /\ End(p[2]) \in Nat /\ MaxSpan \in Nat
    BY <1>2, FieldFacts
  <1>4. /\ b.space = p[1].space /\ b.addr = p[1].addr
        /\ b.count = End(p[2]) - p[1].addr
        /\ End(b) = End(p[2])
    BY <1>1, <1>3 DEF Span, End
  <1>5. b \in ReadBlock
    BY <1>1, <1>3 DEF Span, ReadBlock
  <1>6. Overlaps(p[1], b)
    BY <1>1, <1>3, <1>4 DEF Overlaps
  <1>7. QED
    BY <1>1, <1>2, <1>4, <1>5, <1>6

(* When a block is answered, every field within it is served. *)
LEMMA CoveredIsServed ==
    ASSUME NEW lacking \in SUBSET Register, NEW b \in ReadBlock, NEW f \in Fields,
           Covers(b, f), ServedBy(lacking, b)
    PROVE  ServedBy(lacking, f)
  <1> SUFFICES ASSUME NEW r \in lacking, Holds(f, r)
               PROVE  FALSE
    BY DEF ServedBy
  <1>1. r[2] \in Nat
    BY DEF Register
  <1>2. f.addr \in Nat /\ End(f) \in Nat
    BY FieldFacts
  <1>3. b.addr \in Nat /\ End(b) \in Nat
    BY DEF ReadBlock, End
  <1>4. Holds(b, r)
    BY <1>1, <1>2, <1>3 DEF Covers, Holds
  <1>5. QED
    BY <1>4 DEF ServedBy

(* A field dropped for a block lies near the register that the block lacks. *)
LEMMA HoleIsNear ==
    ASSUME NEW b \in ReadBlock, b.count <= MaxSpan,
           NEW f \in Fields, Overlaps(f, b),
           NEW r \in Register, Holds(b, r)
    PROVE  Near(r, f)
  <1>1. r[2] \in Nat
    BY DEF Register
  <1>2. f.addr \in Nat /\ End(f) \in Nat /\ MaxSpan \in Nat
    BY FieldFacts
  <1>3. b.addr \in Nat /\ b.count \in Nat /\ End(b) = b.addr + b.count
    BY DEF ReadBlock, End
  <1>4. QED
    BY <1>1, <1>2, <1>3 DEF Overlaps, Holds, Near

(* Every inverter's missing registers are registers. *)
LEMMA MissingAreRegisters ==
    ASSUME missing \in Variants
    PROVE  missing \in SUBSET Register
  BY ConstantsAssumption

-----------------------------------------------------------------------------
(* Type correctness *)

(* TypeOK is inductive. *)
LEMMA TypeInductive == TypeOK /\ [Next]_vars => TypeOK'
  <1> SUFFICES ASSUME TypeOK, [Next]_vars
               PROVE  TypeOK'
    OBVIOUS
  <1> USE DEF TypeOK, Ended
  <1>1. ASSUME NEW t \in Tasks, StartUpdate(t)
        PROVE  TypeOK'
    BY <1>1 DEF StartUpdate
  <1>2. ASSUME NEW t \in Tasks, NEW b \in Blocks(todo[t]), ReadServed(t, b)
        PROVE  TypeOK'
    BY <1>2 DEF ReadServed
  <1>3. ASSUME NEW t \in Tasks, NEW b \in Blocks(todo[t]), ReadUnsupported(t, b)
        PROVE  TypeOK'
    BY <1>3 DEF ReadUnsupported, DropFieldsIn
  <1>4. ASSUME NEW t \in Tasks, NEW b \in Blocks(todo[t]), ReadUnnamed(t, b)
        PROVE  TypeOK'
    BY <1>4 DEF ReadUnnamed
  <1>5. ASSUME NEW t \in Tasks, LinkError(t)
        PROVE  TypeOK'
    BY <1>5 DEF LinkError
  <1>6. ASSUME NEW t \in Tasks, FinishUpdate(t)
        PROVE  TypeOK'
    BY <1>6 DEF FinishUpdate
  <1>7. CASE UNCHANGED vars
    BY <1>7 DEF vars
  <1>8. QED
    BY <1>1, <1>2, <1>3, <1>4, <1>5, <1>6, <1>7 DEF Next, UpdateStep

(* The state stays well typed, whatever the inverter answers.                *)
(* (sungrow.py:46-123)                                                       *)
THEOREM TypeCorrect == Spec => []TypeOK
  <1>1. Init => TypeOK
    BY DEF Init, TypeOK, Ended
  <1>2. QED
    BY <1>1, TypeInductive, PTL DEF Spec

-----------------------------------------------------------------------------
(* The drop *)

(* Dropping around an unsupported block keeps every drop justified: the      *)
(* block holds a missing register, and every dropped field overlaps it.      *)
LEMMA DropIsJustified ==
    ASSUME TypeOK, NEW t \in Tasks, NEW b \in Blocks(todo[t]), ~Served(b),
           NEW c \in Components, NEW f \in Hit(c, b)
    PROVE  \E r \in missing : Near(r, f)
  <1>1. b \in ReadBlock /\ b.count <= MaxSpan
    BY BlockFacts DEF TypeOK
  <1>2. PICK r \in missing : Holds(b, r)
    BY DEF Served, ServedBy
  <1>3. r \in Register
    BY <1>2, MissingAreRegisters DEF TypeOK
  <1>4. f \in Fields /\ Overlaps(f, b)
    BY DEF Hit, TypeOK
  <1>5. QED
    BY <1>1, <1>2, <1>3, <1>4, HoleIsNear

(* What is left to read after an answered block excludes only served fields. *)
LEMMA AnsweredIsServed ==
    ASSUME TypeOK, NEW t \in Tasks, NEW b \in Blocks(todo[t]), Served(b),
           NEW f \in Fields, Covers(b, f)
    PROVE  Served(f)
  <1>1. b \in ReadBlock
    BY BlockFacts DEF TypeOK
  <1>2. missing \in SUBSET Register
    BY MissingAreRegisters DEF TypeOK
  <1>3. QED
    BY <1>1, <1>2, CoveredIsServed DEF Served

(* DropInv is inductive. *)
LEMMA DropInductive == DropInv /\ [Next]_vars => DropInv'
  <1> SUFFICES ASSUME DropInv, [Next]_vars
               PROVE  DropInv'
    OBVIOUS
  <1> USE DEF DropInv
  <1>0. TypeOK'
    BY TypeInductive
  <1>1. ASSUME NEW t \in Tasks, StartUpdate(t)
        PROVE  DropInv'
    BY <1>0, <1>1 DEF StartUpdate, TypeOK, DropsAreJustified, ReadSoFarServed,
                      UpdatedMeansServed, Served
  <1>2. ASSUME NEW t \in Tasks, NEW b \in Blocks(todo[t]), ReadServed(t, b)
        PROVE  DropInv'
    <2>1. ReadSoFarServed'
      <3> SUFFICES ASSUME NEW u \in Tasks, status[u] = "reading",
                          NEW f \in resolved, f \notin todo'[u]
                   PROVE  Served(f)
        BY <1>2 DEF ReadServed, ReadSoFarServed, Served
      <3>1. CASE f \notin todo[u]
        BY <3>1 DEF ReadSoFarServed
      <3>2. CASE f \in todo[u]
        <4>1. u = t /\ Covers(b, f) /\ f \in Fields
          BY <1>2, <3>2 DEF ReadServed, TypeOK
        <4>2. QED
          BY <1>2, <4>1, AnsweredIsServed DEF ReadServed
      <3>3. QED
        BY <3>1, <3>2
    <2>2. DropsAreJustified' /\ UpdatedMeansServed'
      BY <1>2 DEF ReadServed, DropsAreJustified, UpdatedMeansServed, Served
    <2>3. QED
      BY <1>0, <2>1, <2>2
  <1>3. ASSUME NEW t \in Tasks, NEW b \in Blocks(todo[t]), ReadUnsupported(t, b)
        PROVE  DropInv'
    <2>1. CASE \A c \in Components : Hit(c, b) = {}
      <3>1. /\ UNCHANGED <<missing, resolved, todo>>
            /\ status' = [status EXCEPT ![t] = "unsupported"]
        BY <1>3, <2>1 DEF ReadUnsupported, DropFieldsIn, FirstHit
      <3>2. QED
        BY <1>0, <3>1 DEF DropsAreJustified, ReadSoFarServed,
                          UpdatedMeansServed, Served, TypeOK
    <2>2. ASSUME NEW c \in Components, Hit(c, b) # {},
                 resolved' = resolved \ Hit(c, b),
                 todo' = [todo EXCEPT ![t] = resolved \ Hit(c, b)],
                 UNCHANGED <<missing, status>>
          PROVE  DropInv'
      <3>1. DropsAreJustified'
        <4> SUFFICES ASSUME NEW f \in Fields, f \notin resolved'
                     PROVE  \E r \in missing : Near(r, f)
          BY <2>2 DEF DropsAreJustified
        <4>1. CASE f \notin resolved
          BY <4>1 DEF DropsAreJustified
        <4>2. CASE f \in Hit(c, b)
          BY <1>3, <4>2, DropIsJustified DEF ReadUnsupported
        <4>3. QED
          BY <2>2, <4>1, <4>2
      <3>2. ReadSoFarServed'
        <4> SUFFICES ASSUME NEW u \in Tasks, status[u] = "reading",
                            NEW f \in resolved', f \notin todo'[u]
                     PROVE  Served(f)
          BY <2>2 DEF ReadSoFarServed, Served
        <4>1. u # t /\ todo'[u] = todo[u] /\ f \in resolved
          BY <2>2 DEF TypeOK
        <4>2. QED
          BY <4>1 DEF ReadSoFarServed
      <3>3. UpdatedMeansServed'
        BY <2>2 DEF UpdatedMeansServed, Served
      <3>4. QED
        BY <1>0, <3>1, <3>2, <3>3
    <2>3. QED
      BY <1>3, <2>1, <2>2 DEF ReadUnsupported, DropFieldsIn, FirstHit
  <1>4. ASSUME NEW t \in Tasks, NEW b \in Blocks(todo[t]), ReadUnnamed(t, b)
        PROVE  DropInv'
    BY <1>0, <1>4 DEF ReadUnnamed, TypeOK, DropsAreJustified, ReadSoFarServed,
                      UpdatedMeansServed, Served
  <1>5. ASSUME NEW t \in Tasks, LinkError(t)
        PROVE  DropInv'
    BY <1>0, <1>5 DEF LinkError, TypeOK, DropsAreJustified, ReadSoFarServed,
                      UpdatedMeansServed, Served
  <1>6. ASSUME NEW t \in Tasks, FinishUpdate(t)
        PROVE  DropInv'
    BY <1>0, <1>6 DEF FinishUpdate, TypeOK, DropsAreJustified, ReadSoFarServed,
                      UpdatedMeansServed, Served
  <1>7. CASE UNCHANGED vars
    BY <1>0, <1>7 DEF vars, TypeOK, DropsAreJustified, ReadSoFarServed,
                      UpdatedMeansServed, Served
  <1>8. QED
    BY <1>1, <1>2, <1>3, <1>4, <1>5, <1>6, <1>7 DEF Next, UpdateStep

LEMMA DropInvariant == Spec => []DropInv
  <1>1. Init => DropInv
    BY DEF Init, DropInv, TypeOK, Ended, DropsAreJustified, ReadSoFarServed,
           UpdatedMeansServed
  <1>2. QED
    BY <1>1, DropInductive, PTL DEF Spec

(* No field is lost without a missing register near it, in its own space.    *)
(* (sungrow.py:101-121)                                                      *)
THEOREM DropsJustified == Spec => []DropsAreJustified
  <1>1. DropInv => DropsAreJustified
    BY DEF DropInv
  <1>2. QED
    BY <1>1, DropInvariant, PTL

(* After a successful update every field that is left is served, however     *)
(* many tasks share the device.  (sungrow.py:86-93)                          *)
THEOREM SuccessIsStable == Spec => []UpdatedMeansServed
  <1>1. DropInv => UpdatedMeansServed
    BY DEF DropInv
  <1>2. QED
    BY <1>1, DropInvariant, PTL

-----------------------------------------------------------------------------
(* The retry *)

(* Every step of the loop keeps to the fields still to read, or narrows.     *)
LEMMA StepNarrows ==
    ASSUME TypeOK, [Next]_vars,
           NEW t \in Tasks, status[t] = "reading", status'[t] = "reading",
           todo'[t] # todo[t]
    PROVE  \/ todo'[t] \subseteq todo[t] /\ resolved' = resolved
           \/ resolved' \subseteq resolved /\ resolved' # resolved
  <1> USE DEF TypeOK
  <1>1. ASSUME NEW u \in Tasks, StartUpdate(u)
        PROVE  FALSE
    BY <1>1 DEF StartUpdate
  <1>2. ASSUME NEW u \in Tasks, NEW b \in Blocks(todo[u]), ReadServed(u, b)
        PROVE  todo'[t] \subseteq todo[t] /\ resolved' = resolved
    BY <1>2 DEF ReadServed
  <1>3. ASSUME NEW u \in Tasks, NEW b \in Blocks(todo[u]), ReadUnsupported(u, b)
        PROVE  resolved' \subseteq resolved /\ resolved' # resolved
    <2>1. PICK c \in Components : /\ Hit(c, b) # {}
                                  /\ resolved' = resolved \ Hit(c, b)
      BY <1>3 DEF ReadUnsupported, DropFieldsIn, FirstHit
    <2>2. Hit(c, b) \subseteq resolved
      BY DEF Hit
    <2>3. QED
      BY <2>1, <2>2
  <1>4. ASSUME NEW u \in Tasks, NEW b \in Blocks(todo[u]), ReadUnnamed(u, b)
        PROVE  FALSE
    BY <1>4 DEF ReadUnnamed
  <1>5. ASSUME NEW u \in Tasks, LinkError(u) \/ FinishUpdate(u)
        PROVE  FALSE
    BY <1>5 DEF LinkError, FinishUpdate
  <1>6. CASE UNCHANGED vars
    BY <1>6 DEF vars
  <1>7. QED
    BY <1>1, <1>2, <1>3, <1>4, <1>5, <1>6 DEF Next, UpdateStep

(* A retry always has fewer fields to read than the attempt before it.       *)
(* (sungrow.py:95-99)                                                        *)
THEOREM RetriesProgress == Spec => RetriesNarrow
  <1>1. TypeOK /\ [Next]_vars
          => [\A t \in Tasks :
                (/\ status[t] = "reading" /\ status'[t] = "reading"
                 /\ todo'[t] # todo[t])
                   => \/ todo'[t] \subseteq todo[t] /\ resolved' = resolved
                      \/ resolved' \subseteq resolved /\ resolved' # resolved]_vars
    BY StepNarrows
  <1>2. QED
    BY <1>1, TypeCorrect, PTL DEF Spec, RetriesNarrow

-----------------------------------------------------------------------------
(* One task: an unsupported block is never fatal *)

NeverFatalInv == TypeOK /\ TodoResolved /\ MissingNeverFatal

(* A block of the fields still to read overlaps a field that is resolved, so *)
(* some component is narrowed and the error is not raised.                   *)
LEMMA SomeComponentIsHit ==
    ASSUME TypeOK, TodoResolved, NEW t \in Tasks, status[t] = "reading",
           NEW b \in Blocks(todo[t])
    PROVE  \E c \in Components : Hit(c, b) # {}
  <1>1. PICK f \in todo[t] : Overlaps(f, b)
    BY BlockFacts DEF TypeOK
  <1>2. f \in resolved /\ f \in Fields
    BY DEF TodoResolved, TypeOK
  <1>3. f.comp \in Components
    BY <1>2, FieldFacts
  <1>4. f \in Hit(f.comp, b)
    BY <1>1, <1>2 DEF Hit
  <1>5. QED
    BY <1>3, <1>4

LEMMA NeverFatalInductive ==
    ASSUME OneTask, NeverFatalInv, [Next]_vars
    PROVE  NeverFatalInv'
  <1> USE DEF NeverFatalInv
  <1>0. TypeOK'
    BY TypeInductive
  <1>1. ASSUME NEW t \in Tasks, StartUpdate(t)
        PROVE  NeverFatalInv'
    BY <1>0, <1>1 DEF StartUpdate, TypeOK, TodoResolved, MissingNeverFatal
  <1>2. ASSUME NEW t \in Tasks, NEW b \in Blocks(todo[t]), ReadServed(t, b)
        PROVE  NeverFatalInv'
    BY <1>0, <1>2 DEF ReadServed, TypeOK, TodoResolved, MissingNeverFatal
  <1>3. ASSUME NEW t \in Tasks, NEW b \in Blocks(todo[t]), ReadUnsupported(t, b)
        PROVE  NeverFatalInv'
    <2>1. \E c \in Components : Hit(c, b) # {}
      BY <1>3, SomeComponentIsHit DEF ReadUnsupported
    <2>2. PICK c \in Components :
              /\ resolved' = resolved \ Hit(c, b)
              /\ todo' = [todo EXCEPT ![t] = resolved \ Hit(c, b)]
              /\ UNCHANGED status
      BY <1>3, <2>1 DEF ReadUnsupported, DropFieldsIn
    <2>3. TodoResolved'
      BY <2>2 DEF OneTask, TypeOK, TodoResolved
    <2>4. QED
      BY <1>0, <2>2, <2>3 DEF MissingNeverFatal
  <1>4. ASSUME NEW t \in Tasks, NEW b \in Blocks(todo[t]), ReadUnnamed(t, b)
        PROVE  NeverFatalInv'
    BY <1>0, <1>4 DEF ReadUnnamed, TypeOK, TodoResolved, MissingNeverFatal
  <1>5. ASSUME NEW t \in Tasks, LinkError(t)
        PROVE  NeverFatalInv'
    BY <1>0, <1>5 DEF LinkError, TypeOK, TodoResolved, MissingNeverFatal
  <1>6. ASSUME NEW t \in Tasks, FinishUpdate(t)
        PROVE  NeverFatalInv'
    BY <1>0, <1>6 DEF FinishUpdate, TypeOK, TodoResolved, MissingNeverFatal
  <1>7. CASE UNCHANGED vars
    BY <1>0, <1>7 DEF vars, TypeOK, TodoResolved, MissingNeverFatal
  <1>8. QED
    BY <1>1, <1>2, <1>3, <1>4, <1>5, <1>6, <1>7 DEF Next, UpdateStep

(* As long as one task at a time updates the device, as the coordinator      *)
(* does, a register that the inverter does not serve and names never fails   *)
(* an update.  (sungrow.py:89-91)                                            *)
THEOREM MissingIsNeverFatal ==
    ASSUME OneTask
    PROVE  Spec => []MissingNeverFatal
  <1>1. Init => NeverFatalInv
    BY DEF Init, NeverFatalInv, TypeOK, Ended, TodoResolved, MissingNeverFatal
  <1>2. NeverFatalInv /\ [Next]_vars => NeverFatalInv'
    BY NeverFatalInductive
  <1>3. NeverFatalInv => MissingNeverFatal
    BY DEF NeverFatalInv
  <1>4. QED
    BY <1>1, <1>2, <1>3, PTL DEF Spec

-----------------------------------------------------------------------------
(* Refinement of DeviceUpdate *)

(* A step that sets the status of one task sets its phase accordingly. *)
LEMMA PhaseStep ==
    ASSUME TypeOK, NEW t \in Tasks, NEW s,
           status' = [status EXCEPT ![t] = s]
    PROVE  Phase' = [Phase EXCEPT ![t] = PhaseOf(s)]
  BY DEF Phase, TypeOK

(* Every step of the loop is a step of the promise, or none. *)
LEMMA StepRefines == DropInv /\ [Next]_vars => [Promise!Next]_(Promise!vars)
  <1> SUFFICES ASSUME DropInv, [Next]_vars
               PROVE  [Promise!Next]_(Promise!vars)
    OBVIOUS
  <1>0. TypeOK
    BY DEF DropInv
  <1>1. ASSUME NEW t \in Tasks, StartUpdate(t)
        PROVE  Promise!Next
    <2>1. Phase[t] # "reading"
      BY <1>0, <1>1 DEF StartUpdate, TypeOK, Ended, Phase, PhaseOf
    <2>2. Phase' = [Phase EXCEPT ![t] = "reading"]
      BY <1>0, <1>1, PhaseStep DEF StartUpdate, PhaseOf
    <2>3. Promise!Begin(t)
      BY <1>1, <2>1, <2>2 DEF Promise!Begin, StartUpdate
    <2>4. QED
      BY <2>3 DEF Promise!Next
  <1>2. ASSUME NEW t \in Tasks, NEW b \in Blocks(todo[t]), ReadServed(t, b)
        PROVE  UNCHANGED Promise!vars
    BY <1>2 DEF ReadServed, Promise!vars, Phase
  <1>3. ASSUME NEW t \in Tasks, NEW b \in Blocks(todo[t]), ReadUnsupported(t, b)
        PROVE  Promise!Next
    <2>1. Phase[t] = "reading"
      BY <1>0, <1>3 DEF ReadUnsupported, Phase, PhaseOf
    <2>2. ASSUME NEW c \in Components, Hit(c, b) # {},
                 resolved' = resolved \ Hit(c, b), UNCHANGED status
          PROVE  Promise!Narrow(t)
      <3>1. Hit(c, b) \in SUBSET resolved
        BY DEF Hit
      <3>2. \A f \in Hit(c, b) : f.comp = c /\ \E r \in missing : Near(r, f)
        BY <1>0, <1>3, DropIsJustified DEF ReadUnsupported, Hit
      <3>3. UNCHANGED <<missing, Phase>>
        BY <1>3, <2>2 DEF ReadUnsupported, Phase
      <3>4. \A r \in missing, f \in Hit(c, b) : Near(r, f) <=> Promise!Near(r, f)
        BY DEF Near, Promise!Near, End, Promise!End
      <3>5. QED
        BY <2>1, <2>2, <3>1, <3>2, <3>3, <3>4 DEF Promise!Narrow
    <2>3. ASSUME status' = [status EXCEPT ![t] = "unsupported"],
                 UNCHANGED <<missing, resolved>>
          PROVE  Promise!Fail(t)
      <3>1. Phase' = [Phase EXCEPT ![t] = "failed"]
        BY <1>0, <2>3, PhaseStep DEF PhaseOf
      <3>2. QED
        BY <2>1, <2>3, <3>1 DEF Promise!Fail
    <2>4. QED
      BY <1>3, <2>2, <2>3
         DEF ReadUnsupported, DropFieldsIn, FirstHit, Promise!Next
  <1>4. ASSUME NEW t \in Tasks, NEW b \in Blocks(todo[t]), ReadUnnamed(t, b)
        PROVE  Promise!Next
    <2>1. Phase[t] = "reading"
      BY <1>0, <1>4 DEF ReadUnnamed, Phase, PhaseOf
    <2>2. Phase' = [Phase EXCEPT ![t] = "failed"]
      BY <1>0, <1>4, PhaseStep DEF ReadUnnamed, PhaseOf
    <2>3. QED
      BY <1>4, <2>1, <2>2 DEF ReadUnnamed, Promise!Fail, Promise!Next
  <1>5. ASSUME NEW t \in Tasks, LinkError(t)
        PROVE  Promise!Next
    <2>1. Phase[t] = "reading"
      BY <1>0, <1>5 DEF LinkError, Phase, PhaseOf
    <2>2. Phase' = [Phase EXCEPT ![t] = "failed"]
      BY <1>0, <1>5, PhaseStep DEF LinkError, PhaseOf
    <2>3. QED
      BY <1>5, <2>1, <2>2 DEF LinkError, Promise!Fail, Promise!Next
  <1>6. ASSUME NEW t \in Tasks, FinishUpdate(t)
        PROVE  Promise!Next
    <2>1. Phase[t] = "reading"
      BY <1>0, <1>6 DEF FinishUpdate, Phase, PhaseOf
    <2>2. Phase' = [Phase EXCEPT ![t] = "updated"]
      BY <1>0, <1>6, PhaseStep DEF FinishUpdate, PhaseOf
    <2>3. \A f \in resolved : Promise!ServedBy(missing, f)
      BY <1>6 DEF FinishUpdate, DropInv, ReadSoFarServed, Served, ServedBy,
                  Promise!ServedBy, Holds, Promise!Holds, End, Promise!End
    <2>4. QED
      BY <1>6, <2>1, <2>2, <2>3 DEF FinishUpdate, Promise!Succeed, Promise!Next
  <1>7. CASE UNCHANGED vars
    BY <1>7 DEF vars, Promise!vars, Phase
  <1>8. QED
    BY <1>1, <1>2, <1>3, <1>4, <1>5, <1>6, <1>7 DEF Next, UpdateStep

(* The loop keeps the safe part of its promise: it narrows one component at  *)
(* a time and only around missing registers, and it reports success only     *)
(* when everything left has been answered.  (sungrow.py:76-123)              *)
THEOREM PromiseIsSafe == Spec => Promise!Safe
  <1>1. Init => Promise!Init
    BY DEF Init, Promise!Init, Phase, PhaseOf
  <1>2. QED
    BY <1>1, StepRefines, DropInvariant, PTL DEF Spec, Promise!Safe
=============================================================================
