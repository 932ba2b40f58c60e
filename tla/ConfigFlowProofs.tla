-------------------------- MODULE ConfigFlowProofs --------------------------
(***************************************************************************)
(* Proofs about ConfigFlow, for every number of flows, every set of        *)
(* endpoints and of legacy ids, and without the bounds on link faults and  *)
(* on the returns of the YAML package mattering.                           *)
(***************************************************************************)
EXTENDS ConfigFlow, TLAPS

(* A flow that has passed the check of the unique id: the endpoint it has    *)
(* submitted goes with that id, and no entry has the id.                     *)
Checked == {"probing", "migrating", "legacy_naming"}

CheckedIsFree ==
    \A f \in Flows :
        step[f] \in Checked =>
            /\ pending[f] \in Endpoints
            /\ uniqueId[f] = Uid(pending[f])
            /\ ~Configured(uniqueId[f])

(* Flows in progress do not share a unique id.                               *)
IdsInProgressDiffer ==
    \A f, g \in Flows :
        (/\ f # g
         /\ step[f] \notin Ended /\ step[g] \notin Ended
         /\ uniqueId[f] = uniqueId[g])
            => uniqueId[f] = Uid(Nowhere)

(* A flow that asks about legacy ids has read from the endpoint it submitted. *)
ReadBeforeCreation ==
    \A f \in Flows :
        step[f] \in {"migrating", "legacy_naming"} => pending[f] \in probed[f]

(* Entries differ in their unique id and in their flow, which has ended.     *)
EntriesDiffer ==
    /\ \A e1, e2 \in entries : e1.uid = e2.uid => e1 = e2
    /\ \A e1, e2 \in entries : e1.flow = e2.flow => e1 = e2
    /\ \A e \in entries : step[e.flow] = "created"

(* An entry with legacy ids comes from a flow that found them free, and once *)
(* they were free the YAML package has one only if it came back.             *)
ClaimsWereClear ==
    /\ \A e \in entries : e.legacy => e.flow \in clear
    /\ clear # {} /\ returns = 0 => \A i \in LegacyIds : owner[i] # "yaml"

(* The inductive invariants: of the unique ids, and of the legacy ids.       *)
UidInv ==
    /\ TypeOK
    /\ CheckedIsFree /\ IdsInProgressDiffer /\ ReadBeforeCreation
    /\ EntryWasProbed /\ EntriesDiffer

LegacyInv == ClaimsWereClear /\ HeldByClaimants /\ MissedOnlyByRace

-----------------------------------------------------------------------------
(* Lemmas *)

(* The unique id of an endpoint is not that of a flow without submission.    *)
LEMMA EndpointsHaveIds ==
    ASSUME NEW at \in Endpoints
    PROVE  /\ at \in Endpoint
           /\ Uid(at) # Uid(Nowhere)
  BY ConfigFlowAssumption DEF Endpoint, Types, Uid, Nowhere, None

(* The entry that a checked flow creates.                                    *)
LEMMA CreatedEntry ==
    ASSUME TypeOK, CheckedIsFree, NEW f \in Flows, step[f] \in Checked,
           NEW legacy \in BOOLEAN, CreateEntry(f, legacy)
    PROVE  \E e \in Entry :
              /\ entries' = entries \cup {e}
              /\ e.flow = f /\ e.uid = uniqueId[f] /\ e.at = pending[f]
              /\ e.legacy = legacy /\ e.loaded = FALSE
  <1> DEFINE e == [flow |-> f, uid |-> uniqueId[f], at |-> pending[f],
                   legacy |-> legacy, loaded |-> FALSE]
  <1>1. e \in Entry
    BY DEF CheckedIsFree, Entry
  <1>2. entries' = entries \cup {e}
    BY DEF CreateEntry
  <1> HIDE DEF e
  <1>3. e.flow = f /\ e.uid = uniqueId[f] /\ e.at = pending[f]
          /\ e.legacy = legacy /\ e.loaded = FALSE
    BY DEF e
  <1>4. QED
    BY <1>1, <1>2, <1>3

(* The entry once its entities are added.                                    *)
LEMMA LoadedEntry ==
    ASSUME NEW e \in Entry
    PROVE  /\ [e EXCEPT !.loaded = TRUE] \in Entry
           /\ [e EXCEPT !.loaded = TRUE].flow = e.flow
           /\ [e EXCEPT !.loaded = TRUE].uid = e.uid
           /\ [e EXCEPT !.loaded = TRUE].at = e.at
           /\ [e EXCEPT !.loaded = TRUE].legacy = e.legacy
           /\ [e EXCEPT !.loaded = TRUE].loaded = TRUE
  BY DEF Entry

-----------------------------------------------------------------------------
(* Type correctness *)

(* The unique ids that a flow may have, with their endpoints.                *)
LEMMA TypedIds ==
    ASSUME NEW at \in Endpoints
    PROVE  /\ at \in Endpoints \cup {Nowhere}
           /\ Uid(at) \in {Uid(a) : a \in Endpoints \cup {Nowhere}}
  OBVIOUS

LEMMA FlowTypeInductive ==
    ASSUME TypeOK, CheckedIsFree, NEW f \in Flows, FlowStep(f)
    PROVE  TypeOK'
  <1> USE DEF TypeOK, Form, Ended, Goto, entryVars, bounds
  <1>1. CASE Open(f) \/ Close(f)
    BY <1>1 DEF Open, Close
  <1>2. CASE ProbeAnswered(f)
    <2>1. pending[f] \in Endpoints
      BY <1>2 DEF ProbeAnswered, CheckedIsFree, Checked
    <2>2. QED
      BY <1>2, <2>1 DEF ProbeAnswered
  <1>3. CASE ProbeLost(f)
    BY <1>3, ConfigFlowAssumption DEF ProbeLost
  <1>4. ASSUME NEW type \in Types, ChooseType(f, type)
        PROVE  TypeOK'
    BY <1>4 DEF ChooseType
  <1>5. ASSUME NEW at \in Endpoints, SubmitConnection(f, at)
        PROVE  TypeOK'
    BY <1>5, TypedIds DEF SubmitConnection
  <1>6. ASSUME NEW yes \in BOOLEAN, SubmitMigrating(f, yes)
        PROVE  TypeOK'
    <2>1. CASE yes
      BY <1>6, <2>1 DEF SubmitMigrating
    <2>2. CASE ~yes
      <3>1. PICK e \in Entry : entries' = entries \cup {e}
        BY <1>6, <2>2, CreatedEntry DEF SubmitMigrating, Checked
      <3>2. step' = [step EXCEPT ![f] = "created"]
        BY <1>6, <2>2 DEF SubmitMigrating, CreateEntry
      <3>3. QED
        BY <1>6, <2>2, <3>1, <3>2 DEF SubmitMigrating
    <2>3. QED
      BY <2>1, <2>2
  <1>7. ASSUME NEW yes \in BOOLEAN, SubmitLegacyNaming(f, yes)
        PROVE  TypeOK'
    <2>1. PICK e \in Entry : entries' = entries \cup {e}
      BY <1>7, CreatedEntry DEF SubmitLegacyNaming, Checked
    <2>2. step' = [step EXCEPT ![f] = "created"]
      BY <1>7 DEF SubmitLegacyNaming, CreateEntry
    <2>3. QED
      BY <1>7, <2>1, <2>2 DEF SubmitLegacyNaming
  <1>8. QED
    BY <1>1, <1>2, <1>3, <1>4, <1>5, <1>6, <1>7 DEF FlowStep

LEMMA TypeInductive == TypeOK /\ CheckedIsFree /\ [Next]_vars => TypeOK'
  <1> SUFFICES ASSUME TypeOK, CheckedIsFree, [Next]_vars
               PROVE  TypeOK'
    OBVIOUS
  <1>1. ASSUME NEW f \in Flows, FlowStep(f)
        PROVE  TypeOK'
    BY <1>1, FlowTypeInductive
  <1>2. ASSUME NEW e \in entries, AddEntities(e)
        PROVE  TypeOK'
    <2>1. e \in Entry /\ e.flow \in Flows
      BY DEF TypeOK, Entry
    <2>2. entries' \subseteq Entry
      BY <1>2, <2>1, LoadedEntry DEF AddEntities, TypeOK
    <2>3. /\ owner' \in [LegacyIds -> Flows \cup {None, "yaml"}]
          /\ missed' \subseteq Flows \X Suggested
      BY <1>2, <2>1 DEF AddEntities, TypeOK
    <2>4. QED
      BY <1>2, <2>2, <2>3 DEF AddEntities, TypeOK, flowVars, bounds
  <1>3. ASSUME NEW e \in entries, RemoveEntry(e)
        PROVE  TypeOK'
    BY <1>3 DEF RemoveEntry, TypeOK, flowVars, bounds
  <1>4. ASSUME NEW i \in LegacyIds, YamlRemoved(i)
        PROVE  TypeOK'
    BY <1>4 DEF YamlRemoved, TypeOK, flowVars, entryVars, bounds
  <1>5. ASSUME NEW i \in LegacyIds, YamlReturns(i)
        PROVE  TypeOK'
    BY <1>5, ConfigFlowAssumption DEF YamlReturns, TypeOK, flowVars, entryVars
  <1>6. CASE UNCHANGED vars
    BY <1>6 DEF vars, TypeOK, flowVars, entryVars, bounds
  <1>7. QED
    BY <1>1, <1>2, <1>3, <1>4, <1>5, <1>6 DEF Next

-----------------------------------------------------------------------------
(* Unique ids and entries *)

(* What the invariants of the unique ids need of an action that only moves a *)
(* flow on, to a form where its unique id is not checked, or to an end.      *)
LEMMA MovingOn ==
    ASSUME UidInv, NEW f \in Flows, NEW s \in (Form \cup Ended) \ Checked,
           step[f] \notin Ended, s # "created",
           step' = [step EXCEPT ![f] = s],
           UNCHANGED <<uniqueId, pending, entries>>,
           \A g \in Flows : probed[g] \subseteq probed'[g]
    PROVE  /\ CheckedIsFree' /\ IdsInProgressDiffer' /\ ReadBeforeCreation'
           /\ EntryWasProbed' /\ EntriesDiffer'
  <1> USE DEF UidInv, TypeOK
  <1>1. CheckedIsFree'
    BY DEF CheckedIsFree, Configured
  <1>2. IdsInProgressDiffer'
    BY DEF IdsInProgressDiffer, Ended
  <1>3. ReadBeforeCreation'
    BY DEF ReadBeforeCreation, Checked
  <1>4. EntryWasProbed'
    <2>1. \A e \in entries : e.flow \in Flows
      BY DEF Entry
    <2>2. QED
      BY <2>1 DEF EntryWasProbed
  <1>5. EntriesDiffer'
    BY DEF EntriesDiffer, Ended
  <1>6. QED
    BY <1>1, <1>2, <1>3, <1>4, <1>5

(* The submission of a connection keeps the flows in progress and the        *)
(* entries apart: a unique id that either has ends the flow.                 *)
LEMMA SubmissionKeepsApart ==
    ASSUME UidInv, NEW f \in Flows, NEW at \in Endpoints, SubmitConnection(f, at)
    PROVE  /\ CheckedIsFree' /\ IdsInProgressDiffer' /\ ReadBeforeCreation'
           /\ EntryWasProbed' /\ EntriesDiffer'
  <1> USE DEF UidInv, TypeOK
  <1>0. /\ step[f] \in {"connection", "cannot_connect"}
        /\ pending' = [pending EXCEPT ![f] = at]
        /\ UNCHANGED <<entries, probed>>
        /\ \E s \in {"already_in_progress", "already_configured", "probing"} :
              step' = [step EXCEPT ![f] = s]
    BY DEF SubmitConnection, Goto, entryVars
  <1>1. CASE /\ ~InProgress(f, Uid(at))
             /\ uniqueId' = [uniqueId EXCEPT ![f] = Uid(at)]
             /\ Goto(f, IF Configured(Uid(at)) THEN "already_configured" ELSE "probing")
    <2>1. CheckedIsFree'
      <3> SUFFICES ASSUME NEW g \in Flows, step'[g] \in Checked
                   PROVE  /\ pending'[g] \in Endpoints
                          /\ uniqueId'[g] = Uid(pending'[g])
                          /\ ~Configured(uniqueId'[g])
        BY <1>0 DEF CheckedIsFree, Configured
      <3>1. CASE g = f
        BY <1>0, <1>1, <3>1 DEF Goto, Checked
      <3>2. CASE g # f
        BY <1>0, <1>1, <3>2 DEF Goto, CheckedIsFree
      <3>3. QED
        BY <3>1, <3>2
    <2>2. IdsInProgressDiffer'
      <3> SUFFICES ASSUME NEW g \in Flows, NEW h \in Flows, g # h,
                          step'[g] \notin Ended, step'[h] \notin Ended,
                          uniqueId'[g] = uniqueId'[h]
                   PROVE  uniqueId'[g] = Uid(Nowhere)
        BY DEF IdsInProgressDiffer
      <3>1. CASE g # f /\ h # f
        BY <1>0, <1>1, <3>1 DEF IdsInProgressDiffer
      <3>2. CASE g = f
        BY <1>0, <1>1, <3>2 DEF InProgress
      <3>3. CASE h = f
        BY <1>0, <1>1, <3>3 DEF InProgress
      <3>4. QED
        BY <3>1, <3>2, <3>3
    <2>3. QED
      BY <1>0, <1>1, <2>1, <2>2
         DEF ReadBeforeCreation, EntryWasProbed, EntriesDiffer
  <1>2. CASE /\ Goto(f, "already_in_progress")
             /\ UNCHANGED uniqueId
    <2>1. CheckedIsFree'
      BY <1>0, <1>2 DEF Goto, CheckedIsFree, Checked, Configured
    <2>2. IdsInProgressDiffer'
      BY <1>0, <1>2 DEF Goto, IdsInProgressDiffer, Ended
    <2>3. QED
      BY <1>0, <1>2, <2>1, <2>2
         DEF ReadBeforeCreation, EntryWasProbed, EntriesDiffer
  <1>3. QED
    BY <1>1, <1>2 DEF SubmitConnection

(* The entry of a checked flow is new: no entry has its unique id, and no    *)
(* other flow in progress that is past the check has it.                     *)
LEMMA CreationKeepsApart ==
    ASSUME UidInv, NEW f \in Flows, step[f] \in {"migrating", "legacy_naming"},
           NEW legacy \in BOOLEAN, CreateEntry(f, legacy),
           UNCHANGED <<uniqueId, pending, probed>>
    PROVE  /\ CheckedIsFree' /\ IdsInProgressDiffer' /\ ReadBeforeCreation'
           /\ EntryWasProbed' /\ EntriesDiffer'
  <1> USE DEF UidInv, TypeOK
  <1>1. PICK e \in Entry : /\ entries' = entries \cup {e}
                           /\ e.flow = f /\ e.uid = uniqueId[f] /\ e.at = pending[f]
    BY CreatedEntry DEF Checked
  <1>2. step' = [step EXCEPT ![f] = "created"]
    BY DEF CreateEntry, Goto
  <1>3. /\ pending[f] \in Endpoints /\ uniqueId[f] = Uid(pending[f])
        /\ ~Configured(uniqueId[f])
    BY DEF CheckedIsFree, Checked
  <1>4. uniqueId[f] # Uid(Nowhere)
    BY <1>3, EndpointsHaveIds
  <1>5. CheckedIsFree'
    <2> SUFFICES ASSUME NEW g \in Flows, step'[g] \in Checked
                 PROVE  /\ pending[g] \in Endpoints
                        /\ uniqueId[g] = Uid(pending[g])
                        /\ ~Configured(uniqueId[g])'
      BY DEF CheckedIsFree
    <2>1. g # f /\ step[g] \in Checked
      BY <1>2 DEF Checked
    <2>2. uniqueId[g] # uniqueId[f]
      BY <1>4, <2>1 DEF IdsInProgressDiffer, Checked, Ended
    <2>3. QED
      BY <1>1, <2>1, <2>2 DEF CheckedIsFree, Configured
  <1>6. IdsInProgressDiffer'
    BY <1>2 DEF IdsInProgressDiffer, Ended
  <1>7. ReadBeforeCreation'
    BY <1>2 DEF ReadBeforeCreation
  <1>8. EntryWasProbed'
    BY <1>1, <1>3 DEF EntryWasProbed, ReadBeforeCreation
  <1>9. EntriesDiffer'
    <2>1. \A d \in entries : d.uid # e.uid
      BY <1>1, <1>3 DEF Configured
    <2>2. \A d \in entries : d.flow # e.flow
      BY <1>1 DEF EntriesDiffer
    <2>3. \A d \in entries' : step'[d.flow] = "created"
      BY <1>1, <1>2 DEF EntriesDiffer, Entry
    <2>4. QED
      BY <1>1, <2>1, <2>2, <2>3 DEF EntriesDiffer
  <1>10. QED
    BY <1>5, <1>6, <1>7, <1>8, <1>9

LEMMA FlowKeepsApart ==
    ASSUME UidInv, NEW f \in Flows, FlowStep(f)
    PROVE  /\ CheckedIsFree' /\ IdsInProgressDiffer' /\ ReadBeforeCreation'
           /\ EntryWasProbed' /\ EntriesDiffer'
  <1> DEFINE Goal == /\ CheckedIsFree' /\ IdsInProgressDiffer' /\ ReadBeforeCreation'
                     /\ EntryWasProbed' /\ EntriesDiffer'
  <1>1. CASE Open(f)
    BY <1>1, MovingOn DEF Open, Goto, Form, Ended, Checked, entryVars, None
  <1>2. CASE Close(f)
    BY <1>2, MovingOn DEF Close, Goto, Form, Ended, Checked, entryVars, None
  <1>3. CASE ProbeAnswered(f)
    <2>1. CASE pending[f] \in lacking
      BY <1>3, <2>1, MovingOn
         DEF ProbeAnswered, Goto, Form, Ended, Checked, entryVars
    <2>2. CASE pending[f] \notin lacking
      <3>1. /\ step[f] \in Checked
            /\ step' = [step EXCEPT ![f] = "migrating"]
            /\ probed' = [probed EXCEPT ![f] = @ \cup {pending[f]}]
            /\ UNCHANGED <<uniqueId, pending, entries>>
        BY <1>3, <2>2 DEF ProbeAnswered, Goto, Checked, entryVars
      <3> USE DEF UidInv, TypeOK
      <3>2. CheckedIsFree'
        BY <3>1 DEF CheckedIsFree, Configured
      <3>3. IdsInProgressDiffer'
        BY <3>1 DEF IdsInProgressDiffer, Checked, Ended
      <3>4. ReadBeforeCreation'
        BY <3>1 DEF ReadBeforeCreation
      <3>5. EntryWasProbed'
        <4>1. \A e \in entries : e.flow \in Flows
          BY DEF Entry
        <4>2. QED
          BY <3>1, <4>1 DEF EntryWasProbed
      <3>6. EntriesDiffer'
        BY <3>1 DEF EntriesDiffer, Checked
      <3>7. QED
        BY <3>2, <3>3, <3>4, <3>5, <3>6
    <2>3. QED
      BY <2>1, <2>2
  <1>4. CASE ProbeLost(f)
    BY <1>4, MovingOn DEF ProbeLost, Goto, Form, Ended, Checked, entryVars
  <1>5. ASSUME NEW type \in Types, ChooseType(f, type)
        PROVE  Goal
    BY <1>5, MovingOn DEF ChooseType, Goto, Form, Ended, Checked, entryVars
  <1>6. ASSUME NEW at \in Endpoints, SubmitConnection(f, at)
        PROVE  Goal
    BY <1>6, SubmissionKeepsApart
  <1>7. ASSUME NEW yes \in BOOLEAN, SubmitMigrating(f, yes)
        PROVE  Goal
    <2>1. CASE yes
      <3>1. /\ step[f] = "migrating"
            /\ step' = [step EXCEPT ![f] = "legacy_naming"]
            /\ UNCHANGED <<uniqueId, pending, probed, entries>>
        BY <1>7, <2>1 DEF SubmitMigrating, Goto
      <3> USE DEF UidInv, TypeOK
      <3>2. CheckedIsFree'
        BY <3>1 DEF CheckedIsFree, Checked, Configured
      <3>3. IdsInProgressDiffer'
        BY <3>1 DEF IdsInProgressDiffer, Ended
      <3>4. ReadBeforeCreation'
        BY <3>1 DEF ReadBeforeCreation
      <3>5. EntryWasProbed' /\ EntriesDiffer'
        BY <3>1 DEF EntryWasProbed, EntriesDiffer
      <3>6. QED
        BY <3>2, <3>3, <3>4, <3>5
    <2>2. CASE ~yes
      BY <1>7, <2>2, CreationKeepsApart DEF SubmitMigrating
    <2>3. QED
      BY <2>1, <2>2
  <1>8. ASSUME NEW yes \in BOOLEAN, SubmitLegacyNaming(f, yes)
        PROVE  Goal
    BY <1>8, CreationKeepsApart DEF SubmitLegacyNaming
  <1>9. QED
    BY <1>1, <1>2, <1>3, <1>4, <1>5, <1>6, <1>7, <1>8 DEF FlowStep

(* UidInv is inductive. *)
LEMMA UidInductive == UidInv /\ [Next]_vars => UidInv'
  <1> SUFFICES ASSUME UidInv, [Next]_vars
               PROVE  UidInv'
    OBVIOUS
  <1>0. TypeOK'
    BY TypeInductive DEF UidInv
  <1>1. ASSUME NEW f \in Flows, FlowStep(f)
        PROVE  UidInv'
    BY <1>0, <1>1, FlowKeepsApart DEF UidInv
  <1>2. ASSUME NEW e \in entries, AddEntities(e)
        PROVE  UidInv'
    <2>1. PICK d \in Entry : /\ entries' = (entries \ {e}) \cup {d}
                             /\ d.flow = e.flow /\ d.uid = e.uid /\ d.at = e.at
      <3>1. e \in Entry
        BY DEF UidInv, TypeOK
      <3>2. QED
        BY <1>2, <3>1, LoadedEntry DEF AddEntities
    <2>2. UNCHANGED <<step, uniqueId, pending, probed>>
      BY <1>2 DEF AddEntities, flowVars
    <2>3. \A uid : Configured(uid)' = Configured(uid)
      BY <2>1 DEF Configured
    <2>4. CheckedIsFree'
      BY <2>2, <2>3 DEF CheckedIsFree, UidInv
    <2>5. IdsInProgressDiffer' /\ ReadBeforeCreation'
      BY <2>2 DEF IdsInProgressDiffer, ReadBeforeCreation, UidInv
    <2>6. EntryWasProbed'
      BY <2>1, <2>2 DEF EntryWasProbed, UidInv
    <2>7. EntriesDiffer'
      BY <2>1, <2>2 DEF EntriesDiffer, UidInv
    <2>8. QED
      BY <1>0, <2>4, <2>5, <2>6, <2>7 DEF UidInv
  <1>3. ASSUME NEW e \in entries, RemoveEntry(e)
        PROVE  UidInv'
    <2>1. /\ entries' \subseteq entries
          /\ UNCHANGED <<step, uniqueId, pending, probed>>
      BY <1>3 DEF RemoveEntry, flowVars
    <2>2. CheckedIsFree' /\ IdsInProgressDiffer' /\ ReadBeforeCreation'
      BY <2>1 DEF CheckedIsFree, IdsInProgressDiffer, ReadBeforeCreation, Configured, UidInv
    <2>3. EntryWasProbed' /\ EntriesDiffer'
      BY <2>1 DEF EntryWasProbed, EntriesDiffer, UidInv
    <2>4. QED
      BY <1>0, <2>2, <2>3 DEF UidInv
  <1>4. ASSUME \/ \E i \in LegacyIds : YamlRemoved(i) \/ YamlReturns(i)
               \/ UNCHANGED vars
        PROVE  UidInv'
    <2>1. UNCHANGED <<step, uniqueId, pending, probed, entries>>
      BY <1>4 DEF YamlRemoved, YamlReturns, vars, flowVars, entryVars
    <2>2. QED
      BY <1>0, <2>1 DEF UidInv, CheckedIsFree, IdsInProgressDiffer, ReadBeforeCreation,
                        EntryWasProbed, EntriesDiffer, Configured
  <1>5. QED
    BY <1>1, <1>2, <1>3, <1>4 DEF Next

LEMMA UidInvariant == Spec => []UidInv
  <1>1. Init => UidInv
    <2> SUFFICES ASSUME Init PROVE UidInv
      OBVIOUS
    <2>1. TypeOK
      BY ConfigFlowAssumption DEF Init, TypeOK, Form, Types, None
    <2>2. CheckedIsFree /\ IdsInProgressDiffer /\ ReadBeforeCreation
      BY DEF Init, CheckedIsFree, Checked, IdsInProgressDiffer, ReadBeforeCreation, None
    <2>3. EntryWasProbed /\ EntriesDiffer
      BY DEF Init, EntryWasProbed, EntriesDiffer
    <2>4. QED
      BY <2>1, <2>2, <2>3 DEF UidInv
  <1>2. QED
    BY <1>1, UidInductive, PTL DEF Spec

(* The state of flows, entries and registry stays well typed.                *)
(* (config_flow.py:69-193)                                                   *)
THEOREM FlowTypeCorrect == Spec => []TypeOK
  <1>1. UidInv => TypeOK
    BY DEF UidInv
  <1>2. QED
    BY <1>1, UidInvariant, PTL

(* However many flows run side by side, no two entries carry one unique id,  *)
(* and no two endpoints of entries have one, whatever their ports.           *)
(* (config_flow.py:134-145)                                                  *)
THEOREM NoInverterTwice == Spec => []OneEntryPerInverter
  <1>1. UidInv => OneEntryPerInverter
    BY DEF UidInv, EntryWasProbed, EntriesDiffer, OneEntryPerInverter
  <1>2. QED
    BY <1>1, UidInvariant, PTL

(* Whatever was submitted before, an entry is the endpoint that was probed.  *)
(* (config_flow.py:135-144)                                                  *)
THEOREM EntriesWereProbed == Spec => []EntryWasProbed
  <1>1. UidInv => EntryWasProbed
    BY DEF UidInv
  <1>2. QED
    BY <1>1, UidInvariant, PTL

-----------------------------------------------------------------------------
(* Legacy ids *)

(* An id that is held under a sound claim: by an entry other than e that     *)
(* found the ids free, or by a YAML package that came back.                  *)
LEMMA HeldByAnother ==
    ASSUME UidInv, LegacyInv, NEW e \in entries, e.legacy, ~e.loaded,
           NEW i \in Active
    PROVE  returns > 0 \/ \E f \in clear : f # e.flow
  <1>1. i \in LegacyIds /\ owner[i] \in Flows \cup {"yaml"}
    BY DEF Active, UidInv, TypeOK
  <1>2. returns \in Nat
    BY ConfigFlowAssumption DEF UidInv, TypeOK
  <1>3. CASE owner[i] = "yaml"
    <2>1. clear # {}
      BY DEF LegacyInv, ClaimsWereClear
    <2>2. returns # 0
      BY <1>1, <1>3, <2>1 DEF LegacyInv, ClaimsWereClear
    <2>3. QED
      BY <1>2, <2>2
  <1>4. CASE owner[i] \in Flows
    <2>1. PICK d \in entries : d.flow = owner[i] /\ d.legacy /\ d.loaded
      BY <1>1, <1>4 DEF LegacyInv, HeldByClaimants
    <2>2. d.flow # e.flow
      BY <2>1 DEF UidInv, EntriesDiffer
    <2>3. QED
      BY <2>1, <2>2 DEF LegacyInv, ClaimsWereClear
  <1>5. QED
    BY <1>1, <1>3, <1>4

(* A flow that leaves the registry alone and adds at most an entry whose     *)
(* claim is clear keeps LegacyInv.                                           *)
LEMMA FlowKeepsClaims ==
    ASSUME UidInv, LegacyInv, NEW f \in Flows, FlowStep(f)
    PROVE  LegacyInv'
  <1>0. UNCHANGED <<owner, missed, returns>>
    BY DEF FlowStep, Open, Close, ProbeAnswered, ProbeLost, ChooseType, SubmitConnection,
           SubmitMigrating, SubmitLegacyNaming, entryVars, bounds
  <1>1. CASE UNCHANGED <<entries, clear>>
    BY <1>0, <1>1 DEF LegacyInv, ClaimsWereClear, HeldByClaimants, MissedOnlyByRace
  <1>2. ASSUME SubmitMigrating(f, FALSE)
        PROVE  LegacyInv'
    <2>1. PICK e \in Entry : entries' = entries \cup {e} /\ ~e.legacy
      BY <1>2, CreatedEntry DEF SubmitMigrating, Checked, UidInv
    <2>2. UNCHANGED clear
      BY <1>2 DEF SubmitMigrating
    <2>3. QED
      BY <1>0, <2>1, <2>2
         DEF LegacyInv, ClaimsWereClear, HeldByClaimants, MissedOnlyByRace
  <1>3. ASSUME SubmitLegacyNaming(f, TRUE)
        PROVE  LegacyInv'
    <2>1. PICK e \in Entry : entries' = entries \cup {e} /\ e.flow = f
      BY <1>3, CreatedEntry DEF SubmitLegacyNaming, Checked, UidInv
    <2>2. /\ clear' = clear \cup {f}
          /\ \A i \in LegacyIds : owner[i] = None
      BY <1>3 DEF SubmitLegacyNaming, Active
    <2>3. ClaimsWereClear'
      BY <1>0, <2>1, <2>2 DEF LegacyInv, ClaimsWereClear, None
    <2>4. HeldByClaimants'
      BY <1>0, <2>1 DEF LegacyInv, HeldByClaimants
    <2>5. MissedOnlyByRace'
      BY <1>0, <2>2 DEF LegacyInv, MissedOnlyByRace
    <2>6. QED
      BY <2>3, <2>4, <2>5 DEF LegacyInv
  <1>4. ASSUME SubmitLegacyNaming(f, FALSE)
        PROVE  LegacyInv'
    <2>1. PICK e \in Entry : entries' = entries \cup {e} /\ ~e.legacy
      BY <1>4, CreatedEntry DEF SubmitLegacyNaming, Checked, UidInv
    <2>2. UNCHANGED clear
      BY <1>4 DEF SubmitLegacyNaming
    <2>3. QED
      BY <1>0, <2>1, <2>2
         DEF LegacyInv, ClaimsWereClear, HeldByClaimants, MissedOnlyByRace
  <1>5. QED
    <2>1. \/ UNCHANGED <<entries, clear>>
          \/ SubmitMigrating(f, FALSE)
          \/ SubmitLegacyNaming(f, TRUE) \/ SubmitLegacyNaming(f, FALSE)
      BY DEF FlowStep, Open, Close, ProbeAnswered, ProbeLost, ChooseType,
             SubmitConnection, SubmitMigrating, entryVars
    <2>2. QED
      BY <1>1, <1>2, <1>3, <1>4, <2>1

(* LegacyInv is inductive, given UidInv. *)
LEMMA LegacyInductive == UidInv /\ LegacyInv /\ [Next]_vars => LegacyInv'
  <1> SUFFICES ASSUME UidInv, LegacyInv, [Next]_vars
               PROVE  LegacyInv'
    OBVIOUS
  <1> USE DEF LegacyInv
  <1>0. /\ \A e \in entries : e \in Entry /\ e.flow \in Flows
        /\ owner \in [LegacyIds -> Flows \cup {None, "yaml"}]
        /\ "yaml" \notin Flows /\ None \notin Flows /\ None # "yaml"
        /\ returns \in Nat
    BY ConfigFlowAssumption DEF UidInv, TypeOK, Entry, None
  <1>1. ASSUME NEW f \in Flows, FlowStep(f)
        PROVE  LegacyInv'
    BY <1>1, FlowKeepsClaims
  <1>2. ASSUME NEW e \in entries, AddEntities(e)
        PROVE  LegacyInv'
    <2>1. PICK d \in Entry :
              /\ entries' = (entries \ {e}) \cup {d}
              /\ d.flow = e.flow /\ d.legacy = e.legacy /\ d.loaded
      BY <1>0, <1>2, LoadedEntry DEF AddEntities
    <2>2. /\ ~e.loaded
          /\ UNCHANGED <<clear, returns>>
      BY <1>2 DEF AddEntities, flowVars, bounds
    <2>3. \A i \in LegacyIds : owner'[i] = owner[i] \/ (e.legacy /\ owner'[i] = e.flow)
      BY <1>0, <1>2 DEF AddEntities
    <2>4. ClaimsWereClear'
      BY <1>0, <2>1, <2>2, <2>3 DEF ClaimsWereClear
    <2>5. HeldByClaimants'
      <3> SUFFICES ASSUME NEW i \in LegacyIds, owner'[i] \in Flows
                   PROVE  \E c \in entries' : c.flow = owner'[i] /\ c.legacy /\ c.loaded
        BY DEF HeldByClaimants
      <3>1. CASE e.legacy /\ owner'[i] = e.flow
        BY <2>1, <3>1
      <3>2. CASE owner'[i] = owner[i]
        BY <2>1, <2>2, <3>2 DEF HeldByClaimants
      <3>3. QED
        BY <2>3, <3>1, <3>2
    <2>6. MissedOnlyByRace'
      <3> SUFFICES ASSUME NEW m \in missed'
                   PROVE  returns > 0 \/ \E f \in clear : f # m[1]
        BY <2>2 DEF MissedOnlyByRace
      <3>1. CASE m \in missed
        BY <3>1 DEF MissedOnlyByRace
      <3>2. CASE m \notin missed
        <4>1. e.legacy /\ \E i \in Active : m = <<e.flow, i>>
          BY <1>2, <3>2 DEF AddEntities
        <4>2. QED
          BY <2>2, <4>1, HeldByAnother
      <3>3. QED
        BY <3>1, <3>2
    <2>7. QED
      BY <2>4, <2>5, <2>6
  <1>3. ASSUME NEW e \in entries, RemoveEntry(e)
        PROVE  LegacyInv'
    <2>1. /\ entries' = entries \ {e}
          /\ UNCHANGED <<clear, returns, missed>>
          /\ \A i \in LegacyIds :
                owner'[i] = IF owner[i] = e.flow THEN None ELSE owner[i]
      BY <1>3 DEF RemoveEntry, flowVars, bounds
    <2>2. ClaimsWereClear' /\ MissedOnlyByRace'
      BY <1>0, <2>1 DEF ClaimsWereClear, MissedOnlyByRace
    <2>3. HeldByClaimants'
      BY <1>0, <2>1 DEF HeldByClaimants
    <2>4. QED
      BY <2>2, <2>3
  <1>4. ASSUME NEW i \in LegacyIds, YamlRemoved(i)
        PROVE  LegacyInv'
    <2>1. /\ UNCHANGED <<entries, clear, returns, missed>>
          /\ owner' = [owner EXCEPT ![i] = None]
      BY <1>4 DEF YamlRemoved, flowVars, entryVars, bounds
    <2>2. QED
      BY <1>0, <2>1 DEF ClaimsWereClear, HeldByClaimants, MissedOnlyByRace
  <1>5. ASSUME NEW i \in LegacyIds, YamlReturns(i)
        PROVE  LegacyInv'
    <2>1. /\ UNCHANGED <<entries, clear, missed>>
          /\ owner' = [owner EXCEPT ![i] = "yaml"]
          /\ returns' > 0
      BY <1>0, <1>5 DEF YamlReturns, flowVars, entryVars
    <2>2. QED
      BY <1>0, <2>1 DEF ClaimsWereClear, HeldByClaimants, MissedOnlyByRace
  <1>6. CASE UNCHANGED vars
    BY <1>6 DEF vars, flowVars, entryVars, bounds,
                ClaimsWereClear, HeldByClaimants, MissedOnlyByRace
  <1>7. QED
    BY <1>1, <1>2, <1>3, <1>4, <1>5, <1>6 DEF Next

LEMMA LegacyInvariant == Spec => []LegacyInv
  <1>1. Init => LegacyInv
    BY ConfigFlowAssumption
       DEF Init, LegacyInv, ClaimsWereClear, HeldByClaimants, MissedOnlyByRace, None
  <1>2. QED
    BY <1>1, LegacyInductive, UidInvariant, PTL DEF Spec

(* A legacy id is held by the YAML package or a loaded entry that asked for  *)
(* it, never by a modern or a removed entry.  (entity.py:36-44)              *)
THEOREM IdsAreHeldByClaimants == Spec => []HeldByClaimants
  <1>1. LegacyInv => HeldByClaimants
    BY DEF LegacyInv
  <1>2. QED
    BY <1>1, LegacyInvariant, PTL

(* A claim misses only when another flow claimed as well, or the YAML        *)
(* package came back.  (config_flow.py:163-178)                              *)
THEOREM ClaimsMissOnlyByRace == Spec => []MissedOnlyByRace
  <1>1. LegacyInv => MissedOnlyByRace
    BY DEF LegacyInv
  <1>2. QED
    BY <1>1, LegacyInvariant, PTL
=============================================================================
