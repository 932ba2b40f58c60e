----------------------------- MODULE ConfigFlow -----------------------------
(***************************************************************************)
(* Adding inverters to Home Assistant: the config flow (config_flow.py),   *)
(* the entry it creates, and the entity ids its entities claim from the    *)
(* legacy YAML package (legacy_naming.py, entity.py).                      *)
(*                                                                         *)
(* Home Assistant's flow manager, entry list and entity registry are not   *)
(* in this repository; they are modelled from how the integration uses     *)
(* them.  Several flows may be open at once, and the registry changes      *)
(* under them.                                                             *)
(***************************************************************************)
EXTENDS Integers, FiniteSets

CONSTANTS
    Flows,         \* the flows a user opens; an entry goes by its flow
    Endpoints,     \* [type, host, port, unit]: where inverters answer
    LegacyIds,     \* the entity ids in legacy_entity_map.json
    Suggested,     \* those in the domain of an entity's own platform
    MaxReturns,    \* bound: ids that the YAML package registers again
    MaxLinkFaults  \* bound: probes that fail because of the link

VARIABLES
    step,      \* step[f]: the form the flow shows, or how it ended
    kind,      \* kind[f]: the connection type chosen first, _modbus_type
    uniqueId,  \* uniqueId[f]: set by async_set_unique_id
    pending,   \* pending[f]: the endpoint submitted last
    entries,   \* the config entries: [flow, uid, at, legacy, loaded]
    owner,     \* owner[i]: who has entity id i in the registry
    lacking,   \* the endpoints whose inverter refuses a register of info
    probed,    \* history: probed[f]: the endpoints that f has read from
    clear,     \* history: the flows that found all legacy ids free
    missed,    \* history: the <<flow, id>> whose claim landed on "id_2"
    returns, linkFaults  \* how often each bounded event happened

flowVars  == <<step, kind, uniqueId, pending, probed, clear>>
entryVars == <<entries, missed>>
bounds    == <<returns, linkFaults>>
vars      == <<flowVars, entryVars, owner, lacking, bounds>>

None == "none"

Form  == {None, "user", "connection", "cannot_connect", "probing", "migrating",
          "legacy_naming"}
Ended == {"closed", "created", "already_configured", "already_in_progress"}

Types == {"tcp", "serial"}

Endpoint == [type: Types, host: STRING, port: Nat, unit: Nat]

(* Before the first submission: no endpoint. *)
Nowhere == [type |-> None, host |-> None, port |-> 0, unit |-> 0]

(* The unique id: f"{type}_{host}_{unit}".  The port is not part of it. *)
Uid(at) == <<at.type, at.host, at.unit>>

Entry == [flow: Flows, uid: {Uid(at) : at \in Endpoints}, at: Endpoints,
          legacy: BOOLEAN, loaded: BOOLEAN]

ASSUME ConfigFlowAssumption ==
    /\ Endpoints \subseteq Endpoint
    /\ {"yaml", None} \cap Flows = {}
    /\ Suggested \subseteq LegacyIds
    /\ MaxReturns \in Nat /\ MaxLinkFaults \in Nat

(* The legacy entity ids that are registered, by whomever. *)
Active == {i \in LegacyIds : owner[i] # None}

InProgress(f, uid) ==
    \E g \in Flows \ {f} : step[g] \notin Ended /\ uniqueId[g] = uid

(* A slip: configured unique ids do not abort the flow. *)
ConfiguredNever(uid) == FALSE

Configured(uid) == \E e \in entries : e.uid = uid

-----------------------------------------------------------------------------
(* The steps of one flow *)

Goto(f, s) == step' = [step EXCEPT ![f] = s]

Open(f) ==
    /\ step[f] = None
    /\ Goto(f, "user")
    /\ UNCHANGED <<kind, uniqueId, pending, probed, clear, entryVars, owner,
                   lacking, bounds>>

ChooseType(f, type) ==
    /\ step[f] = "user"
    /\ Goto(f, "connection")
    /\ kind' = [kind EXCEPT ![f] = type]
    /\ UNCHANGED <<uniqueId, pending, probed, clear, entryVars, owner, lacking, bounds>>

(* Slips of the action below: the submitted data is not kept, and a unique   *)
(* id is set for the first submission only.                                  *)
SubmitConnectionKeepsNothing(f, at) ==
    /\ step[f] \in {"connection", "cannot_connect"} /\ at.type = kind[f]
    /\ ~InProgress(f, Uid(at))
    /\ uniqueId' = [uniqueId EXCEPT ![f] = Uid(at)]
    /\ Goto(f, IF Configured(Uid(at)) THEN "already_configured" ELSE "probing")
    /\ UNCHANGED <<kind, pending, probed, clear, entryVars, owner, lacking, bounds>>

SubmitConnectionOnce(f, at) ==
    /\ step[f] \in {"connection", "cannot_connect"} /\ at.type = kind[f]
    /\ ~InProgress(f, Uid(at))
    /\ uniqueId' = [uniqueId EXCEPT ![f] = IF step[f] = "connection" THEN Uid(at) ELSE @]
    /\ Goto(f, IF Configured(Uid(at)) THEN "already_configured" ELSE "probing")
    /\ pending' = [pending EXCEPT ![f] = at]
    /\ UNCHANGED <<kind, probed, clear, entryVars, owner, lacking, bounds>>

(* Submitting the connection form: async_set_unique_id aborts when another   *)
(* flow has that id, then a configured id aborts, then the probe is sent.    *)
SubmitConnection(f, at) ==
    /\ step[f] \in {"connection", "cannot_connect"} /\ at.type = kind[f]
    /\ \/ /\ InProgress(f, Uid(at))
          /\ Goto(f, "already_in_progress")
          /\ UNCHANGED uniqueId
       \/ /\ ~InProgress(f, Uid(at))
          /\ uniqueId' = [uniqueId EXCEPT ![f] = Uid(at)]
          /\ Goto(f, IF Configured(Uid(at)) THEN "already_configured" ELSE "probing")
    /\ pending' = [pending EXCEPT ![f] = at]
    /\ UNCHANGED <<kind, probed, clear, entryVars, owner, lacking, bounds>>

(* _async_title: the info component is read on its own, without the loop     *)
(* that drops what the inverter does not serve.                              *)
ProbeAnswered(f) ==
    /\ step[f] = "probing"
    /\ IF pending[f] \in lacking
       THEN Goto(f, "cannot_connect") /\ UNCHANGED probed
       ELSE /\ Goto(f, "migrating")
            /\ probed' = [probed EXCEPT ![f] = @ \cup {pending[f]}]
    /\ UNCHANGED <<kind, uniqueId, pending, clear, entryVars, owner, lacking, bounds>>

ProbeLost(f) ==
    /\ step[f] = "probing"
    /\ linkFaults < MaxLinkFaults
    /\ linkFaults' = linkFaults + 1
    /\ Goto(f, "cannot_connect")
    /\ UNCHANGED <<kind, uniqueId, pending, probed, clear, entryVars, owner, lacking, returns>>

CreateEntry(f, legacy) ==
    /\ Goto(f, "created")
    /\ entries' = entries \cup {[flow |-> f, uid |-> uniqueId[f], at |-> pending[f],
                                 legacy |-> legacy, loaded |-> FALSE]}

SubmitMigrating(f, migrating) ==
    /\ step[f] = "migrating"
    /\ IF migrating THEN Goto(f, "legacy_naming") /\ UNCHANGED entries
                    ELSE CreateEntry(f, FALSE)
    /\ UNCHANGED <<kind, uniqueId, pending, probed, clear, missed, owner, lacking, bounds>>

(* A slip: the check of the registry is forgotten. *)
SubmitLegacyNamingUnchecked(f, keep) ==
    /\ step[f] = "legacy_naming"
    /\ CreateEntry(f, keep)
    /\ clear' = IF keep THEN clear \cup {f} ELSE clear
    /\ UNCHANGED <<kind, uniqueId, pending, probed, missed, owner, lacking, bounds>>

(* Claiming is refused while a legacy entity is registered, declining never. *)
SubmitLegacyNaming(f, keep) ==
    /\ step[f] = "legacy_naming"
    /\ keep => Active = {}
    /\ CreateEntry(f, keep)
    /\ clear' = IF keep THEN clear \cup {f} ELSE clear
    /\ UNCHANGED <<kind, uniqueId, pending, probed, missed, owner, lacking, bounds>>

Close(f) ==
    /\ step[f] \in Form \ {None}
    /\ Goto(f, "closed")
    /\ UNCHANGED <<kind, uniqueId, pending, probed, clear, entryVars, owner, lacking, bounds>>

-----------------------------------------------------------------------------
(* The entry, and what happens to the registry meanwhile *)

(* A slip: every entry suggests the legacy ids. *)
AddEntitiesAlwaysLegacy(e) ==
    /\ ~e.loaded
    /\ entries' = (entries \ {e}) \cup {[e EXCEPT !.loaded = TRUE]}
    /\ owner' = [i \in LegacyIds |-> IF i \in Suggested \ Active THEN e.flow ELSE owner[i]]
    /\ UNCHANGED <<flowVars, missed, lacking, bounds>>

(* The setup adds the entities.  With legacy naming each suggests its legacy *)
(* id, if there is one in the domain of its platform, and the registry makes *)
(* it "id_2" when that id is taken.                                          *)
AddEntities(e) ==
    /\ ~e.loaded
    /\ entries' = (entries \ {e}) \cup {[e EXCEPT !.loaded = TRUE]}
    /\ IF e.legacy
       THEN /\ owner' = [i \in LegacyIds |-> IF i \in Suggested \ Active
                                             THEN e.flow ELSE owner[i]]
            /\ missed' = missed \cup {<<e.flow, i>> : i \in Suggested \cap Active}
       ELSE UNCHANGED <<owner, missed>>
    /\ UNCHANGED <<flowVars, lacking, bounds>>

RemoveEntry(e) ==
    /\ entries' = entries \ {e}
    /\ owner' = [i \in LegacyIds |-> IF owner[i] = e.flow THEN None ELSE owner[i]]
    /\ UNCHANGED <<flowVars, missed, lacking, bounds>>

(* The user removes a legacy entity, or the YAML package brings it back. *)
YamlRemoved(i) ==
    /\ owner[i] = "yaml"
    /\ owner' = [owner EXCEPT ![i] = None]
    /\ UNCHANGED <<flowVars, entryVars, lacking, bounds>>

YamlReturns(i) ==
    /\ owner[i] = None
    /\ returns < MaxReturns
    /\ returns' = returns + 1
    /\ owner' = [owner EXCEPT ![i] = "yaml"]
    /\ UNCHANGED <<flowVars, entryVars, lacking, linkFaults>>

-----------------------------------------------------------------------------
Init ==
    /\ step = [f \in Flows |-> None]
    /\ kind = [f \in Flows |-> "tcp"]
    /\ uniqueId = [f \in Flows |-> Uid(Nowhere)]
    /\ pending = [f \in Flows |-> Nowhere]
    /\ probed = [f \in Flows |-> {}]
    /\ clear = {}
    /\ entries = {}
    /\ missed = {}
    /\ owner \in [LegacyIds -> {None, "yaml"}]
    /\ lacking \in SUBSET Endpoints
    /\ returns = 0 /\ linkFaults = 0

FlowStep(f) ==
    \/ Open(f) \/ Close(f) \/ ProbeAnswered(f) \/ ProbeLost(f)
    \/ \E type \in Types : ChooseType(f, type)
    \/ \E at \in Endpoints : SubmitConnection(f, at)
    \/ \E yes \in BOOLEAN : SubmitMigrating(f, yes) \/ SubmitLegacyNaming(f, yes)

Next ==
    \/ \E f \in Flows : FlowStep(f)
    \/ \E e \in entries : AddEntities(e) \/ RemoveEntry(e)
    \/ \E i \in LegacyIds : YamlRemoved(i) \/ YamlReturns(i)

Spec == Init /\ [][Next]_vars

-----------------------------------------------------------------------------
(* Properties *)

(* Type correctness. *)
TypeOK ==
    /\ step \in [Flows -> Form \cup Ended]
    /\ kind \in [Flows -> Types]
    /\ uniqueId \in [Flows -> {Uid(at) : at \in Endpoints \cup {Nowhere}}]
    /\ pending \in [Flows -> Endpoints \cup {Nowhere}]
    /\ probed \in [Flows -> SUBSET Endpoints]
    /\ clear \subseteq Flows
    /\ entries \subseteq Entry
    /\ missed \subseteq Flows \X Suggested
    /\ owner \in [LegacyIds -> Flows \cup {None, "yaml"}]
    /\ lacking \subseteq Endpoints
    /\ returns \in 0..MaxReturns /\ linkFaults \in 0..MaxLinkFaults

(* Flows that run side by side, with probes that take their time between the *)
(* check of the unique id and the entry, never create two entries with one   *)
(* unique id: one connection type, host and unit, on whatever port, and so   *)
(* never two with one endpoint.  (config_flow.py:134-145, modbus.py:27-42)   *)
OneEntryPerInverter ==
    \A e1, e2 \in entries :
        (e1.uid = e2.uid \/ Uid(e1.at) = Uid(e2.at)) => e1 = e2

(* An entry points at an endpoint its own flow has read the model from, and  *)
(* carries the unique id of that endpoint, though the form may have been     *)
(* submitted several times with different data.  (config_flow.py:135-144)    *)
EntryWasProbed ==
    \A e \in entries : e.at \in probed[e.flow] /\ e.uid = Uid(e.at)

(* A claimed legacy id goes to somebody else only when, after the flow had   *)
(* found all of them free, another flow claimed as well or the YAML package  *)
(* came back.  (config_flow.py:163-178)                                      *)
MissedOnlyByRace ==
    \A m \in missed : returns > 0 \/ \E f \in clear : f # m[1]

(* A legacy id is held by the YAML package or by a loaded entry that asked   *)
(* for it: a modern or a removed entry never keeps one from the others.      *)
(* (entity.py:36-44)                                                         *)
HeldByClaimants ==
    \A i \in LegacyIds :
        owner[i] \in Flows =>
            \E e \in entries : e.flow = owner[i] /\ e.legacy /\ e.loaded

(* What the comment on the refused claim says: a claim is refused rather     *)
(* than allowed to land on sensor.foo_2 quietly.  Two flows may both find    *)
(* the ids free before either entry has its entities.                        *)
(* (config_flow.py:173-174)                                                  *)
ClaimNeverMisses == missed = {}
=============================================================================
