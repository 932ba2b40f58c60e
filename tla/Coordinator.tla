---------------------------- MODULE Coordinator ----------------------------
(***************************************************************************)
(* The running config entry: setup and unload (__init__.py), the polling   *)
(* coordinator (coordinator.py), the entities that show register values    *)
(* and write settings (number.py, switch.py, select.py), and the buttons   *)
(* (button.py), on top of the device library of SungrowSHx.                *)
(*                                                                         *)
(* Home Assistant's DataUpdateCoordinator and Debouncer are not in this    *)
(* repository; they are modelled from how the integration uses them: one   *)
(* refresh at a time, a refresh scheduled after the end of the last one,   *)
(* and a requested refresh that is debounced by a cooldown.                *)
(***************************************************************************)
EXTENDS SungrowSHx

CONSTANTS
    Values,      \* the values a register may hold
    Undocumented, \* those that decode to None: codes no enumeration lists, NaN markers
    Users,       \* concurrent service calls
    RunningState, \* the field of InverterStatus that follows the buttons
    MaxWrites,   \* bound: service calls
    MaxPanel,    \* bound: changes made at the inverter's panel
    MaxFaults,   \* bound: link faults, of polls, of writes and of setups
    MaxReloads,  \* bound: unloads of the entry
    MaxRefusals  \* bound: unsupported answers that the inverter gives in passing

VARIABLES
    reg,       \* reg[f]: the value in the inverter's registers
    command,   \* the start or stop command the inverter has still to obey
    cache,     \* cache[f]: the value the component attribute holds
    shown,     \* shown[f]: the state of the entity in Home Assistant
    entry,     \* the config entry: "not_loaded", "setting_up" or "loaded"
    success,   \* last_update_success of the coordinator
    armed,     \* the next refresh is scheduled
    cooldown,  \* the debouncer's timer is running
    again,     \* the debouncer refreshes when its timer ends
    cause,     \* what started the refresh in flight: "timer" or "request"
    call,      \* call[u]: where the service call is
    held,      \* history: the values each field held since the refresh began
    refused,   \* history: the blocks refused in passing to this device object
    writes, panel, faults, reloads, refusals  \* how often each bounded event happened

deviceVars == <<missing, resolved, todo, status>>
pollVars   == <<success, armed, cooldown, again, cause>>
inverter   == <<reg, command>>
bounds     == <<writes, panel, faults, reloads, refusals>>
allVars    == <<deviceVars, inverter, cache, shown, entry, pollVars, call, held,
                refused, bounds>>

(* The one task that updates the device: refreshes hold the coordinator's    *)
(* lock, so that no two of them overlap.                                     *)
Poller == "coordinator"

ASSUME CoordinatorAssumption ==
    /\ Tasks = {Poller}
    /\ Values \cap {"unknown", "unavailable"} = {} /\ Undocumented \subseteq Values
    /\ MaxWrites \in Nat /\ MaxPanel \in Nat
    /\ MaxFaults \in Nat /\ MaxReloads \in Nat /\ MaxRefusals \in Nat
    /\ RunningState \in Fields /\ "none" \notin Values

(* The fields that entities write: those of the holding registers. *)
Settings == {f \in Fields : f.space = "holding"}

(* The register that the buttons write: of the same address as the running   *)
(* state, in the other space, and of no component.                           *)
Command == [comp |-> 0, name |-> "InverterControlCommand", space |-> "holding",
            addr |-> 12999, count |-> 1]

(* What the integration writes: options it lists, numbers of their range.    *)
Documented == Values \ Undocumented

Idle == [step |-> "idle"]
Call == {Idle} \cup [step: {"writing", "written"}, field: Settings \cup {Command},
                     value: Documented, orphan: BOOLEAN]
               \cup [step: {"refreshing", "abandoned"}]

Refreshing == status[Poller] = "reading"

(* Slips of the operator below: reading a dropped field raises; the value    *)
(* that was read last is kept.                                               *)
AttributeRaises(f) == IF f \in resolved THEN cache[f] ELSE "error"
AttributeKept(f) == cache[f]

(* What an entity's property returns: a dropped field reads as None.         *)
Attribute(f) == IF f \in resolved THEN cache[f] ELSE "unknown"

-----------------------------------------------------------------------------
(* A refresh: _async_update_data and what the coordinator does around it *)

(* A refresh cancels the scheduled one and the debouncer's timer.            *)
BeginRefresh(why) ==
    /\ ~Refreshing
    /\ StartUpdate(Poller)
    /\ cause' = why
    /\ armed' = FALSE /\ cooldown' = FALSE /\ again' = FALSE
    /\ held' = [f \in Fields |-> {reg[f]}]
    /\ UNCHANGED success

(* A slip of the operator below: only a scheduled refresh schedules the next. *)
EndRefreshOnRequest ==
    /\ armed' = (cause = "timer")
    /\ cooldown' = (cause = "request")
    /\ call' = [u \in Users |-> IF call[u].step = "refreshing" THEN Idle ELSE call[u]]
    /\ UNCHANGED <<again, cause>>

(* The next refresh is scheduled; one that was requested starts the cooldown *)
(* and resumes the service call that awaits it.                              *)
EndRefresh ==
    /\ armed' = TRUE
    /\ cooldown' = (cause = "request")
    /\ call' = [u \in Users |-> IF call[u].step = "refreshing" THEN Idle ELSE call[u]]
    /\ UNCHANGED <<again, cause>>

(* A slip: a field that has a value is not read again. *)
DecodedOnce(b) == {f \in todo[Poller] : Covers(b, f) /\ cache[f] = "unknown"}

(* The fields whose attributes a block that is answered fills. *)
Decoded(b) == {f \in todo[Poller] : Covers(b, f)}

(* What a field makes of a register's value; entities show None as unknown.  *)
Decode(v) == IF v \in Undocumented THEN "unknown" ELSE v

(* A block is answered, or refused as unsupported: the loop goes on.         *)
PollBlock ==
    /\ \E b \in Blocks(todo[Poller]) :
          \/ /\ ReadServed(Poller, b)
             /\ cache' = [f \in Fields |-> IF f \in Decoded(b) THEN Decode(reg[f])
                                                           ELSE cache[f]]
          \/ /\ ReadUnsupported(Poller, b)
             /\ status'[Poller] = "reading"
             /\ UNCHANGED cache
    /\ UNCHANGED <<inverter, shown, entry, pollVars, call, held, refused, bounds>>

(* The inverter, or the gateway before it, gives that answer in passing, for *)
(* a block that it serves at other times.                                    *)
RefusedInPassing ==
    /\ refusals < MaxRefusals
    /\ refusals' = refusals + 1
    /\ Refreshing
    /\ \E b \in Blocks(todo[Poller]) : /\ Served(b)
                                       /\ DropFieldsIn(Poller, b)
                                       /\ refused' = refused \cup {b}
    /\ UNCHANGED <<missing, inverter, cache, shown, entry, pollVars, call, held,
                   writes, panel, faults, reloads>>

(* The update succeeded.  At setup the platforms now add their entities.     *)
PollSucceeds ==
    /\ FinishUpdate(Poller)
    /\ success' = TRUE
    /\ entry' = "loaded"
    /\ shown' = [f \in Fields |-> Attribute(f)]
    /\ EndRefresh
    /\ UNCHANGED <<inverter, cache, held, refused, bounds>>

(* A slip: the setup does not wait for a first refresh that succeeds. *)
EntryLoadedAnyway == "loaded"

(* A setup that is not ready stays so until it is tried again. *)
EntryAfterFailure == entry

(* The update raised a ModbusError: UpdateFailed, or, in the first refresh   *)
(* of the setup, ConfigEntryNotReady.                                        *)
PollFails ==
    /\ \/ /\ faults < MaxFaults
          /\ \/ LinkError(Poller)
             \/ \E b \in Blocks(todo[Poller]) : ReadUnnamed(Poller, b)
          /\ faults' = faults + 1
       \/ /\ \E b \in Blocks(todo[Poller]) : ReadUnsupported(Poller, b)
          /\ status'[Poller] # "reading"
          /\ UNCHANGED faults
    /\ entry' = EntryAfterFailure
    /\ IF entry' = "loaded"
       THEN /\ success' = FALSE
            /\ shown' = [f \in Fields |-> "unavailable"]
            /\ EndRefresh
       ELSE UNCHANGED <<shown, pollVars, call>>
    /\ UNCHANGED <<inverter, cache, held, refused, writes, panel, reloads, refusals>>

(* The scheduled refresh, SCAN_INTERVAL after the last one. *)
ScheduledRefresh ==
    /\ entry = "loaded" /\ armed
    /\ BeginRefresh("timer")
    /\ UNCHANGED <<inverter, cache, shown, entry, call, refused, bounds>>

(* The cooldown ends; a request made meanwhile is now served. *)
CooldownEnds ==
    /\ entry = "loaded" /\ cooldown
    /\ IF again
       THEN /\ BeginRefresh("request")
       ELSE /\ cooldown' = FALSE
            /\ UNCHANGED <<deviceVars, success, armed, again, cause, held>>
    /\ UNCHANGED <<inverter, cache, shown, entry, call, refused, bounds>>

-----------------------------------------------------------------------------
(* A service call: async_set_native_value, async_turn_on, async_select_option *)

(* Home Assistant calls only entities that are available. *)
SendWrite(u, f, v) ==
    /\ entry = "loaded" /\ success
    /\ call[u] = Idle
    /\ writes < MaxWrites
    /\ writes' = writes + 1
    /\ call' = [call EXCEPT ![u] = [step |-> "writing", field |-> f,
                                    value |-> v, orphan |-> FALSE]]
    /\ UNCHANGED <<deviceVars, inverter, cache, shown, entry, pollVars, held, refused,
                   panel, faults, reloads, refusals>>

(* A button: the command is not a field, and no entity shows it. *)
Press(u, v) == SendWrite(u, Command, v)

Store(f, v) ==
    /\ reg' = [reg EXCEPT ![f] = v]
    /\ held' = [held EXCEPT ![f] = @ \cup {v}]

(* The inverter takes a command at once and obeys it later. *)
Deliver(f, v) ==
    IF f = Command
    THEN command' = v /\ UNCHANGED <<reg, held>>
    ELSE Store(f, v) /\ UNCHANGED command

(* A slip: a write that was stored is tried again. *)
WriteRepeats(u) ==
    /\ call[u].step = "writing"
    /\ Deliver(call[u].field, call[u].value)
    /\ UNCHANGED <<deviceVars, cache, shown, entry, pollVars, call, refused, bounds>>

(* The inverter answers; or it stores the value and its answer is lost; or   *)
(* it does not store it.  An error ends the service call without a refresh.  *)
WriteEnds(u) ==
    /\ call[u].step = "writing"
    /\ \/ /\ Served(call[u].field)
          /\ Deliver(call[u].field, call[u].value)
          /\ call' = [call EXCEPT ![u].step = "written"]
          /\ UNCHANGED faults
       \/ /\ faults < MaxFaults
          /\ faults' = faults + 1
          /\ Served(call[u].field)
          /\ Deliver(call[u].field, call[u].value)
          /\ call' = [call EXCEPT ![u] = Idle]
       \/ /\ faults < MaxFaults
          /\ faults' = faults + 1
          /\ call' = [call EXCEPT ![u] = Idle]
          /\ UNCHANGED <<inverter, held>>
       \/ /\ ~Served(call[u].field)
          /\ call' = [call EXCEPT ![u] = Idle]
          /\ UNCHANGED <<inverter, held, faults>>
    /\ UNCHANGED <<deviceVars, cache, shown, entry, pollVars, refused,
                   writes, panel, reloads, refusals>>

(* A slip of the operator below: the call waits for the refresh in flight,   *)
(* whichever it is.                                                          *)
RequestRefreshJoins(u) ==
    /\ call[u].step = "written"
    /\ IF ~call[u].orphan /\ ~cooldown
       THEN /\ BeginRefresh("request") \/ (Refreshing /\ UNCHANGED <<deviceVars, pollVars, held>>)
            /\ call' = [call EXCEPT ![u] = [step |-> "refreshing"]]
       ELSE /\ again' = (again \/ ~call[u].orphan)
            /\ call' = [call EXCEPT ![u] = Idle]
            /\ UNCHANGED <<deviceVars, success, armed, cooldown, cause, held>>
    /\ UNCHANGED <<inverter, cache, shown, entry, refused, bounds>>

(* async_request_refresh after the write: within the cooldown the request is *)
(* kept for its end, during a refresh it is dropped, and a coordinator that  *)
(* was shut down ignores it.                                                 *)
RequestRefresh(u) ==
    /\ call[u].step = "written"
    /\ IF ~call[u].orphan /\ ~cooldown /\ ~Refreshing
       THEN /\ BeginRefresh("request")
            /\ call' = [call EXCEPT ![u] = [step |-> "refreshing"]]
       ELSE /\ again' = (again \/ (~call[u].orphan /\ cooldown))
            /\ call' = [call EXCEPT ![u] = Idle]
            /\ UNCHANGED <<deviceVars, success, armed, cooldown, cause, held>>
    /\ UNCHANGED <<inverter, cache, shown, entry, refused, bounds>>

(* The refresh of the old coordinator ends, which the call was waiting for.  *)
AbandonedReturns(u) ==
    /\ call[u].step = "abandoned"
    /\ call' = [call EXCEPT ![u] = Idle]
    /\ UNCHANGED <<deviceVars, inverter, cache, shown, entry, pollVars, held, refused,
                   bounds>>

(* The value changes at the inverter's panel, or by another Modbus client.   *)
PanelChange(f, v) ==
    /\ panel < MaxPanel
    /\ v # reg[f]
    /\ panel' = panel + 1
    /\ Served(f)
    /\ Store(f, v)
    /\ UNCHANGED <<deviceVars, command, cache, shown, entry, pollVars, call, refused,
                   writes, faults, reloads, refusals>>

(* The inverter has started or stopped, some time after the command. *)
Obey ==
    /\ command # "none"
    /\ Store(RunningState, command)
    /\ command' = "none"
    /\ UNCHANGED <<deviceVars, cache, shown, entry, pollVars, call, refused, bounds>>

-----------------------------------------------------------------------------
(* async_setup_entry and async_unload_entry *)

(* A slip of the operator below: the device of the last setup is used again. *)
SameDevice ==
    /\ todo' = [t \in Tasks |-> resolved]
    /\ cache' = [f \in Fields |-> "unknown"]
    /\ refused' = {}
    /\ UNCHANGED resolved

(* A new SungrowSHx with all its fields, of which none is read yet. *)
FreshDevice ==
    /\ resolved' = Fields
    /\ todo' = [t \in Tasks |-> Fields]
    /\ cache' = [f \in Fields |-> "unknown"]
    /\ refused' = {}

(* The unit is claimed, and the first refresh of the new device begins. *)
SetUpEntry ==
    /\ entry # "loaded" /\ ~Refreshing
    /\ entry' = "setting_up"
    /\ FreshDevice
    /\ status' = [t \in Tasks |-> "reading"]
    /\ held' = [f \in Fields |-> {reg[f]}]
    /\ success' = TRUE /\ armed' = FALSE /\ cooldown' = FALSE /\ again' = FALSE
    /\ cause' = "timer"
    /\ UNCHANGED <<missing, inverter, shown, call, bounds>>

(* async_get_unit fails: ConfigEntryNotReady, and the setup is tried again. *)
ClaimFails ==
    /\ entry # "loaded" /\ ~Refreshing
    /\ faults < MaxFaults
    /\ faults' = faults + 1
    /\ entry' = "setting_up"
    /\ UNCHANGED <<deviceVars, inverter, cache, shown, pollVars, call, held, refused,
                   writes, panel, reloads, refusals>>

(* What the unload makes of a service call in progress. *)
Detached(c) == IF c.step \in {"writing", "written"} THEN [c EXCEPT !.orphan = TRUE]
               ELSE IF c.step = "refreshing" THEN [step |-> "abandoned"]
               ELSE c

(* The entities become unavailable, the coordinator is shut down, and the    *)
(* service calls in progress keep the old one.  A refresh in flight goes on  *)
(* with the old device, which only a call that awaits it looks at.           *)
UnloadEntry ==
    /\ entry = "loaded"
    /\ reloads < MaxReloads
    /\ reloads' = reloads + 1
    /\ entry' = "not_loaded"
    /\ status' = [t \in Tasks |-> "new"]
    /\ todo' = [t \in Tasks |-> {}]
    /\ shown' = [f \in Fields |-> "unavailable"]
    /\ armed' = FALSE /\ cooldown' = FALSE /\ again' = FALSE
    /\ call' = [u \in Users |-> Detached(call[u])]
    /\ UNCHANGED <<missing, resolved, inverter, cache, success, cause, held, refused,
                   writes, panel, faults, refusals>>

-----------------------------------------------------------------------------
CoordinatorInit ==
    /\ Init
    /\ reg \in [Fields -> Values]
    /\ command = "none"
    /\ cache = [f \in Fields |-> "unknown"]
    /\ shown = [f \in Fields |-> "unavailable"]
    /\ entry = "not_loaded"
    /\ success = TRUE
    /\ armed = FALSE /\ cooldown = FALSE /\ again = FALSE
    /\ cause = "timer"
    /\ call = [u \in Users |-> Idle]
    /\ held = [f \in Fields |-> {reg[f]}]
    /\ refused = {}
    /\ writes = 0 /\ panel = 0 /\ faults = 0 /\ reloads = 0 /\ refusals = 0

Poll == PollBlock \/ PollSucceeds \/ PollFails

CallStep(u) == WriteEnds(u) \/ RequestRefresh(u) \/ AbandonedReturns(u)

CoordinatorNext ==
    \/ Poll \/ RefusedInPassing \/ ScheduledRefresh \/ CooldownEnds \/ Obey
    \/ SetUpEntry \/ ClaimFails \/ UnloadEntry
    \/ \E u \in Users : CallStep(u)
    \/ \E f \in Fields, v \in Values : PanelChange(f, v)
    \/ \E u \in Users, v \in Documented :
          Press(u, v) \/ \E f \in Settings : SendWrite(u, f, v)

(* Requests are answered or time out, timers fire, an entry that is not      *)
(* ready is set up again, a command is obeyed.  Nothing makes a user act.    *)
CoordinatorFairness ==
    /\ WF_allVars(Poll)
    /\ WF_allVars(ScheduledRefresh)
    /\ WF_allVars(CooldownEnds)
    /\ WF_allVars(SetUpEntry)
    /\ WF_allVars(Obey)
    /\ \A u \in Users : WF_allVars(CallStep(u))

CoordinatorSpec ==
    CoordinatorInit /\ [][CoordinatorNext]_allVars /\ CoordinatorFairness

-----------------------------------------------------------------------------
(* Properties *)

(* Type correctness. *)
CoordinatorTypeOK ==
    /\ TypeOK
    /\ reg \in [Fields -> Values]
    /\ command \in Documented \cup {"none"}
    /\ cache \in [Fields -> Values \cup {"unknown"}]
    /\ shown \in [Fields -> Values \cup {"unknown", "unavailable"}]
    /\ entry \in {"not_loaded", "setting_up", "loaded"}
    /\ success \in BOOLEAN /\ armed \in BOOLEAN
    /\ cooldown \in BOOLEAN /\ again \in BOOLEAN
    /\ cause \in {"timer", "request"}
    /\ call \in [Users -> Call]
    /\ held \in [Fields -> SUBSET Values]
    /\ refused \subseteq ReadBlock
    /\ writes \in 0..MaxWrites /\ panel \in 0..MaxPanel
    /\ faults \in 0..MaxFaults /\ reloads \in 0..MaxReloads
    /\ refusals \in 0..MaxRefusals

(* What appears in Home Assistant was in the inverter at some time during    *)
(* the refresh that shows it: a failed poll, a dropped field, a reload or a  *)
(* write under way never bring an older value back.  And a polled field      *)
(* turns unknown only for a value without a meaning that was read in that    *)
(* refresh, never because it was not read.                                   *)
(* (coordinator.py:43-50, entity.py:55-58, __init__.py:55-59)                *)
ShownIsRecent ==
    [][\A f \in Fields :
          shown'[f] \notin {shown[f], "unavailable"} =>
              IF f \in resolved' THEN \E v \in held[f] : shown'[f] = Decode(v)
                                  ELSE shown'[f] = "unknown"]_allVars

(* What is polled is settled before the first entity exists: whatever fails  *)
(* and is retried, no field comes back under a loaded entry, and none is     *)
(* dropped but by a block that is refused in passing, or around a missing    *)
(* register that no polled field holds, when the blocks are cut in another   *)
(* way than in the first refresh.  (__init__.py:53-59, coordinator.py:23-25) *)
PollingIsSettled ==
    [][entry = "loaded" /\ entry' = "loaded" =>
          /\ resolved' \subseteq resolved
          /\ \/ refusals' # refusals
             \/ \A f \in resolved \ resolved' :
                   \E r \in missing : Near(r, f) /\ \A g \in resolved : ~Holds(g, r)]_allVars

(* A drop is of this device object: a field that the inverter serves is      *)
(* lost only to a block that was refused since the last setup, and a reload  *)
(* of the entry brings it back.  (sungrow.py:79-84, __init__.py:53-54)       *)
DropsAreOfThisDevice ==
    entry # "not_loaded" =>
        \A f \in Fields \ resolved : \/ \E r \in missing : Near(r, f)
                                     \/ \E b \in refused : Overlaps(f, b)

(* Registers that the inverter lacks are no outage: as long as the link is   *)
(* sound, the setup never has to be retried and no update of a loaded entry  *)
(* fails.  (sungrow.py:79-84, coordinator.py:45-49)                          *)
MissingIsNoOutage ==
    faults = 0 => /\ entry = "setting_up" => Refreshing
                  /\ entry = "loaded" => success

(* Between two refreshes an entity shows another value than its registers    *)
(* mean only if they changed since the last refresh began; it is unavailable *)
(* if that one failed.  And it is not for long: whatever failed, was         *)
(* requested, dropped or reloaded, the next refresh is scheduled.            *)
(* (coordinator.py:34-50, entity.py:55-58)                                   *)
StaleIsTemporary ==
    entry = "loaded" /\ ~Refreshing =>
        /\ armed
        /\ \A f \in resolved : held[f] = {reg[f]} =>
               shown[f] = IF success THEN Decode(reg[f]) ELSE "unavailable"

(* The service calls that await the refresh in flight. *)
Waiting == {u \in Users : call[u].step = "refreshing"}

View == INSTANCE InverterView
            WITH recent <- held, polled <- resolved, reading <- Refreshing,
                 waiting <- Waiting

(* Blocks, drops, retries, timers and reloads are nothing to the user: what  *)
(* the entities show and when service calls return is what InverterView      *)
(* allows, so that a call that awaited a refresh finds the values of after   *)
(* its write.  (number.py:84-92, coordinator.py:43-50, __init__.py:53-65)    *)
ViewKept == View!Safe

(* When registers and link have settled, Home Assistant shows what is in the *)
(* inverter, though a refresh request may have been dropped, a write may     *)
(* have failed half-way, and a poll may have raced the write.                *)
(* (coordinator.py:34-40, number.py:89-92)                                   *)
ShowsTheInverter ==
    <>[](entry = "loaded" /\ \A f \in resolved : shown[f] = Decode(reg[f]))

(* A service call that awaits its write and then its refresh returns.        *)
(* (number.py:89-92, switch.py:82-90, select.py:83-87)                       *)
CallsReturn ==
    \A u \in Users : call[u] # Idle ~> call[u] = Idle

(* What test_number.py and test_switch.py assert of one service call: when   *)
(* it has returned and nothing is in flight, the entity shows what was       *)
(* written.  A refresh that was in flight during the write breaks it: it has *)
(* read the old value, and the request for another refresh is dropped.       *)
(* Stated for sound links, and no change but by service calls.               *)
WrittenIsShown ==
    entry = "loaded" /\ success /\ ~Refreshing /\ ~again
      /\ faults = 0 /\ panel = 0 /\ (\A u \in Users : call[u] = Idle)
          => \A f \in resolved \cap Settings : shown[f] = Decode(reg[f])
=============================================================================
