---------------------------- MODULE InverterView ----------------------------
(***************************************************************************)
(* What a loaded entry promises the user who looks at its entities and     *)
(* calls its services, without blocks, attributes, timers or faults: the   *)
(* entities change together, at the end of a refresh; each then shows what *)
(* a value means that its registers held during that refresh; and a        *)
(* service call that awaits a refresh awaits one that began after its      *)
(* write.                                                                  *)
(***************************************************************************)
CONSTANTS Fields, Values, Users,
          Undocumented  \* the values without a meaning

VARIABLES
    reg,      \* reg[f]: the value in the inverter's registers
    recent,   \* recent[f]: the values the field held since the refresh began
    polled,   \* the fields that are read
    reading,  \* a refresh is in flight
    waiting,  \* the users whose service call awaits that refresh
    entry,    \* the config entry
    shown     \* shown[f]: the state of the entity in Home Assistant

vars == <<reg, recent, polled, reading, waiting, entry, shown>>

Meaning(v) == IF v \in Undocumented THEN "unknown" ELSE v

Unavailable == shown' = [f \in Fields |-> "unavailable"]

(* A value changes, by a service call or without Home Assistant. *)
Change(f, v) ==
    /\ reg' = [reg EXCEPT ![f] = v]
    /\ recent' = [recent EXCEPT ![f] = @ \cup {v}]
    /\ UNCHANGED <<polled, reading, waiting, entry, shown>>

Read ==
    /\ ~reading
    /\ reading' = TRUE
    /\ recent' = [f \in Fields |-> {reg[f]}]
    /\ UNCHANGED <<reg, shown>>

SetUp ==
    /\ entry # "loaded" /\ entry' = "setting_up"
    /\ Read
    /\ polled' = Fields
    /\ UNCHANGED waiting

(* On schedule, or for one service call, which has written before. *)
Refresh ==
    /\ entry = "loaded"
    /\ Read
    /\ waiting = {} /\ (waiting' = {} \/ \E u \in Users : waiting' = {u})
    /\ UNCHANGED <<polled, entry>>

GiveUp ==
    /\ reading
    /\ polled' \subseteq polled
    /\ UNCHANGED <<reg, recent, reading, waiting, entry, shown>>

Show ==
    /\ reading /\ ~reading'
    /\ waiting' = {}
    /\ entry' = "loaded"
    /\ shown' \in [Fields -> Values \cup {"unknown"}]
    /\ \A f \in Fields : IF f \in polled THEN \E v \in recent[f] : shown'[f] = Meaning(v)
                                          ELSE shown'[f] = "unknown"
    /\ UNCHANGED <<reg, recent, polled>>

(* The refresh fails; at setup there are no entities yet. *)
Fail ==
    /\ reading /\ ~reading'
    /\ waiting' = {}
    /\ IF entry = "loaded" THEN Unavailable ELSE UNCHANGED shown
    /\ UNCHANGED <<reg, recent, polled, entry>>

(* The setup does not come as far as the refresh. *)
Retry ==
    /\ entry # "loaded" /\ ~reading
    /\ entry' = "setting_up"
    /\ UNCHANGED <<reg, recent, polled, reading, waiting, shown>>

Unload ==
    /\ entry = "loaded" /\ entry' = "not_loaded"
    /\ ~reading' /\ waiting' = {}
    /\ Unavailable
    /\ UNCHANGED <<reg, recent, polled>>

Init ==
    /\ reg \in [Fields -> Values]
    /\ recent = [f \in Fields |-> {reg[f]}]
    /\ polled = Fields
    /\ ~reading /\ waiting = {}
    /\ entry = "not_loaded"
    /\ shown = [f \in Fields |-> "unavailable"]

Next ==
    \/ SetUp \/ Refresh \/ GiveUp \/ Show \/ Fail \/ Retry \/ Unload
    \/ \E f \in Fields, v \in Values : Change(f, v)

Safe == Init /\ [][Next]_vars
=============================================================================
