------------------------- MODULE CoordinatorProofs -------------------------
(***************************************************************************)
(* Proofs about Coordinator: for every register layout and plan, any       *)
(* number of service calls, and every bound on faults, writes, reloads and *)
(* refusals.                                                               *)
(***************************************************************************)
EXTENDS Coordinator, SungrowSHxProofs

-----------------------------------------------------------------------------
(* Lemmas about the state *)

LEMMA PollerFacts == Tasks = {Poller} /\ Poller \in Tasks /\ OneTask
  BY CoordinatorAssumption DEF OneTask

LEMMA ValueFacts ==
    /\ "unknown" \notin Values /\ "unavailable" \notin Values /\ "none" \notin Values
    /\ RunningState \in Fields
    /\ Documented \subseteq Values
  BY CoordinatorAssumption DEF Documented

LEMMA DecodeFacts ==
    \A v \in Values : Decode(v) \in Values \cup {"unknown"} /\ Decode(v) # "unavailable"
  BY ValueFacts DEF Decode

(* A call that writes knows its field and its value. *)
LEMMA WritingFacts ==
    ASSUME CoordinatorTypeOK, NEW u \in Users, call[u].step \in {"writing", "written"}
    PROVE  /\ call[u] \in [step: {"writing", "written"}, field: Settings \cup {Command},
                           value: Documented, orphan: BOOLEAN]
           /\ call[u].value \in Documented /\ call[u].orphan \in BOOLEAN
           /\ call[u].field # Command => call[u].field \in Fields
  <1>1. call[u] \in Call
    BY DEF CoordinatorTypeOK
  <1>2. call[u] \in [step: {"writing", "written"}, field: Settings \cup {Command},
                     value: Documented, orphan: BOOLEAN]
    BY <1>1 DEF Call, Idle
  <1>3. QED
    BY <1>2 DEF Settings

LEMMA IdleIsCall ==
    /\ Idle \in Call
    /\ [step |-> "refreshing"] \in Call
    /\ [step |-> "abandoned"] \in Call
  BY DEF Call, Idle

-----------------------------------------------------------------------------
(* Type correctness *)

(* What a delivered value may change. *)
LEMMA DeliverTypes ==
    ASSUME CoordinatorTypeOK, NEW f, f # Command => f \in Fields, NEW v \in Documented,
           Deliver(f, v)
    PROVE  /\ reg' \in [Fields -> Values]
           /\ command' \in Documented \cup {"none"}
           /\ held' \in [Fields -> SUBSET Values]
  BY ValueFacts DEF Deliver, Store, CoordinatorTypeOK

LEMMA BeginTypes ==
    ASSUME CoordinatorTypeOK, NEW why \in {"timer", "request"}, BeginRefresh(why)
    PROVE  /\ TypeOK'
           /\ success' \in BOOLEAN /\ armed' \in BOOLEAN
           /\ cooldown' \in BOOLEAN /\ again' \in BOOLEAN
           /\ cause' \in {"timer", "request"}
           /\ held' \in [Fields -> SUBSET Values]
  <1>1. Next
    BY PollerFacts DEF BeginRefresh, Next
  <1>2. TypeOK'
    BY <1>1, TypeInductive DEF CoordinatorTypeOK
  <1>3. QED
    BY <1>2 DEF BeginRefresh, CoordinatorTypeOK

LEMMA EndTypes ==
    ASSUME CoordinatorTypeOK, EndRefresh
    PROVE  /\ armed' \in BOOLEAN /\ cooldown' \in BOOLEAN /\ again' \in BOOLEAN
           /\ cause' \in {"timer", "request"}
           /\ call' \in [Users -> Call]
  BY IdleIsCall DEF EndRefresh, CoordinatorTypeOK

(* CoordinatorTypeOK is inductive. *)
LEMMA CoordinatorTypeInductive ==
    CoordinatorTypeOK /\ [CoordinatorNext]_allVars => CoordinatorTypeOK'
  <1> SUFFICES ASSUME CoordinatorTypeOK, [CoordinatorNext]_allVars
               PROVE  CoordinatorTypeOK'
    OBVIOUS
  <1>a. TypeOK
    BY DEF CoordinatorTypeOK
  <1>b. /\ MaxWrites \in Nat /\ MaxPanel \in Nat /\ MaxFaults \in Nat
        /\ MaxReloads \in Nat /\ MaxRefusals \in Nat
    BY CoordinatorAssumption
  <1> USE PollerFacts, ValueFacts, <1>b DEF pollVars, inverter, bounds, deviceVars
  <1>1. CASE PollBlock
    <2>1. PICK b \in Blocks(todo[Poller]) :
              \/ /\ ReadServed(Poller, b)
                 /\ cache' = [f \in Fields |-> IF f \in Decoded(b) THEN Decode(reg[f])
                                                           ELSE cache[f]]
              \/ ReadUnsupported(Poller, b) /\ UNCHANGED cache
      BY <1>1 DEF PollBlock
    <2>2. Next
      BY <2>1 DEF Next, UpdateStep
    <2>3. TypeOK'
      BY <1>a, <2>2, TypeInductive
    <2>4. cache' \in [Fields -> Values \cup {"unknown"}]
      BY <2>1, DecodeFacts DEF CoordinatorTypeOK
    <2>5. QED
      BY <1>1, <2>3, <2>4 DEF PollBlock, CoordinatorTypeOK
  <1>2. CASE RefusedInPassing
    <2>1. PICK b \in Blocks(todo[Poller]) : DropFieldsIn(Poller, b) /\ refused' = refused \cup {b}
      BY <1>2 DEF RefusedInPassing
    <2>2. b \in ReadBlock
      BY <1>a, <2>1, BlockFacts DEF TypeOK
    <2>3. TypeOK'
      BY <1>2, <1>a, <2>1 DEF RefusedInPassing, DropFieldsIn, TypeOK, Ended
    <2>4. QED
      BY <1>2, <2>1, <2>2, <2>3 DEF RefusedInPassing, CoordinatorTypeOK
  <1>3. CASE PollSucceeds
    <2>1. TypeOK'
      BY <1>3, <1>a, TypeInductive DEF PollSucceeds, Next, UpdateStep
    <2>2. shown' \in [Fields -> Values \cup {"unknown", "unavailable"}]
      BY <1>3 DEF PollSucceeds, Attribute, CoordinatorTypeOK
    <2>3. QED
      BY <1>3, <2>1, <2>2, EndTypes DEF PollSucceeds, CoordinatorTypeOK
  <1>4. CASE PollFails
    <2>1. TypeOK'
      BY <1>4, <1>a, TypeInductive DEF PollFails, Next, UpdateStep
    <2>2. faults' \in 0..MaxFaults
      BY <1>4 DEF PollFails, CoordinatorTypeOK
    <2>3. QED
      BY <1>4, <2>1, <2>2, EndTypes DEF PollFails, EntryAfterFailure, CoordinatorTypeOK
  <1>5. CASE ScheduledRefresh
    BY <1>5, BeginTypes DEF ScheduledRefresh, CoordinatorTypeOK
  <1>6. CASE CooldownEnds
    <2>1. CASE again
      BY <1>6, <2>1, BeginTypes DEF CooldownEnds, CoordinatorTypeOK
    <2>2. CASE ~again
      BY <1>6, <2>2, <1>a DEF CooldownEnds, CoordinatorTypeOK, TypeOK
    <2>3. QED
      BY <2>1, <2>2
  <1>7. CASE Obey
    BY <1>7, <1>a DEF Obey, Store, CoordinatorTypeOK, TypeOK
  <1>8. CASE SetUpEntry
    BY <1>8, <1>a DEF SetUpEntry, FreshDevice, CoordinatorTypeOK, TypeOK
  <1>9. CASE ClaimFails
    BY <1>9, <1>a DEF ClaimFails, CoordinatorTypeOK, TypeOK
  <1>10. CASE UnloadEntry
    <2>1. call' \in [Users -> Call]
      <3>1. ASSUME NEW u \in Users
            PROVE  Detached(call[u]) \in Call
        <4>1. call[u] \in Call
          BY DEF CoordinatorTypeOK
        <4>2. CASE call[u].step \in {"writing", "written"}
          BY <4>2, WritingFacts DEF Call, Detached
        <4>3. CASE call[u].step \notin {"writing", "written"}
          BY <4>1, <4>3, IdleIsCall DEF Detached
        <4>4. QED
          BY <4>2, <4>3
      <3>2. QED
        BY <1>10, <3>1 DEF UnloadEntry
    <2>2. TypeOK'
      BY <1>10, <1>a DEF UnloadEntry, TypeOK, Ended
    <2>3. reloads' \in 0..MaxReloads
      BY <1>10 DEF UnloadEntry, CoordinatorTypeOK
    <2>4. shown' \in [Fields -> Values \cup {"unknown", "unavailable"}]
      BY <1>10 DEF UnloadEntry
    <2>5. UNCHANGED <<reg, command, cache, success, cause, held, refused, writes, panel,
                      faults, refusals>>
      BY <1>10 DEF UnloadEntry
    <2>6. entry' = "not_loaded" /\ armed' = FALSE /\ cooldown' = FALSE /\ again' = FALSE
      BY <1>10 DEF UnloadEntry
    <2>7. QED
      BY <2>1, <2>2, <2>3, <2>4, <2>5, <2>6 DEF CoordinatorTypeOK
  <1>11. ASSUME NEW u \in Users, WriteEnds(u)
         PROVE  CoordinatorTypeOK'
    <2>1. /\ call[u].value \in Documented
          /\ call[u].field # Command => call[u].field \in Fields
          /\ call[u] \in [step: {"writing", "written"}, field: Settings \cup {Command},
                           value: Documented, orphan: BOOLEAN]
      BY <1>11, WritingFacts DEF WriteEnds
    <2>2. /\ reg' \in [Fields -> Values]
          /\ command' \in Documented \cup {"none"}
          /\ held' \in [Fields -> SUBSET Values]
      BY <1>11, <2>1, DeliverTypes DEF WriteEnds, CoordinatorTypeOK
    <2>3. call' \in [Users -> Call]
      <3>1. [call[u] EXCEPT !.step = "written"] \in Call
        BY <2>1 DEF Call
      <3>2. \/ call' = [call EXCEPT ![u].step = "written"]
            \/ call' = [call EXCEPT ![u] = Idle]
        BY <1>11 DEF WriteEnds
      <3>3. QED
        BY <3>1, <3>2, IdleIsCall DEF CoordinatorTypeOK
    <2>4. faults' \in 0..MaxFaults
      BY <1>11 DEF WriteEnds, CoordinatorTypeOK
    <2>5. QED
      BY <1>11, <1>a, <2>2, <2>3, <2>4 DEF WriteEnds, CoordinatorTypeOK, TypeOK
  <1>12. ASSUME NEW u \in Users, RequestRefresh(u)
         PROVE  CoordinatorTypeOK'
    <2>1. CASE ~call[u].orphan /\ ~cooldown /\ ~Refreshing
      BY <1>12, <2>1, BeginTypes, IdleIsCall DEF RequestRefresh, CoordinatorTypeOK
    <2>2. CASE ~(~call[u].orphan /\ ~cooldown /\ ~Refreshing)
      <3>1. again' \in BOOLEAN
        BY <1>12, <2>2 DEF RequestRefresh
      <3>2. QED
        BY <1>12, <1>a, <2>2, <3>1, IdleIsCall DEF RequestRefresh, CoordinatorTypeOK, TypeOK
    <2>3. QED
      BY <2>1, <2>2
  <1>13. ASSUME NEW u \in Users, AbandonedReturns(u)
         PROVE  CoordinatorTypeOK'
    BY <1>13, <1>a, IdleIsCall DEF AbandonedReturns, CoordinatorTypeOK, TypeOK
  <1>14. ASSUME NEW u \in Users, NEW f \in Settings \cup {Command}, NEW v \in Documented,
                SendWrite(u, f, v)
         PROVE  CoordinatorTypeOK'
    <2>1. [step |-> "writing", field |-> f, value |-> v, orphan |-> FALSE] \in Call
      BY DEF Call
    <2>2. QED
      BY <1>14, <1>a, <2>1 DEF SendWrite, CoordinatorTypeOK, TypeOK
  <1>15. ASSUME NEW f \in Fields, NEW v \in Values, PanelChange(f, v)
         PROVE  CoordinatorTypeOK'
    BY <1>15, <1>a DEF PanelChange, Store, CoordinatorTypeOK, TypeOK
  <1>16. CASE UNCHANGED allVars
    BY <1>16, <1>a DEF allVars, CoordinatorTypeOK, TypeOK
  <1>17. QED
    BY <1>1, <1>2, <1>3, <1>4, <1>5, <1>6, <1>7, <1>8, <1>9, <1>10, <1>11, <1>12, <1>13,
       <1>14, <1>15, <1>16 DEF CoordinatorNext, Poll, CallStep, Press

LEMMA CoordinatorInitTypes == CoordinatorInit => CoordinatorTypeOK
  <1> SUFFICES ASSUME CoordinatorInit
               PROVE  CoordinatorTypeOK
    OBVIOUS
  <1>1. TypeOK
    BY DEF CoordinatorInit, Init, TypeOK, Ended
  <1>2. /\ writes \in 0..MaxWrites /\ panel \in 0..MaxPanel /\ faults \in 0..MaxFaults
        /\ reloads \in 0..MaxReloads /\ refusals \in 0..MaxRefusals
    BY CoordinatorAssumption DEF CoordinatorInit
  <1>3. /\ reg \in [Fields -> Values] /\ held \in [Fields -> SUBSET Values]
        /\ call \in [Users -> Call]
    BY IdleIsCall DEF CoordinatorInit
  <1>4. QED
    BY <1>1, <1>2, <1>3 DEF CoordinatorInit, CoordinatorTypeOK

(* The state of the entry, the coordinator, the entities, the service calls  *)
(* and the inverter stays well typed.  (__init__.py:36-65, coordinator.py)   *)
THEOREM CoordinatorTypeCorrect == CoordinatorSpec => []CoordinatorTypeOK
  BY CoordinatorInitTypes, CoordinatorTypeInductive, PTL DEF CoordinatorSpec

-----------------------------------------------------------------------------
(* What a step can do to the device object *)

BlockIsAnswered ==
    \E b \in Blocks(todo[Poller]) : ReadServed(Poller, b) /\ UNCHANGED <<entry, refused>>

ComponentIsNarrowed ==
    \E b \in Blocks(todo[Poller]), c \in Components :
        /\ Refreshing
        /\ resolved' = resolved \ Hit(c, b)
        /\ todo' = [todo EXCEPT ![Poller] = resolved \ Hit(c, b)]
        /\ UNCHANGED <<missing, status, entry>>
        /\ \/ ~Served(b) /\ UNCHANGED refused
           \/ refusals' # refusals /\ refused' = refused \cup {b}

UpdateSucceeds ==
    /\ FinishUpdate(Poller) /\ entry' = "loaded" /\ UNCHANGED refused
    /\ shown' = [f \in Fields |-> Attribute(f)]
    /\ UNCHANGED <<cache, held>>

UpdateIsOver ==
    /\ status' \in [Tasks -> Ended]
    /\ UNCHANGED <<missing, resolved, refused>>
    /\ entry' \in {entry, "not_loaded"}

UpdateBegins == StartUpdate(Poller) /\ UNCHANGED <<entry, refused>>

DeviceIsReplaced ==
    /\ FreshDevice /\ status' = [t \in Tasks |-> "reading"]
    /\ UNCHANGED missing
    /\ entry # "loaded" /\ entry' = "setting_up"

DeviceIsLeft ==
    /\ UNCHANGED <<missing, resolved, todo, status, refused>>
    /\ entry' \in {entry, "setting_up"}

DeviceStep ==
    \/ BlockIsAnswered \/ ComponentIsNarrowed \/ UpdateSucceeds \/ UpdateIsOver
    \/ UpdateBegins \/ DeviceIsReplaced \/ DeviceIsLeft

(* The only task reads only resolved fields, so that every drop has a        *)
(* component to narrow.                                                      *)
LEMMA DropNarrows ==
    ASSUME TypeOK, TodoResolved, Refreshing, NEW b \in Blocks(todo[Poller]),
           DropFieldsIn(Poller, b)
    PROVE  \E c \in Components :
              /\ resolved' = resolved \ Hit(c, b)
              /\ todo' = [todo EXCEPT ![Poller] = resolved \ Hit(c, b)]
              /\ UNCHANGED status
  <1>1. \E c \in Components : Hit(c, b) # {}
    BY PollerFacts, SomeComponentIsHit DEF Refreshing
  <1>2. QED
    BY <1>1 DEF DropFieldsIn

LEMMA DeviceSteps ==
    CoordinatorTypeOK /\ TodoResolved /\ [CoordinatorNext]_allVars => DeviceStep
  <1> SUFFICES ASSUME CoordinatorTypeOK, TodoResolved, [CoordinatorNext]_allVars
               PROVE  DeviceStep
    OBVIOUS
  <1>a. TypeOK
    BY DEF CoordinatorTypeOK
  <1> USE PollerFacts DEF deviceVars, pollVars, bounds
  <1>1. CASE PollBlock
    <2>1. PICK b \in Blocks(todo[Poller]) :
              ReadServed(Poller, b) \/ ReadUnsupported(Poller, b)
      BY <1>1 DEF PollBlock
    <2>2. CASE ReadServed(Poller, b)
      BY <1>1, <2>2 DEF PollBlock, DeviceStep, BlockIsAnswered
    <2>3. CASE ReadUnsupported(Poller, b)
      <3>1. Refreshing /\ ~Served(b) /\ DropFieldsIn(Poller, b) /\ UNCHANGED missing
        BY <2>3 DEF ReadUnsupported, Refreshing
      <3>2. ComponentIsNarrowed
        BY <1>1, <1>a, <3>1, DropNarrows DEF PollBlock, ComponentIsNarrowed
      <3>3. QED
        BY <3>2 DEF DeviceStep
    <2>4. QED
      BY <2>1, <2>2, <2>3
  <1>2. CASE RefusedInPassing
    <2>1. refusals' # refusals
      BY <1>2 DEF RefusedInPassing, CoordinatorTypeOK
    <2>2. ComponentIsNarrowed
      BY <1>2, <1>a, <2>1, DropNarrows DEF RefusedInPassing, ComponentIsNarrowed
    <2>3. QED
      BY <2>2 DEF DeviceStep
  <1>3. CASE PollSucceeds
    BY <1>3 DEF PollSucceeds, DeviceStep, UpdateSucceeds
  <1>4. CASE PollFails
    <2>1. UpdateIsOver
      <3>1. CASE LinkError(Poller) \/ \E b \in Blocks(todo[Poller]) : ReadUnnamed(Poller, b)
        BY <1>4, <1>a, <3>1
           DEF PollFails, EntryAfterFailure, LinkError, ReadUnnamed, UpdateIsOver, TypeOK, Ended
      <3>2. CASE \E b \in Blocks(todo[Poller]) : ReadUnsupported(Poller, b)
                                               /\ status'[Poller] # "reading"
        <4>1. Refreshing
          BY <3>2 DEF ReadUnsupported, Refreshing
        <4>2. UNCHANGED status
          BY <1>a, <3>2, <4>1, DropNarrows DEF ReadUnsupported
        <4>3. QED
          BY <3>2, <4>1, <4>2 DEF Refreshing
      <3>3. QED
        BY <1>4, <3>1, <3>2 DEF PollFails
    <2>2. QED
      BY <2>1 DEF DeviceStep
  <1>5. ASSUME NEW why \in {"timer", "request"}, BeginRefresh(why), UNCHANGED <<entry, refused>>
        PROVE  DeviceStep
    BY <1>5 DEF BeginRefresh, DeviceStep, UpdateBegins
  <1>6. CASE ScheduledRefresh
    BY <1>5, <1>6 DEF ScheduledRefresh
  <1>7. CASE CooldownEnds
    BY <1>5, <1>7 DEF CooldownEnds, DeviceStep, DeviceIsLeft
  <1>8. CASE SetUpEntry
    BY <1>8 DEF SetUpEntry, DeviceStep, DeviceIsReplaced
  <1>9. CASE UnloadEntry
    BY <1>9 DEF UnloadEntry, DeviceStep, UpdateIsOver, Ended
  <1>10. CASE Obey \/ ClaimFails
    BY <1>10 DEF Obey, ClaimFails, DeviceStep, DeviceIsLeft
  <1>11. ASSUME NEW u \in Users, CallStep(u)
         PROVE  DeviceStep
    BY <1>5, <1>11
       DEF CallStep, WriteEnds, RequestRefresh, AbandonedReturns, DeviceStep, DeviceIsLeft
  <1>12. ASSUME NEW u \in Users, NEW f, NEW v \in Documented, SendWrite(u, f, v)
         PROVE  DeviceStep
    BY <1>12 DEF SendWrite, DeviceStep, DeviceIsLeft
  <1>13. ASSUME NEW f \in Fields, NEW v \in Values, PanelChange(f, v)
         PROVE  DeviceStep
    BY <1>13 DEF PanelChange, DeviceStep, DeviceIsLeft
  <1>14. CASE UNCHANGED allVars
    BY <1>14 DEF allVars, DeviceStep, DeviceIsLeft
  <1>15. QED
    BY <1>1, <1>2, <1>3, <1>4, <1>6, <1>7, <1>8, <1>9, <1>10, <1>11, <1>12, <1>13, <1>14
       DEF CoordinatorNext, Poll, Press

-----------------------------------------------------------------------------
(* The device object *)

(* Every drop, of this device object or of the last one that an unloaded     *)
(* entry leaves behind, has its cause.                                       *)
DropsAreKnown ==
    \A f \in Fields \ resolved : \/ \E r \in missing : Near(r, f)
                                 \/ \E b \in refused : Overlaps(f, b)

(* Before the entry is loaded, every field that is left has been answered.   *)
LoadedIsServed == entry = "loaded" => \A f \in resolved : Served(f)

DeviceInv == TodoResolved /\ DropsAreKnown /\ ReadSoFarServed /\ LoadedIsServed

(* A component that is narrowed loses fields that overlap a refused block.   *)
LEMMA NarrowingIsKnown ==
    ASSUME TypeOK, DropsAreKnown, ComponentIsNarrowed
    PROVE  DropsAreKnown'
  <1> USE PollerFacts
  <1>1. PICK b \in Blocks(todo[Poller]), c \in Components :
              /\ resolved' = resolved \ Hit(c, b)
              /\ UNCHANGED missing
              /\ \/ ~Served(b) /\ UNCHANGED refused
                 \/ refused' = refused \cup {b}
    BY DEF ComponentIsNarrowed
  <1> SUFFICES ASSUME NEW f \in Fields, f \notin resolved'
               PROVE  \/ \E r \in missing : Near(r, f)
                      \/ \E d \in refused' : Overlaps(f, d)
    BY <1>1 DEF DropsAreKnown
  <1>2. CASE f \notin resolved
    BY <1>1, <1>2 DEF DropsAreKnown
  <1>3. CASE f \in Hit(c, b)
    <2>1. CASE ~Served(b)
      BY <1>3, <2>1, DropIsJustified
    <2>2. CASE refused' = refused \cup {b}
      BY <1>3, <2>2 DEF Hit
    <2>3. QED
      BY <1>1, <2>1, <2>2
  <1>4. QED
    BY <1>1, <1>2, <1>3

(* DeviceInv is inductive, given the types. *)
LEMMA DeviceInductive ==
    CoordinatorTypeOK /\ DeviceInv /\ [CoordinatorNext]_allVars => DeviceInv'
  <1> SUFFICES ASSUME CoordinatorTypeOK, DeviceInv, [CoordinatorNext]_allVars
               PROVE  DeviceInv'
    OBVIOUS
  <1>a. TypeOK
    BY DEF CoordinatorTypeOK
  <1> USE PollerFacts DEF DeviceInv
  <1>1. CASE BlockIsAnswered
    <2>1. PICK b \in Blocks(todo[Poller]) : ReadServed(Poller, b) /\ UNCHANGED <<entry, refused>>
      BY <1>1 DEF BlockIsAnswered
    <2>2. ReadSoFarServed'
      <3> SUFFICES ASSUME NEW f \in resolved, f \notin todo'[Poller]
                   PROVE  Served(f)
        BY <2>1 DEF ReadServed, ReadSoFarServed, Served
      <3>1. CASE f \notin todo[Poller]
        BY <2>1, <3>1 DEF ReadSoFarServed, ReadServed
      <3>2. CASE f \in todo[Poller]
        <4>1. Covers(b, f) /\ f \in Fields
          BY <1>a, <2>1, <3>2 DEF ReadServed, TypeOK
        <4>2. QED
          BY <1>a, <2>1, <4>1, AnsweredIsServed DEF ReadServed
      <3>3. QED
        BY <3>1, <3>2
    <2>3. TodoResolved' /\ DropsAreKnown' /\ LoadedIsServed'
      BY <1>a, <2>1 DEF ReadServed, TypeOK, TodoResolved, DropsAreKnown, LoadedIsServed, Served
    <2>4. QED
      BY <2>2, <2>3
  <1>2. CASE ComponentIsNarrowed
    <2>1. DropsAreKnown'
      BY <1>2, <1>a, NarrowingIsKnown
    <2>2. /\ resolved' \subseteq resolved /\ todo'[Poller] = resolved'
          /\ UNCHANGED <<missing, status, entry>>
      BY <1>2, <1>a DEF ComponentIsNarrowed, TypeOK
    <2>3. TodoResolved' /\ ReadSoFarServed' /\ LoadedIsServed'
      BY <2>2 DEF TodoResolved, ReadSoFarServed, LoadedIsServed, Served
    <2>4. QED
      BY <2>1, <2>3
  <1>3. CASE UpdateSucceeds
    <2>1. \A f \in resolved : Served(f)
      BY <1>3 DEF UpdateSucceeds, FinishUpdate, ReadSoFarServed
    <2>2. status'[Poller] = "updated" /\ UNCHANGED <<missing, resolved, todo, refused>>
      BY <1>3, <1>a DEF UpdateSucceeds, FinishUpdate, TypeOK
    <2>3. QED
      BY <2>1, <2>2 DEF TodoResolved, DropsAreKnown, ReadSoFarServed, LoadedIsServed, Served
  <1>4. CASE UpdateIsOver
    <2>1. status'[Poller] # "reading"
      BY <1>4 DEF UpdateIsOver, Ended
    <2>2. QED
      BY <1>4, <2>1 DEF UpdateIsOver, TodoResolved, DropsAreKnown, ReadSoFarServed,
                        LoadedIsServed, Served
  <1>5. CASE UpdateBegins
    BY <1>5, <1>a DEF UpdateBegins, StartUpdate, TypeOK, TodoResolved, DropsAreKnown,
                      ReadSoFarServed, LoadedIsServed, Served
  <1>6. CASE DeviceIsReplaced
    BY <1>6 DEF DeviceIsReplaced, FreshDevice, TodoResolved, DropsAreKnown,
                ReadSoFarServed, LoadedIsServed
  <1>7. CASE DeviceIsLeft
    BY <1>7 DEF DeviceIsLeft, TodoResolved, DropsAreKnown, ReadSoFarServed,
                LoadedIsServed, Served
  <1>8. QED
    BY <1>1, <1>2, <1>3, <1>4, <1>5, <1>6, <1>7, DeviceSteps DEF DeviceStep

LEMMA DeviceInvariant == CoordinatorSpec => [](CoordinatorTypeOK /\ DeviceInv)
  <1>1. CoordinatorInit => DeviceInv
    BY DEF CoordinatorInit, Init, DeviceInv, TodoResolved, DropsAreKnown,
           ReadSoFarServed, LoadedIsServed
  <1>2. QED
    BY <1>1, CoordinatorInitTypes, CoordinatorTypeInductive, DeviceInductive, PTL
       DEF CoordinatorSpec

(* A field that the inverter serves is missing from the entities only for a  *)
(* block that this device object was refused; a reload brings it back.       *)
(* (sungrow.py:79-84, __init__.py:53-54)                                     *)
THEOREM DropsBelongToTheDevice == CoordinatorSpec => []DropsAreOfThisDevice
  <1>1. DeviceInv => DropsAreOfThisDevice
    BY DEF DeviceInv, DropsAreKnown, DropsAreOfThisDevice
  <1>2. QED
    BY <1>1, DeviceInvariant, PTL

(* A block that a loaded entry is refused, and not in passing, spans a       *)
(* missing register that no polled field holds.                              *)
LEMMA LateDropIsOfAGap ==
    ASSUME TypeOK, LoadedIsServed, entry = "loaded", NEW b \in Blocks(todo[Poller]),
           ~Served(b), NEW c \in Components, NEW f \in Hit(c, b)
    PROVE  \E r \in missing : Near(r, f) /\ \A g \in resolved : ~Holds(g, r)
  <1>1. b \in ReadBlock /\ b.count <= MaxSpan
    BY PollerFacts, BlockFacts DEF TypeOK
  <1>2. PICK r \in missing : Holds(b, r)
    BY DEF Served, ServedBy
  <1>3. r \in Register
    BY <1>2, MissingAreRegisters DEF TypeOK
  <1>4. f \in Fields /\ Overlaps(f, b)
    BY DEF Hit, TypeOK
  <1>5. Near(r, f)
    BY <1>1, <1>2, <1>3, <1>4, HoleIsNear
  <1>6. \A g \in resolved : ~Holds(g, r)
    BY <1>2 DEF LoadedIsServed, Served, ServedBy
  <1>7. QED
    BY <1>2, <1>5, <1>6

(* Once the first entity exists, no field comes back, and none is dropped    *)
(* for a register of a polled field: those were all answered in the first    *)
(* refresh, however often it was retried.  (__init__.py:53-59)               *)
THEOREM PollingStaysSettled == CoordinatorSpec => PollingIsSettled
  <1> DEFINE Settled ==
          entry = "loaded" /\ entry' = "loaded" =>
             /\ resolved' \subseteq resolved
             /\ \/ refusals' # refusals
                \/ \A f \in resolved \ resolved' :
                      \E r \in missing : Near(r, f) /\ \A g \in resolved : ~Holds(g, r)
  <1>1. CoordinatorTypeOK /\ DeviceInv /\ [CoordinatorNext]_allVars => [Settled]_allVars
    <2> SUFFICES ASSUME CoordinatorTypeOK, DeviceInv, [CoordinatorNext]_allVars,
                        entry = "loaded", entry' = "loaded"
                 PROVE  /\ resolved' \subseteq resolved
                        /\ \/ refusals' # refusals
                           \/ \A f \in resolved \ resolved' :
                                 \E r \in missing :
                                    Near(r, f) /\ \A g \in resolved : ~Holds(g, r)
      OBVIOUS
    <2>a. TypeOK /\ LoadedIsServed
      BY DEF CoordinatorTypeOK, DeviceInv
    <2>1. CASE ComponentIsNarrowed
      <3>1. PICK b \in Blocks(todo[Poller]), c \in Components :
                /\ resolved' = resolved \ Hit(c, b)
                /\ ~Served(b) \/ refusals' # refusals
        BY <2>1 DEF ComponentIsNarrowed
      <3>2. CASE ~Served(b)
        BY <2>a, <3>1, <3>2, LateDropIsOfAGap
      <3>3. QED
        BY <3>1, <3>2
    <2>2. CASE UNCHANGED resolved
      BY <2>2
    <2>3. DeviceStep
      BY DeviceSteps DEF DeviceInv
    <2>4. QED
      BY <2>1, <2>2, <2>3
         DEF DeviceStep, BlockIsAnswered, ReadServed, UpdateSucceeds, FinishUpdate,
             UpdateIsOver, UpdateBegins, StartUpdate, DeviceIsReplaced, DeviceIsLeft
  <1>2. QED
    BY <1>1, DeviceInvariant, PTL DEF CoordinatorSpec, PollingIsSettled

-----------------------------------------------------------------------------
(* What is read and what is shown *)

(* The history of values follows the registers, and what the refresh has     *)
(* read so far was in them since it began.                                   *)
Readings(f) == {Decode(v) : v \in held[f]}

HeldIsCurrent == \A f \in Fields : reg[f] \in held[f]

ReadSoFarHeld ==
    Refreshing => \A f \in resolved \ todo[Poller] : cache[f] \in Readings(f)

ReadInv == HeldIsCurrent /\ ReadSoFarHeld

LEMMA StoreHolds ==
    ASSUME CoordinatorTypeOK, HeldIsCurrent, NEW f \in Fields, NEW v, Store(f, v)
    PROVE  HeldIsCurrent' /\ \A g \in Fields : held[g] \subseteq held'[g]
  BY DEF Store, HeldIsCurrent, CoordinatorTypeOK

(* A step that begins no refresh and reads nothing keeps what was read.      *)
LEMMA HistoryGrows ==
    ASSUME CoordinatorTypeOK, ReadInv, UNCHANGED <<deviceVars, cache>>, HeldIsCurrent',
           \A g \in Fields : held[g] \subseteq held'[g]
    PROVE  ReadInv'
  BY DEF deviceVars, ReadInv, ReadSoFarHeld, Readings, Refreshing, CoordinatorTypeOK, TypeOK

LEMMA DeliverHolds ==
    ASSUME CoordinatorTypeOK, HeldIsCurrent, NEW f, f # Command => f \in Fields, NEW v,
           Deliver(f, v)
    PROVE  HeldIsCurrent' /\ \A g \in Fields : held[g] \subseteq held'[g]
  <1>1. CASE f = Command
    BY <1>1 DEF Deliver, HeldIsCurrent
  <1>2. CASE f # Command
    BY <1>2, StoreHolds DEF Deliver
  <1>3. QED
    BY <1>1, <1>2

LEMMA BeginHolds ==
    ASSUME CoordinatorTypeOK, NEW why, BeginRefresh(why), UNCHANGED reg
    PROVE  ReadInv'
  <1>1. todo'[Poller] = resolved'
    BY PollerFacts DEF BeginRefresh, StartUpdate, CoordinatorTypeOK, TypeOK
  <1>2. HeldIsCurrent'
    BY DEF BeginRefresh, HeldIsCurrent
  <1>3. QED
    BY <1>1, <1>2 DEF ReadInv, ReadSoFarHeld

(* ReadInv is inductive, given the invariants above.                         *)
LEMMA ReadInductive ==
    CoordinatorTypeOK /\ DeviceInv /\ ReadInv /\ [CoordinatorNext]_allVars => ReadInv'
  <1> SUFFICES ASSUME CoordinatorTypeOK, DeviceInv, ReadInv, [CoordinatorNext]_allVars
               PROVE  ReadInv'
    OBVIOUS
  <1>a. TypeOK /\ TodoResolved /\ HeldIsCurrent /\ ReadSoFarHeld
    BY DEF CoordinatorTypeOK, DeviceInv, ReadInv
  <1> USE PollerFacts DEF inverter, pollVars, bounds
  <1>0. ASSUME UNCHANGED <<reg, held>>, status'[Poller] # "reading" \/ todo'[Poller] = resolved'
        PROVE  ReadInv'
    BY <1>0, <1>a DEF ReadInv, HeldIsCurrent, ReadSoFarHeld, Readings, Refreshing
  <1>1. CASE PollBlock
    <2>1. PICK b \in Blocks(todo[Poller]) :
              \/ /\ ReadServed(Poller, b)
                 /\ cache' = [f \in Fields |-> IF f \in Decoded(b) THEN Decode(reg[f])
                                                           ELSE cache[f]]
              \/ ReadUnsupported(Poller, b)
      BY <1>1 DEF PollBlock
    <2>2. UNCHANGED <<reg, held>>
      BY <1>1 DEF PollBlock
    <2>3. CASE ReadUnsupported(Poller, b)
      <3>1. Refreshing /\ DropFieldsIn(Poller, b)
        BY <2>3 DEF ReadUnsupported, Refreshing
      <3>2. todo'[Poller] = resolved'
        BY <1>a, <3>1, DropNarrows DEF TypeOK
      <3>3. QED
        BY <1>0, <2>2, <3>2
    <2>4. CASE /\ ReadServed(Poller, b)
               /\ cache' = [f \in Fields |-> IF f \in Decoded(b) THEN Decode(reg[f])
                                                           ELSE cache[f]]
      <3> SUFFICES ASSUME NEW f \in resolved, f \notin todo'[Poller]
                   PROVE  cache'[f] \in Readings(f)
        BY <1>a, <2>2, <2>4 DEF ReadInv, HeldIsCurrent, ReadSoFarHeld, Readings, ReadServed
      <3>1. f \in Fields /\ Refreshing
        BY <1>a, <2>4 DEF TypeOK, ReadServed, Refreshing
      <3>2. CASE f \in todo[Poller]
        <4>1. f \in Decoded(b)
          BY <1>a, <2>4, <3>2 DEF ReadServed, Decoded, TypeOK
        <4>2. QED
          BY <1>a, <2>4, <3>1, <4>1 DEF HeldIsCurrent, Readings
      <3>3. CASE f \notin todo[Poller]
        BY <1>a, <2>4, <3>1, <3>3 DEF Decoded, ReadSoFarHeld
      <3>4. QED
        BY <3>2, <3>3
    <2>5. QED
      BY <2>1, <2>3, <2>4
  <1>2. CASE RefusedInPassing
    <2>1. PICK b \in Blocks(todo[Poller]) : DropFieldsIn(Poller, b)
      BY <1>2 DEF RefusedInPassing
    <2>2. todo'[Poller] = resolved'
      BY <1>2, <1>a, <2>1, DropNarrows DEF RefusedInPassing, TypeOK
    <2>3. QED
      BY <1>0, <1>2, <2>2 DEF RefusedInPassing
  <1>3. CASE PollSucceeds
    BY <1>0, <1>3, <1>a DEF PollSucceeds, FinishUpdate, TypeOK
  <1>4. CASE PollFails
    <2>1. status'[Poller] # "reading"
      BY <1>4, <1>a DEF PollFails, LinkError, ReadUnnamed, TypeOK
    <2>2. QED
      BY <1>0, <1>4, <2>1 DEF PollFails
  <1>5. CASE ScheduledRefresh
    BY <1>5, BeginHolds DEF ScheduledRefresh
  <1>6. CASE CooldownEnds
    <2>1. CASE again
      BY <1>6, <2>1, BeginHolds DEF CooldownEnds
    <2>2. CASE ~again
      BY <1>6, <1>a, <2>2, HistoryGrows DEF CooldownEnds, HeldIsCurrent
    <2>3. QED
      BY <2>1, <2>2
  <1>7. CASE Obey
    BY <1>7, <1>a, ValueFacts, StoreHolds, HistoryGrows DEF Obey
  <1>8. CASE SetUpEntry
    <2>1. HeldIsCurrent'
      BY <1>8 DEF SetUpEntry, HeldIsCurrent
    <2>2. todo'[Poller] = resolved'
      BY <1>8 DEF SetUpEntry, FreshDevice
    <2>3. QED
      BY <2>1, <2>2 DEF ReadInv, ReadSoFarHeld
  <1>9. CASE ClaimFails
    BY <1>9, <1>a, HistoryGrows DEF ClaimFails, HeldIsCurrent
  <1>10. CASE UnloadEntry
    BY <1>0, <1>10 DEF UnloadEntry
  <1>11. ASSUME NEW u \in Users, WriteEnds(u)
         PROVE  ReadInv'
    <2>1. call[u].field # Command => call[u].field \in Fields
      BY <1>11, WritingFacts DEF WriteEnds
    <2>2. HeldIsCurrent' /\ \A g \in Fields : held[g] \subseteq held'[g]
      BY <1>11, <1>a, <2>1, DeliverHolds DEF WriteEnds, HeldIsCurrent
    <2>3. QED
      BY <1>11, <2>2, HistoryGrows DEF WriteEnds
  <1>12. ASSUME NEW u \in Users, RequestRefresh(u)
         PROVE  ReadInv'
    <2>1. CASE ~call[u].orphan /\ ~cooldown /\ ~Refreshing
      BY <1>12, <2>1, BeginHolds DEF RequestRefresh
    <2>2. CASE ~(~call[u].orphan /\ ~cooldown /\ ~Refreshing)
      BY <1>12, <1>a, <2>2, HistoryGrows DEF RequestRefresh, HeldIsCurrent
    <2>3. QED
      BY <2>1, <2>2
  <1>13. ASSUME NEW u \in Users, AbandonedReturns(u)
         PROVE  ReadInv'
    BY <1>13, <1>a, HistoryGrows DEF AbandonedReturns, HeldIsCurrent
  <1>14. ASSUME NEW u \in Users, NEW f, NEW v \in Documented, SendWrite(u, f, v)
         PROVE  ReadInv'
    BY <1>14, <1>a, HistoryGrows DEF SendWrite, HeldIsCurrent
  <1>15. ASSUME NEW f \in Fields, NEW v \in Values, PanelChange(f, v)
         PROVE  ReadInv'
    BY <1>15, <1>a, StoreHolds, HistoryGrows DEF PanelChange
  <1>16. CASE UNCHANGED allVars
    BY <1>16, <1>a, HistoryGrows DEF allVars, HeldIsCurrent
  <1>17. QED
    BY <1>1, <1>2, <1>3, <1>4, <1>5, <1>6, <1>7, <1>8, <1>9, <1>10, <1>11, <1>12, <1>13,
       <1>14, <1>15, <1>16 DEF CoordinatorNext, Poll, CallStep, Press

LEMMA ReadInvariant == CoordinatorSpec => [](CoordinatorTypeOK /\ DeviceInv /\ ReadInv)
  <1>1. CoordinatorInit => ReadInv
    BY PollerFacts
       DEF CoordinatorInit, Init, ReadInv, HeldIsCurrent, ReadSoFarHeld, Refreshing
  <1>2. QED
    BY <1>1, DeviceInvariant, ReadInductive, PTL DEF CoordinatorSpec

(* The entities change only when a refresh ends or the entry is unloaded.    *)
EntitiesAreUnavailable == shown' = [f \in Fields |-> "unavailable"]

LEMMA ShownSteps ==
    [CoordinatorNext]_allVars =>
        UpdateSucceeds \/ EntitiesAreUnavailable \/ UNCHANGED shown
  <1> SUFFICES ASSUME [CoordinatorNext]_allVars
               PROVE  UpdateSucceeds \/ EntitiesAreUnavailable \/ UNCHANGED shown
    OBVIOUS
  <1>1. CASE Poll
    BY <1>1 DEF Poll, PollBlock, PollSucceeds, PollFails, UpdateSucceeds,
                EntitiesAreUnavailable
  <1>2. CASE RefusedInPassing \/ ScheduledRefresh \/ CooldownEnds \/ Obey
    BY <1>2 DEF RefusedInPassing, ScheduledRefresh, CooldownEnds, Obey
  <1>3. CASE SetUpEntry \/ ClaimFails \/ UnloadEntry
    BY <1>3 DEF SetUpEntry, ClaimFails, UnloadEntry, EntitiesAreUnavailable
  <1>4. ASSUME NEW u \in Users, CallStep(u)
        PROVE  UNCHANGED shown
    BY <1>4 DEF CallStep, WriteEnds, RequestRefresh, AbandonedReturns
  <1>5. ASSUME NEW u \in Users, NEW f, NEW v \in Documented, SendWrite(u, f, v)
        PROVE  UNCHANGED shown
    BY <1>5 DEF SendWrite
  <1>6. ASSUME NEW f \in Fields, NEW v \in Values, PanelChange(f, v)
        PROVE  UNCHANGED shown
    BY <1>6 DEF PanelChange
  <1>7. CASE UNCHANGED allVars
    BY <1>7 DEF allVars
  <1>8. QED
    BY <1>1, <1>2, <1>3, <1>4, <1>5, <1>6, <1>7 DEF CoordinatorNext, Press

(* When a refresh ends, the attribute of every field that is left is decoded *)
(* from a value that was in the inverter since the refresh began.            *)
LEMMA AttributesAreHeld ==
    ASSUME CoordinatorTypeOK, ReadInv, FinishUpdate(Poller), NEW f \in resolved
    PROVE  /\ Attribute(f) = cache[f] /\ cache[f] \in Readings(f)
           /\ cache[f] \in Values \cup {"unknown"}
  <1>1. f \in Fields
    BY DEF CoordinatorTypeOK, TypeOK
  <1>2. cache[f] \in Readings(f)
    BY DEF ReadInv, ReadSoFarHeld, Refreshing, FinishUpdate
  <1>3. QED
    BY <1>1, <1>2 DEF Attribute, CoordinatorTypeOK

(* No failed poll, dropped field, reload or write under way ever brings back *)
(* a value that the inverter had given up before the refresh began, and no   *)
(* polled field turns unknown but for a value without a meaning.             *)
(* (coordinator.py:43-50, entity.py:55-58, __init__.py:55-59)                *)
THEOREM ShownStaysRecent == CoordinatorSpec => ShownIsRecent
  <1> DEFINE Recent == \A f \in Fields :
                          shown'[f] \notin {shown[f], "unavailable"} =>
                              IF f \in resolved' THEN \E v \in held[f] : shown'[f] = Decode(v)
                                                  ELSE shown'[f] = "unknown"
  <1>1. CoordinatorTypeOK /\ DeviceInv /\ ReadInv /\ [CoordinatorNext]_allVars
          => [Recent]_allVars
    <2> SUFFICES ASSUME CoordinatorTypeOK, ReadInv, [CoordinatorNext]_allVars,
                        NEW f \in Fields,
                        shown'[f] # shown[f], shown'[f] # "unavailable"
                 PROVE  IF f \in resolved' THEN \E v \in held[f] : shown'[f] = Decode(v)
                                            ELSE shown'[f] = "unknown"
      OBVIOUS
    <2>1. CASE UpdateSucceeds
      <3>1. shown'[f] = Attribute(f) /\ FinishUpdate(Poller) /\ resolved' = resolved
        BY <2>1 DEF UpdateSucceeds, FinishUpdate
      <3>2. CASE f \in resolved
        <4>1. shown'[f] \in Readings(f)
          BY <3>1, <3>2, AttributesAreHeld
        <4>2. QED
          BY <3>1, <3>2, <4>1 DEF Readings
      <3>3. CASE f \notin resolved
        BY <3>1, <3>3 DEF Attribute
      <3>4. QED
        BY <3>2, <3>3
    <2>2. CASE EntitiesAreUnavailable
      BY <2>2 DEF EntitiesAreUnavailable
    <2>3. QED
      BY <2>1, <2>2, ShownSteps
  <1>2. QED
    BY <1>1, ReadInvariant, PTL DEF CoordinatorSpec, ShownIsRecent

-----------------------------------------------------------------------------
(* Between two refreshes *)

(* What the entities show is of the last refresh, and another is scheduled.  *)
RestInv ==
    entry = "loaded" /\ ~Refreshing =>
        /\ armed
        /\ \A f \in resolved : IF success THEN shown[f] \in Readings(f)
                                         ELSE shown[f] = "unavailable"

(* A step that leaves entry, device and entities alone keeps it.             *)
LEMMA RestGoesOn ==
    ASSUME CoordinatorTypeOK, RestInv, UNCHANGED <<resolved, status, shown, entry>>,
           UNCHANGED <<success, armed>>, \A f \in Fields : held[f] \subseteq held'[f]
    PROVE  RestInv'
  BY DEF RestInv, Readings, Refreshing, CoordinatorTypeOK, TypeOK

LEMMA RestInductive ==
    CoordinatorTypeOK /\ DeviceInv /\ ReadInv /\ RestInv /\ [CoordinatorNext]_allVars
        => RestInv'
  <1> SUFFICES ASSUME CoordinatorTypeOK, DeviceInv, ReadInv, RestInv,
                      [CoordinatorNext]_allVars
               PROVE  RestInv'
    OBVIOUS
  <1>a. TypeOK /\ TodoResolved /\ HeldIsCurrent
    BY DEF CoordinatorTypeOK, DeviceInv, ReadInv
  <1> USE PollerFacts DEF inverter, deviceVars, pollVars
  <1>0. ASSUME Refreshing' \/ entry' # "loaded"
        PROVE  RestInv'
    BY <1>0 DEF RestInv
  <1>1. CASE PollBlock
    <2>1. Refreshing'
      BY <1>1 DEF PollBlock, ReadServed, Refreshing
    <2>2. QED
      BY <1>0, <2>1
  <1>2. CASE RefusedInPassing
    <2>1. Refreshing'
      BY <1>2, <1>a, DropNarrows DEF RefusedInPassing, Refreshing
    <2>2. QED
      BY <1>0, <2>1
  <1>3. CASE PollSucceeds
    <2>1. armed' /\ success' /\ FinishUpdate(Poller) /\ UNCHANGED <<resolved, held>>
      BY <1>3 DEF PollSucceeds, EndRefresh, FinishUpdate
    <2>2. \A f \in resolved : shown'[f] = Attribute(f)
      BY <1>3, <1>a DEF PollSucceeds, TypeOK
    <2>3. \A f \in resolved : shown'[f] \in Readings(f)
      BY <2>1, <2>2, AttributesAreHeld
    <2>4. QED
      BY <2>1, <2>3 DEF RestInv, Readings
  <1>4. CASE PollFails
    <2>1. CASE entry' = "loaded"
      <3>1. armed' /\ success' = FALSE /\ shown' = [f \in Fields |-> "unavailable"]
        BY <1>4, <2>1 DEF PollFails, EndRefresh
      <3>2. resolved' \in SUBSET Fields
        BY CoordinatorTypeInductive DEF CoordinatorTypeOK, TypeOK
      <3>3. QED
        BY <3>1, <3>2 DEF RestInv
    <2>2. QED
      BY <1>0, <2>1
  <1>5. ASSUME NEW why, BeginRefresh(why)
        PROVE  RestInv'
    <2>1. Refreshing'
      BY <1>5, <1>a DEF BeginRefresh, StartUpdate, Refreshing, TypeOK
    <2>2. QED
      BY <1>0, <2>1
  <1>6. CASE ScheduledRefresh
    BY <1>5, <1>6 DEF ScheduledRefresh
  <1>7. CASE CooldownEnds
    BY <1>5, <1>7, RestGoesOn DEF CooldownEnds
  <1>8. CASE Obey
    BY <1>8, <1>a, ValueFacts, StoreHolds, RestGoesOn DEF Obey
  <1>9. CASE SetUpEntry \/ ClaimFails \/ UnloadEntry
    BY <1>0, <1>9 DEF SetUpEntry, ClaimFails, UnloadEntry
  <1>10. ASSUME NEW u \in Users, WriteEnds(u)
         PROVE  RestInv'
    <2>1. call[u].field # Command => call[u].field \in Fields
      BY <1>10, WritingFacts DEF WriteEnds
    <2>2. \A f \in Fields : held[f] \subseteq held'[f]
      BY <1>10, <1>a, <2>1, DeliverHolds DEF WriteEnds
    <2>3. QED
      BY <1>10, <2>2, RestGoesOn DEF WriteEnds
  <1>11. ASSUME NEW u \in Users, RequestRefresh(u)
         PROVE  RestInv'
    BY <1>5, <1>11, RestGoesOn DEF RequestRefresh
  <1>12. ASSUME NEW u \in Users, AbandonedReturns(u)
         PROVE  RestInv'
    BY <1>12, RestGoesOn DEF AbandonedReturns
  <1>13. ASSUME NEW u \in Users, NEW f, NEW v \in Documented, SendWrite(u, f, v)
         PROVE  RestInv'
    BY <1>13, RestGoesOn DEF SendWrite
  <1>14. ASSUME NEW f \in Fields, NEW v \in Values, PanelChange(f, v)
         PROVE  RestInv'
    BY <1>14, <1>a, StoreHolds, RestGoesOn DEF PanelChange
  <1>15. CASE UNCHANGED allVars
    BY <1>15, RestGoesOn DEF allVars
  <1>16. QED
    BY <1>1, <1>2, <1>3, <1>4, <1>6, <1>7, <1>8, <1>9, <1>10, <1>11, <1>12, <1>13, <1>14,
       <1>15 DEF CoordinatorNext, Poll, CallStep, Press

LEMMA RestInvariant == CoordinatorSpec => [](CoordinatorTypeOK /\ RestInv)
  <1>1. CoordinatorInit => RestInv
    BY DEF CoordinatorInit, RestInv
  <1>2. QED
    BY <1>1, ReadInvariant, RestInductive, PTL DEF CoordinatorSpec

(* A value that differs from the registers between two refreshes is older    *)
(* than a change since the last one began, never older than that refresh;    *)
(* after a failed one there is none; and nothing leaves a loaded entry       *)
(* without a refresh in flight or scheduled.  (coordinator.py:34-50)         *)
THEOREM StaleStaysTemporary == CoordinatorSpec => []StaleIsTemporary
  <1>1. RestInv => StaleIsTemporary
    BY DEF RestInv, StaleIsTemporary, Readings
  <1>2. QED
    BY <1>1, RestInvariant, PTL

-----------------------------------------------------------------------------
(* Outages *)

(* A step that begins a refresh, or leaves entry and device alone, makes no  *)
(* outage.                                                                   *)
LEMMA NoOutage ==
    ASSUME CoordinatorTypeOK, [CoordinatorNext]_allVars, MissingIsNoOutage,
           UNCHANGED <<entry, success, faults>>,
           status' = status \/ status'[Poller] = "reading"
    PROVE  MissingIsNoOutage'
  BY DEF MissingIsNoOutage, Refreshing

LEMMA OutageInductive ==
    CoordinatorTypeOK /\ DeviceInv /\ MissingIsNoOutage /\ [CoordinatorNext]_allVars
        => MissingIsNoOutage'
  <1> SUFFICES ASSUME CoordinatorTypeOK, DeviceInv, MissingIsNoOutage,
                      [CoordinatorNext]_allVars
               PROVE  MissingIsNoOutage'
    OBVIOUS
  <1>a. TypeOK /\ TodoResolved /\ faults \in Nat
    BY CoordinatorAssumption DEF CoordinatorTypeOK, DeviceInv
  <1> USE PollerFacts DEF deviceVars, pollVars, bounds
  <1>0. ASSUME NEW why, BeginRefresh(why), UNCHANGED <<entry, faults>>
        PROVE  MissingIsNoOutage'
    <2>1. status'[Poller] = "reading" /\ UNCHANGED success
      BY <1>0, <1>a DEF BeginRefresh, StartUpdate, TypeOK
    <2>2. QED
      BY <1>0, <2>1, NoOutage
  <1>1. CASE PollBlock
    <2>1. status' = status \/ status'[Poller] = "reading"
      BY <1>1 DEF PollBlock, ReadServed
    <2>2. QED
      BY <1>1, <2>1, NoOutage DEF PollBlock
  <1>2. CASE RefusedInPassing
    <2>1. status' = status
      BY <1>2, <1>a, DropNarrows DEF RefusedInPassing
    <2>2. QED
      BY <1>2, <2>1, NoOutage DEF RefusedInPassing
  <1>3. CASE PollSucceeds
    BY <1>3 DEF PollSucceeds, MissingIsNoOutage
  <1>4. CASE PollFails
    <2>1. CASE \E b \in Blocks(todo[Poller]) : ReadUnsupported(Poller, b)
                                             /\ status'[Poller] # "reading"
      <3>1. Refreshing /\ UNCHANGED status
        BY <1>a, <2>1, DropNarrows DEF ReadUnsupported, Refreshing
      <3>2. QED
        BY <2>1, <3>1 DEF Refreshing
    <2>2. CASE faults' = faults + 1
      BY <1>a, <2>2 DEF MissingIsNoOutage
    <2>3. QED
      BY <1>4, <2>1, <2>2 DEF PollFails
  <1>5. CASE ScheduledRefresh
    BY <1>0, <1>5 DEF ScheduledRefresh
  <1>6. CASE CooldownEnds
    BY <1>0, <1>6, NoOutage DEF CooldownEnds
  <1>7. CASE Obey
    BY <1>7, NoOutage DEF Obey
  <1>8. CASE SetUpEntry
    BY <1>8 DEF SetUpEntry, MissingIsNoOutage, Refreshing
  <1>9. CASE ClaimFails
    BY <1>9, <1>a DEF ClaimFails, MissingIsNoOutage
  <1>10. CASE UnloadEntry
    BY <1>10 DEF UnloadEntry, MissingIsNoOutage
  <1>11. ASSUME NEW u \in Users, WriteEnds(u)
         PROVE  MissingIsNoOutage'
    <2>1. CASE faults' = faults + 1
      BY <1>a, <2>1 DEF MissingIsNoOutage
    <2>2. CASE UNCHANGED faults
      BY <1>11, <2>2, NoOutage DEF WriteEnds
    <2>3. QED
      BY <1>11, <2>1, <2>2 DEF WriteEnds
  <1>12. ASSUME NEW u \in Users, RequestRefresh(u)
         PROVE  MissingIsNoOutage'
    BY <1>0, <1>12, NoOutage DEF RequestRefresh
  <1>13. ASSUME NEW u \in Users, AbandonedReturns(u)
         PROVE  MissingIsNoOutage'
    BY <1>13, NoOutage DEF AbandonedReturns
  <1>14. ASSUME NEW u \in Users, NEW f, NEW v \in Documented, SendWrite(u, f, v)
         PROVE  MissingIsNoOutage'
    BY <1>14, NoOutage DEF SendWrite
  <1>15. ASSUME NEW f \in Fields, NEW v \in Values, PanelChange(f, v)
         PROVE  MissingIsNoOutage'
    BY <1>15, NoOutage DEF PanelChange
  <1>16. CASE UNCHANGED allVars
    BY <1>16, NoOutage DEF allVars
  <1>17. QED
    BY <1>1, <1>2, <1>3, <1>4, <1>5, <1>6, <1>7, <1>8, <1>9, <1>10, <1>11, <1>12, <1>13,
       <1>14, <1>15, <1>16 DEF CoordinatorNext, Poll, CallStep, Press

(* As long as the link is sound, no missing register and no refusal in       *)
(* passing makes the setup be retried or an update of a loaded entry fail.   *)
(* (sungrow.py:79-84, coordinator.py:45-49)                                  *)
THEOREM MissingMakesNoOutage == CoordinatorSpec => []MissingIsNoOutage
  <1>1. CoordinatorInit => MissingIsNoOutage
    BY DEF CoordinatorInit, MissingIsNoOutage
  <1>2. QED
    BY <1>1, DeviceInvariant, OutageInductive, PTL DEF CoordinatorSpec

-----------------------------------------------------------------------------
(* Refinement of InverterView *)

(* A service call keeps its place in the entry that it was made for.         *)
CallsAreOfEntry ==
    \A u \in Users : call[u].step \in {"writing", "written"} /\ ~call[u].orphan
                       => entry = "loaded"

(* A call is resumed by the end of the refresh that it awaits.               *)
WaitingReads == Waiting # {} => Refreshing /\ entry = "loaded"

(* What a step can do to the service calls of an entry.                      *)
LEMMA CallsInductive ==
    CoordinatorTypeOK /\ CallsAreOfEntry /\ [CoordinatorNext]_allVars => CallsAreOfEntry'
  <1> SUFFICES ASSUME CoordinatorTypeOK, CallsAreOfEntry, [CoordinatorNext]_allVars
               PROVE  CallsAreOfEntry'
    OBVIOUS
  <1>0. ASSUME UNCHANGED call, entry' = entry \/ entry' = "loaded" \/ entry # "loaded"
        PROVE  CallsAreOfEntry'
    BY <1>0 DEF CallsAreOfEntry
  <1>1. CASE PollBlock \/ RefusedInPassing \/ ScheduledRefresh \/ CooldownEnds \/ Obey
    BY <1>0, <1>1 DEF PollBlock, RefusedInPassing, ScheduledRefresh, CooldownEnds, Obey
  <1>2. CASE PollSucceeds
    BY <1>2 DEF PollSucceeds, CallsAreOfEntry
  <1>3. CASE PollFails
    <2>1. entry' = entry
      BY <1>3 DEF PollFails, EntryAfterFailure
    <2>2. CASE EndRefresh
      BY <2>1, <2>2 DEF EndRefresh, CallsAreOfEntry, Idle
    <2>3. CASE UNCHANGED call
      BY <1>0, <2>1, <2>3
    <2>4. QED
      BY <1>3, <2>2, <2>3 DEF PollFails
  <1>4. CASE SetUpEntry \/ ClaimFails
    BY <1>0, <1>4 DEF SetUpEntry, ClaimFails
  <1>5. CASE UnloadEntry
    <2> SUFFICES ASSUME NEW u \in Users, call'[u].step \in {"writing", "written"}
                 PROVE  call'[u].orphan
      BY DEF CallsAreOfEntry
    <2>1. call'[u] = Detached(call[u])
      BY <1>5 DEF UnloadEntry
    <2>2. CASE call[u].step \in {"writing", "written"}
      <3>1. call[u] \in [step: {"writing", "written"}, field: Settings \cup {Command},
                         value: Documented, orphan: BOOLEAN]
        BY <2>2, WritingFacts
      <3>2. QED
        BY <2>1, <2>2, <3>1 DEF Detached
    <2>3. CASE call[u].step \notin {"writing", "written"}
      BY <2>1, <2>3 DEF Detached
    <2>4. QED
      BY <2>2, <2>3
  <1>6. ASSUME NEW u \in Users, WriteEnds(u)
        PROVE  CallsAreOfEntry'
    <2>1. call[u] \in [step: {"writing", "written"}, field: Settings \cup {Command},
                       value: Documented, orphan: BOOLEAN]
      BY <1>6, WritingFacts DEF WriteEnds
    <2>2. UNCHANGED entry /\ call[u].step = "writing"
      BY <1>6 DEF WriteEnds
    <2>3. CASE call' = [call EXCEPT ![u].step = "written"]
      BY <2>1, <2>2, <2>3 DEF CallsAreOfEntry, CoordinatorTypeOK
    <2>4. CASE call' = [call EXCEPT ![u] = Idle]
      BY <2>2, <2>4 DEF CallsAreOfEntry, CoordinatorTypeOK, Idle
    <2>5. QED
      BY <1>6, <2>3, <2>4 DEF WriteEnds
  <1>7. ASSUME NEW u \in Users, RequestRefresh(u) \/ AbandonedReturns(u)
        PROVE  CallsAreOfEntry'
    <2>1. UNCHANGED entry /\ \E c \in {Idle, [step |-> "refreshing"]} : call' = [call EXCEPT ![u] = c]
      BY <1>7 DEF RequestRefresh, AbandonedReturns
    <2>2. QED
      BY <2>1 DEF CallsAreOfEntry, CoordinatorTypeOK, Idle
  <1>8. ASSUME NEW u \in Users, NEW f, NEW v \in Documented, SendWrite(u, f, v)
        PROVE  CallsAreOfEntry'
    BY <1>8 DEF SendWrite, CallsAreOfEntry
  <1>9. ASSUME NEW f \in Fields, NEW v \in Values, PanelChange(f, v)
        PROVE  CallsAreOfEntry'
    BY <1>0, <1>9 DEF PanelChange
  <1>10. CASE UNCHANGED allVars
    BY <1>0, <1>10 DEF allVars
  <1>11. QED
    BY <1>1, <1>2, <1>3, <1>4, <1>5, <1>6, <1>7, <1>8, <1>9, <1>10
       DEF CoordinatorNext, Poll, CallStep, Press

(* A refresh begins, for nobody or for one call.                             *)
LEMMA BeginIsRefresh ==
    ASSUME CoordinatorTypeOK, WaitingReads, entry = "loaded", NEW why, BeginRefresh(why),
           UNCHANGED <<reg, shown, entry>>,
           UNCHANGED call \/ \E u \in Users :
                               call' = [call EXCEPT ![u] = [step |-> "refreshing"]]
    PROVE  View!Refresh
  <1>1. View!Read
    BY PollerFacts DEF BeginRefresh, StartUpdate, Refreshing, CoordinatorTypeOK, TypeOK,
                       View!Read
  <1>2. Waiting = {}
    BY DEF WaitingReads, BeginRefresh
  <1>3. Waiting' = {} \/ \E u \in Users : Waiting' = {u}
    <2>1. CASE UNCHANGED call
      BY <1>2, <2>1 DEF Waiting
    <2>2. ASSUME NEW u \in Users, call' = [call EXCEPT ![u] = [step |-> "refreshing"]]
          PROVE  Waiting' = {u}
      BY <1>2, <2>2 DEF Waiting, CoordinatorTypeOK
    <2>3. QED
      BY <2>1, <2>2
  <1>4. UNCHANGED <<resolved, entry>>
    BY DEF BeginRefresh, StartUpdate
  <1>5. QED
    BY <1>1, <1>2, <1>3, <1>4 DEF View!Refresh

(* A component that is narrowed is a field or more given up.                 *)
LEMMA NarrowingIsGivingUp ==
    ASSUME TypeOK, TodoResolved, Refreshing, NEW b \in Blocks(todo[Poller]),
           DropFieldsIn(Poller, b), UNCHANGED <<reg, held, call, entry, shown>>
    PROVE  View!GiveUp
  <1>1. resolved' \subseteq resolved /\ UNCHANGED status
    BY DropNarrows
  <1>2. QED
    BY <1>1 DEF View!GiveUp, Refreshing, Waiting

LEMMA EndResumes == EndRefresh => Waiting' = {}
  BY DEF EndRefresh, Waiting, Idle

(* A value that is stored is a change.                                       *)
LEMMA StoreIsChange ==
    ASSUME NEW f \in Fields, NEW v \in Values, Store(f, v),
           UNCHANGED <<resolved, Refreshing, Waiting, entry, shown>>
    PROVE  View!Next
  <1>1. View!Change(f, v)
    BY DEF Store, View!Change
  <1>2. QED
    BY <1>1 DEF View!Next

(* Every step of the coordinator is a step that the user is promised, or     *)
(* nothing to him.                                                           *)
LEMMA ViewSteps ==
    CoordinatorTypeOK /\ DeviceInv /\ ReadInv /\ CallsAreOfEntry /\ WaitingReads
            /\ [CoordinatorNext]_allVars
        => [View!Next]_(View!vars)
  <1> SUFFICES ASSUME CoordinatorTypeOK, DeviceInv, ReadInv, CallsAreOfEntry, WaitingReads,
                      [CoordinatorNext]_allVars
               PROVE  [View!Next]_(View!vars)
    OBVIOUS
  <1>a. TypeOK /\ TodoResolved
    BY DEF CoordinatorTypeOK, DeviceInv
  <1> USE PollerFacts DEF inverter, deviceVars
  <1>0. ASSUME UNCHANGED <<reg, held, resolved, status, call, entry, shown>>
        PROVE  UNCHANGED View!vars
    BY <1>0 DEF View!vars, Refreshing, Waiting
  <1>1. CASE PollBlock
    <2>1. PICK b \in Blocks(todo[Poller]) :
              ReadServed(Poller, b) \/ ReadUnsupported(Poller, b)
      BY <1>1 DEF PollBlock
    <2>2. UNCHANGED <<reg, held, call, entry, shown>>
      BY <1>1 DEF PollBlock
    <2>3. CASE ReadServed(Poller, b)
      BY <1>0, <2>2, <2>3 DEF ReadServed
    <2>4. CASE ReadUnsupported(Poller, b)
      <3>1. Refreshing /\ DropFieldsIn(Poller, b)
        BY <2>4 DEF ReadUnsupported, Refreshing
      <3>2. View!GiveUp
        BY <1>a, <2>2, <3>1, NarrowingIsGivingUp
      <3>3. QED
        BY <3>2 DEF View!Next
    <2>5. QED
      BY <2>1, <2>3, <2>4
  <1>2. CASE RefusedInPassing
    <2>1. View!GiveUp
      BY <1>2, <1>a, NarrowingIsGivingUp DEF RefusedInPassing
    <2>2. QED
      BY <2>1 DEF View!Next
  <1>3. CASE PollSucceeds
    <2>1. Refreshing /\ ~Refreshing'
      BY <1>3, <1>a DEF PollSucceeds, FinishUpdate, Refreshing, TypeOK
    <2>2. ASSUME NEW f \in Fields
          PROVE  /\ IF f \in resolved THEN \E v \in held[f] : shown'[f] = View!Meaning(v)
                                      ELSE shown'[f] = "unknown"
                 /\ shown'[f] \in Values \cup {"unknown"}
      <3>1. shown'[f] = Attribute(f) /\ FinishUpdate(Poller)
        BY <1>3 DEF PollSucceeds
      <3>2. CASE f \in resolved
        <4>1. shown'[f] \in Readings(f) /\ shown'[f] \in Values \cup {"unknown"}
          BY <3>1, <3>2, AttributesAreHeld
        <4>2. QED
          BY <3>2, <4>1 DEF Readings, Decode, View!Meaning
      <3>3. CASE f \notin resolved
        BY <3>1, <3>3 DEF Attribute
      <3>4. QED
        BY <3>2, <3>3
    <2>3. shown' \in [Fields -> Values \cup {"unknown"}]
      BY <1>3, <2>2 DEF PollSucceeds
    <2>4. Waiting' = {}
      BY <1>3, EndResumes DEF PollSucceeds
    <2>5. entry' = "loaded" /\ UNCHANGED <<reg, held, resolved>>
      BY <1>3 DEF PollSucceeds, FinishUpdate
    <2>6. View!Show
      BY <2>1, <2>2, <2>3, <2>4, <2>5 DEF View!Show
    <2>7. QED
      BY <2>6 DEF View!Next
  <1>4. CASE PollFails
    <2>1. Refreshing /\ ~Refreshing' /\ UNCHANGED resolved
      <3>1. CASE LinkError(Poller) \/ \E b \in Blocks(todo[Poller]) : ReadUnnamed(Poller, b)
        BY <1>a, <3>1 DEF LinkError, ReadUnnamed, Refreshing, TypeOK
      <3>2. CASE \E b \in Blocks(todo[Poller]) : ReadUnsupported(Poller, b)
                                               /\ status'[Poller] # "reading"
        <4>1. Refreshing /\ UNCHANGED status
          BY <1>a, <3>2, DropNarrows DEF ReadUnsupported, Refreshing
        <4>2. QED
          BY <3>2, <4>1 DEF Refreshing
      <3>3. QED
        BY <1>4, <3>1, <3>2 DEF PollFails
    <2>2. UNCHANGED <<reg, held, entry>>
      BY <1>4 DEF PollFails, EntryAfterFailure
    <2>3. CASE entry = "loaded"
      <3>1. EndRefresh /\ shown' = [f \in Fields |-> "unavailable"]
        BY <1>4, <2>2, <2>3 DEF PollFails
      <3>2. View!Fail
        BY <2>1, <2>2, <2>3, <3>1, EndResumes DEF View!Fail, View!Unavailable
      <3>3. QED
        BY <3>2 DEF View!Next
    <2>4. CASE entry # "loaded"
      <3>1. UNCHANGED <<shown, call>>
        BY <1>4, <2>2, <2>4 DEF PollFails
      <3>2. Waiting' = {}
        BY <2>4, <3>1 DEF WaitingReads, Waiting
      <3>3. View!Fail
        BY <2>1, <2>2, <2>4, <3>1, <3>2 DEF View!Fail
      <3>4. QED
        BY <3>3 DEF View!Next
    <2>5. QED
      BY <2>3, <2>4
  <1>5. CASE ScheduledRefresh
    BY <1>5, BeginIsRefresh DEF ScheduledRefresh, View!Next
  <1>6. CASE CooldownEnds
    <2>1. CASE again
      BY <1>6, <2>1, BeginIsRefresh DEF CooldownEnds, View!Next
    <2>2. CASE ~again
      BY <1>0, <1>6, <2>2 DEF CooldownEnds
    <2>3. QED
      BY <2>1, <2>2
  <1>7. CASE Obey
    <2>1. command \in Values
      BY <1>7, ValueFacts DEF Obey, CoordinatorTypeOK
    <2>2. UNCHANGED <<resolved, Refreshing, Waiting, entry, shown>>
      BY <1>7 DEF Obey, Refreshing, Waiting
    <2>3. QED
      BY <1>7, <2>1, <2>2, ValueFacts, StoreIsChange DEF Obey
  <1>8. CASE SetUpEntry
    <2>1. ~Refreshing /\ Refreshing'
      BY <1>8 DEF SetUpEntry, Refreshing
    <2>2. View!SetUp
      BY <1>8, <2>1 DEF SetUpEntry, FreshDevice, View!SetUp, View!Read, Waiting
    <2>3. QED
      BY <2>2 DEF View!Next
  <1>9. CASE ClaimFails
    <2>1. View!Retry
      BY <1>9 DEF ClaimFails, View!Retry, Refreshing, Waiting
    <2>2. QED
      BY <2>1 DEF View!Next
  <1>10. CASE UnloadEntry
    <2>1. Waiting' = {}
      BY <1>10 DEF UnloadEntry, Waiting, Detached
    <2>2. ~Refreshing'
      BY <1>10 DEF UnloadEntry, Refreshing
    <2>3. View!Unload
      BY <1>10, <2>1, <2>2 DEF UnloadEntry, View!Unload, View!Unavailable
    <2>4. QED
      BY <2>3 DEF View!Next
  <1>11. ASSUME NEW u \in Users, WriteEnds(u)
         PROVE  [View!Next]_(View!vars)
    <2>1. /\ call[u] \in [step: {"writing", "written"}, field: Settings \cup {Command},
                          value: Documented, orphan: BOOLEAN]
          /\ call[u].value \in Values
          /\ call[u].field # Command => call[u].field \in Fields
      BY <1>11, WritingFacts, ValueFacts DEF WriteEnds
    <2>2. UNCHANGED <<resolved, status, entry, shown>>
      BY <1>11 DEF WriteEnds
    <2>3. UNCHANGED Waiting
      <3>1. call[u].step = "writing"
        BY <1>11 DEF WriteEnds
      <3>2. CASE call' = [call EXCEPT ![u].step = "written"]
        BY <2>1, <3>1, <3>2 DEF Waiting, CoordinatorTypeOK
      <3>3. CASE call' = [call EXCEPT ![u] = Idle]
        BY <3>1, <3>3 DEF Waiting, CoordinatorTypeOK, Idle
      <3>4. QED
        BY <1>11, <3>2, <3>3 DEF WriteEnds
    <2>4. CASE Deliver(call[u].field, call[u].value)
      <3>1. CASE call[u].field = Command
        BY <2>2, <2>3, <2>4, <3>1 DEF Deliver, View!vars, Refreshing
      <3>2. CASE call[u].field # Command
        BY <2>1, <2>2, <2>3, <2>4, <3>2, StoreIsChange DEF Deliver, Refreshing
      <3>3. QED
        BY <3>1, <3>2
    <2>5. CASE UNCHANGED <<inverter, held>>
      BY <2>2, <2>3, <2>5 DEF View!vars, Refreshing
    <2>6. QED
      BY <1>11, <2>4, <2>5 DEF WriteEnds
  <1>12. ASSUME NEW u \in Users, RequestRefresh(u)
         PROVE  [View!Next]_(View!vars)
    <2>1. CASE ~call[u].orphan /\ ~cooldown /\ ~Refreshing
      <3>1. entry = "loaded"
        BY <1>12, <2>1 DEF RequestRefresh, CallsAreOfEntry
      <3>2. QED
        BY <1>12, <2>1, <3>1, BeginIsRefresh DEF RequestRefresh, View!Next
    <2>2. CASE ~(~call[u].orphan /\ ~cooldown /\ ~Refreshing)
      <3>1. UNCHANGED Waiting
        BY <1>12, <2>2 DEF RequestRefresh, Waiting, CoordinatorTypeOK, Idle
      <3>2. QED
        BY <1>12, <2>2, <3>1 DEF RequestRefresh, View!vars, Refreshing
    <2>3. QED
      BY <2>1, <2>2
  <1>13. ASSUME NEW u \in Users, AbandonedReturns(u)
         PROVE  [View!Next]_(View!vars)
    <2>1. UNCHANGED Waiting
      BY <1>13 DEF AbandonedReturns, Waiting, CoordinatorTypeOK, Idle
    <2>2. QED
      BY <1>13, <2>1 DEF AbandonedReturns, View!vars, Refreshing
  <1>14. ASSUME NEW u \in Users, NEW f, NEW v \in Documented, SendWrite(u, f, v)
         PROVE  [View!Next]_(View!vars)
    <2>1. UNCHANGED Waiting
      BY <1>14 DEF SendWrite, Waiting, CoordinatorTypeOK, Idle
    <2>2. QED
      BY <1>14, <2>1 DEF SendWrite, View!vars, Refreshing
  <1>15. ASSUME NEW f \in Fields, NEW v \in Values, PanelChange(f, v)
         PROVE  [View!Next]_(View!vars)
    <2>1. UNCHANGED <<resolved, Refreshing, Waiting, entry, shown>>
      BY <1>15 DEF PanelChange, Refreshing, Waiting
    <2>2. QED
      BY <1>15, <2>1, StoreIsChange DEF PanelChange
  <1>16. CASE UNCHANGED allVars
    BY <1>0, <1>16 DEF allVars
  <1>17. QED
    BY <1>1, <1>2, <1>3, <1>4, <1>5, <1>6, <1>7, <1>8, <1>9, <1>10, <1>11, <1>12, <1>13,
       <1>14, <1>15, <1>16 DEF CoordinatorNext, Poll, CallStep, Press

(* WaitingReads speaks of the view only, and is an invariant of it.          *)
LEMMA WaitingInductive == WaitingReads /\ [View!Next]_(View!vars) => WaitingReads'
  <1> SUFFICES ASSUME WaitingReads, [View!Next]_(View!vars)
               PROVE  WaitingReads'
    OBVIOUS
  <1>1. CASE View!SetUp \/ View!Refresh
    BY <1>1 DEF View!SetUp, View!Refresh, View!Read, WaitingReads
  <1>2. CASE View!GiveUp \/ View!Retry
    BY <1>2 DEF View!GiveUp, View!Retry, WaitingReads
  <1>3. CASE View!Show \/ View!Fail \/ View!Unload
    BY <1>3 DEF View!Show, View!Fail, View!Unload, WaitingReads
  <1>4. ASSUME NEW f, NEW v, View!Change(f, v)
        PROVE  WaitingReads'
    BY <1>4 DEF View!Change, WaitingReads
  <1>5. CASE UNCHANGED View!vars
    BY <1>5 DEF View!vars, WaitingReads
  <1>6. QED
    BY <1>1, <1>2, <1>3, <1>4, <1>5 DEF View!Next

(* The integration implements the promise of InverterView: all that polls,   *)
(* drops, retries, timers, service calls, faults and reloads do to what the  *)
(* user sees is one of its few steps.  (coordinator.py:43-50,                *)
(* __init__.py:36-65, number.py:84-92)                                       *)
THEOREM ViewStaysKept == CoordinatorSpec => ViewKept
  <1> DEFINE Inv == /\ CoordinatorTypeOK /\ DeviceInv /\ ReadInv
                    /\ CallsAreOfEntry /\ WaitingReads
  <1>1. CoordinatorInit => CallsAreOfEntry /\ WaitingReads
    BY DEF CoordinatorInit, CallsAreOfEntry, WaitingReads, Waiting, Idle
  <1>2. CoordinatorInit => View!Init
    BY PollerFacts DEF CoordinatorInit, Init, View!Init, Refreshing, Waiting, Idle
  <1>3. Inv /\ [CoordinatorNext]_allVars => [View!Next]_(View!vars)
    BY ViewSteps
  <1>4. Inv /\ [CoordinatorNext]_allVars => CallsAreOfEntry' /\ WaitingReads'
    BY <1>3, CallsInductive, WaitingInductive
  <1>5. QED
    BY <1>1, <1>2, <1>3, <1>4, ReadInvariant, PTL DEF CoordinatorSpec, ViewKept, View!Safe
=============================================================================
