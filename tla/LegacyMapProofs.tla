-------------------------- MODULE LegacyMapProofs --------------------------
(***************************************************************************)
(* Proofs about LegacyMap, for every library, every legacy document and    *)
(* every set of overrides and acknowledged mismatches, and any number of   *)
(* changes and runs of the script.                                         *)
(***************************************************************************)
EXTENDS LegacyMap, FiniteSetTheorems, TLAPS

(* A version of the library declares each key once.                          *)
Declared ==
    /\ fields \subseteq DeviceFields
    /\ \A f, g \in fields : f.key = g.key => f = g

(* A map that passed is the one that the script would write now, and it was  *)
(* not refused.                                                              *)
PassedIsCurrent ==
    exit = "passed" => committed = EntityMap /\ UnitMismatches = {}

(* The inductive invariant. *)
MapInv == Declared /\ PassedIsCurrent

-----------------------------------------------------------------------------
(* Lemmas about the map *)

(* The entry of a field in the map is the set of its candidates.             *)
LEMMA MapOfField ==
    ASSUME Declared, NEW f \in Matched
    PROVE  /\ f.key \in DOMAIN EntityMap \ DOMAIN Manual
           /\ EntityMap[f.key] = Candidates(f)
  <1>1. f \in fields /\ f \in DeviceFields
    BY DEF Matched, Declared
  <1>2. f.key \notin DOMAIN Manual
    BY <1>1, LegacyMapAssumption
  <1>3. (CHOOSE g \in Matched : g.key = f.key) = f
    BY <1>1 DEF Matched, Declared
  <1>4. f.key \in DOMAIN EntityMap
    BY DEF EntityMap
  <1>5. EntityMap[f.key] = Candidates(f)
    BY <1>2, <1>3 DEF EntityMap
  <1>6. QED
    BY <1>2, <1>4, <1>5

(* A key of the map that is no override is the key of a matched field.       *)
LEMMA KeysAreMatched ==
    ASSUME NEW k \in DOMAIN EntityMap \ DOMAIN Manual
    PROVE  \E f \in Matched : f.key = k
  BY DEF EntityMap

(* Fields that match one entry are one field: they share its register.       *)
LEMMA MatchIsUnique ==
    ASSUME Declared, NEW f \in fields, NEW g \in fields, NEW e,
           Matches(f, e), Matches(g, e)
    PROVE  f.key = g.key
  BY LegacyMapAssumption DEF Declared, Matches

-----------------------------------------------------------------------------
(* The invariant *)

(* MapInv is inductive: a run that passes leaves the current map, and every  *)
(* change of the document or of the library takes the verdict back.          *)
LEMMA MapInductive == MapInv /\ [Next]_vars => MapInv'
  <1> SUFFICES ASSUME MapInv, [Next]_vars
               PROVE  MapInv'
    OBVIOUS
  <1> USE DEF MapInv
  <1>0. ASSUME UNCHANGED <<document, fields>>
        PROVE  EntityMap' = EntityMap /\ UnitMismatches' = UnitMismatches /\ Declared'
    BY <1>0 DEF EntityMap, UnitMismatches, Matched, Candidates, Declared
  <1>1. CASE Generate
    <2>1. UNCHANGED <<document, fields>>
      BY <1>1 DEF Generate
    <2>2. PassedIsCurrent'
      BY <1>0, <1>1, <2>1 DEF Generate, Refused, PassedIsCurrent
    <2>3. QED
      BY <1>0, <2>1, <2>2
  <1>2. CASE Check
    <2>1. UNCHANGED <<document, fields>>
      BY <1>2 DEF Check
    <2>2. PassedIsCurrent'
      BY <1>0, <1>2, <2>1 DEF Check, Refused, UpToDate, PassedIsCurrent
    <2>3. QED
      BY <1>0, <2>1, <2>2
  <1>3. CASE DocumentChanges
    BY <1>3 DEF DocumentChanges, Declared, PassedIsCurrent
  <1>4. CASE LibraryChanges
    <2>1. PICK f \in DeviceFields :
              fields' = IF f \in fields THEN fields \ {f}
                        ELSE {g \in fields : g.key # f.key} \cup {f}
      BY <1>4 DEF LibraryChanges
    <2>2. Declared'
      BY <2>1 DEF Declared
    <2>3. PassedIsCurrent'
      BY <1>4 DEF LibraryChanges, PassedIsCurrent
    <2>4. QED
      BY <2>2, <2>3
  <1>5. CASE UNCHANGED vars
    <2>1. UNCHANGED <<document, fields, committed, exit>>
      BY <1>5 DEF vars
    <2>2. QED
      BY <1>0, <2>1 DEF PassedIsCurrent
  <1>6. QED
    BY <1>1, <1>2, <1>3, <1>4, <1>5 DEF Next

LEMMA MapInvariant == Spec => []MapInv
  <1>1. Init => MapInv
    BY DEF Init, MapInv, Declared, PassedIsCurrent
  <1>2. QED
    BY <1>1, MapInductive, PTL DEF Spec

(* Each entry of the legacy document is given to exactly one field or        *)
(* reported as legacy only.  (generate_legacy_entity_map.py:191-222,         *)
(* :282-308)                                                                 *)
THEOREM NothingLostOrShared == Spec => []EntriesAreAccounted
  <1>1. ASSUME MapInv
        PROVE  EntriesAreAccounted
    <2> USE <1>1 DEF MapInv
    <2> SUFFICES ASSUME NEW e \in document
                 PROVE  IF e \in LegacyOnly
                        THEN \A k \in DOMAIN EntityMap \ DOMAIN Manual : e \notin EntityMap[k]
                        ELSE Cardinality({k \in DOMAIN EntityMap \ DOMAIN Manual :
                                            e \in EntityMap[k]}) = 1
      BY DEF EntriesAreAccounted
    <2>1. CASE e \in LegacyOnly
      <3> SUFFICES ASSUME NEW k \in DOMAIN EntityMap \ DOMAIN Manual
                   PROVE  e \notin EntityMap[k]
        BY <2>1
      <3>1. PICK f \in Matched : f.key = k
        BY KeysAreMatched
      <3>2. EntityMap[k] = Candidates(f)
        BY <3>1, MapOfField
      <3>3. QED
        BY <2>1, <3>2 DEF LegacyOnly, Candidates
    <2>2. CASE e \notin LegacyOnly
      <3>1. PICK f \in Matched : Matches(f, e)
        BY <2>2 DEF LegacyOnly
      <3> DEFINE Takers == {k \in DOMAIN EntityMap \ DOMAIN Manual : e \in EntityMap[k]}
      <3>2. f.key \in Takers
        BY <3>1, MapOfField DEF Candidates
      <3>3. ASSUME NEW k \in Takers
            PROVE  k = f.key
        <4>1. PICK g \in Matched : g.key = k
          BY KeysAreMatched
        <4>2. Matches(g, e)
          BY <4>1, MapOfField DEF Candidates
        <4>3. QED
          BY <3>1, <4>1, <4>2, MatchIsUnique DEF Matched
      <3>4. Takers = {f.key}
        BY <3>2, <3>3
      <3>5. QED
        BY <2>2, <3>4, FS_Singleton
    <2>3. QED
      BY <2>1, <2>2
  <1>2. QED
    BY <1>1, MapInvariant, PTL

(* A candidate of a map that passed reads the register that its field has    *)
(* now.  (generate_legacy_entity_map.py:287-302, :359-366)                   *)
THEOREM PassedMapIsCurrent == Spec => []PassedReadsTheRegister
  <1>1. ASSUME MapInv
        PROVE  PassedReadsTheRegister
    <2> USE <1>1 DEF MapInv
    <2> SUFFICES ASSUME exit = "passed", NEW f \in fields,
                        f.key \in DOMAIN EntityMap \ DOMAIN Manual,
                        NEW e \in EntityMap[f.key]
                 PROVE  SpaceOf(e) = f.space /\ e.addr = f.addr
      BY DEF PassedReadsTheRegister, PassedIsCurrent
    <2>1. f \in Matched
      BY KeysAreMatched DEF Matched, Declared
    <2>2. e \in Candidates(f)
      BY <2>1, MapOfField
    <2>3. QED
      BY <2>2 DEF Candidates, Matches
  <1>2. QED
    BY <1>1, MapInvariant, PTL

(* A legacy sensor that a field takes over alone keeps its statistics, unless *)
(* the mismatch was acknowledged.  (generate_legacy_entity_map.py:304-305,    *)
(* :349-355)                                                                  *)
THEOREM StatisticsAreKept == Spec => []PassedKeepsStatistics
  <1>1. ASSUME MapInv
        PROVE  PassedKeepsStatistics
    <2> USE <1>1 DEF MapInv
    <2> SUFFICES ASSUME exit = "passed", NEW f \in fields, NEW e \in document,
                        f.kind = "number",
                        f.key \in DOMAIN EntityMap, f.key \notin Acknowledged,
                        EntityMap[f.key] = {e}
                 PROVE  ~Mismatch(f, e)
      BY DEF PassedKeepsStatistics, PassedIsCurrent
    <2>1. f.key \notin DOMAIN Manual
      BY LegacyMapAssumption DEF Declared
    <2>2. f \in Matched
      BY <2>1, KeysAreMatched DEF Matched, Declared
    <2>3. Candidates(f) = {e}
      BY <2>2, MapOfField
    <2>4. Cardinality(Candidates(f)) = 1
      BY <2>3, FS_Singleton
    <2>5. UnitMismatches = {}
      BY DEF PassedIsCurrent
    <2>6. QED
      BY <2>2, <2>3, <2>4, <2>5 DEF UnitMismatches
  <1>2. QED
    BY <1>1, MapInvariant, PTL
=============================================================================
