-------------------------- MODULE PlatformsProofs --------------------------
(***************************************************************************)
(* Proofs about Platforms: for any number of entries, the four filters of  *)
(* the platforms give every public field of a loaded entry one entity.     *)
(***************************************************************************)
EXTENDS Platforms, FiniteSetTheorems, TLAPS

-----------------------------------------------------------------------------
(* Lemmas about the declared registers *)

(* What every declared field has in common. *)
LEMMA DeclaredFields ==
    ASSUME NEW f \in AllFields
    PROVE  /\ f.comp \in 1..9 /\ f.addr \in Nat /\ f.count \in Nat \ {0}
           /\ f.space \in {"input", "holding"}
           /\ f.space = "holding" => f.count = 1
  <1> USE DEF At
  <1>1. CASE f \in DeviceInformation
    BY <1>1 DEF DeviceInformation
  <1>2. CASE f \in PVStrings
    BY <1>2 DEF PVStrings
  <1>3. CASE f \in InverterStatus
    BY <1>3 DEF InverterStatus
  <1>4. CASE f \in BatteryTelemetry
    BY <1>4 DEF BatteryTelemetry
  <1>5. CASE f \in BatterySettings
    BY <1>5 DEF BatterySettings
  <1>6. CASE f \in GridMeter
    BY <1>6 DEF GridMeter
  <1>7. CASE f \in BackupPower
    BY <1>7 DEF BackupPower
  <1>8. CASE f \in EnergyTotals
    BY <1>8 DEF EnergyTotals
  <1>9. CASE f \in Controls
    BY <1>9 DEF Controls
  <1>10. QED
    BY <1>1, <1>2, <1>3, <1>4, <1>5, <1>6, <1>7, <1>8, <1>9 DEF AllFields

(* A component and an address name one field: no two fields of a component   *)
(* share a register, since it keeps to one space.                            *)
LEMMA KeyIsUnique ==
    ASSUME NEW f \in AllFields, NEW g \in AllFields, Key(f) = Key(g)
    PROVE  f = g
  <1>1. f.comp = g.comp /\ f.addr = g.addr
    BY DEF Key
  <1>2. f.space = g.space
    BY <1>1, LayoutAssumption
  <1>3. f.addr <= g.addr /\ g.addr < End(f)
    BY <1>1, DeclaredFields DEF End
  <1>4. QED
    BY <1>2, <1>3, LayoutAssumption

(* The field of the read-only override is declared, and is the one of its key. *)
LEMMA OverrideIsNamed ==
    ASSUME NEW f \in AllFields
    PROVE  f \in _READ_ONLY_OVERRIDE <=> Key(f) = <<9, 13088>>
  <1> DEFINE g == Named(9, 13088)
  <1>1. \E h \in AllFields : h.comp = 9 /\ h.addr = 13088
    <2> DEFINE h == [comp |-> 9, name |-> Names[9], space |-> "holding",
                     addr |-> 13088, count |-> 1]
    <2>1. h \in Controls
      BY DEF At, Controls
    <2>2. h \in AllFields
      BY <2>1 DEF AllFields
    <2>3. QED
      BY <2>2
  <1>2. g \in AllFields /\ g.comp = 9 /\ g.addr = 13088
    BY <1>1 DEF Named
  <1>3. Key(g) = <<9, 13088>>
    BY <1>2 DEF Key
  <1>4. Key(f) = <<9, 13088>> => f = g
    BY <1>2, <1>3, KeyIsUnique
  <1>5. QED
    BY <1>3, <1>4 DEF _READ_ONLY_OVERRIDE

(* The platform that the property expects for a field. *)
PlatformFor(f) ==
    IF f.space = "holding" /\ Key(f) # <<9, 13088>>
    THEN Control[value_kind(f)] ELSE "sensor"

(* The four filters take the public fields apart: none is left out, and none *)
(* is taken twice.                                                           *)
LEMMA FiltersPartition ==
    ASSUME NEW f \in iter_fields, NEW p \in PLATFORMS
    PROVE  Key(f) \in Keys(p) <=> p = PlatformFor(f)
  <1>1. f \in AllFields
    BY DEF iter_fields
  <1>2. f.comp \in 1..9 /\ (f.space = "holding" => f.count = 1)
    BY <1>1, DeclaredFields
  <1>3. is_writable(f) <=> f.space = "holding" /\ Key(f) # <<9, 13088>>
    BY <1>1, OverrideIsNamed DEF is_writable, writable
  <1>4. is_writable(f) => value_kind(f) \in {"number", "boolean", "enum"}
    BY <1>2, <1>3 DEF value_kind
  <1>5. Key(f) \notin Flags /\ Key(f) \notin Actions
    BY <1>2 DEF Key, Flags, Actions
  <1>6. ASSUME NEW q \in {"sensor", "number", "select", "switch"}
        PROVE  Key(f) \in Keys(q) <=> f \in Described(q)
    <2>1. Keys(q) = {Key(g) : g \in Described(q)}
      BY DEF Keys
    <2>2. Described(q) \subseteq AllFields
      BY DEF Described, iter_fields
    <2>3. QED
      BY <1>1, <2>1, <2>2, KeyIsUnique
  <1>7. f \in Described("sensor") <=> ~is_writable(f)
    BY DEF Described
  <1>8. f \in Described("number") <=> is_writable(f) /\ value_kind(f) = "number"
    BY DEF Described
  <1>9. f \in Described("select") <=> is_writable(f) /\ value_kind(f) = "enum"
    BY DEF Described
  <1>10. f \in Described("switch") <=> is_writable(f) /\ value_kind(f) = "boolean"
    BY DEF Described
  <1>11. PlatformFor(f) = IF is_writable(f) THEN Control[value_kind(f)] ELSE "sensor"
    BY <1>3 DEF PlatformFor
  <1>12. /\ Control["number"] = "number" /\ Control["boolean"] = "switch"
         /\ Control["enum"] = "select"
    BY DEF Control
  <1>13. CASE p = "sensor"
    BY <1>4, <1>6, <1>7, <1>11, <1>12, <1>13
  <1>14. CASE p = "number"
    BY <1>4, <1>6, <1>8, <1>11, <1>12, <1>14
  <1>15. CASE p = "select"
    BY <1>4, <1>6, <1>9, <1>11, <1>12, <1>15
  <1>16. CASE p = "switch"
    BY <1>4, <1>6, <1>10, <1>11, <1>12, <1>16
  <1>17. CASE p \in {"binary_sensor", "button"}
    <2>1. Key(f) \notin Keys(p)
      BY <1>5, <1>17 DEF Keys
    <2>2. p # PlatformFor(f)
      BY <1>4, <1>11, <1>12, <1>17
    <2>3. QED
      BY <2>1, <2>2
  <1>18. QED
    BY <1>13, <1>14, <1>15, <1>16, <1>17 DEF PLATFORMS

-----------------------------------------------------------------------------
(* The inductive invariant *)

PlatformsTypeOK ==
    /\ naming \in [Entries -> {"absent", "legacy", "modern"}]
    /\ loaded \in [Entries -> BOOLEAN]

(* Every row is of an entry, and of a platform that describes its key. *)
RowsAreDescribed ==
    \A row \in registry :
        /\ row.entry \in Entries /\ row.platform \in PLATFORMS
        /\ row.key \in Keys(row.platform)
        /\ row.unique_id = UniqueId(row.entry, row.key)

(* A platform has one row for a unique id. *)
RowsAreUnique ==
    \A r, s \in registry :
        r.platform = s.platform /\ r.unique_id = s.unique_id => r = s

(* A loaded entry has a row for everything that its platforms describe. *)
LoadedIsRegistered ==
    \A e \in Entries : loaded[e] =>
        \A p \in PLATFORMS : \A k \in Keys(p) :
            \E row \in registry : row.platform = p /\ row.unique_id = UniqueId(e, k)

PlatformsInv == /\ PlatformsTypeOK /\ RowsAreDescribed /\ RowsAreUnique
                /\ LoadedIsRegistered

-----------------------------------------------------------------------------
(* Lemmas about the rows that a setup adds *)

LEMMA KeysAreNumbered ==
    ASSUME NEW p \in PLATFORMS, NEW k \in Keys(p)
    PROVE  k[1] \in Nat
  <1>1. CASE p \in {"binary_sensor", "button"}
    BY <1>1 DEF Keys, Flags, Actions
  <1>2. CASE p \in {"sensor", "number", "select", "switch"}
    <2>1. PICK f \in Described(p) : k = Key(f)
      BY <1>2 DEF Keys
    <2>2. f \in AllFields
      BY <1>2, <2>1 DEF Described, iter_fields
    <2>3. f.comp \in 1..9
      BY <2>2, DeclaredFields
    <2>4. QED
      BY <2>1, <2>3 DEF Key
  <1>3. QED
    BY <1>1, <1>2 DEF PLATFORMS

LEMMA NewRowsAreDescribed ==
    ASSUME NEW e, NEW p, NEW row \in NewRows(e, p)
    PROVE  /\ row.entry = e /\ row.platform = p /\ row.key \in Keys(p)
           /\ row.unique_id = UniqueId(e, row.key)
           /\ row.id.object = ObjectFor(e, row.key, p)
           /\ \A old \in registry :
                 ~(old.platform = p /\ old.unique_id = row.unique_id)
  <1>1. PICK k \in Keys(p) :
            /\ ~\E old \in registry : old.platform = p /\ old.unique_id = UniqueId(e, k)
            /\ \E i : row = [entry |-> e, platform |-> p, key |-> k, unique_id |-> UniqueId(e, k),
                             id |-> FreeId(p, ObjectFor(e, k, p), i)]
    BY DEF NewRows
  <1>2. row.id.object = ObjectFor(e, k, p)
    BY <1>1 DEF FreeId
  <1>3. QED
    BY <1>1, <1>2

(* A setup adds one row for a key, whatever id it gives to it. *)
LEMMA NewRowsAreUnique ==
    ASSUME NEW e, NEW p, NEW r \in NewRows(e, p), NEW s \in NewRows(e, p),
           r.unique_id = s.unique_id
    PROVE  r = s
  <1> DEFINE new == {k \in Keys(p) : ~\E row \in registry :
                        row.platform = p /\ row.unique_id = UniqueId(e, k)}
             kept == {k \in new : ~\E j \in new : /\ UniqueId(e, j) = UniqueId(e, k)
                                                  /\ j[1] < k[1]}
             before(k) == {j \in kept : /\ ObjectFor(e, j, p) = ObjectFor(e, k, p)
                                        /\ j[1] < k[1]}
             Row(k) == [entry |-> e, platform |-> p, key |-> k, unique_id |-> UniqueId(e, k),
                        id |-> FreeId(p, ObjectFor(e, k, p), Cardinality(before(k)))]
  <1>1. NewRows(e, p) = {Row(k) : k \in kept}
    BY DEF NewRows
  <1> HIDE DEF kept, before
  <1>2. PICK j \in kept : r = Row(j)
    BY <1>1
  <1>3. PICK k \in kept : s = Row(k)
    BY <1>1
  <1>4. UniqueId(e, j) = UniqueId(e, k)
    BY <1>2, <1>3
  <1>5. j = k
    BY <1>4 DEF UniqueId
  <1>6. QED
    BY <1>2, <1>3, <1>5

(* After a setup everything that a platform describes has a row. *)
LEMMA NewRowsAreComplete ==
    ASSUME NEW e, NEW p \in PLATFORMS, NEW k \in Keys(p)
    PROVE  \E row \in registry \cup NewRows(e, p) :
              row.platform = p /\ row.unique_id = UniqueId(e, k)
  <1> DEFINE new == {j \in Keys(p) : ~\E row \in registry :
                        row.platform = p /\ row.unique_id = UniqueId(e, j)}
             kept == {j \in new : ~\E i \in new : /\ UniqueId(e, i) = UniqueId(e, j)
                                                  /\ i[1] < j[1]}
             before(j) == {i \in kept : /\ ObjectFor(e, i, p) = ObjectFor(e, j, p)
                                        /\ i[1] < j[1]}
             Row(j) == [entry |-> e, platform |-> p, key |-> j, unique_id |-> UniqueId(e, j),
                        id |-> FreeId(p, ObjectFor(e, j, p), Cardinality(before(j)))]
  <1>1. CASE k \notin new
    BY <1>1
  <1>2. CASE k \in new
    <2>1. ASSUME NEW j \in new, UniqueId(e, j) = UniqueId(e, k), j[1] < k[1]
          PROVE  FALSE
      <3>1. j = k
        BY <2>1 DEF UniqueId
      <3>2. k[1] \in Nat
        BY KeysAreNumbered
      <3>3. QED
        BY <2>1, <3>1, <3>2
    <2>2. k \in kept
      BY <1>2, <2>1
    <2>3. Row(k) \in NewRows(e, p)
      <3>1. NewRows(e, p) = {Row(j) : j \in kept}
        BY DEF NewRows
      <3> HIDE DEF kept, before
      <3>2. QED
        BY <2>2, <3>1
    <2>4. Row(k).platform = p /\ Row(k).unique_id = UniqueId(e, k)
      OBVIOUS
    <2> HIDE DEF Row
    <2>5. QED
      BY <2>3, <2>4
  <1>3. QED
    BY <1>1, <1>2

-----------------------------------------------------------------------------
(* The invariant is kept *)

LEMMA PlatformsInitInv == Init => PlatformsInv
  BY DEF Init, PlatformsInv, PlatformsTypeOK, RowsAreDescribed, RowsAreUnique,
         LoadedIsRegistered

(* One setup: the rows of all its platforms come together. *)
LEMMA SetUpKeepsInv ==
    ASSUME PlatformsInv, NEW e \in Entries, SetUpPlatforms(e)
    PROVE  PlatformsInv'
  <1> DEFINE added == UNION {NewRows(e, p) : p \in PLATFORMS}
  <1> USE DEF PlatformsInv
  <1>1. /\ registry' = registry \cup added /\ naming' = naming
        /\ loaded' = [loaded EXCEPT ![e] = TRUE]
    BY DEF SetUpPlatforms
  <1>2. \A row \in added : \E p \in PLATFORMS : row \in NewRows(e, p)
    OBVIOUS
  <1> HIDE DEF added
  <1>3. \A row \in added :
            /\ row.entry = e /\ row.platform \in PLATFORMS
            /\ row \in NewRows(e, row.platform)
            /\ row.key \in Keys(row.platform)
            /\ row.unique_id = UniqueId(e, row.key)
            /\ row.id.object = ObjectFor(e, row.key, row.platform)
            /\ \A old \in registry :
                  ~(old.platform = row.platform /\ old.unique_id = row.unique_id)
    BY <1>2, NewRowsAreDescribed
  <1>4. PlatformsTypeOK'
    BY <1>1 DEF PlatformsTypeOK
  <1>5. RowsAreDescribed'
    BY <1>1, <1>3 DEF RowsAreDescribed
  <1>6. RowsAreUnique'
    <2>1. SUFFICES ASSUME NEW r \in registry \cup added, NEW s \in registry \cup added,
                          r.platform = s.platform, r.unique_id = s.unique_id
                   PROVE  r = s
      BY <1>1 DEF RowsAreUnique
    <2>2. CASE r \in registry /\ s \in registry
      BY <2>1, <2>2 DEF RowsAreUnique
    <2>3. CASE r \in added /\ s \in added
      BY <2>1, <2>3, <1>3, NewRowsAreUnique
    <2>4. CASE r \in registry /\ s \in added
      BY <2>1, <2>4, <1>3
    <2>5. CASE r \in added /\ s \in registry
      BY <2>1, <2>5, <1>3
    <2>6. QED
      BY <2>1, <2>2, <2>3, <2>4, <2>5
  <1>7. LoadedIsRegistered'
    <2>1. SUFFICES ASSUME NEW d \in Entries, loaded'[d],
                          NEW p \in PLATFORMS, NEW k \in Keys(p)
                   PROVE  \E row \in registry \cup added :
                             row.platform = p /\ row.unique_id = UniqueId(d, k)
      BY <1>1 DEF LoadedIsRegistered
    <2>2. CASE d = e
      <3>1. NewRows(e, p) \subseteq added
        BY DEF added
      <3>2. \E row \in registry \cup NewRows(e, p) :
               row.platform = p /\ row.unique_id = UniqueId(e, k)
        BY NewRowsAreComplete
      <3>3. QED
        BY <2>2, <3>1, <3>2
    <2>3. CASE d # e
      <3>1. loaded[d]
        BY <1>1, <2>1, <2>3 DEF PlatformsTypeOK
      <3>2. QED
        BY <3>1 DEF LoadedIsRegistered
    <2>4. QED
      BY <2>2, <2>3
  <1>8. QED
    BY <1>4, <1>5, <1>6, <1>7

(* A removal takes the rows of an entry that is not loaded, and no others. *)
LEMMA RemoveKeepsInv ==
    ASSUME PlatformsInv, NEW e \in Entries, RemoveEntry(e)
    PROVE  PlatformsInv'
  <1> USE DEF PlatformsInv
  <1>1. /\ ~loaded[e] /\ registry' = {row \in registry : row.entry # e}
        /\ naming' = [naming EXCEPT ![e] = "absent"] /\ loaded' = loaded
    BY DEF RemoveEntry
  <1>2. PlatformsTypeOK'
    BY <1>1 DEF PlatformsTypeOK
  <1>3. RowsAreDescribed'
    BY <1>1 DEF RowsAreDescribed
  <1>4. RowsAreUnique'
    BY <1>1 DEF RowsAreUnique
  <1>5. LoadedIsRegistered'
    <2>1. SUFFICES ASSUME NEW d \in Entries, loaded[d],
                          NEW p \in PLATFORMS, NEW k \in Keys(p)
                   PROVE  \E row \in registry' :
                             row.platform = p /\ row.unique_id = UniqueId(d, k)
      BY <1>1 DEF LoadedIsRegistered
    <2>2. PICK row \in registry : row.platform = p /\ row.unique_id = UniqueId(d, k)
      BY <2>1 DEF LoadedIsRegistered
    <2>3. row.entry = d
      BY <2>2 DEF RowsAreDescribed, UniqueId
    <2>4. d # e
      BY <1>1, <2>1
    <2>5. QED
      BY <1>1, <2>2, <2>3, <2>4
  <1>6. QED
    BY <1>2, <1>3, <1>4, <1>5

LEMMA PlatformsNextInv == PlatformsInv /\ [Next]_vars => PlatformsInv'
  <1> SUFFICES ASSUME PlatformsInv, [Next]_vars
               PROVE  PlatformsInv'
    OBVIOUS
  <1> USE DEF PlatformsInv
  <1>1. ASSUME NEW e \in Entries, AddEntry(e)
        PROVE  PlatformsInv'
    BY <1>1 DEF AddEntry, PlatformsTypeOK, RowsAreDescribed, RowsAreUnique,
                LoadedIsRegistered
  <1>2. ASSUME NEW e \in Entries, SetUpPlatforms(e)
        PROVE  PlatformsInv'
    BY <1>2, SetUpKeepsInv
  <1>3. ASSUME NEW e \in Entries, UnloadPlatforms(e)
        PROVE  PlatformsInv'
    BY <1>3 DEF UnloadPlatforms, PlatformsTypeOK, RowsAreDescribed, RowsAreUnique,
                LoadedIsRegistered
  <1>4. ASSUME NEW e \in Entries, RemoveEntry(e)
        PROVE  PlatformsInv'
    BY <1>4, RemoveKeepsInv
  <1>5. CASE UNCHANGED vars
    BY <1>5 DEF vars, PlatformsTypeOK, RowsAreDescribed, RowsAreUnique,
                LoadedIsRegistered
  <1>6. QED
    BY <1>1, <1>2, <1>3, <1>4, <1>5 DEF Next

-----------------------------------------------------------------------------
(* The theorems *)

LEMMA PlatformsInvariant == Spec => []PlatformsInv
  <1>1. Init => PlatformsInv
    BY PlatformsInitInv
  <1>2. PlatformsInv /\ [Next]_vars => PlatformsInv'
    BY PlatformsNextInv
  <1>3. QED
    BY <1>1, <1>2, PTL DEF Spec

LEMMA InvGivesOneEntity == PlatformsInv => OneEntityPerField
  <1> SUFFICES ASSUME PlatformsInv, NEW e \in Entries, loaded[e], NEW f \in iter_fields
               PROVE  LET mine == {row \in RowsOf(e) : row.key = Key(f)}
                      IN  /\ Cardinality(mine) = 1
                          /\ \A row \in mine : row.platform = PlatformFor(f)
    BY DEF OneEntityPerField, PlatformFor
  <1> USE DEF PlatformsInv
  <1> DEFINE mine == {row \in RowsOf(e) : row.key = Key(f)}
             p == PlatformFor(f)
  <1>1. \A q \in PLATFORMS : Key(f) \in Keys(q) <=> q = p
    BY FiltersPartition
  <1> HIDE DEF p
  <1>2. \A row \in mine : row.platform = p /\ row.unique_id = UniqueId(e, Key(f))
    BY <1>1 DEF RowsAreDescribed, RowsOf
  <1>3. p \in PLATFORMS /\ Key(f) \in Keys(p)
    <2>1. p \in {"number", "switch", "select", "sensor"}
      <3>1. f \in AllFields
        BY DEF iter_fields
      <3>2. f.space = "holding" => value_kind(f) \in {"number", "boolean", "enum"}
        BY <3>1, DeclaredFields DEF value_kind
      <3>3. QED
        BY <3>2 DEF p, PlatformFor, Control
    <2>2. QED
      BY <1>1, <2>1 DEF PLATFORMS
  <1>4. PICK row \in registry : row.platform = p /\ row.unique_id = UniqueId(e, Key(f))
    BY <1>3 DEF LoadedIsRegistered
  <1>5. row \in mine
    BY <1>4 DEF RowsAreDescribed, RowsOf, UniqueId
  <1>6. \A other \in mine : other = row
    BY <1>2, <1>4 DEF RowsAreUnique, RowsOf
  <1>7. mine = {row}
    BY <1>5, <1>6
  <1>8. Cardinality(mine) = 1
    BY <1>7, FS_Singleton
  <1>9. QED
    BY <1>2, <1>8 DEF p

(* However many entries there are, and in whatever order they are added, set *)
(* up, unloaded and removed: every public field of a loaded entry is one     *)
(* entity, on the platform that its kind and its direction ask for.          *)
(* (sensor.py:84-89, number.py:60-65, select.py:53-58, switch.py:50-55,      *)
(* entity.py:35)                                                             *)
THEOREM FieldsHaveOneEntity == Spec => []OneEntityPerField
  BY PlatformsInvariant, InvGivesOneEntity, PTL
=============================================================================
