------------------------ MODULE SettingValuesProofs ------------------------
(***************************************************************************)
(* Proofs about SettingValues, for every set of settings, every number     *)
(* that a service call may ask for and every word that the panel may set.  *)
(***************************************************************************)
EXTENDS SettingValues, TLAPS

(* The inductive invariant: the two limits of the band keep their declared   *)
(* ranges, which meet at 50 %, so that neither can pass the other.           *)
InRange ==
    /\ min_soc \in Settings => reg[min_soc] <= 500
    /\ max_soc \in Settings => reg[max_soc] >= 500

IInv == TypeOK /\ InRange

(* Rounding to the nearest word and back moves a number by half a step.      *)
LEMMA RoundingIsClose ==
    ASSUME NEW s \in Numbers, NEW v \in Nat
    PROVE  /\ Encode(s, v) \in Nat
           /\ 2 * (Encode(s, v) * Scale(s) - v) <= Scale(s)
           /\ 2 * (v - Encode(s, v) * Scale(s)) <= Scale(s)
<1>1. CASE Scale(s) = 1
  BY <1>1, SMT DEF Encode
<1>2. CASE Scale(s) = 10
  BY <1>2, SMT DEF Encode
<1>3. CASE Scale(s) = 100
  BY <1>3, SMT DEF Encode
<1>4. Scale(s) \in {1, 10, 100}
  BY SMT DEF Scale
<1>5. QED
  BY <1>1, <1>2, <1>3, <1>4, SMT

(* A value within the range of a number that has one fits its register, and  *)
(* is not the marker for no value.                                           *)
LEMMA RangeFits ==
    ASSUME NEW s \in Numbers \ Unlimited, NEW v \in Nat, v <= High(s)
    PROVE  Encode(s, v) \in Nat /\ Encode(s, v) <= 10000
<1>1. CASE s = min_soc \/ s = max_soc
  <2>1. Scale(s) = 1 /\ v <= 1000
    BY <1>1, SMT DEF Scale, High, min_soc, max_soc, reserved_soc_for_backup
  <2>2. QED
    BY <2>1, RoundingIsClose, SMT
<1>2. CASE s = reserved_soc_for_backup
  <2>1. Scale(s) = 10 /\ v <= 1000
    BY <1>2, SMT DEF Scale, High, min_soc, max_soc, reserved_soc_for_backup, StartPowers,
                ChargePowers
  <2>2. QED
    BY <2>1, RoundingIsClose, SMT
<1>3. CASE s \in StartPowers \cup ChargePowers
  <2>1. Scale(s) = 100 /\ v <= 1000000
    BY <1>3, SMT DEF Scale, High, min_soc, max_soc, reserved_soc_for_backup, StartPowers,
                ChargePowers
  <2>2. QED
    BY <2>1, RoundingIsClose, SMT
<1>4. QED
  BY <1>1, <1>2, <1>3, SMT DEF Numbers, Percentages, Unlimited

(* A register takes more than that.                                          *)
LEMMA WordsAreWide == MaxWord \in Nat /\ MaxWord > 10000
BY SMT DEF MaxWord

(* A value that SetValue accepts, and that fits, is stored as a value.       *)
LEMMA SetValueIsShown ==
    ASSUME IInv, NEW s \in Settings, NEW v \in Requests, SetValue(s, v), Fits(s, v)
    PROVE  /\ reg' = [reg EXCEPT ![s] = Encode(s, v)]
           /\ reg'[s] = Encode(s, v)
           /\ HasNan(s) => reg'[s] # MaxWord
<1>1. s \in Numbers /\ v \in Nat /\ v <= High(s)
  BY SettingValuesAssumption, SMT DEF SetValue
<1>2. CASE s \in Unlimited
  <2>1. Encode(s, v) \in Word
    BY <1>2 DEF Fits
  <2>2. ~HasNan(s)
    BY <1>2, SMT DEF Unlimited, HasNan, StartPowers, export_power_limit
  <2>3. reg' = [reg EXCEPT ![s] = Encode(s, v)]
    BY <2>1 DEF SetValue
  <2>4. QED
    BY <2>1, <2>2, <2>3 DEF IInv, TypeOK
<1>3. CASE s \notin Unlimited
  <2>1. Encode(s, v) \in Nat /\ Encode(s, v) <= 10000
    BY <1>1, <1>3, RangeFits, SMT
  <2>2. Encode(s, v) \in Word /\ Encode(s, v) # MaxWord
    BY <2>1, WordsAreWide, SMT DEF Word
  <2>3. reg' = [reg EXCEPT ![s] = Encode(s, v)]
    BY <2>2 DEF SetValue
  <2>4. QED
    BY <2>2, <2>3 DEF IInv, TypeOK
<1>4. QED
  BY <1>2, <1>3

-----------------------------------------------------------------------------
(* The declared ranges of the two limits, in words.                          *)
LEMMA BandInWords ==
    /\ {min_soc, max_soc} \subseteq Bounded \ Unlimited
    /\ Scale(min_soc) = 1 /\ Low(min_soc) = 0 /\ High(min_soc) = 500
    /\ Scale(max_soc) = 1 /\ Low(max_soc) = 500 /\ High(max_soc) = 1000
BY SMT DEF Bounded, Percentages, Unlimited, Scale, Low, High, min_soc, max_soc,
           reserved_soc_for_backup, export_power_limit, StartPowers, ChargePowers

(* What the panel allows keeps the two limits in their ranges.               *)
LEMMA PanelInRange ==
    ASSUME NEW w \in Word
    PROVE  /\ Allowed(min_soc, w) => w <= 500
           /\ Allowed(max_soc, w) => w >= 500
<1>1. w \in Int
  BY WordsAreWide, SMT DEF Word
<1>2. QED
  BY <1>1, BandInWords, SMT DEF Allowed

LEMMA InitIInv == Init => IInv
<1> SUFFICES ASSUME Init PROVE IInv
  OBVIOUS
<1>1. reg \in [Settings -> Word]
  BY SettingValuesAssumption, SMT DEF Init
<1>2. last.setting = 0 /\ last.value = None
  BY DEF Init, NoCall
<1>3. TypeOK
  BY <1>1, <1>2 DEF TypeOK
<1>4. \A s \in Settings : reg[s] \in Word /\ Allowed(s, reg[s])
  BY <1>1 DEF Init
<1>5. QED
  BY <1>3, <1>4, PanelInRange DEF IInv, InRange

(* Storing a word keeps the invariant, if it keeps the ranges.               *)
LEMMA StoreKeepsIInv ==
    ASSUME IInv, NEW s \in Settings, NEW w \in Word,
           reg' = [reg EXCEPT ![s] = w],
           s = min_soc => w <= 500, s = max_soc => w >= 500,
           last'.setting \in Settings \cup {0}, last'.value \in Nat \cup {None}
    PROVE  IInv'
<1>1. reg \in [Settings -> Word]
  BY DEF IInv, TypeOK
<1>2. reg' \in [Settings -> Word] /\ \A r \in Settings : reg'[r] = IF r = s THEN w ELSE reg[r]
  BY <1>1
<1>3. TypeOK'
  BY <1>2 DEF TypeOK
<1>4. InRange'
  BY <1>2 DEF IInv, InRange
<1>5. QED
  BY <1>3, <1>4 DEF IInv

(* An option is a word.                                                      *)
LEMMA OptionsAreWords ==
    ASSUME NEW s, NEW code \in OptionCodes(s)
    PROVE  code \in Nat /\ code \in Word
<1>1. code \in Nat /\ code <= 255
  BY SMT DEF OptionCodes
<1>2. QED
  BY <1>1, WordsAreWide, SMT DEF Word

(* Every step keeps the invariant.                                           *)
LEMMA NextIInv == IInv /\ [Next]_vars => IInv'
<1> SUFFICES ASSUME IInv, [Next]_vars PROVE IInv'
  OBVIOUS
<1>1. ASSUME NEW s \in Settings, NEW v \in Requests, SetValue(s, v) PROVE IInv'
  <2>1. v \in Nat /\ s \in Numbers /\ Low(s) <= v /\ v <= High(s)
    BY <1>1, SettingValuesAssumption DEF SetValue
  <2>2. last'.setting = s /\ last'.value = v
    BY <1>1 DEF SetValue
  <2>3. CASE s \notin Unlimited
    <3>1. reg' = [reg EXCEPT ![s] = Encode(s, v)]
      BY <1>1, <2>3, SetValueIsShown DEF Fits
    <3>2. Encode(s, v) \in Nat /\ Encode(s, v) <= 10000
      BY <2>1, <2>3, RangeFits
    <3>3. Encode(s, v) \in Word
      BY <3>2, WordsAreWide, SMT DEF Word
    <3>4. Scale(s) = 1 => Encode(s, v) = v
      BY <2>1, SMT DEF Encode
    <3>5. (s = min_soc => Encode(s, v) <= 500) /\ (s = max_soc => Encode(s, v) >= 500)
      BY <2>1, <3>4, BandInWords
    <3>6. QED
      BY <2>1, <2>2, <3>1, <3>3, <3>5, StoreKeepsIInv
  <2>4. CASE s \in Unlimited
    <3>1. s # min_soc /\ s # max_soc
      BY <2>4, BandInWords
    <3>2. Encode(s, v) \in Nat
      BY <2>1, RoundingIsClose
    <3>3. Encode(s, v) % (MaxWord + 1) \in Word
      BY <3>2, WordsAreWide, SMT DEF Word
    <3>4. CASE reg' = reg
      BY <2>1, <2>2, <3>4 DEF IInv, TypeOK, InRange
    <3>5. CASE reg' = [reg EXCEPT ![s] = Encode(s, v)] /\ Encode(s, v) \in Word
      BY <2>1, <2>2, <3>1, <3>5, StoreKeepsIInv
    <3>6. CASE reg' = [reg EXCEPT ![s] = Encode(s, v) % (MaxWord + 1)]
      BY <2>1, <2>2, <3>1, <3>3, <3>6, StoreKeepsIInv
    <3>7. QED
      BY <1>1, <3>4, <3>5, <3>6 DEF SetValue
  <2>5. QED
    BY <2>3, <2>4
<1>2. ASSUME NEW s \in Settings, NEW code \in OptionCodes(s), SetOption(s, code)
      PROVE  IInv'
  <2>1. s # min_soc /\ s # max_soc
    BY <1>2, SMT DEF SetOption, Selects, Switches, min_soc, max_soc
  <2>2. QED
    BY <1>2, <2>1, OptionsAreWords, StoreKeepsIInv DEF SetOption
<1>3. ASSUME NEW s \in Settings, NEW w \in PanelWords, PanelChange(s, w) PROVE IInv'
  <2>1. w \in Word
    BY SettingValuesAssumption
  <2>2. (s = min_soc => w <= 500) /\ (s = max_soc => w >= 500)
    BY <1>3, <2>1, PanelInRange DEF PanelChange
  <2>3. QED
    BY <1>3, <2>1, <2>2, StoreKeepsIInv DEF PanelChange, NoCall
<1>4. CASE UNCHANGED vars
  BY <1>4 DEF vars, IInv, TypeOK, InRange
<1>5. QED
  BY <1>1, <1>2, <1>3, <1>4 DEF Next

(* Type correctness, for all settings and requests.  (number.py, select.py,  *)
(* switch.py)                                                                *)
THEOREM SettingsTypeCorrect == Spec => []TypeOK
<1>1. IInv => TypeOK
  BY DEF IInv
<1>2. QED
  BY <1>1, InitIInv, NextIInv, PTL DEF Spec

(* The battery's band is never turned over, whatever values are asked for    *)
(* and whatever the panel may store within the declared ranges.              *)
(* (battery.py:133-150)                                                      *)
THEOREM BandStaysOrdered == Spec => []SocBandOrdered
<1>1. IInv => SocBandOrdered
  <2> SUFFICES ASSUME IInv, {min_soc, max_soc} \subseteq Settings
               PROVE  reg[min_soc] <= reg[max_soc]
    BY DEF SocBandOrdered
  <2>1. reg[min_soc] \in Word /\ reg[max_soc] \in Word
    BY DEF IInv, TypeOK
  <2>2. reg[min_soc] \in Int /\ reg[max_soc] \in Int
    BY <2>1, WordsAreWide, SMT DEF Word
  <2>3. reg[min_soc] <= 500 /\ reg[max_soc] >= 500
    BY DEF IInv, InRange
  <2>4. QED
    BY <2>2, <2>3, SMT
<1>2. QED
  BY <1>1, InitIInv, NextIInv, PTL DEF Spec

-----------------------------------------------------------------------------
(* A number that was set reads back within half a step. *)
LEMMA NumberReadsBack ==
    ASSUME IInv, NEW s \in Settings, NEW v \in Requests, SetValue(s, v)
    PROVE  AcceptedIsShown'
<1> SUFFICES ASSUME Fits(s, v)
             PROVE  LET shown == Shown(s)' IN
                    /\ shown # None
                    /\ 2 * (shown - v) <= Scale(s)
                    /\ 2 * (v - shown) <= Scale(s)
  BY DEF AcceptedIsShown, SetValue, Shown
<1>1. s \in Numbers /\ v \in Nat
  BY SettingValuesAssumption DEF SetValue
<1>2. reg'[s] = Encode(s, v) /\ (HasNan(s) => reg'[s] # MaxWord)
  BY SetValueIsShown
<1>3. Shown(s)' = Encode(s, v) * Scale(s)
  BY <1>1, <1>2 DEF Shown
<1>4. Scale(s) \in {1, 10, 100}
  BY SMT DEF Scale
<1>5. Encode(s, v) * Scale(s) # None
  <2>1. Encode(s, v) \in Nat
    BY <1>1, RoundingIsClose
  <2>2. Encode(s, v) * 1 # None /\ Encode(s, v) * 10 # None /\ Encode(s, v) * 100 # None
    BY <2>1, SMT DEF None
  <2>3. QED
    BY <1>4, <2>2
<1>6. QED
  BY <1>1, <1>3, <1>5, RoundingIsClose

(* An accepted value that the setting's register can hold is what is shown.  *)
(* Numbers without a declared maximum also accept values above 65535         *)
(* (number.py:46): of these, and of no others, the theorem says nothing.     *)
(* (number.py:84-92, select.py:76-87, switch.py:74-90)                       *)
THEOREM AcceptedStaysShown == Spec => []AcceptedIsShown
<1>1. Init => AcceptedIsShown
  BY SettingValuesAssumption, SMT
     DEF Init, NoCall, AcceptedIsShown, Declared, Numbers, Percentages, Selects, Switches,
         StartPowers, ChargePowers, min_soc, max_soc, reserved_soc_for_backup,
         export_power_limit
<1>2. IInv /\ AcceptedIsShown /\ [Next]_vars => AcceptedIsShown'
  <2> SUFFICES ASSUME IInv, AcceptedIsShown, [Next]_vars PROVE AcceptedIsShown'
    OBVIOUS
  <2>1. ASSUME NEW s \in Settings, NEW v \in Requests, SetValue(s, v)
        PROVE  AcceptedIsShown'
    BY <2>1, NumberReadsBack
  <2>2. ASSUME NEW s \in Settings, NEW code \in OptionCodes(s), SetOption(s, code)
        PROVE  AcceptedIsShown'
    <3>1. s \notin Numbers
      BY <2>2, SMT DEF SetOption, Selects, Switches, Numbers, Percentages, StartPowers,
                       ChargePowers, min_soc, max_soc, reserved_soc_for_backup,
                       export_power_limit
    <3>2. reg'[s] = code
      BY <2>2 DEF SetOption, IInv, TypeOK
    <3>3. Shown(s)' = code
      BY <3>1, <3>2 DEF Shown, OptionShown
    <3>4. code # None
      BY OptionsAreWords, SMT DEF None
    <3>5. QED
      BY <2>2, <3>1, <3>3, <3>4 DEF AcceptedIsShown, SetOption, Shown, OptionShown
  <2>3. ASSUME NEW s \in Settings, NEW w \in PanelWords, PanelChange(s, w)
        PROVE  AcceptedIsShown'
    <3>1. last'.setting \notin Settings
      BY <2>3, SettingValuesAssumption, SMT
         DEF PanelChange, NoCall, Declared, Numbers, Percentages, Selects, Switches,
             StartPowers, ChargePowers, min_soc, max_soc, reserved_soc_for_backup,
             export_power_limit
    <3>2. QED
      BY <3>1 DEF AcceptedIsShown
  <2>4. CASE UNCHANGED vars
    BY <2>4 DEF vars, AcceptedIsShown, Shown, OptionShown
  <2>5. QED
    BY <2>1, <2>2, <2>3, <2>4 DEF Next
<1>3. QED
  BY <1>1, <1>2, InitIInv, NextIInv, PTL DEF Spec
=============================================================================
