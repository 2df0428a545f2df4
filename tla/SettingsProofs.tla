--------------------------- MODULE SettingsProofs ---------------------------
(* The settings in force are the saved ones, for any settings, whatever is *)
(* saved, undone or not loaded, and however often.                         *)
EXTENDS Settings, TLAPS

-----------------------------------------------------------------------------
(* What assigning a text to a setting can give.                            *)

LEMMA AssignedValue ==
  ASSUME NEW s \in SettingNames, NEW text \in Values, NEW old \in Values
  PROVE  assigned(s, text, old) \in Values
BY SettingsAssumption DEF assigned, Values

LEMMA AssignedTyped ==
  ASSUME NEW s \in SettingNames \cap Typed, NEW text, NEW old \in Understood[s]
  PROVE  assigned(s, text, old) \in Understood[s]
BY DEF assigned, Typed

(* What the tables hold, and would hold, is what the route accepts.        *)
Tables == {table \in [SettingNames -> Values] : \A s \in SettingNames : table[s] \in Accepted(s)}

LEMMA WrittenTable ==
  ASSUME SettingsTypeOK, NEW body \in Bodies
  PROVE  /\ written(body) \in Tables
         /\ \A s \in SettingNames \ DOMAIN body : written(body)[s] = flags[s]
<1>1. \A s \in DOMAIN body : body[s] \in Accepted(s)
  BY SettingsAssumption
<1>2. \A s \in SettingNames : Accepted(s) \subseteq Values
  BY SettingsAssumption DEF Accepted, Values
<1>3. QED BY <1>1, <1>2 DEF written, Tables, SettingsTypeOK

-----------------------------------------------------------------------------
(* Reading a table leaves memory well typed ...                            *)

LEMMA AppliedType ==
  ASSUME SettingsTypeOK, NEW table \in Tables
  PROVE  /\ applied(config, shown(table, config)) \in [SettingNames -> Values]
         /\ \A s \in SettingNames \cap Typed :
              applied(config, shown(table, config))[s] \in Understood[s]
<1>1. ASSUME NEW s \in SettingNames
      PROVE  shown(table, config)[s] \in Values
  BY DEF shown, Values, Tables, SettingsTypeOK
<1>2. ASSUME NEW s \in SettingNames
      PROVE  applied(config, shown(table, config))[s] \in Values
  <2>1. config[s] \in Values BY DEF SettingsTypeOK
  <2>2. assigned(s, shown(table, config)[s], config[s]) \in Values
    BY <1>1, <2>1, AssignedValue
  <2>3. Unset \in Values BY DEF Values
  <2>4. QED BY <1>1, <2>1, <2>2, <2>3 DEF applied
<1>3. ASSUME NEW s \in SettingNames \cap Typed
      PROVE  applied(config, shown(table, config))[s] \in Understood[s]
  <2>1. config[s] \in Understood[s] BY DEF SettingsTypeOK
  <2>2. table[s] \in Understood[s] \cup {Unset} BY DEF Tables, Accepted
  <2>3. shown(table, config)[s] \in Understood[s] \cup {Unset}
    BY <2>1, <2>2 DEF shown
  <2>4. s \notin Durations /\ s \notin Optional BY DEF Typed, Durations, Optional
  <2>5. QED BY <2>1, <2>3, <2>4 DEF applied
<1>4. applied(config, shown(table, config)) = [s \in SettingNames |-> applied(config, shown(table, config))[s]]
  BY DEF applied
<1>5. QED BY <1>2, <1>3, <1>4

(* ... and in step with it, where it says something.                       *)
InStep(s, memory, table) ==
  /\ table[s] \in (IF s \in Durations THEN Understood[s] ELSE Texts) => memory[s] = table[s]
  /\ s \in Optional /\ table[s] = Empty => memory[s] = Unset

LEMMA AppliedInStep ==
  ASSUME NEW s \in SettingNames, NEW table \in Tables
  PROVE  InStep(s, applied(config, shown(table, config)), table)
<1>1. CASE table[s] = Unset
  <2>1. Unset \notin Understood[s] /\ Unset \notin Texts /\ Unset # Empty
    BY SettingsAssumption
  <2>2. QED BY <1>1, <2>1 DEF InStep
<1>2. CASE table[s] # Unset
  <2>1. shown(table, config)[s] = table[s]
    BY <1>2 DEF shown
  <2>2. CASE s \in Durations
    <3>1. s \notin Optional BY <2>2 DEF Durations, Optional
    <3>2. applied(config, shown(table, config))[s] = assigned(s, table[s], config[s])
      BY <1>2, <2>1, <2>2, <3>1 DEF applied
    <3>3. QED BY <2>2, <3>1, <3>2 DEF InStep, assigned
  <2>3. CASE s \notin Durations
    <3>1. table[s] \in Texts => table[s] # Empty BY SettingsAssumption
    <3>2. QED BY <1>2, <2>1, <2>3, <3>1 DEF applied, InStep
  <2>4. QED BY <2>2, <2>3
<1>3. QED BY <1>1, <1>2

-----------------------------------------------------------------------------
(***************************************************************************)
(* The inductive invariant: SettingsInForce, and the types it needs.       *)
(***************************************************************************)
SettingsInv == SettingsTypeOK /\ SettingsInForce

LEMMA SettingsStart == SettingsInit => SettingsInv
<1>1. SUFFICES ASSUME SettingsInit PROVE SettingsInv
  OBVIOUS
<1>2. \A s \in SettingNames : Unset \in Accepted(s)
  BY DEF Accepted, Values
<1>3. SettingsTypeOK
  BY <1>1, <1>2, SettingsAssumption DEF SettingsInit, SettingsTypeOK, Values
<1>4. QED BY <1>1, <1>3 DEF SettingsInit, SettingsInv, SettingsInForce

LEMMA SettingsStep == SettingsInv /\ [SettingsNext]_settingsVars => SettingsInv'
<1>1. SUFFICES ASSUME SettingsInv, [SettingsNext]_settingsVars PROVE SettingsInv'
  OBVIOUS
<1> USE DEF SettingsInv
<1>2. flags \in Tables
  BY <1>1 DEF Tables, SettingsTypeOK
<1>3. CASE ServerStarted
  <2>1. config' \in [SettingNames -> Values]
    BY <1>3, AssignedValue, SettingsAssumption DEF ServerStarted
  <2>2. \A s \in SettingNames \cap Typed : config'[s] \in Understood[s]
    BY <1>3, AssignedTyped, SettingsAssumption DEF ServerStarted
  <2>3. tally' \in [saves : 0..SaveBound, runs : 0..RunBound, failures : 0..FailureBound]
    BY <1>1, <1>3, SettingsAssumption DEF ServerStarted, counts, SettingsTypeOK
  <2>4. SettingsTypeOK'
    BY <1>1, <1>3, <2>1, <2>2, <2>3 DEF ServerStarted, SettingsTypeOK
  <2>5. SettingsInForce'
    BY <1>3 DEF ServerStarted, SettingsInForce
  <2>6. QED BY <2>4, <2>5
<1>4. CASE ServerStopped
  BY <1>1, <1>4 DEF ServerStopped, SettingsTypeOK, SettingsInForce
<1>5. CASE SettingsLoaded
  <2>1. SettingsTypeOK'
    BY <1>1, <1>2, <1>5, AppliedType DEF SettingsLoaded, SettingsTypeOK
  <2>2. \A s \in SettingNames : InStep(s, config', flags')
    BY <1>2, <1>5, AppliedInStep DEF SettingsLoaded
  <2>3. QED BY <2>1, <2>2 DEF SettingsInForce, InStep
<1>6. CASE SettingsNotLoaded
  <2>1. tally' \in [saves : 0..SaveBound, runs : 0..RunBound, failures : 0..FailureBound]
    BY <1>1, <1>6, SettingsAssumption DEF SettingsNotLoaded, counts, SettingsTypeOK
  <2>2. SettingsTypeOK'
    BY <1>1, <1>6, <2>1 DEF SettingsNotLoaded, SettingsTypeOK
  <2>3. SettingsInForce'
    BY <1>1, <1>6 DEF SettingsNotLoaded, SettingsInForce
  <2>4. QED BY <2>2, <2>3
<1>7. ASSUME NEW body \in Bodies, SettingsSaved(body)
      PROVE  SettingsInv'
  <2>1. flags' \in Tables
    BY <1>1, <1>7, WrittenTable DEF SettingsSaved
  <2>2. tally' \in [saves : 0..SaveBound, runs : 0..RunBound, failures : 0..FailureBound]
    BY <1>1, <1>7, SettingsAssumption DEF SettingsSaved, counts, SettingsTypeOK
  <2>3. config' = applied(config, shown(flags', config)) /\ unread' = {} /\ process' = process
    BY <1>7 DEF SettingsSaved
  <2>4. /\ config' \in [SettingNames -> Values]
        /\ \A s \in SettingNames \cap Typed : config'[s] \in Understood[s]
    BY <1>1, <2>1, <2>3, AppliedType
  <2>5. SettingsTypeOK'
    BY <1>1, <2>1, <2>2, <2>3, <2>4 DEF SettingsTypeOK, Tables
  <2>6. \A s \in SettingNames : InStep(s, config', flags')
    BY <2>1, <2>3, AppliedInStep
  <2>7. QED BY <2>5, <2>6 DEF SettingsInForce, InStep
<1>8. ASSUME NEW body \in Bodies, SettingsSaveUndone(body)
      PROVE  SettingsInv'
  <2>1. /\ written(body) \in Tables
        /\ \A s \in SettingNames \ DOMAIN body : written(body)[s] = flags[s]
    BY <1>1, WrittenTable
  <2>2. tally' \in [saves : 0..SaveBound, runs : 0..RunBound, failures : 0..FailureBound]
    BY <1>1, <1>8, SettingsAssumption DEF SettingsSaveUndone, counts, SettingsTypeOK
  <2>3. /\ config' = applied(config, shown(written(body), config))
        /\ unread' = DOMAIN body /\ process' = process /\ flags' = flags
    BY <1>8 DEF SettingsSaveUndone
  <2>4. /\ config' \in [SettingNames -> Values]
        /\ \A s \in SettingNames \cap Typed : config'[s] \in Understood[s]
    BY <1>1, <2>1, <2>3, AppliedType
  <2>5. DOMAIN body \subseteq SettingNames
    BY SettingsAssumption
  <2>6. SettingsTypeOK'
    BY <1>1, <2>2, <2>3, <2>4, <2>5 DEF SettingsTypeOK
  <2>7. \A s \in SettingNames : InStep(s, config', written(body))
    BY <2>1, <2>3, AppliedInStep
  <2>8. \A s \in SettingNames \ unread' : InStep(s, config', flags')
    BY <2>1, <2>3, <2>7 DEF InStep
  <2>9. QED BY <2>6, <2>8 DEF SettingsInForce, InStep
<1>9. ASSUME NEW text \in Logos, LogoSaved(text)
      PROVE  SettingsInv'
  <2>1. text \in Accepted("APP_LOGO") /\ text \in Values /\ "APP_LOGO" \in SettingNames
    BY SettingsAssumption DEF Accepted, Typed, Values
  <2>2. /\ flags' \in [SettingNames -> Values]
        /\ \A s \in SettingNames : flags'[s] \in Accepted(s)
    BY <1>1, <1>9, <2>1 DEF LogoSaved, SettingsTypeOK
  <2>3. tally' \in [saves : 0..SaveBound, runs : 0..RunBound, failures : 0..FailureBound]
    BY <1>1, <1>9, SettingsAssumption DEF LogoSaved, counts, SettingsTypeOK
  <2>4. SettingsTypeOK'
    BY <1>1, <1>9, <2>1, <2>2, <2>3 DEF LogoSaved, SettingsTypeOK
  <2>5. /\ \A s \in SettingNames \ unread' : flags'[s] = flags[s] /\ s \notin unread
        /\ config' = config /\ process' = process
    BY <1>1, <1>9 DEF LogoSaved, SettingsTypeOK
  <2>6. SettingsInForce'
    BY <1>1, <2>5 DEF SettingsInForce
  <2>7. QED BY <2>4, <2>6
<1>10. CASE UNCHANGED settingsVars
  BY <1>1, <1>10 DEF settingsVars, SettingsTypeOK, SettingsInForce
<1>11. QED
  BY <1>1, <1>3, <1>4, <1>5, <1>6, <1>7, <1>8, <1>9, <1>10 DEF SettingsNext

(***************************************************************************)
(* A row of the table that says something is what is in force, and an      *)
(* empty one takes away what the environment says, for every setting       *)
(* memory has followed (db/settings.ts, applySettingsFromDB).              *)
(***************************************************************************)
THEOREM SavedSettingsInForce == SettingsSpec => []SettingsInForce
<1>1. SettingsInv => SettingsInForce
  BY DEF SettingsInv
<1>2. QED BY <1>1, SettingsStart, SettingsStep, PTL DEF SettingsSpec

(***************************************************************************)
(* Numbers and booleans in memory are always such: a text of the           *)
(* environment that is not leaves the default (assignConfigValue).         *)
(***************************************************************************)
THEOREM SettingsTyped == SettingsSpec => []SettingsTypeOK
<1>1. SettingsInv => SettingsTypeOK
  BY DEF SettingsInv
<1>2. QED BY <1>1, SettingsStart, SettingsStep, PTL DEF SettingsSpec
=============================================================================
