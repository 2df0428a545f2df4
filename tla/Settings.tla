------------------------------ MODULE Settings ------------------------------
(***************************************************************************)
(* The settings of the server.  What is in force is in memory: filled from *)
(* the environment when the process starts (util/config.ts), overridden    *)
(* from the table by the first maintenance run (cli/server.ts), and again  *)
(* whenever an administrator saves settings (routes/admin.ts).  Memory     *)
(* changes before the transaction ends, and stays when it is undone.       *)
(***************************************************************************)
EXTENDS Naturals

CONSTANTS
  SettingNames,
  Unset,           \* no value: null, undefined, no row
  Empty,           \* the empty text
  Texts,           \* the other texts
  Understood,      \* [SettingNames -> those of them that mean a value of its type]
  No,              \* "false", where a duration is asked for
  Hour,            \* the default of ADMIN_EMAILS
  Environment,     \* [SettingNames -> texts]
  Defaults,        \* [SettingNames -> texts], of the class Config
  Bodies,          \* what administrators save: functions on some names
  Logos,           \* and upload
  SaveBound, RunBound, FailureBound   \* saves, processes, failed transactions

Values == Texts \cup {Unset, Empty}
Durations == {"ADMIN_EMAILS", "DEFAULT_USER_EXPIRES_IN"}
Optional == {"CONTACT_EMAIL", "DEFAULT_REDIRECT", "SMTP_FROM", "APP_LOGO"}
Typed == {"SIGNUP", "SIGNUP_REQUIRES_APPROVAL", "EMAIL_VERIFICATION", "MFA_REQUIRED",
          "PASSWORD_STRENGTH", "API_RATELIMIT"}

(* The route takes what its schema allows: numbers and booleans are what   *)
(* they should be.                                                         *)
Accepted(s) == IF s \in Typed THEN Understood[s] \cup {Unset} ELSE Values

ASSUME SettingsAssumption ==
  /\ Unset # Empty /\ Unset \notin Texts /\ Empty \notin Texts /\ Hour \in Texts
  /\ "APP_LOGO" \in SettingNames
  /\ Understood \in [SettingNames -> SUBSET Texts]
  /\ Defaults \in [SettingNames -> Values] /\ Environment \in [SettingNames -> Values]
  /\ \A s \in SettingNames \cap Typed : Defaults[s] \in Understood[s]
  /\ \A body \in Bodies : \A s \in DOMAIN body : s \in SettingNames /\ body[s] \in Accepted(s)
  /\ Logos \subseteq Texts
  /\ SaveBound \in Nat /\ RunBound \in Nat /\ FailureBound \in Nat

VARIABLES
  flags,           \* table flag: [SettingNames -> texts]
  config,          \* appConfig: the same
  process,         \* "down", "starting" until the first maintenance run, "serving"
  unread,          \* settings whose row memory has not followed since it changed
  tally            \* what the bounds count

settingsVars == <<flags, config, process, unread, tally>>

SettingsTypeOK ==
  /\ flags \in [SettingNames -> Values] /\ \A s \in SettingNames : flags[s] \in Accepted(s)
  /\ config \in [SettingNames -> Values]
  /\ process \in {"down", "starting", "serving"} /\ unread \subseteq SettingNames
  /\ tally \in [saves : 0..SaveBound, runs : 0..RunBound, failures : 0..FailureBound]
  /\ \A s \in SettingNames \cap Typed : config[s] \in Understood[s]

SettingsInit ==
  /\ flags = [s \in SettingNames |-> Unset] /\ config = Defaults
  /\ process = "down" /\ unread = SettingNames
  /\ tally = [saves |-> 0, runs |-> 0, failures |-> 0]

(* assignConfigValue: a text that makes no sense leaves what was there.    *)
assigned(s, text, old) ==
  IF s \notin Typed \cup Durations THEN IF text = Unset THEN old ELSE text
  ELSE IF text \in Understood[s] THEN text
  ELSE IF s = "ADMIN_EMAILS" /\ text # No THEN Hour ELSE old

(* Mistaken: an empty text is no value.                                    *)
shownUnlessEmpty(table, memory) ==
  [s \in SettingNames |->
     IF table[s] \in Texts THEN table[s]
     ELSE IF s \in Durations \cup {"APP_LOGO"} \/ (memory[s] = Empty /\ s \notin Optional)
     THEN Unset ELSE memory[s]]

(* getAllSettings: the table, and what is in force where it has no value.  *)
shown(table, memory) ==
  [s \in SettingNames |->
     IF table[s] # Unset THEN table[s]
     ELSE IF s \in Durations \cup {"APP_LOGO"} \/ (memory[s] = Empty /\ s \notin Optional)
     THEN Unset ELSE memory[s]]

(* applySettingsFromDB.                                                    *)
applied(memory, settings) ==
  [s \in SettingNames |->
     CASE settings[s] = Unset -> memory[s]
       [] s \in Durations -> assigned(s, settings[s], memory[s])
       [] s \in Optional /\ settings[s] = Empty -> Unset
       [] OTHER -> settings[s]]

counts(what) == tally' = [tally EXCEPT ![what] = @ + 1]

-----------------------------------------------------------------------------
(* The process starts, and ends.                                           *)
ServerStarted ==
  /\ process = "down" /\ tally.runs < RunBound /\ counts("runs")
  /\ process' = "starting"
  /\ config' = [s \in SettingNames |-> assigned(s, Environment[s], Defaults[s])]
  /\ unread' = SettingNames
  /\ UNCHANGED flags

ServerStopped ==
  /\ process # "down" /\ process' = "down"
  /\ UNCHANGED <<flags, config, unread, tally>>

(* doMaintenance(true), which may fail before it comes to the settings; if *)
(* it fails after that they are in force all the same.                     *)
SettingsLoaded ==
  /\ process = "starting" /\ process' = "serving"
  /\ config' = applied(config, shown(flags, config))
  /\ unread' = {}
  /\ UNCHANGED <<flags, tally>>

SettingsNotLoaded ==
  /\ process = "starting" /\ process' = "serving"
  /\ tally.failures < FailureBound /\ counts("failures")
  /\ UNCHANGED <<flags, config, unread>>

(* PATCH /settings, in the transaction of the request.                     *)
written(body) == [s \in SettingNames |-> IF s \in DOMAIN body THEN body[s] ELSE flags[s]]

SettingsSaved(body) ==
  /\ process # "down" /\ tally.saves < SaveBound /\ counts("saves")
  /\ flags' = written(body)
  /\ config' = applied(config, shown(flags', config))
  /\ unread' = {}
  /\ UNCHANGED process

(* It is not committed: the rows are as they were, memory is not.          *)
SettingsSaveUndone(body) ==
  /\ process # "down" /\ tally.failures < FailureBound /\ counts("failures")
  /\ config' = applied(config, shown(written(body), config))
  /\ unread' = DOMAIN body
  /\ UNCHANGED <<flags, process>>

(* POST /settings/logo: memory does not follow.                            *)
LogoSaved(text) ==
  /\ process # "down" /\ tally.saves < SaveBound /\ counts("saves")
  /\ flags' = [flags EXCEPT !["APP_LOGO"] = text]
  /\ unread' = unread \cup {"APP_LOGO"}
  /\ UNCHANGED <<config, process>>

SettingsNext ==
  \/ ServerStarted \/ ServerStopped \/ SettingsLoaded \/ SettingsNotLoaded
  \/ \E body \in Bodies : SettingsSaved(body) \/ SettingsSaveUndone(body)
  \/ \E text \in Logos : LogoSaved(text)

SettingsSpec == SettingsInit /\ [][SettingsNext]_settingsVars

-----------------------------------------------------------------------------
(***************************************************************************)
(* What an administrator has saved overrides the environment, now and in   *)
(* every later process: a row that says something is what is in force, and *)
(* an empty one takes away what the environment says, whatever was saved,  *)
(* undone or not loaded before, as soon as settings are read at all        *)
(* (getAllSettings, applySettingsFromDB).                                  *)
(* Of a row without a value nothing is said: memory keeps what it has      *)
(* until the process ends.                                                 *)
(***************************************************************************)
SettingsInForce ==
  process # "down" =>
    \A s \in SettingNames \ unread :
      /\ flags[s] \in (IF s \in Durations THEN Understood[s] ELSE Texts) => config[s] = flags[s]
      /\ s \in Optional /\ flags[s] = Empty => config[s] = Unset
=============================================================================
