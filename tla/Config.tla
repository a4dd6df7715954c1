-------------------------------- MODULE Config --------------------------------
(***************************************************************************)
(* The configuration of the agent: loadConfig of src/config.ts, and what    *)
(* src/windows-service-entry.ts makes of its protected file before it calls *)
(* that.  An environment is a function from the settings it sets, without   *)
(* the prefix of their names; an empty value counts as not set.             *)
(***************************************************************************)
EXTENDS Integers, Sequences

CONSTANT Refused   \* the result of a configuration the agent does not start with

env(e, name, fallback) == IF name \in DOMAIN e THEN e[name] ELSE fallback

\* A number that is no integer is outside every range.
intEnv(e, name, fallback, min, max) == env(e, name, fallback) \in min..max

\* What is neither yes nor no is refused; `BoolSettings` names who is asked.
BoolSettings == {"ALLOW_INSECURE_TRANSPORT", "WRITE_ENABLED", "MOCK_ACTIONS_ENABLED"}
boolEnv(e, name) == env(e, name, "no") = "yes"

NoDuplicates(s) == \A i, j \in DOMAIN s : s[i] = s[j] => i = j

\* A list of names, each of which some set admits.
csvEnv(e, name, admitted) ==
  LET values == env(e, name, <<>>)
  IN NoDuplicates(values) /\ \A i \in DOMAIN values : values[i] \in admitted

\* A URL is what its scheme is, or "credentials" if it holds some.
platformUrl(e) ==
  \/ env(e, "PLATFORM_URL", "") = "https"
  \/ env(e, "PLATFORM_URL", "") = "http" /\ boolEnv(e, "ALLOW_INSECURE_TRANSPORT")

Pair(e) == <<env(e, "OS_FAMILY", "linux"), env(e, "SERVICE_MANAGER", "systemd")>>
IsWindows(e) == env(e, "OS_FAMILY", "linux") = "windows"
Mock(e) == env(e, "COLLECTOR_MODE", "live") = "mock"

\* Intervals in seconds, sizes in KiB.
MinInterval(e) == env(e, "MIN_SNAPSHOT_INTERVAL", 10)
MaxInterval(e) == env(e, "MAX_SNAPSHOT_INTERVAL", 3600)
MinBytes(e)    == env(e, "MIN_SNAPSHOT_BYTES", 16)
MaxRemote(e)   == env(e, "MAX_REMOTE_SNAPSHOT_BYTES", 1024)

\* Each bound is checked against the one before, whichever of them are defaults.
Bounds(e) ==
  /\ intEnv(e, "MIN_SNAPSHOT_INTERVAL", 10, 5, 60)
  /\ intEnv(e, "MAX_SNAPSHOT_INTERVAL", 3600, MinInterval(e), 86400)
  /\ intEnv(e, "SNAPSHOT_INTERVAL", 60, MinInterval(e), MaxInterval(e))
  /\ intEnv(e, "MIN_SNAPSHOT_BYTES", 16, 4, 1024)
  /\ intEnv(e, "MAX_REMOTE_SNAPSHOT_BYTES", 1024, MinBytes(e), 10240)
  /\ intEnv(e, "MAX_SNAPSHOT_BYTES", 1024, MinBytes(e), MaxRemote(e))

Policy(e) ==
  /\ IsWindows(e) => ~boolEnv(e, "WRITE_ENABLED") /\ ~boolEnv(e, "MOCK_ACTIONS_ENABLED")
  /\ boolEnv(e, "MOCK_ACTIONS_ENABLED") => Mock(e) /\ boolEnv(e, "WRITE_ENABLED")

\* loadConfig()
loadConfig(e) ==
  IF /\ \A name \in BoolSettings : env(e, name, "no") \in {"yes", "no"}
     /\ env(e, "TARGET_TYPE", "virtual_machine") = "virtual_machine"
     /\ Pair(e) \in {<<"linux", "systemd">>, <<"windows", "scm">>}
     /\ IsWindows(e) => csvEnv(e, "ALLOWED_LOG_CHANNELS", {"Application", "System"})
     /\ csvEnv(e, "ALLOWED_LOG_UNITS", {"a.service", "b.service"})
     /\ env(e, "COLLECTOR_MODE", "live") \in {"live", "mock"}
     /\ env(e, "ADDITIONAL_CA_BUNDLE_FILE", "readable") = "readable"
     /\ env(e, "LOG_LEVEL", "info") \in {"debug", "info", "warn", "error"}
     /\ env(e, "ACTIONS_SOCKET", "absolute") = "absolute"
     /\ {"TARGET_ID", "AGENT_KEY"} \subseteq DOMAIN e
     /\ Bounds(e) /\ Policy(e) /\ platformUrl(e)
  THEN [osFamily |-> env(e, "OS_FAMILY", "linux"),
        collectorMode |-> env(e, "COLLECTOR_MODE", "live"),
        platformUrl |-> e["PLATFORM_URL"],
        snapshotInterval |-> env(e, "SNAPSHOT_INTERVAL", 60),
        minSnapshotInterval |-> MinInterval(e), maxSnapshotInterval |-> MaxInterval(e),
        allowedLogUnits |-> {env(e, "ALLOWED_LOG_UNITS", <<>>)[i] :
                               i \in DOMAIN env(e, "ALLOWED_LOG_UNITS", <<>>)},
        writeEnabled |-> boolEnv(e, "WRITE_ENABLED"),
        mockActionsEnabled |-> boolEnv(e, "MOCK_ACTIONS_ENABLED")]
  ELSE Refused

-----------------------------------------------------------------------------
(* The Windows service. *)

settingsKeys ==
  {"PLATFORM_URL", "TARGET_ID", "AGENT_KEY", "TARGET_TYPE",
   "SNAPSHOT_INTERVAL", "MIN_SNAPSHOT_INTERVAL", "MAX_SNAPSHOT_INTERVAL",
   "MAX_SNAPSHOT_BYTES", "MIN_SNAPSHOT_BYTES", "MAX_REMOTE_SNAPSHOT_BYTES",
   "LOG_LEVEL", "ALLOWED_LOG_CHANNELS", "ADDITIONAL_CA_BUNDLE_FILE",
   "OS_FAMILY", "SERVICE_MANAGER", "COLLECTOR_MODE", "WRITE_ENABLED", "MOCK_ACTIONS_ENABLED"}

fixed ==
  [OS_FAMILY |-> "windows", SERVICE_MANAGER |-> "scm", COLLECTOR_MODE |-> "live",
   WRITE_ENABLED |-> "no", MOCK_ACTIONS_ENABLED |-> "no", TARGET_TYPE |-> "virtual_machine"]

\* A file may repeat the fixed settings and set the other named ones.
parseWindowsServiceConfig(file) ==
  IF /\ DOMAIN file \subseteq settingsKeys
     /\ \A name \in DOMAIN fixed \cap DOMAIN file : file[name] = fixed[name]
  THEN [name \in DOMAIN fixed \cup DOMAIN file |->
          IF name \in DOMAIN fixed THEN fixed[name] ELSE file[name]]
  ELSE Refused

\* Mutant of ServiceEnvironment: what the service was started with stays.
ServiceEnvironmentKept(inherited, settings) ==
  [name \in DOMAIN settings \cup DOMAIN inherited |->
     IF name \in DOMAIN settings THEN settings[name] ELSE inherited[name]]

\* Every setting of the agent is deleted before those of the file are made.
ServiceEnvironment(inherited, settings) == settings

=============================================================================
