------------------------------ MODULE EnvProfile ------------------------------
(***************************************************************************)
(* One .env and its four readers.  src/app/server.py reads it as the       *)
(* container starts, src/app/live_env_profile.py audits it stage by stage, *)
(* deploy/deploy-server.sh checks it before it starts the container, and   *)
(* scripts/preflight.py (first step of deploy/verify-server.sh) after.     *)
(* Each has its own idea of what switches a flag on, of what a filled-in   *)
(* secret is and of which address is private; the properties relate what   *)
(* the deployment let through to what the service then makes of it.        *)
(***************************************************************************)
EXTENDS Naturals

CONSTANTS
    Templates,   \* the .env files an operator starts from
    MaxEdits     \* bound: settings changed, one at a time

VARIABLES
    envFile,     \* the settings in .env, by what the readers tell apart
    container,   \* the settings the running service was created with
    deployStep,  \* where the deployment stands
    leave,       \* TRADER_ALLOW_LIVE_DEPLOY of this deployment
    granted,     \* ghost: the leave the running service was deployed with
    edits

envVars == <<envFile, container, deployStep, leave, granted, edits>>

(* "1" stands for the spellings "1", "yes", "on" and "enabled". *)
Flag == {"true", "1", "false"}
Secret == {"none", "placeholder", "set"}

(* live: ENABLE_BINANCE_LIVE; place: BINANCE_PLACE_LIVE_ORDERS; safety: the
   margin, leverage and one-way flags; alert: the webhook's flag and URL; caps:
   the order and the wallet cap are positive. *)
Values ==
    [appEnv |-> {"server", "Server", "local"},
     mode |-> {"paper", "live_guarded", "Live_Guarded"},
     live |-> Flag, place |-> Flag, liveKeys |-> Secret, phrase |-> BOOLEAN,
     testnet |-> Flag, testnetKeys |-> Secret,
     password |-> {"none", "short", "placeholder", "strong"},
     bind |-> {"private", "hostname", "public"},
     safety |-> Flag, alert |-> Secret, caps |-> BOOLEAN,
     operator |-> {"off", "backed", "bare"}]

IsSettings(e) ==
    DOMAIN e = DOMAIN Values /\ \A field \in DOMAIN Values : e[field] \in Values[field]

ASSUME EnvAssumption == MaxEdits \in Nat /\ \A e \in Templates : IsSettings(e)

Nowhere == [up |-> FALSE]

-----------------------------------------------------------------------------
(* The service: env_bool and plain strings, lowered. *)
EnvBool(v) == v \in {"true", "1"}

ServerMode(e) == e.appEnv # "local"
ServerAuth(e) == e.password # "none"
ServerBindIsPrivate(e) == e.bind = "private"
ServerAlerts(e) == e.alert # "none"

(* enabled_modes holds live_guarded. *)
LiveCapable(e) ==
    EnvBool(e.live) /\ e.liveKeys # "none" /\ EnvBool(e.place) /\ e.phrase

TestnetCapable(e) == e.testnet = "true" /\ e.testnetKeys # "none"

(* The gates of go_live_gate_status that only settings decide; the mode of an
   order comes with its request, EXCHANGE_MODE is only the default. *)
ConfigGatesPass(e) ==
    /\ ServerMode(e) /\ ServerAuth(e) /\ ServerBindIsPrivate(e)
    /\ EnvBool(e.safety)
    /\ ServerAlerts(e)
    /\ e.caps

-----------------------------------------------------------------------------
(* app/live_env_profile.py. *)
ProfileBoolLiteral(v) == v = "true"
ProfileBool(v) == v \in {"true", "1"}

Present(s) == s = "set"

MvpChecks(e, target) ==
    /\ e.appEnv # "local"
    /\ e.password = "strong"
    /\ e.bind # "public"
    /\ target = "live_guarded" \/ ~(ProfileBool(e.live) \/ ProfileBool(e.place))
    /\ e.operator = "backed"

TestnetValidateChecks(e) == ProfileBool(e.testnet) /\ Present(e.testnetKeys)

(* Only warns about EXCHANGE_MODE, unless testnet_place is the target. *)
TestnetPlaceChecks(e) == ProfileBool(e.safety)

LiveChecks(e) ==
    /\ e.mode # "paper" /\ ProfileBool(e.live) /\ ProfileBool(e.place)
    /\ Present(e.liveKeys) /\ e.phrase
    /\ Present(e.alert)
    /\ e.caps
    /\ ProfileBool(e.safety)

(* build_live_env_profile(...)["ok"]: no failing check up to the target. *)
ProfileOk(e, target) ==
    /\ MvpChecks(e, target)
    /\ target = "live_guarded" =>
         TestnetValidateChecks(e) /\ TestnetPlaceChecks(e) /\ LiveChecks(e)

-----------------------------------------------------------------------------
(* deploy/deploy-server.sh, which compares strings as they stand. *)
LiteralLive(e) == e.live = "true" \/ e.place = "true" \/ e.mode = "live_guarded"

ServerEnvValid(e, allow) ==
    /\ e.appEnv = "server" /\ e.password = "strong" /\ e.bind = "private"
    /\ e.operator # "bare"
    /\ LiteralLive(e) => allow

Target(e) == IF LiteralLive(e) THEN "live_guarded" ELSE "mvp_server"

(* scripts/preflight.py: a flag is on when it reads true, EXCHANGE_MODE is
   taken as it stands, a secret is there when it is not empty. *)
PreflightLive(e) == LiteralLive(e)

PreflightOk(e) ==
    /\ e.appEnv = "server" => e.password = "strong" /\ e.bind = "private"
    /\ e.mode # "Live_Guarded"
    /\ PreflightLive(e) => e.caps /\ e.appEnv = "server" /\ e.safety = "true" /\ e.alert # "none"
    /\ e.place = "true" \/ e.mode = "live_guarded" =>
         e.live = "true" /\ e.liveKeys # "none" /\ e.phrase
    /\ e.mode = "live_guarded" => e.place = "true"
    /\ e.testnet = "true" => e.testnetKeys # "none"
    /\ e.appEnv = "server" => e.operator # "bare"

-----------------------------------------------------------------------------
(* The operator edits .env while no deployment runs. *)
Edit(field, value) ==
    /\ deployStep = "idle" /\ edits < MaxEdits
    /\ envFile[field] # value
    /\ envFile' = [envFile EXCEPT ![field] = value]
    /\ edits' = edits + 1
    /\ UNCHANGED <<container, deployStep, leave, granted>>

(* validate_server_env, then live_env_profile.py --strict. *)
CheckEnv(allow) ==
    /\ deployStep = "idle"
    /\ leave' = allow
    /\ deployStep' = IF ServerEnvValid(envFile, allow) /\ ProfileOk(envFile, Target(envFile))
                     THEN "checked" ELSE "idle"
    /\ UNCHANGED <<envFile, container, granted, edits>>

(* docker compose up -d: the container is made anew from .env. *)
StartContainer ==
    /\ deployStep = "checked"
    /\ container' = [up |-> TRUE, env |-> envFile]
    /\ granted' = leave
    /\ deployStep' = "up"
    /\ UNCHANGED <<envFile, leave, edits>>

(* deploy/verify-server.sh; set -e ends the script where a step fails, and
   nothing takes the container down again. *)
Verify ==
    /\ deployStep = "up"
    /\ deployStep' = IF PreflightOk(envFile) THEN "verified" ELSE "refused"
    /\ UNCHANGED <<envFile, container, leave, granted, edits>>

(* The script has ended; the next deployment may begin. *)
EndDeploy ==
    /\ deployStep \in {"verified", "refused"}
    /\ deployStep' = "idle"
    /\ UNCHANGED <<envFile, container, leave, granted, edits>>

EnvInit ==
    /\ envFile \in Templates
    /\ container = Nowhere
    /\ deployStep = "idle" /\ leave = FALSE /\ granted = FALSE /\ edits = 0

EnvNext ==
    \/ \E field \in DOMAIN Values : \E value \in Values[field] : Edit(field, value)
    \/ \E allow \in BOOLEAN : CheckEnv(allow)
    \/ StartContainer \/ Verify \/ EndDeploy

EnvSpec == EnvInit /\ [][EnvNext]_envVars

-----------------------------------------------------------------------------
(* The deployment only starts a container whose .env it has accepted: neither
   the edits nor the settings leave their range, and past its start the
   deployment has a service to verify. *)
EnvTypeOK ==
    /\ IsSettings(envFile)
    /\ container = Nowhere \/ (container.up /\ IsSettings(container.env))
    /\ deployStep \in {"idle", "checked", "up", "verified", "refused"}
    /\ leave \in BOOLEAN /\ granted \in BOOLEAN /\ edits \in 0..MaxEdits
    /\ deployStep \in {"up", "verified", "refused"} => container.up

(* Whatever spelling .env uses, a service that can place live orders was
   deployed with TRADER_ALLOW_LIVE_DEPLOY=true: the script compares strings
   with true, the service takes 1, yes and on as well, and the profile's own
   reading has to close the gap (deploy/deploy-server.sh:89-92). *)
LiveDeployNeedsLeave == container.up /\ LiveCapable(container.env) => granted

(* A service deployed able to place live orders passes every gate that only its
   settings decide: what the profile demands of the file is at least what the
   gate of the service demands of its settings (live_env_profile.py:352-440
   against server.py:6612-6999). *)
LiveDeployPassesConfigGates ==
    container.up /\ LiveCapable(container.env) => ConfigGatesPass(container.env)

(* No deployed service listens without authentication or on an address its own
   private_bind_profile refuses: the profile only warns of a host name, the
   script has to refuse it (deploy-server.sh:62-83). *)
DeployedNeverExposed ==
    container.up => ServerAuth(container.env) /\ ServerBindIsPrivate(container.env)

(* What a deployment lets through to the service, whatever the spelling of .env
   and wherever the deployment stops. *)
DeploymentSound ==
    EnvTypeOK /\ LiveDeployNeedsLeave /\ LiveDeployPassesConfigGates /\ DeployedNeverExposed

-----------------------------------------------------------------------------
(* Known not to hold, each stated for the record.  A service that can place
   live orders has passed the preflight: the deployment ends where the
   preflight refuses, and leaves the service it has started running. *)
RunningLiveIsVerified ==
    deployStep = "refused" => ~LiveCapable(container.env)

(* The profile accepts ENABLE_BINANCE_TESTNET=1, the service does not. *)
AcceptedTestnetWorks ==
    container.up /\ LiveCapable(container.env) => TestnetCapable(container.env)
==============================================================================
