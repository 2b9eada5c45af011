------------------------------- MODULE Access -------------------------------
(* Who gets in: the replicas of the API as they start (the lifespan of       *)
(* main.py, core/secrets.py, validate_secrets_for_environment of             *)
(* core/config.py, bootstrap_if_empty) over the tables of Credentials, and   *)
(* the requests that replicas serve once they have started.                  *)
EXTENDS Credentials

CONSTANTS
    Replicas,       \* processes of the API
    Deployments,    \* settings they are all deployed with, keys there are by then
    MaxCrashes      \* bound: replicas that die, and answers Vault does not give

(* A setting is still its default, or another value that is refused in       *)
(* production, or a secret; Vault has a secret or nothing.                   *)
SettingsType == [pepper : {"default", "set"}, jwt : {"default", "placeholder", "set"},
                 boot : BOOLEAN]
VaultType == [used : BOOLEAN, pepper : BOOLEAN, jwt : BOOLEAN, boot : BOOLEAN]
ConfigType == [production : BOOLEAN, env : SettingsType, vault : VaultType]

ASSUME AccessAssumption ==
    /\ Deployments \subseteq [config : ConfigType, keys : [Hashes -> RowType]]
    /\ MaxCrashes \in Nat

VARIABLES
    config,             \* how the replicas are deployed
    rpc, settings,      \* of each replica: where its lifespan is, its settings
    group,              \* the consumer group of the job stream exists
    crashes

replicaVars == <<config, rpc, settings, group, crashes>>
vars == <<credVars, replicaVars>>

AccessTypeOK ==
    /\ CredentialsTypeOK
    /\ config \in ConfigType
    /\ rpc \in [Replicas -> {"deployed", "validate", "group", "count", "import", "serving",
                            "down"}]
    /\ settings \in [Replicas -> SettingsType]
    /\ group \in BOOLEAN
    /\ crashes \in 0..MaxCrashes

AccessInit ==
    /\ CredentialsInit
    /\ \E d \in Deployments : config = d.config /\ keys = d.keys
    /\ audit = {<<"create", h>> : h \in {k \in Hashes : keys[k].state # "absent"}}
               \cup {<<"revoke", h>> : h \in {k \in Hashes : keys[k].state = "disabled"}}
    /\ rpc = [r \in Replicas |-> "deployed"]
    /\ settings = [r \in Replicas |-> config.env]
    /\ group = FALSE
    /\ crashes = 0

-----------------------------------------------------------------------------
(* lifespan *)

(* A value of Vault replaces a default; the bootstrap key fills an empty one.*)
Hydrated(env, vault) ==
    [pepper |-> IF env.pepper = "default" /\ vault.used /\ vault.pepper
                THEN "set" ELSE env.pepper,
     jwt    |-> IF env.jwt = "default" /\ vault.used /\ vault.jwt
                THEN "set" ELSE env.jwt,
     boot   |-> env.boot \/ (vault.used /\ vault.boot)]

Insecure(s) == s.pepper = "default" \/ s.jwt # "set" \/ s.boot

Goto(r, p) == rpc' = [rpc EXCEPT ![r] = p]

(* The process ends.  Nothing restarts it (docker-compose.yml has no restart *)
(* policy); if somebody does, it begins with the settings of its container.  *)
GiveUp(r) ==
    /\ Goto(r, "down")
    /\ settings' = [settings EXCEPT ![r] = config.env]

Hydrate(r) ==
    /\ rpc[r] \in {"deployed", "down"}
    /\ settings' = [settings EXCEPT ![r] = Hydrated(settings[r], config.vault)]
    /\ Goto(r, "validate")
    /\ UNCHANGED <<credVars, config, group, crashes>>

ValidateUnhydrated(r) ==    \* mutant: the deployed settings are validated
    /\ rpc[r] = "validate"
    /\ IF config.production /\ Insecure(config.env) THEN GiveUp(r)
       ELSE Goto(r, "group") /\ UNCHANGED settings
    /\ UNCHANGED <<credVars, config, group, crashes>>

(* validate_secrets_for_environment                                          *)
Validate(r) ==
    /\ rpc[r] = "validate"
    /\ IF config.production /\ Insecure(settings[r]) THEN GiveUp(r)
       ELSE Goto(r, "group") /\ UNCHANGED settings
    /\ UNCHANGED <<credVars, config, group, crashes>>

EnsureNewGroup(r) ==    \* mutant: BUSYGROUP is raised
    /\ rpc[r] = "group"
    /\ group' = TRUE
    /\ IF group THEN GiveUp(r) ELSE Goto(r, "count") /\ UNCHANGED settings
    /\ UNCHANGED <<credVars, config, crashes>>

(* ensure_group: a group that exists already is no error.                    *)
EnsureGroup(r) ==
    /\ rpc[r] = "group"
    /\ group' = TRUE
    /\ Goto(r, "count")
    /\ UNCHANGED <<credVars, config, settings, crashes>>

Rows == {h \in Hashes : keys[h].state # "absent"}

(* bootstrap_if_empty: the number of rows, and import_key in another session.*)
CountKeys(r) ==
    /\ rpc[r] = "count"
    /\ Goto(r, IF settings[r].boot /\ Rows = {} THEN "import" ELSE "serving")
    /\ UNCHANGED <<credVars, config, settings, group, crashes>>

(* import_key.  The unique key_hash lets one replica through; the start of   *)
(* the others ends with an IntegrityError.                                   *)
ImportKey(r) ==
    /\ rpc[r] = "import"
    /\ \/ /\ keys[BootHash].state = "absent"
          /\ keys' = [keys EXCEPT ![BootHash] = NewRow(DefaultTenant, "operator")]
          /\ audit' = audit \cup {<<"import", BootHash>>}
          /\ Goto(r, "serving")
          /\ UNCHANGED settings
       \/ /\ keys[BootHash].state # "absent"
          /\ GiveUp(r)
          /\ UNCHANGED <<keys, audit>>
    /\ UNCHANGED <<accounts, token, requestVars, config, group, crashes>>

(* The process dies, or a call of its start raises: Vault, Redis, PostgreSQL.*)
ReplicaFails(r) ==
    /\ rpc[r] # "down" \/ config.vault.used
    /\ crashes < MaxCrashes /\ crashes' = crashes + 1
    /\ GiveUp(r)
    /\ UNCHANGED <<credVars, config, group>>

Start(r) == Hydrate(r) \/ Validate(r) \/ EnsureGroup(r) \/ CountKeys(r) \/ ImportKey(r)

-----------------------------------------------------------------------------

Up == \E r \in Replicas : rpc[r] = "serving"

Arrives(c) ==
    /\ Up
    /\ \/ \E d \in Hashes \cup Accounts : Begin(c, d)
       \/ \E a \in Accounts : Exchange(c, a)

AccessNext ==
    \/ \E r \in Replicas : Start(r) \/ ReplicaFails(r)
    \/ \E c \in Clients : /\ Arrives(c) \/ Serve(c) \/ Administer(c) \/ Answered(c)
                          /\ UNCHANGED replicaVars
    \/ TokensAge /\ UNCHANGED replicaVars

AccessSpec == AccessInit /\ [][AccessNext]_vars

(* What is deployed is started once, a start goes on, requests are served    *)
(* and time passes.  Nobody need start a replica again.                      *)
FairAccessSpec ==
    /\ AccessSpec
    /\ \A r \in Replicas : WF_vars(rpc[r] # "down" /\ Start(r))
    /\ \A c \in Clients : WF_vars((Serve(c) \/ Answered(c)) /\ UNCHANGED replicaVars)
    /\ WF_vars(TokensAge /\ UNCHANGED replicaVars)

-----------------------------------------------------------------------------
(* Properties *)

(* In production no replica serves with a default secret or with a bootstrap *)
(* key in its settings, whether they come from the environment or from Vault *)
(* (config.py:93-107, main.py:26-27).                                        *)
SafeInProduction ==
    config.production => \A r \in Replicas :
        rpc[r] = "serving" => /\ settings[r].pepper = "set" /\ settings[r].jwt = "set"
                              /\ ~config.env.boot
                              /\ ~(config.vault.used /\ config.vault.boot)

Deployable ==
    config.production => /\ config.env.pepper = "set" \/ (config.vault.used /\ config.vault.pepper)
                         /\ \/ config.env.jwt = "set"
                            \/ config.env.jwt = "default" /\ config.vault.used /\ config.vault.jwt
                         /\ ~config.env.boot /\ ~(config.vault.used /\ config.vault.boot)

(* The replicas of a deployment with settings fit for their environment come *)
(* up and stay, each of them unless it fails; but once the bootstrap key is  *)
(* imported, those that lose the race for it end with an error, and only one *)
(* is certain to serve, as long as none fails (main.py:24-32,                *)
(* auth/service.py:158-173).                                                 *)
Serving == {r \in Replicas : rpc[r] = "serving"}
Bootstrapped == <<"import", BootHash>> \in audit

ReplicasServe ==
    Deployable => <>[](Cardinality(Serving) + crashes
                           >= IF Bootstrapped THEN 1 ELSE Cardinality(Replicas))

(* The bootstrap key only ever enters an empty table, however long a replica *)
(* takes from counting the rows to importing it, and whatever the operators  *)
(* do meanwhile (auth/service.py:158-173).                                   *)
ImportedFirst ==
    [][Imported(BootHash) => \A h \in Hashes : keys[h].state = "absent"]_vars
=============================================================================
