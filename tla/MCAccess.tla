------------------------------ MODULE MCAccess ------------------------------
(* A small instance of Access: tenants 1 (the default one) and 2, keys 0     *)
(* (the bootstrap key) and 1.                                                *)
EXTENDS Access

(* An empty table, or an operator of each tenant.                            *)
NoKeys == [h \in Hashes |-> Absent]
Operators == [h \in Hashes |-> NewRow(h + 1, "operator")]

Secret == [pepper |-> "set", jwt |-> "set", boot |-> FALSE]
NoVault == [used |-> FALSE, pepper |-> FALSE, jwt |-> FALSE, boot |-> FALSE]
AnyVault == {NoVault} \cup [used : {TRUE}, pepper : BOOLEAN, jwt : BOOLEAN, boot : BOOLEAN]

(* Everything that production must refuse, and a development with a bootstrap*)
(* key, both before there are keys; a production with its secrets in Vault.  *)
Refused == {c \in [production : {TRUE}, env : SettingsType, vault : AnyVault] :
                Insecure(Hydrated(c.env, c.vault))}
InVault == [production |-> TRUE,
            env |-> [pepper |-> "default", jwt |-> "default", boot |-> FALSE],
            vault |-> [used |-> TRUE, pepper |-> TRUE, jwt |-> TRUE, boot |-> FALSE]]
Keyless == [production |-> FALSE, env |-> [Secret EXCEPT !.boot = TRUE], vault |-> NoVault]

AnyDeployment ==
    [config : Refused \cup {Keyless}, keys : {NoKeys}] \cup {[config |-> InVault, keys |-> Operators]}
=============================================================================
