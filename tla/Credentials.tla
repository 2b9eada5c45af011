---------------------------- MODULE Credentials ----------------------------
(* API keys, service accounts and access tokens: auth/service.py,            *)
(* auth/service_account_service.py, auth/jwt_service.py, and the requests    *)
(* that deps.py lets through to the routes of api/admin_routes.py and        *)
(* api/auth_routes.py.  A request runs in a thread of its own; each step is  *)
(* one statement or transaction of the database.                             *)
EXTENDS Integers, FiniteSets

CONSTANTS
    Clients,            \* threads that serve requests
    Tenants,
    DefaultTenant,      \* DEFAULT_TENANT_ID
    Hashes,             \* bound: key_hash of the keys there can be
    BootHash,           \* that of AUTH_BOOTSTRAP_OPERATOR_KEY
    Accounts,           \* bound: service accounts there can be
    NoCred,
    Grants,             \* bound: roles that operators give
    Lifetime            \* JWT_ACCESS_TOKEN_EXPIRE_MINUTES, in ticks

ASSUME CredentialsAssumption ==
    /\ DefaultTenant \in Tenants /\ BootHash \in Hashes
    /\ Hashes \cap Accounts = {} /\ NoCred \notin Hashes \cup Accounts
    /\ Grants \subseteq {"viewer", "producer", "operator"}
    /\ Lifetime \in Nat \ {0}

Role == {"viewer", "producer", "operator"}
RoleRank == [viewer |-> 1, producer |-> 2, operator |-> 3]

VARIABLES
    keys, accounts,     \* rows of api_keys by key_hash, and of service_accounts
    audit,              \* rows of audit_log: action and target
    token,              \* ticks until the youngest token of an account expires
    cpc, cred, who,     \* of each request: where it is, credential, Principal
    revoked             \* history: its key was revoked before it began

tableVars   == <<keys, accounts, audit>>
requestVars == <<cpc, cred, who, revoked>>
credVars    == <<tableVars, token, requestVars>>

RowType == [state : {"absent", "enabled", "disabled"}, tenant : Tenants, role : Role]
Principal == [tenant : Tenants, role : Role]

Absent == [state |-> "absent", tenant |-> DefaultTenant, role |-> "viewer"]
NewRow(t, r) == [state |-> "enabled", tenant |-> t, role |-> r]
Nobody == [tenant |-> DefaultTenant, role |-> "viewer"]

CredentialsTypeOK ==
    /\ keys \in [Hashes -> RowType] /\ accounts \in [Accounts -> RowType]
    /\ audit \subseteq {"create", "import", "revoke"} \X (Hashes \cup Accounts)
    /\ token \in [Accounts -> 0..Lifetime]
    /\ cpc \in [Clients -> {"idle", "auth", "touch", "act", "issue"}]
    /\ cred \in [Clients -> Hashes \cup Accounts \cup {NoCred}]
    /\ who \in [Clients -> Principal]
    /\ revoked \subseteq Clients
    /\ \A c \in Clients : cpc[c] = "issue" => cred[c] \in Accounts

CredentialsInit ==
    /\ accounts = [a \in Accounts |-> Absent]
    /\ token = [a \in Accounts |-> 0]
    /\ cpc = [c \in Clients |-> "idle"]
    /\ cred = [c \in Clients |-> NoCred]
    /\ who = [c \in Clients |-> Nobody]
    /\ revoked = {}

PrincipalOf(row) == [tenant |-> row.tenant, role |-> row.role]

-----------------------------------------------------------------------------
(* get_current_principal *)

(* A request with a key or a token that somebody was once given.             *)
Begin(c, d) ==
    /\ cpc[c] = "idle"
    /\ \/ d \in Hashes /\ keys[d].state # "absent"
       \/ d \in Accounts /\ accounts[d].state # "absent"
    /\ cpc' = [cpc EXCEPT ![c] = "auth"]
    /\ cred' = [cred EXCEPT ![c] = d]
    /\ revoked' = IF d \in Hashes /\ keys[d].state = "disabled"
                  THEN revoked \cup {c} ELSE revoked
    /\ UNCHANGED <<tableVars, token, who>>

End(c) ==
    /\ cpc' = [cpc EXCEPT ![c] = "idle"]
    /\ cred' = [cred EXCEPT ![c] = NoCred]
    /\ who' = [who EXCEPT ![c] = Nobody]
    /\ revoked' = revoked \ {c}

(* The principal is known; next is "touch" for a key, "act" for a token.     *)
LetIn(c, row, next) ==
    /\ cpc' = [cpc EXCEPT ![c] = next]
    /\ who' = [who EXCEPT ![c] = PrincipalOf(row)]
    /\ UNCHANGED <<cred, revoked>>

(* validate_access_token looks at the token alone.  One that has expired is  *)
(* no API key either: 401.                                                   *)
ValidateToken(c) ==
    /\ cpc[c] = "auth" /\ cred[c] \in Accounts
    /\ IF token[cred[c]] > 0 THEN LetIn(c, accounts[cred[c]], "act") ELSE End(c)
    /\ UNCHANGED <<tableVars, token>>

(* validate_key: SELECT ... WHERE enabled.                                   *)
ValidateKey(c) ==
    /\ cpc[c] = "auth" /\ cred[c] \in Hashes
    /\ IF keys[cred[c]].state = "enabled" THEN LetIn(c, keys[cred[c]], "touch") ELSE End(c)
    /\ UNCHANGED <<tableVars, token>>

TouchRow(c) ==          \* mutant: the row is written back as it was read
    /\ cpc[c] = "touch"
    /\ cpc' = [cpc EXCEPT ![c] = "act"]
    /\ keys' = [keys EXCEPT ![cred[c]].state = "enabled"]
    /\ UNCHANGED <<accounts, audit, token, cred, who, revoked>>

(* The commit of validate_key: an UPDATE of last_used_at and nothing else.   *)
Touch(c) ==
    /\ cpc[c] = "touch"
    /\ cpc' = [cpc EXCEPT ![c] = "act"]
    /\ UNCHANGED <<tableVars, token, cred, who, revoked>>

-----------------------------------------------------------------------------
(* The routes behind require_min_role *)

MayAct(c, least) == cpc[c] = "act" /\ RoleRank[who[c].role] >= RoleRank[least]

CreateKey(c) ==
    /\ MayAct(c, "operator")
    /\ \E h \in Hashes \ {BootHash}, r \in Grants :
           /\ keys[h].state = "absent"
           /\ keys' = [keys EXCEPT ![h] = NewRow(who[c].tenant, r)]
           /\ audit' = audit \cup {<<"create", h>>}
    /\ End(c)
    /\ UNCHANGED <<accounts, token>>

RevokeAnyKey(c) ==      \* mutant: the tenant of the row is not compared
    /\ MayAct(c, "operator")
    /\ \E h \in Hashes :
           /\ keys[h].state # "absent"
           /\ keys' = [keys EXCEPT ![h].state = "disabled"]
           /\ audit' = audit \cup {<<"revoke", h>>}
    /\ End(c)
    /\ UNCHANGED <<accounts, token>>

(* revoke_key.  A row only ever goes from enabled to disabled, so its read   *)
(* and its commit are one step.                                              *)
RevokeKey(c) ==
    /\ MayAct(c, "operator")
    /\ \E h \in Hashes :
           /\ keys[h].state # "absent" /\ keys[h].tenant = who[c].tenant
           /\ keys' = [keys EXCEPT ![h].state = "disabled"]
           /\ audit' = audit \cup {<<"revoke", h>>}
    /\ End(c)
    /\ UNCHANGED <<accounts, token>>

CreateAccount(c) ==
    /\ MayAct(c, "operator")
    /\ \E a \in Accounts, r \in Grants :
           /\ accounts[a].state = "absent"
           /\ accounts' = [accounts EXCEPT ![a] = NewRow(who[c].tenant, r)]
           /\ audit' = audit \cup {<<"create", a>>}
    /\ End(c)
    /\ UNCHANGED <<keys, token>>

RevokeUnaudited(c) ==   \* mutant: add_audit left out
    /\ MayAct(c, "operator")
    /\ \E a \in Accounts :
           /\ accounts[a].state # "absent" /\ accounts[a].tenant = who[c].tenant
           /\ accounts' = [accounts EXCEPT ![a].state = "disabled"]
    /\ End(c)
    /\ UNCHANGED <<keys, audit, token>>

RevokeAccount(c) ==
    /\ MayAct(c, "operator")
    /\ \E a \in Accounts :
           /\ accounts[a].state # "absent" /\ accounts[a].tenant = who[c].tenant
           /\ accounts' = [accounts EXCEPT ![a].state = "disabled"]
           /\ audit' = audit \cup {<<"revoke", a>>}
    /\ End(c)
    /\ UNCHANGED <<keys, token>>

(* Lists, the routes of jobs, 403 and 404; an exception rolls back.          *)
Answered(c) ==
    /\ cpc[c] \in {"touch", "act"}
    /\ End(c)
    /\ UNCHANGED <<tableVars, token>>

-----------------------------------------------------------------------------
(* POST /auth/token, and the lifetime of tokens *)

ExchangeAny(c, a) ==    \* mutant: SELECT without "enabled"
    /\ cpc[c] = "idle" /\ accounts[a].state # "absent"
    /\ cpc' = [cpc EXCEPT ![c] = "issue"]
    /\ cred' = [cred EXCEPT ![c] = a]
    /\ UNCHANGED <<tableVars, token, who, revoked>>

(* validate_client_credentials; a refused request changes nothing.           *)
Exchange(c, a) ==
    /\ cpc[c] = "idle" /\ accounts[a].state = "enabled"
    /\ cpc' = [cpc EXCEPT ![c] = "issue"]
    /\ cred' = [cred EXCEPT ![c] = a]
    /\ UNCHANGED <<tableVars, token, who, revoked>>

(* issue_access_token: a token for what was read, whatever it is by now.     *)
Issue(c) ==
    /\ cpc[c] = "issue"
    /\ token' = [token EXCEPT ![cred[c]] = Lifetime]
    /\ End(c)
    /\ UNCHANGED tableVars

TokensAge ==
    /\ token' = [a \in Accounts |-> IF token[a] > 0 THEN token[a] - 1 ELSE 0]
    /\ token' # token
    /\ UNCHANGED <<tableVars, requestVars>>

Serve(c) ==
    \/ ValidateToken(c) \/ ValidateKey(c) \/ Touch(c) \/ Issue(c)

Administer(c) ==
    \/ CreateKey(c) \/ RevokeKey(c) \/ CreateAccount(c) \/ RevokeAccount(c)

-----------------------------------------------------------------------------
(* Properties *)

Imported(h) == h = BootHash /\ keys[h].state = "absent" /\ keys'[h].state = "enabled"

(* What has been revoked stays revoked: not even a request that had read the *)
(* row before, and writes last_used_at after, brings it back, nor does a     *)
(* replica that starts with the bootstrap key (auth/service.py:105-155, 158).*)
RevokedForGood ==
    [][/\ \A h \in Hashes : keys[h].state = "disabled" => keys'[h].state = "disabled"
       /\ \A a \in Accounts : accounts[a].state = "disabled" => accounts'[a].state = "disabled"
      ]_credVars

(* A row is created or revoked only by a request of an operator of its own   *)
(* tenant, except that a replica may import the bootstrap key                *)
(* (admin_routes.py:24-150, tests/test_tenant_isolation.py).                 *)
TenantsApart ==
    [][/\ \A h \in Hashes : keys'[h] # keys[h] => Imported(h) \/
              \E c \in Clients : /\ cpc[c] = "act" /\ cpc'[c] = "idle"
                                 /\ who[c].role = "operator"
                                 /\ who[c].tenant = keys'[h].tenant
       /\ \A a \in Accounts : accounts'[a] # accounts[a] =>
              \E c \in Clients : /\ cpc[c] = "act" /\ cpc'[c] = "idle"
                                 /\ who[c].role = "operator"
                                 /\ who[c].tenant = accounts'[a].tenant
      ]_credVars

(* A request that begins after its key was revoked acts for nobody; one that *)
(* was let in before may still finish (deps.py:42-54).                       *)
RevokedKeyIsOut == \A c \in revoked : cpc[c] \notin {"touch", "act"}

(* The audit log and the tables say the same: every row was created or       *)
(* imported in the log, every revoked row revoked in it, and the log tells of*)
(* nothing else (db/audit.py:19-24: "no audited-but-not-applied or           *)
(* applied-but-not-audited states").                                         *)
AuditMatches ==
    LET State(x) == IF x \in Hashes THEN keys[x].state ELSE accounts[x].state IN
    \A x \in Hashes \cup Accounts :
        /\ State(x) # "absent" <=> <<"create", x>> \in audit \/ <<"import", x>> \in audit
        /\ State(x) = "disabled" <=> <<"revoke", x>> \in audit

(* Tokens are not looked up, so revoking an account ends its tokens only in  *)
(* the end: some time later, and for good, none of them is valid, although a *)
(* request may issue one that had read the account before                    *)
(* (jwt_service.py:40-51, auth_routes.py:27-43).                             *)
RevokedTokensDie ==
    \A a \in Accounts : accounts[a].state = "disabled" ~> [](token[a] = 0)
=============================================================================
