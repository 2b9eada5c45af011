---------------------------- MODULE AccessProofs ----------------------------
(* Theorems about Access, for any replicas, clients, tenants, keys, accounts *)
(* and settings.                                                             *)
EXTENDS Access, TLAPS

(* What a step of a request does to everything but its own request.          *)
LEMMA RequestStep ==
    ASSUME NEW c \in Clients, Arrives(c) \/ Serve(c) \/ Administer(c) \/ Answered(c)
    PROVE  \/ UNCHANGED tableVars
           \/ Administer(c)
BY DEF Arrives, Begin, Exchange, Serve, ValidateToken, ValidateKey, Touch, Issue, Answered

RequestTypeOK ==
    /\ cpc \in [Clients -> {"idle", "auth", "touch", "act", "issue"}]
    /\ cred \in [Clients -> Hashes \cup Accounts \cup {NoCred}]
    /\ who \in [Clients -> Principal]
    /\ revoked \subseteq Clients
    /\ \A c \in Clients : cpc[c] = "issue" => cred[c] \in Accounts

LEMMA EndTyped ==
    ASSUME RequestTypeOK, NEW c \in Clients, End(c) PROVE RequestTypeOK'
<1>1. Nobody \in Principal
  BY CredentialsAssumption DEF Nobody, Principal, Role
<1> QED
  BY <1>1 DEF RequestTypeOK, End

LEMMA RowsTyped ==
    /\ \A t \in Tenants, r \in Grants : NewRow(t, r) \in RowType
    /\ \A row \in RowType : [row EXCEPT !.state = "disabled"] \in RowType
BY CredentialsAssumption DEF NewRow, RowType, Role

LEMMA CredentialsTyped ==
    ASSUME CredentialsTypeOK, NEW c \in Clients,
           Arrives(c) \/ Serve(c) \/ Administer(c) \/ Answered(c)
    PROVE  CredentialsTypeOK'
<1> DEFINE Tables == /\ keys \in [Hashes -> RowType] /\ accounts \in [Accounts -> RowType]
                     /\ audit \subseteq {"create", "import", "revoke"} \X (Hashes \cup Accounts)
                     /\ token \in [Accounts -> 0..Lifetime]
<1>1. RequestTypeOK /\ Tables
  BY DEF CredentialsTypeOK, RequestTypeOK
<1>2. RequestTypeOK' /\ Tables' => CredentialsTypeOK'
  BY DEF CredentialsTypeOK, RequestTypeOK
<1>3. CASE Arrives(c)
  BY <1>1, <1>2, <1>3 DEF Arrives, Begin, Exchange, RequestTypeOK, tableVars
<1>4. CASE ValidateToken(c) \/ ValidateKey(c)
  <2>1. \A row \in RowType : PrincipalOf(row) \in Principal
    BY DEF RowType, PrincipalOf, Principal
  <2>2. RequestTypeOK'
    BY <1>1, <1>4, <2>1, EndTyped DEF ValidateToken, ValidateKey, LetIn, RequestTypeOK
  <2> QED
    BY <1>1, <1>2, <1>4, <2>2 DEF ValidateToken, ValidateKey, tableVars
<1>5. CASE Touch(c)
  BY <1>1, <1>2, <1>5 DEF Touch, RequestTypeOK, tableVars
<1>6. CASE Issue(c)
  <2>1. cred[c] \in Accounts
    BY <1>1, <1>6 DEF Issue, RequestTypeOK
  <2>2. token' \in [Accounts -> 0..Lifetime]
    BY <1>1, <1>6, <2>1, CredentialsAssumption DEF Issue
  <2> QED
    BY <1>1, <1>2, <1>6, <2>2, EndTyped DEF Issue, tableVars
<1>7. CASE Answered(c)
  BY <1>1, <1>2, <1>7, EndTyped DEF Answered, tableVars
<1>8. CASE Administer(c)
  <2>1. who[c].tenant \in Tenants
    BY <1>1 DEF RequestTypeOK, Principal
  <2>2. RequestTypeOK'
    BY <1>1, <1>8, EndTyped DEF Administer, CreateKey, RevokeKey, CreateAccount, RevokeAccount
  <2>3. CASE CreateKey(c) \/ CreateAccount(c)
    BY <1>1, <1>2, <2>1, <2>2, <2>3, RowsTyped DEF CreateKey, CreateAccount
  <2>4. CASE RevokeKey(c)
    <3>1. PICK h \in Hashes : /\ keys' = [keys EXCEPT ![h].state = "disabled"]
                              /\ audit' = audit \cup {<<"revoke", h>>}
      BY <2>4 DEF RevokeKey
    <3>2. [keys[h] EXCEPT !.state = "disabled"] \in RowType
      BY <1>1, RowsTyped
    <3>3. keys' = [keys EXCEPT ![h] = [keys[h] EXCEPT !.state = "disabled"]]
      BY <3>1
    <3> QED
      BY <1>1, <1>2, <2>2, <2>4, <3>1, <3>2, <3>3 DEF RevokeKey
  <2>5. CASE RevokeAccount(c)
    <3>1. PICK a \in Accounts : /\ accounts' = [accounts EXCEPT ![a].state = "disabled"]
                                /\ audit' = audit \cup {<<"revoke", a>>}
      BY <2>5 DEF RevokeAccount
    <3>2. [accounts[a] EXCEPT !.state = "disabled"] \in RowType
      BY <1>1, RowsTyped
    <3>3. accounts' = [accounts EXCEPT ![a] = [accounts[a] EXCEPT !.state = "disabled"]]
      BY <3>1
    <3> QED
      BY <1>1, <1>2, <2>2, <2>5, <3>1, <3>2, <3>3 DEF RevokeAccount
  <2> QED
    BY <1>8, <2>3, <2>4, <2>5 DEF Administer
<1> QED
  BY <1>3, <1>4, <1>5, <1>6, <1>7, <1>8 DEF Serve

LEMMA ReplicaTyped ==
    ASSUME AccessTypeOK, NEW r \in Replicas, Start(r) \/ ReplicaFails(r)
    PROVE  AccessTypeOK'
<1>0. config.env \in SettingsType
  BY DEF AccessTypeOK, ConfigType
<1> USE CredentialsAssumption
    DEF AccessTypeOK, CredentialsTypeOK, Goto, GiveUp, credVars, tableVars, requestVars
<1>1. CASE Hydrate(r)
  <2>1. settings[r] \in SettingsType
    OBVIOUS
  <2>2. Hydrated(settings[r], config.vault) \in SettingsType
    BY <2>1 DEF Hydrated, SettingsType, VaultType
  <2> QED
    BY <1>1, <2>2 DEF Hydrate
<1>2. CASE Validate(r) \/ EnsureGroup(r) \/ CountKeys(r)
  <2>1. CASE Validate(r)
    BY <1>0, <2>1 DEF Validate
  <2>2. CASE EnsureGroup(r) \/ CountKeys(r)
    BY <2>2 DEF EnsureGroup, CountKeys
  <2> QED
    BY <1>2, <2>1, <2>2
<1>3. CASE ImportKey(r)
  <2>1. NewRow(DefaultTenant, "operator") \in RowType
    BY DEF NewRow, RowType, Role
  <2> QED
    BY <1>0, <1>3, <2>1 DEF ImportKey
<1>4. CASE ReplicaFails(r)
  BY <1>0, <1>4, AccessAssumption DEF ReplicaFails
<1> QED
  BY <1>1, <1>2, <1>3, <1>4 DEF Start

(* Access is well typed.                                                     *)
THEOREM AccessTypeCorrect == AccessSpec => []AccessTypeOK
<1>1. AccessInit => AccessTypeOK
  <2> SUFFICES ASSUME AccessInit PROVE AccessTypeOK
    OBVIOUS
  <2> USE CredentialsAssumption, AccessAssumption DEF AccessInit, CredentialsInit
  <2>1. Absent \in RowType /\ Nobody \in Principal
    BY DEF Absent, RowType, Nobody, Principal, Role
  <2>2. /\ keys \in [Hashes -> RowType]
        /\ config \in ConfigType /\ config.env \in SettingsType
    <3>1. PICK d \in Deployments : config = d.config /\ keys = d.keys
      OBVIOUS
    <3> QED
      BY <3>1 DEF ConfigType
  <2>3. audit \subseteq {"create", "import", "revoke"} \X (Hashes \cup Accounts)
    OBVIOUS
  <2>4. \A c \in Clients : cpc[c] = "idle"
    OBVIOUS
  <2>5. CredentialsTypeOK
    BY <2>1, <2>2, <2>3, <2>4 DEF CredentialsTypeOK
  <2>6. /\ rpc \in [Replicas -> {"deployed", "validate", "group", "count", "import", "serving",
                                "down"}]
        /\ settings \in [Replicas -> SettingsType]
    BY <2>2
  <2>7. group \in BOOLEAN
    BY Zenon
  <2>8. crashes \in 0..MaxCrashes /\ config \in ConfigType
    BY <2>2
  <2> QED
    BY <2>5, <2>6, <2>7, <2>8 DEF AccessTypeOK
<1>2. AccessTypeOK /\ [AccessNext]_vars => AccessTypeOK'
  <2> SUFFICES ASSUME AccessTypeOK, [AccessNext]_vars PROVE AccessTypeOK'
    OBVIOUS
  <2>1. ASSUME NEW c \in Clients, Arrives(c) \/ Serve(c) \/ Administer(c) \/ Answered(c),
               UNCHANGED replicaVars
        PROVE AccessTypeOK'
    BY <2>1, CredentialsTyped DEF AccessTypeOK, replicaVars
  <2>2. CASE TokensAge /\ UNCHANGED replicaVars
    BY <2>2, CredentialsAssumption
       DEF TokensAge, AccessTypeOK, CredentialsTypeOK, replicaVars, tableVars, requestVars
  <2>3. CASE UNCHANGED vars
    BY <2>3 DEF AccessTypeOK, CredentialsTypeOK, vars, credVars, tableVars, requestVars,
       replicaVars
  <2> QED
    BY <2>1, <2>2, <2>3, ReplicaTyped DEF AccessNext
<1> QED
  BY <1>1, <1>2, PTL DEF AccessSpec

-----------------------------------------------------------------------------
(* The action properties hold for each step as it is.                        *)

(* A step of the system is one of a request, of a replica, or time.          *)
LEMMA RowsChange ==
    ASSUME AccessTypeOK, [AccessNext]_vars
    PROVE  \/ UNCHANGED tableVars
           \/ \E c \in Clients : Administer(c)
           \/ \E r \in Replicas : ImportKey(r) /\ keys[BootHash].state = "absent"
<1>1. ASSUME NEW r \in Replicas, Start(r) \/ ReplicaFails(r)
      PROVE  UNCHANGED tableVars \/ (ImportKey(r) /\ keys[BootHash].state = "absent")
  BY <1>1 DEF Start, Hydrate, Validate, EnsureGroup, CountKeys, ImportKey, ReplicaFails,
     credVars, tableVars
<1>2. CASE UNCHANGED vars
  BY <1>2 DEF vars, credVars
<1>3. CASE TokensAge
  BY <1>3 DEF TokensAge
<1> QED
  BY <1>1, <1>2, <1>3, RequestStep DEF AccessNext

LEMMA Disabling ==
    ASSUME NEW S, NEW f \in [S -> RowType], NEW x \in S
    PROVE  LET g == [f EXCEPT ![x].state = "disabled"] IN
           /\ g[x].state = "disabled" /\ g[x].tenant = f[x].tenant
           /\ \A y \in S : y # x => g[y] = f[y]
BY DEF RowType

(* What has been revoked stays revoked (auth/service.py:105-136,             *)
(* auth/service_account_service.py:258-273).                                 *)
THEOREM RevokedStaysRevoked == AccessSpec => RevokedForGood
<1> DEFINE Stay ==
      /\ \A h \in Hashes : keys[h].state = "disabled" => keys'[h].state = "disabled"
      /\ \A a \in Accounts : accounts[a].state = "disabled" => accounts'[a].state = "disabled"
<1>1. AccessTypeOK /\ [AccessNext]_vars => [Stay]_credVars
  <2> SUFFICES ASSUME AccessTypeOK, [AccessNext]_vars PROVE Stay
    OBVIOUS
  <2> USE DEF AccessTypeOK, CredentialsTypeOK
  <2>1. CASE UNCHANGED tableVars
    BY <2>1 DEF tableVars
  <2>2. ASSUME NEW c \in Clients, CreateKey(c) \/ CreateAccount(c) PROVE Stay
    BY <2>2 DEF CreateKey, CreateAccount
  <2>3. ASSUME NEW c \in Clients, RevokeKey(c) PROVE Stay
    BY <2>3, Disabling DEF RevokeKey
  <2>4. ASSUME NEW c \in Clients, RevokeAccount(c) PROVE Stay
    BY <2>4, Disabling DEF RevokeAccount
  <2>5. ASSUME NEW r \in Replicas, ImportKey(r), keys[BootHash].state = "absent" PROVE Stay
    BY <2>5 DEF ImportKey
  <2> QED
    BY <2>1, <2>2, <2>3, <2>4, <2>5, RowsChange DEF Administer
<1> QED
  BY <1>1, AccessTypeCorrect, PTL DEF AccessSpec, RevokedForGood

(* Only operators of its tenant change a row (admin_routes.py:24-150).       *)
THEOREM TenantsStayApart == AccessSpec => TenantsApart
<1> DEFINE Apart ==
             /\ \A h \in Hashes : keys'[h] # keys[h] => Imported(h) \/
                    \E c \in Clients : /\ cpc[c] = "act" /\ cpc'[c] = "idle"
                                       /\ who[c].role = "operator"
                                       /\ who[c].tenant = keys'[h].tenant
             /\ \A a \in Accounts : accounts'[a] # accounts[a] =>
                    \E c \in Clients : /\ cpc[c] = "act" /\ cpc'[c] = "idle"
                                       /\ who[c].role = "operator"
                                       /\ who[c].tenant = accounts'[a].tenant
<1>1. AccessTypeOK /\ [AccessNext]_vars => [Apart]_credVars
  <2> SUFFICES ASSUME AccessTypeOK, [AccessNext]_vars PROVE Apart
    OBVIOUS
  <2> USE DEF AccessTypeOK, CredentialsTypeOK
  <2>1. CASE UNCHANGED tableVars
    BY <2>1 DEF tableVars
  <2>2. ASSUME NEW c \in Clients, MayAct(c, "operator"), End(c)
        PROVE  cpc[c] = "act" /\ cpc'[c] = "idle" /\ who[c].role = "operator"
    <3>1. who[c].role \in Role
      BY DEF Principal
    <3> QED
      BY <2>2, <3>1 DEF MayAct, RoleRank, Role, End
  <2>3. ASSUME NEW c \in Clients, CreateKey(c) \/ CreateAccount(c) PROVE Apart
    <3>1. MayAct(c, "operator") /\ End(c)
      BY <2>3 DEF CreateKey, CreateAccount
    <3> QED
      BY <2>2, <2>3, <3>1 DEF CreateKey, CreateAccount, NewRow
  <2>4. ASSUME NEW c \in Clients, RevokeKey(c) PROVE Apart
    <3>1. MayAct(c, "operator") /\ End(c)
      BY <2>4 DEF RevokeKey
    <3> QED
      BY <2>2, <2>4, <3>1, Disabling DEF RevokeKey
  <2>5. ASSUME NEW c \in Clients, RevokeAccount(c) PROVE Apart
    <3>1. MayAct(c, "operator") /\ End(c)
      BY <2>5 DEF RevokeAccount
    <3> QED
      BY <2>2, <2>5, <3>1, Disabling DEF RevokeAccount
  <2>6. ASSUME NEW r \in Replicas, ImportKey(r), keys[BootHash].state = "absent" PROVE Apart
    BY <2>6 DEF ImportKey, Imported, NewRow
  <2> QED
    BY <2>1, <2>3, <2>4, <2>5, <2>6, RowsChange DEF Administer
<1> QED
  BY <1>1, AccessTypeCorrect, PTL DEF AccessSpec, TenantsApart

-----------------------------------------------------------------------------
(* The invariants *)

(* A request that began after its key was revoked is not let in.             *)
KeptOut == \A c \in revoked : /\ cpc[c] = "auth" /\ cred[c] \in Hashes
                              /\ keys[cred[c]].state = "disabled"

(* Without keys there are no accounts, and nobody makes a request.           *)
NobodyWithoutKeys ==
    (\A h \in Hashes : keys[h].state = "absent")
      => /\ \A a \in Accounts : accounts[a].state = "absent"
         /\ \A c \in Clients : cpc[c] = "idle"

(* A replica that has counted no rows finds the bootstrap key, or still none.*)
ImportsInTime ==
    \A r \in Replicas : rpc[r] = "import" /\ keys[BootHash].state = "absent"
                          => \A h \in Hashes : keys[h].state = "absent"

(* Settings are hydrated before they are validated.                          *)
SettingsOK ==
    \A r \in Replicas :
        /\ settings[r] = IF rpc[r] \in {"deployed", "down"} THEN config.env
                         ELSE Hydrated(config.env, config.vault)
        /\ config.production /\ rpc[r] \notin {"deployed", "down", "validate"}
               => ~Insecure(settings[r])

AccessInv == KeptOut /\ NobodyWithoutKeys /\ ImportsInTime /\ SettingsOK /\ AuditMatches

(* How the rows of the tables may change in one step.                        *)
RowsOnlyGrow ==
    /\ \A h \in Hashes : keys[h].state # "absent" => keys'[h].state # "absent"
    /\ \A h \in Hashes : keys[h].state = "disabled" => keys'[h].state = "disabled"
    /\ \A a \in Accounts : accounts[a].state # "absent" => accounts'[a].state # "absent"

LEMMA RowsGrow ==
    ASSUME AccessTypeOK, [AccessNext]_vars PROVE RowsOnlyGrow
<1> USE DEF AccessTypeOK, CredentialsTypeOK, RowsOnlyGrow
<1>1. CASE UNCHANGED tableVars
  BY <1>1 DEF tableVars
<1>2. ASSUME NEW c \in Clients, CreateKey(c) \/ CreateAccount(c) PROVE RowsOnlyGrow
  BY <1>2 DEF CreateKey, CreateAccount, NewRow
<1>3. ASSUME NEW c \in Clients, RevokeKey(c) PROVE RowsOnlyGrow
  BY <1>3, Disabling DEF RevokeKey
<1>4. ASSUME NEW c \in Clients, RevokeAccount(c) PROVE RowsOnlyGrow
  BY <1>4, Disabling DEF RevokeAccount
<1>5. ASSUME NEW r \in Replicas, ImportKey(r), keys[BootHash].state = "absent" PROVE RowsOnlyGrow
  BY <1>5 DEF ImportKey, NewRow
<1> QED
  BY <1>1, <1>2, <1>3, <1>4, <1>5, RowsChange DEF Administer

LEMMA KeptOutKept ==
    ASSUME AccessTypeOK, KeptOut, [AccessNext]_vars PROVE KeptOut'
<1> USE CredentialsAssumption DEF AccessTypeOK, CredentialsTypeOK, KeptOut
<1>1. RowsOnlyGrow
  BY RowsGrow
<1>2. CASE UNCHANGED requestVars
  BY <1>1, <1>2 DEF requestVars, RowsOnlyGrow
<1>3. ASSUME NEW c \in Clients, Arrives(c) PROVE KeptOut'
  BY <1>3 DEF Arrives, Begin, Exchange, tableVars
<1>4. ASSUME NEW c \in Clients, ValidateToken(c) \/ ValidateKey(c) PROVE KeptOut'
  BY <1>4 DEF ValidateToken, ValidateKey, LetIn, End, tableVars
<1>5. ASSUME NEW c \in Clients,
             Touch(c) \/ Issue(c) \/ Answered(c) \/ Administer(c)
      PROVE  KeptOut'
  <2>1. c \notin revoked
    BY <1>5 DEF Touch, Issue, Answered, Administer, CreateKey, RevokeKey, CreateAccount,
       RevokeAccount, MayAct
  <2>2. /\ revoked' = revoked /\ cred'= cred /\ \A d \in Clients \ {c} : cpc'[d] = cpc[d]
        \/ End(c)
    BY <1>5 DEF Touch, Issue, Answered, Administer, CreateKey, RevokeKey, CreateAccount,
       RevokeAccount
  <2> QED
    BY <1>1, <2>1, <2>2 DEF End, RowsOnlyGrow
<1>6. ASSUME NEW r \in Replicas, Start(r) \/ ReplicaFails(r) PROVE UNCHANGED requestVars
  BY <1>6 DEF Start, Hydrate, Validate, EnsureGroup, CountKeys, ImportKey, ReplicaFails,
     credVars
<1> QED
  BY <1>2, <1>3, <1>4, <1>5, <1>6 DEF AccessNext, Serve, TokensAge, vars, credVars

LEMMA NobodyWithoutKeysKept ==
    ASSUME AccessTypeOK, NobodyWithoutKeys, [AccessNext]_vars PROVE NobodyWithoutKeys'
<1> USE DEF AccessTypeOK, CredentialsTypeOK, NobodyWithoutKeys
<1>1. RowsOnlyGrow
  BY RowsGrow
<1> SUFFICES ASSUME \A h \in Hashes : keys'[h].state = "absent"
             PROVE  /\ \A a \in Accounts : accounts'[a].state = "absent"
                    /\ \A c \in Clients : cpc'[c] = "idle"
  OBVIOUS
<1>2. /\ \A h \in Hashes : keys[h].state = "absent"
      /\ \A a \in Accounts : accounts[a].state = "absent"
      /\ \A c \in Clients : cpc[c] = "idle"
  BY <1>1 DEF RowsOnlyGrow
<1>3. ASSUME NEW c \in Clients, Arrives(c) \/ Serve(c) \/ Administer(c) \/ Answered(c)
      PROVE  FALSE
  BY <1>2, <1>3 DEF Arrives, Begin, Exchange, Serve, ValidateToken, ValidateKey, Touch, Issue,
     Administer, CreateKey, RevokeKey, CreateAccount, RevokeAccount, MayAct, Answered
<1>4. UNCHANGED <<accounts, cpc>>
  <2>1. ASSUME NEW r \in Replicas, Start(r) \/ ReplicaFails(r) PROVE UNCHANGED <<accounts, cpc>>
    BY <2>1 DEF Start, Hydrate, Validate, EnsureGroup, CountKeys, ImportKey, ReplicaFails,
       credVars, tableVars, requestVars
  <2> QED
    BY <1>3, <2>1 DEF AccessNext, TokensAge, vars, credVars, tableVars, requestVars
<1> QED
  BY <1>2, <1>4

LEMMA ImportsInTimeKept ==
    ASSUME AccessTypeOK, NobodyWithoutKeys, ImportsInTime, [AccessNext]_vars
    PROVE  ImportsInTime'
<1> USE CredentialsAssumption DEF AccessTypeOK, CredentialsTypeOK, ImportsInTime
<1>1. RowsOnlyGrow
  BY RowsGrow
<1> SUFFICES ASSUME NEW r \in Replicas, rpc'[r] = "import", keys'[BootHash].state = "absent"
             PROVE  \A h \in Hashes : keys'[h].state = "absent"
  OBVIOUS
<1>2. keys[BootHash].state = "absent"
  BY <1>1 DEF RowsOnlyGrow
<1>3. \A h \in Hashes : keys[h].state = "absent"
  <2>1. CASE rpc[r] = "import"
    BY <1>2, <2>1
  <2>2. CASE rpc[r] # "import"
    <3>1. ASSUME NEW q \in Replicas, Start(q) \/ ReplicaFails(q) PROVE CountKeys(r)
      BY <2>2, <3>1 DEF Start, Hydrate, Validate, EnsureGroup, CountKeys, ImportKey,
         ReplicaFails, Goto, GiveUp
    <3>2. CountKeys(r)
      BY <2>2, <3>1 DEF AccessNext, vars, replicaVars
    <3>3. settings[r].boot /\ Rows = {}
      BY <3>2, <2>2 DEF CountKeys, Goto
    <3> QED
      BY <3>3 DEF Rows
  <2> QED
    BY <2>1, <2>2
<1>4. keys' = keys
  <2>1. ASSUME NEW c \in Clients, Administer(c) PROVE FALSE
    BY <1>3, <2>1 DEF NobodyWithoutKeys, Administer, CreateKey, RevokeKey, CreateAccount,
       RevokeAccount, MayAct
  <2>2. ASSUME NEW q \in Replicas, ImportKey(q) PROVE FALSE
    BY <1>2, <2>2 DEF ImportKey, NewRow
  <2> QED
    BY <2>1, <2>2, RowsChange DEF tableVars
<1> QED
  BY <1>3, <1>4

LEMMA SettingsOKKept ==
    ASSUME AccessTypeOK, SettingsOK, [AccessNext]_vars PROVE SettingsOK'
<1> USE DEF AccessTypeOK, SettingsOK, Goto, GiveUp
<1>1. CASE UNCHANGED replicaVars
  BY <1>1 DEF replicaVars
<1>2. ASSUME NEW r \in Replicas, Hydrate(r) PROVE SettingsOK'
  BY <1>2 DEF Hydrate
<1>3. ASSUME NEW r \in Replicas, Validate(r) PROVE SettingsOK'
  BY <1>3 DEF Validate
<1>4. ASSUME NEW r \in Replicas, EnsureGroup(r) \/ CountKeys(r) PROVE SettingsOK'
  BY <1>4 DEF EnsureGroup, CountKeys
<1>5. ASSUME NEW r \in Replicas, ImportKey(r) \/ ReplicaFails(r) PROVE SettingsOK'
  BY <1>5 DEF ImportKey, ReplicaFails
<1> QED
  BY <1>1, <1>2, <1>3, <1>4, <1>5 DEF AccessNext, Start, vars

Audited(x, state) ==
    /\ state # "absent" <=> <<"create", x>> \in audit \/ <<"import", x>> \in audit
    /\ state = "disabled" <=> <<"revoke", x>> \in audit

LEMMA AuditByTable ==
    AuditMatches <=> /\ \A h \in Hashes : Audited(h, keys[h].state)
                     /\ \A a \in Accounts : Audited(a, accounts[a].state)
BY CredentialsAssumption DEF AuditMatches, Audited

LEMMA AuditByTableNext ==
    AuditMatches' <=> /\ \A h \in Hashes : Audited(h, keys[h].state)'
                      /\ \A a \in Accounts : Audited(a, accounts[a].state)'
BY CredentialsAssumption DEF AuditMatches, Audited

LEMMA AuditKept ==
    ASSUME AccessTypeOK, AuditMatches, [AccessNext]_vars PROVE AuditMatches'
<1> USE CredentialsAssumption DEF AccessTypeOK, CredentialsTypeOK, Audited
<1>1. /\ \A h \in Hashes : Audited(h, keys[h].state)
      /\ \A a \in Accounts : Audited(a, accounts[a].state)
  BY AuditByTable
<1> SUFFICES /\ \A h \in Hashes : Audited(h, keys[h].state)'
             /\ \A a \in Accounts : Audited(a, accounts[a].state)'
  BY AuditByTableNext
<1>2. CASE UNCHANGED tableVars
  BY <1>1, <1>2 DEF tableVars
<1>3. ASSUME NEW c \in Clients, CreateKey(c)
      PROVE  /\ \A h \in Hashes : Audited(h, keys[h].state)'
             /\ \A a \in Accounts : Audited(a, accounts[a].state)'
  BY <1>1, <1>3 DEF CreateKey, NewRow
<1>4. ASSUME NEW c \in Clients, CreateAccount(c)
      PROVE  /\ \A h \in Hashes : Audited(h, keys[h].state)'
             /\ \A a \in Accounts : Audited(a, accounts[a].state)'
  BY <1>1, <1>4 DEF CreateAccount, NewRow
<1>5. ASSUME NEW c \in Clients, RevokeKey(c)
      PROVE  /\ \A h \in Hashes : Audited(h, keys[h].state)'
             /\ \A a \in Accounts : Audited(a, accounts[a].state)'
  <2>1. PICK h \in Hashes : /\ keys[h].state # "absent"
                            /\ keys' = [keys EXCEPT ![h].state = "disabled"]
                            /\ audit' = audit \cup {<<"revoke", h>>}
    BY <1>5 DEF RevokeKey
  <2>2. keys'[h].state = "disabled" /\ \A g \in Hashes \ {h} : keys'[g] = keys[g]
    BY <2>1, Disabling
  <2> QED
    BY <1>1, <1>5, <2>1, <2>2 DEF RevokeKey
<1>6. ASSUME NEW c \in Clients, RevokeAccount(c)
      PROVE  /\ \A h \in Hashes : Audited(h, keys[h].state)'
             /\ \A a \in Accounts : Audited(a, accounts[a].state)'
  <2>1. PICK a \in Accounts : /\ accounts[a].state # "absent"
                              /\ accounts' = [accounts EXCEPT ![a].state = "disabled"]
                              /\ audit' = audit \cup {<<"revoke", a>>}
    BY <1>6 DEF RevokeAccount
  <2>2. accounts'[a].state = "disabled" /\ \A b \in Accounts \ {a} : accounts'[b] = accounts[b]
    BY <2>1, Disabling
  <2> QED
    BY <1>1, <1>6, <2>1, <2>2 DEF RevokeAccount
<1>7. ASSUME NEW r \in Replicas, ImportKey(r), keys[BootHash].state = "absent"
      PROVE  /\ \A h \in Hashes : Audited(h, keys[h].state)'
             /\ \A a \in Accounts : Audited(a, accounts[a].state)'
  BY <1>1, <1>7 DEF ImportKey, NewRow
<1> QED
  BY <1>2, <1>3, <1>4, <1>5, <1>6, <1>7, RowsChange DEF Administer

LEMMA AccessInvHolds == AccessSpec => []AccessInv
<1>1. AccessInit /\ AccessTypeOK => AccessInv
  <2> SUFFICES ASSUME AccessInit, AccessTypeOK PROVE AccessInv
    OBVIOUS
  <2>1. KeptOut /\ NobodyWithoutKeys /\ ImportsInTime /\ SettingsOK
    BY DEF AccessInit, CredentialsInit, KeptOut, NobodyWithoutKeys, ImportsInTime, SettingsOK,
       Absent
  <2>2. \A h \in Hashes : Audited(h, keys[h].state)
    <3> TAKE h \in Hashes
    <3>1. <<"create", h>> \in audit <=> keys[h].state # "absent"
      BY DEF AccessInit
    <3>2. <<"revoke", h>> \in audit <=> keys[h].state = "disabled"
      BY DEF AccessInit
    <3>3. <<"import", h>> \notin audit
      BY DEF AccessInit
    <3> QED
      BY <3>1, <3>2, <3>3 DEF Audited
  <2>3. \A a \in Accounts : Audited(a, accounts[a].state)
    <3> TAKE a \in Accounts
    <3>1. accounts[a].state = "absent" /\ a \notin Hashes
      BY CredentialsAssumption DEF AccessInit, CredentialsInit, Absent
    <3>2. \A x : <<x, a>> \notin audit
      BY <3>1 DEF AccessInit
    <3> QED
      BY <3>1, <3>2 DEF Audited
  <2>4. AuditMatches
    BY <2>2, <2>3, AuditByTable
  <2> QED
    BY <2>1, <2>4 DEF AccessInv
<1>2. AccessTypeOK /\ AccessInv /\ [AccessNext]_vars => AccessInv'
  BY KeptOutKept, NobodyWithoutKeysKept, ImportsInTimeKept, SettingsOKKept, AuditKept
     DEF AccessInv
<1> QED
  BY <1>1, <1>2, AccessTypeCorrect, PTL DEF AccessSpec

(* A request that begins after its key was revoked acts for nobody           *)
(* (deps.py:42-54).                                                          *)
THEOREM RevokedKeysAreOut == AccessSpec => []RevokedKeyIsOut
<1>1. AccessInv => RevokedKeyIsOut
  BY DEF AccessInv, KeptOut, RevokedKeyIsOut
<1> QED
  BY <1>1, AccessInvHolds, PTL

(* The audit log and the tables say the same (db/audit.py:19-24).            *)
THEOREM AuditAlwaysMatches == AccessSpec => []AuditMatches
<1>1. AccessInv => AuditMatches
  BY DEF AccessInv
<1> QED
  BY <1>1, AccessInvHolds, PTL

(* No replica serves in production with a default secret or a bootstrap key  *)
(* (config.py:93-107, main.py:26-27).                                        *)
THEOREM AlwaysSafeInProduction == AccessSpec => []SafeInProduction
<1>1. ASSUME AccessTypeOK, AccessInv PROVE SafeInProduction
  <2> SUFFICES ASSUME config.production, NEW r \in Replicas, rpc[r] = "serving"
               PROVE  /\ settings[r].pepper = "set" /\ settings[r].jwt = "set"
                      /\ ~config.env.boot
                      /\ ~(config.vault.used /\ config.vault.boot)
    BY DEF SafeInProduction
  <2>1. settings[r] = Hydrated(config.env, config.vault) /\ ~Insecure(settings[r])
    BY <1>1 DEF AccessInv, SettingsOK
  <2>2. settings[r].pepper \in {"default", "set"}
    BY <1>1 DEF AccessTypeOK, SettingsType
  <2>3. settings[r].pepper # "default" /\ settings[r].jwt = "set" /\ ~settings[r].boot
    BY <2>1 DEF Insecure
  <2>4. settings[r].boot = (config.env.boot \/ (config.vault.used /\ config.vault.boot))
    BY <2>1 DEF Hydrated
  <2> QED
    BY <2>2, <2>3, <2>4
<1> QED
  BY <1>1, AccessInvHolds, AccessTypeCorrect, PTL

(* The bootstrap key only enters an empty table (auth/service.py:158-173).   *)
THEOREM AlwaysImportedFirst == AccessSpec => ImportedFirst
<1> DEFINE First == Imported(BootHash) => \A h \in Hashes : keys[h].state = "absent"
<1>1. AccessTypeOK /\ AccessInv /\ [AccessNext]_vars => [First]_vars
  <2> SUFFICES ASSUME AccessTypeOK, AccessInv, [AccessNext]_vars, Imported(BootHash)
               PROVE  \A h \in Hashes : keys[h].state = "absent"
    OBVIOUS
  <2> USE CredentialsAssumption DEF AccessTypeOK, CredentialsTypeOK, Imported
  <2>1. ~UNCHANGED tableVars
    BY DEF tableVars
  <2>2. ASSUME NEW c \in Clients, Administer(c) PROVE FALSE
    <3>1. CASE CreateKey(c)
      BY <3>1 DEF CreateKey
    <3>2. CASE RevokeKey(c)
      BY <3>2, Disabling DEF RevokeKey
    <3>3. CASE CreateAccount(c) \/ RevokeAccount(c)
      BY <3>3 DEF CreateAccount, RevokeAccount
    <3> QED
      BY <2>2, <3>1, <3>2, <3>3 DEF Administer
  <2>3. PICK r \in Replicas : ImportKey(r)
    BY <2>1, <2>2, RowsChange
  <2> QED
    BY <2>3 DEF ImportKey, AccessInv, ImportsInTime
<1> QED
  BY <1>1, AccessInvHolds, AccessTypeCorrect, PTL DEF AccessSpec, ImportedFirst
=============================================================================
