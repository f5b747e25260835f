------------------------- MODULE Credentials_proofs -------------------------
(* Types of the credentials, that a listed account has a token, that no     *)
(* rotated token is lost, and what the account page shows of a token's age  *)
(* and health, for any number of accounts, flows, grants, faults and        *)
(* restarts.                                                                *)
EXTENDS Credentials, SequenceTheorems, FiniteSetTheorems, TLAPS

Working == Stages \ {"idle", "ended"}

\* What the vault, the sources and the flows hold belongs to its account.
VaultOwn == \A a \in Accounts : vault[a] # 0 => issued[vault[a]].account = a
SourcesOwn == \A s \in DOMAIN source : issued[source[s].grant].account = source[s].account
FlowsOwn == \A f \in Flows : flow[f].at \in Working =>
    /\ flow[f].account \in Accounts /\ flow[f].grant \in DOMAIN issued
    /\ issued[flow[f].grant].account = flow[f].account
\* A flow that has stored its token finds one when it connects.
StoredFirst == \A f \in Flows : flow[f].at \in Working \ {"granted"} => vault[flow[f].account] # 0

GrantTypes ==
    /\ issued \in Seq([account: Accounts, auth: Nat])
    /\ replaced \subseteq DOMAIN issued
VaultType == vault \in [Accounts -> {0} \cup DOMAIN issued]
DbTypes == known \subseteq Accounts /\ clock \in [Accounts -> Nat]
SourceType == source \in Seq([account: Accounts, grant: DOMAIN issued, saving: BOOLEAN])
MapTypes ==
    /\ clients \in [Accounts -> {0} \cup DOMAIN source]
    /\ ops \in [Accounts -> {0} \cup DOMAIN source]
    /\ quota \in [Accounts -> {0} \cup DOMAIN source]
FlowType == flow \in [Flows -> [at: Stages, account: Accounts \cup {0}, grant: {0} \cup DOMAIN issued,
                                copy: [Accounts -> {0} \cup DOMAIN source]]]

CredInv == /\ GrantTypes /\ VaultType /\ DbTypes /\ SourceType /\ MapTypes /\ FlowType
           /\ VaultOwn /\ SourcesOwn /\ FlowsOwn /\ StoredFirst /\ ListedHasToken

PageTypes ==
    /\ dead \subseteq Nat /\ expired \subseteq Accounts
    /\ look \in {NoLook} \cup [account: Accounts, source: DOMAIN source]

LEMMA InvGivesTypes == CredInv /\ PageTypes => CredTypeOK
  BY DEF CredInv, GrantTypes, VaultType, DbTypes, SourceType, MapTypes, FlowType, PageTypes, CredTypeOK

LEMMA InitCred == Init => CredInv
  <1> SUFFICES ASSUME Init PROVE CredInv
    OBVIOUS
  <1> USE CredentialsAssumption DEF CredentialsAssumption
  <1>1. PICK old \in {{}} \cup {{a} : a \in Accounts} :
          /\ known = old
          /\ issued = IF old = {} THEN <<>> ELSE <<[account |-> CHOOSE a \in old : TRUE, auth |-> 1]>>
          /\ vault = [a \in Accounts |-> IF a \in old THEN 1 ELSE 0]
          /\ source = IF old = {} THEN <<>> ELSE <<NewSource(CHOOSE a \in old : TRUE)>>
    BY DEF Init
  <1>2. /\ clock = vault /\ clients = vault /\ replaced = {} /\ ops = vault /\ quota = vault
        /\ flow = [f \in Flows |-> NoFlow]
    BY DEF Init
  <1>3. FlowType /\ FlowsOwn /\ StoredFirst
    BY <1>2 DEF FlowType, FlowsOwn, StoredFirst, NoFlow, NoCopy, Stages, Working
  <1>4. CASE old = {}
    BY <1>1, <1>2, <1>3, <1>4 DEF CredInv, GrantTypes, VaultType, DbTypes, SourceType, MapTypes,
        VaultOwn, SourcesOwn, ListedHasToken
  <1>5. CASE old # {}
    <2>1. PICK b \in Accounts : old = {b}
      BY <1>1, <1>5
    <2>2. (CHOOSE a \in old : TRUE) = b
      BY <2>1
    <2>3. issued = <<[account |-> b, auth |-> 1]>> /\ vault[b] = 1
      BY <1>1, <2>1, <2>2
    <2>4. source = <<[account |-> b, grant |-> 1, saving |-> FALSE]>>
      BY <1>1, <2>1, <2>2, <2>3 DEF NewSource
    <2>5. DOMAIN issued = {1} /\ DOMAIN source = {1} /\ issued[1].account = b /\ issued[1].auth = 1
      BY <2>3, <2>4
    <2>6. GrantTypes /\ VaultType /\ DbTypes /\ MapTypes
      <3>1. [account |-> b, auth |-> 1] \in [account: Accounts, auth: Nat]
        OBVIOUS
      <3>2. GrantTypes
        BY <1>2, <2>3, <3>1 DEF GrantTypes
      <3> QED BY <1>1, <1>2, <2>1, <2>3, <2>5, <3>2 DEF VaultType, DbTypes, MapTypes
    <2>7. SourceType /\ SourcesOwn
      BY <2>4, <2>5 DEF SourceType, SourcesOwn
    <2>8. VaultOwn /\ ListedHasToken
      BY <1>1, <2>1, <2>5 DEF VaultOwn, ListedHasToken
    <2> QED BY <1>3, <2>6, <2>7, <2>8 DEF CredInv
  <1> QED BY <1>4, <1>5

SourceState == [account: Accounts, grant: DOMAIN issued, saving: BOOLEAN]

\* Elements of the two sequences.
LEMMA Elements ==
  ASSUME CredInv
  PROVE  /\ \A g \in DOMAIN issued : issued[g] \in [account: Accounts, auth: Nat]
         /\ \A s \in DOMAIN source : source[s] \in SourceState
         /\ Len(issued) \in Nat /\ DOMAIN issued = 1..Len(issued)
         /\ Len(source) \in Nat /\ DOMAIN source = 1..Len(source)
  <1>1. issued \in Seq([account: Accounts, auth: Nat]) /\ source \in Seq(SourceState)
    BY DEF CredInv, GrantTypes, SourceType, SourceState
  <1> QED BY <1>1, ElementOfSeq, LenProperties

\* Sources stay sources when grants are added.
LEMMA SourcesKeep ==
  ASSUME SourceType, DOMAIN issued \subseteq DOMAIN issued' PROVE source \in Seq(SourceState')
  <1>1. SourceState \subseteq SourceState'
    BY DEF SourceState
  <1> QED BY <1>1, SeqMonotonic DEF SourceType, SourceState

\* A new grant leaves the old ones where they are.
LEMMA Issue ==
  ASSUME GrantTypes, NEW r \in [account: Accounts, auth: Nat], issued' = Append(issued, r)
  PROVE  /\ issued' \in Seq([account: Accounts, auth: Nat])
         /\ DOMAIN issued \subseteq DOMAIN issued' /\ Len(issued) + 1 \in DOMAIN issued'
         /\ issued'[Len(issued) + 1] = r
         /\ \A g \in DOMAIN issued : issued'[g] = issued[g]
  <1>1. issued \in Seq([account: Accounts, auth: Nat])
    BY DEF GrantTypes
  <1> QED BY <1>1, AppendProperties, LenProperties

LEMMA ExchangeCred == ASSUME CredInv, NEW f \in Flows, NEW a \in Accounts, Exchange(f, a) PROVE CredInv'
  <1> USE DEF CredInv
  <1> DEFINE r == [account |-> a, auth |-> Len(issued) + 1]
             n == Len(issued) + 1
  <1>1. Len(issued) \in Nat /\ r \in [account: Accounts, auth: Nat] /\ issued' = Append(issued, r)
    BY LenProperties DEF Exchange, GrantTypes
  <1>2. /\ issued' \in Seq([account: Accounts, auth: Nat])
        /\ DOMAIN issued \subseteq DOMAIN issued' /\ n \in DOMAIN issued' /\ issued'[n].account = a
        /\ \A g \in DOMAIN issued : issued'[g] = issued[g]
    <2>1. r.account = a
      OBVIOUS
    <2> QED BY <1>1, <2>1, Issue
  <1>3. UNCHANGED <<replaced, vault, known, clock, source, clients, ops, quota>>
    BY DEF Exchange, db, copies
  <1>4. \A g \in Flows : flow'[g] =
          IF g = f THEN [at |-> "granted", account |-> a, grant |-> n, copy |-> NoCopy] ELSE flow[g]
    <2>1. flow' = [flow EXCEPT ![f] = [at |-> "granted", account |-> a, grant |-> n, copy |-> NoCopy]]
      BY DEF Exchange
    <2> QED BY <2>1 DEF FlowType
  <1>5. GrantTypes' /\ VaultType' /\ DbTypes' /\ SourceType' /\ MapTypes'
    <2>1. SourceType'
      BY <1>2, <1>3, SourcesKeep DEF SourceType, SourceState
    <2> QED BY <1>2, <1>3, <2>1 DEF GrantTypes, VaultType, DbTypes, MapTypes
  <1>6. FlowType'
    <2>1. \A g \in Flows : flow'[g] \in [at: Stages, account: Accounts \cup {0}, grant: {0} \cup DOMAIN issued',
                                         copy: [Accounts -> {0} \cup DOMAIN source']]
      BY <1>2, <1>3, <1>4 DEF FlowType, Stages, NoCopy
    <2>2. flow' = [g \in Flows |-> flow'[g]]
      BY DEF Exchange, FlowType
    <2> QED BY <2>1, <2>2 DEF FlowType
  <1>7. VaultOwn' /\ SourcesOwn' /\ ListedHasToken'
    <2>1. \A s \in DOMAIN source : source[s].grant \in DOMAIN issued
      BY Elements DEF SourceState
    <2>2. \A b \in Accounts : vault[b] # 0 => vault[b] \in DOMAIN issued
      BY DEF VaultType
    <2>3. VaultOwn' /\ ListedHasToken'
      BY <1>2, <1>3, <2>2 DEF VaultOwn, ListedHasToken, DbTypes
    <2> QED BY <1>2, <1>3, <2>1, <2>3 DEF SourcesOwn
  <1>8. FlowsOwn' /\ StoredFirst'
    BY <1>2, <1>3, <1>4 DEF FlowsOwn, StoredFirst, Working, Stages
  <1> QED BY <1>5, <1>6, <1>7, <1>8

FlowState == [at: Stages, account: Accounts \cup {0}, grant: {0} \cup DOMAIN issued,
              copy: [Accounts -> {0} \cup DOMAIN source]]

\* A flow that moves on with its account and grant, or is over.
LEMMA FlowMoves ==
  ASSUME CredInv, NEW f \in Flows, NEW r \in FlowState,
         flow' = [flow EXCEPT ![f] = r], UNCHANGED issued,
         DOMAIN source \subseteq DOMAIN source',
         \A a \in Accounts : vault[a] # 0 => vault'[a] # 0,
         r.at \in Working => /\ flow[f].at \in Working
                             /\ r.account = flow[f].account /\ r.grant = flow[f].grant
                             /\ vault'[flow[f].account] # 0
  PROVE  FlowType' /\ FlowsOwn' /\ StoredFirst'
  <1> USE DEF CredInv
  <1>1. flow'[f] = r /\ \A g \in Flows \ {f} : flow'[g] = flow[g]
    BY DEF FlowType
  <1>2. FlowType'
    <2>1. \A g \in Flows : flow'[g] \in FlowState'
      BY <1>1 DEF FlowType, FlowState
    <2> QED BY <2>1 DEF FlowType, FlowState
  <1>3. FlowsOwn'
    BY <1>1 DEF FlowsOwn
  <1>4. StoredFirst'
    BY <1>1 DEF StoredFirst, FlowsOwn
  <1> QED BY <1>2, <1>3, <1>4

LEMMA Ended == ASSUME CredInv PROVE EndedFlow \in FlowState /\ EndedFlow.at \notin Working
  BY DEF EndedFlow, NoFlow, NoCopy, FlowState, Stages, Working

LEMMA Going ==
  ASSUME CredInv, NEW f \in Flows, NEW stage \in Stages
  PROVE  LET r == [flow[f] EXCEPT !.at = stage] IN
         r \in FlowState /\ r.account = flow[f].account /\ r.grant = flow[f].grant
  BY DEF CredInv, FlowType, FlowState

LEMMA StoreTokenCred == ASSUME CredInv, NEW f \in Flows, StoreToken(f) PROVE CredInv'
  <1> USE DEF CredInv
  <1> DEFINE r == [flow[f] EXCEPT !.at = "stored"]
             b == flow[f].account
  <1>1. /\ flow[f].at = "granted" /\ flow' = [flow EXCEPT ![f] = r]
        /\ vault' = [vault EXCEPT ![b] = flow[f].grant]
        /\ UNCHANGED <<issued, replaced, known, clock, source, clients, ops, quota>>
    BY DEF StoreToken, At, Goto, google, db, copies
  <1>2. b \in Accounts /\ flow[f].grant \in DOMAIN issued /\ issued[flow[f].grant].account = b
    BY <1>1 DEF FlowsOwn, Working, Stages
  <1>3. flow[f].grant # 0
    BY <1>2 DEF GrantTypes
  <1>4. vault'[b] = flow[f].grant /\ \A a \in Accounts \ {b} : vault'[a] = vault[a]
    BY <1>1, <1>2 DEF VaultType
  <1>5. FlowType' /\ FlowsOwn' /\ StoredFirst'
    <2>1. r \in FlowState /\ r.account = b /\ r.grant = flow[f].grant
      BY Going DEF Stages
    <2> QED BY <1>1, <1>2, <1>3, <1>4, <2>1, FlowMoves DEF Working, Stages
  <1>6. VaultType' /\ VaultOwn' /\ ListedHasToken'
    BY <1>1, <1>2, <1>3, <1>4 DEF VaultType, VaultOwn, ListedHasToken, DbTypes
  <1> QED BY <1>1, <1>5, <1>6 DEF GrantTypes, DbTypes, SourceType, MapTypes, SourcesOwn

LEMMA RecordCred == ASSUME CredInv, NEW f \in Flows, RecordAccount(f) \/ RecordIssuance(f) PROVE CredInv'
  <1> USE DEF CredInv
  <1>1. PICK stage \in {"listed", "recorded"} :
          flow' = [flow EXCEPT ![f] = [flow[f] EXCEPT !.at = stage]]
    BY DEF RecordAccount, RecordIssuance, Goto
  <1>2. flow[f].at \in {"stored", "listed"}
    BY DEF RecordAccount, RecordIssuance, At
  <1>3. UNCHANGED <<issued, replaced, vault, source, clients, ops, quota>>
    BY DEF RecordAccount, RecordIssuance, google, copies
  <1>4. flow[f].account \in Accounts /\ vault[flow[f].account] # 0 /\ flow[f].grant \in DOMAIN issued
    BY <1>2 DEF FlowsOwn, StoredFirst, Working, Stages
  <1>5. FlowType' /\ FlowsOwn' /\ StoredFirst'
    <2>1. /\ [flow[f] EXCEPT !.at = stage] \in FlowState
          /\ [flow[f] EXCEPT !.at = stage].account = flow[f].account
          /\ [flow[f] EXCEPT !.at = stage].grant = flow[f].grant
      BY Going DEF Stages
    <2> QED BY <1>1, <1>2, <1>3, <1>4, <2>1, FlowMoves DEF Working, Stages
  <1>6. known' \in {known, known \cup {flow[f].account}}
    BY DEF RecordAccount, RecordIssuance
  <1>7. clock' \in [Accounts -> Nat]
    <2>1. Auth(flow[f].grant) \in Nat
      BY <1>4, Elements DEF Auth
    <2> QED BY <2>1 DEF RecordAccount, RecordIssuance, DbTypes
  <1>8. DbTypes' /\ ListedHasToken'
    BY <1>3, <1>4, <1>6, <1>7 DEF DbTypes, ListedHasToken, VaultOwn
  <1> QED BY <1>3, <1>5, <1>8 DEF GrantTypes, VaultType, SourceType, MapTypes, VaultOwn, SourcesOwn

LEMMA ConnectCred == ASSUME CredInv, NEW f \in Flows, Connect(f) PROVE CredInv'
  <1> USE DEF CredInv
  <1> DEFINE b == flow[f].account
             s == NewSource(b)
             n == Len(source) + 1
  <1>1. /\ flow[f].at = "recorded" /\ flow' = [flow EXCEPT ![f] = [flow[f] EXCEPT !.at = "connected"]]
        /\ source' = Append(source, s) /\ clients' = [clients EXCEPT ![b] = n]
        /\ UNCHANGED <<issued, replaced, vault, known, clock, ops, quota>>
    BY DEF Connect, At, Goto, google, db, copies
  <1>2. b \in Accounts /\ vault[b] # 0
    BY <1>1 DEF FlowsOwn, StoredFirst, Working, Stages
  <1>3. s \in [account: Accounts, grant: DOMAIN issued, saving: BOOLEAN]
        /\ issued[s.grant].account = s.account
    BY <1>2 DEF NewSource, VaultType, VaultOwn
  <1>4. /\ source' \in Seq([account: Accounts, grant: DOMAIN issued, saving: BOOLEAN])
        /\ DOMAIN source \subseteq DOMAIN source' /\ n \in DOMAIN source' /\ source'[n] = s
        /\ \A i \in DOMAIN source' : i = n \/ (i \in DOMAIN source /\ source'[i] = source[i])
    BY <1>1, <1>3, AppendProperties, LenProperties DEF SourceType
  <1>5. SourceType' /\ SourcesOwn'
    BY <1>1, <1>3, <1>4 DEF SourceType, SourcesOwn
  <1>6. MapTypes'
    BY <1>1, <1>2, <1>4 DEF MapTypes
  <1>7. FlowType' /\ FlowsOwn' /\ StoredFirst'
    <2>1. /\ [flow[f] EXCEPT !.at = "connected"] \in FlowState
          /\ [flow[f] EXCEPT !.at = "connected"].account = b
          /\ [flow[f] EXCEPT !.at = "connected"].grant = flow[f].grant
      BY Going DEF Stages
    <2> QED BY <1>1, <1>2, <1>4, <2>1, FlowMoves DEF Working, Stages
  <1> QED BY <1>1, <1>5, <1>6, <1>7 DEF GrantTypes, VaultType, DbTypes, VaultOwn, ListedHasToken

LEMMA PublishCred ==
  ASSUME CredInv, NEW f \in Flows, CopyClients(f) \/ SetEngine(f) \/ SetSpace(f) \/ FlowFails(f)
  PROVE  CredInv'
  <1> USE DEF CredInv
  <1>1. UNCHANGED <<issued, replaced, vault, known, clock, source, clients>>
    BY DEF CopyClients, SetEngine, SetSpace, FlowFails, UnchangedButFlow, google, db, copies
  <1>2. MapTypes'
    <2>1. ops' \in {ops, flow[f].copy} /\ quota' \in {quota, flow[f].copy}
      BY DEF CopyClients, SetEngine, SetSpace, FlowFails, UnchangedButFlow, copies
    <2> QED BY <1>1, <2>1 DEF MapTypes, FlowType
  <1>3. PICK r \in FlowState :
          /\ flow' = [flow EXCEPT ![f] = r]
          /\ r.at \in Working => /\ flow[f].at \in Working \ {"granted"}
                                 /\ r.account = flow[f].account /\ r.grant = flow[f].grant
    <2>1. CASE flow' = [flow EXCEPT ![f] = EndedFlow]
      BY <2>1, Ended
    <2>2. CASE CopyClients(f)
      <3>1. PICK stage \in {"copied", "recopied"} :
              flow' = [flow EXCEPT ![f] = [[flow[f] EXCEPT !.at = stage] EXCEPT !.copy = clients]]
        BY <2>2 DEF CopyClients
      <3>2. LET r == [[flow[f] EXCEPT !.at = stage] EXCEPT !.copy = clients] IN
            r \in FlowState /\ r.account = flow[f].account /\ r.grant = flow[f].grant
        BY DEF FlowType, FlowState, MapTypes, Stages
      <3>3. flow[f].at \in Working \ {"granted"}
        BY <2>2 DEF CopyClients, At, Working, Stages
      <3> QED BY <3>1, <3>2, <3>3
    <2>3. CASE \E stage \in {"engine", "recorded"} :
                 flow' = [flow EXCEPT ![f] = [flow[f] EXCEPT !.at = stage]]
               /\ flow[f].at \in {"copied", "listed"}
      <3>1. PICK stage \in {"engine", "recorded"} :
              flow' = [flow EXCEPT ![f] = [flow[f] EXCEPT !.at = stage]]
        BY <2>3
      <3>2. LET r == [flow[f] EXCEPT !.at = stage] IN
            r \in FlowState /\ r.account = flow[f].account /\ r.grant = flow[f].grant
        BY Going DEF Stages
      <3> QED BY <2>3, <3>1, <3>2 DEF Working, Stages
    <2> QED BY <2>1, <2>2, <2>3 DEF SetEngine, SetSpace, FlowFails, At, Goto
  <1>4. r.at \in Working => vault'[flow[f].account] # 0
    BY <1>1, <1>3 DEF StoredFirst
  <1>5. FlowType' /\ FlowsOwn' /\ StoredFirst'
    BY <1>1, <1>3, <1>4, FlowMoves DEF Working
  <1> QED BY <1>1, <1>2, <1>5 DEF GrantTypes, VaultType, DbTypes, SourceType, VaultOwn, SourcesOwn,
                                  ListedHasToken

LEMMA RefreshCred == ASSUME CredInv, NEW s \in DOMAIN source, Refresh(s) PROVE CredInv'
  <1> USE DEF CredInv
  <1>0. UNCHANGED <<vault, known, clock, clients, ops, quota, flow>>
    BY DEF Refresh, db, copies
  <1>1. source[s] \in [account: Accounts, grant: DOMAIN issued, saving: BOOLEAN]
        /\ issued[source[s].grant].account = source[s].account
    BY Elements DEF SourceState, SourcesOwn
  <1>2. PICK g \in {source[s].grant, Len(issued) + 1} :
          /\ source' = [source EXCEPT ![s] = [source[s] EXCEPT !.saving = TRUE, !.grant = g]]
          /\ \/ g = source[s].grant /\ UNCHANGED <<issued, replaced>>
             \/ /\ g = Len(issued) + 1 /\ issued' = Append(issued, issued[source[s].grant])
                /\ replaced' = replaced \cup {source[s].grant}
    <2>1. CASE UNCHANGED <<issued, replaced>>
      <3>1. [source[s] EXCEPT !.saving = TRUE, !.grant = source[s].grant] = [source[s] EXCEPT !.saving = TRUE]
        BY <1>1
      <3> QED BY <2>1, <3>1 DEF Refresh
    <2>2. CASE issued' = Append(issued, issued[source[s].grant])
      BY <2>2 DEF Refresh
    <2> QED BY <2>1, <2>2 DEF Refresh
  <1>3. /\ issued' \in Seq([account: Accounts, auth: Nat]) /\ DOMAIN issued \subseteq DOMAIN issued'
        /\ g \in DOMAIN issued' /\ issued'[g] = issued[source[s].grant]
        /\ \A e \in DOMAIN issued : issued'[e] = issued[e]
    <2>1. issued[source[s].grant] \in [account: Accounts, auth: Nat]
      BY <1>1, Elements
    <2> QED BY <1>1, <1>2, <2>1, Issue DEF GrantTypes
  <1>4. GrantTypes'
    BY <1>1, <1>2, <1>3 DEF GrantTypes
  <1>5. /\ source' \in Seq([account: Accounts, grant: DOMAIN issued', saving: BOOLEAN])
        /\ DOMAIN source' = DOMAIN source
        /\ source'[s].grant = g /\ source'[s].account = source[s].account
        /\ \A t \in DOMAIN source \ {s} : source'[t] = source[t]
    <2>1. source \in Seq(SourceState')
      BY <1>3, SourcesKeep
    <2> DEFINE r == [source[s] EXCEPT !.saving = TRUE, !.grant = g]
    <2>2. r \in SourceState' /\ r.grant = g /\ r.account = source[s].account
      BY <1>1, <1>3 DEF SourceState
    <2>3. s \in 1..Len(source)
      BY Elements
    <2>4. /\ [source EXCEPT ![s] = r] \in Seq(SourceState')
          /\ DOMAIN [source EXCEPT ![s] = r] = DOMAIN source
          /\ [source EXCEPT ![s] = r][s] = r
          /\ \A t \in DOMAIN source \ {s} : [source EXCEPT ![s] = r][t] = source[t]
      BY <2>1, <2>2, <2>3, ExceptSeq, Elements
    <2> QED BY <1>2, <2>2, <2>4 DEF SourceState
  <1>6. SourceType' /\ SourcesOwn'
    <2>1. \A t \in DOMAIN source : source[t].grant \in DOMAIN issued
      BY Elements DEF SourceState
    <2> QED BY <1>1, <1>3, <1>5, <2>1 DEF SourceType, SourcesOwn
  <1>7. VaultType' /\ DbTypes' /\ MapTypes' /\ FlowType'
    BY <1>0, <1>3, <1>5 DEF VaultType, DbTypes, MapTypes, FlowType
  <1>8. VaultOwn' /\ ListedHasToken' /\ FlowsOwn' /\ StoredFirst'
    BY <1>0, <1>3 DEF VaultOwn, ListedHasToken, FlowsOwn, StoredFirst, VaultType, DbTypes
  <1> QED BY <1>4, <1>6, <1>7, <1>8

LEMMA SaveCred == ASSUME CredInv, NEW s \in DOMAIN source, Save(s) PROVE CredInv'
  <1> USE DEF CredInv
  <1>0. UNCHANGED <<issued, replaced, known, clock, clients, ops, quota, flow>>
    BY DEF Save, google, db, copies
  <1>1. source[s] \in [account: Accounts, grant: DOMAIN issued, saving: BOOLEAN]
        /\ issued[source[s].grant].account = source[s].account /\ source[s].grant # 0
    BY Elements DEF SourceState, SourcesOwn
  <1>2. source' = [source EXCEPT ![s] = [source[s] EXCEPT !.saving = FALSE]]
    BY DEF Save
  <1>3. /\ source' \in Seq([account: Accounts, grant: DOMAIN issued, saving: BOOLEAN])
        /\ DOMAIN source' = DOMAIN source
        /\ \A t \in DOMAIN source : source'[t].grant = source[t].grant
                                    /\ source'[t].account = source[t].account
    <2> DEFINE r == [source[s] EXCEPT !.saving = FALSE]
    <2>1. r \in SourceState /\ r.grant = source[s].grant /\ r.account = source[s].account
      BY <1>1 DEF SourceState
    <2>2. s \in 1..Len(source) /\ source \in Seq(SourceState)
      BY Elements DEF SourceType, SourceState
    <2>3. /\ [source EXCEPT ![s] = r] \in Seq(SourceState)
          /\ DOMAIN [source EXCEPT ![s] = r] = DOMAIN source
          /\ \A t \in DOMAIN source : [source EXCEPT ![s] = r][t] = IF t = s THEN r ELSE source[t]
      BY <2>1, <2>2, ExceptSeq, Elements
    <2> QED BY <1>2, <2>1, <2>3 DEF SourceState
  <1>4. SourceType' /\ SourcesOwn'
    BY <1>0, <1>3 DEF SourceType, SourcesOwn
  <1>5. \/ UNCHANGED vault
        \/ vault' = [vault EXCEPT ![source[s].account] = source[s].grant]
    BY DEF Save
  <1>6. VaultType' /\ VaultOwn' /\ ListedHasToken' /\ StoredFirst'
    BY <1>0, <1>1, <1>5 DEF VaultType, VaultOwn, ListedHasToken, DbTypes, StoredFirst, FlowsOwn
  <1> QED BY <1>0, <1>3, <1>4, <1>6 DEF GrantTypes, DbTypes, MapTypes, FlowType, FlowsOwn

LEMMA RestartCred == ASSUME CredInv, Restart PROVE CredInv'
  <1> USE DEF CredInv
  <1>0. UNCHANGED <<issued, replaced, vault, known, clock>>
    BY DEF Restart, google, db
  <1>1. PICK connected \in SUBSET {a \in known : vault[a] # 0} :
        \E order \in [1..Cardinality(connected) -> connected] :
          /\ {order[i] : i \in DOMAIN order} = connected
          /\ source' = [i \in DOMAIN order |-> NewSource(order[i])]
          /\ clients' = [a \in Accounts |->
                 IF a \in connected THEN CHOOSE i \in DOMAIN order : order[i] = a ELSE 0]
    BY DEF Restart
  <1>2. Cardinality(connected) \in Nat
    <2>1. IsFiniteSet(connected)
      BY <1>1, FS_Subset, CredentialsAssumption DEF CredentialsAssumption, DbTypes
    <2> QED BY <2>1, FS_CardinalityType
  <1> DEFINE n == Cardinality(connected)
  <1> HIDE DEF n
  <1>3. PICK order \in [1..n -> connected] :
          /\ {order[i] : i \in DOMAIN order} = connected
          /\ source' = [i \in DOMAIN order |-> NewSource(order[i])]
          /\ clients' = [a \in Accounts |->
                 IF a \in connected THEN CHOOSE i \in DOMAIN order : order[i] = a ELSE 0]
    BY <1>1 DEF n
  <1>4. \A i \in 1..n : /\ NewSource(order[i]) \in [account: Accounts, grant: DOMAIN issued, saving: BOOLEAN]
                        /\ issued[NewSource(order[i]).grant].account = NewSource(order[i]).account
    BY <1>1, <1>3 DEF NewSource, VaultType, VaultOwn, DbTypes
  <1>5. SourceType' /\ SourcesOwn' /\ DOMAIN source' = 1..n
    <2>1. n \in Nat
      BY <1>2 DEF n
    <2>2. source' \in [1..n -> [account: Accounts, grant: DOMAIN issued, saving: BOOLEAN]]
      BY <1>3, <1>4
    <2>3. source' \in Seq([account: Accounts, grant: DOMAIN issued, saving: BOOLEAN])
      <3> DEFINE S == [account: Accounts, grant: DOMAIN issued, saving: BOOLEAN]
      <3>1. source' \in [1..n -> S]
        BY <2>2
      <3> HIDE DEF S
      <3>2. source' \in Seq(S)
        BY <2>1, <3>1, SeqDef
      <3> QED BY <3>2 DEF S
    <2> QED BY <1>0, <1>3, <1>4, <2>2, <2>3 DEF SourceType, SourcesOwn
  <1>6. clients' \in [Accounts -> {0} \cup DOMAIN source']
    <2>1. \A a \in connected : (CHOOSE i \in 1..n : order[i] = a) \in 1..n
      BY <1>3
    <2> QED BY <1>3, <1>5, <2>1
  <1>7. MapTypes'
    BY <1>6 DEF MapTypes, Restart
  <1>8. \A f \in Flows : flow'[f] \in {NoFlow, EndedFlow}
    BY DEF Restart
  <1>9. FlowType'
    <2>1. flow' = [f \in Flows |-> flow'[f]]
      BY DEF Restart
    <2>2. NoFlow \in FlowState' /\ EndedFlow \in FlowState'
      BY DEF NoFlow, EndedFlow, NoCopy, FlowState, Stages
    <2> QED BY <1>8, <2>1, <2>2 DEF FlowType, FlowState
  <1>10. FlowsOwn' /\ StoredFirst'
    BY <1>8 DEF FlowsOwn, StoredFirst, Working, NoFlow, EndedFlow
  <1> QED BY <1>0, <1>5, <1>7, <1>9, <1>10 DEF GrantTypes, VaultType, DbTypes, VaultOwn, ListedHasToken

\* The account page and the lapse of an authorization leave all of it alone.
LEMMA PageCred ==
  ASSUME CredInv, (\E a \in Accounts : Look(a)) \/ LookEnds \/ \E g \in DOMAIN issued : Lapse(Auth(g))
  PROVE  CredInv'
  <1>1. UNCHANGED <<issued, replaced, vault, known, clock, source, clients, ops, quota, flow>>
    BY DEF Look, LookEnds, Lapse, google, db, copies
  <1> QED BY <1>1 DEF CredInv, GrantTypes, VaultType, DbTypes, SourceType, MapTypes,
                FlowType, VaultOwn, SourcesOwn, FlowsOwn, StoredFirst, ListedHasToken

LEMMA NextCred == CredInv /\ [Next]_vars => CredInv'
  <1> SUFFICES ASSUME CredInv, [Next]_vars PROVE CredInv'
    OBVIOUS
  <1>1. ASSUME NEW f \in Flows, FlowStep(f) PROVE CredInv'
    BY <1>1, ExchangeCred, StoreTokenCred, RecordCred, ConnectCred, PublishCred DEF FlowStep
  <1>2. ASSUME NEW s \in DOMAIN source, Refresh(s) \/ Save(s) PROVE CredInv'
    BY <1>2, RefreshCred, SaveCred
  <1>3. CASE Restart
    BY <1>3, RestartCred
  <1>4. CASE (\E a \in Accounts : Look(a)) \/ LookEnds \/ \E g \in DOMAIN issued : Lapse(Auth(g))
    BY <1>4, PageCred
  <1>5. CASE UNCHANGED vars
    BY <1>5 DEF vars, google, db, copies, CredInv, GrantTypes, VaultType, DbTypes, SourceType, MapTypes,
                FlowType, VaultOwn, SourcesOwn, FlowsOwn, StoredFirst, ListedHasToken
  <1> QED BY <1>1, <1>2, <1>3, <1>4, <1>5 DEF Next

LEMMA CredInvariance == Spec => []CredInv
  BY InitCred, NextCred, PTL DEF Spec

-----------------------------------------------------------------------------
(* The account page: its types, the clock and the flag.                     *)

\* A flow between SaveToken and SetTokenSaved finds a token in the vault that
\* is no older than its own, unless it was written over.
StoredNewer == \A f \in Flows :
    flow[f].at \in {"stored", "listed"} /\ flow[f].account \notin overwritten =>
        Auth(flow[f].grant) <= Auth(vault[flow[f].account])

ClockInv == PageTypes /\ StoredNewer /\ ClockNotAhead

\* What the clock, the vault and the flows say of authorizations are numbers.
LEMMA Auths ==
  ASSUME CredInv
  PROVE  /\ \A g \in DOMAIN issued : Auth(g) \in Nat
         /\ \A a \in Accounts : vault[a] # 0 => vault[a] \in DOMAIN issued /\ Auth(vault[a]) \in Nat
         /\ \A a \in Accounts : clock[a] \in Nat
         /\ \A f \in Flows : flow[f].at \in Working =>
                flow[f].account \in Accounts /\ flow[f].grant \in DOMAIN issued
         /\ \A s \in DOMAIN source : source[s].account \in Accounts /\ source[s].grant \in DOMAIN issued
  <1>1. \A g \in DOMAIN issued : Auth(g) \in Nat
    BY Elements DEF Auth
  <1>2. \A s \in DOMAIN source : source[s].account \in Accounts /\ source[s].grant \in DOMAIN issued
    BY Elements DEF SourceState
  <1> QED BY <1>1, <1>2 DEF CredInv, VaultType, DbTypes, FlowsOwn

LEMMA InitClock == Init => ClockInv
  <1> SUFFICES ASSUME Init PROVE ClockInv
    OBVIOUS
  <1>1. CredInv
    BY InitCred
  <1>2. PageTypes
    BY DEF Init, PageTypes
  <1>3. StoredNewer
    BY DEF Init, StoredNewer, NoFlow
  <1>4. ClockNotAhead
    <2> SUFFICES ASSUME NEW a \in Accounts, vault[a] # 0 PROVE vault[a] <= Auth(vault[a])
      BY DEF Init, ClockNotAhead
    <2>1. PICK old \in {{}} \cup {{b} : b \in Accounts} :
            /\ issued = IF old = {} THEN <<>> ELSE <<[account |-> CHOOSE b \in old : TRUE, auth |-> 1]>>
            /\ vault = [b \in Accounts |-> IF b \in old THEN 1 ELSE 0]
      BY DEF Init
    <2>2. vault[a] = 1 /\ a \in old
      BY <2>1
    <2>3. issued = <<[account |-> CHOOSE b \in old : TRUE, auth |-> 1]>>
      BY <2>1, <2>2
    <2>4. issued[1].auth = 1
      BY <2>3
    <2> QED BY <2>2, <2>4 DEF Auth
  <1> QED BY <1>2, <1>3, <1>4 DEF ClockInv

\* Types of the account page's request when sources are only added.
LEMMA PageKept ==
  ASSUME PageTypes, UNCHANGED <<dead, look>>, expired' \subseteq Accounts, DOMAIN source \subseteq DOMAIN source'
  PROVE  PageTypes'
  BY DEF PageTypes, NoLook

\* A step that writes neither token nor clock, and stores nothing of a flow.
LEMMA ClockFrame ==
  ASSUME CredInv, ClockInv, PageTypes', UNCHANGED <<vault, clock, overwritten>>,
         \A g \in DOMAIN issued : g \in DOMAIN issued' /\ issued'[g] = issued[g],
         \A f \in Flows : flow'[f].at \in {"stored", "listed"} =>
             /\ flow[f].at \in {"stored", "listed"}
             /\ flow'[f].account = flow[f].account /\ flow'[f].grant = flow[f].grant
  PROVE  ClockInv'
  <1> USE DEF ClockInv
  <1>1. \A g \in DOMAIN issued : Auth(g)' = Auth(g)
    BY DEF Auth
  <1>2. StoredNewer'
    <2> SUFFICES ASSUME NEW f \in Flows, flow'[f].at \in {"stored", "listed"},
                        flow'[f].account \notin overwritten
                 PROVE  issued'[flow'[f].grant].auth <= issued'[vault'[flow'[f].account]].auth
      BY DEF StoredNewer, Auth
    <2>1. flow[f].at \in Working \ {"granted"}
      BY DEF Working, Stages
    <2>2. /\ flow[f].grant \in DOMAIN issued /\ flow[f].account \in Accounts
          /\ vault[flow[f].account] \in DOMAIN issued
      BY <2>1, Auths DEF CredInv, StoredFirst
    <2>3. Auth(flow[f].grant) <= Auth(vault[flow[f].account])
      BY DEF StoredNewer
    <2> QED BY <2>2, <2>3 DEF Auth
  <1>3. ClockNotAhead'
    BY <1>1, Auths DEF ClockNotAhead
  <1> QED BY <1>2, <1>3

\* The flows that have stored their tokens had done so before, except for one
\* that stores grant g of account b.
MoreStored(b, g) == \A f \in Flows : flow'[f].at \in {"stored", "listed"} =>
    /\ flow'[f].account = flow[f].account /\ flow'[f].grant = flow[f].grant
    /\ flow[f].at \in {"stored", "listed"} \/ (flow[f].at = "granted" /\ flow[f].account = b /\ flow[f].grant = g)

\* A token is written into the vault; the clock and the flows stay.
LEMMA TokenWritten ==
  ASSUME CredInv, ClockInv, PageTypes', NEW b \in Accounts, NEW g \in DOMAIN issued,
         vault' = [vault EXCEPT ![b] = g], overwritten' = OverwrittenBy(b, g),
         UNCHANGED <<issued, clock>>, MoreStored(b, g)
  PROVE  ClockInv'
  <1> USE DEF ClockInv, MoreStored
  <1>1. /\ \A h : Auth(h)' = Auth(h)
        /\ vault'[b] = g /\ \A a \in Accounts \ {b} : vault'[a] = vault[a]
        /\ g # 0 /\ Auth(g) \in Nat
    <2>1. 0 \notin DOMAIN issued
      BY Elements
    <2> QED BY <2>1, Auths DEF Auth, CredInv, VaultType
  <1>2. overwritten \subseteq overwritten' /\ \A a \in Accounts \ overwritten' :
           vault[a] # 0 => Auth(vault[a]) <= Auth(vault'[a])
    BY <1>1, Auths DEF OverwrittenBy
  <1>3. StoredNewer'
    <2> SUFFICES ASSUME NEW f \in Flows, flow'[f].at \in {"stored", "listed"},
                        flow'[f].account \notin overwritten'
                 PROVE  Auth(flow'[f].grant) <= Auth(vault'[flow'[f].account])
      BY <1>1 DEF StoredNewer
    <2>1. CASE flow[f].at \in {"stored", "listed"}
      <3>1. flow[f].at \in Working \ {"granted"}
        BY <2>1 DEF Working, Stages
      <3>2. /\ flow[f].grant \in DOMAIN issued /\ flow[f].account \in Accounts
            /\ vault[flow[f].account] # 0
        BY <3>1, Auths DEF CredInv, StoredFirst
      <3>3. /\ Auth(flow[f].grant) <= Auth(vault[flow[f].account])
            /\ Auth(vault[flow[f].account]) <= Auth(vault'[flow[f].account])
        BY <1>2, <2>1, <3>2 DEF StoredNewer
      <3>4. /\ Auth(flow[f].grant) \in Nat /\ Auth(vault[flow[f].account]) \in Nat
            /\ Auth(vault'[flow[f].account]) \in Nat
        BY <1>1, <3>2, Auths
      <3> QED BY <3>3, <3>4
    <2>2. CASE flow[f].account = b /\ flow[f].grant = g
      BY <1>1, <2>2
    <2> QED BY <2>1, <2>2
  <1>4. ClockNotAhead'
    <2> SUFFICES ASSUME NEW a \in Accounts \ overwritten', clock[a] # 0
                 PROVE  vault'[a] # 0 /\ clock[a] <= Auth(vault'[a])
      BY <1>1 DEF ClockNotAhead
    <2>1. /\ vault[a] # 0 /\ clock[a] <= Auth(vault[a]) /\ Auth(vault[a]) <= Auth(vault'[a])
      BY <1>2 DEF ClockNotAhead
    <2>2. vault'[a] # 0 /\ clock[a] \in Nat /\ Auth(vault[a]) \in Nat /\ Auth(vault'[a]) \in Nat
      BY <1>1, <2>1, Auths
    <2> QED BY <2>1, <2>2
  <1> QED BY <1>3, <1>4

LEMMA NextClock == CredInv /\ ClockInv /\ [Next]_vars => ClockInv'
  <1> SUFFICES ASSUME CredInv, ClockInv, [Next]_vars PROVE ClockInv'
    OBVIOUS
  <1>a. PageTypes
    BY DEF ClockInv
  <1>b. \A f \in Flows : \A r : /\ [flow EXCEPT ![f] = r][f] = r
                               /\ \A g \in Flows \ {f} : [flow EXCEPT ![f] = r][g] = flow[g]
    BY DEF CredInv, FlowType
  <1>c. \A f \in Flows, stage \in Stages : [flow[f] EXCEPT !.at = stage].at = stage
    BY DEF CredInv, FlowType
  <1>1. ASSUME NEW f \in Flows, NEW a \in Accounts, Exchange(f, a) PROVE ClockInv'
    <2>1. UNCHANGED <<dead, vault, clock, expired, source, look, overwritten>>
      BY <1>1 DEF Exchange, db, history
    <2>2. \A g \in DOMAIN issued : g \in DOMAIN issued' /\ issued'[g] = issued[g]
      BY <1>1, Issue, Elements DEF Exchange, CredInv
    <2>3. flow'[f].at = "granted" /\ \A g \in Flows \ {f} : flow'[g] = flow[g]
      BY <1>1, <1>b DEF Exchange
    <2>4. PageTypes'
      BY <1>a, <2>1, PageKept DEF PageTypes
    <2> QED BY <2>1, <2>2, <2>3, <2>4, ClockFrame
  <1>2. ASSUME NEW f \in Flows, StoreToken(f) PROVE ClockInv'
    <2> DEFINE b == flow[f].account
               g == flow[f].grant
    <2>1. /\ flow[f].at = "granted" /\ flow' = [flow EXCEPT ![f].at = "stored"]
          /\ vault' = [vault EXCEPT ![b] = g] /\ overwritten' = OverwrittenBy(b, g)
          /\ UNCHANGED <<issued, dead, clock, expired, source, look>>
      BY <1>2 DEF StoreToken, At, Goto, google, db
    <2>2. b \in Accounts /\ g \in DOMAIN issued
      BY <2>1, Auths DEF Working, Stages
    <2>3. PageTypes'
      BY <1>a, <2>1, PageKept DEF PageTypes
    <2>4. /\ flow'[f].account = flow[f].account /\ flow'[f].grant = flow[f].grant
          /\ \A e \in Flows \ {f} : flow'[e] = flow[e]
      BY <2>1, <1>b, Going DEF Stages
    <2>5. MoreStored(b, g)
      BY <2>1, <2>4 DEF MoreStored
    <2> HIDE DEF b, g
    <2> QED BY <2>1, <2>2, <2>3, <2>5, TokenWritten
  <1>3. ASSUME NEW f \in Flows, RecordAccount(f) PROVE ClockInv'
    <2>1. /\ flow[f].at = "stored" /\ flow' = [flow EXCEPT ![f].at = "listed"]
          /\ UNCHANGED <<issued, dead, vault, clock, expired, source, look, overwritten>>
      BY <1>3 DEF RecordAccount, At, Goto, google, history
    <2>2. PageTypes'
      BY <1>a, <2>1, PageKept DEF PageTypes
    <2>3. /\ flow'[f].account = flow[f].account /\ flow'[f].grant = flow[f].grant
          /\ \A g \in Flows \ {f} : flow'[g] = flow[g]
      BY <2>1, <1>b, Going DEF Stages
    <2> QED BY <2>1, <2>2, <2>3, ClockFrame
  <1>4. ASSUME NEW f \in Flows, RecordIssuance(f) PROVE ClockInv'
    <2>1. /\ flow[f].at = "listed" /\ flow' = [flow EXCEPT ![f].at = "recorded"]
          /\ clock' = [clock EXCEPT ![flow[f].account] = Auth(flow[f].grant)]
          /\ expired' = expired \ {flow[f].account}
          /\ UNCHANGED <<issued, dead, vault, source, look, overwritten>>
      BY <1>4 DEF RecordIssuance, At, Goto, google
    <2>2. PageTypes'
      BY <1>a, <2>1, PageKept DEF PageTypes
    <2>3. /\ flow'[f].at = "recorded" /\ \A g \in Flows \ {f} : flow'[g] = flow[g]
      BY <2>1, <1>b, <1>c DEF Stages
    <2>4. StoredNewer'
      BY <2>1, <2>3 DEF ClockInv, StoredNewer, Auth
    <2>5. flow[f].account \in Accounts /\ vault[flow[f].account] # 0
      BY <2>1, Auths DEF Working, Stages, CredInv, StoredFirst
    <2>6. ClockNotAhead'
      BY <2>1, <2>5 DEF ClockInv, StoredNewer, ClockNotAhead, CredInv, DbTypes, Auth
    <2> QED BY <2>2, <2>4, <2>6 DEF ClockInv
  <1>5. ASSUME NEW f \in Flows, Connect(f) \/ CopyClients(f) \/ SetEngine(f) \/ SetSpace(f) \/ FlowFails(f)
        PROVE  ClockInv'
    <2>1. UNCHANGED <<issued, dead, vault, clock, expired, look, overwritten>>
      BY <1>5 DEF Connect, CopyClients, SetEngine, SetSpace, FlowFails, UnchangedButFlow, google, db, history
    <2>2. DOMAIN source \subseteq DOMAIN source'
      <3>1. CASE Connect(f)
        BY <3>1, AppendProperties DEF Connect, CredInv, SourceType
      <3>2. CASE UNCHANGED source
        BY <3>2
      <3> QED BY <1>5, <3>1, <3>2 DEF CopyClients, SetEngine, SetSpace, FlowFails, UnchangedButFlow
    <2>3. PageTypes'
      BY <1>a, <2>1, <2>2, PageKept DEF PageTypes
    <2>4. \E r : /\ flow' = [flow EXCEPT ![f] = r] /\ r.at \notin {"stored", "listed"}
      <3>2. CASE \E stage \in {"connected", "engine", "recorded"} : flow' = [flow EXCEPT ![f].at = stage]
        <4>1. PICK stage \in {"connected", "engine", "recorded"} :
                flow' = [flow EXCEPT ![f] = [flow[f] EXCEPT !.at = stage]]
          BY <3>2
        <4>2. [flow[f] EXCEPT !.at = stage].at = stage
          BY <1>c DEF Stages
        <4> QED BY <4>1, <4>2
      <3>3. CASE flow' = [flow EXCEPT ![f] = EndedFlow]
        <4>1. EndedFlow.at = "ended"
          BY DEF EndedFlow, NoFlow
        <4> QED BY <3>3, <4>1
      <3>4. CASE \E stage \in {"copied", "recopied"} : flow' = [flow EXCEPT ![f].at = stage, ![f].copy = clients]
        <4>1. PICK stage \in {"copied", "recopied"} : flow' = [flow EXCEPT ![f].at = stage, ![f].copy = clients]
          BY <3>4
        <4>2. flow' = [flow EXCEPT ![f] = [[flow[f] EXCEPT !.at = stage] EXCEPT !.copy = clients]]
          BY <4>1 DEF CredInv, FlowType
        <4>3. [[flow[f] EXCEPT !.at = stage] EXCEPT !.copy = clients].at = stage
          BY DEF CredInv, FlowType
        <4> QED BY <4>2, <4>3
      <3> QED BY <1>5, <3>2, <3>3, <3>4 DEF Connect, CopyClients, SetEngine, SetSpace, FlowFails, Goto
    <2>5. \A g \in Flows : flow'[g].at \in {"stored", "listed"} => flow'[g] = flow[g]
      BY <2>4, <1>b
    <2> QED BY <2>1, <2>3, <2>5, ClockFrame
  <1>6. ASSUME NEW s \in DOMAIN source, Refresh(s) PROVE ClockInv'
    <2>1. UNCHANGED <<dead, vault, clock, expired, look, overwritten, flow>>
      BY <1>6 DEF Refresh, db, history
    <2>2. \A g \in DOMAIN issued : g \in DOMAIN issued' /\ issued'[g] = issued[g]
      <3>1. CASE UNCHANGED issued
        BY <3>1
      <3>2. CASE issued' = Append(issued, issued[source[s].grant])
        <4>1. issued[source[s].grant] \in [account: Accounts, auth: Nat]
          BY Elements, Auths
        <4> QED BY <3>2, <4>1, Issue DEF CredInv
      <3> QED BY <1>6, <3>1, <3>2 DEF Refresh
    <2>3. DOMAIN source' = DOMAIN source
      BY <1>6 DEF Refresh
    <2>4. PageTypes'
      BY <1>a, <2>1, <2>3, PageKept DEF PageTypes
    <2> QED BY <2>1, <2>2, <2>4, ClockFrame
  <1>7. ASSUME NEW s \in DOMAIN source, Save(s) PROVE ClockInv'
    <2>1. UNCHANGED <<issued, dead, clock, expired, look, flow>> /\ DOMAIN source' = DOMAIN source
      BY <1>7 DEF Save, google, db
    <2>2. PageTypes'
      BY <1>a, <2>1, PageKept DEF PageTypes
    <2>3. CASE UNCHANGED <<vault, overwritten>>
      BY <2>1, <2>2, <2>3, ClockFrame
    <2>4. CASE /\ vault' = [vault EXCEPT ![source[s].account] = source[s].grant]
               /\ overwritten' = OverwrittenBy(source[s].account, source[s].grant)
      <3>1. source[s].account \in Accounts /\ source[s].grant \in DOMAIN issued
        BY Auths
      <3>2. MoreStored(source[s].account, source[s].grant)
        BY <2>1 DEF MoreStored
      <3> QED BY <2>1, <2>2, <2>4, <3>1, <3>2, TokenWritten
    <2> QED BY <1>7, <2>3, <2>4 DEF Save
  <1>8. CASE Restart
    <2>1. UNCHANGED <<issued, dead, vault, clock, expired, overwritten>> /\ look' = NoLook
      BY <1>8 DEF Restart, google, db
    <2>2. PageTypes'
      BY <1>a, <2>1 DEF PageTypes
    <2>3. \A f \in Flows : flow'[f].at \notin {"stored", "listed"}
      BY <1>8 DEF Restart, NoFlow, EndedFlow
    <2> QED BY <2>1, <2>2, <2>3, ClockFrame
  <1>9. ASSUME NEW a \in Accounts, Look(a) PROVE ClockInv'
    <2>1. /\ UNCHANGED <<issued, dead, vault, clock, expired, source, flow, overwritten>>
          /\ quota[a] # 0 /\ look' = [account |-> a, source |-> quota[a]]
      BY <1>9 DEF Look, google, db, history
    <2>2. PageTypes'
      BY <1>a, <2>1 DEF PageTypes, CredInv, MapTypes
    <2> QED BY <2>1, <2>2, ClockFrame
  <1>10. CASE LookEnds
    <2>1. /\ UNCHANGED <<issued, dead, vault, clock, source, flow, overwritten>>
          /\ look # NoLook /\ look' = NoLook /\ expired' \in {expired, expired \cup {look.account}}
      BY <1>10 DEF LookEnds, google
    <2>2. PageTypes'
      BY <1>a, <2>1 DEF PageTypes
    <2> QED BY <2>1, <2>2, ClockFrame
  <1>11. ASSUME NEW g \in DOMAIN issued, Lapse(Auth(g)) PROVE ClockInv'
    <2>1. /\ UNCHANGED <<issued, vault, clock, expired, source, look, flow, overwritten>>
          /\ dead' = dead \cup {Auth(g)}
      BY <1>11 DEF Lapse, db, history
    <2>2. PageTypes'
      BY <1>a, <2>1, Auths DEF PageTypes
    <2> QED BY <2>1, <2>2, ClockFrame
  <1>12. CASE UNCHANGED vars
    <2>1. UNCHANGED <<issued, dead, vault, clock, expired, source, look, flow, overwritten>>
      BY <1>12 DEF vars, google, db, history
    <2>2. PageTypes'
      BY <1>a, <2>1 DEF PageTypes
    <2> QED BY <2>1, <2>2, ClockFrame
  <1> QED BY <1>1, <1>2, <1>3, <1>4, <1>5, <1>6, <1>7, <1>8, <1>9, <1>10, <1>11, <1>12 DEF Next, FlowStep
-----------------------------------------------------------------------------
(* The copies of the client map.                                            *)

Publishing == {"connected", "copied", "engine", "recopied"}

\* Unless two flows met there, at most one publishes, and the copies differ
\* from the client map only by what it still has to hand over.
PublishInv == ~raced =>
    /\ \A f \in Flows, g \in Flows : flow[f].at \in Publishing /\ flow[g].at \in Publishing => f = g
    /\ (\A f \in Flows : flow[f].at \notin Publishing) => ops = clients /\ quota = clients
    /\ \A f \in Flows : /\ flow[f].at \in {"copied", "recopied"} => flow[f].copy = clients
                        /\ flow[f].at \in {"engine", "recopied"} => ops = clients

\* Where one step takes a flow.
LEMMA FlowGoes ==
  ASSUME CredInv, NEW f \in Flows, NEW stage \in Stages, Goto(f, stage)
  PROVE  /\ flow'[f].at = stage /\ flow'[f].account = flow[f].account /\ flow'[f].grant = flow[f].grant
         /\ flow'[f].copy = flow[f].copy /\ \A g \in Flows \ {f} : flow'[g] = flow[g]
  BY DEF CredInv, FlowType, Goto

LEMMA FlowEnds ==
  ASSUME CredInv, NEW f \in Flows, flow' = [flow EXCEPT ![f] = EndedFlow]
  PROVE  flow'[f].at = "ended" /\ \A g \in Flows \ {f} : flow'[g] = flow[g]
  <1>1. EndedFlow.at = "ended"
    BY DEF EndedFlow, NoFlow
  <1> QED BY <1>1 DEF CredInv, FlowType

LEMMA FlowCopies ==
  ASSUME CredInv, NEW f \in Flows, CopyClients(f)
  PROVE  /\ \/ flow[f].at = "connected" /\ flow'[f].at = "copied"
            \/ flow[f].at = "engine" /\ flow'[f].at = "recopied"
         /\ flow'[f].copy = clients /\ \A g \in Flows \ {f} : flow'[g] = flow[g]
  <1>1. PICK stage \in {"copied", "recopied"} :
          /\ flow' = [flow EXCEPT ![f].at = stage, ![f].copy = clients]
          /\ \/ flow[f].at = "connected" /\ stage = "copied"
             \/ flow[f].at = "engine" /\ stage = "recopied"
    BY DEF CopyClients, At
  <1>2. flow' = [flow EXCEPT ![f] = [[flow[f] EXCEPT !.at = stage] EXCEPT !.copy = clients]]
    BY <1>1 DEF CredInv, FlowType
  <1>3. LET r == [[flow[f] EXCEPT !.at = stage] EXCEPT !.copy = clients] IN r.at = stage /\ r.copy = clients
    BY DEF CredInv, FlowType
  <1>4. flow'[f].at = stage /\ flow'[f].copy = clients /\ \A g \in Flows \ {f} : flow'[g] = flow[g]
    BY <1>2, <1>3 DEF CredInv, FlowType
  <1> QED BY <1>1, <1>4

\* A flow that fails was not publishing.
LEMMA FlowFailsEarly ==
  ASSUME CredInv, NEW f \in Flows, FlowFails(f)
  PROVE  /\ flow[f].at \in {"granted", "stored", "recorded", "listed"}
         /\ flow'[f].at \in {"ended", "recorded"} /\ \A g \in Flows \ {f} : flow'[g] = flow[g]
  <1>1. CASE flow' = [flow EXCEPT ![f] = EndedFlow] /\ flow[f].at \in {"granted", "stored", "recorded"}
    BY <1>1, FlowEnds
  <1>2. CASE Goto(f, "recorded") /\ flow[f].at = "listed"
    BY <1>2, FlowGoes DEF Stages
  <1> QED BY <1>1, <1>2 DEF FlowFails, At

LEMMA PublishFrame ==
  ASSUME PublishInv, UNCHANGED <<clients, ops, quota, raced>>,
         \A f \in Flows : \/ flow'[f] = flow[f]
                          \/ flow[f].at \notin Publishing /\ flow'[f].at \notin Publishing
  PROVE  PublishInv'
  BY DEF PublishInv, Publishing

LEMMA NextPublish == ASSUME CredInv, PublishInv, [Next]_vars PROVE PublishInv'
  <1> USE DEF copies, history
  <1>1. ASSUME NEW f \in Flows, NEW a \in Accounts, Exchange(f, a) PROVE PublishInv'
    <2>1. flow'[f].at = "granted" /\ flow[f].at = "idle" /\ \A g \in Flows \ {f} : flow'[g] = flow[g]
      BY <1>1 DEF Exchange, At, CredInv, FlowType
    <2> QED BY <1>1, <2>1, PublishFrame DEF Exchange, Publishing
  <1>2. ASSUME NEW f \in Flows, StoreToken(f) \/ RecordAccount(f) \/ RecordIssuance(f) PROVE PublishInv'
    <2>1. PICK stage \in {"stored", "listed", "recorded"} : Goto(f, stage) /\ flow[f].at \notin Publishing
      BY <1>2 DEF StoreToken, RecordAccount, RecordIssuance, At, Publishing
    <2>2. flow'[f].at \notin Publishing /\ \A g \in Flows \ {f} : flow'[g] = flow[g]
      BY <2>1, FlowGoes DEF Publishing, Stages
    <2> QED BY <1>2, <2>1, <2>2, PublishFrame DEF StoreToken, RecordAccount, RecordIssuance
  <1>3. ASSUME NEW f \in Flows, FlowFails(f) PROVE PublishInv'
    BY <1>3, FlowFailsEarly, PublishFrame DEF FlowFails, UnchangedButFlow, Publishing
  <1>4. ASSUME NEW f \in Flows, Connect(f) PROVE PublishInv'
    <2>1. flow'[f].at = "connected" /\ \A g \in Flows \ {f} : flow'[g] = flow[g]
      BY <1>4, FlowGoes DEF Connect, Stages
    <2>2. ~raced' => \A g \in Flows : flow[g].at \notin Publishing
      BY <1>4 DEF Connect, Publishing
    <2> QED BY <2>1, <2>2 DEF PublishInv, Publishing
  <1>5. ASSUME NEW f \in Flows, CopyClients(f) PROVE PublishInv'
    BY <1>5, FlowCopies DEF CopyClients, UnchangedButFlow, PublishInv, Publishing
  <1>6. ASSUME NEW f \in Flows, SetEngine(f) PROVE PublishInv'
    <2>1. /\ flow[f].at = "copied" /\ flow'[f].at = "engine" /\ \A g \in Flows \ {f} : flow'[g] = flow[g]
      BY <1>6, FlowGoes DEF SetEngine, Stages, At
    <2> QED BY <1>6, <2>1 DEF SetEngine, PublishInv, Publishing
  <1>7. ASSUME NEW f \in Flows, SetSpace(f) PROVE PublishInv'
    <2>1. /\ flow[f].at = "recopied" /\ flow'[f].at = "ended" /\ \A g \in Flows \ {f} : flow'[g] = flow[g]
      BY <1>7, FlowEnds DEF SetSpace, At
    <2> QED BY <1>7, <2>1 DEF SetSpace, PublishInv, Publishing
  <1>8. ASSUME NEW s \in DOMAIN source, Refresh(s) \/ Save(s) PROVE PublishInv'
    BY <1>8, PublishFrame DEF Refresh, Save
  <1>9. CASE Restart
    <2>1. \A f \in Flows : flow'[f].at \notin Publishing
      BY <1>9 DEF Restart, NoFlow, EndedFlow, Publishing
    <2> QED BY <1>9, <2>1 DEF Restart, PublishInv, Publishing
  <1>10. CASE (\E a \in Accounts : Look(a)) \/ LookEnds \/ \E g \in DOMAIN issued : Lapse(Auth(g))
    BY <1>10, PublishFrame DEF Look, LookEnds, Lapse
  <1>11. CASE UNCHANGED vars
    BY <1>11, PublishFrame DEF vars
  <1> QED BY <1>1, <1>2, <1>3, <1>4, <1>5, <1>6, <1>7, <1>8, <1>9, <1>10, <1>11 DEF Next, FlowStep

LEMMA InitPublish == Init => PublishInv
  BY DEF Init, PublishInv, Publishing, NoFlow
-----------------------------------------------------------------------------
(* Rotated tokens.                                                          *)

\* The grants of an authorization are its account's.
AuthOwn == \A g \in DOMAIN issued :
    Auth(g) \in DOMAIN issued /\ issued[Auth(g)].account = issued[g].account

\* Nobody has used a token that no flow has stored yet.
FlowFresh == \A f \in Flows : flow[f].at = "granted" =>
    /\ flow[f].grant \notin replaced
    /\ \A s \in DOMAIN source : Auth(source[s].grant) # Auth(flow[f].grant)
    /\ \A a \in Accounts : vault[a] # 0 => Auth(vault[a]) # Auth(flow[f].grant)
    /\ \A e \in Flows \ {f} : flow[e].at = "granted" => Auth(flow[e].grant) # Auth(flow[f].grant)

\* One source uses an authorization, and has its newest grant, until the write
\* of one fails or a second source starts from the vault.
OneHolder == \A s \in DOMAIN source, t \in DOMAIN source :
    Auth(source[s].grant) = Auth(source[t].grant) => s = t \/ Auth(source[s].grant) \in astray
HolderIsCurrent == \A s \in DOMAIN source :
    source[s].grant \in replaced => Auth(source[s].grant) \in astray

TokenInv == AuthOwn /\ FlowFresh /\ OneHolder /\ HolderIsCurrent /\ RotatedTokenIsKept

\* No grants are issued, stored or taken over by a new source.
LEMMA TokenFrame ==
  ASSUME CredInv, TokenInv, UNCHANGED <<issued, replaced, vault>>, astray \subseteq astray',
         DOMAIN source' = DOMAIN source,
         \A s \in DOMAIN source : /\ source'[s].grant = source[s].grant
                                  /\ source[s].saving => \/ source'[s].saving
                                                         \/ Auth(source[s].grant) \in astray',
         \A f \in Flows : flow'[f].at = "granted" => flow'[f] = flow[f]
  PROVE  TokenInv'
  <1>1. \A g : Auth(g)' = Auth(g)
    BY DEF Auth
  <1>2. AuthOwn' /\ FlowFresh'
    BY <1>1 DEF TokenInv, AuthOwn, FlowFresh
  <1>3. OneHolder' /\ HolderIsCurrent'
    BY <1>1 DEF TokenInv, OneHolder, HolderIsCurrent
  <1>4. RotatedTokenIsKept'
    BY <1>1 DEF TokenInv, RotatedTokenIsKept
  <1> QED BY <1>2, <1>3, <1>4 DEF TokenInv

\* Authorizations of grants that are already issued stay what they are.
LEMMA Issued ==
  ASSUME CredInv, NEW r \in [account: Accounts, auth: Nat], issued' = Append(issued, r)
  PROVE  /\ \A g \in DOMAIN issued : g \in DOMAIN issued' /\ issued'[g] = issued[g] /\ Auth(g)' = Auth(g)
         /\ \A g \in DOMAIN issued' : g \in DOMAIN issued \/ g = Len(issued) + 1
         /\ Len(issued) + 1 \in DOMAIN issued' /\ Len(issued) + 1 \notin DOMAIN issued
         /\ issued'[Len(issued) + 1] = r
  <1>1. issued \in Seq([account: Accounts, auth: Nat]) /\ Len(issued) \in Nat /\ DOMAIN issued = 1..Len(issued)
    BY Elements DEF CredInv, GrantTypes
  <1>2. DOMAIN issued' = 1..(Len(issued) + 1)
    BY <1>1, AppendProperties, LenProperties
  <1>3. /\ \A g \in DOMAIN issued : g \in DOMAIN issued' /\ issued'[g] = issued[g]
        /\ issued'[Len(issued) + 1] = r
    BY Issue DEF CredInv
  <1> QED BY <1>1, <1>2, <1>3 DEF Auth

LEMMA ExchangeToken ==
  ASSUME CredInv, TokenInv, NEW f \in Flows, NEW a \in Accounts, Exchange(f, a) PROVE TokenInv'
  <1> USE DEF TokenInv
  <1> DEFINE n == Len(issued) + 1
             r == [account |-> a, auth |-> n]
  <1>1. issued' = Append(issued, r) /\ UNCHANGED <<replaced, vault, source, astray>>
    BY DEF Exchange, history
  <1>2. flow'[f].at = "granted" /\ flow'[f].grant = n /\ \A g \in Flows \ {f} : flow'[g] = flow[g]
    BY DEF Exchange, CredInv, FlowType
  <1>3. r \in [account: Accounts, auth: Nat] /\ r.auth = n /\ r.account = a
    BY Elements
  <1>4. /\ \A g \in DOMAIN issued : g \in DOMAIN issued' /\ issued'[g] = issued[g] /\ Auth(g)' = Auth(g)
        /\ \A g \in DOMAIN issued' : g \in DOMAIN issued \/ g = n
        /\ n \in DOMAIN issued' /\ n \notin DOMAIN issued /\ issued'[n].account = a /\ issued'[n].auth = n
    BY <1>1, <1>3, Issued
  <1> HIDE DEF n, r
  <1>5. AuthOwn'
    BY <1>4 DEF AuthOwn, Auth
  <1>6. /\ \A s \in DOMAIN source : source[s].grant \in DOMAIN issued
        /\ \A b \in Accounts : vault[b] # 0 => vault[b] \in DOMAIN issued
        /\ \A g \in Flows : flow[g].at = "granted" => flow[g].grant \in DOMAIN issued
        /\ replaced \subseteq DOMAIN issued
    BY Auths DEF CredInv, GrantTypes, Working, Stages
  <1>7. \A g \in DOMAIN issued : Auth(g)' = Auth(g) /\ Auth(g) # n
    BY <1>4 DEF AuthOwn, Auth
  <1>8. FlowFresh'
    <2> SUFFICES ASSUME NEW e \in Flows, flow'[e].at = "granted"
                 PROVE  /\ flow'[e].grant \notin replaced'
                        /\ \A s \in DOMAIN source' : Auth(source[s].grant)' # Auth(flow[e].grant)'
                        /\ \A b \in Accounts : vault'[b] # 0 => Auth(vault[b])' # Auth(flow[e].grant)'
                        /\ \A g \in Flows \ {e} : flow'[g].at = "granted" =>
                              Auth(flow[g].grant)' # Auth(flow[e].grant)'
      BY DEF FlowFresh
    <2>1. CASE e = f
      BY <1>1, <1>2, <1>4, <1>6, <1>7, <2>1 DEF Auth
    <2>2. CASE e # f
      <3>1. flow'[e] = flow[e] /\ Auth(flow[e].grant)' = Auth(flow[e].grant) /\ Auth(flow[e].grant) # n
        BY <1>2, <1>6, <1>7, <2>2 DEF Auth
      <3>2. /\ flow[e].at = "granted" /\ flow[e].grant \notin replaced
            /\ \A s \in DOMAIN source : Auth(source[s].grant) # Auth(flow[e].grant)
            /\ \A b \in Accounts : vault[b] # 0 => Auth(vault[b]) # Auth(flow[e].grant)
            /\ \A g \in Flows \ {e} : flow[g].at = "granted" => Auth(flow[g].grant) # Auth(flow[e].grant)
        BY <3>1 DEF FlowFresh
      <3>3. /\ \A s \in DOMAIN source' : Auth(source[s].grant)' = Auth(source[s].grant)
            /\ \A b \in Accounts : vault[b] # 0 => Auth(vault[b])' = Auth(vault[b])
            /\ \A g \in Flows \ {f} : flow[g].at = "granted" => Auth(flow[g].grant)' = Auth(flow[g].grant)
        BY <1>1, <1>2, <1>4, <1>6 DEF Auth
      <3>4. Auth(flow[f].grant)' = n
        BY <1>2, <1>4 DEF Auth
      <3> QED BY <1>1, <1>2, <3>1, <3>2, <3>3, <3>4
    <2> QED BY <2>1, <2>2
  <1>9. OneHolder' /\ HolderIsCurrent'
    BY <1>1, <1>6, <1>7 DEF OneHolder, HolderIsCurrent
  <1>10. RotatedTokenIsKept'
    <2>1. \A g \in replaced : g \in DOMAIN issued
      BY <1>6
    <2> QED BY <1>1, <1>6, <1>7, <2>1 DEF RotatedTokenIsKept
  <1> QED BY <1>5, <1>8, <1>9, <1>10

LEMMA StoreTokenToken == ASSUME CredInv, TokenInv, NEW f \in Flows, StoreToken(f) PROVE TokenInv'
  <1> USE DEF TokenInv
  <1> DEFINE b == flow[f].account
             g == flow[f].grant
  <1>1. /\ flow[f].at = "granted" /\ vault' = [vault EXCEPT ![b] = g]
        /\ UNCHANGED <<issued, replaced, source, astray>>
    BY DEF StoreToken, At, google
  <1>2. flow'[f].at = "stored" /\ \A e \in Flows \ {f} : flow'[e] = flow[e]
    BY FlowGoes DEF StoreToken, Stages
  <1>3. vault'[b] = g /\ \A a \in Accounts \ {b} : vault'[a] = vault[a]
    BY <1>1, Auths DEF CredInv, VaultType, Working, Stages
  <1>4. \A h : Auth(h)' = Auth(h)
    BY <1>1 DEF Auth
  <1>5. AuthOwn' /\ OneHolder' /\ HolderIsCurrent'
    BY <1>1, <1>4 DEF AuthOwn, OneHolder, HolderIsCurrent
  <1>6. FlowFresh'
    <2> SUFFICES ASSUME NEW e \in Flows, flow'[e].at = "granted"
                 PROVE  /\ flow'[e].grant \notin replaced'
                        /\ \A s \in DOMAIN source' : Auth(source[s].grant)' # Auth(flow[e].grant)'
                        /\ \A a \in Accounts : vault'[a] # 0 => Auth(vault[a])' # Auth(flow[e].grant)'
                        /\ \A h \in Flows \ {e} : flow'[h].at = "granted" =>
                              Auth(flow[h].grant)' # Auth(flow[e].grant)'
      BY DEF FlowFresh
    <2>1. e # f /\ flow'[e] = flow[e] /\ flow[e].at = "granted"
      BY <1>2
    <2>2. Auth(g) # Auth(flow[e].grant)
      BY <1>1, <2>1 DEF FlowFresh
    <2>3. \A a \in Accounts : vault'[a] # 0 => Auth(vault'[a]) # Auth(flow[e].grant)
      BY <1>3, <2>1, <2>2 DEF FlowFresh
    <2> HIDE DEF g, b
    <2> QED BY <1>1, <1>2, <1>4, <2>1, <2>3 DEF FlowFresh, Auth
  <1>7. RotatedTokenIsKept'
    <2>1. g \notin replaced
      BY <1>1 DEF FlowFresh
    <2> HIDE DEF g, b
    <2> QED BY <1>1, <1>3, <1>4, <2>1 DEF RotatedTokenIsKept, Auth
  <1> QED BY <1>5, <1>6, <1>7

LEMMA ConnectToken == ASSUME CredInv, TokenInv, NEW f \in Flows, Connect(f) PROVE TokenInv'
  <1> USE DEF TokenInv
  <1> DEFINE b == flow[f].account
             n == Len(source) + 1
  <1>1. /\ flow[f].at = "recorded" /\ source' = Append(source, NewSource(b))
        /\ UNCHANGED <<issued, replaced, vault>>
        /\ astray' = IF \E s \in DOMAIN source : Auth(source[s].grant) = Auth(vault[b])
                     THEN astray \cup {Auth(vault[b])} ELSE astray
    BY DEF Connect, At, google
  <1>2. b \in Accounts /\ vault[b] \in DOMAIN issued
    BY <1>1, Auths DEF CredInv, StoredFirst, Working, Stages
  <1>3. flow'[f].at = "connected" /\ \A e \in Flows \ {f} : flow'[e] = flow[e]
    BY FlowGoes DEF Connect, Stages
  <1>4. /\ DOMAIN source \subseteq DOMAIN source' /\ n \in DOMAIN source' /\ source'[n].grant = vault[b]
        /\ \A i \in DOMAIN source : source'[i] = source[i]
        /\ \A i \in DOMAIN source' : i = n \/ i \in DOMAIN source
    <2>1. NewSource(b) \in [account: Accounts, grant: DOMAIN issued, saving: BOOLEAN]
          /\ NewSource(b).grant = vault[b]
      BY <1>2 DEF NewSource
    <2> HIDE DEF b
    <2> QED BY <1>1, <2>1, AppendProperties, LenProperties DEF CredInv, SourceType
  <1>5. \A h : Auth(h)' = Auth(h)
    BY <1>1 DEF Auth
  <1>6. astray \subseteq astray'
    BY <1>1
  <1>7. \A s \in DOMAIN source : Auth(source[s].grant) = Auth(vault[b]) => Auth(vault[b]) \in astray'
    BY <1>1
  <1> HIDE DEF b, n
  <1>8. AuthOwn'
    BY <1>1, <1>5 DEF AuthOwn
  <1>9. FlowFresh'
    <2> SUFFICES ASSUME NEW e \in Flows, flow'[e].at = "granted"
                 PROVE  /\ flow'[e].grant \notin replaced'
                        /\ \A s \in DOMAIN source' : Auth(source[s].grant)' # Auth(flow[e].grant)'
                        /\ \A a \in Accounts : vault'[a] # 0 => Auth(vault[a])' # Auth(flow[e].grant)'
                        /\ \A h \in Flows \ {e} : flow'[h].at = "granted" =>
                              Auth(flow[h].grant)' # Auth(flow[e].grant)'
      BY DEF FlowFresh
    <2>1. e # f /\ flow'[e] = flow[e] /\ flow[e].at = "granted"
      BY <1>3
    <2>2. vault[b] # 0
      BY <1>2, Elements
    <2>3. \A s \in DOMAIN source' : Auth(source'[s].grant) # Auth(flow[e].grant)
      BY <1>2, <1>4, <2>1, <2>2 DEF FlowFresh
    <2> QED BY <1>1, <1>3, <1>5, <2>1, <2>3 DEF FlowFresh, Auth
  <1>10. OneHolder'
    BY <1>4, <1>5, <1>6, <1>7 DEF OneHolder, Auth
  <1>11. HolderIsCurrent'
    <2>1. ASSUME vault[b] \in replaced PROVE Auth(vault[b]) \in astray'
      BY <1>2, <1>6, <1>7, <2>1 DEF RotatedTokenIsKept
    <2> QED BY <1>1, <1>4, <1>5, <1>6, <2>1 DEF HolderIsCurrent, Auth
  <1>12. RotatedTokenIsKept'
    BY <1>1, <1>4, <1>5, <1>6 DEF RotatedTokenIsKept, Auth
  <1> QED BY <1>8, <1>9, <1>10, <1>11, <1>12

\* What using a refresh token does to its source.
LEMMA RefreshMoves ==
  ASSUME CredInv, NEW s \in DOMAIN source, Refresh(s)
  PROVE  /\ DOMAIN source' = DOMAIN source /\ \A t \in DOMAIN source \ {s} : source'[t] = source[t]
         /\ source'[s].saving /\ UNCHANGED <<vault, flow, astray>> /\ source[s].grant \notin replaced
         /\ \/ source'[s].grant = source[s].grant /\ UNCHANGED <<issued, replaced>>
            \/ /\ issued' = Append(issued, issued[source[s].grant])
               /\ replaced' = replaced \cup {source[s].grant}
               /\ source'[s].grant = Len(issued) + 1
  <1>1. source[s] \in SourceState /\ source \in [DOMAIN source -> SourceState]
    BY Elements, LenProperties DEF CredInv, SourceType, SourceState
  <1>2. CASE source' = [source EXCEPT ![s].saving = TRUE] /\ UNCHANGED <<issued, replaced>>
    BY <1>1, <1>2 DEF Refresh, Refused, SourceState, history
  <1>3. CASE /\ issued' = Append(issued, issued[source[s].grant])
             /\ replaced' = replaced \cup {source[s].grant}
             /\ source' = [source EXCEPT ![s].saving = TRUE, ![s].grant = Len(issued) + 1]
    <2>1. source' = [source EXCEPT ![s] = [[source[s] EXCEPT !.saving = TRUE] EXCEPT !.grant = Len(issued) + 1]]
      BY <1>1, <1>3
    <2> DEFINE r == [[source[s] EXCEPT !.saving = TRUE] EXCEPT !.grant = Len(issued) + 1]
    <2>2. r.saving /\ r.grant = Len(issued) + 1
      BY <1>1 DEF SourceState
    <2> HIDE DEF r
    <2>3. source'[s] = r /\ DOMAIN source' = DOMAIN source /\ \A t \in DOMAIN source \ {s} : source'[t] = source[t]
      BY <1>1, <2>1 DEF r
    <2> QED BY <1>3, <2>2, <2>3 DEF Refresh, Refused, history
  <1> QED BY <1>2, <1>3 DEF Refresh

LEMMA RefreshToken == ASSUME CredInv, TokenInv, NEW s \in DOMAIN source, Refresh(s) PROVE TokenInv'
  <1> USE DEF TokenInv
  <1>1. CASE source'[s].grant = source[s].grant /\ UNCHANGED <<issued, replaced>>
    BY <1>1, RefreshMoves, TokenFrame
  <1>2. CASE /\ issued' = Append(issued, issued[source[s].grant])
             /\ replaced' = replaced \cup {source[s].grant}
             /\ source'[s].grant = Len(issued) + 1
    <2> DEFINE g == source[s].grant
               n == Len(issued) + 1
    <2>1. /\ DOMAIN source' = DOMAIN source /\ \A t \in DOMAIN source \ {s} : source'[t] = source[t]
          /\ source'[s].saving /\ UNCHANGED <<vault, flow, astray>> /\ g \notin replaced
          /\ source'[s].grant = n /\ replaced' = replaced \cup {g}
      BY <1>2, RefreshMoves
    <2>2. g \in DOMAIN issued /\ issued[g] \in [account: Accounts, auth: Nat]
      BY Auths, Elements
    <2>3. /\ \A h \in DOMAIN issued : h \in DOMAIN issued' /\ issued'[h] = issued[h] /\ Auth(h)' = Auth(h)
          /\ \A h \in DOMAIN issued' : h \in DOMAIN issued \/ h = n
          /\ n \in DOMAIN issued' /\ n \notin DOMAIN issued /\ issued'[n] = issued[g] /\ issued'[n].auth = Auth(g)
      BY <1>2, <2>2, Issued DEF Auth
    <2>4. /\ \A t \in DOMAIN source : source[t].grant \in DOMAIN issued
          /\ \A b \in Accounts : vault[b] # 0 => vault[b] \in DOMAIN issued
          /\ \A e \in Flows : flow[e].at = "granted" => flow[e].grant \in DOMAIN issued
          /\ replaced \subseteq DOMAIN issued
      BY Auths DEF CredInv, GrantTypes, Working, Stages
    <2> HIDE DEF g, n
    <2>5. \A t \in DOMAIN source : Auth(source[t].grant)' = Auth(source[t].grant)
      <3>1. Auth(source[s].grant)' = Auth(source[s].grant)
        BY <2>1, <2>3 DEF Auth, g
      <3>2. \A t \in DOMAIN source \ {s} : Auth(source[t].grant)' = Auth(source[t].grant)
        BY <2>1, <2>3, <2>4 DEF Auth
      <3> QED BY <3>1, <3>2
    <2>6. AuthOwn'
      BY <2>2, <2>3 DEF AuthOwn, Auth
    <2>7. FlowFresh'
      <3> SUFFICES ASSUME NEW e \in Flows, flow[e].at = "granted"
                   PROVE  /\ flow[e].grant \notin replaced'
                          /\ \A t \in DOMAIN source : Auth(source[t].grant)' # Auth(flow[e].grant)'
                          /\ \A a \in Accounts : vault[a] # 0 => Auth(vault[a])' # Auth(flow[e].grant)'
                          /\ \A h \in Flows \ {e} : flow[h].at = "granted" =>
                                Auth(flow[h].grant)' # Auth(flow[e].grant)'
        BY <2>1 DEF FlowFresh
      <3>1. Auth(flow[e].grant)' = Auth(flow[e].grant) /\ flow[e].grant # g
        BY <2>1, <2>3, <2>4 DEF FlowFresh, Auth, g
      <3>2. \A a \in Accounts : vault[a] # 0 => Auth(vault[a])' = Auth(vault[a])
        BY <2>1, <2>3, <2>4 DEF Auth
      <3>3. \A h \in Flows : flow[h].at = "granted" => Auth(flow[h].grant)' = Auth(flow[h].grant)
        BY <2>1, <2>3, <2>4 DEF Auth
      <3> QED BY <2>1, <2>5, <3>1, <3>2, <3>3 DEF FlowFresh
    <2>8. OneHolder'
      BY <2>1, <2>5 DEF OneHolder
    <2>9. HolderIsCurrent'
      <3>1. n \notin replaced'
        BY <2>1, <2>2, <2>3, <2>4
      <3>2. \A t \in DOMAIN source \ {s} : source[t].grant = g => Auth(g) \in astray
        BY DEF OneHolder, g
      <3> QED BY <2>1, <2>5, <3>1, <3>2 DEF HolderIsCurrent
    <2>10. RotatedTokenIsKept'
      <3> SUFFICES ASSUME NEW a \in Accounts, vault[a] \in replaced'
                   PROVE  \/ Auth(vault[a])' \in astray'
                          \/ \E t \in DOMAIN source : source'[t].saving /\ Auth(source[t].grant)' = Auth(vault[a])'
        BY <2>1 DEF RotatedTokenIsKept
      <3>1. vault[a] \in DOMAIN issued /\ Auth(vault[a])' = Auth(vault[a])
        BY <2>1, <2>2, <2>3, <2>4 DEF Auth
      <3>2. CASE vault[a] = g
        BY <2>1, <2>5, <3>1, <3>2 DEF g
      <3>3. CASE vault[a] \in replaced
        BY <2>1, <2>5, <3>1, <3>3 DEF RotatedTokenIsKept
      <3> QED BY <2>1, <3>2, <3>3
    <2> QED BY <2>6, <2>7, <2>8, <2>9, <2>10
  <1> QED BY <1>1, <1>2, RefreshMoves

LEMMA SaveToken == ASSUME CredInv, TokenInv, NEW s \in DOMAIN source, Save(s) PROVE TokenInv'
  <1> USE DEF TokenInv
  <1>0. source[s] \in SourceState /\ source \in [DOMAIN source -> SourceState]
    BY Elements, LenProperties DEF CredInv, SourceType, SourceState
  <1>1. /\ UNCHANGED <<issued, replaced, flow>> /\ source' = [source EXCEPT ![s].saving = FALSE]
        /\ \/ /\ vault' = [vault EXCEPT ![source[s].account] = source[s].grant] /\ UNCHANGED astray
           \/ UNCHANGED vault /\ astray' = astray \cup {Auth(source[s].grant)}
    BY DEF Save, google
  <1>2. /\ DOMAIN source' = DOMAIN source /\ \A t \in DOMAIN source \ {s} : source'[t] = source[t]
        /\ source'[s].grant = source[s].grant
    BY <1>0, <1>1 DEF SourceState
  <1>3. CASE UNCHANGED vault /\ astray' = astray \cup {Auth(source[s].grant)}
    BY <1>1, <1>2, <1>3, TokenFrame
  <1>4. CASE vault' = [vault EXCEPT ![source[s].account] = source[s].grant] /\ UNCHANGED astray
    <2> DEFINE b == source[s].account
               g == source[s].grant
    <2>1. b \in Accounts /\ g \in DOMAIN issued /\ issued[g].account = b
      BY Auths DEF CredInv, SourcesOwn
    <2>2. vault'[b] = g /\ \A a \in Accounts \ {b} : vault'[a] = vault[a]
      BY <1>4, <2>1 DEF CredInv, VaultType
    <2>3. \A h : Auth(h)' = Auth(h)
      BY <1>1 DEF Auth
    <2>4. AuthOwn' /\ OneHolder' /\ HolderIsCurrent'
      BY <1>1, <1>2, <1>4, <2>3 DEF AuthOwn, OneHolder, HolderIsCurrent, Auth
    <2>5. FlowFresh'
      <3>1. \A e \in Flows : flow[e].at = "granted" =>
               \A a \in Accounts : vault'[a] # 0 => Auth(vault'[a]) # Auth(flow[e].grant)
        BY <2>2 DEF FlowFresh
      <3> QED BY <1>1, <1>2, <2>3, <3>1 DEF FlowFresh, Auth
    <2>6. RotatedTokenIsKept'
      <3> SUFFICES ASSUME NEW a \in Accounts, vault'[a] \in replaced
                   PROVE  \/ Auth(vault'[a]) \in astray
                          \/ \E t \in DOMAIN source : source'[t].saving /\ Auth(source'[t].grant) = Auth(vault'[a])
        BY <1>1, <1>2, <1>4, <2>3 DEF RotatedTokenIsKept, Auth
      <3>1. CASE a = b
        BY <2>2, <3>1 DEF HolderIsCurrent
      <3>2. CASE a # b
        <4>1. vault'[a] = vault[a] /\ vault[a] # 0 /\ vault[a] \in DOMAIN issued
          BY <2>2, <3>2, Elements, Auths DEF CredInv, GrantTypes
        <4>2. issued[vault[a]].account = a
          BY <4>1 DEF CredInv, VaultOwn
        <4>3. Auth(g) # Auth(vault[a])
          BY <2>1, <3>2, <4>1, <4>2 DEF AuthOwn
        <4> QED BY <1>2, <4>1, <4>3 DEF RotatedTokenIsKept
      <3> QED BY <3>1, <3>2
    <2> QED BY <2>4, <2>5, <2>6
  <1> QED BY <1>1, <1>3, <1>4

LEMMA RestartToken == ASSUME CredInv, TokenInv, Restart PROVE TokenInv'
  <1> USE DEF TokenInv
  <1>1. UNCHANGED <<issued, replaced, vault>>
    BY DEF Restart, google
  <1>2. PICK connected \in SUBSET {a \in known : vault[a] # 0} :
        \E order \in [1..Cardinality(connected) -> connected] :
          /\ {order[i] : i \in DOMAIN order} = connected
          /\ source' = [i \in DOMAIN order |-> NewSource(order[i])]
    BY DEF Restart
  <1> DEFINE n == Cardinality(connected)
  <1>3. PICK order \in [1..n -> connected] :
          /\ {order[i] : i \in DOMAIN order} = connected
          /\ source' = [i \in DOMAIN order |-> NewSource(order[i])]
    BY <1>2
  <1>4. \A i \in 1..n, j \in 1..n : order[i] = order[j] => i = j
    <2>1. IsFiniteSet(connected)
      BY <1>2, FS_Subset, CredentialsAssumption DEF CredentialsAssumption, CredInv, DbTypes
    <2>2. n \in Nat
      BY <2>1, FS_CardinalityType
    <2>3. IsFiniteSet(1..n) /\ Cardinality(1..n) = n
      BY <2>2, FS_Interval
    <2>4. order \in Surjection(1..n, connected)
      BY <1>3 DEF Surjection
    <2> HIDE DEF n
    <2>5. order \in Injection(1..n, connected)
      BY <2>1, <2>3, <2>4, FS_SurjSameCardinalityImpliesInj DEF n
    <2> QED BY <1>3, <2>5 DEF n, Injection, IsInjective
  <1> HIDE DEF n
  <1>5. /\ DOMAIN source' = 1..n
        /\ \A i \in 1..n : /\ order[i] \in Accounts /\ source'[i].grant = vault[order[i]]
                           /\ vault[order[i]] \in DOMAIN issued /\ issued[vault[order[i]]].account = order[i]
    <2>1. \A i \in 1..n : order[i] \in connected
      BY <1>3
    <2>2. \A a \in connected : a \in Accounts /\ vault[a] # 0
      BY <1>2 DEF CredInv, DbTypes
    <2>3. DOMAIN source' = 1..n /\ \A i \in 1..n : source'[i].grant = vault[order[i]]
      BY <1>3 DEF NewSource
    <2> QED BY <2>1, <2>2, <2>3, Auths DEF CredInv, VaultOwn
  <1>6. \A h : Auth(h)' = Auth(h)
    BY <1>1 DEF Auth
  <1>7. /\ astray \subseteq astray'
        /\ \A s \in DOMAIN source : source[s].saving => Auth(source[s].grant) \in astray'
    BY DEF Restart
  <1>8. \A a \in Accounts : vault[a] \in replaced => Auth(vault[a]) \in astray'
    BY <1>7 DEF RotatedTokenIsKept
  <1>9. \A f \in Flows : flow'[f].at # "granted"
    BY DEF Restart, NoFlow, EndedFlow
  <1>10. AuthOwn' /\ FlowFresh'
    BY <1>1, <1>6, <1>9 DEF AuthOwn, FlowFresh
  <1>11. HolderIsCurrent' /\ RotatedTokenIsKept'
    BY <1>1, <1>5, <1>6, <1>8 DEF HolderIsCurrent, RotatedTokenIsKept, Auth
  <1>12. OneHolder'
    <2> SUFFICES ASSUME NEW i \in 1..n, NEW j \in 1..n, Auth(vault[order[i]]) = Auth(vault[order[j]])
                 PROVE  i = j
      BY <1>5, <1>6 DEF OneHolder, Auth
    <2>1. order[i] = order[j]
      BY <1>5 DEF AuthOwn
    <2> QED BY <1>4, <2>1
  <1> QED BY <1>10, <1>11, <1>12

LEMMA NextToken == ASSUME CredInv, TokenInv, [Next]_vars PROVE TokenInv'
  <1> USE DEF google, history
  <1>1. ASSUME NEW f \in Flows, RecordAccount(f) \/ RecordIssuance(f) \/ SetEngine(f) PROVE TokenInv'
    <2>1. PICK stage \in {"listed", "recorded", "engine"} : Goto(f, stage)
      BY <1>1 DEF RecordAccount, RecordIssuance, SetEngine
    <2>2. flow'[f].at # "granted" /\ \A g \in Flows \ {f} : flow'[g] = flow[g]
      BY <2>1, FlowGoes DEF Stages
    <2> QED BY <1>1, <2>2, TokenFrame DEF RecordAccount, RecordIssuance, SetEngine
  <1>2. ASSUME NEW f \in Flows, CopyClients(f) PROVE TokenInv'
    BY <1>2, FlowCopies, TokenFrame DEF CopyClients, UnchangedButFlow
  <1>3. ASSUME NEW f \in Flows, SetSpace(f) PROVE TokenInv'
    BY <1>3, FlowEnds, TokenFrame DEF SetSpace
  <1>4. ASSUME NEW f \in Flows, FlowFails(f) PROVE TokenInv'
    BY <1>4, FlowFailsEarly, TokenFrame DEF FlowFails, UnchangedButFlow
  <1>5. CASE (\E a \in Accounts : Look(a)) \/ LookEnds \/ \E g \in DOMAIN issued : Lapse(Auth(g))
    BY <1>5, TokenFrame DEF Look, LookEnds, Lapse
  <1>6. CASE UNCHANGED vars
    BY <1>6, TokenFrame DEF vars
  <1> QED BY <1>1, <1>2, <1>3, <1>4, <1>5, <1>6, ExchangeToken, StoreTokenToken, ConnectToken, RefreshToken,
         SaveToken, RestartToken DEF Next, FlowStep

LEMMA InitToken == Init => TokenInv
  <1> SUFFICES ASSUME Init PROVE TokenInv
    OBVIOUS
  <1>1. PICK old \in {{}} \cup {{b} : b \in Accounts} :
          /\ issued = IF old = {} THEN <<>> ELSE <<[account |-> CHOOSE b \in old : TRUE, auth |-> 1]>>
          /\ source = IF old = {} THEN <<>> ELSE <<NewSource(CHOOSE b \in old : TRUE)>>
    BY DEF Init
  <1>2. replaced = {} /\ \A f \in Flows : flow[f].at # "granted"
    BY DEF Init, NoFlow
  <1>3. FlowFresh /\ HolderIsCurrent /\ RotatedTokenIsKept
    BY <1>2 DEF FlowFresh, HolderIsCurrent, RotatedTokenIsKept
  <1>4. \A s \in DOMAIN source, t \in DOMAIN source : s = t
    BY <1>1
  <1>5. AuthOwn
    <2>1. DOMAIN issued \subseteq {1} /\ \A g \in DOMAIN issued : issued[g].auth = 1
      BY <1>1
    <2> QED BY <2>1 DEF AuthOwn, Auth
  <1> QED BY <1>3, <1>4, <1>5 DEF TokenInv, OneHolder
-----------------------------------------------------------------------------
(* The flag of the account page.                                            *)

LEMMA NextFlag ==
  ASSUME CredInv, PageTypes, TokenInv, FlagIsTrue, [Next]_vars
  PROVE  FlagIsTrue'
  <1> USE DEF google, db, history
  <1>1. ASSUME UNCHANGED <<expired, misled, clock>>, dead \subseteq dead', astray \subseteq astray'
        PROVE  FlagIsTrue'
    BY <1>1 DEF FlagIsTrue
  <1>2. ASSUME NEW f \in Flows, RecordIssuance(f) PROVE FlagIsTrue'
    BY <1>2 DEF RecordIssuance, FlagIsTrue, CredInv, DbTypes, PageTypes
  <1>3. CASE LookEnds
    <2>1. CASE UNCHANGED <<expired, misled>>
      BY <1>1, <1>3, <2>1 DEF LookEnds
    <2>2. CASE /\ Refused(look.source) /\ expired' = expired \cup {look.account}
               /\ misled' = IF Auth(source[look.source].grant) = clock[look.account]
                            THEN misled ELSE misled \cup {look.account}
      <3>1. look.source \in DOMAIN source
        BY <1>3 DEF LookEnds, PageTypes
      <3>2. Auth(source[look.source].grant) \in dead \cup astray
        BY <2>2, <3>1 DEF Refused, TokenInv, HolderIsCurrent
      <3> QED BY <1>3, <2>2, <3>2 DEF LookEnds, FlagIsTrue
    <2> QED BY <1>3, <2>1, <2>2 DEF LookEnds
  <1>4. ASSUME NEW f \in Flows, FlowStep(f), ~RecordIssuance(f) PROVE FlagIsTrue'
    BY <1>1, <1>4 DEF FlowStep, Exchange, StoreToken, RecordAccount, Connect, CopyClients, SetEngine, SetSpace,
       FlowFails, UnchangedButFlow
  <1>5. ASSUME NEW s \in DOMAIN source, Refresh(s) \/ Save(s) PROVE FlagIsTrue'
    BY <1>1, <1>5 DEF Refresh, Save
  <1>6. CASE (\E a \in Accounts : Look(a)) \/ Restart \/ \E g \in DOMAIN issued : Lapse(Auth(g))
    BY <1>1, <1>6 DEF Look, Restart, Lapse
  <1>7. CASE UNCHANGED vars
    BY <1>1, <1>7 DEF vars
  <1> QED BY <1>2, <1>3, <1>4, <1>5, <1>6, <1>7 DEF Next
-----------------------------------------------------------------------------
\* The variables of Credentials keep their types.
THEOREM CredTypesHold == Spec => []CredTypeOK
  <1>1. CredInv /\ ClockInv => CredTypeOK
    BY InvGivesTypes DEF ClockInv
  <1> QED BY <1>1, CredInvariance, InitClock, NextClock, PTL DEF Spec

\* Wherever a flow fails or the daemon stops, every account in the accounts
\* table has a refresh token of its own in the vault.
THEOREM ListedAccountsHaveTokens == Spec => []ListedHasToken
  BY CredInvariance, PTL DEF CredInv

\* The clock of an account never runs ahead of its stored token, as long as no
\* older token was saved over a newer one.
THEOREM CountdownIsSafe == Spec => []ClockNotAhead
  <1>1. ClockInv => ClockNotAhead
    BY DEF ClockInv
  <1> QED BY <1>1, CredInvariance, InitClock, NextClock, PTL DEF Spec

\* Once no flow is under way the engine and the space manager work with the
\* clients of the daemon, unless two flows published theirs at once.
THEOREM CopiesCatchUp == Spec => []EngineKnowsClients
  <1>1. CredInv /\ PublishInv => EngineKnowsClients
    BY DEF CredInv, PublishInv, Publishing, EngineKnowsClients
  <1> QED BY <1>1, CredInvariance, InitPublish, NextPublish, PTL DEF Spec

\* The vault keeps no refresh token that Google has replaced, unless the write
\* of its successor is still to come, failed or was cut off, or two sources
\* used the token.
THEOREM RotationIsSafe == Spec => []RotatedTokenIsKept
  <1>1. TokenInv => RotatedTokenIsKept
    BY DEF TokenInv
  <1> QED BY <1>1, CredInvariance, InitToken, NextToken, PTL DEF Spec

\* An account flagged as expired has lost the authorization its clock was set
\* for, or that authorization's newest token, unless the refusal of an older
\* one was recorded late.
THEOREM FlagsAreTrue == Spec => []FlagIsTrue
  <1>1. Init => FlagIsTrue
    BY DEF Init, FlagIsTrue
  <1>2. ClockInv => PageTypes
    BY DEF ClockInv
  <1> QED BY <1>1, <1>2, CredInvariance, InitClock, NextClock, InitToken, NextToken, NextFlag, PTL DEF Spec
=============================================================================
