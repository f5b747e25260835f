---------------------------- MODULE Credentials -----------------------------
(***************************************************************************)
(* Accounts and their refresh tokens: the OAuth flow of auth/oauth.go and  *)
(* the daemon's AddAccount around it, the token sources of auth/vault.go   *)
(* that write what they refresh back to the vault, the copies of the       *)
(* client map that the engine and the space manager work with, and what    *)
(* the account page is told of a token's age and health.                   *)
(*                                                                         *)
(* A grant is one refresh token.  Google may replace it when it is used,   *)
(* by a later grant of the same authorization (its first grant's number).  *)
(***************************************************************************)
EXTENDS Naturals, Sequences, FiniteSets

CONSTANTS
    Accounts,
    Flows,        \* requests for a new authorization (a bound on their number)
    MaxGrants,    \* bound: refresh tokens issued
    MaxFaults,    \* bound: failed writes and calls
    MaxRestarts   \* bound: crashes and restarts of the daemon

ASSUME CredentialsAssumption ==
    /\ MaxGrants \in Nat \ {0} /\ MaxFaults \in Nat /\ MaxRestarts \in Nat
    /\ IsFiniteSet(Accounts) /\ 0 \notin Accounts

VARIABLES
    issued,      \* Google: the grants, in the order they were issued
    replaced,    \* Google: grants that gave way to a later one
    dead,        \* Google: authorizations that have run out or were revoked
    vault,       \* account -> the grant stored in the OS vault, 0 for none
    known,       \* accounts table: its rows
    clock,       \* its token_saved_at: the authorization it was set for, or 0
    expired,     \* its token_status: the accounts with "EXPIRED"
    source,      \* the persistingTokenSources this process has made
    clients,     \* d.clients: account -> its source, 0 for none
    ops,         \* engine.Clients, a copy
    quota,       \* space.Sources, a copy
    flow,        \* requests of AddAccount
    look,        \* the account page's quota call: [account, source], or NoLook
    astray,      \* history: authorizations whose newest grant may be lost
    raced,       \* history: two flows published their clients at once
    overwritten, \* history: accounts whose stored token gave way to one of
                 \* an older authorization
    misled,      \* history: accounts flagged for another authorization than
                 \* the one their clock was set for
    faults, restarts

google == <<issued, replaced, dead>>
db == <<known, clock, expired>>
copies == <<ops, quota>>
history == <<astray, raced, overwritten, misled>>
bounds == <<faults, restarts>>
vars == <<google, vault, db, source, clients, copies, flow, look, history, bounds>>

Stages == {"idle", "granted", "stored", "listed", "recorded", "connected", "copied",
           "engine", "recopied", "ended"}
NoCopy == [a \in Accounts |-> 0]
NoFlow == [at |-> "idle", account |-> 0, grant |-> 0, copy |-> NoCopy]
EndedFlow == [NoFlow EXCEPT !.at = "ended"]
NoLook == [account |-> 0, source |-> 0]

Auth(g) == issued[g].auth
Fault == faults < MaxFaults /\ faults' = faults + 1

\* Google refuses the refresh token of a source: "invalid_grant".
Refused(s) == Auth(source[s].grant) \in dead \/ source[s].grant \in replaced

\* An account's token gives way to grant g in the vault.
OverwrittenBy(a, g) ==
    IF vault[a] # 0 /\ Auth(g) < Auth(vault[a]) THEN overwritten \cup {a} ELSE overwritten

\* TokenSource: a source starts with what LoadToken finds in the vault.
NewSource(a) == [account |-> a, grant |-> vault[a], saving |-> FALSE]

\* The daemon starts with at most one account, authorized before.
Init ==
    /\ \E old \in {{}} \cup {{a} : a \in Accounts} :
          /\ known = old
          /\ issued = IF old = {} THEN <<>> ELSE <<[account |-> CHOOSE a \in old : TRUE, auth |-> 1]>>
          /\ vault = [a \in Accounts |-> IF a \in old THEN 1 ELSE 0]
          /\ source = IF old = {} THEN <<>> ELSE <<NewSource(CHOOSE a \in old : TRUE)>>
    /\ clock = vault /\ clients = vault
    /\ replaced = {} /\ dead = {} /\ expired = {}
    /\ ops = clients /\ quota = clients
    /\ flow = [f \in Flows |-> NoFlow]
    /\ look = NoLook
    /\ astray = {} /\ raced = FALSE /\ overwritten = {} /\ misled = {}
    /\ faults = 0 /\ restarts = 0
-----------------------------------------------------------------------------
(* AddAccount, one request at a time or several at once.                     *)

At(f, stage) == flow[f].at = stage
Goto(f, stage) == flow' = [flow EXCEPT ![f].at = stage]
UnchangedButFlow == UNCHANGED <<google, vault, db, source, clients, copies, look>>

\* An account's flow is between the token it got and the end of AddAccount.
Underway(f, a) == flow[f].account = a /\ flow[f].at \notin {"idle", "ended"}

\* Authenticate: a request that is declined or times out, or whose exchange
\* fails, leaves no trace; otherwise the user chose an account, which now has
\* a new authorization.
Exchange(f, a) ==
    /\ At(f, "idle") /\ Len(issued) < MaxGrants
    /\ issued' = Append(issued, [account |-> a, auth |-> Len(issued) + 1])
    /\ flow' = [flow EXCEPT ![f] = [at |-> "granted", account |-> a,
                                     grant |-> Len(issued) + 1, copy |-> NoCopy]]
    /\ UNCHANGED <<replaced, dead, vault, db, source, clients, copies, look, history, bounds>>

StoreToken(f) ==
    /\ At(f, "granted") /\ Goto(f, "stored")
    /\ vault' = [vault EXCEPT ![flow[f].account] = flow[f].grant]
    /\ overwritten' = OverwrittenBy(flow[f].account, flow[f].grant)
    /\ UNCHANGED <<google, db, source, clients, copies, look, astray, raced, misled, bounds>>

RecordAccount(f) ==
    /\ At(f, "stored") /\ Goto(f, "listed")
    /\ known' = known \cup {flow[f].account}
    /\ UNCHANGED <<google, vault, clock, expired, source, clients, copies, look, history, bounds>>

\* Mutated form: the flag is not cleared.
RecordIssuanceOnly(f) ==
    /\ At(f, "listed") /\ Goto(f, "recorded")
    /\ clock' = [clock EXCEPT ![flow[f].account] = Auth(flow[f].grant)]
    /\ misled' = misled \ {flow[f].account}
    /\ UNCHANGED <<google, vault, known, expired, source, clients, copies, look, astray, raced,
                   overwritten, bounds>>

\* SetTokenSaved: the clock starts again and the flag is cleared.
RecordIssuance(f) ==
    /\ At(f, "listed") /\ Goto(f, "recorded")
    /\ clock' = [clock EXCEPT ![flow[f].account] = Auth(flow[f].grant)]
    /\ expired' = expired \ {flow[f].account} /\ misled' = misled \ {flow[f].account}
    /\ UNCHANGED <<google, vault, known, source, clients, copies, look, astray, raced,
                   overwritten, bounds>>

\* Mutated form: the client is published although it was not made.
ConnectRegardless(f) ==
    /\ At(f, "recorded") /\ Goto(f, "connected")
    /\ \/ source' = Append(source, NewSource(flow[f].account))
       \/ UNCHANGED source
    /\ clients' = [clients EXCEPT ![flow[f].account] = Len(source) + 1]
    /\ UNCHANGED <<google, vault, db, copies, look, history, bounds>>

\* connectAccount reads the vault again.
Connect(f) ==
    /\ At(f, "recorded") /\ Goto(f, "connected")
    /\ source' = Append(source, NewSource(flow[f].account))
    /\ clients' = [clients EXCEPT ![flow[f].account] = Len(source) + 1]
    /\ raced' = (raced \/ \E g \in Flows : flow[g].at \in {"connected", "copied", "engine", "recopied"})
    /\ astray' = IF \E s \in DOMAIN source : Auth(source[s].grant) = Auth(vault[flow[f].account])
                 THEN astray \cup {Auth(vault[flow[f].account])} ELSE astray
    /\ UNCHANGED <<google, vault, db, copies, look, overwritten, misled, bounds>>

\* driveOpsMap, then the assignment, then the same for the quota sources.
CopyClients(f) ==
    /\ \/ At(f, "connected") /\ flow' = [flow EXCEPT ![f].at = "copied", ![f].copy = clients]
       \/ At(f, "engine") /\ flow' = [flow EXCEPT ![f].at = "recopied", ![f].copy = clients]
    /\ UnchangedButFlow /\ UNCHANGED <<history, bounds>>

SetEngine(f) ==
    /\ At(f, "copied") /\ Goto(f, "engine") /\ ops' = flow[f].copy
    /\ UNCHANGED <<google, vault, db, source, clients, quota, look, history, bounds>>

\* Mutated form: the sources of the space manager are not replaced.
SetSpaceForgotten(f) ==
    /\ At(f, "recopied") /\ flow' = [flow EXCEPT ![f] = EndedFlow]
    /\ UNCHANGED <<google, vault, db, source, clients, copies, look, history, bounds>>

SetSpace(f) ==
    /\ At(f, "recopied") /\ flow' = [flow EXCEPT ![f] = EndedFlow] /\ quota' = flow[f].copy
    /\ UNCHANGED <<google, vault, db, source, clients, ops, look, history, bounds>>

\* Mutated form: a failed SaveToken is only logged.
FlowFailsLater(f) ==
    /\ Fault
    /\ \/ flow[f].at \in {"stored", "recorded"} /\ flow' = [flow EXCEPT ![f] = EndedFlow]
       \/ At(f, "granted") /\ Goto(f, "stored")
       \/ At(f, "listed") /\ Goto(f, "recorded")
    /\ UnchangedButFlow /\ UNCHANGED <<history, restarts>>

\* A step fails and AddAccount returns its error; a failed SetTokenSaved is
\* only logged.
FlowFails(f) ==
    /\ Fault
    /\ \/ flow[f].at \in {"granted", "stored", "recorded"} /\ flow' = [flow EXCEPT ![f] = EndedFlow]
       \/ At(f, "listed") /\ Goto(f, "recorded")
    /\ UnchangedButFlow /\ UNCHANGED <<history, restarts>>
-----------------------------------------------------------------------------
(* Token sources and their callers.                                          *)

\* Mutated form: a new refresh token alone is not worth a write.
RefreshUnsaved(s) ==
    /\ ~source[s].saving /\ ~Refused(s)
    /\ \/ /\ source' = [source EXCEPT ![s].saving = TRUE]
          /\ UNCHANGED <<issued, replaced>>
       \/ /\ Len(issued) < MaxGrants
          /\ issued' = Append(issued, issued[source[s].grant])
          /\ replaced' = replaced \cup {source[s].grant}
          /\ source' = [source EXCEPT ![s].grant = Len(issued) + 1]
    /\ UNCHANGED <<dead, vault, db, clients, copies, flow, look, history, bounds>>

\* Token: the access token has run out, so the refresh token is used; the
\* source keeps what it got before it has saved it.  A source that was
\* replaced may still be used: by the sweep, whose Deleters are the clients
\* of the start, and by a pass or a request that fetched its client earlier.
Refresh(s) ==
    /\ ~source[s].saving /\ ~Refused(s)
    /\ \/ /\ source' = [source EXCEPT ![s].saving = TRUE]
          /\ UNCHANGED <<issued, replaced>>
       \/ /\ Len(issued) < MaxGrants
          /\ issued' = Append(issued, issued[source[s].grant])
          /\ replaced' = replaced \cup {source[s].grant}
          /\ source' = [source EXCEPT ![s].saving = TRUE, ![s].grant = Len(issued) + 1]
    /\ UNCHANGED <<dead, vault, db, clients, copies, flow, look, history, bounds>>

Save(s) ==
    /\ source[s].saving
    /\ source' = [source EXCEPT ![s].saving = FALSE]
    /\ \/ /\ vault' = [vault EXCEPT ![source[s].account] = source[s].grant]
          /\ overwritten' = OverwrittenBy(source[s].account, source[s].grant)
          /\ UNCHANGED <<astray, faults>>
       \/ /\ Fault /\ astray' = astray \cup {Auth(source[s].grant)}
          /\ UNCHANGED <<vault, overwritten>>
    /\ UNCHANGED <<google, db, clients, copies, flow, look, raced, misled, restarts>>
-----------------------------------------------------------------------------
(* The account page, one request at a time: daemon.Quotas.                   *)

\* Quota fetches the account's source and calls Drive.
Look(a) ==
    /\ look = NoLook /\ a \in known /\ quota[a] # 0
    /\ look' = [account |-> a, source |-> quota[a]]
    /\ UNCHANGED <<google, vault, db, source, clients, copies, flow, history, bounds>>

\* The call has returned: a refusal flags the account; an access token that
\* has not run out needs no refresh and is not refused.
LookEnds ==
    /\ look # NoLook /\ look' = NoLook
    /\ \/ UNCHANGED <<expired, misled>>
       \/ /\ Refused(look.source) /\ expired' = expired \cup {look.account}
          /\ misled' = IF Auth(source[look.source].grant) = clock[look.account]
                       THEN misled ELSE misled \cup {look.account}
    /\ UNCHANGED <<google, vault, known, clock, source, clients, copies, flow, astray, raced,
                   overwritten, bounds>>
-----------------------------------------------------------------------------
(* Google and the process.                                                   *)

\* An authorization runs out (after seven days, for a client in testing mode)
\* or is revoked.
Lapse(auth) ==
    /\ Fault /\ dead' = dead \cup {auth}
    /\ UNCHANGED <<issued, replaced, vault, db, source, clients, copies, flow, look, history, restarts>>

\* The daemon stops anywhere and starts again: listed accounts are connected,
\* except those whose token cannot be read, and the copies are made from that.
Restart ==
    /\ restarts < MaxRestarts /\ restarts' = restarts + 1
    /\ \E connected \in SUBSET {a \in known : vault[a] # 0} :
       \E order \in [1..Cardinality(connected) -> connected] :
          /\ {order[i] : i \in DOMAIN order} = connected
          /\ source' = [i \in DOMAIN order |-> NewSource(order[i])]
          /\ clients' = [a \in Accounts |->
                 IF a \in connected THEN CHOOSE i \in DOMAIN order : order[i] = a ELSE 0]
    /\ ops' = clients' /\ quota' = clients'
    /\ flow' = [f \in Flows |-> IF At(f, "idle") THEN NoFlow ELSE EndedFlow]
    /\ astray' = astray \cup {Auth(source[s].grant) : s \in {t \in DOMAIN source : source[t].saving}}
    /\ raced' = FALSE /\ look' = NoLook
    /\ UNCHANGED <<google, vault, db, overwritten, misled, faults>>

FlowStep(f) ==
    \/ (\E a \in Accounts : Exchange(f, a)) \/ StoreToken(f) \/ RecordAccount(f)
    \/ RecordIssuance(f) \/ Connect(f) \/ CopyClients(f) \/ SetEngine(f) \/ SetSpace(f)
    \/ FlowFails(f)
Next ==
    \/ \E f \in Flows : FlowStep(f)
    \/ \E s \in DOMAIN source : Refresh(s) \/ Save(s)
    \/ (\E a \in Accounts : Look(a)) \/ LookEnds
    \/ \E g \in DOMAIN issued : Lapse(Auth(g))
    \/ Restart

Spec == Init /\ [][Next]_vars
-----------------------------------------------------------------------------
CredTypeOK ==
    /\ issued \in Seq([account: Accounts, auth: Nat])
    /\ replaced \subseteq DOMAIN issued /\ dead \subseteq Nat
    /\ vault \in [Accounts -> {0} \cup DOMAIN issued]
    /\ known \subseteq Accounts /\ clock \in [Accounts -> Nat] /\ expired \subseteq Accounts
    /\ look \in {NoLook} \cup [account: Accounts, source: DOMAIN source]
    /\ source \in Seq([account: Accounts, grant: DOMAIN issued, saving: BOOLEAN])
    /\ clients \in [Accounts -> {0} \cup DOMAIN source]
    /\ ops \in [Accounts -> {0} \cup DOMAIN source]
    /\ quota \in [Accounts -> {0} \cup DOMAIN source]
    /\ flow \in [Flows -> [at: Stages, account: Accounts \cup {0}, grant: {0} \cup DOMAIN issued,
                           copy: [Accounts -> {0} \cup DOMAIN source]]]

\* The token is stored before the account is listed: wherever AddAccount
\* stops, a listed account has a token of its own in the vault.
ListedHasToken == \A a \in known : vault[a] # 0 /\ issued[vault[a]].account = a

\* Once no flow is under way the engine and the space manager know every
\* client, unless two flows published theirs at once.
EngineKnowsClients ==
    (\A f \in Flows : flow[f].at \in {"idle", "granted", "stored", "listed", "recorded", "ended"})
        => raced \/ (ops = clients /\ quota = clients)

\* "So a rotated refresh token is never lost" (vault.go): the vault does not
\* keep a replaced grant unless the write of its successor is still to come,
\* or has failed, was cut off, or another source used the same grant.
RotatedTokenIsKept ==
    \A a \in Accounts : vault[a] \in replaced =>
        \/ Auth(vault[a]) \in astray
        \/ \E s \in DOMAIN source : source[s].saving /\ Auth(source[s].grant) = Auth(vault[a])

\* The countdown on the account page never promises more time than the stored
\* token has: the clock is not set for a later authorization than the token's,
\* unless an older token was saved over a newer one, by a source from before
\* or by the slower of two flows (SetTokenSaved after SaveToken).
ClockNotAhead ==
    \A a \in Accounts \ overwritten :
        clock[a] # 0 => vault[a] # 0 /\ clock[a] <= Auth(vault[a])

\* "Clear any EXPIRED flag" (main.go): an account that was connected again is
\* flagged only once its new authorization has lapsed too, or lost its token,
\* unless the refusal of an older one was recorded late.
FlagIsTrue == \A a \in expired \ misled : clock[a] \in dead \cup astray
=============================================================================
