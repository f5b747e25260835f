------------------------------- MODULE Space -------------------------------
(***************************************************************************)
(* Storage management: the SpaceManager of core/sync/space.go and the      *)
(* routing of new files that rests on it (assignRelID and                  *)
(* ProvisionOverflow), over the passes of one chain.                       *)
(*                                                                         *)
(* The pass and the UI's account page both read quotas; a Quota call looks *)
(* at the cache, asks Drive and stores the answer in separate steps, with  *)
(* SpaceManager.mu held only in the first and the last.  Sizes are bytes   *)
(* of a coarse unit; accounts are numbered in the order they were added,   *)
(* all have a client, and the chain starts with account 1.  Only SyncDrive *)
(* writes to the accounts, and a file changes size only between passes.    *)
(***************************************************************************)
EXTENDS Integers, Sequences, FiniteSets, FiniteSetsExt, Values

CONSTANTS
    NumAccounts,
    Limit,       \* account -> QuotaLimit; 0 is unknown or unlimited
    Percent,     \* the free-space threshold, in percent
    AtStart,     \* what may be in use when the daemon starts: account -> bytes
    Files,       \* new files are routed in the order of their names: numbers
    Sizes,       \* sizes a file may have
    MaxEdits,    \* bound: edits and purges
    MaxFaults,   \* bound: failed calls
    MaxLooks,    \* bound: quotas the account page asks for
    Allowed      \* which behaviours the instance includes

Accounts == 1..NumAccounts

\* growth: an owned file grows, and coldgrowth: on an account whose quota has
\* not been read; ui: the account page is open; purge; and failing calls.
Behaviours == {"growth", "coldgrowth", "ui", "purge", "uploadfail", "quotafail", "provisionfail"}

ASSUME SpaceAssumption ==
    /\ NumAccounts \in Nat \ {0} /\ Percent \in 0..100
    /\ Limit \in [Accounts -> Nat] /\ AtStart \subseteq [Accounts -> Nat]
    /\ Files \subseteq Nat /\ Sizes \subseteq Nat \ {0}
    /\ MaxEdits \in Nat /\ MaxFaults \in Nat /\ MaxLooks \in Nat /\ Allowed \subseteq Behaviours
    /\ Nil \notin Int

VARIABLES
    used,       \* Drive: account -> bytes in use
    cache,      \* account -> usage last stored, or Nil
    fresh,      \* accounts whose cache entry is younger than the TTL
    pending,    \* account -> bytes assigned, less the growth seen since
    lastUsage,  \* account -> usage at the last read
    chain,      \* accounts of the chain, in the order they are tried
    size,       \* file -> its size on disk
    home,       \* file -> the account that holds it or is to, or Nil
    stored,     \* file -> bytes of it on Drive
    pc,         \* where the pass is
    todo,       \* new files still to route
    file,       \* the file being routed, or Nil
    at,         \* position of the chain to try next
    cand,       \* account NextAccount looks at next
    exhausted,  \* provisionExhausted
    queue,      \* files with an upload task
    ask,        \* thread -> the Quota call in progress, or Nil
    owed,       \* history: account -> bytes assigned whose upload has not ended
    astray,     \* history: accounts whose estimate lost track (see EstimateCovers)
    edits, faults, looks

quotaVars == <<cache, fresh, pending, lastUsage>>
routeVars == <<todo, file, at, cand, exhausted>>
fileVars == <<size, home, stored>>
history == <<owed, astray>>
counters == <<edits, faults, looks>>
vars == <<used, quotaVars, chain, fileVars, pc, routeVars, queue, ask, history, counters>>

Threads == {"pass", "ui"}
May(b) == b \in Allowed
Fault(b) == May(b) /\ faults < MaxFaults /\ faults' = faults + 1

Reserve(a) == (Limit[a] * Percent) \div 100
InChain == {chain[i] : i \in DOMAIN chain}

\* What is stored at the start is part of what is in use.
StoredFits == MapThenSumSet(LAMBDA f : stored[f], Files) <= used[1]

\* The daemon has just started: nothing is known of the quotas yet.
Init ==
    /\ used \in AtStart
    /\ cache = [a \in Accounts |-> Nil] /\ fresh = {}
    /\ pending = [a \in Accounts |-> 0] /\ lastUsage = [a \in Accounts |-> 0]
    /\ chain = <<1>>
    /\ size \in [Files -> Sizes]
    /\ home \in [Files -> {Nil, 1}]
    /\ stored = [f \in Files |-> IF home[f] = Nil THEN 0 ELSE size[f]]
    /\ StoredFits
    /\ pc = "idle" /\ todo = {} /\ file = Nil /\ at = 1 /\ cand = 1 /\ exhausted = FALSE
    /\ queue = {} /\ ask = [t \in Threads |-> Nil]
    /\ owed = [a \in Accounts |-> 0] /\ astray = {}
    /\ edits = 0 /\ faults = 0 /\ looks = 0
-----------------------------------------------------------------------------
(* Quota: by the pass (for TryReserve or HasSpace) or by the account page.  *)

\* A cache entry younger than the TTL answers at once; otherwise Drive is
\* asked.  That an entry has become too old shows when it is looked at.
Quota(t, a, why) ==
    /\ ask[t] = Nil
    /\ \/ a \in fresh /\ UNCHANGED fresh
          /\ ask' = [ask EXCEPT ![t] = [account |-> a, why |-> why, usage |-> cache[a], step |-> "known"]]
       \/ fresh' = fresh \ {a}
          /\ ask' = [ask EXCEPT ![t] = [account |-> a, why |-> why, usage |-> 0, step |-> "sent"]]
    /\ UNCHANGED <<used, cache, pending, lastUsage, chain, fileVars, pc, routeVars, queue,
                   history, edits, faults>>

At(t, step) == ask[t] # Nil /\ ask[t].step = step

\* The About call returns ...
Reply(t) ==
    /\ At(t, "sent")
    /\ ask' = [ask EXCEPT ![t] = [@ EXCEPT !.usage = used[ask[t].account], !.step = "read"]]
    /\ UNCHANGED <<used, quotaVars, chain, fileVars, pc, routeVars, queue, history, counters>>

\* ... or fails.
QuotaFail(t) ==
    /\ At(t, "sent") /\ Fault("quotafail")
    /\ ask' = [ask EXCEPT ![t] = [@ EXCEPT !.step = "failed"]]
    /\ UNCHANGED <<used, quotaVars, chain, fileVars, pc, routeVars, queue, history, edits, looks>>

\* Mutated form: the growth since the last read is subtracted twice.
DecayTwice(a, usage) ==
    LET left == pending[a] - 2 * (usage - lastUsage[a]) IN
    IF usage <= lastUsage[a] THEN pending[a] ELSE IF left < 0 THEN 0 ELSE left

\* Mutated form: the estimate may fall below zero.
DecayUnclamped(a, usage) ==
    IF usage <= lastUsage[a] THEN pending[a] ELSE pending[a] - (usage - lastUsage[a])

\* The estimate after a read: uploads that completed are in the usage now.
Decay(a, usage) ==
    LET left == pending[a] - (usage - lastUsage[a]) IN
    IF usage <= lastUsage[a] THEN pending[a] ELSE IF left < 0 THEN 0 ELSE left

\* An answer is overtaken when the account has changed since, or when the
\* pass is about to decide about the account by another answer.
Overtaken(t) ==
    LET a == ask[t].account IN
    \/ ask[t].usage # used[a]
    \/ t = "ui" /\ At("pass", "known") /\ ask["pass"].account = a
                /\ ask["pass"].usage # ask[t].usage

\* The answer is stored.
Remember(t) ==
    LET a == ask[t].account
        usage == ask[t].usage
    IN  /\ At(t, "read")
        /\ cache' = [cache EXCEPT ![a] = usage] /\ fresh' = fresh \cup {a}
        /\ pending' = [pending EXCEPT ![a] = Decay(a, usage)]
        /\ lastUsage' = [lastUsage EXCEPT ![a] = usage]
        /\ ask' = [ask EXCEPT ![t] = [@ EXCEPT !.step = "known"]]
        /\ astray' = astray \cup IF Overtaken(t) THEN {a} ELSE {}
        /\ UNCHANGED <<used, chain, fileVars, pc, routeVars, queue, owed, counters>>

\* The account page asks for one account after the other.
Refresh ==
    /\ May("ui") /\ looks < MaxLooks /\ looks' = looks + 1
    /\ \E a \in Accounts : Quota("ui", a, "view")

Shown ==
    /\ At("ui", "known") \/ At("ui", "failed")
    /\ ask' = [ask EXCEPT !["ui"] = Nil]
    /\ UNCHANGED <<used, quotaVars, chain, fileVars, pc, routeVars, queue, history, counters>>

-----------------------------------------------------------------------------
(* The pass: owned files first, in any order, then the new ones in order.   *)

BeginPass ==
    /\ pc = "idle" /\ pc' = "route"
    /\ todo' = {f \in Files : stored[f] = 0} /\ exhausted' = FALSE
    /\ UNCHANGED <<used, quotaVars, chain, fileVars, file, at, cand, queue, ask, history, counters>>

Grown == {f \in Files : stored[f] # 0 /\ size[f] > stored[f] /\ f \notin queue}

\* Consume: an owned file's growth is assigned to its account, room or not.
Consume(f) ==
    LET a == home[f]
        growth == size[f] - stored[f]
    IN  /\ pc = "route" /\ f \in Grown
        /\ pending' = [pending EXCEPT ![a] = @ + growth]
        /\ owed' = [owed EXCEPT ![a] = @ + growth]
        /\ astray' = astray \cup IF cache[a] = Nil THEN {a} ELSE {}
        /\ queue' = queue \cup {f}
        /\ UNCHANGED <<used, cache, fresh, lastUsage, chain, fileVars, pc, routeVars, ask, counters>>

\* assignRelID starts on the next new file.
Pick(f) ==
    /\ pc = "route" /\ Grown = {} /\ file = Nil
    /\ f \in todo /\ \A g \in todo : f <= g
    /\ file' = f /\ todo' = todo \ {f}
    /\ UNCHANGED <<used, quotaVars, chain, fileVars, pc, at, cand, exhausted, queue, ask,
                   history, counters>>

TryChain ==
    /\ file # Nil /\ at <= Len(chain) /\ UNCHANGED looks
    /\ Quota("pass", chain[at], "reserve")

\* assignRelID returns; its loops start over for the next file.
FileDone == file' = Nil /\ at' = 1 /\ cand' = 1

\* What the pass asked for is known, or could not be read.
Known(why) == At("pass", "known") /\ ask["pass"].why = why
Failed(why) == At("pass", "failed") /\ ask["pass"].why = why
Answered == ask' = [ask EXCEPT !["pass"] = Nil]

\* The bytes the asked account may still take, by the estimate.
Avail ==
    LET a == ask["pass"].account IN
    Limit[a] - ask["pass"].usage - pending[a] - Reserve(a)
Unlimited == Limit[ask["pass"].account] = 0

\* The file goes to the asked account, with so many bytes of it recorded.
Assign(recorded) ==
    LET a == ask["pass"].account IN
    /\ pending' = [pending EXCEPT ![a] = @ + recorded]
    /\ owed' = [owed EXCEPT ![a] = @ + size[file]]
    /\ astray' = astray \cup IF recorded = 0 THEN {a} ELSE {}
    /\ home' = [home EXCEPT ![file] = a] /\ queue' = queue \cup {file}
    /\ FileDone /\ Answered
    /\ UNCHANGED <<used, cache, fresh, lastUsage, chain, size, stored, pc, todo, exhausted, counters>>

\* Mutated form: the pending bytes are left out of the account.
ReserveByUsage ==
    /\ Known("reserve") /\ ~Unlimited
    /\ size[file] <= Avail + pending[ask["pass"].account] /\ Assign(size[file])

\* TryReserve: the file fits above the reserve, and is recorded ...
ReserveFits == Known("reserve") /\ ~Unlimited /\ size[file] <= Avail /\ Assign(size[file])

\* ... or the account has no known limit, or its quota cannot be read: it
\* counts as usable and nothing is recorded.
ReserveOpen == ((Known("reserve") /\ Unlimited) \/ Failed("reserve")) /\ Assign(0)

\* ... or it does not fit, and the next account of the chain is tried.
ReserveFull ==
    /\ Known("reserve") /\ ~Unlimited /\ size[file] > Avail
    /\ at' = at + 1 /\ Answered
    /\ UNCHANGED <<used, quotaVars, chain, fileVars, pc, todo, file, cand, exhausted, queue,
                   history, counters>>

\* NextAccount looks at the accounts outside the chain, in order.
Candidates == {a \in Accounts : a >= cand /\ a \notin InChain}
Hunting == file # Nil /\ at > Len(chain) /\ ask["pass"] = Nil

TryNext ==
    /\ Hunting /\ ~exhausted /\ UNCHANGED looks
    /\ \E a \in Candidates : (\A b \in Candidates : a <= b) /\ Quota("pass", a, "space")

\* HasSpace: the free fraction is not below the threshold, or is not known.
HasSpace ==
    LET a == ask["pass"].account IN
    \/ Known("space") /\ (Unlimited \/ (Limit[a] - ask["pass"].usage) * 100 >= Percent * Limit[a])
    \/ Failed("space")

\* Mutated form: the new relation is not added to the chain.
ProvisionUnnoticed ==
    /\ HasSpace /\ cand' = 1 /\ Answered
    /\ UNCHANGED <<used, quotaVars, chain, fileVars, pc, todo, file, at, exhausted, queue,
                   history, counters>>

\* ProvisionOverflow: the account joins the chain and is tried next.
Provision ==
    /\ HasSpace /\ chain' = Append(chain, ask["pass"].account)
    /\ cand' = 1 /\ Answered
    /\ UNCHANGED <<used, quotaVars, fileVars, pc, todo, file, at, exhausted, queue, history, counters>>

NoSpace ==
    /\ Known("space") /\ ~HasSpace
    /\ cand' = ask["pass"].account + 1 /\ Answered
    /\ UNCHANGED <<used, quotaVars, chain, fileVars, pc, todo, file, at, exhausted, queue,
                   history, counters>>

\* Creating the container or recording the relation fails.
ProvisionFail ==
    /\ HasSpace /\ Fault("provisionfail")
    /\ exhausted' = TRUE /\ Answered
    /\ UNCHANGED <<used, quotaVars, chain, fileVars, pc, todo, file, at, cand, queue, history, edits, looks>>

\* No account takes the file: it is left for a later pass.
Defer ==
    /\ Hunting /\ (exhausted \/ Candidates = {})
    /\ exhausted' = TRUE /\ FileDone
    /\ UNCHANGED <<used, quotaVars, chain, fileVars, pc, todo, queue, ask, history, counters>>
-----------------------------------------------------------------------------
(* The pool's uploads, and what happens between passes.                     *)

StartUploads ==
    /\ pc = "route" /\ Grown = {} /\ todo = {} /\ file = Nil /\ pc' = "upload"
    /\ UNCHANGED <<used, quotaVars, chain, fileVars, routeVars, queue, ask, history, counters>>

Ended(f) ==
    /\ pc = "upload" /\ f \in queue /\ queue' = queue \ {f}
    /\ owed' = [owed EXCEPT ![home[f]] = @ - (size[f] - stored[f])]
    /\ UNCHANGED <<quotaVars, chain, size, pc, routeVars, ask, astray, edits, looks>>

Upload(f) ==
    /\ Ended(f)
    /\ used' = [used EXCEPT ![home[f]] = @ + size[f] - stored[f]]
    /\ stored' = [stored EXCEPT ![f] = size[f]]
    /\ UNCHANGED <<home, faults>>

\* A new file whose upload fails stays untracked: it is routed again.
UploadFail(f) ==
    /\ Ended(f) /\ Fault("uploadfail")
    /\ home' = [home EXCEPT ![f] = IF stored[f] = 0 THEN Nil ELSE @]
    /\ UNCHANGED <<used, stored>>

EndPass ==
    /\ pc = "upload" /\ queue = {} /\ pc' = "idle"
    /\ UNCHANGED <<used, quotaVars, chain, fileVars, routeVars, queue, ask, history, counters>>

Edited ==
    /\ pc = "idle" /\ edits < MaxEdits /\ edits' = edits + 1
    /\ UNCHANGED <<quotaVars, chain, pc, routeVars, queue, ask, history, faults, looks>>

Edit(f) ==
    /\ May("growth") /\ Edited
    /\ stored[f] # 0 /\ (cache[home[f]] # Nil \/ May("coldgrowth"))
    /\ \E s \in Sizes : s > size[f] /\ size' = [size EXCEPT ![f] = s]
    /\ UNCHANGED <<used, home, stored>>

\* A file is deleted, purged from the tank, and created again.
Purge(f) ==
    /\ May("purge") /\ Edited
    /\ stored[f] # 0
    /\ used' = [used EXCEPT ![home[f]] = @ - stored[f]]
    /\ home' = [home EXCEPT ![f] = Nil] /\ stored' = [stored EXCEPT ![f] = 0]
    /\ UNCHANGED size
-----------------------------------------------------------------------------
Ask == (\E t \in Threads : Reply(t) \/ QuotaFail(t) \/ Remember(t)) \/ Refresh \/ Shown
Route == \/ \E f \in Files : Consume(f) \/ Pick(f)
         \/ TryChain \/ ReserveFits \/ ReserveOpen \/ ReserveFull
         \/ TryNext \/ Provision \/ NoSpace \/ ProvisionFail \/ Defer
Exec == StartUploads \/ EndPass \/ \E f \in Files : Upload(f) \/ UploadFail(f)
User == \E f \in Files : Edit(f) \/ Purge(f)

Next == BeginPass \/ Route \/ Exec \/ Ask \/ User

Spec == Init /\ [][Next]_vars

\* The pass is one goroutine that runs on, and Drive answers its calls.
FairSpec == Spec /\ WF_vars(Route \/ Exec \/ Reply("pass") \/ Remember("pass"))
-----------------------------------------------------------------------------
Asking == [account: Accounts, why: {"reserve", "space", "view"}, usage: Int,
           step: {"sent", "read", "known", "failed"}]

QuotaType ==
    /\ used \in [Accounts -> Int] /\ cache \in [Accounts -> Int \cup {Nil}] /\ fresh \subseteq Accounts
    /\ pending \in [Accounts -> Nat] /\ lastUsage \in [Accounts -> Int]
RouteType ==
    /\ chain \in Seq(Accounts)
    /\ pc \in {"idle", "route", "upload"} /\ todo \subseteq Files /\ file \in Files \cup {Nil}
    /\ at \in Nat \ {0} /\ cand \in Nat /\ exhausted \in BOOLEAN
FilesType ==
    /\ size \in [Files -> Nat] /\ home \in [Files -> Accounts \cup {Nil}]
    /\ stored \in [Files -> Nat] /\ queue \subseteq Files
AskType == ask \in [Threads -> Asking \cup {Nil}]
CountType ==
    /\ owed \in [Accounts -> Int] /\ astray \subseteq Accounts
    /\ edits \in Nat /\ faults \in Nat /\ looks \in Nat

\* Types of the variables; the estimate is never negative.
SpaceTypeOK == QuotaType /\ RouteType /\ FilesType /\ AskType /\ CountType

\* The estimate never falls short of the bytes assigned and not yet uploaded,
\* nor of those and the ones uploaded since the last read together: the pending
\* counter of space.go:86-99 does not forget an upload.  Accounts that have
\* gone astray are excepted: a file was sent there unrecorded, bytes were
\* recorded before the first read, or the account page stored an answer that
\* was overtaken.
EstimateCovers ==
    \A a \in Accounts \ astray :
        IF cache[a] = Nil THEN pending[a] = 0 /\ owed[a] = 0
        ELSE /\ cache[a] = lastUsage[a]
             /\ pending[a] >= owed[a]
             /\ pending[a] >= owed[a] + used[a] - lastUsage[a]

\* What makes EstimateCovers inductive.  A quota is read for the file being
\* routed; while the pass routes nothing is uploaded, so its answer is exact
\* until it is used, and is the one in the cache.
AskInv ==
    /\ (file # Nil => pc = "route") /\ (ask["pass"] # Nil => file # Nil)
    /\ At("pass", "read") => ask["pass"].usage = used[ask["pass"].account]
    /\ At("pass", "known") /\ ask["pass"].account \notin astray
        => cache[ask["pass"].account] = ask["pass"].usage
CacheInv == \A a \in fresh : cache[a] # Nil

\* A file on its way has an account, which is known or has gone astray.
FilesInv ==
    /\ pc = "idle" => queue = {}
    /\ \A f \in Files : size[f] >= stored[f] /\ (stored[f] # 0 => home[f] # Nil)
    /\ \A f \in queue : home[f] # Nil /\ (home[f] \in astray \/ cache[home[f]] # Nil)

SpaceInv == SpaceTypeOK /\ AskInv /\ CacheInv /\ FilesInv /\ EstimateCovers

\* Room for a new file f on account a above the reserve, when everything
\* assigned to a is uploaded.
RoomFor(f, a) == used[a] + owed[a] + size[f] + Reserve(a) <= Limit[a]

\* A new file is sent to an account only if the reserve stays free there
\* (TryReserve), unless the account has gone astray or has no known limit.
ReserveIsKept ==
    [][\A f \in Files : home[f] = Nil /\ home'[f] # Nil =>
        (home'[f] \in astray' \/ RoomFor(f, home'[f]))]_vars

\* A pass ends: the loop of assignRelID does not provision accounts for ever.
PassesEnd == (pc = "route") ~> (pc = "idle")
=============================================================================
