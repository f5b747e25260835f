---------------------------- MODULE Space_proofs ----------------------------
(***************************************************************************)
(* Proof that the space manager's estimate covers what is on its way, and  *)
(* that TryReserve keeps the reserve free wherever it does.                *)
(***************************************************************************)
EXTENDS Space, TLAPS

\* The reserve is an integer.
LEMMA ReserveInt == ASSUME NEW a \in Accounts PROVE Reserve(a) \in Int
<1>1. Limit[a] * Percent \in Int
  BY SpaceAssumption
<1> QED
  BY <1>1 DEF Reserve

\* The daemon starts with an estimate of 0 and nothing on its way.
LEMMA SpaceInit == ASSUME Init PROVE SpaceInv
<1>1. 1 \in Accounts /\ Sizes \subseteq Nat
  BY SpaceAssumption DEF Accounts
<1>2. SpaceTypeOK
  <2>1. stored \in [Files -> Nat]
    BY <1>1 DEF Init
  <2>2. size \in [Files -> Nat] /\ home \in [Files -> Accounts \cup {Nil}]
    BY <1>1 DEF Init
  <2>3. used \in [Accounts -> Int]
    BY SpaceAssumption DEF Init
  <2>4. chain \in Seq(Accounts)
    BY <1>1 DEF Init
  <2>5. /\ cache \in [Accounts -> Int \cup {Nil}] /\ fresh \subseteq Accounts
        /\ pending \in [Accounts -> Nat] /\ lastUsage \in [Accounts -> Int]
        /\ owed \in [Accounts -> Int] /\ astray \subseteq Accounts
    BY DEF Init
  <2>6. ask \in [Threads -> Asking \cup {Nil}]
    BY DEF Init
  <2>7. /\ pc \in {"idle", "route", "upload"} /\ todo \subseteq Files
        /\ file \in Files \cup {Nil} /\ at \in Nat \ {0} /\ cand \in Nat
        /\ queue \subseteq Files
        /\ edits \in Nat /\ faults \in Nat /\ looks \in Nat
    BY DEF Init
  <2>8. exhausted \in BOOLEAN
    BY DEF Init
  <2> QED
    BY <2>1, <2>2, <2>3, <2>4, <2>5, <2>6, <2>7, <2>8 DEF SpaceTypeOK, QuotaType, RouteType,
        FilesType, AskType, CountType
<1>3. AskInv /\ CacheInv
  BY DEF Init, AskInv, CacheInv, At, Threads
<1>4. FilesInv
  <2>1. \A f \in Files : size[f] \in Nat
    BY <1>1 DEF Init
  <2>2. \A f \in Files : stored[f] = IF home[f] = Nil THEN 0 ELSE size[f]
    BY DEF Init
  <2>3. pc = "idle" /\ queue = {}
    BY DEF Init
  <2> QED
    BY <2>1, <2>2, <2>3 DEF FilesInv
<1>5. EstimateCovers
  BY DEF Init, EstimateCovers
<1> QED
  BY <1>2, <1>3, <1>4, <1>5 DEF SpaceInv

\* What becomes of a question when it is answered.
LEMMA Answer ==
  ASSUME NEW q \in Asking, NEW u \in Int, NEW s \in {"sent", "read", "known", "failed"},
         NEW r, r = [q EXCEPT !.usage = u, !.step = s]
  PROVE  /\ r \in Asking
         /\ r.account = q.account /\ r.why = q.why /\ r.usage = u /\ r.step = s
BY DEF Asking

\* A question that is open is about an account.
LEMMA Open ==
  ASSUME AskType, NEW t \in Threads, ask[t] # Nil
  PROVE  /\ ask[t] \in Asking /\ ask[t].account \in Accounts /\ ask[t].usage \in Int
         /\ ask[t].step \in {"sent", "read", "known", "failed"}
BY DEF AskType, Asking

\* Decay never takes more than the growth, nor below zero.
LEMMA DecayBounds ==
  ASSUME NEW a, NEW u \in Int, pending[a] \in Nat, lastUsage[a] \in Int
  PROVE  /\ Decay(a, u) \in Nat /\ (pending[a] = 0 => Decay(a, u) = 0)
         /\ u <= lastUsage[a] => Decay(a, u) = pending[a]
         /\ Decay(a, u) >= pending[a] - (u - lastUsage[a]) \/ u <= lastUsage[a]
BY DEF Decay

\* An answer from the cache is the cached one; a question is asked.
LEMMA QuotaInv ==
  ASSUME SpaceInv, NEW a \in Accounts, NEW t \in Threads, NEW why \in {"reserve", "space", "view"},
         t = "pass" => file # Nil,
         looks' \in Nat, Quota(t, a, why)
  PROVE  SpaceInv'
<1> USE SpaceAssumption DEF Quota, At, Threads, Asking, quotaVars, routeVars, fileVars,
        history, counters
<1>1. QuotaType'
  BY DEF SpaceInv, SpaceTypeOK, QuotaType
<1>2. RouteType'
  BY DEF SpaceInv, SpaceTypeOK, RouteType
<1>3. FilesType'
  BY DEF SpaceInv, SpaceTypeOK, FilesType
<1>4. AskType'
  <2>1. ASSUME a \in fresh PROVE cache[a] \in Int
    BY <2>1 DEF SpaceInv, SpaceTypeOK, QuotaType, CacheInv
  <2>2. \A u \in Int, s \in {"known", "sent"} :
          [account |-> a, why |-> why, usage |-> u, step |-> s] \in Asking
    OBVIOUS
  <2>3. CASE a \in fresh /\ ask' = [ask EXCEPT ![t] =
                  [account |-> a, why |-> why, usage |-> cache[a], step |-> "known"]]
    BY <2>1, <2>2, <2>3 DEF SpaceInv, SpaceTypeOK, AskType
  <2>4. CASE ask' = [ask EXCEPT ![t] = [account |-> a, why |-> why, usage |-> 0, step |-> "sent"]]
    BY <2>2, <2>4 DEF SpaceInv, SpaceTypeOK, AskType
  <2> QED
    BY <2>3, <2>4
<1>5. CountType'
  BY DEF SpaceInv, SpaceTypeOK, CountType
<1>6. AskInv'
  BY DEF SpaceInv, SpaceTypeOK, AskType, AskInv
<1>7. CacheInv'
  BY DEF SpaceInv, CacheInv
<1>8. FilesInv'
  BY DEF SpaceInv, FilesInv
<1>9. EstimateCovers'
  BY DEF SpaceInv, EstimateCovers
<1> QED
  BY <1>1, <1>2, <1>3, <1>4, <1>5, <1>6, <1>7, <1>8, <1>9 DEF SpaceInv, SpaceTypeOK

\* Drive's answer is exact while the pass routes.
LEMMA ReplyInv ==
  ASSUME SpaceInv, NEW t \in Threads, Reply(t)
  PROVE  SpaceInv'
<1> USE SpaceAssumption DEF Reply, At, Threads, Asking, quotaVars, routeVars, fileVars,
        history, counters
<1> DEFINE r == [ask[t] EXCEPT !.usage = used[ask[t].account], !.step = "read"]
<1>a. /\ ask[t] \in Asking /\ ask[t].account \in Accounts /\ ask[t].usage \in Int
  BY Open DEF SpaceInv, SpaceTypeOK
<1>b. used[ask[t].account] \in Int
  BY <1>a DEF SpaceInv, SpaceTypeOK, QuotaType
<1>c. /\ r \in Asking /\ r.account = ask[t].account /\ r.usage = used[ask[t].account] /\ r.step = "read"
  BY <1>a, <1>b, Answer
<1>d. ask' = [ask EXCEPT ![t] = r] /\ ask'[t] = r
  BY <1>a DEF SpaceInv, SpaceTypeOK, AskType, Asking
<1> HIDE DEF r
<1>1. QuotaType'
  BY DEF SpaceInv, SpaceTypeOK, QuotaType
<1>2. RouteType'
  BY DEF SpaceInv, SpaceTypeOK, RouteType
<1>3. FilesType'
  BY DEF SpaceInv, SpaceTypeOK, FilesType
<1>4. AskType'
  BY <1>c, <1>d DEF SpaceInv, SpaceTypeOK, AskType
<1>5. CountType'
  BY DEF SpaceInv, SpaceTypeOK, CountType
<1>6. AskInv'
  <2>1. CASE t = "pass"
    BY <2>1, <1>a, <1>c, <1>d DEF SpaceInv, SpaceTypeOK, AskType, AskInv
  <2>2. CASE t = "ui"
    BY <2>2, <1>d DEF SpaceInv, SpaceTypeOK, AskType, AskInv
  <2> QED
    BY <2>1, <2>2
<1>7. CacheInv'
  BY DEF SpaceInv, CacheInv
<1>8. FilesInv'
  BY DEF SpaceInv, FilesInv
<1>9. EstimateCovers'
  BY DEF SpaceInv, EstimateCovers
<1> QED
  BY <1>1, <1>2, <1>3, <1>4, <1>5, <1>6, <1>7, <1>8, <1>9 DEF SpaceInv, SpaceTypeOK

\* A failed question leaves everything but the question alone.
LEMMA QuotaFailInv ==
  ASSUME SpaceInv, NEW t \in Threads, QuotaFail(t)
  PROVE  SpaceInv'
<1> USE SpaceAssumption DEF QuotaFail, Fault, At, Threads, Asking, quotaVars, routeVars,
        fileVars, history, counters
<1> DEFINE r == [ask[t] EXCEPT !.usage = ask[t].usage, !.step = "failed"]
<1>a. /\ ask[t] \in Asking /\ ask[t].account \in Accounts /\ ask[t].usage \in Int
  BY Open DEF SpaceInv, SpaceTypeOK
<1>b. ask[t].usage \in Int
  BY <1>a DEF SpaceInv, SpaceTypeOK, QuotaType
<1>c. /\ r \in Asking /\ r.account = ask[t].account /\ r.usage = ask[t].usage /\ r.step = "failed"
  BY <1>a, <1>b, Answer
<1>d. ask' = [ask EXCEPT ![t] = r] /\ ask'[t] = r
  BY <1>a DEF SpaceInv, SpaceTypeOK, AskType, Asking
<1> HIDE DEF r
<1>1. QuotaType'
  BY DEF SpaceInv, SpaceTypeOK, QuotaType
<1>2. RouteType'
  BY DEF SpaceInv, SpaceTypeOK, RouteType
<1>3. FilesType'
  BY DEF SpaceInv, SpaceTypeOK, FilesType
<1>4. AskType'
  BY <1>c, <1>d DEF SpaceInv, SpaceTypeOK, AskType
<1>5. CountType'
  BY DEF SpaceInv, SpaceTypeOK, CountType
<1>6. AskInv'
  <2>1. CASE t = "pass"
    BY <2>1, <1>a, <1>c, <1>d DEF SpaceInv, SpaceTypeOK, AskType, AskInv
  <2>2. CASE t = "ui"
    BY <2>2, <1>d DEF SpaceInv, SpaceTypeOK, AskType, AskInv
  <2> QED
    BY <2>1, <2>2
<1>7. CacheInv'
  BY DEF SpaceInv, CacheInv
<1>8. FilesInv'
  BY DEF SpaceInv, FilesInv
<1>9. EstimateCovers'
  BY DEF SpaceInv, EstimateCovers
<1> QED
  BY <1>1, <1>2, <1>3, <1>4, <1>5, <1>6, <1>7, <1>8, <1>9 DEF SpaceInv, SpaceTypeOK

\* Storing an answer takes from the estimate no more than was uploaded.
LEMMA RememberInv ==
  ASSUME SpaceInv, NEW t \in Threads, Remember(t)
  PROVE  SpaceInv'
<1> USE SpaceAssumption DEF Remember, At, Threads, Asking, quotaVars, routeVars, fileVars,
        history, counters
<1> DEFINE r == [ask[t] EXCEPT !.usage = ask[t].usage, !.step = "known"]
<1>a. /\ ask[t] \in Asking /\ ask[t].account \in Accounts /\ ask[t].usage \in Int
  BY Open DEF SpaceInv, SpaceTypeOK
<1>b. ask[t].usage \in Int
  BY <1>a DEF SpaceInv, SpaceTypeOK, QuotaType
<1>c. /\ r \in Asking /\ r.account = ask[t].account /\ r.usage = ask[t].usage /\ r.step = "known"
  BY <1>a, <1>b, Answer
<1>d. ask' = [ask EXCEPT ![t] = r] /\ ask'[t] = r
  BY <1>a DEF SpaceInv, SpaceTypeOK, AskType, Asking
<1> HIDE DEF r
<1>p. PICK a, u : a = ask[t].account /\ u = ask[t].usage
  OBVIOUS
<1>e. /\ a \in Accounts /\ u \in Int /\ u # Nil
  BY <1>p, <1>a
<1>f. /\ cache' = [cache EXCEPT ![a] = u] /\ fresh' = fresh \cup {a}
      /\ pending' = [pending EXCEPT ![a] = Decay(a, u)] /\ lastUsage' = [lastUsage EXCEPT ![a] = u]
      /\ astray' = astray \cup IF Overtaken(t) THEN {a} ELSE {}
      /\ UNCHANGED <<used, owed, file, pc, queue, size, home, stored>>
  BY <1>p
<1>g. /\ pending[a] \in Nat /\ lastUsage[a] \in Int /\ used[a] \in Int /\ owed[a] \in Int
  BY <1>p, <1>e DEF SpaceInv, SpaceTypeOK, QuotaType, CountType
<1>h. /\ Decay(a, u) \in Nat /\ (pending[a] = 0 => Decay(a, u) = 0)
      /\ u <= lastUsage[a] => Decay(a, u) = pending[a]
      /\ Decay(a, u) >= pending[a] - (u - lastUsage[a]) \/ u <= lastUsage[a]
  BY <1>p, <1>e, <1>g, DecayBounds
<1>i. ASSUME a \notin astray'
      PROVE  /\ u = used[a] /\ a \notin astray
             /\ (t = "ui" /\ At("pass", "known") /\ ask["pass"].account = a)
                  => ask["pass"].usage = u
  BY <1>p, <1>f, <1>i DEF Overtaken
<1>j. astray \subseteq astray'
  BY <1>p, <1>f
<1>k. cache'[a] = u
  BY <1>p, <1>e, <1>f DEF SpaceInv, SpaceTypeOK, QuotaType
<1>1. QuotaType'
  BY <1>e, <1>f, <1>h DEF SpaceInv, SpaceTypeOK, QuotaType
<1>2. RouteType'
  BY DEF SpaceInv, SpaceTypeOK, RouteType
<1>3. FilesType'
  BY DEF SpaceInv, SpaceTypeOK, FilesType
<1>4. AskType'
  BY <1>c, <1>d DEF SpaceInv, SpaceTypeOK, AskType
<1>5. CountType'
  BY <1>e, <1>f DEF SpaceInv, SpaceTypeOK, CountType
<1>6. AskInv'
  <2>1. (file' # Nil => pc' = "route") /\ (ask["pass"] # Nil => file' # Nil)
    BY <1>f DEF SpaceInv, AskInv
  <2>2. CASE t = "pass"
    <3>1. ask'["pass"].step = "known" /\ ask'["pass"].account = a /\ ask'["pass"].usage = u
      BY <2>2, <1>c, <1>d, <1>p
    <3>2. cache'[a] = u
      BY <1>e, <1>f DEF SpaceInv, SpaceTypeOK, QuotaType
    <3> QED
      BY <2>1, <2>2, <3>1, <3>2 DEF AskInv
  <2>3. CASE t = "ui"
    <3>1. ask'["pass"] = ask["pass"]
      BY <2>3, <1>d DEF SpaceInv, SpaceTypeOK, AskType
    <3>2. ASSUME At("pass", "known"), ask["pass"].account \notin astray'
          PROVE  cache'[ask["pass"].account] = ask["pass"].usage
      <4>1. ask["pass"].account \in Accounts
        BY <3>2, Open DEF SpaceInv, SpaceTypeOK
      <4>2. CASE ask["pass"].account = a
        <5>1. a \notin astray'
          BY <3>2, <4>2
        <5> QED
          BY ONLY <2>3, <3>2, <4>2, <5>1, <1>i, <1>k
      <4>3. CASE ask["pass"].account # a
        BY <3>2, <4>1, <4>3, <1>f, <1>j DEF SpaceInv, SpaceTypeOK, QuotaType, AskInv
      <4> QED
        BY <4>2, <4>3
    <3> QED
      BY <2>1, <3>1, <3>2, <1>f DEF SpaceInv, AskInv
  <2> QED
    BY <2>2, <2>3
<1>7. CacheInv'
  BY <1>e, <1>f DEF SpaceInv, SpaceTypeOK, QuotaType, CacheInv
<1>8. FilesInv'
  BY <1>e, <1>f, <1>j DEF SpaceInv, SpaceTypeOK, QuotaType, FilesType, FilesInv
<1>9. EstimateCovers'
  <2>s. SUFFICES ASSUME NEW b \in Accounts, b \notin astray'
               PROVE  (IF cache[b] = Nil THEN pending[b] = 0 /\ owed[b] = 0
                       ELSE /\ cache[b] = lastUsage[b] /\ pending[b] >= owed[b]
                            /\ pending[b] >= owed[b] + used[b] - lastUsage[b])'
    BY DEF EstimateCovers
  <2>1. CASE b = a
    <3>1. cache'[a] = u /\ lastUsage'[a] = u /\ pending'[a] = Decay(a, u)
      BY <1>e, <1>f DEF SpaceInv, SpaceTypeOK, QuotaType
    <3>2. u = used[a] /\ a \notin astray
      <4>1. a \notin astray'
        BY ONLY <2>s, <2>1
      <4> QED
        BY ONLY <4>1, <1>i
    <3>3. Decay(a, u) >= owed[a]
      <4>1. CASE cache[a] = Nil
        BY <4>1, <3>2, <1>e, <1>g, <1>h DEF SpaceInv, EstimateCovers
      <4>2. CASE cache[a] # Nil
        <5>1. pending[a] >= owed[a] /\ pending[a] >= owed[a] + used[a] - lastUsage[a]
          BY <4>2, <3>2, <1>e DEF SpaceInv, EstimateCovers
        <5> QED
          BY <5>1, <3>2, <1>e, <1>g, <1>h
      <4> QED
        BY <4>1, <4>2
    <3> QED
      BY <2>1, <3>1, <3>2, <3>3, <1>e, <1>f, <1>g, <1>h
  <2>2. CASE b # a
    <3>1. /\ cache'[b] = cache[b] /\ lastUsage'[b] = lastUsage[b] /\ pending'[b] = pending[b]
          /\ owed' = owed /\ used' = used /\ b \notin astray
      BY <2>s, <2>2, <1>f, <1>j DEF SpaceInv, SpaceTypeOK, QuotaType
    <3> QED
      BY <3>1 DEF SpaceInv, EstimateCovers
  <2> QED
    BY <2>1, <2>2
<1> QED
  BY <1>1, <1>2, <1>3, <1>4, <1>5, <1>6, <1>7, <1>8, <1>9 DEF SpaceInv, SpaceTypeOK

\* The account page is done with an answer.
LEMMA ShownInv ==
  ASSUME SpaceInv, Shown
  PROVE  SpaceInv'
<1> USE SpaceAssumption DEF Shown, At, Threads, Asking, quotaVars, routeVars, fileVars,
        history, counters
<1>1. QuotaType'
  BY DEF SpaceInv, SpaceTypeOK, QuotaType
<1>2. RouteType'
  BY DEF SpaceInv, SpaceTypeOK, RouteType
<1>3. FilesType'
  BY DEF SpaceInv, SpaceTypeOK, FilesType
<1>4. AskType'
  BY DEF SpaceInv, SpaceTypeOK, AskType
<1>5. CountType'
  BY DEF SpaceInv, SpaceTypeOK, CountType
<1>6. AskInv'
  BY DEF SpaceInv, AskInv
<1>7. CacheInv'
  BY DEF SpaceInv, CacheInv
<1>8. FilesInv'
  BY DEF SpaceInv, FilesInv
<1>9. EstimateCovers'
  BY DEF SpaceInv, EstimateCovers
<1> QED
  BY <1>1, <1>2, <1>3, <1>4, <1>5, <1>6, <1>7, <1>8, <1>9 DEF SpaceInv, SpaceTypeOK

\* A pass begins with an empty queue.
LEMMA BeginPassInv ==
  ASSUME SpaceInv, BeginPass
  PROVE  SpaceInv'
<1> USE SpaceAssumption DEF BeginPass, At, quotaVars, routeVars, fileVars, history, counters
<1>1. QuotaType'
  BY DEF SpaceInv, SpaceTypeOK, QuotaType
<1>2. RouteType'
  BY DEF SpaceInv, SpaceTypeOK, RouteType
<1>3. FilesType'
  BY DEF SpaceInv, SpaceTypeOK, FilesType
<1>4. AskType'
  BY DEF SpaceInv, SpaceTypeOK, AskType
<1>5. CountType'
  BY DEF SpaceInv, SpaceTypeOK, CountType
<1>6. AskInv'
  BY DEF SpaceInv, AskInv
<1>7. CacheInv'
  BY DEF SpaceInv, CacheInv
<1>8. FilesInv'
  BY DEF SpaceInv, FilesInv
<1>9. EstimateCovers'
  BY DEF SpaceInv, EstimateCovers
<1> QED
  BY <1>1, <1>2, <1>3, <1>4, <1>5, <1>6, <1>7, <1>8, <1>9 DEF SpaceInv, SpaceTypeOK

\* Growth is recorded in full.
LEMMA ConsumeInv ==
  ASSUME SpaceInv, NEW f \in Files, Consume(f)
  PROVE  SpaceInv'
<1> USE SpaceAssumption DEF Consume, Grown, At, quotaVars, routeVars, fileVars, history,
        counters
<1>a. /\ home[f] \in Accounts /\ size[f] - stored[f] \in Nat
  BY DEF SpaceInv, SpaceTypeOK, FilesType, FilesInv
<1>p. PICK a, g : a = home[f] /\ g = size[f] - stored[f]
  OBVIOUS
<1>b. /\ pending' = [pending EXCEPT ![a] = @ + g] /\ owed' = [owed EXCEPT ![a] = @ + g]
      /\ astray' = astray \cup IF cache[a] = Nil THEN {a} ELSE {}
      /\ UNCHANGED <<cache, fresh, lastUsage, used, edits, faults, looks>>
  BY <1>p
<1>c. a \in Accounts /\ g \in Nat
  BY <1>p, <1>a
<1>d. pending[a] + g \in Nat /\ owed[a] + g \in Int
  BY <1>p, <1>c DEF SpaceInv, SpaceTypeOK, QuotaType, CountType
<1>1. QuotaType'
  <2>1. pending' \in [Accounts -> Nat]
    BY <1>b, <1>c, <1>d DEF SpaceInv, SpaceTypeOK, QuotaType
  <2> QED
    BY <2>1, <1>b, <1>c, <1>d DEF SpaceInv, SpaceTypeOK, QuotaType
<1>2. RouteType'
  BY DEF SpaceInv, SpaceTypeOK, RouteType
<1>3. FilesType'
  BY DEF SpaceInv, SpaceTypeOK, FilesType
<1>4. AskType'
  BY DEF SpaceInv, SpaceTypeOK, AskType
<1>5. CountType'
  <2>1. owed' \in [Accounts -> Int]
    BY <1>b, <1>c, <1>d DEF SpaceInv, SpaceTypeOK, CountType
  <2>2. astray' \subseteq Accounts
    BY <1>b, <1>c, <1>d DEF SpaceInv, SpaceTypeOK, CountType
  <2>3. faults' \in Nat /\ edits' \in Nat /\ looks' \in Nat
    BY DEF SpaceInv, SpaceTypeOK, CountType
  <2> QED
    BY <2>1, <2>2, <2>3 DEF CountType
<1>6. AskInv'
  BY DEF SpaceInv, AskInv
<1>7. CacheInv'
  BY DEF SpaceInv, CacheInv
<1>8. FilesInv'
  BY DEF SpaceInv, FilesInv
<1>9. EstimateCovers'
  <2> SUFFICES ASSUME NEW b \in Accounts, b \notin astray'
               PROVE  (IF cache[b] = Nil THEN pending[b] = 0 /\ owed[b] = 0
                       ELSE /\ cache[b] = lastUsage[b] /\ pending[b] >= owed[b]
                            /\ pending[b] >= owed[b] + used[b] - lastUsage[b])'
    BY DEF EstimateCovers
  <2>1. /\ pending[b] \in Nat /\ owed[b] \in Int /\ used[b] \in Int /\ lastUsage[b] \in Int
    BY DEF SpaceInv, SpaceTypeOK, QuotaType, CountType
  <2>2. CASE b = a
    <3>1. cache[a] # Nil /\ a \notin astray
      BY <2>2, <1>b
    <3>2. pending'[a] = pending[a] + g /\ owed'[a] = owed[a] + g
      BY <1>b, <1>c DEF SpaceInv, SpaceTypeOK, QuotaType, CountType
    <3> QED
      BY <2>1, <2>2, <3>1, <3>2, <1>b, <1>c DEF SpaceInv, SpaceTypeOK, QuotaType, EstimateCovers
  <2>3. CASE b # a
    BY <2>1, <2>3, <1>b DEF SpaceInv, SpaceTypeOK, QuotaType, CountType, EstimateCovers
  <2> QED
    BY <2>2, <2>3
<1> QED
  BY <1>1, <1>2, <1>3, <1>4, <1>5, <1>6, <1>7, <1>8, <1>9 DEF SpaceInv, SpaceTypeOK

\* Routing starts with a file of the list.
LEMMA PickInv ==
  ASSUME SpaceInv, NEW f \in Files, Pick(f)
  PROVE  SpaceInv'
<1> USE SpaceAssumption DEF Pick, At, quotaVars, routeVars, fileVars, history, counters
<1>1. QuotaType'
  BY DEF SpaceInv, SpaceTypeOK, QuotaType
<1>2. RouteType'
  BY DEF SpaceInv, SpaceTypeOK, RouteType
<1>3. FilesType'
  BY DEF SpaceInv, SpaceTypeOK, FilesType
<1>4. AskType'
  BY DEF SpaceInv, SpaceTypeOK, AskType
<1>5. CountType'
  BY DEF SpaceInv, SpaceTypeOK, CountType
<1>6. AskInv'
  BY DEF SpaceInv, AskInv
<1>7. CacheInv'
  BY DEF SpaceInv, CacheInv
<1>8. FilesInv'
  BY DEF SpaceInv, FilesInv
<1>9. EstimateCovers'
  BY DEF SpaceInv, EstimateCovers
<1> QED
  BY <1>1, <1>2, <1>3, <1>4, <1>5, <1>6, <1>7, <1>8, <1>9 DEF SpaceInv, SpaceTypeOK

\* A file that is sent to an account is recorded in full, or the account goes astray.
LEMMA AssignInv ==
  ASSUME SpaceInv, NEW b \in Nat, ask["pass"] # Nil,
         b = 0 \/ (b = size[file] /\ Known("reserve")), Assign(b)
  PROVE  SpaceInv'
<1> USE SpaceAssumption DEF Assign, FileDone, Answered, Known, At, Threads, Asking, quotaVars,
        routeVars, fileVars, history, counters
<1>p. PICK a, z : a = ask["pass"].account /\ z = size[file]
  OBVIOUS
<1>a. /\ a \in Accounts /\ file \in Files /\ z \in Nat
  <2>1. ask["pass"].account \in Accounts
    BY Open DEF SpaceInv, SpaceTypeOK
  <2>2. file \in Files
    BY <1>p DEF SpaceInv, SpaceTypeOK, AskInv, RouteType
  <2>3. size[file] \in Nat
    BY <1>p, <2>2 DEF SpaceInv, SpaceTypeOK, FilesType
  <2> QED
    BY <1>p, <2>1, <2>2, <2>3
<1>b. /\ pending' = [pending EXCEPT ![a] = @ + b] /\ owed' = [owed EXCEPT ![a] = @ + z]
      /\ astray' = astray \cup IF b = 0 THEN {a} ELSE {}
      /\ home' = [home EXCEPT ![file] = a] /\ queue' = queue \cup {file}
      /\ UNCHANGED <<cache, fresh, lastUsage, used, size, stored, pc, edits, faults, looks>>
  BY <1>p
<1>e. pending[a] + b \in Nat /\ owed[a] + z \in Int
  BY <1>p, <1>a DEF SpaceInv, SpaceTypeOK, QuotaType, CountType
<1>c. a \notin astray' => b = z /\ cache[a] # Nil /\ a \notin astray
  <2>1. ASSUME a \notin astray' PROVE b # 0 /\ a \notin astray
    BY <1>p, <2>1, <1>b
  <2>2. ASSUME a \notin astray, Known("reserve") PROVE cache[a] # Nil
    <3>1. cache[a] = ask["pass"].usage /\ ask["pass"].usage \in Int
      BY <1>p, <2>2, Open DEF SpaceInv, SpaceTypeOK, AskInv
    <3> QED
      BY <1>p, <3>1
  <2> QED
    BY <1>p, <2>1, <2>2
<1>d. pc = "route"
  BY <1>p DEF SpaceInv, AskInv
<1>1. QuotaType'
  <2>1. pending' \in [Accounts -> Nat]
    BY <1>a, <1>b, <1>e DEF SpaceInv, SpaceTypeOK, QuotaType
  <2> QED
    BY <2>1, <1>a, <1>b, <1>e DEF SpaceInv, SpaceTypeOK, QuotaType
<1>2. RouteType'
  BY DEF SpaceInv, SpaceTypeOK, RouteType
<1>3. FilesType'
  BY <1>a, <1>b DEF SpaceInv, SpaceTypeOK, FilesType
<1>4. AskType'
  BY DEF SpaceInv, SpaceTypeOK, AskType
<1>5. CountType'
  <2>1. owed' \in [Accounts -> Int]
    BY <1>a, <1>b, <1>e DEF SpaceInv, SpaceTypeOK, CountType
  <2>2. astray' \subseteq Accounts
    BY <1>a, <1>b, <1>e DEF SpaceInv, SpaceTypeOK, CountType
  <2>3. faults' \in Nat /\ edits' \in Nat /\ looks' \in Nat
    BY DEF SpaceInv, SpaceTypeOK, CountType
  <2> QED
    BY <2>1, <2>2, <2>3 DEF CountType
<1>6. AskInv'
  BY DEF SpaceInv, SpaceTypeOK, AskType, AskInv
<1>7. CacheInv'
  BY DEF SpaceInv, CacheInv
<1>8. FilesInv'
  <2>1. \A g \in Files : home'[g] = IF g = file THEN a ELSE home[g]
    BY <1>a, <1>b DEF SpaceInv, SpaceTypeOK, FilesType
  <2>2. a # Nil /\ (a \in astray' \/ cache[a] # Nil)
    BY <1>a, <1>c DEF Accounts
  <2> QED
    BY <2>1, <2>2, <1>a, <1>b, <1>d DEF SpaceInv, SpaceTypeOK, FilesType, FilesInv
<1>9. EstimateCovers'
  <2> SUFFICES ASSUME NEW c \in Accounts, c \notin astray'
               PROVE  (IF cache[c] = Nil THEN pending[c] = 0 /\ owed[c] = 0
                       ELSE /\ cache[c] = lastUsage[c] /\ pending[c] >= owed[c]
                            /\ pending[c] >= owed[c] + used[c] - lastUsage[c])'
    BY DEF EstimateCovers
  <2>1. /\ pending[c] \in Nat /\ owed[c] \in Int /\ used[c] \in Int /\ lastUsage[c] \in Int
    BY DEF SpaceInv, SpaceTypeOK, QuotaType, CountType
  <2>2. CASE c = a
    <3>1. b = z /\ cache[a] # Nil /\ a \notin astray
      BY <2>2, <1>c
    <3>2. pending'[a] = pending[a] + b /\ owed'[a] = owed[a] + z
      BY <1>a, <1>b DEF SpaceInv, SpaceTypeOK, QuotaType, CountType
    <3> QED
      BY <2>1, <2>2, <3>1, <3>2, <1>a, <1>b DEF SpaceInv, EstimateCovers
  <2>3. CASE c # a
    BY <2>1, <2>3, <1>b DEF SpaceInv, SpaceTypeOK, QuotaType, CountType, EstimateCovers
  <2> QED
    BY <2>2, <2>3
<1> QED
  BY <1>1, <1>2, <1>3, <1>4, <1>5, <1>6, <1>7, <1>8, <1>9 DEF SpaceInv, SpaceTypeOK

\* The next account is tried.
LEMMA ReserveFullInv ==
  ASSUME SpaceInv, ReserveFull
  PROVE  SpaceInv'
<1> USE SpaceAssumption DEF ReserveFull, Known, Answered, At, Threads, Asking, quotaVars,
        routeVars, fileVars, history, counters
<1>1. QuotaType'
  BY DEF SpaceInv, SpaceTypeOK, QuotaType
<1>2. RouteType'
  BY DEF SpaceInv, SpaceTypeOK, RouteType
<1>3. FilesType'
  BY DEF SpaceInv, SpaceTypeOK, FilesType
<1>4. AskType'
  BY DEF SpaceInv, SpaceTypeOK, AskType
<1>5. CountType'
  BY DEF SpaceInv, SpaceTypeOK, CountType
<1>6. AskInv'
  BY DEF SpaceInv, AskInv
<1>7. CacheInv'
  BY DEF SpaceInv, CacheInv
<1>8. FilesInv'
  BY DEF SpaceInv, FilesInv
<1>9. EstimateCovers'
  BY DEF SpaceInv, EstimateCovers
<1> QED
  BY <1>1, <1>2, <1>3, <1>4, <1>5, <1>6, <1>7, <1>8, <1>9 DEF SpaceInv, SpaceTypeOK

\* The chain grows by an account.
LEMMA ProvisionInv ==
  ASSUME SpaceInv, Provision
  PROVE  SpaceInv'
<1> USE SpaceAssumption DEF Provision, HasSpace, Known, Failed, Answered, At, Threads, Asking,
        quotaVars, routeVars, fileVars, history, counters
<1>1. QuotaType'
  BY DEF SpaceInv, SpaceTypeOK, QuotaType
<1>2. RouteType'
  BY DEF SpaceInv, SpaceTypeOK, AskType, RouteType
<1>3. FilesType'
  BY DEF SpaceInv, SpaceTypeOK, FilesType
<1>4. AskType'
  BY DEF SpaceInv, SpaceTypeOK, AskType
<1>5. CountType'
  BY DEF SpaceInv, SpaceTypeOK, CountType
<1>6. AskInv'
  BY DEF SpaceInv, AskInv
<1>7. CacheInv'
  BY DEF SpaceInv, CacheInv
<1>8. FilesInv'
  BY DEF SpaceInv, FilesInv
<1>9. EstimateCovers'
  BY DEF SpaceInv, EstimateCovers
<1> QED
  BY <1>1, <1>2, <1>3, <1>4, <1>5, <1>6, <1>7, <1>8, <1>9 DEF SpaceInv, SpaceTypeOK

\* The next candidate is looked at.
LEMMA NoSpaceInv ==
  ASSUME SpaceInv, NoSpace
  PROVE  SpaceInv'
<1> USE SpaceAssumption DEF NoSpace, Known, Answered, At, Threads, Asking, quotaVars,
        routeVars, fileVars, history, counters
<1>a. ask["pass"].account \in Accounts
  BY Open DEF SpaceInv, SpaceTypeOK
<1>1. QuotaType'
  BY DEF SpaceInv, SpaceTypeOK, QuotaType
<1>2. RouteType'
  BY <1>a DEF Accounts, SpaceInv, SpaceTypeOK, RouteType
<1>3. FilesType'
  BY DEF SpaceInv, SpaceTypeOK, FilesType
<1>4. AskType'
  BY DEF SpaceInv, SpaceTypeOK, AskType
<1>5. CountType'
  BY DEF SpaceInv, SpaceTypeOK, CountType
<1>6. AskInv'
  BY DEF SpaceInv, AskInv
<1>7. CacheInv'
  BY DEF SpaceInv, CacheInv
<1>8. FilesInv'
  BY DEF SpaceInv, FilesInv
<1>9. EstimateCovers'
  BY DEF SpaceInv, EstimateCovers
<1> QED
  BY <1>1, <1>2, <1>3, <1>4, <1>5, <1>6, <1>7, <1>8, <1>9 DEF SpaceInv, SpaceTypeOK

\* A failed provisioning ends the question.
LEMMA ProvisionFailInv ==
  ASSUME SpaceInv, ProvisionFail
  PROVE  SpaceInv'
<1> USE SpaceAssumption DEF ProvisionFail, Fault, HasSpace, Known, Failed, Answered, At,
        Threads, Asking, quotaVars, routeVars, fileVars, history, counters
<1>1. QuotaType'
  BY DEF SpaceInv, SpaceTypeOK, QuotaType
<1>2. RouteType'
  BY DEF SpaceInv, SpaceTypeOK, RouteType
<1>3. FilesType'
  BY DEF SpaceInv, SpaceTypeOK, FilesType
<1>4. AskType'
  BY DEF SpaceInv, SpaceTypeOK, AskType
<1>5. CountType'
  BY DEF SpaceInv, SpaceTypeOK, CountType
<1>6. AskInv'
  BY DEF SpaceInv, AskInv
<1>7. CacheInv'
  BY DEF SpaceInv, CacheInv
<1>8. FilesInv'
  BY DEF SpaceInv, FilesInv
<1>9. EstimateCovers'
  BY DEF SpaceInv, EstimateCovers
<1> QED
  BY <1>1, <1>2, <1>3, <1>4, <1>5, <1>6, <1>7, <1>8, <1>9 DEF SpaceInv, SpaceTypeOK

\* A file that is deferred leaves no question open.
LEMMA DeferInv ==
  ASSUME SpaceInv, Defer
  PROVE  SpaceInv'
<1> USE SpaceAssumption DEF Defer, FileDone, Hunting, At, quotaVars, routeVars, fileVars,
        history, counters
<1>1. QuotaType'
  BY DEF SpaceInv, SpaceTypeOK, QuotaType
<1>2. RouteType'
  BY DEF SpaceInv, SpaceTypeOK, RouteType
<1>3. FilesType'
  BY DEF SpaceInv, SpaceTypeOK, FilesType
<1>4. AskType'
  BY DEF SpaceInv, SpaceTypeOK, AskType
<1>5. CountType'
  BY DEF SpaceInv, SpaceTypeOK, CountType
<1>6. AskInv'
  BY DEF SpaceInv, AskInv
<1>7. CacheInv'
  BY DEF SpaceInv, CacheInv
<1>8. FilesInv'
  BY DEF SpaceInv, FilesInv
<1>9. EstimateCovers'
  BY DEF SpaceInv, EstimateCovers
<1> QED
  BY <1>1, <1>2, <1>3, <1>4, <1>5, <1>6, <1>7, <1>8, <1>9 DEF SpaceInv, SpaceTypeOK

\* Uploads start when no file is being routed.
LEMMA StartUploadsInv ==
  ASSUME SpaceInv, StartUploads
  PROVE  SpaceInv'
<1> USE SpaceAssumption DEF StartUploads, At, quotaVars, routeVars, fileVars, history, counters
<1>1. QuotaType'
  BY DEF SpaceInv, SpaceTypeOK, QuotaType
<1>2. RouteType'
  BY DEF SpaceInv, SpaceTypeOK, RouteType
<1>3. FilesType'
  BY DEF SpaceInv, SpaceTypeOK, FilesType
<1>4. AskType'
  BY DEF SpaceInv, SpaceTypeOK, AskType
<1>5. CountType'
  BY DEF SpaceInv, SpaceTypeOK, CountType
<1>6. AskInv'
  BY DEF SpaceInv, AskInv
<1>7. CacheInv'
  BY DEF SpaceInv, CacheInv
<1>8. FilesInv'
  BY DEF SpaceInv, FilesInv
<1>9. EstimateCovers'
  BY DEF SpaceInv, EstimateCovers
<1> QED
  BY <1>1, <1>2, <1>3, <1>4, <1>5, <1>6, <1>7, <1>8, <1>9 DEF SpaceInv, SpaceTypeOK

\* An upload moves its bytes from what is owed to what is used.
LEMMA UploadInv ==
  ASSUME SpaceInv, NEW f \in Files, Upload(f)
  PROVE  SpaceInv'
<1> USE SpaceAssumption DEF Upload, Ended, At, quotaVars, routeVars, fileVars, history, counters
<1>p. PICK a, g : a = home[f] /\ g = size[f] - stored[f]
  OBVIOUS
<1>a. /\ a \in Accounts /\ g \in Nat /\ (a \in astray \/ cache[a] # Nil)
      /\ size[f] \in Nat /\ stored[f] \in Nat
  BY <1>p DEF SpaceInv, SpaceTypeOK, FilesType, FilesInv
<1>b. /\ owed' = [owed EXCEPT ![a] = @ - g] /\ queue' = queue \ {f}
      /\ UNCHANGED <<cache, fresh, pending, lastUsage, astray, size, pc, edits, looks>>
      /\ faults' \in {faults, faults + 1}
  BY <1>p
<1>z. owed[a] - g \in Int
  BY <1>p, <1>a DEF SpaceInv, SpaceTypeOK, CountType
<1>c. \A b \in Accounts : used'[b] = IF b = a THEN used[a] + g ELSE used[b]
  BY <1>p, <1>a DEF SpaceInv, SpaceTypeOK, QuotaType
<1>d. \A h \in Files : stored'[h] = IF h = f THEN size[f] ELSE stored[h]
  BY <1>p DEF SpaceInv, SpaceTypeOK, FilesType
<1>e. home' = home /\ a # Nil /\ a = home[f]
  BY <1>p, <1>a DEF Accounts
<1>f. used' \in [Accounts -> Int]
  <2>1. used[a] + size[f] - stored[f] \in Int
    BY <1>p, <1>a DEF SpaceInv, SpaceTypeOK, QuotaType
  <2> QED
    BY <1>p, <2>1, <1>a DEF SpaceInv, SpaceTypeOK, QuotaType
<1>1. QuotaType'
  BY <1>a, <1>b, <1>f DEF SpaceInv, SpaceTypeOK, QuotaType
<1>2. RouteType'
  BY DEF SpaceInv, SpaceTypeOK, RouteType
<1>3. FilesType'
  BY DEF SpaceInv, SpaceTypeOK, FilesType
<1>4. AskType'
  BY DEF SpaceInv, SpaceTypeOK, AskType
<1>5. CountType'
  <2>1. owed' \in [Accounts -> Int]
    BY <1>a, <1>b, <1>z DEF SpaceInv, SpaceTypeOK, CountType
  <2>2. astray' \subseteq Accounts
    BY <1>a, <1>b, <1>z DEF SpaceInv, SpaceTypeOK, CountType
  <2>3. faults' \in Nat /\ edits' \in Nat /\ looks' \in Nat
    BY DEF SpaceInv, SpaceTypeOK, CountType
  <2> QED
    BY <2>1, <2>2, <2>3 DEF CountType
<1>6. AskInv'
  BY DEF SpaceInv, AskInv
<1>7. CacheInv'
  BY DEF SpaceInv, CacheInv
<1>8. FilesInv'
  BY <1>a, <1>b, <1>d, <1>e DEF SpaceInv, SpaceTypeOK, FilesType, FilesInv
<1>9. EstimateCovers'
  <2> SUFFICES ASSUME NEW b \in Accounts, b \notin astray
               PROVE  (IF cache[b] = Nil THEN pending[b] = 0 /\ owed[b] = 0
                       ELSE /\ cache[b] = lastUsage[b] /\ pending[b] >= owed[b]
                            /\ pending[b] >= owed[b] + used[b] - lastUsage[b])'
    BY <1>b DEF EstimateCovers
  <2>1. /\ pending[b] \in Nat /\ owed[b] \in Int /\ used[b] \in Int /\ lastUsage[b] \in Int
    BY DEF SpaceInv, SpaceTypeOK, QuotaType, CountType
  <2>2. CASE b = a
    <3>1. owed'[a] = owed[a] - g
      BY <1>a, <1>b DEF SpaceInv, SpaceTypeOK, CountType
    <3> QED
      BY <2>1, <2>2, <3>1, <1>a, <1>b, <1>c DEF SpaceInv, EstimateCovers
  <2>3. CASE b # a
    BY <2>1, <2>3, <1>a, <1>b, <1>c DEF SpaceInv, SpaceTypeOK, CountType, QuotaType, EstimateCovers
  <2> QED
    BY <2>2, <2>3
<1> QED
  BY <1>1, <1>2, <1>3, <1>4, <1>5, <1>6, <1>7, <1>8, <1>9 DEF SpaceInv, SpaceTypeOK

\* A failed upload owes nothing any more; the estimate keeps its bytes.
LEMMA UploadFailInv ==
  ASSUME SpaceInv, NEW f \in Files, UploadFail(f)
  PROVE  SpaceInv'
<1> USE SpaceAssumption DEF UploadFail, Ended, Fault, At, quotaVars, routeVars, fileVars,
        history, counters
<1>p. PICK a, g : a = home[f] /\ g = size[f] - stored[f]
  OBVIOUS
<1>a. /\ a \in Accounts /\ g \in Nat /\ (a \in astray \/ cache[a] # Nil)
      /\ size[f] \in Nat /\ stored[f] \in Nat
  BY <1>p DEF SpaceInv, SpaceTypeOK, FilesType, FilesInv
<1>b. /\ owed' = [owed EXCEPT ![a] = @ - g] /\ queue' = queue \ {f}
      /\ UNCHANGED <<cache, fresh, pending, lastUsage, astray, size, pc, edits, looks>>
      /\ faults' \in {faults, faults + 1}
  BY <1>p
<1>z. owed[a] - g \in Int
  BY <1>p, <1>a DEF SpaceInv, SpaceTypeOK, CountType
<1>c. used' = used
  BY <1>p
<1>1. QuotaType'
  BY DEF SpaceInv, SpaceTypeOK, QuotaType
<1>2. RouteType'
  BY DEF SpaceInv, SpaceTypeOK, RouteType
<1>3. FilesType'
  BY DEF SpaceInv, SpaceTypeOK, FilesType
<1>4. AskType'
  BY DEF SpaceInv, SpaceTypeOK, AskType
<1>5. CountType'
  <2>1. owed' \in [Accounts -> Int]
    BY <1>a, <1>b, <1>z DEF SpaceInv, SpaceTypeOK, CountType
  <2>2. astray' \subseteq Accounts
    BY <1>a, <1>b, <1>z DEF SpaceInv, SpaceTypeOK, CountType
  <2>3. faults' \in Nat /\ edits' \in Nat /\ looks' \in Nat
    BY DEF SpaceInv, SpaceTypeOK, CountType
  <2> QED
    BY <2>1, <2>2, <2>3 DEF CountType
<1>6. AskInv'
  BY DEF SpaceInv, AskInv
<1>7. CacheInv'
  BY DEF SpaceInv, CacheInv
<1>8. FilesInv'
  BY DEF SpaceInv, FilesInv
<1>9. EstimateCovers'
  <2> SUFFICES ASSUME NEW b \in Accounts, b \notin astray
               PROVE  (IF cache[b] = Nil THEN pending[b] = 0 /\ owed[b] = 0
                       ELSE /\ cache[b] = lastUsage[b] /\ pending[b] >= owed[b]
                            /\ pending[b] >= owed[b] + used[b] - lastUsage[b])'
    BY <1>b DEF EstimateCovers
  <2>1. /\ pending[b] \in Nat /\ owed[b] \in Int /\ used[b] \in Int /\ lastUsage[b] \in Int
    BY DEF SpaceInv, SpaceTypeOK, QuotaType, CountType
  <2>2. CASE b = a
    <3>1. owed'[a] = owed[a] - g
      BY <1>a, <1>b DEF SpaceInv, SpaceTypeOK, CountType
    <3> QED
      BY <2>1, <2>2, <3>1, <1>a, <1>b, <1>c DEF SpaceInv, EstimateCovers
  <2>3. CASE b # a
    BY <2>1, <2>3, <1>a, <1>b, <1>c DEF SpaceInv, SpaceTypeOK, CountType, QuotaType, EstimateCovers
  <2> QED
    BY <2>2, <2>3
<1> QED
  BY <1>1, <1>2, <1>3, <1>4, <1>5, <1>6, <1>7, <1>8, <1>9 DEF SpaceInv, SpaceTypeOK

\* A pass ends when its queue is empty.
LEMMA EndPassInv ==
  ASSUME SpaceInv, EndPass
  PROVE  SpaceInv'
<1> USE SpaceAssumption DEF EndPass, At, quotaVars, routeVars, fileVars, history, counters
<1>1. QuotaType'
  BY DEF SpaceInv, SpaceTypeOK, QuotaType
<1>2. RouteType'
  BY DEF SpaceInv, SpaceTypeOK, RouteType
<1>3. FilesType'
  BY DEF SpaceInv, SpaceTypeOK, FilesType
<1>4. AskType'
  BY DEF SpaceInv, SpaceTypeOK, AskType
<1>5. CountType'
  BY DEF SpaceInv, SpaceTypeOK, CountType
<1>6. AskInv'
  BY DEF SpaceInv, AskInv
<1>7. CacheInv'
  BY DEF SpaceInv, CacheInv
<1>8. FilesInv'
  BY DEF SpaceInv, FilesInv
<1>9. EstimateCovers'
  BY DEF SpaceInv, EstimateCovers
<1> QED
  BY <1>1, <1>2, <1>3, <1>4, <1>5, <1>6, <1>7, <1>8, <1>9 DEF SpaceInv, SpaceTypeOK

\* A file grows on disk only.
LEMMA EditInv ==
  ASSUME SpaceInv, NEW f \in Files, Edit(f)
  PROVE  SpaceInv'
<1> USE SpaceAssumption DEF Edit, Edited, At, quotaVars, routeVars, fileVars, history, counters
<1>1. QuotaType'
  BY DEF SpaceInv, SpaceTypeOK, QuotaType
<1>2. RouteType'
  BY DEF SpaceInv, SpaceTypeOK, RouteType
<1>3. FilesType'
  BY DEF SpaceInv, SpaceTypeOK, FilesType
<1>4. AskType'
  BY DEF SpaceInv, SpaceTypeOK, AskType
<1>5. CountType'
  BY DEF SpaceInv, SpaceTypeOK, CountType
<1>6. AskInv'
  BY DEF SpaceInv, AskInv
<1>7. CacheInv'
  BY DEF SpaceInv, CacheInv
<1>8. FilesInv'
  BY DEF SpaceInv, SpaceTypeOK, FilesType, FilesInv
<1>9. EstimateCovers'
  BY DEF SpaceInv, EstimateCovers
<1> QED
  BY <1>1, <1>2, <1>3, <1>4, <1>5, <1>6, <1>7, <1>8, <1>9 DEF SpaceInv, SpaceTypeOK

\* A purge makes usage fall: the estimate covers more than is there.
LEMMA PurgeInv ==
  ASSUME SpaceInv, NEW f \in Files, Purge(f)
  PROVE  SpaceInv'
<1> USE SpaceAssumption DEF Purge, Edited, At, quotaVars, routeVars, fileVars, history, counters
<1>a. /\ home[f] \in Accounts /\ stored[f] \in Nat
  BY DEF SpaceInv, SpaceTypeOK, FilesType, FilesInv
<1>b. \A b \in Accounts : used'[b] <= used[b] /\ used'[b] \in Int
  BY <1>a DEF SpaceInv, SpaceTypeOK, QuotaType
<1>1. QuotaType'
  BY DEF SpaceInv, SpaceTypeOK, RouteType, AskType, AskInv, QuotaType
<1>2. RouteType'
  BY DEF SpaceInv, SpaceTypeOK, RouteType
<1>3. FilesType'
  BY DEF SpaceInv, SpaceTypeOK, FilesType
<1>4. AskType'
  BY DEF SpaceInv, SpaceTypeOK, AskType
<1>5. CountType'
  BY DEF SpaceInv, SpaceTypeOK, CountType
<1>6. AskInv'
  BY DEF SpaceInv, AskInv
<1>7. CacheInv'
  BY DEF SpaceInv, CacheInv
<1>8. FilesInv'
  BY DEF SpaceInv, SpaceTypeOK, FilesType, FilesInv
<1>9. EstimateCovers'
  <2> SUFFICES ASSUME NEW b \in Accounts, b \notin astray
               PROVE  (IF cache[b] = Nil THEN pending[b] = 0 /\ owed[b] = 0
                       ELSE /\ cache[b] = lastUsage[b] /\ pending[b] >= owed[b]
                            /\ pending[b] >= owed[b] + used[b] - lastUsage[b])'
    BY DEF EstimateCovers
  <2>1. /\ pending[b] \in Nat /\ owed[b] \in Int /\ used[b] \in Int /\ lastUsage[b] \in Int
    BY DEF SpaceInv, SpaceTypeOK, QuotaType, CountType
  <2> DEFINE u == used'[b]
  <2>2. u <= used[b] /\ u \in Int
    BY <1>b
  <2> HIDE DEF u
  <2>3. CASE cache[b] = Nil
    BY <2>3 DEF SpaceInv, EstimateCovers
  <2>4. CASE cache[b] # Nil
    <3>1. /\ cache[b] = lastUsage[b] /\ pending[b] >= owed[b]
          /\ pending[b] >= owed[b] + used[b] - lastUsage[b]
      BY <2>4 DEF SpaceInv, EstimateCovers
    <3>2. pending[b] >= owed[b] + u - lastUsage[b]
      BY <2>1, <2>2, <3>1
    <3> QED
      BY <2>4, <3>1, <3>2 DEF u
  <2> QED
    BY <2>3, <2>4
<1> QED
  BY <1>1, <1>2, <1>3, <1>4, <1>5, <1>6, <1>7, <1>8, <1>9 DEF SpaceInv, SpaceTypeOK

\* Steps that change nothing keep the invariant.
LEMMA StutterInv == ASSUME SpaceInv, UNCHANGED vars PROVE SpaceInv'
BY DEF SpaceInv, vars, quotaVars, routeVars, fileVars, history, counters, SpaceTypeOK, QuotaType,
       RouteType, FilesType, AskType, CountType, AskInv, CacheInv, FilesInv, EstimateCovers, At

\* Storing a reply, asking, and showing an answer.
LEMMA AskStepInv == ASSUME SpaceInv, Ask PROVE SpaceInv'
<1>1. ASSUME NEW t \in Threads, Reply(t) PROVE SpaceInv'
  BY <1>1, ReplyInv
<1>2. ASSUME NEW t \in Threads, QuotaFail(t) PROVE SpaceInv'
  BY <1>2, QuotaFailInv
<1>3. ASSUME NEW t \in Threads, Remember(t) PROVE SpaceInv'
  BY <1>3, RememberInv
<1>4. CASE Refresh
  <2>1. looks' \in Nat
    BY <1>4 DEF Refresh, SpaceInv, SpaceTypeOK, CountType
  <2>2. PICK a \in Accounts : Quota("ui", a, "view")
    BY <1>4 DEF Refresh
  <2> QED
    BY <2>1, <2>2, QuotaInv DEF Threads
<1>5. CASE Shown
  BY <1>5, ShownInv
<1> QED
  BY <1>1, <1>2, <1>3, <1>4, <1>5 DEF Ask

\* The steps of routing keep the invariant: what TryReserve records is the
\* whole file, and what is sent unrecorded makes the account go astray.
LEMMA RouteStepInv == ASSUME SpaceInv, Route PROVE SpaceInv'
<1>0. /\ chain \in Seq(Accounts) /\ at \in Nat \ {0} /\ looks \in Nat /\ \A f \in Files : size[f] \in Nat
      /\ file \in Files \cup {Nil} /\ (ask["pass"] # Nil => file # Nil)
  BY DEF SpaceInv, SpaceTypeOK, RouteType, CountType, FilesType, AskInv
<1>1. ASSUME NEW f \in Files, Consume(f) PROVE SpaceInv'
  BY <1>1, ConsumeInv
<1>2. ASSUME NEW f \in Files, Pick(f) PROVE SpaceInv'
  BY <1>2, PickInv
<1>3. CASE TryChain
  <2>1. chain[at] \in Accounts
    BY <1>0, <1>3 DEF TryChain
  <2>2. file # Nil /\ looks' \in Nat /\ Quota("pass", chain[at], "reserve")
    BY <1>0, <1>3 DEF TryChain
  <2> QED
    BY <2>1, <2>2, QuotaInv DEF Threads
<1>4. CASE ReserveFits
  <2>1. ask["pass"] # Nil /\ Known("reserve") /\ Assign(size[file])
    BY <1>4 DEF ReserveFits, Known, At
  <2>2. size[file] \in Nat
    BY <1>0, <2>1
  <2> QED
    BY <2>1, <2>2, AssignInv
<1>5. CASE ReserveOpen
  <2>1. ask["pass"] # Nil /\ Assign(0)
    BY <1>5 DEF ReserveOpen, Known, Failed, At
  <2> QED
    BY <2>1, AssignInv
<1>6. CASE ReserveFull
  BY <1>6, ReserveFullInv
<1>7. CASE TryNext
  <2>1. file # Nil /\ looks' \in Nat /\ \E a \in Accounts : Quota("pass", a, "space")
    BY <1>0, <1>7 DEF TryNext, Hunting, Candidates
  <2> QED
    BY <2>1, QuotaInv DEF Threads
<1>8. CASE Provision
  BY <1>8, ProvisionInv
<1>9. CASE NoSpace
  BY <1>9, NoSpaceInv
<1>10. CASE ProvisionFail
  BY <1>10, ProvisionFailInv
<1>11. CASE Defer
  BY <1>11, DeferInv
<1> QED
  BY <1>1, <1>2, <1>3, <1>4, <1>5, <1>6, <1>7, <1>8, <1>9, <1>10, <1>11 DEF Route

\* Every step keeps the invariant.
LEMMA NextInv == ASSUME SpaceInv, [Next]_vars PROVE SpaceInv'
<1>1. CASE BeginPass
  BY <1>1, BeginPassInv
<1>2. CASE Exec
  BY <1>2, StartUploadsInv, EndPassInv, UploadInv, UploadFailInv DEF Exec
<1>3. CASE User
  BY <1>3, EditInv, PurgeInv DEF User
<1> QED
  BY <1>1, <1>2, <1>3, AskStepInv, RouteStepInv, StutterInv DEF Next

\* The types, and what the pass relies on, hold in every state the daemon
\* reaches: SpaceInv is inductive.
THEOREM SpaceTypesHold == Spec => []SpaceTypeOK
<1>1. SpaceInv /\ [Next]_vars => SpaceInv'
  BY NextInv
<1>2. SpaceInv => SpaceTypeOK
  BY DEF SpaceInv
<1> QED
  BY SpaceInit, <1>1, <1>2, PTL DEF Spec

\* However Quota calls of the pass and the account page interleave, whatever
\* fails, and for every number of accounts, sizes, limits and thresholds: the
\* pending estimate of an account that has not gone astray covers what was
\* assigned there and not uploaded, and what was uploaded since the last read.
THEOREM EstimateIsSafe == Spec => []EstimateCovers
<1>1. SpaceInv /\ [Next]_vars => SpaceInv'
  BY NextInv
<1>2. SpaceInv => EstimateCovers
  BY DEF SpaceInv
<1> QED
  BY SpaceInit, <1>1, <1>2, PTL DEF Spec

\* TryReserve sends a file to an account only if it fits: by the estimate,
\* hence, when the account has not gone astray, by what is really in use.
LEMMA FitsIsRoom ==
  ASSUME SpaceInv, ReserveFits, ask["pass"].account \notin astray'
  PROVE  RoomFor(file, ask["pass"].account)
<1>p. PICK a, u : a = ask["pass"].account /\ u = ask["pass"].usage
  OBVIOUS
<1>1. ask["pass"] # Nil /\ ask["pass"].step = "known" /\ size[file] <= Avail
  BY DEF ReserveFits, Known, At
<1>2. a \in Accounts /\ u \in Int
  BY <1>p, <1>1, Open DEF Threads, SpaceInv, SpaceTypeOK
<1>3. a \notin astray
  BY <1>p DEF ReserveFits, Assign
<1>4. cache[a] = u /\ u # Nil
  BY <1>p, <1>1, <1>2, <1>3, SpaceAssumption DEF SpaceInv, AskInv, At
<1>5. lastUsage[a] = u /\ pending[a] >= owed[a] + used[a] - lastUsage[a]
  BY <1>2, <1>3, <1>4 DEF SpaceInv, EstimateCovers
<1>6. /\ pending[a] \in Nat /\ owed[a] \in Int /\ used[a] \in Int /\ lastUsage[a] \in Int
  BY <1>2 DEF SpaceInv, SpaceTypeOK, QuotaType, CountType
<1>7. size[file] \in Nat
  BY <1>1 DEF SpaceInv, SpaceTypeOK, AskInv, RouteType, FilesType
<1>8. Limit[a] \in Int /\ Reserve(a) \in Int
  BY <1>2, ReserveInt, SpaceAssumption
<1>9. size[file] <= Limit[a] - u - pending[a] - Reserve(a)
  BY <1>1, <1>p DEF Avail
<1>10. used[a] + owed[a] + size[file] + Reserve(a) <= Limit[a]
  BY <1>2, <1>5, <1>6, <1>7, <1>8, <1>9
<1> QED
  BY <1>10, <1>p DEF RoomFor

\* Only TryReserve gives a file an account, and it keeps the reserve free.
LEMMA StepKeepsReserve ==
  ASSUME SpaceInv, [Next]_vars, NEW f \in Files, home[f] = Nil, home'[f] # Nil
  PROVE  home'[f] \in astray' \/ RoomFor(f, home'[f])
<1>0. home \in [Files -> Accounts \cup {Nil}]
  BY DEF SpaceInv, SpaceTypeOK, FilesType
<1>1. ASSUME NEW b, Assign(b) PROVE f = file /\ home'[f] = ask["pass"].account
  BY <1>0, <1>1 DEF Assign
<1>2. CASE ReserveFits
  BY <1>1, <1>2, FitsIsRoom DEF ReserveFits
<1>3. CASE ReserveOpen
  <2>1. Assign(0)
    BY <1>3 DEF ReserveOpen
  <2>2. ask["pass"].account \in astray'
    BY <2>1 DEF Assign
  <2> QED
    BY <1>1, <2>1, <2>2
<1>4. ASSUME NEW t, NEW a, NEW why, Quota(t, a, why) PROVE home' = home
  BY <1>4 DEF Quota, fileVars
<1>5. CASE Ask
  BY <1>4, <1>5 DEF Ask, Reply, QuotaFail, Remember, Refresh, Shown, fileVars
<1>6. CASE BeginPass \/ Exec
  BY <1>0, <1>6 DEF BeginPass, Exec, StartUploads, EndPass, Upload, UploadFail, fileVars
<1>7. CASE User
  BY <1>0, <1>7 DEF User, Edit, Purge
<1>8. CASE Route /\ ~ReserveFits /\ ~ReserveOpen
  <2>1. home' = home
    BY <1>4, <1>8 DEF Route, Consume, Pick, TryChain, ReserveFull, TryNext, Provision, NoSpace,
        ProvisionFail, Defer, fileVars
  <2> QED
    BY <2>1
<1>9. CASE UNCHANGED vars
  BY <1>9 DEF vars, fileVars
<1> QED
  BY <1>2, <1>3, <1>5, <1>6, <1>7, <1>8, <1>9 DEF Next

\* A new file goes to an account only if the reserve stays free there once
\* everything assigned is uploaded (TryReserve), for every value of the
\* constants.
THEOREM ReserveKept == Spec => ReserveIsKept
<1>1. SpaceInv /\ [Next]_vars => SpaceInv'
  BY NextInv
<1>2. SpaceInv /\ [Next]_vars =>
        [\A f \in Files : home[f] = Nil /\ home'[f] # Nil =>
            (home'[f] \in astray' \/ RoomFor(f, home'[f]))]_vars
  BY StepKeepsReserve
<1> QED
  BY SpaceInit, <1>1, <1>2, PTL DEF Spec, ReserveIsKept
=============================================================================
