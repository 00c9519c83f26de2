----------------------------- MODULE GatewayProofs -----------------------------
(***************************************************************************)
(* The gateway's rates, isolation and booking, proved for any set of orgs, *)
(* requests and workspaces, any limits, and any number of inputs.          *)
(***************************************************************************)
EXTENDS Gateway, FiniteSetTheorems, SequenceTheorems, TLAPS

-----------------------------------------------------------------------------
(* Rates.                                                                   *)

\* What a limiter has let through: all that it counts up to the limit, and at
\* most the limit for each process before.
LetThrough ==
  \A p \in Principals, w \in Windows :
    passed[<<p, w>>] <= PerWindow * (IF backend = "redis" THEN 0 ELSE lives - 1)
                      + (IF counts[<<p, w>>] < PerWindow THEN counts[<<p, w>>] ELSE PerWindow)

GatewayRates == LimitTypeOK /\ lives # 0 /\ LetThrough

RuntimeRates ==
  /\ serviceCount \in [{"service"} \X Windows -> Nat]
  /\ servicePassed \in [{"service"} \X Windows -> Nat]
  /\ \A w \in Windows :
       servicePassed[<<"service", w>>] <=
         IF serviceCount[<<"service", w>>] < RuntimeLimit THEN serviceCount[<<"service", w>>]
         ELSE RuntimeLimit

\* Only the limiters' own operations move the counts.
LEMMA WhoCounts ==
  ASSUME Next
  PROVE  /\ \/ UNCHANGED limitVars \/ LimiterRestarts
            \/ UNCHANGED <<backend, lives>> /\ \E o, w : Allow(o, w)
         /\ \/ UNCHANGED <<serviceCount, servicePassed>>
            \/ Service!Allow("service", minute)
<1> USE DEF limitVars, runtimeVars
<1>1. CASE Input
  <2>1. CASE Costs(0) /\ Administer
                /\ UNCHANGED <<billingVars, clockVars, limitVars, proxyVars, runtimeVars, usageVars>>
    BY <2>1
  <2>2. CASE Costs(3) /\ BillingInput /\ UNCHANGED Restless
    BY <2>2 DEF Restless
  <2>3. CASE (NextMinute \/ NextMonth)
             /\ UNCHANGED <<billingVars, tenantVars, limitVars, proxyVars, runtimeVars, usageVars>>
    BY <2>3
  <2>4. ASSUME NEW q \in Requests, Asked(q)
        PROVE  UNCHANGED <<limitVars, runtimeVars>>
    BY <2>4 DEF Asked, Authenticate, Repeat
  <2>5. CASE Restart
    BY <2>5 DEF Restart
  <2> QED
    BY <1>1, <2>1, <2>2, <2>3, <2>4, <2>5 DEF Input
<1>2. CASE Work
  <2>1. CASE UNCHANGED Restless
    BY <2>1 DEF Restless
  <2>2. ASSUME NEW q \in Requests, Handle(q)
        PROVE  /\ \/ UNCHANGED limitVars
                  \/ UNCHANGED <<backend, lives>> /\ \E o, w : Allow(o, w)
               /\ \/ UNCHANGED <<serviceCount, servicePassed>>
                  \/ Service!Allow("service", minute)
    <3>1. CASE CountInMemory(q)
      BY <3>1 DEF CountInMemory, Allow
    <3>2. CASE CountInRedis(q)
      BY <3>2 DEF CountInRedis, Allow
    <3>3. CASE RuntimeAnswers(q)
      BY <3>3 DEF RuntimeAnswers, Service!Allow
    <3>4. CASE Access(q)
      <4>1. \/ Service!Allow("service", minute)
            \/ UNCHANGED <<backend, serviceCount, servicePassed>>
        BY <3>4 DEF Access
      <4>2. UNCHANGED <<counts, passed, lives>>
        BY <3>4 DEF Access
      <4> QED
        BY <4>1, <4>2 DEF Service!Allow
    <3> QED
      BY <2>2, <3>1, <3>2, <3>3, <3>4
         DEF Handle, ReadMinute, CheckQuota, Forward, LinkRun, Timeout
  <2>3. ASSUME NEW q \in Requests, Usage(q)
        PROVE  UNCHANGED <<limitVars, serviceCount, servicePassed>>
    BY <2>3 DEF Usage, RunEnds, BookRun, BookTokens
  <2> QED
    BY <1>2, <2>1, <2>2, <2>3 DEF Work
<1> QED
  BY <1>1, <1>2 DEF Next

LEMMA GatewayRatesStep ==
  ASSUME GatewayRates, [Next]_vars
  PROVE  GatewayRates'
<1> USE LimitAssumption DEF GatewayRates, LimitTypeOK
<1>1. CASE UNCHANGED limitVars
  BY <1>1 DEF limitVars, LetThrough
<1>2. CASE LimiterRestarts
  <2>1. CASE backend = "redis"
    BY <1>2, <2>1 DEF LimiterRestarts, LetThrough
  <2>2. CASE backend = "memory"
    <3>1. LimitTypeOK' /\ lives' # 0 /\ backend' = "memory" /\ passed' = passed /\ lives' = lives + 1
      BY <1>2, <2>2 DEF LimiterRestarts
    <3>2. ASSUME NEW p \in Principals, NEW w \in Windows
          PROVE  passed[<<p, w>>] <= PerWindow * lives + 0
      <4>1. passed[<<p, w>>] <= PerWindow * (lives - 1) + PerWindow
        BY <2>2 DEF LetThrough
      <4> QED
        BY <4>1
    <3>3. \A p \in Principals, w \in Windows : counts'[<<p, w>>] = 0
      BY <1>2, <2>2 DEF LimiterRestarts
    <3> QED
      BY <3>1, <3>2, <3>3 DEF LetThrough
  <2> QED
    BY <2>1, <2>2
<1>3. ASSUME NEW o, NEW u, Allow(o, u), UNCHANGED <<backend, lives>>
      PROVE  GatewayRates'
  <2>1. LimitTypeOK'
    <3> DEFINE x == <<o, u>>
               S == Principals \X Windows
    <3>1. /\ counts' = [counts EXCEPT ![x] = counts[x] + 1]
          /\ passed' = [passed EXCEPT ![x] = IF Allowed(o, u) THEN passed[x] + 1 ELSE passed[x]]
      BY <1>3 DEF Allow
    <3>2. counts \in [S -> Nat] /\ passed \in [S -> Nat]
      OBVIOUS
    <3>3. counts' \in [S -> Nat] /\ passed' \in [S -> Nat]
      <4> DEFINE fits == Allowed(o, u)
      <4>1. passed' = [passed EXCEPT ![x] = IF fits THEN passed[x] + 1 ELSE passed[x]]
        BY <3>1
      <4> HIDE DEF x, S, fits
      <4>2. counts' = [y \in S |-> IF y = x THEN counts[y] + 1 ELSE counts[y]]
        BY <3>1, <3>2
      <4>3. passed' = [y \in S |-> IF y = x /\ fits THEN passed[y] + 1 ELSE passed[y]]
        BY <4>1, <3>2
      <4>4. \A y \in S : counts[y] + 1 \in Nat /\ passed[y] + 1 \in Nat /\ counts[y] \in Nat /\ passed[y] \in Nat
        BY <3>2
      <4> QED
        BY <4>2, <4>3, <4>4
    <3> QED
      BY <1>3, <3>3
  <2>2. ASSUME NEW p \in Principals, NEW w \in Windows
        PROVE  /\ counts'[<<p, w>>] = IF p = o /\ w = u THEN counts[<<p, w>>] + 1 ELSE counts[<<p, w>>]
               /\ passed'[<<p, w>>] = IF p = o /\ w = u /\ counts[<<p, w>>] + 1 <= PerWindow
                                  THEN passed[<<p, w>>] + 1 ELSE passed[<<p, w>>]
    BY <1>3 DEF Allow, Allowed
  <2>3. LetThrough'
    <3> SUFFICES ASSUME NEW p \in Principals, NEW w \in Windows
                 PROVE  passed'[<<p, w>>] <= PerWindow * (IF backend = "redis" THEN 0 ELSE lives - 1)
                          + (IF counts'[<<p, w>>] < PerWindow THEN counts'[<<p, w>>] ELSE PerWindow)
      BY <1>3 DEF LetThrough
    <3> DEFINE before == PerWindow * (IF backend = "redis" THEN 0 ELSE lives - 1)
    <3>1. before \in Int /\ counts[<<p, w>>] \in Nat /\ passed[<<p, w>>] \in Nat
      OBVIOUS
    <3>2. passed[<<p, w>>] <= before + (IF counts[<<p, w>>] < PerWindow THEN counts[<<p, w>>] ELSE PerWindow)
      BY DEF LetThrough
    <3> HIDE DEF before
    <3>3. passed'[<<p, w>>] <= before + (IF counts'[<<p, w>>] < PerWindow THEN counts'[<<p, w>>] ELSE PerWindow)
      BY <2>2, <3>1, <3>2
    <3> QED
      BY <3>3 DEF before
  <2> QED
    BY <1>3, <2>1, <2>3
<1> QED
  BY <1>1, <1>2, <1>3, WhoCounts DEF vars

LEMMA RuntimeRatesStep ==
  ASSUME RuntimeRates, [Next]_vars
  PROVE  RuntimeRates'
<1> USE RuntimeAssumption DEF RuntimeRates
<1>1. CASE UNCHANGED <<serviceCount, servicePassed>>
  BY <1>1
<1>2. CASE Service!Allow("service", minute)
  <2> DEFINE x == <<"service", minute>>
             S == {"service"} \X Windows
             fits == serviceCount[x] + 1 <= RuntimeLimit
  <2>1. /\ serviceCount' = [serviceCount EXCEPT ![x] = serviceCount[x] + 1]
        /\ servicePassed' = [servicePassed EXCEPT ![x] =
                               IF fits THEN servicePassed[x] + 1 ELSE servicePassed[x]]
    BY <1>2 DEF Service!Allow, Service!Allowed
  <2>2. serviceCount \in [S -> Nat] /\ servicePassed \in [S -> Nat]
    OBVIOUS
  <2>3. \A w \in Windows : <<"service", w>> \in S
    OBVIOUS
  <2> HIDE DEF x, S
  <2>4. /\ serviceCount' = [y \in S |-> IF y = x THEN serviceCount[y] + 1 ELSE serviceCount[y]]
        /\ servicePassed' = [y \in S |-> IF y = x /\ fits THEN servicePassed[y] + 1
                                         ELSE servicePassed[y]]
    BY <2>1, <2>2
  <2>5. serviceCount' \in [S -> Nat] /\ servicePassed' \in [S -> Nat]
    BY <2>2, <2>4
  <2>6. ASSUME NEW w \in Windows
        PROVE  servicePassed'[<<"service", w>>] <=
                 IF serviceCount'[<<"service", w>>] < RuntimeLimit
                 THEN serviceCount'[<<"service", w>>] ELSE RuntimeLimit
    <3> DEFINE y == <<"service", w>>
    <3>1. y \in S /\ serviceCount[y] \in Nat /\ servicePassed[y] \in Nat
      BY <2>2, <2>3
    <3>2. servicePassed[y] <= IF serviceCount[y] < RuntimeLimit THEN serviceCount[y] ELSE RuntimeLimit
      OBVIOUS
    <3> HIDE DEF y
    <3>3. servicePassed'[y] <= IF serviceCount'[y] < RuntimeLimit THEN serviceCount'[y] ELSE RuntimeLimit
      BY <2>4, <3>1, <3>2
    <3> QED
      BY <3>3 DEF y
  <2> QED
    BY <2>5, <2>6 DEF S
<1>3. CASE UNCHANGED vars
  BY <1>3 DEF vars, runtimeVars
<1>4. CASE Next
  BY <1>1, <1>2, <1>4, WhoCounts
<1> QED
  BY <1>3, <1>4

LEMMA RatesInit ==
  ASSUME Init
  PROVE  GatewayRates /\ RuntimeRates
<1> USE LimitAssumption, RuntimeAssumption
<1>1. LimitTypeOK /\ lives = 1
  BY DEF Init, LimitInit, LimitTypeOK
<1>2. \A p \in Principals, w \in Windows : counts[<<p, w>>] = 0 /\ passed[<<p, w>>] = 0
  BY DEF Init, LimitInit
<1>3. LetThrough
  <2>1. PerWindow * (IF backend = "redis" THEN 0 ELSE lives - 1) = 0
    BY <1>1
  <2>2. ASSUME NEW p \in Principals, NEW w \in Windows
        PROVE  passed[<<p, w>>] <= PerWindow * (IF backend = "redis" THEN 0 ELSE lives - 1)
                 + (IF counts[<<p, w>>] < PerWindow THEN counts[<<p, w>>] ELSE PerWindow)
    <3>1. counts[<<p, w>>] = 0 /\ passed[<<p, w>>] = 0
      BY <1>2
    <3>2. PerWindow \in Nat
      OBVIOUS
    <3>3. 0 <= 0 + (IF 0 < PerWindow THEN 0 ELSE PerWindow)
      BY <3>2
    <3> QED
      BY <2>1, <3>1, <3>3
  <2> QED
    BY <2>2 DEF LetThrough
<1>4. RuntimeRates
  <2>1. /\ serviceCount = [pw \in {"service"} \X Windows |-> 0]
        /\ servicePassed = [pw \in {"service"} \X Windows |-> 0]
    BY DEF Init
  <2> QED
    BY <2>1 DEF RuntimeRates
<1> QED
  BY <1>1, <1>3, <1>4 DEF GatewayRates

\* With any number of orgs, requests and restarts no limiter lets more through
\* in a minute than its limit, in memory its limit for each process.
THEOREM RatesAreHonoured == Spec => []RatesHonoured
<1> USE LimitAssumption, RuntimeAssumption
<1>1. Init => GatewayRates /\ RuntimeRates
  BY RatesInit
<1>2. GatewayRates /\ RuntimeRates /\ [Next]_vars => (GatewayRates /\ RuntimeRates)'
  BY GatewayRatesStep, RuntimeRatesStep
<1>3. GatewayRates /\ RuntimeRates => RatesHonoured
  <2> SUFFICES ASSUME GatewayRates, RuntimeRates
               PROVE  RatesHonoured
    OBVIOUS
  <2>1. ASSUME NEW p \in Principals, NEW w \in Windows
        PROVE  passed[<<p, w>>] <= PerWindow * (IF backend = "redis" THEN 1 ELSE lives)
    BY DEF GatewayRates, LimitTypeOK, LetThrough
  <2>2. ASSUME NEW w \in Windows
        PROVE  servicePassed[<<"service", w>>] <= RuntimeLimit * (IF backend = "redis" THEN 1 ELSE 1)
    BY DEF RuntimeRates
  <2> QED
    BY <2>1, <2>2 DEF RatesHonoured, RateHonoured, Service!RateHonoured
<1> QED
  BY <1>1, <1>2, <1>3, PTL DEF Spec

-----------------------------------------------------------------------------
(* Requests, links and runs.                                                *)

TenantTypes ==
  /\ orgs \subseteq Orgs /\ keyed \subseteq orgs
  /\ spaces \subseteq orgs \X Ids
  /\ minute \in Windows /\ month \in Months

Handlers == [at : Places, org : Orgs, target : Requests \cup {None},
             window : Windows, space : Ids \cup {None}]

ProxyTypes ==
  /\ req \in [Requests -> Handlers]
  /\ link \in [Requests -> Orgs \cup {None}]
  /\ run \in [Requests -> [status : Runs, tokens : 0 .. MaxTokens]]
  /\ seen \subseteq Orgs \X Requests

UsageTypes ==
  /\ mail \in [Requests -> [at : Letters, org : Orgs \cup {None}]]
  /\ usage \in [Requests -> [Metrics -> [org : Orgs \cup {None}, quantity : 0 .. MaxTokens + 1,
                                         month : Months]]]

\* A step is one of a request, a restart, or leaves requests and usage alone.
LEMMA StepCases ==
  ASSUME [Next]_vars
  PROVE  \/ /\ UNCHANGED <<proxyVars, runtimeVars, usageVars>>
            /\ UNCHANGED tenantVars \/ Administer
            /\ UNCHANGED clockVars \/ NextMinute \/ NextMonth
         \/ /\ UNCHANGED <<tenantVars, clockVars>>
            /\ Restart \/ \E q \in Requests : Asked(q) \/ Handle(q) \/ Usage(q)
<1>1. CASE UNCHANGED vars
  BY <1>1 DEF vars
<1>2. CASE Input
  <2>1. CASE Costs(0) /\ Administer
                /\ UNCHANGED <<billingVars, clockVars, limitVars, proxyVars, runtimeVars, usageVars>>
    BY <2>1
  <2>2. CASE Costs(3) /\ BillingInput /\ UNCHANGED Restless
    BY <2>2 DEF Restless
  <2>3. CASE (NextMinute \/ NextMonth)
             /\ UNCHANGED <<billingVars, tenantVars, limitVars, proxyVars, runtimeVars, usageVars>>
    BY <2>3
  <2>4. CASE \E q \in Requests : Asked(q) /\ UNCHANGED <<billingVars, tenantVars, clockVars>>
    BY <2>4
  <2>5. CASE Restart /\ UNCHANGED <<billingVars, tenantVars, clockVars>>
    BY <2>5
  <2> QED
    BY <1>2, <2>1, <2>2, <2>3, <2>4, <2>5 DEF Input
<1>3. CASE Work
  <2>1. CASE UNCHANGED Restless
    BY <2>1 DEF Restless
  <2>2. CASE \E q \in Requests :
               (Handle(q) \/ Usage(q)) /\ UNCHANGED <<billingVars, tenantVars, clockVars>>
    BY <2>2
  <2> QED
    BY <1>3, <2>1, <2>2 DEF Work
<1> QED
  BY <1>1, <1>2, <1>3 DEF Next

LEMMA TenantTypesStep ==
  ASSUME TenantTypes, [Next]_vars
  PROVE  TenantTypes'
<1> USE TenantAssumption DEF TenantTypes
<1>1. CASE UNCHANGED <<tenantVars, clockVars>>
  BY <1>1 DEF tenantVars, clockVars
<1>2. CASE (UNCHANGED tenantVars \/ Administer) /\ (UNCHANGED clockVars \/ NextMinute \/ NextMonth)
  <2>1. minute' \in Windows /\ month' \in Months
    BY <1>2 DEF clockVars, NextMinute, NextMonth
  <2>2. orgs' \subseteq Orgs /\ keyed' \subseteq orgs' /\ spaces' \subseteq orgs' \X Ids
    <3>1. CASE UNCHANGED tenantVars
      BY <3>1 DEF tenantVars
    <3>2. ASSUME NEW o \in Orgs, CreateOrg(o) \/ CreateApiKey(o) \/ CreateWorkspace(o)
          PROVE  orgs' \subseteq Orgs /\ keyed' \subseteq orgs' /\ spaces' \subseteq orgs' \X Ids
      BY <3>2 DEF CreateOrg, CreateApiKey, CreateWorkspace
    <3> QED
      BY <1>2, <3>1, <3>2 DEF Administer
  <2> QED
    BY <2>1, <2>2
<1> QED
  BY <1>1, <1>2, StepCases

\* What a handler's step does to its own request, and to no other.
LEMMA GoesTo ==
  ASSUME ProxyTypes, NEW q \in Requests, NEW place \in Places, Goes(q, place)
  PROVE  /\ req' \in [Requests -> Handlers]
         /\ \A r \in Requests : req'[r] = IF r = q THEN [req[q] EXCEPT !.at = place] ELSE req[r]
<1>1. [req[q] EXCEPT !.at = place] \in Handlers
  BY DEF ProxyTypes, Handlers
<1>2. req' = [req EXCEPT ![q] = [req[q] EXCEPT !.at = place]]
  BY DEF Goes
<1> QED
  BY <1>1, <1>2 DEF ProxyTypes

LEMMA ProxyTypesStep ==
  ASSUME TenantTypes, ProxyTypes, [Next]_vars
  PROVE  ProxyTypes'
<1> USE DEF ProxyTypes
<1>1. CASE UNCHANGED <<proxyVars, runtimeVars, usageVars>>
  BY <1>1 DEF proxyVars, runtimeVars
<1>2. CASE Restart
  <2>1. ASSUME NEW q \in Requests
        PROVE  /\ [req[q] EXCEPT !.at = "abandoned"] \in Handlers
               /\ [req[q] EXCEPT !.at = "answered"] \in Handlers
    BY DEF Places, Stopped, Handlers
  <2> QED
    BY <1>2, <2>1 DEF Restart, runtimeVars
<1>3. ASSUME NEW q \in Requests, Asked(q)
      PROVE  ProxyTypes'
  <2>1. ASSUME NEW o \in Orgs, NEW target \in Requests \cup {None}, Authenticate(q, o, target)
        PROVE  ProxyTypes'
    <3> DEFINE new == [req[q] EXCEPT !.at = "authenticated", !.org = o, !.target = target]
    <3>1. new \in Handlers
      BY DEF Places, Handlers
    <3>2. req' = [req EXCEPT ![q] = new]
      BY <2>1 DEF Authenticate
    <3> HIDE DEF new
    <3> QED
      BY <2>1, <3>1, <3>2 DEF Authenticate, runtimeVars
  <2> QED
    BY <1>3, <2>1 DEF Asked, Repeat, proxyVars, runtimeVars
<1>4. ASSUME NEW q \in Requests, Usage(q)
      PROVE  ProxyTypes'
  <2>1. CASE RunEnds(q)
    BY <2>1 DEF RunEnds, proxyVars, Runs
  <2> QED
    BY <1>4, <2>1 DEF Usage, BookRun, BookTokens, proxyVars, runtimeVars
<1>5. ASSUME NEW q \in Requests, Handle(q)
      PROVE  ProxyTypes'
  <2>1. CASE \E place \in Places : Goes(q, place)
    <3>1. req' \in [Requests -> Handlers]
      BY <2>1, GoesTo
    <3>2. link' \in [Requests -> Orgs \cup {None}]
      <4>1. req[q].org \in Orgs
        BY DEF Handlers
      <4> QED
        BY <1>5, <4>1 DEF Handle, CountInMemory, ReadMinute, CountInRedis, Access, CheckQuota,
                          Forward, RuntimeAnswers, LinkRun, Timeout
    <3>3. run' \in [Requests -> [status : Runs, tokens : 0 .. MaxTokens]]
      BY <1>5 DEF Handle, CountInMemory, ReadMinute, CountInRedis, Access, CheckQuota,
                  Forward, RuntimeAnswers, LinkRun, Timeout, runtimeVars, Runs
    <3>4. seen' \subseteq Orgs \X Requests
      <4>1. CASE Access(q)
        <5>1. req[q].org \in Orgs /\ req[q].target \in Requests
          BY <4>1 DEF Access, Handlers
        <5> QED
          BY <4>1, <5>1 DEF Access
      <4> QED
        BY <1>5, <4>1 DEF Handle, CountInMemory, ReadMinute, CountInRedis, CheckQuota,
                          Forward, RuntimeAnswers, LinkRun, Timeout
    <3> QED
      BY <3>1, <3>2, <3>3, <3>4
  <2>2. CASE ReadMinute(q)
    <3> DEFINE new == [req[q] EXCEPT !.at = "counting", !.window = minute]
    <3>1. new \in Handlers
      BY DEF Places, Handlers, TenantTypes
    <3>2. req' = [req EXCEPT ![q] = new]
      BY <2>2 DEF ReadMinute
    <3> HIDE DEF new
    <3> QED
      BY <2>2, <3>1, <3>2 DEF ReadMinute, runtimeVars
  <2>3. ASSUME NEW id \in Ids, req' = [req EXCEPT ![q].at = "sent", ![q].space = id], Forward(q)
        PROVE  ProxyTypes'
    <3> DEFINE new == [req[q] EXCEPT !.at = "sent", !.space = id]
    <3>1. new \in Handlers
      BY DEF Places, Handlers
    <3>2. req' = [req EXCEPT ![q] = new]
      BY <2>3
    <3> HIDE DEF new
    <3> QED
      BY <2>3, <3>1, <3>2 DEF Forward, runtimeVars
  <2> QED
    BY <1>5, <2>1, <2>2, <2>3 DEF Handle, CountInMemory, CountInRedis, Access, CheckQuota,
         Forward, Workspaces, RuntimeAnswers, LinkRun, Timeout, Places, Stopped
<1> QED
  BY <1>1, <1>2, <1>3, <1>4, <1>5, StepCases

-----------------------------------------------------------------------------
(* Isolation.                                                               *)

\* A run and its link come late in the life of the request that makes them, when
\* nothing changes its org any more.
RunComesLate == \A q \in Requests : run[q].status # "absent" => req[q].at \in {"created", "answered"}
LinkIsOwn ==
  \A q \in Requests : link[q] # None => req[q].at = "answered" /\ link[q] = req[q].org
SeenIsLinked == \A o \in Orgs, q \in Requests : <<o, q>> \in seen => link[q] = o

Isolation == RunComesLate /\ LinkIsOwn /\ SeenIsLinked

\* Where a handler's step takes its request, and from where.
LEMMA HandlerMoves ==
  ASSUME ProxyTypes, NEW q \in Requests, Handle(q)
  PROVE  /\ \A r \in Requests \ {q} : req'[r] = req[r]
         /\ req'[q].org = req[q].org
         /\ req[q].at \notin {"none", "answered"}
         /\ req'[q].at # "none"
         /\ req'[q].space = req[q].space \/ Forward(q)
<1> USE DEF ProxyTypes, Goes
<1>1. CASE CountInMemory(q) \/ CountInRedis(q)
  BY <1>1 DEF CountInMemory, CountInRedis, At, Handlers
<1>2. CASE ReadMinute(q) \/ Access(q) \/ CheckQuota(q)
  BY <1>2 DEF ReadMinute, Access, CheckQuota, At, Handlers
<1>3. CASE Forward(q)
  BY <1>3 DEF Forward, At, Handlers
<1>4. CASE RuntimeAnswers(q) \/ LinkRun(q) \/ Timeout(q)
  BY <1>4 DEF RuntimeAnswers, LinkRun, Timeout, At, Handlers
<1> QED
  BY <1>1, <1>2, <1>3, <1>4 DEF Handle

LEMMA IsolationStep ==
  ASSUME ProxyTypes, Isolation, [Next]_vars
  PROVE  Isolation'
<1> USE DEF Isolation
<1>1. CASE UNCHANGED <<proxyVars, runtimeVars>>
  BY <1>1 DEF proxyVars, runtimeVars, RunComesLate, LinkIsOwn, SeenIsLinked
<1>2. CASE Restart
  <2>1. \A q \in Requests :
          /\ req'[q].org = req[q].org
          /\ req[q].at = "answered" => req'[q].at = "answered"
          /\ req[q].at = "created" => req'[q].at = "answered"
    BY <1>2 DEF Restart, Stopped, ProxyTypes, Handlers
  <2>2. UNCHANGED <<run, link, seen>>
    BY <1>2 DEF Restart, runtimeVars
  <2>3. RunComesLate'
    BY <2>1, <2>2 DEF RunComesLate
  <2>4. LinkIsOwn'
    BY <2>1, <2>2 DEF LinkIsOwn
  <2>5. SeenIsLinked'
    BY <2>2 DEF SeenIsLinked
  <2> QED
    BY <2>3, <2>4, <2>5
<1>3. ASSUME NEW q \in Requests, Asked(q)
      PROVE  Isolation'
  <2>1. ASSUME NEW o \in Orgs, NEW target, Authenticate(q, o, target)
        PROVE  Isolation'
    <3>1. UNCHANGED <<run, link, seen>> /\ req[q].at = "none"
      BY <2>1 DEF Authenticate, At, runtimeVars
    <3>2. \A r \in Requests : r # q => req'[r] = req[r]
      BY <2>1 DEF Authenticate, ProxyTypes
    <3> QED
      BY <3>1, <3>2 DEF RunComesLate, LinkIsOwn, SeenIsLinked
  <2>2. CASE Repeat(q)
    BY <2>2, <1>1 DEF Repeat
  <2> QED
    BY <1>3, <2>1, <2>2 DEF Asked
<1>4. ASSUME NEW q \in Requests, Usage(q)
      PROVE  Isolation'
  <2>1. CASE RunEnds(q)
    BY <2>1 DEF RunEnds, proxyVars, ProxyTypes, RunComesLate, LinkIsOwn, SeenIsLinked
  <2> QED
    BY <1>1, <1>4, <2>1 DEF Usage, BookRun, BookTokens
<1>5. ASSUME NEW q \in Requests, Handle(q)
      PROVE  Isolation'
  <2>1. RunComesLate'
    <3>1. CASE RuntimeAnswers(q)
      BY <3>1 DEF RuntimeAnswers, Goes, At, ProxyTypes, Handlers, RunComesLate
    <3>2. CASE ~RuntimeAnswers(q)
      <4>1. run' = run
        BY <1>5, <3>2 DEF Handle, CountInMemory, ReadMinute, CountInRedis, Access, CheckQuota,
                          Forward, LinkRun, Timeout, runtimeVars
      <4>2. req[q].at = "created" => req'[q].at = "answered"
        BY <1>5, <3>2 DEF Handle, CountInMemory, ReadMinute, CountInRedis, Access, CheckQuota,
                          Forward, LinkRun, Timeout, Goes, At, ProxyTypes, Handlers
      <4> QED
        BY <1>5, <4>1, <4>2, HandlerMoves DEF RunComesLate
    <3> QED
      BY <3>1, <3>2
  <2>2. LinkIsOwn'
    <3>1. CASE LinkRun(q)
      BY <3>1 DEF LinkRun, Goes, At, ProxyTypes, Handlers, LinkIsOwn
    <3>2. CASE ~LinkRun(q)
      <4>1. link' = link
        BY <1>5, <3>2 DEF Handle, CountInMemory, ReadMinute, CountInRedis, Access, CheckQuota,
                          Forward, RuntimeAnswers, Timeout
      <4> QED
        BY <1>5, <4>1, HandlerMoves DEF LinkIsOwn
    <3> QED
      BY <3>1, <3>2
  <2>3. SeenIsLinked'
    <3>1. CASE Access(q)
      BY <3>1 DEF Access, MayAccess, SeenIsLinked
    <3>2. CASE ~Access(q)
      <4>1. seen' = seen
        BY <1>5, <3>2 DEF Handle, CountInMemory, ReadMinute, CountInRedis, CheckQuota,
                          Forward, RuntimeAnswers, LinkRun, Timeout
      <4>2. \A r \in Requests : link[r] # None => link'[r] = link[r]
        <5>1. CASE LinkRun(q)
          BY <5>1 DEF LinkRun, At, ProxyTypes, LinkIsOwn
        <5> QED
          BY <1>5, <5>1 DEF Handle, CountInMemory, ReadMinute, CountInRedis, Access, CheckQuota,
                            Forward, RuntimeAnswers, Timeout
      <4> QED
        BY <4>1, <4>2, TenantAssumption DEF SeenIsLinked
    <3> QED
      BY <3>1, <3>2
  <2> QED
    BY <2>1, <2>2, <2>3
<1> QED
  BY <1>1, <1>2, <1>3, <1>4, <1>5, StepCases

LEMMA TypesInit ==
  ASSUME Init
  PROVE  TenantTypes /\ ProxyTypes /\ UsageTypes
<1> USE TenantAssumption, BoundsAssumption
<1>1. TenantTypes
  BY DEF Init, TenantTypes
<1>2. ProxyTypes
  <2> DEFINE someone == CHOOSE o \in Orgs : TRUE
  <2>1. someone \in Orgs
    OBVIOUS
  <2>2. req = [q \in Requests |-> [at |-> "none", org |-> someone, target |-> None,
                                  window |-> 0, space |-> None]]
    BY DEF Init
  <2> HIDE DEF someone
  <2>3. req \in [Requests -> Handlers]
    BY <2>1, <2>2 DEF Handlers, Places, Stopped
  <2>4. /\ link = [q \in Requests |-> None] /\ seen = {}
        /\ run = [q \in Requests |-> [status |-> "absent", tokens |-> 0]]
    BY DEF Init
  <2> QED
    BY <2>3, <2>4 DEF ProxyTypes, Runs
<1>3. UsageTypes
  BY DEF Init, UsageTypes, Letters, NoUsage
<1> QED
  BY <1>1, <1>2, <1>3

\* No request of one org gets to a run of another, however requests, timeouts,
\* restarts and late answers of the runtime follow each other.
THEOREM OrgsAreIsolated == Spec => []OnlyOwnRuns
<1>1. Init => TenantTypes /\ ProxyTypes /\ Isolation
  <2> SUFFICES ASSUME Init
               PROVE  Isolation
    BY TypesInit
  <2> QED
    BY DEF Init, Isolation, RunComesLate, LinkIsOwn, SeenIsLinked
<1>2. TenantTypes /\ ProxyTypes /\ Isolation /\ [Next]_vars
        => (TenantTypes /\ ProxyTypes /\ Isolation)'
  BY TenantTypesStep, ProxyTypesStep, IsolationStep
<1>3. ProxyTypes /\ Isolation => OnlyOwnRuns
  BY TenantAssumption DEF ProxyTypes, Isolation, LinkIsOwn, SeenIsLinked, OnlyOwnRuns
<1> QED
  BY <1>1, <1>2, <1>3, PTL DEF Spec

-----------------------------------------------------------------------------
(* Booking.                                                                 *)

\* No two orgs share a workspace of the runtime.
OwnWorkspaces == \A o, p \in Orgs : HomeId[o] = HomeId[p] => o = p

SpacesAreHomes == \A o \in Orgs, id \in Ids : <<o, id>> \in spaces => id = HomeId[o]

\* What is forwarded, and the run that comes of it, has a workspace of its org.
SentHasSpace ==
  \A q \in Requests :
    req[q].at \in {"sent", "created", "abandoned"} \/ run[q].status # "absent"
      => <<req[q].org, req[q].space>> \in spaces

OnlyCompletedIsBooked ==
  \A q \in Requests :
    /\ mail[q].at # "none" => run[q].status = "completed"
    /\ \A metric \in Metrics : usage[q][metric] # NoUsage => run[q].status = "completed"

\* The first booking decides whose the second one is.
HalfIsOwn ==
  \A q \in Requests : mail[q].at \in {"half", "done"} =>
    mail[q].org = req[q].org /\ usage[q]["agent_run"].org = req[q].org

Booking ==
  /\ SpacesAreHomes /\ SentHasSpace /\ OnlyCompletedIsBooked /\ HalfIsOwn /\ BookedOnItsOrg

LEMMA BookedOnOne ==
  ASSUME OwnWorkspaces, TenantTypes, ProxyTypes, SpacesAreHomes, SentHasSpace,
         NEW q \in Requests, run[q].status # "absent"
  PROVE  OrgsOfRun(q) = {req[q].org}
<1> DEFINE holders == {o \in orgs : <<o, req[q].space>> \in spaces}
<1>1. /\ <<req[q].org, req[q].space>> \in spaces
      /\ req[q].org \in orgs /\ req[q].space \in Ids /\ orgs \subseteq Orgs
  BY DEF SentHasSpace, TenantTypes
<1>2. \A o \in holders : o = req[q].org
  BY <1>1 DEF SpacesAreHomes, OwnWorkspaces
<1>3. holders = {req[q].org}
  BY <1>1, <1>2
<1> QED
  BY <1>3 DEF OrgsOfRun

LEMMA UsageTypesStep ==
  ASSUME TenantTypes, ProxyTypes, UsageTypes, [Next]_vars
  PROVE  UsageTypes'
<1> USE DEF UsageTypes, Letters
<1>1. CASE UNCHANGED usageVars
  BY <1>1 DEF usageVars
<1>2. CASE Restart
  BY <1>2 DEF Restart
<1>3. ASSUME NEW q \in Requests, Asked(q)
      PROVE  UsageTypes'
  BY <1>3, <1>1 DEF Asked, Authenticate, Repeat
<1>4. ASSUME NEW q \in Requests, Handle(q)
      PROVE  UsageTypes'
  BY <1>4, <1>1 DEF Handle, CountInMemory, ReadMinute, CountInRedis, Access, CheckQuota,
                    Forward, RuntimeAnswers, LinkRun, Timeout
<1>5. ASSUME NEW q \in Requests, NEW metric \in Metrics, NEW o \in Orgs \cup {None},
             NEW n \in 0 .. MaxTokens + 1, Record(q, metric, o, n)
      PROVE  usage' \in [Requests -> [Metrics -> [org : Orgs \cup {None},
                                                 quantity : 0 .. MaxTokens + 1, month : Months]]]
  <2> DEFINE row == [org |-> o, quantity |-> n, month |-> month]
             Row == [org : Orgs \cup {None}, quantity : 0 .. MaxTokens + 1, month : Months]
  <2>1. row \in Row
    BY DEF TenantTypes
  <2>2. usage' = usage \/ usage' = [usage EXCEPT ![q] = [usage[q] EXCEPT ![metric] = row]]
    BY <1>5 DEF Record
  <2>3. usage \in [Requests -> [Metrics -> Row]]
    OBVIOUS
  <2> HIDE DEF row, Row
  <2>4. usage' \in [Requests -> [Metrics -> Row]]
    <3> DEFINE account == [usage[q] EXCEPT ![metric] = row]
    <3>1. account \in [Metrics -> Row]
      BY <2>1, <2>3
    <3> HIDE DEF account
    <3> QED
      BY <2>2, <2>3, <3>1 DEF account
  <2> QED
    BY <2>4 DEF Row
<1>6. ASSUME NEW q \in Requests, Usage(q)
      PROVE  UsageTypes'
  <2>1. CASE RunEnds(q)
    BY <2>1 DEF RunEnds
  <2>2. CASE BookRun(q)
    <3>1. OrgsOfRun(q) \subseteq Orgs
      BY DEF OrgsOfRun, TenantTypes, ProxyTypes
    <3>2. PICK o \in Orgs : /\ Record(q, "agent_run", o, 1)
                            /\ mail' = [mail EXCEPT ![q] = [at |-> "half", org |-> o]]
      BY <2>2, <3>1 DEF BookRun
    <3>3. 1 \in 0 .. MaxTokens + 1
      BY BoundsAssumption
    <3> QED
      BY <1>5, <3>2, <3>3 DEF Metrics
  <2>3. CASE BookTokens(q)
    <3>1. run[q].tokens \in 0 .. MaxTokens + 1 /\ mail[q].org \in Orgs \cup {None}
      BY BoundsAssumption DEF ProxyTypes
    <3> QED
      BY <1>5, <2>3, <3>1 DEF BookTokens, Metrics
  <2> QED
    BY <1>6, <2>1, <2>2, <2>3 DEF Usage
<1> QED
  BY <1>1, <1>2, <1>3, <1>4, <1>6, StepCases

LEMMA RecordWrites ==
  ASSUME UsageTypes, NEW q \in Requests, NEW metric \in Metrics, NEW o, NEW n,
         Record(q, metric, o, n)
  PROVE  \A r \in Requests, other \in Metrics :
           usage'[r][other] =
             IF r = q /\ other = metric /\ usage[q][metric] = NoUsage /\ n # 0
             THEN [org |-> o, quantity |-> n, month |-> month] ELSE usage[r][other]
<1>1. usage \in [Requests -> [Metrics -> [org : Orgs \cup {None}, quantity : 0 .. MaxTokens + 1,
                                         month : Months]]]
  BY DEF UsageTypes
<1>2. CASE usage[q][metric] # NoUsage \/ n = 0
  BY <1>2 DEF Record
<1>3. CASE usage[q][metric] = NoUsage /\ n # 0
  <2> DEFINE row == [org |-> o, quantity |-> n, month |-> month]
  <2>1. usage' = [usage EXCEPT ![q] = [usage[q] EXCEPT ![metric] = row]]
    BY <1>3 DEF Record
  <2> HIDE DEF row
  <2>2. \A r \in Requests, other \in Metrics :
          usage'[r][other] = IF r = q /\ other = metric THEN row ELSE usage[r][other]
    BY <1>1, <2>1
  <2> QED
    BY <1>3, <2>2 DEF row
<1> QED
  BY <1>2, <1>3

\* A booking of an org's own run, on top of what is booked already.
LEMMA BooksOwn ==
  ASSUME ProxyTypes, UsageTypes, OnlyCompletedIsBooked, BookedOnItsOrg,
         UNCHANGED <<req, run>>,
         NEW q \in Requests, NEW metric \in Metrics, run[q].status = "completed",
         metric = "agent_run" \/ usage[q]["agent_run"].org = req[q].org,
         Record(q, metric, req[q].org, IF metric = "agent_run" THEN 1 ELSE run[q].tokens)
  PROVE  /\ BookedOnItsOrg'
         /\ \A r \in Requests, other \in Metrics :
              usage'[r][other] # NoUsage => run[r].status = "completed"
         /\ \A r \in Requests :
              usage[r]["agent_run"].org = req[r].org => usage'[r]["agent_run"].org = req[r].org
         /\ metric = "agent_run" => usage'[q]["agent_run"].org = req[q].org
<1> DEFINE n == IF metric = "agent_run" THEN 1 ELSE run[q].tokens
           row == [org |-> req[q].org, quantity |-> n, month |-> month]
           new == usage[q][metric] = NoUsage /\ n # 0
<1>1. \A r \in Requests, other \in Metrics :
        usage'[r][other] = IF r = q /\ other = metric /\ new THEN row ELSE usage[r][other]
  BY RecordWrites
<1>2. row.org = req[q].org /\ row.quantity = n
  OBVIOUS
<1>3. "agent_run" \in Metrics
  BY DEF Metrics
<1>4. \A r \in Requests, other \in Metrics :
        usage'[r][other] # NoUsage => run[r].status = "completed"
  <2> HIDE DEF new, row
  <2> QED
    BY <1>1 DEF OnlyCompletedIsBooked
<1>5. NoUsage.org = None /\ (metric = "agent_run" => n # 0) /\ None # req[q].org
  BY TenantAssumption DEF NoUsage, ProxyTypes, Handlers
<1>6. metric = "agent_run" => usage'[q]["agent_run"].org = req[q].org
  BY <1>1, <1>2, <1>3, <1>5 DEF BookedOnItsOrg
<1>7. \A r \in Requests :
        usage[r]["agent_run"].org = req[r].org => usage'[r]["agent_run"].org = req[r].org
  <2> HIDE DEF new, row
  <2> QED
    BY <1>1, <1>2, <1>3
<1>8. BookedOnItsOrg'
  <2> SUFFICES ASSUME NEW r \in Requests, NEW other \in Metrics, usage'[r][other] # NoUsage
               PROVE  /\ usage'[r][other].org = req[r].org
                      /\ usage'[r][other].quantity =
                           IF other = "agent_run" THEN 1 ELSE run[r].tokens
                      /\ usage'[r]["agent_run"].org = req[r].org
    BY DEF BookedOnItsOrg
  <2>1. CASE r = q /\ other = metric /\ new
    BY <1>1, <1>2, <1>6, <1>7, <2>1
  <2>2. CASE ~(r = q /\ other = metric /\ new)
    <3>1. usage'[r][other] = usage[r][other]
      BY <1>1, <2>2
    <3> QED
      BY <1>7, <3>1 DEF BookedOnItsOrg
  <2> QED
    BY <2>1, <2>2
<1> QED
  BY <1>4, <1>6, <1>7, <1>8

LEMMA SpacesStep ==
  ASSUME SpacesAreHomes, [Next]_vars
  PROVE  SpacesAreHomes' /\ spaces \subseteq spaces'
<1>1. CASE UNCHANGED spaces
  BY <1>1 DEF SpacesAreHomes
<1>2. ASSUME NEW o \in Orgs, CreateOrg(o) \/ CreateApiKey(o) \/ CreateWorkspace(o)
      PROVE  SpacesAreHomes' /\ spaces \subseteq spaces'
  BY <1>2 DEF CreateOrg, CreateApiKey, CreateWorkspace, SpacesAreHomes
<1> QED
  BY <1>1, <1>2, StepCases DEF Administer, tenantVars

\* Booking, except where requests and runs move.
LEMMA BookingKept ==
  ASSUME Booking, [Next]_vars, UNCHANGED usage,
         \A q \in Requests :
           /\ req[q].at \notin {"none", "checked"}
                => req'[q].org = req[q].org /\ req'[q].space = req[q].space
           /\ req'[q].at \in {"sent", "created", "abandoned"} \/ run'[q].status # "absent"
                => \/ req[q].at \in {"sent", "created", "abandoned"} \/ run[q].status # "absent"
                   \/ <<req'[q].org, req'[q].space>> \in spaces
           /\ run[q].status = "completed" => run'[q] = run[q]
           /\ \/ mail'[q] = mail[q]
              \/ mail'[q].at \in {"sent", "lost"} /\ run'[q].status = "completed",
         \A q \in Requests :
           /\ run[q].status # "absent" => req[q].at \notin {"none", "checked"}
           /\ mail[q].at # "none" => run[q].status = "completed"
  PROVE  Booking'
<1> USE DEF Booking
<1>1. SpacesAreHomes'
  BY SpacesStep
<1>2. SentHasSpace'
  BY SpacesStep DEF SentHasSpace
<1>3. OnlyCompletedIsBooked'
  BY DEF OnlyCompletedIsBooked
<1>4. HalfIsOwn'
  BY DEF HalfIsOwn
<1>5. BookedOnItsOrg'
  <2> SUFFICES ASSUME NEW q \in Requests, NEW metric \in Metrics, usage[q][metric] # NoUsage
               PROVE  /\ usage[q][metric].org = req'[q].org
                      /\ usage[q][metric].quantity =
                           IF metric = "agent_run" THEN 1 ELSE run'[q].tokens
                      /\ usage[q]["agent_run"].org = req'[q].org
    BY DEF BookedOnItsOrg
  <2>1. run[q].status = "completed"
    BY DEF OnlyCompletedIsBooked
  <2>2. run'[q] = run[q] /\ req'[q].org = req[q].org
    BY <2>1
  <2> QED
    BY <2>2 DEF BookedOnItsOrg
<1> QED
  BY <1>1, <1>2, <1>3, <1>4, <1>5

\* The webhook of one run is posted.
LEMMA Posted ==
  ASSUME UsageTypes, NEW q \in Requests, mail' = [mail EXCEPT ![q].at = "sent"]
  PROVE  mail'[q].at = "sent" /\ \A r \in Requests : r # q => mail'[r] = mail[r]
<1>1. mail' = [mail EXCEPT ![q] = [mail[q] EXCEPT !.at = "sent"]]
  OBVIOUS
<1>2. mail'[q] = [mail[q] EXCEPT !.at = "sent"]
  BY <1>1 DEF UsageTypes
<1>3. mail[q] \in [at : Letters, org : Orgs \cup {None}]
  BY DEF UsageTypes
<1> QED
  BY <1>1, <1>2, <1>3 DEF UsageTypes

LEMMA BookingStep ==
  ASSUME OwnWorkspaces, TenantTypes, ProxyTypes, UsageTypes, RunComesLate, Booking, [Next]_vars
  PROVE  Booking'
<1>1. \A q \in Requests :
        /\ run[q].status # "absent" => req[q].at \notin {"none", "checked"}
        /\ mail[q].at # "none" => run[q].status = "completed"
  BY DEF RunComesLate, Booking, OnlyCompletedIsBooked
<1>2. CASE UNCHANGED <<proxyVars, runtimeVars, usageVars>>
  BY <1>1, <1>2, BookingKept DEF proxyVars, runtimeVars, usageVars
<1>3. CASE Restart
  <2>1. \A q \in Requests :
          /\ req'[q].org = req[q].org /\ req'[q].space = req[q].space
          /\ req'[q].at \in {"sent", "created", "abandoned"}
               => req[q].at \in {"sent", "created", "abandoned"}
    BY <1>3 DEF Restart, Stopped, ProxyTypes, Handlers
  <2>2. \A q \in Requests :
          \/ mail'[q] = mail[q]
          \/ mail'[q].at = "lost" /\ mail[q].at = "half"
    BY <1>3 DEF Restart, UsageTypes
  <2>3. UNCHANGED <<usage, run>>
    BY <1>3 DEF Restart, runtimeVars
  <2> QED
    BY <1>1, <2>1, <2>2, <2>3, BookingKept
<1>4. ASSUME NEW q \in Requests, Asked(q)
      PROVE  Booking'
  <2>1. ASSUME NEW o \in Orgs, NEW target, Authenticate(q, o, target)
        PROVE  Booking'
    <3>1. UNCHANGED <<run, mail, usage>> /\ req[q].at = "none" /\ req'[q].at = "authenticated"
      BY <2>1 DEF Authenticate, At, runtimeVars, usageVars, ProxyTypes, Handlers
    <3>2. \A r \in Requests : r # q => req'[r] = req[r]
      BY <2>1 DEF Authenticate, ProxyTypes
    <3> QED
      BY <1>1, <3>1, <3>2, BookingKept
  <2>2. CASE Repeat(q)
    <3>1. UNCHANGED <<req, run, usage>>
      BY <2>2 DEF Repeat, proxyVars, runtimeVars
    <3>2. mail'[q].at = "sent" /\ \A r \in Requests : r # q => mail'[r] = mail[r]
      BY <2>2, Posted DEF Repeat
    <3>3. run[q].status = "completed"
      BY <1>1, <2>2 DEF Repeat
    <3> QED
      BY <1>1, <3>1, <3>2, <3>3, BookingKept
  <2> QED
    BY <1>4, <2>1, <2>2 DEF Asked
<1>5. ASSUME NEW q \in Requests, Handle(q)
      PROVE  Booking'
  <2>1. UNCHANGED usageVars
    BY <1>5 DEF Handle, CountInMemory, ReadMinute, CountInRedis, Access, CheckQuota,
                Forward, RuntimeAnswers, LinkRun, Timeout
  <2>2. CASE Forward(q)
    <3>1. /\ req[q].at = "checked" /\ run' = run
          /\ \A r \in Requests : r # q => req'[r] = req[r]
      BY <2>2 DEF Forward, Goes, At, runtimeVars, ProxyTypes
    <3>2. \/ req'[q].at = "answered"
          \/ <<req'[q].org, req'[q].space>> \in spaces
      BY <2>2 DEF Forward, Goes, Workspaces, ProxyTypes, Handlers
    <3>3. run[q].status = "absent"
      BY <1>1, <3>1
    <3> QED
      BY <1>1, <2>1, <3>1, <3>2, <3>3, BookingKept DEF usageVars
  <2>3. CASE ~Forward(q)
    <3>1. \A r \in Requests : req'[r].org = req[r].org /\ req'[r].space = req[r].space
      BY <1>5, <2>3, HandlerMoves
    <3>2. \A r \in Requests :
            /\ req'[r].at \in {"sent", "created", "abandoned"}
                 => req[r].at \in {"sent", "created", "abandoned"}
            /\ run'[r] = run[r] \/ req[r].at \in {"sent", "created", "abandoned"}
      <4>1. CASE Access(q)
        <5>1. run' = run /\ req' = [req EXCEPT ![q].at = "answered"]
          BY <4>1 DEF Access, Goes
        <5>2. \A r \in Requests : req'[r].at = "answered" \/ req'[r] = req[r]
          BY <5>1 DEF ProxyTypes, Handlers
        <5> QED
          BY <5>1, <5>2
      <4>2. CASE CountInMemory(q) \/ ReadMinute(q) \/ CountInRedis(q) \/ CheckQuota(q)
        BY <4>2 DEF CountInMemory, ReadMinute, CountInRedis, CheckQuota, Goes, At, runtimeVars,
                    ProxyTypes, Handlers
      <4>3. CASE RuntimeAnswers(q) \/ LinkRun(q) \/ Timeout(q)
        BY <4>3 DEF RuntimeAnswers, LinkRun, Timeout, Goes, At, runtimeVars, ProxyTypes, Handlers
      <4> QED
        BY <1>5, <2>3, <4>1, <4>2, <4>3 DEF Handle
    <3>3. \A r \in Requests : run[r].status = "completed" => run'[r] = run[r]
      <4>1. CASE RuntimeAnswers(q)
        BY <4>1 DEF RuntimeAnswers, RunComesLate, ProxyTypes
      <4>2. CASE ~RuntimeAnswers(q)
        BY <1>5, <2>3, <4>2 DEF Handle, CountInMemory, ReadMinute, CountInRedis, Access,
                                CheckQuota, LinkRun, Timeout, runtimeVars
      <4> QED
        BY <4>1, <4>2
    <3> QED
      BY <1>1, <2>1, <3>1, <3>2, <3>3, BookingKept DEF usageVars
  <2> QED
    BY <2>2, <2>3
<1>6. ASSUME NEW q \in Requests, RunEnds(q)
      PROVE  Booking'
  <2>1. UNCHANGED <<req, usage>> /\ run[q].status = "active"
    BY <1>6 DEF RunEnds, proxyVars
  <2>2. \A r \in Requests : r # q => run'[r] = run[r] /\ mail'[r] = mail[r]
    BY <1>6, Posted DEF RunEnds, ProxyTypes
  <2>3. mail'[q] = mail[q] \/ (mail'[q].at = "sent" /\ run'[q].status = "completed")
    <3>1. CASE mail' = mail
      BY <3>1
    <3>2. ASSUME NEW tokens \in 0 .. MaxTokens, mail' = [mail EXCEPT ![q].at = "sent"],
                 run' = [run EXCEPT ![q].status = "completed", ![q].tokens = tokens]
          PROVE  mail'[q].at = "sent" /\ run'[q].status = "completed"
      <4>1. run' = [run EXCEPT ![q] = [run[q] EXCEPT !.status = "completed", !.tokens = tokens]]
        BY <3>2
      <4>2. run'[q].status = "completed"
        BY <4>1 DEF ProxyTypes
      <4> QED
        BY <3>2, <4>2, Posted
    <3> QED
      BY <1>6, <3>1, <3>2 DEF RunEnds
  <2> QED
    BY <1>1, <2>1, <2>2, <2>3, BookingKept
<1>7. ASSUME NEW q \in Requests, NEW metric \in Metrics,
             /\ mail[q].at # "none"
             /\ metric = "agent_run" \/ usage[q]["agent_run"].org = req[q].org
             /\ Record(q, metric, req[q].org, IF metric = "agent_run" THEN 1 ELSE run[q].tokens)
             /\ UNCHANGED <<proxyVars, runtimeVars>>
             /\ mail'[q].at \in {"half", "done"} /\ mail'[q].org = req[q].org
             /\ \A r \in Requests : r # q => mail'[r] = mail[r]
      PROVE  Booking'
  <2>1. run[q].status = "completed" /\ UNCHANGED <<req, run>>
    BY <1>1, <1>7 DEF proxyVars, runtimeVars
  <2>2. /\ BookedOnItsOrg'
        /\ \A r \in Requests, other \in Metrics :
             usage'[r][other] # NoUsage => run[r].status = "completed"
        /\ \A r \in Requests :
             usage[r]["agent_run"].org = req[r].org => usage'[r]["agent_run"].org = req[r].org
        /\ metric = "agent_run" => usage'[q]["agent_run"].org = req[q].org
    BY <1>7, <2>1, BooksOwn DEF Booking
  <2>3. SpacesAreHomes' /\ SentHasSpace'
    BY <2>1, SpacesStep DEF Booking, SentHasSpace
  <2>4. OnlyCompletedIsBooked'
    BY <1>1, <1>7, <2>1, <2>2 DEF OnlyCompletedIsBooked
  <2>5. HalfIsOwn'
    BY <1>7, <2>1, <2>2 DEF HalfIsOwn, Booking
  <2> QED
    BY <2>2, <2>3, <2>4, <2>5 DEF Booking
<1>8. ASSUME NEW q \in Requests, BookRun(q)
      PROVE  Booking'
  <2>1. run[q].status # "absent" /\ mail[q].at = "sent"
    BY <1>1, <1>8 DEF BookRun
  <2>2. OrgsOfRun(q) = {req[q].org}
    BY <2>1, BookedOnOne DEF Booking
  <2>3. /\ Record(q, "agent_run", req[q].org, 1)
        /\ mail' = [mail EXCEPT ![q] = [at |-> "half", org |-> req[q].org]]
    BY <1>8, <2>2 DEF BookRun
  <2> QED
    BY <1>7, <1>8, <2>1, <2>3 DEF BookRun, Metrics, UsageTypes
<1>9. ASSUME NEW q \in Requests, BookTokens(q)
      PROVE  Booking'
  <2>1. /\ mail[q].at = "half" /\ mail[q].org = req[q].org
        /\ usage[q]["agent_run"].org = req[q].org
    BY <1>9 DEF BookTokens, Booking, HalfIsOwn
  <2>2. /\ mail'[q].at = "done" /\ mail'[q].org = mail[q].org
        /\ \A r \in Requests : r # q => mail'[r] = mail[r]
    BY <1>9 DEF BookTokens, UsageTypes
  <2> QED
    BY <1>7, <1>9, <2>1, <2>2 DEF BookTokens, Metrics
<1> QED
  BY <1>2, <1>3, <1>4, <1>5, <1>6, <1>8, <1>9, StepCases DEF Usage

BookingInv == TenantTypes /\ ProxyTypes /\ UsageTypes /\ Isolation /\ Booking

LEMMA BookingInvariant ==
  ASSUME OwnWorkspaces
  PROVE  Spec => []BookingInv
<1>1. Init => BookingInv
  <2> SUFFICES ASSUME Init
               PROVE  Isolation /\ Booking
    BY TypesInit DEF BookingInv
  <2>1. Isolation
    BY DEF Init, Isolation, RunComesLate, LinkIsOwn, SeenIsLinked
  <2>2. SpacesAreHomes
    BY TenantAssumption DEF Init, SpacesAreHomes
  <2>3. SentHasSpace
    BY DEF Init, SentHasSpace
  <2>4. OnlyCompletedIsBooked /\ HalfIsOwn
    BY DEF Init, OnlyCompletedIsBooked, HalfIsOwn
  <2>5. BookedOnItsOrg
    BY DEF Init, BookedOnItsOrg
  <2> QED
    BY <2>1, <2>2, <2>3, <2>4, <2>5 DEF Booking
<1>2. BookingInv /\ [Next]_vars => BookingInv'
  BY TenantTypesStep, ProxyTypesStep, UsageTypesStep, IsolationStep, BookingStep
     DEF Isolation, BookingInv
<1> QED
  BY <1>1, <1>2, PTL DEF Spec

\* If no two orgs share a workspace, what a run used is booked on the org that
\* asked for it, once and as reported, whatever is lost, repeated or restarted.
THEOREM UsageIsBookedRight ==
  ASSUME OwnWorkspaces
  PROVE  Spec => []BookedOnItsOrg
<1>1. BookingInv => BookedOnItsOrg
  BY DEF BookingInv, Booking
<1> QED
  BY <1>1, BookingInvariant, PTL

-----------------------------------------------------------------------------
(* Types.                                                                   *)

WatchTypes == ceiling \in [Orgs -> Nat] /\ peak \in [Orgs -> Nat] /\ inputs \in 0 .. MaxInputs

\* Only these steps move what the billing keeps.
LEMMA WhoBills ==
  ASSUME [Next]_vars
  PROVE  UNCHANGED billingVars \/ BillingInput \/ Webhook \/ \E v \in Visits : StoreCustomer(v)
<1>1. CASE UNCHANGED vars
  BY <1>1 DEF vars
<1>2. CASE Input
  BY <1>2 DEF Input
<1>3. CASE Work
  BY <1>3 DEF Work
<1> QED
  BY <1>1, <1>2, <1>3 DEF Next

\* Stripe's events are about visits, and a plan and a status they have.
LEMMA TellsEvents ==
  ASSUME outbox \in Seq(Events), visit' \in [Visits -> [stage : Stages, org : Orgs, plan : Plans,
                                              customer : Visits \cup {None}, status : Statuses]],
         NEW v \in Visits,
         NEW kinds \in Seq({"checkout", "subscription", "deleted", "payment_failed"}),
         Tells(v, kinds)
  PROVE  outbox' \in Seq(Events)
<1>1. \A kind \in {"checkout", "subscription", "deleted", "payment_failed"} :
        Event(kind, v) \in Events
  BY DEF Event, Events
<1>2. Len(kinds) \in Nat /\ \A i \in 1 .. Len(kinds) :
        kinds[i] \in {"checkout", "subscription", "deleted", "payment_failed"}
  OBVIOUS
<1> DEFINE forth == [i \in 1 .. Len(kinds) |-> Event(kinds[i], v)]
           back == [i \in 1 .. Len(kinds) |-> Event(kinds[Len(kinds) + 1 - i], v)]
<1>3. \A i \in 1 .. Len(kinds) : Event(kinds[i], v) \in Events
  BY <1>1, <1>2
<1>4. \A i \in 1 .. Len(kinds) : Event(kinds[Len(kinds) + 1 - i], v) \in Events
  <2>1. \A i \in 1 .. Len(kinds) : Len(kinds) + 1 - i \in 1 .. Len(kinds)
    BY <1>2
  <2> QED
    BY <1>3, <2>1
<1>5. forth \in Seq(Events) /\ back \in Seq(Events)
  BY <1>2, <1>3, <1>4
<1>6. outbox' = outbox \o forth \/ outbox' = outbox \o back
  BY DEF Tells
<1> HIDE DEF forth, back
<1>7. outbox \o forth \in Seq(Events)
  BY <1>5, ConcatProperties
<1>8. outbox \o back \in Seq(Events)
  BY <1>5, ConcatProperties
<1> QED
  BY ONLY <1>6, <1>7, <1>8

LEMMA BillingTypesStep ==
  ASSUME BillingTypeOK, [Next]_vars
  PROVE  BillingTypeOK'
<1> DEFINE Checkout == [stage : Stages, org : Orgs, plan : Plans,
                        customer : Visits \cup {None}, status : Statuses]
<1> USE DEF BillingTypeOK
<1>1. CASE UNCHANGED billingVars
  BY <1>1 DEF billingVars
<1>2. ASSUME NEW v \in Visits, StoreCustomer(v)
      PROVE  BillingTypeOK'
  <2>1. customer' \in [Orgs -> Visits \cup {None}]
    BY <1>2 DEF StoreCustomer
  <2>2. visit' \in [Visits -> Checkout]
    <3> DEFINE new == [visit[v] EXCEPT !.stage = "open"]
    <3>1. new \in Checkout /\ visit' = [visit EXCEPT ![v] = new]
      BY <1>2 DEF StoreCustomer, Stages
    <3> HIDE DEF new
    <3> QED
      BY <3>1
  <2> QED
    BY <1>2, <2>1, <2>2 DEF StoreCustomer
<1>3. ASSUME NEW v \in Visits, NEW o \in Orgs, NEW plan \in Plans, StartCheckout(v, o, plan)
      PROVE  BillingTypeOK'
  <2> DEFINE new == [stage |-> IF customer[o] = None THEN "made" ELSE "open", org |-> o, plan |-> plan,
                     customer |-> IF customer[o] = None THEN v ELSE customer[o], status |-> "none"]
  <2>1. new \in Checkout /\ visit' = [visit EXCEPT ![v] = new]
    BY <1>3 DEF StartCheckout, Stages, Statuses
  <2> HIDE DEF new
  <2>2. visit' \in [Visits -> Checkout]
    BY <2>1
  <2> QED
    BY <1>3, <2>2 DEF StartCheckout
<1>4. ASSUME NEW v \in Visits, Pay(v)
      PROVE  BillingTypeOK'
  <2> DEFINE new == [visit[v] EXCEPT !.status = "active"]
  <2>1. new \in Checkout /\ visit' = [visit EXCEPT ![v] = new]
    BY <1>4 DEF Pay, Statuses
  <2> HIDE DEF new
  <2>2. visit' \in [Visits -> Checkout]
    BY <2>1
  <2>3. outbox' \in Seq(Events)
    <3>1. <<"checkout", "subscription">> \in Seq({"checkout", "subscription", "deleted", "payment_failed"})
      OBVIOUS
    <3>2. Tells(v, <<"checkout", "subscription">>)
      BY <1>4 DEF Pay
    <3> QED
      BY <2>2, <3>1, <3>2, TellsEvents
  <2>4. tidy' \in [Orgs -> BOOLEAN]
    BY <1>4 DEF Pay
  <2> QED
    BY <1>4, <2>2, <2>3, <2>4 DEF Pay
<1>5. ASSUME NEW v \in Visits, NEW from, NEW to \in Statuses, NEW plan \in Plans,
             NEW kinds \in Seq({"checkout", "subscription", "deleted", "payment_failed"}),
             Changes(v, from, to, plan, kinds)
      PROVE  BillingTypeOK'
  <2> DEFINE new == [visit[v] EXCEPT !.status = to, !.plan = plan]
  <2>1. new \in Checkout /\ visit' = [visit EXCEPT ![v] = new]
    BY <1>5 DEF Changes
  <2> HIDE DEF new
  <2>2. visit' \in [Visits -> Checkout]
    BY <2>1
  <2>3. outbox' \in Seq(Events)
    BY <1>5, <2>2, TellsEvents DEF Changes
  <2> QED
    BY <1>5, <2>2, <2>3 DEF Changes
<1>6. ASSUME NEW v \in Visits, SubscriptionChanges(v)
      PROVE  BillingTypeOK'
  <2>1. visit[v].plan \in Plans
    OBVIOUS
  <2>2. /\ <<"subscription">> \in Seq({"checkout", "subscription", "deleted", "payment_failed"})
        /\ <<"deleted">> \in Seq({"checkout", "subscription", "deleted", "payment_failed"})
        /\ <<"payment_failed", "subscription">>
             \in Seq({"checkout", "subscription", "deleted", "payment_failed"})
    OBVIOUS
  <2>3. "active" \in Statuses /\ "past_due" \in Statuses /\ "canceled" \in Statuses
    BY DEF Statuses
  <2>4. ASSUME NEW plan \in Plans, Changes(v, {"active"}, "active", plan, <<"subscription">>)
        PROVE  BillingTypeOK'
    BY <1>5, <2>2, <2>3, <2>4
  <2>5. CASE Changes(v, {"active"}, "past_due", visit[v].plan, <<"payment_failed", "subscription">>)
    BY <1>5, <2>1, <2>2, <2>3, <2>5
  <2>6. CASE Changes(v, {"past_due"}, "active", visit[v].plan, <<"subscription">>)
    BY <1>5, <2>1, <2>2, <2>3, <2>6
  <2>7. CASE Changes(v, {"active", "past_due"}, "canceled", visit[v].plan, <<"deleted">>)
    BY <1>5, <2>1, <2>2, <2>3, <2>7
  <2> QED
    BY <1>6, <2>4, <2>5, <2>6, <2>7 DEF SubscriptionChanges
<1>7. ASSUME NEW i \in 1 .. Len(outbox),
             HandleEvent(i) \/ HandleUnacknowledged(i) \/ HandleHalf(i)
      PROVE  BillingTypeOK'
  <2>1. outbox[i] \in Events
    OBVIOUS
  <2>2. tier' \in [Orgs -> Tiers]
    <3>1. tier' = [o \in Orgs |-> IF o \in OrgsOf(outbox[i]) THEN NewTier(outbox[i], tier[o])
                                  ELSE tier[o]]
      BY <1>7 DEF HandleEvent, HandleUnacknowledged, HandleHalf, WriteTier
    <3>2. \A o \in Orgs : NewTier(outbox[i], tier[o]) \in Tiers
      BY <2>1 DEF NewTier, Events, Tiers
    <3> QED
      BY <3>1, <3>2
  <2>3. subRow' \in [Orgs -> [status : Statuses \cup {"inactive"}, plan : Plans]]
    <3>1. CASE subRow' = subRow
      BY <3>1
    <3>2. CASE WriteRow(outbox[i])
      BY <2>1, <3>2 DEF WriteRow, Events
    <3> QED
      BY <1>7, <3>1, <3>2 DEF HandleEvent, HandleUnacknowledged, HandleHalf
  <2>4. outbox' \in Seq(Events)
    <3>1. /\ SubSeq(outbox, 1, i - 1) \in Seq(Events)
          /\ SubSeq(outbox, i + 1, Len(outbox)) \in Seq(Events)
      OBVIOUS
    <3>2. SubSeq(outbox, 1, i - 1) \o SubSeq(outbox, i + 1, Len(outbox)) \in Seq(Events)
      BY <3>1, ConcatProperties
    <3>3. \/ outbox' = SubSeq(outbox, 1, i - 1) \o SubSeq(outbox, i + 1, Len(outbox))
          \/ outbox' = outbox
      BY <1>7 DEF HandleEvent, HandleUnacknowledged, HandleHalf
    <3> QED
      BY <3>2, <3>3
  <2>5. tidy' \in [Orgs -> BOOLEAN]
    <3>1. Remember(i)
      BY <1>7 DEF HandleEvent, HandleUnacknowledged, HandleHalf
    <3> QED
      BY <3>1 DEF Remember
  <2> QED
    BY <1>7, <2>2, <2>3, <2>4, <2>5 DEF HandleEvent, HandleUnacknowledged, HandleHalf
<1> QED
  BY <1>1, <1>2, <1>3, <1>4, <1>6, <1>7, WhoBills DEF BillingInput, Webhook

LEMMA WatchTypesStep ==
  ASSUME WatchTypes, BillingTypeOK', [Next]_vars
  PROVE  WatchTypes'
<1> USE DEF WatchTypes
<1>1. CASE UNCHANGED vars
  BY <1>1 DEF vars, watchVars
<1>2. CASE Next
  <2>1. inputs' \in 0 .. MaxInputs
    <3>1. ASSUME NEW n \in {0, 3, 4}, Costs(n)
          PROVE  inputs' \in 0 .. MaxInputs
      BY <3>1, BoundsAssumption DEF Costs
    <3>2. UNCHANGED inputs \/ Costs(0) \/ Costs(3) \/ Costs(4)
      BY <1>2 DEF Next, Input, Work
    <3> QED
      BY <3>1, <3>2
  <2>2. Watch
    BY <1>2 DEF Next
  <2>3. ceiling' \in [Orgs -> Nat]
    <3>1. \A o \in Orgs : TierLimit[tier'[o]]["agent_run"] \in Nat
      BY TierAssumption DEF BillingTypeOK, Metrics
    <3> DEFINE limit(o) == TierLimit[tier'[o]]["agent_run"]
    <3>2. ceiling' = [o \in Orgs |-> IF month' # month \/ limit(o) > ceiling[o] THEN limit(o)
                                     ELSE ceiling[o]]
      BY <2>2 DEF Watch
    <3> HIDE DEF limit
    <3> QED
      BY <3>1, <3>2 DEF limit
  <2>4. peak' \in [Orgs -> Nat]
    <3>1. \A o \in Orgs : Cardinality(InFlight(o)') \in Nat
      <4>1. \A o \in Orgs : InFlight(o)' \subseteq Requests
        BY DEF InFlight
      <4> QED
        BY <4>1, BoundsAssumption, FS_Subset, FS_CardinalityType
    <3> DEFINE flight(o) == Cardinality(InFlight(o)')
    <3>2. peak' = [o \in Orgs |-> IF month' # month \/ flight(o) > peak[o] THEN flight(o)
                                  ELSE peak[o]]
      BY <2>2 DEF Watch
    <3> HIDE DEF flight
    <3>3. \A o \in Orgs : flight(o) \in Nat
      BY <3>1 DEF flight
    <3> QED
      BY <3>2, <3>3
  <2> QED
    BY <2>1, <2>3, <2>4
<1> QED
  BY <1>1, <1>2

\* Every variable of the gateway, its limiters and its billing keeps its type.
THEOREM TypeCorrect == Spec => []TypeOK
<1> DEFINE Inv == /\ TenantTypes /\ ProxyTypes /\ UsageTypes /\ BillingTypeOK /\ WatchTypes
                  /\ GatewayRates /\ RuntimeRates
<1>1. Init => Inv
  <2> SUFFICES ASSUME Init
               PROVE  BillingTypeOK /\ WatchTypes
    BY TypesInit, RatesInit
  <2>1. BillingTypeOK
    <3> DEFINE someone == CHOOSE o \in Orgs : TRUE
    <3>1. someone \in Orgs
      BY TenantAssumption
    <3>2. BillingInit
      BY DEF Init
    <3>3. visit = [v \in Visits |-> [stage |-> "unused", org |-> someone, plan |-> "pro",
                                     customer |-> None, status |-> "none"]]
      BY <3>2 DEF BillingInit
    <3> HIDE DEF someone
    <3>4. visit \in [Visits -> [stage : Stages, org : Orgs, plan : Plans,
                                customer : Visits \cup {None}, status : Statuses]]
      BY <3>1, <3>3 DEF Stages, Plans, Statuses
    <3>5. /\ tier \in [Orgs -> Tiers] /\ customer \in [Orgs -> Visits \cup {None}]
          /\ subRow \in [Orgs -> [status : Statuses \cup {"inactive"}, plan : Plans]]
          /\ tidy \in [Orgs -> BOOLEAN]
      BY <3>2 DEF BillingInit, Plans, Tiers, Statuses
    <3>6. outbox \in Seq(Events)
      BY <3>2 DEF BillingInit
    <3> QED
      BY <3>4, <3>5, <3>6 DEF BillingTypeOK
  <2>2. WatchTypes
    BY TierAssumption, BoundsAssumption DEF Init, WatchTypes, Tiers, Metrics
  <2> QED
    BY <2>1, <2>2
<1>2. Inv /\ [Next]_vars => Inv'
  BY TenantTypesStep, ProxyTypesStep, UsageTypesStep, BillingTypesStep, WatchTypesStep,
     GatewayRatesStep, RuntimeRatesStep
<1>3. Inv => TypeOK
  BY DEF TypeOK, TenantTypes, ProxyTypes, UsageTypes, WatchTypes, GatewayRates, RuntimeRates,
         LimitTypeOK, Service!LimitTypeOK, Handlers
<1> QED
  BY <1>1, <1>2, <1>3, PTL DEF Spec
=============================================================================
