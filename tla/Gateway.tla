------------------------------- MODULE Gateway -------------------------------
(***************************************************************************)
(* The gateway: it sells access to the runtime.                            *)
(*                                                                         *)
(* A request is authenticated, counted by the rate limiter and, when it    *)
(* creates a run, checked against the quota of the org's tier; then it is  *)
(* forwarded to the runtime and the new run is linked to the org.  When a  *)
(* run completes the runtime posts its usage to the gateway, which books   *)
(* it on the org.  Quota and usage thus meet only in the database, long    *)
(* after the check.  Tier and subscription are Billing's, the limiter is   *)
(* RateLimit's; the gateway is one process, which may be restarted.        *)
(***************************************************************************)
EXTENDS Billing, RateLimit, FiniteSets

CONSTANTS
  Requests,      \* requests; a run is named by the request that creates it
  Founders,      \* the orgs that have a key and a workspace from the start
  Ids,           \* ids of runtime workspaces
  HomeId,        \* the workspace id of each org
  TierLimit,     \* TIER_LIMITS: by tier and metric
  RuntimeLimit,  \* rate_limit_per_minute of the runtime
  MaxTokens,     \* bound: output tokens of a run
  MaxInputs,     \* bound: inputs from outside, by their cost
  Months         \* bound: months of a behaviour

Metrics == {"agent_run", "llm_tokens_out"}

ASSUME TenantAssumption ==
  /\ Principals = Orgs /\ Founders \subseteq Orgs
  /\ Orgs # {} /\ None \notin Orgs
  /\ HomeId \in [Orgs -> Ids]
ASSUME RuntimeAssumption == RuntimeLimit \in Nat
ASSUME BoundsAssumption ==
  /\ 0 \in Windows /\ 0 \in Months
  /\ MaxTokens \in Nat /\ MaxInputs \in Nat
  /\ IsFiniteSet(Requests)
ASSUME TierAssumption == TierLimit \in [Tiers -> [Metrics -> Nat \ {0}]]

VARIABLES
  orgs, keyed, spaces,   \* rows: orgs, active API keys by org, workspaces
  minute, month,         \* the clock
  req,                   \* each request and where its handler is
  link,                  \* run_links: the org of a run
  run,                   \* the run in the runtime
  serviceCount,          \* the runtime's limiter, by its only client and minute
  servicePassed,
  mail,                  \* the usage webhook of a run
  usage,                 \* usage_events, unique by run and metric
  seen,                  \* history: runs an org was let through to
  ceiling, peak,         \* history: see UsageWithinQuota
  inputs                 \* the cost of the inputs so far, bounded by MaxInputs

tenantVars == <<orgs, keyed, spaces>>
clockVars == <<minute, month>>
runtimeVars == <<run, serviceCount, servicePassed>>
usageVars == <<mail, usage>>
proxyVars == <<req, link, seen>>
watchVars == <<ceiling, peak>>
vars == <<billingVars, limitVars, tenantVars, clockVars, runtimeVars, usageVars,
          proxyVars, watchVars, inputs>>

\* The runtime counts the gateway's requests, whoever sent them, under one key.
Service == INSTANCE RateLimit WITH
  Principals <- {"service"}, PerWindow <- RuntimeLimit,
  counts <- serviceCount, passed <- servicePassed, lives <- 1

\* "abandoned": the gateway waits no longer, and the runtime may still be asked.
Stopped == {"none", "answered", "abandoned"}
Places == Stopped \cup {"authenticated", "counting", "allowed", "checked", "sent", "created"}
Runs == {"absent", "active", "completed", "ended"}
Letters == {"none", "sent", "half", "done", "lost"}

TypeOK ==
  /\ BillingTypeOK /\ LimitTypeOK /\ Service!LimitTypeOK
  /\ orgs \subseteq Orgs /\ keyed \subseteq orgs
  /\ spaces \subseteq orgs \X Ids
  /\ minute \in Windows /\ month \in Months
  /\ req \in [Requests -> [at : Places, org : Orgs, target : Requests \cup {None},
                           window : Windows, space : Ids \cup {None}]]
  /\ link \in [Requests -> Orgs \cup {None}]
  /\ run \in [Requests -> [status : Runs, tokens : 0 .. MaxTokens]]
  /\ mail \in [Requests -> [at : Letters, org : Orgs \cup {None}]]
  /\ usage \in [Requests -> [Metrics -> [org : Orgs \cup {None}, quantity : 0 .. MaxTokens + 1,
                                         month : Months]]]
  /\ seen \subseteq Orgs \X Requests
  /\ ceiling \in [Orgs -> Nat] /\ peak \in [Orgs -> Nat]
  /\ inputs \in 0 .. MaxInputs

NoUsage == [org |-> None, quantity |-> 0, month |-> 0]

-----------------------------------------------------------------------------
(* Usage and quota.                                                         *)

\* What is booked on an org this month, one by one.
Units(o, metric) ==
  {unit \in Requests \X (1 .. MaxTokens + 1) :
     LET row == usage[unit[1]][metric]
     IN row.org = o /\ row.month = month /\ unit[2] <= row.quantity}

\* sum_month.
Used(o, metric) == Cardinality(Units(o, metric))

WithinQuota_OffByOne(o) == \A metric \in Metrics : Used(o, metric) <= TierLimit[tier[o]][metric]

\* check_run_quota.
WithinQuota(o) == \A metric \in Metrics : Used(o, metric) < TierLimit[tier[o]][metric]

\* Runs of an org that passed the check and are not booked yet.
InFlight(o) ==
  {q \in Requests :
     /\ req[q].org = o
     /\ usage[q]["agent_run"] = NoUsage
     /\ \/ req[q].at \in {"checked", "sent", "created", "abandoned"}
        \/ run[q].status = "active"
        \/ mail[q].at = "sent"}

RunsUsed(o) == Used(o, "agent_run")

\* The histories: the largest limit and the most runs in flight of the month.
Watch ==
  /\ ceiling' = [o \in Orgs |->
       LET limit == TierLimit[tier'[o]]["agent_run"]
       IN IF month' # month \/ limit > ceiling[o] THEN limit ELSE ceiling[o]]
  /\ peak' = [o \in Orgs |->
       LET flight == Cardinality(InFlight(o))'
       IN IF month' # month \/ flight > peak[o] THEN flight ELSE peak[o]]

-----------------------------------------------------------------------------

Init ==
  /\ BillingInit /\ LimitInit
  /\ orgs = Founders /\ keyed = Founders
  /\ spaces = {<<o, HomeId[o]>> : o \in Founders}
  /\ minute = 0 /\ month = 0
  /\ req = [q \in Requests |-> [at |-> "none", org |-> CHOOSE o \in Orgs : TRUE,
                                target |-> None, window |-> 0, space |-> None]]
  /\ link = [q \in Requests |-> None]
  /\ run = [q \in Requests |-> [status |-> "absent", tokens |-> 0]]
  /\ serviceCount = [pw \in {"service"} \X Windows |-> 0]
  /\ servicePassed = [pw \in {"service"} \X Windows |-> 0]
  /\ mail = [q \in Requests |-> [at |-> "none", org |-> None]]
  /\ usage = [q \in Requests |-> [metric \in Metrics |-> NoUsage]]
  /\ seen = {}
  /\ ceiling = [o \in Orgs |-> TierLimit["free"]["agent_run"]]
  /\ peak = [o \in Orgs |-> 0]
  /\ inputs = 0

-----------------------------------------------------------------------------
(* Administration.                                                          *)

CreateOrg(o) ==
  /\ o \notin orgs
  /\ orgs' = orgs \cup {o}
  /\ UNCHANGED <<keyed, spaces>>

CreateApiKey(o) ==
  /\ o \in orgs \ keyed
  /\ keyed' = keyed \cup {o}
  /\ UNCHANGED <<orgs, spaces>>

\* Administrators give each org workspaces of its own; nothing else would.
CreateWorkspace(o) ==
  /\ o \in orgs /\ <<o, HomeId[o]>> \notin spaces
  /\ spaces' = spaces \cup {<<o, HomeId[o]>>}
  /\ UNCHANGED <<orgs, keyed>>

-----------------------------------------------------------------------------
(* A request, from its key to its answer.                                   *)

At(q, place) == req[q].at = place
Goes(q, place) == req' = [req EXCEPT ![q].at = place]

\* resolve_tenant.  A target is a run to read, stream or resume.
Authenticate(q, o, target) ==
  /\ At(q, "none")
  /\ o \in keyed
  /\ req' = [req EXCEPT ![q].at = "authenticated", ![q].org = o, ![q].target = target]
  /\ UNCHANGED <<limitVars, link, seen, runtimeVars, usageVars>>

\* The limiter in memory reads the minute and counts without an await ...
CountInMemory(q) ==
  /\ At(q, "authenticated") /\ backend = "memory"
  /\ Allow(req[q].org, minute)
  /\ Goes(q, IF Allowed(req[q].org, minute) THEN "allowed" ELSE "answered")
  /\ UNCHANGED <<link, seen, runtimeVars, usageVars>>

\* ... the one in Redis hands the counting to a thread, and may not be reachable.
ReadMinute(q) ==
  /\ At(q, "authenticated") /\ backend = "redis"
  /\ req' = [req EXCEPT ![q].at = "counting", ![q].window = minute]
  /\ UNCHANGED <<limitVars, link, seen, runtimeVars, usageVars>>

CountInRedis(q) ==
  /\ At(q, "counting")
  /\ \/ /\ Allow(req[q].org, req[q].window)
        /\ Goes(q, IF Allowed(req[q].org, req[q].window) THEN "allowed" ELSE "answered")
     \/ Goes(q, "answered") /\ UNCHANGED limitVars
  /\ UNCHANGED <<link, seen, runtimeVars, usageVars>>

MayAccess_AnyRun(o, r) == link[r] # None

\* _ensure_run_access.
MayAccess(o, r) == link[r] = o

\* A request for an own run is forwarded; the runtime counts it, unless it is not
\* reached.
Access(q) ==
  /\ At(q, "allowed") /\ req[q].target # None
  /\ Goes(q, "answered")
  /\ IF MayAccess(req[q].org, req[q].target)
       THEN /\ seen' = seen \cup {<<req[q].org, req[q].target>>}
            /\ Service!Allow("service", minute) \/ UNCHANGED <<backend, serviceCount, servicePassed>>
       ELSE UNCHANGED <<seen, backend, serviceCount, servicePassed>>
  /\ UNCHANGED <<counts, passed, lives, link, run, usageVars>>

CheckQuota(q) ==
  /\ At(q, "allowed") /\ req[q].target = None
  /\ Goes(q, IF WithinQuota(req[q].org) THEN "checked" ELSE "answered")
  /\ UNCHANGED <<limitVars, link, seen, runtimeVars, usageVars>>

Workspaces_AnyOrg(o) == {id \in Ids : \E p \in orgs : <<p, id>> \in spaces}

\* _resolve_workspace: the one named in the body, or any of the org's.
Workspaces(o) == {id \in Ids : <<o, id>> \in spaces}

Forward(q) ==
  /\ At(q, "checked")
  /\ \/ Workspaces(req[q].org) = {} /\ Goes(q, "answered")
     \/ \E id \in Workspaces(req[q].org) :
          req' = [req EXCEPT ![q].at = "sent", ![q].space = id]
  /\ UNCHANGED <<limitVars, link, seen, runtimeVars, usageVars>>

\* The runtime counts the request, and creates the run or refuses.
RuntimeAnswers(q) ==
  /\ req[q].at \in {"sent", "abandoned"}
  /\ Service!Allow("service", minute)
  /\ \/ /\ Service!Allowed("service", minute)
        /\ run' = [run EXCEPT ![q].status = "active"]
        /\ Goes(q, IF At(q, "sent") THEN "created" ELSE "answered")
     \/ Goes(q, "answered") /\ UNCHANGED run
  /\ UNCHANGED <<counts, passed, lives, link, seen, usageVars>>

LinkRun(q) ==
  /\ At(q, "created")
  /\ link' = [link EXCEPT ![q] = req[q].org]
  /\ Goes(q, "answered")
  /\ UNCHANGED <<limitVars, seen, runtimeVars, usageVars>>

\* The call to the runtime times out; the run may exist, and has no link.
Timeout(q) ==
  /\ req[q].at \in {"sent", "created"}
  /\ Goes(q, IF At(q, "sent") THEN "abandoned" ELSE "answered")
  /\ UNCHANGED <<limitVars, link, seen, runtimeVars, usageVars>>

-----------------------------------------------------------------------------
(* A run ends, and its usage is booked.                                     *)

\* Only a COMPLETED run that called a model is exported, in one attempt; a run
\* whose attempt fails is, to the gateway, like one that did not complete.
RunEnds(q) ==
  /\ run[q].status = "active"
  /\ \/ /\ run' = [run EXCEPT ![q].status = "ended"]
        /\ UNCHANGED mail
     \/ \E tokens \in 0 .. MaxTokens :
          /\ run' = [run EXCEPT ![q].status = "completed", ![q].tokens = tokens]
          /\ mail' = [mail EXCEPT ![q].at = "sent"]
  /\ UNCHANGED <<limitVars, proxyVars, serviceCount, servicePassed, usage>>

\* The org of the workspace, or else of the link.
OrgsOfRun(q) ==
  LET holders == {o \in orgs : <<o, req[q].space>> \in spaces}
  IN IF holders # {} THEN holders ELSE IF link[q] # None THEN {link[q]} ELSE {}

Record_Always(q, metric, o, quantity) ==
  usage' = [usage EXCEPT ![q][metric] =
              [org |-> o, quantity |-> @.quantity + quantity, month |-> month]]

\* UsageRepository.record: the first row of a run and metric stays.
Record(q, metric, o, quantity) ==
  usage' = IF usage[q][metric] # NoUsage \/ quantity = 0 THEN usage
           ELSE [usage EXCEPT ![q][metric] =
                   [org |-> o, quantity |-> quantity, month |-> month]]

\* ingest_usage_payload commits each metric for itself.  A run that did not come
\* through the gateway has no org and is not booked.
BookRun(q) ==
  /\ mail[q].at = "sent"
  /\ \E o \in OrgsOfRun(q) :
       /\ Record(q, "agent_run", o, 1)
       /\ mail' = [mail EXCEPT ![q] = [at |-> "half", org |-> o]]
  /\ UNCHANGED <<limitVars, proxyVars, runtimeVars>>

BookTokens(q) ==
  /\ mail[q].at = "half"
  /\ Record(q, "llm_tokens_out", mail[q].org, run[q].tokens)
  /\ mail' = [mail EXCEPT ![q].at = "done"]
  /\ UNCHANGED <<limitVars, proxyVars, runtimeVars>>

\* What carries the webhook delivers it once more.
Repeat(q) ==
  /\ mail[q].at = "done"
  /\ mail' = [mail EXCEPT ![q].at = "sent"]
  /\ UNCHANGED <<limitVars, proxyVars, runtimeVars, usage>>

-----------------------------------------------------------------------------

\* The gateway's process ends; a new one starts.
Restart ==
  /\ LimiterRestarts
  /\ req' = [q \in Requests |->
       CASE req[q].at \in Stopped -> req[q]
         [] req[q].at = "sent" -> [req[q] EXCEPT !.at = "abandoned"]
         [] OTHER -> [req[q] EXCEPT !.at = "answered"]]
  /\ mail' = [q \in Requests |->
       IF mail[q].at = "half" THEN [mail[q] EXCEPT !.at = "lost"] ELSE mail[q]]
  /\ UNCHANGED <<link, seen, runtimeVars, usage>>

NextMinute == minute + 1 \in Windows /\ minute' = minute + 1 /\ UNCHANGED month
NextMonth == month + 1 \in Months /\ month' = month + 1 /\ UNCHANGED minute

Administer ==
  \E o \in Orgs : CreateOrg(o) \/ CreateApiKey(o) \/ CreateWorkspace(o)

Handle(q) ==
  \/ CountInMemory(q) \/ ReadMinute(q) \/ CountInRedis(q)
  \/ Access(q) \/ CheckQuota(q) \/ Forward(q)
  \/ RuntimeAnswers(q) \/ LinkRun(q) \/ Timeout(q)

\* What the runtime and the webhooks do on their own.
Usage(q) == RunEnds(q) \/ BookRun(q) \/ BookTokens(q)

Asked(q) ==
  \/ \E o \in Orgs, target \in Requests \cup {None} : Authenticate(q, o, target)
  \/ Repeat(q)

Restless == <<tenantVars, clockVars, limitVars, proxyVars, runtimeVars, usageVars>>

\* A bound: inputs of the billing cost three, the others four, administration nothing.
Costs(n) == inputs + n <= MaxInputs /\ inputs' = inputs + n

\* An input from outside: a request, a payment, a new minute, a restart ...
Input ==
  \/ Costs(0) /\ Administer
       /\ UNCHANGED <<billingVars, clockVars, limitVars, proxyVars, runtimeVars, usageVars>>
  \/ Costs(3) /\ BillingInput /\ UNCHANGED Restless
  \/ /\ Costs(4)
     /\ \/ (NextMinute \/ NextMonth)
             /\ UNCHANGED <<billingVars, tenantVars, limitVars, proxyVars, runtimeVars, usageVars>>
        \/ \E q \in Requests : Asked(q) /\ UNCHANGED <<billingVars, tenantVars, clockVars>>
        \/ Restart /\ UNCHANGED <<billingVars, tenantVars, clockVars>>

Work ==
  /\ UNCHANGED inputs
  /\ \/ ((\E v \in Visits : StoreCustomer(v)) \/ Webhook) /\ UNCHANGED Restless
     \/ \E q \in Requests :
          (Handle(q) \/ Usage(q)) /\ UNCHANGED <<billingVars, tenantVars, clockVars>>

Next == (Input \/ Work) /\ Watch

Spec == Init /\ [][Next]_vars

-----------------------------------------------------------------------------

(* An org exceeds the runs of its tier only by runs that were on their way  *)
(* together: what is booked and what is in flight stay below the largest    *)
(* limit of the month plus the most runs in flight of the month.  The check *)
(* is made before a run is forwarded and the run booked after it completed, *)
(* and months, tiers and repeated webhooks come in between.                 *)
UsageWithinQuota ==
  \A o \in Orgs : RunsUsed(o) + Cardinality(InFlight(o)) <= ceiling[o] - 1 + peak[o]

(* What a run used is booked on the org that asked for it and on no other,  *)
(* never more than the run reported, and tokens only with the run itself,   *)
(* whatever was repeated, lost, dropped or restarted.                       *)
BookedOnItsOrg ==
  \A q \in Requests, metric \in Metrics : usage[q][metric] # NoUsage =>
    /\ usage[q][metric].org = req[q].org
    /\ usage[q][metric].quantity = IF metric = "agent_run" THEN 1 ELSE run[q].tokens
    /\ usage[q]["agent_run"].org = req[q].org

(* No org is let through to a run that another org's request created.      *)
OnlyOwnRuns == \A o \in Orgs, q \in Requests : <<o, q>> \in seen => req[q].org = o

(* Neither limiter lets more through than it should: an org at the gateway, *)
(* all orgs together at the runtime.                                        *)
RatesHonoured == RateHonoured /\ Service!RateHonoured
=============================================================================
