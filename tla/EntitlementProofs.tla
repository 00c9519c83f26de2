-------------------------- MODULE EntitlementProofs --------------------------
(***************************************************************************)
(* What an org may use, and what it has paid for: the quota of a tier is   *)
(* exceeded only by runs that were on their way together, and the tier is  *)
(* the one that Stripe's events tell, for any orgs, requests, visits and   *)
(* limits.                                                                 *)
(***************************************************************************)
EXTENDS GatewayProofs

-----------------------------------------------------------------------------
(* Quota.                                                                   *)

\* Nothing is booked ahead of its month.
UsageIsPast ==
  /\ month \in Nat
  /\ \A q \in Requests, metric \in Metrics : usage[q][metric].month \in 0 .. month

\* The histories have seen what is in flight and what the tier allows now.
WatchSees ==
  \A o \in Orgs :
    /\ ceiling[o] \in Nat \ {0} /\ TierLimit[tier[o]]["agent_run"] <= ceiling[o]
    /\ peak[o] \in Nat /\ Cardinality(InFlight(o)) <= peak[o]

\* Runs in flight and units booked are finitely many.
LEMMA FewUnits ==
  ASSUME NEW o
  PROVE  /\ IsFiniteSet(InFlight(o)) /\ Cardinality(InFlight(o)) \in Nat
         /\ IsFiniteSet(Units(o, "agent_run")) /\ RunsUsed(o) \in Nat
<1>1. IsFiniteSet(Requests) /\ MaxTokens \in Nat
  BY BoundsAssumption
<1>2. InFlight(o) \subseteq Requests
  BY DEF InFlight
<1>3. Units(o, "agent_run") \subseteq Requests \X (1 .. MaxTokens + 1)
  BY DEF Units
<1>4. IsFiniteSet(1 .. MaxTokens + 1)
  BY <1>1, FS_Interval
<1>5. IsFiniteSet(Requests \X (1 .. MaxTokens + 1))
  BY <1>1, <1>4, FS_Product
<1> QED
  BY <1>1, <1>2, <1>3, <1>5, FS_Subset, FS_CardinalityType DEF RunsUsed, Used

\* Requests that are in flight afterwards were so before, unless they are in X.
LEMMA FlightFrom ==
  ASSUME NEW o \in Orgs, NEW X,
         \A r \in Requests \ X :
           r \in InFlight(o)' => r \in InFlight(o)
  PROVE  InFlight(o)' \subseteq InFlight(o) \cup X
BY DEF InFlight

\* A handler's step puts a run in flight only where the quota is checked.
LEMMA HandlerFlight ==
  ASSUME ProxyTypes, RunComesLate, NEW q \in Requests, Handle(q), NEW o \in Orgs
  PROVE  /\ UNCHANGED usage
         /\ \/ InFlight(o)' \subseteq InFlight(o)
            \/ /\ InFlight(o)' \subseteq InFlight(o) \cup {q}
               /\ WithinQuota(o)
<1> USE DEF ProxyTypes, Goes, At
<1>1. /\ \A r \in Requests \ {q} : req'[r] = req[r]
      /\ req'[q].org = req[q].org
  BY HandlerMoves
<1>2. UNCHANGED usageVars
  BY DEF Handle, CountInMemory, ReadMinute, CountInRedis, Access, CheckQuota,
         Forward, RuntimeAnswers, LinkRun, Timeout
<1>3. \A r \in Requests \ {q} : run'[r] = run[r]
  BY DEF Handle, CountInMemory, ReadMinute, CountInRedis, Access, CheckQuota,
         Forward, RuntimeAnswers, LinkRun, Timeout, runtimeVars
<1>4. \A r \in Requests \ {q} : r \in InFlight(o)' => r \in InFlight(o)
  BY <1>1, <1>2, <1>3 DEF InFlight, usageVars
<1>5. CASE CheckQuota(q)
  <2>1. InFlight(o)' \subseteq InFlight(o) \cup {q}
    BY <1>4, FlightFrom
  <2>2. CASE req[q].org = o /\ WithinQuota(o)
    BY <1>2, <2>1, <2>2 DEF usageVars
  <2>3. CASE ~(req[q].org = o /\ WithinQuota(o))
    <3>1. req[q].org # o \/ req'[q].at = "answered"
      BY <1>5, <2>3 DEF CheckQuota, Handlers
    <3>2. run' = run
      BY <1>5 DEF CheckQuota, runtimeVars
    <3>3. q \in InFlight(o)' => q \in InFlight(o)
      BY <1>1, <1>2, <3>1, <3>2 DEF InFlight, usageVars
    <3> QED
      BY <1>2, <1>4, <3>3 DEF InFlight, usageVars
  <2> QED
    BY <2>2, <2>3
<1>6. CASE ~CheckQuota(q)
  <2>1. /\ req'[q].at \in {"checked", "sent", "created", "abandoned"}
             => req[q].at \in {"checked", "sent", "created", "abandoned"}
        /\ run'[q].status = "active"
             => run[q].status = "active" \/ req[q].at \in {"sent", "abandoned"}
    <3>1. CASE CountInMemory(q) \/ ReadMinute(q) \/ CountInRedis(q) \/ Access(q)
      BY <3>1 DEF CountInMemory, ReadMinute, CountInRedis, Access, runtimeVars, Handlers
    <3>2. CASE Forward(q) \/ LinkRun(q) \/ Timeout(q)
      BY <3>2 DEF Forward, LinkRun, Timeout, runtimeVars, Handlers
    <3>3. CASE RuntimeAnswers(q)
      BY <3>3 DEF RuntimeAnswers
    <3> QED
      BY <1>6, <3>1, <3>2, <3>3 DEF Handle
  <2>2. q \in InFlight(o)' => q \in InFlight(o)
    BY <1>1, <1>2, <2>1 DEF InFlight, usageVars
  <2> QED
    BY <1>2, <1>4, <2>2 DEF InFlight, usageVars
<1> QED
  BY <1>5, <1>6

\* What becomes of an org's units and runs in flight while the month lasts: they
\* grow together only by the check, and a unit comes for a run that has landed.
LEMMA FlightStep ==
  ASSUME OwnWorkspaces, TenantTypes, ProxyTypes, UsageTypes, RunComesLate, Booking,
         [Next]_vars, month' = month, NEW o \in Orgs
  PROVE  \/ Units(o, "agent_run")' = Units(o, "agent_run") /\ InFlight(o)' \subseteq InFlight(o)
         \/ /\ Units(o, "agent_run")' = Units(o, "agent_run")
            /\ WithinQuota(o)
            /\ \E q \in Requests : InFlight(o)' \subseteq InFlight(o) \cup {q}
         \/ \E q \in InFlight(o) :
              /\ Units(o, "agent_run")' = Units(o, "agent_run") \cup {<<q, 1>>}
              /\ InFlight(o)' \subseteq InFlight(o) \ {q}
<1> DEFINE Rows == \A r \in Requests : usage'[r]["agent_run"] = usage[r]["agent_run"]
<1>0. "agent_run" \in Metrics /\ 1 \in 1 .. MaxTokens + 1
  BY BoundsAssumption DEF Metrics
<1>1. ASSUME Rows PROVE Units(o, "agent_run")' = Units(o, "agent_run")
  BY <1>1 DEF Units
<1>2. ASSUME Rows,
             \A r \in Requests :
               /\ req'[r].org = o => req[r].org = o
               /\ req'[r].at \in {"checked", "sent", "created", "abandoned"}
                    => req[r].at \in {"checked", "sent", "created", "abandoned"}
               /\ run'[r].status = "active" => run[r].status = "active"
               /\ mail'[r].at = "sent" =>
                    \/ mail[r].at = "sent" \/ run[r].status = "active"
                    \/ usage[r]["agent_run"] # NoUsage
      PROVE  /\ Units(o, "agent_run")' = Units(o, "agent_run")
             /\ InFlight(o)' \subseteq InFlight(o)
  BY <1>1, <1>2 DEF InFlight
<1>3. CASE UNCHANGED <<proxyVars, runtimeVars, usageVars>>
  BY <1>2, <1>3 DEF proxyVars, runtimeVars, usageVars
<1>4. CASE Restart
  <2>1. \A r \in Requests :
          /\ req'[r].org = req[r].org
          /\ req'[r].at \in {"checked", "sent", "created", "abandoned"}
               => req[r].at \in {"checked", "sent", "created", "abandoned"}
    BY <1>4 DEF Restart, Stopped, ProxyTypes, Handlers
  <2>2. \A r \in Requests : mail'[r].at = "sent" => mail[r].at = "sent"
    BY <1>4 DEF Restart, UsageTypes
  <2>3. UNCHANGED <<run, usage>>
    BY <1>4 DEF Restart, runtimeVars
  <2> QED
    BY <1>2, <2>1, <2>2, <2>3
<1>5. ASSUME NEW q \in Requests, NEW p \in Orgs, NEW target, Authenticate(q, p, target)
      PROVE  /\ Units(o, "agent_run")' = Units(o, "agent_run")
             /\ InFlight(o)' \subseteq InFlight(o)
  <2>1. /\ UNCHANGED <<run, usage, mail>>
        /\ req[q].at = "none" /\ req'[q].at = "authenticated"
        /\ \A r \in Requests \ {q} : req'[r] = req[r]
    BY <1>5 DEF Authenticate, At, runtimeVars, usageVars, ProxyTypes, Handlers
  <2>2. run[q].status = "absent" /\ mail[q].at = "none"
    BY <2>1 DEF RunComesLate, Booking, OnlyCompletedIsBooked
  <2>3. q \notin InFlight(o)'
    BY <2>1, <2>2 DEF InFlight
  <2>4. \A r \in Requests \ {q} : r \in InFlight(o)' => r \in InFlight(o)
    BY <2>1 DEF InFlight
  <2> QED
    BY <1>1, <2>1, <2>3, <2>4 DEF InFlight
<1>6. ASSUME NEW q \in Requests, Repeat(q)
      PROVE  /\ Units(o, "agent_run")' = Units(o, "agent_run")
             /\ InFlight(o)' \subseteq InFlight(o)
  <2>1. UNCHANGED <<req, run, usage>> /\ mail[q].at = "done"
    BY <1>6 DEF Repeat, proxyVars, runtimeVars
  <2>2. \A r \in Requests : r # q => mail'[r] = mail[r]
    BY <1>6, Posted DEF Repeat
  <2>3. usage[q]["agent_run"] # NoUsage
    BY <2>1, TenantAssumption
       DEF Booking, HalfIsOwn, NoUsage, ProxyTypes, Handlers
  <2> QED
    BY <1>2, <2>1, <2>2, <2>3
<1>7. ASSUME NEW q \in Requests, RunEnds(q)
      PROVE  /\ Units(o, "agent_run")' = Units(o, "agent_run")
             /\ InFlight(o)' \subseteq InFlight(o)
  <2>1. UNCHANGED <<req, usage>> /\ run[q].status = "active"
    BY <1>7 DEF RunEnds, proxyVars
  <2>2. \A r \in Requests : r # q => run'[r] = run[r] /\ mail'[r] = mail[r]
    BY <1>7, Posted DEF RunEnds, ProxyTypes
  <2> QED
    BY <1>2, <2>1, <2>2
<1>8. ASSUME NEW q \in Requests, BookTokens(q)
      PROVE  /\ Units(o, "agent_run")' = Units(o, "agent_run")
             /\ InFlight(o)' \subseteq InFlight(o)
  <2>1. UNCHANGED <<req, run>>
    BY <1>8 DEF BookTokens, proxyVars, runtimeVars
  <2>2. \A r \in Requests : usage'[r]["agent_run"] = usage[r]["agent_run"]
    BY <1>0, <1>8, RecordWrites DEF BookTokens, Metrics
  <2>3. \A r \in Requests : mail'[r].at = "sent" => mail[r].at = "sent"
    BY <1>8 DEF BookTokens, UsageTypes
  <2> QED
    BY <1>2, <2>1, <2>2, <2>3
<1>9. ASSUME NEW q \in Requests, BookRun(q)
      PROVE  \/ /\ Units(o, "agent_run")' = Units(o, "agent_run")
                /\ InFlight(o)' \subseteq InFlight(o)
             \/ /\ q \in InFlight(o)
                /\ Units(o, "agent_run")' = Units(o, "agent_run") \cup {<<q, 1>>}
                /\ InFlight(o)' \subseteq InFlight(o) \ {q}
  <2>1. /\ UNCHANGED <<req, run>> /\ mail[q].at = "sent"
        /\ run[q].status = "completed"
    BY <1>9 DEF BookRun, proxyVars, runtimeVars, Booking, OnlyCompletedIsBooked
  <2>2. OrgsOfRun(q) = {req[q].org}
    BY <2>1, BookedOnOne DEF Booking
  <2>3. /\ Record(q, "agent_run", req[q].org, 1)
        /\ mail' = [mail EXCEPT ![q] = [at |-> "half", org |-> req[q].org]]
    BY <1>9, <2>2 DEF BookRun
  <2>4. /\ mail'[q].at = "half" /\ \A r \in Requests : r # q => mail'[r] = mail[r]
    BY <2>3 DEF UsageTypes
  <2> DEFINE row == [org |-> req[q].org, quantity |-> 1, month |-> month]
             fresh == usage[q]["agent_run"] = NoUsage
  <2>5. \A r \in Requests :
          usage'[r]["agent_run"] = IF r = q /\ fresh THEN row ELSE usage[r]["agent_run"]
    BY <1>0, <2>3, RecordWrites
  <2>6. row # NoUsage /\ row.org = req[q].org /\ row.quantity = 1 /\ row.month = month
    BY DEF NoUsage
  <2>7. q \notin InFlight(o)'
    BY <2>1, <2>4, <2>5, <2>6 DEF InFlight, RunComesLate
  <2>8. \A r \in Requests \ {q} : r \in InFlight(o)' => r \in InFlight(o)
    BY <2>1, <2>4, <2>5 DEF InFlight
  <2>9. InFlight(o)' \subseteq InFlight(o) \ {q}
    BY <2>7, <2>8 DEF InFlight
  <2>10. CASE ~(fresh /\ req[q].org = o)
    <3>1. CASE ~fresh
      <4>1. \A r \in Requests : usage'[r]["agent_run"] = usage[r]["agent_run"]
        BY <2>5, <3>1
      <4> QED
        BY <1>1, <2>9, <4>1
    <3>2. CASE fresh /\ req[q].org # o
      <4>1. NoUsage.org # o
        BY TenantAssumption DEF NoUsage
      <4>2. \A unit \in Requests \X (1 .. MaxTokens + 1) :
              unit \in Units(o, "agent_run")' <=> unit \in Units(o, "agent_run")
        <5> SUFFICES ASSUME NEW unit \in Requests \X (1 .. MaxTokens + 1)
                     PROVE  unit \in Units(o, "agent_run")' <=> unit \in Units(o, "agent_run")
          OBVIOUS
        <5>1. CASE unit[1] = q
          <6>1. usage'[q]["agent_run"].org # o /\ usage[q]["agent_run"].org # o
            BY <2>5, <2>6, <3>2, <4>1
          <6> QED
            BY <5>1, <6>1 DEF Units
        <5>2. CASE unit[1] # q
          <6>1. usage'[unit[1]]["agent_run"] = usage[unit[1]]["agent_run"]
            BY <2>5, <5>2
          <6> QED
            BY <6>1 DEF Units
        <5> QED
          BY <5>1, <5>2
      <4>3. Units(o, "agent_run")' = Units(o, "agent_run")
        BY <4>2 DEF Units
      <4> QED
        BY <2>9, <4>3
    <3> QED
      BY <2>10, <3>1, <3>2
  <2>11. CASE fresh /\ req[q].org = o
    <3>1. q \in InFlight(o)
      BY <2>1, <2>11 DEF InFlight
    <3>2. /\ usage'[q]["agent_run"].org = o /\ usage'[q]["agent_run"].month = month
          /\ usage'[q]["agent_run"].quantity = 1
      BY <2>5, <2>6, <2>11
    <3>3. \A unit \in Requests \X (1 .. MaxTokens + 1) :
            unit \in Units(o, "agent_run")' <=> unit \in Units(o, "agent_run") \cup {<<q, 1>>}
      <4> SUFFICES ASSUME NEW unit \in Requests \X (1 .. MaxTokens + 1)
                   PROVE  unit \in Units(o, "agent_run")'
                            <=> unit \in Units(o, "agent_run") \cup {<<q, 1>>}
        OBVIOUS
      <4>0. unit = <<unit[1], unit[2]>> /\ unit[1] \in Requests /\ unit[2] \in 1 .. MaxTokens + 1
        OBVIOUS
      <4>1. CASE unit[1] = q
        <5>1. unit \in Units(o, "agent_run")' <=> unit[2] <= 1
          BY <3>2, <4>1 DEF Units
        <5>2. unit \notin Units(o, "agent_run")
          BY <2>11, <4>1, TenantAssumption DEF Units, NoUsage
        <5>3. unit = <<q, 1>> <=> unit[2] = 1
          BY <4>0, <4>1
        <5>4. unit[2] <= 1 <=> unit[2] = 1
          BY <4>0, BoundsAssumption
        <5> QED
          BY <5>1, <5>2, <5>3, <5>4
      <4>2. CASE unit[1] # q
        <5>1. usage'[unit[1]]["agent_run"] = usage[unit[1]]["agent_run"]
          BY <2>5, <4>0, <4>2
        <5>2. unit # <<q, 1>>
          BY <4>2
        <5> QED
          BY <5>1, <5>2 DEF Units
      <4> QED
        BY <4>1, <4>2
    <3>4. <<q, 1>> \in Requests \X (1 .. MaxTokens + 1)
      BY <1>0
    <3>5. Units(o, "agent_run")' = Units(o, "agent_run") \cup {<<q, 1>>}
      BY <3>3, <3>4 DEF Units
    <3> QED
      BY <2>9, <3>1, <3>5
  <2> QED
    BY <2>10, <2>11
<1>10. ASSUME NEW q \in Requests, Handle(q)
       PROVE  /\ Units(o, "agent_run")' = Units(o, "agent_run")
              /\ \/ InFlight(o)' \subseteq InFlight(o)
                 \/ /\ InFlight(o)' \subseteq InFlight(o) \cup {q}
                    /\ WithinQuota(o)
  <2>1. /\ UNCHANGED usage
        /\ \/ InFlight(o)' \subseteq InFlight(o)
           \/ /\ InFlight(o)' \subseteq InFlight(o) \cup {q}
              /\ WithinQuota(o)
    BY <1>10, HandlerFlight
  <2> QED
    BY <1>1, <2>1
<1>11. CASE \E q \in Requests : Asked(q) \/ Handle(q) \/ Usage(q)
  BY <1>5, <1>6, <1>7, <1>8, <1>9, <1>10, <1>11 DEF Asked, Usage
<1> QED
  BY <1>3, <1>4, <1>11, StepCases

LEMMA UsageIsPastStep ==
  ASSUME UsageTypes, UsageIsPast, [Next]_vars
  PROVE  UsageIsPast'
<1> USE DEF UsageIsPast
<1>1. month' \in Nat /\ month <= month'
  BY StepCases DEF clockVars, NextMinute, NextMonth
<1>2. \A q \in Requests, metric \in Metrics :
        usage'[q][metric] = usage[q][metric] \/ usage'[q][metric].month = month
  <2>1. ASSUME NEW q \in Requests, NEW metric \in Metrics, NEW o, NEW n, Record(q, metric, o, n)
        PROVE  \A r \in Requests, other \in Metrics :
                 usage'[r][other] = usage[r][other] \/ usage'[r][other].month = month
    <3> DEFINE row == [org |-> o, quantity |-> n, month |-> month]
    <3>1. row.month = month
      OBVIOUS
    <3>2. \A r \in Requests, other \in Metrics :
            usage'[r][other] = row \/ usage'[r][other] = usage[r][other]
      BY <2>1, RecordWrites
    <3> HIDE DEF row
    <3> QED
      BY <3>1, <3>2
  <2>2. ASSUME NEW q \in Requests, Usage(q)
        PROVE  \A r \in Requests, other \in Metrics :
                 usage'[r][other] = usage[r][other] \/ usage'[r][other].month = month
    <3>1. CASE RunEnds(q)
      BY <3>1 DEF RunEnds
    <3>2. CASE BookRun(q)
      BY <2>1, <3>2 DEF BookRun, Metrics
    <3>3. CASE BookTokens(q)
      BY <2>1, <3>3 DEF BookTokens, Metrics
    <3> QED
      BY <2>2, <3>1, <3>2, <3>3 DEF Usage
  <2>3. ASSUME NEW q \in Requests, Asked(q) \/ Handle(q)
        PROVE  UNCHANGED usage
    BY <2>3 DEF usageVars, Asked, Authenticate, Repeat, Handle, CountInMemory, ReadMinute,
         CountInRedis, Access, CheckQuota, Forward, RuntimeAnswers, LinkRun, Timeout
  <2>4. Restart => UNCHANGED usage
    BY DEF Restart
  <2> QED
    BY <2>2, <2>3, <2>4, StepCases DEF usageVars
<1> QED
  BY <1>1, <1>2

\* The histories grow with what they watch, and begin anew with the month.
LEMMA WatchGrows ==
  ASSUME WatchSees, BillingTypeOK', Next, NEW o \in Orgs
  PROVE  /\ ceiling'[o] \in Nat \ {0} /\ TierLimit[tier'[o]]["agent_run"] <= ceiling'[o]
         /\ peak'[o] \in Nat /\ Cardinality(InFlight(o)') <= peak'[o]
         /\ month' = month => ceiling[o] <= ceiling'[o] /\ peak[o] <= peak'[o]
         /\ month' # month => peak'[o] = Cardinality(InFlight(o)')
<1> DEFINE limit == TierLimit[tier'[o]]["agent_run"]
           flight == Cardinality(InFlight(o)')
<1>1. limit \in Nat \ {0}
  BY TierAssumption DEF BillingTypeOK, Metrics
<1>2. flight \in Nat
  <2>1. InFlight(o)' \subseteq Requests
    BY DEF InFlight
  <2> QED
    BY <2>1, BoundsAssumption, FS_Subset, FS_CardinalityType
<1>3. /\ ceiling'[o] = IF month' # month \/ limit > ceiling[o] THEN limit ELSE ceiling[o]
      /\ peak'[o] = IF month' # month \/ flight > peak[o] THEN flight ELSE peak[o]
  BY DEF Next, Watch
<1>4. ceiling[o] \in Nat \ {0} /\ peak[o] \in Nat
  BY DEF WatchSees
<1> HIDE DEF limit, flight
<1>5. /\ ceiling'[o] \in Nat \ {0} /\ limit <= ceiling'[o]
      /\ peak'[o] \in Nat /\ flight <= peak'[o]
      /\ month' = month => ceiling[o] <= ceiling'[o] /\ peak[o] <= peak'[o]
      /\ month' # month => peak'[o] = flight
  BY <1>1, <1>2, <1>3, <1>4
<1> QED
  BY <1>5 DEF limit, flight

LEMMA QuotaStep ==
  ASSUME OwnWorkspaces, TenantTypes, ProxyTypes, UsageTypes, BillingTypeOK, RunComesLate, Booking,
         UsageIsPast, WatchSees, UsageWithinQuota, Next, NEW o \in Orgs
  PROVE  RunsUsed(o)' + Cardinality(InFlight(o)') <= ceiling'[o] - 1 + peak'[o]
<1> DEFINE used == RunsUsed(o)
           flight == Cardinality(InFlight(o))
           usedNext == RunsUsed(o)'
           flightNext == Cardinality(InFlight(o)')
           limit == TierLimit[tier[o]]["agent_run"]
<1>1. /\ ceiling'[o] \in Nat \ {0} /\ peak'[o] \in Nat /\ flightNext <= peak'[o]
      /\ month' = month => ceiling[o] <= ceiling'[o] /\ peak[o] <= peak'[o]
      /\ month' # month => peak'[o] = flightNext
  BY BillingTypesStep, WatchGrows
<1>2. /\ used \in Nat /\ flight \in Nat /\ usedNext \in Nat /\ flightNext \in Nat
      /\ ceiling[o] \in Nat \ {0} /\ peak[o] \in Nat
      /\ limit \in Nat \ {0} /\ limit <= ceiling[o]
      /\ used + flight <= ceiling[o] - 1 + peak[o]
  <2>1. used \in Nat /\ flight \in Nat
    BY FewUnits
  <2>2. usedNext \in Nat /\ flightNext \in Nat
    <3>1. InFlight(o)' \subseteq Requests
      BY DEF InFlight
    <3>2. Units(o, "agent_run")' \subseteq Requests \X (1 .. MaxTokens + 1)
      BY DEF Units
    <3>3. IsFiniteSet(Requests \X (1 .. MaxTokens + 1))
      <4>1. IsFiniteSet(1 .. MaxTokens + 1)
        BY BoundsAssumption, FS_Interval
      <4> QED
        BY <4>1, BoundsAssumption, FS_Product
    <3>4. IsFiniteSet(InFlight(o)') /\ IsFiniteSet(Units(o, "agent_run")')
      BY <3>1, <3>2, <3>3, BoundsAssumption, FS_Subset
    <3>5. usedNext = Cardinality(Units(o, "agent_run")')
      BY DEF RunsUsed, Used
    <3> HIDE DEF usedNext
    <3> QED
      BY <3>4, <3>5, FS_CardinalityType
  <2>3. limit \in Nat \ {0}
    BY TierAssumption DEF BillingTypeOK, Metrics
  <2> QED
    BY <2>1, <2>2, <2>3 DEF WatchSees, UsageWithinQuota
<1>3. CASE month' # month
  <2>1. UNCHANGED usage /\ month' = month + 1
    BY <1>3, StepCases DEF clockVars, usageVars, NextMinute, NextMonth
  <2>2. Units(o, "agent_run")' = {}
    <3> SUFFICES ASSUME NEW unit \in Requests \X (1 .. MaxTokens + 1),
                        usage[unit[1]]["agent_run"].month = month + 1
                 PROVE  FALSE
      BY <2>1 DEF Units
    <3>1. unit[1] \in Requests /\ "agent_run" \in Metrics
      BY DEF Metrics
    <3>2. usage[unit[1]]["agent_run"].month \in 0 .. month /\ month \in Nat
      BY <3>1 DEF UsageIsPast
    <3> QED
      BY <3>2
  <2>3. usedNext = 0
    BY <2>2, FS_EmptySet DEF RunsUsed, Used
  <2> HIDE DEF used, flight, usedNext, flightNext, limit
  <2>4. usedNext + flightNext <= ceiling'[o] - 1 + peak'[o]
    BY <1>1, <1>2, <1>3, <2>3
  <2> QED
    BY <2>4 DEF usedNext, flightNext
<1>4. CASE month' = month
  <2>1. CASE Units(o, "agent_run")' = Units(o, "agent_run") /\ InFlight(o)' \subseteq InFlight(o)
    <3>1. usedNext = used
      BY <2>1 DEF RunsUsed, Used
    <3>2. flightNext <= flight
      BY <2>1, FewUnits, FS_Subset
    <3> HIDE DEF used, flight, usedNext, flightNext, limit
    <3>3. usedNext + flightNext <= ceiling'[o] - 1 + peak'[o]
      BY <1>1, <1>2, <1>4, <3>1, <3>2
    <3> QED
      BY <3>3 DEF usedNext, flightNext
  <2>2. CASE Units(o, "agent_run")' = Units(o, "agent_run") /\ WithinQuota(o)
    <3>1. usedNext = used /\ used < limit
      BY <2>2 DEF RunsUsed, Used, WithinQuota, Metrics
    <3> HIDE DEF used, flight, usedNext, flightNext, limit
    <3>2. usedNext + flightNext <= ceiling'[o] - 1 + peak'[o]
      BY <1>1, <1>2, <1>4, <3>1
    <3> QED
      BY <3>2 DEF usedNext, flightNext
  <2>3. ASSUME NEW q \in InFlight(o),
               Units(o, "agent_run")' = Units(o, "agent_run") \cup {<<q, 1>>},
               InFlight(o)' \subseteq InFlight(o) \ {q}
        PROVE  usedNext + flightNext <= ceiling'[o] - 1 + peak'[o]
    <3>1. usedNext <= used + 1
      <4>1. /\ used = Cardinality(Units(o, "agent_run"))
            /\ usedNext = Cardinality(Units(o, "agent_run") \cup {<<q, 1>>})
        BY <2>3 DEF RunsUsed, Used
      <4>2. Cardinality(Units(o, "agent_run") \cup {<<q, 1>>})
              \in {Cardinality(Units(o, "agent_run")), Cardinality(Units(o, "agent_run")) + 1}
        BY FewUnits, FS_AddElement
      <4> HIDE DEF used, usedNext
      <4> QED
        BY <1>2, <4>1, <4>2
    <3>2. flightNext <= flight - 1
      <4>1. /\ IsFiniteSet(InFlight(o) \ {q})
            /\ Cardinality(InFlight(o) \ {q}) = flight - 1
        BY FewUnits, FS_RemoveElement
      <4>2. flightNext <= Cardinality(InFlight(o) \ {q})
        BY <2>3, <4>1, FS_Subset
      <4> QED
        BY <4>1, <4>2
    <3> HIDE DEF used, flight, usedNext, flightNext, limit
    <3> QED
      BY <1>1, <1>2, <1>4, <3>1, <3>2
  <2> QED
    BY <1>4, <2>1, <2>2, <2>3, FlightStep
<1> QED
  BY <1>3, <1>4

\* If no two orgs share a workspace, an org exceeds the runs of its tier only by
\* runs that were on their way together, whatever months, tiers, restarts, late
\* answers of the runtime and repeated webhooks come between check and booking.
THEOREM QuotaIsKept ==
  ASSUME OwnWorkspaces
  PROVE  Spec => []UsageWithinQuota
<1> DEFINE Inv == UsageIsPast /\ WatchSees /\ UsageWithinQuota
<1>1. Init => Inv
  <2> SUFFICES ASSUME Init PROVE Inv
    OBVIOUS
  <2>1. UsageIsPast
    BY DEF Init, UsageIsPast, NoUsage
  <2>2. ASSUME NEW o \in Orgs
        PROVE  /\ ceiling[o] = TierLimit["free"]["agent_run"] /\ ceiling[o] \in Nat \ {0}
               /\ tier[o] = "free" /\ peak[o] = 0
               /\ Cardinality(InFlight(o)) = 0 /\ RunsUsed(o) = 0
    <3>1. /\ ceiling[o] = TierLimit["free"]["agent_run"] /\ ceiling[o] \in Nat \ {0}
          /\ tier[o] = "free" /\ peak[o] = 0
      BY TierAssumption DEF Init, BillingInit, Tiers, Metrics
    <3>2. InFlight(o) = {}
      BY DEF Init, InFlight
    <3>3. Units(o, "agent_run") = {}
      BY TenantAssumption DEF Init, Units, NoUsage, Metrics
    <3> QED
      BY <3>1, <3>2, <3>3, FS_EmptySet DEF RunsUsed, Used
  <2>3. ASSUME NEW o \in Orgs
        PROVE  /\ TierLimit[tier[o]]["agent_run"] <= ceiling[o]
               /\ peak[o] \in Nat /\ Cardinality(InFlight(o)) <= peak[o]
               /\ RunsUsed(o) + Cardinality(InFlight(o)) <= ceiling[o] - 1 + peak[o]
    <3> DEFINE top == ceiling[o]
               flight == Cardinality(InFlight(o))
               used == RunsUsed(o)
    <3>1. /\ TierLimit[tier[o]]["agent_run"] = top /\ top \in Nat \ {0}
          /\ peak[o] = 0 /\ flight = 0 /\ used = 0
      BY <2>2
    <3> HIDE DEF top, flight, used
    <3>2. /\ TierLimit[tier[o]]["agent_run"] <= top /\ peak[o] \in Nat /\ flight <= peak[o]
          /\ used + flight <= top - 1 + peak[o]
      BY <3>1
    <3> QED
      BY <3>2 DEF top, flight, used
  <2>4. WatchSees /\ UsageWithinQuota
    BY <2>2, <2>3 DEF WatchSees, UsageWithinQuota
  <2> QED
    BY <2>1, <2>4
<1>2. BookingInv /\ TypeOK /\ Inv /\ [Next]_vars => Inv'
  <2> SUFFICES ASSUME BookingInv, TypeOK, Inv, [Next]_vars PROVE Inv'
    OBVIOUS
  <2>0. /\ TenantTypes /\ ProxyTypes /\ UsageTypes /\ RunComesLate /\ Booking
        /\ BillingTypeOK
    BY DEF BookingInv, Isolation, TypeOK
  <2>1. UsageIsPast'
    BY <2>0, UsageIsPastStep
  <2>2. CASE UNCHANGED vars
    BY <2>1, <2>2 DEF vars, billingVars, proxyVars, runtimeVars, usageVars, watchVars, clockVars,
         WatchSees, UsageWithinQuota, InFlight, RunsUsed, Used, Units
  <2>3. CASE Next
    <3>1. BillingTypeOK'
      BY <2>0, BillingTypesStep
    <3>2. WatchSees'
      BY <2>3, <3>1, WatchGrows DEF WatchSees
    <3>3. UsageWithinQuota'
      BY <2>0, <2>3, QuotaStep DEF UsageWithinQuota
    <3> QED
      BY <2>1, <3>2, <3>3
  <2> QED
    BY <2>2, <2>3
<1>3. Inv => UsageWithinQuota
  OBVIOUS
<1> QED
  BY <1>1, <1>2, <1>3, BookingInvariant, TypeCorrect, PTL DEF Spec

-----------------------------------------------------------------------------
(* The tier that is paid for.                                               *)

\* Visits of an org share its customers, and a customer that is shared is stored.
CheckoutsLinked ==
  /\ \A v \in Visits :
       /\ visit[v].stage # "open" => visit[v].status = "none"
       /\ visit[v].stage # "unused" =>
            /\ visit[v].customer \in Visits
            /\ visit[visit[v].customer].org = visit[v].org
            /\ visit[visit[v].customer].stage # "unused"
            /\ visit[v].customer # v => visit[visit[v].customer].stage = "open"
  /\ \A o \in Orgs : customer[o] # None =>
       visit[customer[o]].stage = "open" /\ visit[customer[o]].org = o
  /\ \A i \in 1 .. Len(outbox) : visit[outbox[i].visit].status # "none"

\* What Stripe holds on an org's live subscriptions.
Papers(o) == {[status |-> visit[v].status, plan |-> visit[v].plan] : v \in Live(o)}

TierFits(papers, t) ==
  IF papers = {} THEN t = "free"
  ELSE \A paper \in papers : t = IF paper.status = "active" THEN paper.plan ELSE "past_due"

RowFits(papers, row) ==
  /\ \A paper \in papers : row = paper
  /\ papers = {} => row.status \in {"inactive", "canceled"}

\* The events of an org that set its tier, and those that set its row; of each
\* kind, those that tell what Stripe holds now.
SetsTier(e) == Upgrades(e) \/ e.kind \in {"deleted", "payment_failed"}

SetsRow(e) == e.kind \in {"subscription", "deleted"}

RowOf(e) == [status |-> e.status, plan |-> e.plan]

TierEvents(o) ==
  {i \in 1 .. Len(outbox) : visit[outbox[i].visit].org = o /\ SetsTier(outbox[i])}

RowEvents(o) ==
  {i \in 1 .. Len(outbox) : visit[outbox[i].visit].org = o /\ SetsRow(outbox[i])}

TierTruths(o) == {i \in TierEvents(o) : TierFits(Papers(o), NewTier(outbox[i], "free"))}

RowTruths(o) == {i \in RowEvents(o) : RowFits(Papers(o), RowOf(outbox[i]))}

\* The newest of some events is true.
LastIsTrue(events, truths) == \A i \in events : i \in truths \/ \E j \in events : i < j

OneLive(o) == \A v, w \in Live(o) : v = w

\* What is stored is true or will be told anew, and what is told last is true.
Told(o) ==
  /\ OneLive(o)
  /\ TierFits(Papers(o), tier[o]) \/ TierEvents(o) # {}
  /\ LastIsTrue(TierEvents(o), TierTruths(o))
  /\ RowFits(Papers(o), subRow[o]) \/ RowEvents(o) # {}
  /\ LastIsTrue(RowEvents(o), RowTruths(o))

PaymentsTold == \A o \in Orgs : tidy[o] /\ CustomerKnown(o) => Told(o)

\* The tier of the invariant is EntitledTier.
LEMMA FitsIsEntitled ==
  ASSUME NEW o, OneLive(o), TierFits(Papers(o), tier[o])
  PROVE  tier[o] = EntitledTier(o)
<1>1. CASE Live(o) = {}
  BY <1>1 DEF TierFits, Papers, EntitledTier
<1>2. ASSUME NEW v \in Live(o) PROVE tier[o] = EntitledTier(o)
  <2>1. (CHOOSE w \in Live(o) : TRUE) = v
    BY DEF OneLive
  <2> DEFINE paper == [status |-> visit[v].status, plan |-> visit[v].plan]
  <2>2. paper \in Papers(o)
    BY DEF Papers
  <2>3. tier[o] = IF paper.status = "active" THEN paper.plan ELSE "past_due"
    BY <2>2 DEF TierFits
  <2> QED
    BY <2>1, <2>3 DEF EntitledTier
<1> QED
  BY <1>1, <1>2

\* An event that is taken from the outbox closes the gap it leaves.
LEMMA Removed ==
  ASSUME outbox \in Seq(Events), NEW i \in 1 .. Len(outbox),
         outbox' = SubSeq(outbox, 1, i - 1) \o SubSeq(outbox, i + 1, Len(outbox))
  PROVE  /\ Len(outbox') = Len(outbox) - 1
         /\ \A k \in 1 .. Len(outbox) - 1 : outbox'[k] = outbox[IF k < i THEN k ELSE k + 1]
<1> DEFINE old == SubSeq(outbox, 1, i - 1)
           new == SubSeq(outbox, i + 1, Len(outbox))
           n == Len(outbox)
<1>1. n \in Nat /\ i \in 1 .. n
  OBVIOUS
<1>2. /\ old \in Seq(Events) /\ Len(old) = i - 1
      /\ \A k \in 1 .. i - 1 : old[k] = outbox[k]
  OBVIOUS
<1>3. /\ new \in Seq(Events) /\ Len(new) = n - i
      /\ \A k \in 1 .. n - i : new[k] = outbox[k + i]
  OBVIOUS
<1> HIDE DEF old, new
<1>4. /\ Len(old \o new) = Len(old) + Len(new)
      /\ \A k \in 1 .. Len(old) + Len(new) :
           (old \o new)[k] = IF k <= Len(old) THEN old[k] ELSE new[k - Len(old)]
  BY <1>2, <1>3, ConcatProperties
<1>5. outbox' = old \o new
  BY DEF old, new
<1> DEFINE all == Len(old \o new)
           head == Len(old)
           tail == Len(new)
<1>6. /\ all = head + tail /\ head = i - 1 /\ tail = n - i
      /\ \A k \in 1 .. head + tail :
           (old \o new)[k] = IF k <= head THEN old[k] ELSE new[k - head]
  BY <1>2, <1>3, <1>4
<1> HIDE DEF n, all, head, tail
<1>7. all = n - 1
  BY ONLY <1>1, <1>6
<1>8. ASSUME NEW k \in 1 .. n - 1
      PROVE  outbox'[k] = outbox[IF k < i THEN k ELSE k + 1]
  <2>1. outbox'[k] = IF k <= i - 1 THEN old[k] ELSE new[k - (i - 1)]
    <3>1. head + tail = n - 1
      BY ONLY <1>1, <1>6
    <3>2. (old \o new)[k] = IF k <= head THEN old[k] ELSE new[k - head]
      BY <1>6, <1>8, <3>1
    <3> QED
      BY <1>5, <1>6, <3>2
  <2>2. CASE k < i
    <3>1. k \in 1 .. i - 1 /\ k <= i - 1
      BY ONLY <1>1, <1>8, <2>2
    <3>2. old[k] = outbox[k]
      BY ONLY <1>2, <3>1
    <3> QED
      BY <2>1, <2>2, <3>1, <3>2
  <2>3. CASE ~(k < i)
    <3>1. k - (i - 1) \in 1 .. n - i /\ k - (i - 1) + i = k + 1 /\ ~(k <= i - 1)
      BY <1>1, <2>3
    <3>2. new[k - (i - 1)] = outbox[k + 1]
      BY <1>3, <3>1
    <3> QED
      BY <2>1, <2>3, <3>1, <3>2
  <2> QED
    BY <2>2, <2>3
<1> QED
  BY <1>5, <1>7, <1>8 DEF n, all

\* Event i of n is taken and the others move up; of the events that count it may
\* be the oldest, or none.
Taken(n, i, events, truths, left, leftTruths) ==
  /\ n \in Nat /\ i \in 1 .. n
  /\ events \in SUBSET (1 .. n) /\ left \in SUBSET (1 .. n - 1)
  /\ \A k \in 1 .. n - 1 :
       /\ k \in left <=> (IF k < i THEN k ELSE k + 1) \in events
       /\ k \in left /\ (IF k < i THEN k ELSE k + 1) \in truths => k \in leftTruths
  /\ i \in events => \A k \in events : i <= k

\* Taking the oldest of an org's events, or one of another org, keeps the newest.
LEMMA LastStays ==
  ASSUME NEW n, NEW i, NEW events, NEW truths, NEW left, NEW leftTruths,
         Taken(n, i, events, truths, left, leftTruths), LastIsTrue(events, truths)
  PROVE  /\ LastIsTrue(left, leftTruths)
         /\ left = {} => events \subseteq {i}
         /\ left = {} /\ i \in events => i \in truths
<1> USE DEF Taken
<1>1. ASSUME NEW m \in events, m # i
      PROVE  \E k \in left : m = (IF k < i THEN k ELSE k + 1)
  <2>1. CASE m < i
    <3>1. m \in 1 .. n - 1
      BY <2>1
    <3> QED
      BY <2>1, <3>1
  <2>2. CASE m > i
    <3>1. m - 1 \in 1 .. n - 1 /\ ~(m - 1 < i) /\ m - 1 + 1 = m
      BY <2>2
    <3>2. m - 1 \in left
      BY <3>1
    <3> QED
      BY <3>1, <3>2
  <2> QED
    BY <1>1, <2>1, <2>2
<1>2. ASSUME NEW k \in left
      PROVE  k \in leftTruths \/ \E j \in left : k < j
  <2> DEFINE m == IF k < i THEN k ELSE k + 1
  <2>1. m \in events /\ m \in Nat /\ k \in Nat
    BY <1>2
  <2>2. CASE m \in truths
    BY <1>2, <2>2
  <2>3. ASSUME NEW p \in events, m < p
        PROVE  \E j \in left : k < j
    <3>1. p # i
      BY <2>1, <2>3
    <3>2. PICK j \in left : p = (IF j < i THEN j ELSE j + 1)
      BY <1>1, <3>1
    <3>3. k < j
      BY <2>3, <3>2
    <3> QED
      BY <3>3
  <2> QED
    BY <2>1, <2>2, <2>3 DEF LastIsTrue
<1>3. ASSUME left = {} PROVE events \subseteq {i}
  BY <1>1, <1>3
<1>4. ASSUME left = {}, i \in events PROVE i \in truths
  <2>1. ~ \E j \in events : i < j
    BY <1>3, <1>4
  <2> QED
    BY <1>4, <2>1 DEF LastIsTrue
<1> QED
  BY <1>2, <1>3, <1>4 DEF LastIsTrue

\* News that is all true, and not empty, is the newest.
LEMMA NewsIsTrue ==
  ASSUME NEW n \in Nat, NEW events \in SUBSET Nat, NEW truths,
         \A k \in events : n < k => k \in truths,
         \E k \in events : n < k
  PROVE  events # {} /\ LastIsTrue(events, truths)
<1>1. ASSUME NEW i \in events, i \notin truths
      PROVE  \E j \in events : i < j
  BY <1>1
<1> QED
  BY <1>1 DEF LastIsTrue

Kinds == {"checkout", "subscription", "deleted", "payment_failed"}

\* What Stripe tells comes behind what it told, with the visit's plan and status.
LEMMA Appended ==
  ASSUME outbox \in Seq(Events), NEW v \in Visits, NEW kinds \in Seq(Kinds), Tells(v, kinds)
  PROVE  /\ Len(outbox') = Len(outbox) + Len(kinds)
         /\ \A k \in 1 .. Len(outbox) : outbox'[k] = outbox[k]
         /\ \A k \in 1 .. Len(outbox) + Len(kinds) : Len(outbox) < k =>
              \E j \in 1 .. Len(kinds) : outbox'[k] = Event(kinds[j], v)
         /\ \A j \in 1 .. Len(kinds) : \E k \in 1 .. Len(outbox) + Len(kinds) :
              Len(outbox) < k /\ outbox'[k] = Event(kinds[j], v)
<1> DEFINE n == Len(outbox)
           m == Len(kinds)
           forth == [i \in 1 .. m |-> Event(kinds[i], v)]
           back == [i \in 1 .. m |-> Event(kinds[m + 1 - i], v)]
<1>1. n \in Nat /\ m \in Nat
  OBVIOUS
<1>2. PICK news : /\ outbox' = outbox \o news
                  /\ news = forth \/ news = back
  BY DEF Tells
<1>3. /\ news \in Seq({Event(kinds[j], v) : j \in 1 .. m}) /\ Len(news) = m
      /\ \A i \in 1 .. m : \E j \in 1 .. m : news[i] = Event(kinds[j], v)
      /\ \A j \in 1 .. m : \E i \in 1 .. m : news[i] = Event(kinds[j], v)
  <2>1. CASE news = forth
    BY <1>1, <2>1
  <2>2. CASE news = back
    <3>1. \A i \in 1 .. m : m + 1 - i \in 1 .. m /\ m + 1 - (m + 1 - i) = i
      BY <1>1
    <3>2. \A i \in 1 .. m : news[i] = Event(kinds[m + 1 - i], v)
      BY <2>2
    <3>3. news \in [1 .. m -> {Event(kinds[j], v) : j \in 1 .. m}]
      BY <2>2, <3>1
    <3>4. news \in Seq({Event(kinds[j], v) : j \in 1 .. m}) /\ Len(news) = m
      <4>1. Len(news) = m
        BY <1>1, <2>2
      <4>2. news \in Seq({Event(kinds[j], v) : j \in 1 .. m})
        <5>1. \A i \in 1 .. m : Event(kinds[m + 1 - i], v) \in {Event(kinds[j], v) : j \in 1 .. m}
          BY <3>1
        <5>2. m \in Nat
          BY <1>1
        <5>3. ASSUME NEW S, \A i \in 1 .. m : Event(kinds[m + 1 - i], v) \in S
              PROVE  back \in Seq(S)
          BY <5>2, <5>3
        <5> QED
          BY <2>2, <5>1, <5>3
      <4> QED
        BY <4>1, <4>2
    <3>5. ASSUME NEW j \in 1 .. m PROVE \E i \in 1 .. m : news[i] = Event(kinds[j], v)
      <4>1. news[m + 1 - j] = Event(kinds[m + 1 - (m + 1 - j)], v)
        BY <3>1, <3>2
      <4> QED
        BY <3>1, <4>1
    <3> QED
      BY <3>1, <3>2, <3>4, <3>5
  <2> QED
    BY <1>2, <2>1, <2>2
<1>4. /\ Len(outbox \o news) = n + m
      /\ \A k \in 1 .. n + m :
           (outbox \o news)[k] = IF k <= n THEN outbox[k] ELSE news[k - n]
  <2>1. /\ outbox \in Seq(Events \cup {Event(kinds[j], v) : j \in 1 .. m})
        /\ news \in Seq(Events \cup {Event(kinds[j], v) : j \in 1 .. m})
    BY <1>3
  <2>2. /\ Len(outbox \o news) = Len(outbox) + Len(news)
        /\ \A k \in 1 .. Len(outbox) + Len(news) :
             (outbox \o news)[k] = IF k <= Len(outbox) THEN outbox[k] ELSE news[k - Len(outbox)]
    BY ONLY <2>1, ConcatProperties
  <2>3. Len(news) = m /\ Len(outbox) = n
    BY <1>3
  <2> HIDE DEF n, m
  <2> QED
    BY ONLY <2>2, <2>3
<1> HIDE DEF n, m, forth, back
<1>5. ASSUME NEW k \in 1 .. n + m, n < k
      PROVE  \E j \in 1 .. m : outbox'[k] = Event(kinds[j], v)
  <2>1. k - n \in 1 .. m /\ ~(k <= n)
    BY <1>1, <1>5
  <2>2. outbox'[k] = news[k - n]
    BY ONLY <1>2, <1>4, <1>5, <2>1
  <2> QED
    BY <1>3, <2>1, <2>2
<1>6. ASSUME NEW j \in 1 .. m
      PROVE  \E k \in 1 .. n + m : n < k /\ outbox'[k] = Event(kinds[j], v)
  <2>1. PICK i \in 1 .. m : news[i] = Event(kinds[j], v)
    BY <1>3
  <2>2. \E k \in 1 .. n + m : n < k /\ ~(k <= n) /\ k - n = i
    <3>1. n + i \in 1 .. n + m /\ n < n + i /\ ~(n + i <= n) /\ n + i - n = i
      BY <1>1
    <3> QED
      BY <1>1, <3>1
  <2>3. PICK k \in 1 .. n + m : n < k /\ ~(k <= n) /\ k - n = i
    BY <2>2
  <2>4. (outbox \o news)[k] = news[k - n]
    BY ONLY <1>4, <2>3
  <2>5. outbox'[k] = news[i]
    BY ONLY <1>2, <2>3, <2>4
  <2> QED
    BY <2>1, <2>3, <2>5
<1>7. ASSUME NEW k \in 1 .. n PROVE outbox'[k] = outbox[k]
  <2>1. k \in 1 .. n + m /\ k <= n
    BY <1>1
  <2> QED
    BY <1>2, <1>4, <2>1
<1> QED
  BY <1>2, <1>4, <1>5, <1>6, <1>7 DEF n, m

\* The papers of an org hang on its live visits only.
LEMMA SamePapers ==
  ASSUME NEW o, Live(o)' = Live(o),
         \A v \in Live(o) : visit'[v].status = visit[v].status /\ visit'[v].plan = visit[v].plan
  PROVE  Papers(o)' = Papers(o) /\ (OneLive(o) => OneLive(o)')
BY DEF Papers, OneLive

\* A visit that is not paid changes no paper and no event: its org may have it anew.
LEMMA UnpaidChangesNothing ==
  ASSUME BillingTypeOK, CheckoutsLinked, NEW o \in Orgs, Told(o),
         UNCHANGED <<tier, subRow, outbox>>,
         \A w \in Visits :
           /\ visit'[w].status = visit[w].status
           /\ visit[w].status # "none" =>
                visit'[w].org = visit[w].org /\ visit'[w].plan = visit[w].plan
  PROVE  Told(o)'
<1>1. \A w \in Visits : w \in Live(o)' <=> w \in Live(o)
  BY DEF Live
<1>2. Live(o)' = Live(o)
  BY <1>1 DEF Live
<1>3. Papers(o)' = Papers(o) /\ OneLive(o)'
  <2>1. \A v \in Live(o) : visit'[v].status = visit[v].status /\ visit'[v].plan = visit[v].plan
    BY DEF Live
  <2> QED
    BY <1>2, <2>1, SamePapers DEF Told
<1>4. TierEvents(o)' = TierEvents(o) /\ RowEvents(o)' = RowEvents(o)
  <2>1. \A i \in 1 .. Len(outbox) : visit'[outbox[i].visit].org = visit[outbox[i].visit].org
    <3>0. \A i \in 1 .. Len(outbox) : outbox[i] \in Events
      BY DEF BillingTypeOK
    <3>1. \A i \in 1 .. Len(outbox) : outbox[i].visit \in Visits
      BY <3>0 DEF Events
    <3> QED
      BY <3>1 DEF CheckoutsLinked
  <2> QED
    BY <2>1 DEF TierEvents, RowEvents
<1>5. TierTruths(o)' = TierTruths(o) /\ RowTruths(o)' = RowTruths(o)
  BY <1>3, <1>4 DEF TierTruths, RowTruths
<1> QED
  BY <1>3, <1>4, <1>5 DEF Told

\* A subscription that starts or changes is told at once.
LEMMA OwnNewsTold ==
  ASSUME BillingTypeOK, NEW o \in Orgs, NEW v \in Visits,
         NEW to, NEW plan, NEW kinds \in Seq(Kinds),
         Tells(v, kinds), Live(o)' \subseteq {v},
         visit'[v].org = o, visit'[v].plan = plan, visit'[v].status = to,
         \/ to = "active" /\ kinds \in {<<"checkout", "subscription">>, <<"subscription">>}
         \/ to = "past_due" /\ kinds = <<"payment_failed", "subscription">>
         \/ to = "canceled" /\ kinds = <<"deleted">>
  PROVE  Told(o)'
<1> DEFINE n == Len(outbox)
           m == Len(kinds)
           papers == IF to = "canceled" THEN {} ELSE {[status |-> to, plan |-> plan]}
<1>1. outbox \in Seq(Events)
  BY DEF BillingTypeOK
<1>2. n \in Nat /\ m \in Nat /\ Len(outbox') = n + m
  BY <1>1, Appended
<1>3. Papers(o)' = papers
  <2>1. Live(o)' = IF to = "canceled" THEN {} ELSE {v}
    BY DEF Live
  <2> QED
    BY <2>1 DEF Papers
<1>4. OneLive(o)'
  BY DEF OneLive
<1>5. \A kind : /\ Event(kind, v).kind = kind /\ Event(kind, v).visit = v
                /\ Event(kind, v).status = to /\ Event(kind, v).plan = plan
  BY DEF Event
<1>6. ASSUME NEW k \in 1 .. n + m, n < k
      PROVE  /\ visit'[outbox'[k].visit].org = o
             /\ SetsTier(outbox'[k]) => TierFits(papers, NewTier(outbox'[k], "free"))
             /\ SetsRow(outbox'[k]) => RowFits(papers, RowOf(outbox'[k]))
  <2>1. PICK j \in 1 .. m : outbox'[k] = Event(kinds[j], v)
    BY <1>1, <1>6, Appended
  <2> DEFINE e == Event(kinds[j], v)
  <2>2. e.visit = v /\ e.kind = kinds[j] /\ e.plan = plan /\ e.status = to
    BY <1>5
  <2>3. \/ to = "active" /\ kinds[j] \in {"checkout", "subscription"}
        \/ to = "past_due" /\ kinds[j] \in {"payment_failed", "subscription"}
        \/ to = "canceled" /\ kinds[j] = "deleted"
    OBVIOUS
  <2> HIDE DEF e
  <2>4. SetsTier(e) => TierFits(papers, NewTier(e, "free"))
    <3>1. SetsTier(e) => NewTier(e, "free") =
            IF to = "canceled" THEN "free" ELSE IF to = "active" THEN plan ELSE "past_due"
      BY <2>2, <2>3 DEF SetsTier, Upgrades, NewTier
    <3>2. \A t : t = (IF to = "canceled" THEN "free" ELSE IF to = "active" THEN plan ELSE "past_due")
                => TierFits(papers, t)
      <4>1. /\ papers = {} <=> to = "canceled"
            /\ \A paper \in papers : paper.status = to /\ paper.plan = plan
        <5> DEFINE held == [status |-> to, plan |-> plan]
        <5>1. held.status = to /\ held.plan = plan
          OBVIOUS
        <5>2. papers = IF to = "canceled" THEN {} ELSE {held}
          OBVIOUS
        <5> HIDE DEF held, papers
        <5> QED
          BY ONLY <5>1, <5>2
      <4> HIDE DEF papers
      <4> QED
        BY <4>1 DEF TierFits
    <3> QED
      BY <3>1, <3>2
  <2>5. SetsRow(e) => RowFits(papers, RowOf(e))
    BY <2>2, <2>3 DEF RowFits, RowOf
  <2>6. outbox'[k] = e
    BY <2>1 DEF e
  <2> QED
    BY <2>2, <2>4, <2>5, <2>6
<1>7. /\ \E k \in 1 .. n + m : n < k /\ SetsTier(outbox'[k])
      /\ \E k \in 1 .. n + m : n < k /\ SetsRow(outbox'[k])
  <2>1. \A j \in 1 .. m : \E k \in 1 .. n + m : n < k /\ outbox'[k] = Event(kinds[j], v)
    BY <1>1, Appended
  <2>2. /\ \E j \in 1 .. m : SetsTier(Event(kinds[j], v))
        /\ \E j \in 1 .. m : SetsRow(Event(kinds[j], v))
    <3>1. CASE to = "active"
      <4>1. PICK j \in 1 .. m : kinds[j] = "subscription"
        <5>1. CASE kinds = <<"subscription">>
          BY <5>1
        <5>2. CASE kinds = <<"checkout", "subscription">>
          BY <5>2
        <5> QED
          BY <3>1, <5>1, <5>2
      <4>2. SetsTier(Event(kinds[j], v)) /\ SetsRow(Event(kinds[j], v))
        BY <1>5, <3>1, <4>1 DEF SetsTier, SetsRow, Upgrades
      <4> QED
        BY <4>2
    <3>2. CASE to = "past_due"
      <4>0. kinds = <<"payment_failed", "subscription">>
        BY <3>2
      <4>1. 1 \in 1 .. m /\ kinds[1] = "payment_failed"
        BY <4>0
      <4>2. 2 \in 1 .. m /\ kinds[2] = "subscription"
        BY <4>0
      <4>3. SetsTier(Event(kinds[1], v))
        BY <1>5, <4>1 DEF SetsTier
      <4>4. SetsRow(Event(kinds[2], v))
        BY <1>5, <4>2 DEF SetsRow
      <4> QED
        BY <4>1, <4>2, <4>3, <4>4
    <3>3. CASE to = "canceled"
      <4>0. kinds = <<"deleted">>
        BY <3>3
      <4>1. 1 \in 1 .. m /\ kinds[1] = "deleted"
        BY <4>0
      <4>2. SetsTier(Event(kinds[1], v)) /\ SetsRow(Event(kinds[1], v))
        BY <1>5, <4>1 DEF SetsTier, SetsRow
      <4> QED
        BY <4>1, <4>2
    <3> QED
      BY <3>1, <3>2, <3>3
  <2> HIDE DEF n, m
  <2> QED
    BY <2>1, <2>2
<1> HIDE DEF n, m, papers
<1>8. /\ TierEvents(o)' \in SUBSET (1 .. n + m) /\ RowEvents(o)' \in SUBSET (1 .. n + m)
      /\ \E k \in TierEvents(o)' : n < k
      /\ \E k \in RowEvents(o)' : n < k
  BY <1>2, <1>6, <1>7 DEF TierEvents, RowEvents
<1>9. /\ \A k \in TierEvents(o)' : n < k => k \in TierTruths(o)'
      /\ \A k \in RowEvents(o)' : n < k => k \in RowTruths(o)'
  <2>1. \A k \in TierEvents(o)' : SetsTier(outbox'[k])
    BY DEF TierEvents
  <2>2. \A k \in RowEvents(o)' : SetsRow(outbox'[k])
    BY DEF RowEvents
  <2> QED
    BY <1>3, <1>6, <1>8, <2>1, <2>2 DEF TierTruths, RowTruths
<1>10. 1 .. n + m \subseteq Nat
  BY <1>2
<1> QED
  BY <1>2, <1>4, <1>8, <1>9, <1>10, NewsIsTrue DEF Told

\* What is told of another org's subscription is nothing to this one.
LEMMA OthersNewsTold ==
  ASSUME BillingTypeOK, CheckoutsLinked, NEW o \in Orgs, Told(o),
         tier'[o] = tier[o], subRow'[o] = subRow[o],
         NEW v \in Visits, NEW kinds \in Seq(Kinds), Tells(v, kinds),
         visit[v].org # o, visit'[v].org # o, \A w \in Visits \ {v} : visit'[w] = visit[w]
  PROVE  Told(o)'
<1> DEFINE n == Len(outbox)
           m == Len(kinds)
<1>1. outbox \in Seq(Events)
  BY DEF BillingTypeOK
<1>2. n \in Nat /\ m \in Nat /\ Len(outbox') = n + m
  BY <1>1, Appended
<1>3. Papers(o)' = Papers(o) /\ OneLive(o)'
  <2>1. Live(o)' = Live(o) /\ v \notin Live(o)
    BY DEF Live
  <2>2. \A w \in Live(o) : visit'[w] = visit[w]
    BY <2>1 DEF Live
  <2> QED
    BY <2>1, <2>2, SamePapers DEF Told
<1>4. ASSUME NEW k \in 1 .. n
      PROVE  /\ outbox'[k] = outbox[k] /\ k \in 1 .. n + m
             /\ visit'[outbox[k].visit].org = o <=> visit[outbox[k].visit].org = o
  <2>1. outbox'[k] = outbox[k]
    BY <1>1, Appended
  <2>2. outbox[k] \in Events
    BY <1>1
  <2>3. outbox[k].visit \in Visits
    BY <2>2 DEF Events
  <2> HIDE DEF n, m
  <2> QED
    BY <1>2, <2>1, <2>3
<1>5. ASSUME NEW k \in 1 .. n + m, n < k
      PROVE  visit'[outbox'[k].visit].org # o
  <2>1. PICK j \in 1 .. m : outbox'[k] = Event(kinds[j], v)
    BY <1>1, <1>5, Appended
  <2> QED
    BY <2>1 DEF Event
<1> HIDE DEF n, m
<1>6. \A k \in 1 .. n + m : k \in 1 .. n \/ n < k
  BY <1>2
<1>7. /\ TierEvents(o)' = TierEvents(o) /\ RowEvents(o)' = RowEvents(o)
      /\ TierEvents(o) \subseteq 1 .. n /\ RowEvents(o) \subseteq 1 .. n
  <2>1. TierEvents(o) = {k \in 1 .. n : visit[outbox[k].visit].org = o /\ SetsTier(outbox[k])}
    BY DEF TierEvents, n
  <2>2. TierEvents(o)' = {k \in 1 .. n + m : visit'[outbox'[k].visit].org = o /\ SetsTier(outbox'[k])}
    BY <1>2 DEF TierEvents
  <2>3. RowEvents(o) = {k \in 1 .. n : visit[outbox[k].visit].org = o /\ SetsRow(outbox[k])}
    BY DEF RowEvents, n
  <2>4. RowEvents(o)' = {k \in 1 .. n + m : visit'[outbox'[k].visit].org = o /\ SetsRow(outbox'[k])}
    BY <1>2 DEF RowEvents
  <2> QED
    BY <1>4, <1>5, <1>6, <2>1, <2>2, <2>3, <2>4
<1>8. TierTruths(o)' = TierTruths(o) /\ RowTruths(o)' = RowTruths(o)
  BY <1>3, <1>4, <1>7 DEF TierTruths, RowTruths
<1> QED
  BY <1>3, <1>7, <1>8 DEF Told

\* Which org a paid visit's event is for: its own, if it knows the customer.
LEMMA EventsGoHome ==
  ASSUME BillingTypeOK, CheckoutsLinked, NEW o \in Orgs, CustomerKnown(o),
         NEW i \in 1 .. Len(outbox)
  PROVE  o \in OrgsOf(outbox[i]) <=> visit[outbox[i].visit].org = o
<1> DEFINE e == outbox[i]
           v == e.visit
<1>1. e \in Events
  BY DEF BillingTypeOK
<1>2. v \in Visits /\ visit[v].status # "none" /\ visit[v].stage # "unused"
  BY <1>1 DEF Events, CheckoutsLinked
<1>3. CASE e.kind = "checkout"
  BY <1>3 DEF OrgsOf
<1>4. CASE e.kind # "checkout"
  <2>1. o \in OrgsOf(e) <=> customer[o] = visit[v].customer
    BY <1>4 DEF OrgsOf
  <2>2. visit[v].org = o => customer[o] = visit[v].customer
    BY <1>2 DEF CustomerKnown
  <2>3. /\ visit[v].customer # None /\ visit[visit[v].customer].org = visit[v].org
    BY <1>2, NoneAssumption DEF CheckoutsLinked
  <2>4. customer[o] # None => visit[customer[o]].org = o
    BY DEF CheckoutsLinked
  <2> QED
    BY <2>1, <2>2, <2>3, <2>4
<1> QED
  BY <1>3, <1>4

\* Stripe's oldest event of an org, or one of another org, is handled: in full, in
\* part, or without Stripe hearing of it.
LEMMA HandledTold ==
  ASSUME BillingTypeOK, CheckoutsLinked, NEW o \in Orgs, tidy'[o], CustomerKnown(o), Told(o),
         NEW i \in 1 .. Len(outbox),
         HandleEvent(i) \/ HandleUnacknowledged(i) \/ HandleHalf(i)
  PROVE  Told(o)'
<1> DEFINE n == Len(outbox)
           mine == visit[outbox[i].visit].org = o
<1>1. outbox \in Seq(Events) /\ n \in Nat /\ i \in 1 .. n
  BY DEF BillingTypeOK
<1>2. visit' = visit /\ WriteTier(outbox[i]) /\ Remember(i)
  BY DEF HandleEvent, HandleUnacknowledged, HandleHalf
<1>3. Papers(o)' = Papers(o) /\ OneLive(o)'
  BY <1>2 DEF Papers, Live, OneLive, Told
<1>4. mine <=> o \in OrgsOf(outbox[i])
  BY EventsGoHome
<1>5. mine => \A k \in 1 .. n : visit[outbox[k].visit].org = o => i <= k
  <2>1. mine => ~Overtakes(i)
    BY <1>2 DEF Remember, BillingTypeOK
  <2>2. ASSUME mine, NEW k \in 1 .. n, visit[outbox[k].visit].org = o, ~(i <= k)
        PROVE  FALSE
    <3>1. k \in 1 .. i - 1
      BY <1>1, <2>2
    <3> QED
      BY <2>1, <2>2, <3>1 DEF Overtakes
  <2> QED
    BY <2>2
<1>6. tier'[o] = IF mine THEN NewTier(outbox[i], tier[o]) ELSE tier[o]
  BY <1>2, <1>4 DEF WriteTier
<1>7. \/ subRow'[o] = subRow[o] /\ outbox' = outbox
      \/ subRow'[o] = IF mine /\ SetsRow(outbox[i]) THEN RowOf(outbox[i]) ELSE subRow[o]
  BY <1>4 DEF HandleEvent, HandleUnacknowledged, HandleHalf, WriteRow, SetsRow, RowOf
<1>8. /\ i \in TierEvents(o) <=> mine /\ SetsTier(outbox[i])
      /\ i \in RowEvents(o) <=> mine /\ SetsRow(outbox[i])
  BY DEF TierEvents, RowEvents
<1>9. /\ i \notin TierEvents(o) => tier'[o] = tier[o]
      /\ i \in TierEvents(o) => tier'[o] = NewTier(outbox[i], "free")
  BY <1>6, <1>8 DEF SetsTier, NewTier
<1>10. /\ i \in TierEvents(o) => \A k \in TierEvents(o) : i <= k
       /\ i \in RowEvents(o) => \A k \in RowEvents(o) : i <= k
  BY <1>5, <1>8 DEF TierEvents, RowEvents
<1>11. CASE outbox' = outbox
  <2>1. /\ TierEvents(o)' = TierEvents(o) /\ RowEvents(o)' = RowEvents(o)
        /\ TierTruths(o)' = TierTruths(o) /\ RowTruths(o)' = RowTruths(o)
    BY <1>2, <1>3, <1>11 DEF TierEvents, RowEvents, TierTruths, RowTruths
  <2>2. TierFits(Papers(o), tier'[o]) \/ TierEvents(o) # {}
    BY <1>9 DEF Told
  <2>3. RowFits(Papers(o), subRow'[o]) \/ RowEvents(o) # {}
    BY <1>7, <1>8 DEF Told
  <2> QED
    BY <1>3, <2>1, <2>2, <2>3 DEF Told
<1>12. CASE outbox' # outbox
  <2>1. /\ outbox' = SubSeq(outbox, 1, i - 1) \o SubSeq(outbox, i + 1, Len(outbox))
        /\ subRow'[o] = IF mine /\ SetsRow(outbox[i]) THEN RowOf(outbox[i]) ELSE subRow[o]
    BY <1>7, <1>12 DEF HandleEvent, HandleUnacknowledged, HandleHalf
  <2>2. /\ Len(outbox') = n - 1
        /\ \A k \in 1 .. n - 1 : outbox'[k] = outbox[IF k < i THEN k ELSE k + 1]
    BY <1>1, <2>1, Removed
  <2> HIDE DEF n, mine
  <2>3. /\ TierEvents(o) \in SUBSET (1 .. n) /\ RowEvents(o) \in SUBSET (1 .. n)
        /\ TierEvents(o)' \in SUBSET (1 .. n - 1) /\ RowEvents(o)' \in SUBSET (1 .. n - 1)
    BY <2>2 DEF TierEvents, RowEvents, n
  <2>4. ASSUME NEW k \in 1 .. n - 1
        PROVE  LET m == IF k < i THEN k ELSE k + 1
               IN /\ k \in TierEvents(o)' <=> m \in TierEvents(o)
                  /\ k \in RowEvents(o)' <=> m \in RowEvents(o)
                  /\ k \in TierEvents(o)' /\ m \in TierTruths(o) => k \in TierTruths(o)'
                  /\ k \in RowEvents(o)' /\ m \in RowTruths(o) => k \in RowTruths(o)'
    <3> DEFINE m == IF k < i THEN k ELSE k + 1
    <3>1. m \in 1 .. n
      BY <1>1
    <3>2. outbox'[k] = outbox[m]
      BY <2>2
    <3> HIDE DEF m
    <3>3. /\ m \in TierEvents(o) <=> visit[outbox[m].visit].org = o /\ SetsTier(outbox[m])
          /\ m \in RowEvents(o) <=> visit[outbox[m].visit].org = o /\ SetsRow(outbox[m])
      BY <3>1 DEF TierEvents, RowEvents, n
    <3>4. /\ k \in TierEvents(o)' <=> visit[outbox[m].visit].org = o /\ SetsTier(outbox[m])
          /\ k \in RowEvents(o)' <=> visit[outbox[m].visit].org = o /\ SetsRow(outbox[m])
      BY <1>2, <2>2, <3>2 DEF TierEvents, RowEvents
    <3>5. /\ k \in TierEvents(o)' /\ m \in TierTruths(o) => k \in TierTruths(o)'
          /\ k \in RowEvents(o)' /\ m \in RowTruths(o) => k \in RowTruths(o)'
      BY <1>3, <3>2 DEF TierTruths, RowTruths
    <3> QED
      BY <3>3, <3>4, <3>5 DEF m
  <2>5. /\ LastIsTrue(TierEvents(o)', TierTruths(o)')
        /\ TierEvents(o)' = {} => TierEvents(o) \subseteq {i}
        /\ TierEvents(o)' = {} /\ i \in TierEvents(o) => i \in TierTruths(o)
    <3> DEFINE events == TierEvents(o)
               truths == TierTruths(o)
               left == TierEvents(o)'
               leftTruths == TierTruths(o)'
    <3>1. /\ events \in SUBSET (1 .. n) /\ left \in SUBSET (1 .. n - 1)
          /\ LastIsTrue(events, truths)
          /\ i \in events => \A k \in events : i <= k
      BY <1>10, <2>3 DEF Told
    <3>2. \A k \in 1 .. n - 1 :
            /\ k \in left <=> (IF k < i THEN k ELSE k + 1) \in events
            /\ k \in left /\ (IF k < i THEN k ELSE k + 1) \in truths => k \in leftTruths
      BY <2>4
    <3> HIDE DEF events, truths, left, leftTruths
    <3>3. Taken(n, i, events, truths, left, leftTruths)
      BY <1>1, <3>1, <3>2 DEF Taken
    <3>4. /\ LastIsTrue(left, leftTruths)
          /\ left = {} => events \subseteq {i}
          /\ left = {} /\ i \in events => i \in truths
      BY <3>1, <3>3, LastStays
    <3> QED
      BY <3>4 DEF events, truths, left, leftTruths
  <2>6. /\ LastIsTrue(RowEvents(o)', RowTruths(o)')
        /\ RowEvents(o)' = {} => RowEvents(o) \subseteq {i}
        /\ RowEvents(o)' = {} /\ i \in RowEvents(o) => i \in RowTruths(o)
    <3> DEFINE events == RowEvents(o)
               truths == RowTruths(o)
               left == RowEvents(o)'
               leftTruths == RowTruths(o)'
    <3>1. /\ events \in SUBSET (1 .. n) /\ left \in SUBSET (1 .. n - 1)
          /\ LastIsTrue(events, truths)
          /\ i \in events => \A k \in events : i <= k
      BY <1>10, <2>3 DEF Told
    <3>2. \A k \in 1 .. n - 1 :
            /\ k \in left <=> (IF k < i THEN k ELSE k + 1) \in events
            /\ k \in left /\ (IF k < i THEN k ELSE k + 1) \in truths => k \in leftTruths
      BY <2>4
    <3> HIDE DEF events, truths, left, leftTruths
    <3>3. Taken(n, i, events, truths, left, leftTruths)
      BY <1>1, <3>1, <3>2 DEF Taken
    <3>4. /\ LastIsTrue(left, leftTruths)
          /\ left = {} => events \subseteq {i}
          /\ left = {} /\ i \in events => i \in truths
      BY <3>1, <3>3, LastStays
    <3> QED
      BY <3>4 DEF events, truths, left, leftTruths
  <2>7. TierFits(Papers(o), tier'[o]) \/ TierEvents(o)' # {}
    BY <1>9, <2>5 DEF TierTruths, Told
  <2>8. RowFits(Papers(o), subRow'[o]) \/ RowEvents(o)' # {}
    BY <1>8, <2>1, <2>6 DEF RowTruths, Told
  <2> QED
    BY <1>3, <2>5, <2>6, <2>7, <2>8 DEF Told
<1> QED
  BY <1>11, <1>12

\* The plans of a change of a subscription: what happens to it and what is told.
LEMMA PaidChanges ==
  ASSUME BillingTypeOK, NEW v \in Visits, Pay(v) \/ SubscriptionChanges(v)
  PROVE  /\ UNCHANGED <<tier, customer, subRow>>
         /\ visit[v].status = "none" => visit[v].stage = "open"
         /\ \A w \in Visits \ {v} : visit'[w] = visit[w]
         /\ visit'[v].stage = visit[v].stage /\ visit'[v].org = visit[v].org
         /\ visit'[v].customer = visit[v].customer
         /\ \E to \in Statuses \ {"none"}, plan \in Plans, kinds \in Seq(Kinds) :
              /\ Tells(v, kinds) /\ visit'[v].plan = plan /\ visit'[v].status = to
              /\ \/ to = "active" /\ kinds \in {<<"checkout", "subscription">>, <<"subscription">>}
                 \/ to = "past_due" /\ kinds = <<"payment_failed", "subscription">>
                 \/ to = "canceled" /\ kinds = <<"deleted">>
         /\ \/ visit[v].status \in {"active", "past_due"} /\ tidy' = tidy
            \/ tidy' = [tidy EXCEPT ![visit[v].org] = @ /\ Live(visit[v].org) = {}]
<1>1. /\ visit \in [Visits -> [stage : Stages, org : Orgs, plan : Plans,
                               customer : Visits \cup {None}, status : Statuses]]
      /\ {"active", "past_due", "canceled"} \subseteq Statuses \ {"none"}
  BY DEF BillingTypeOK, Statuses
<1>2. /\ <<"subscription">> \in Seq(Kinds) /\ <<"deleted">> \in Seq(Kinds)
      /\ <<"payment_failed", "subscription">> \in Seq(Kinds)
      /\ <<"checkout", "subscription">> \in Seq(Kinds)
  BY DEF Kinds
<1>3. ASSUME NEW from, NEW to, NEW plan \in Plans, NEW kinds, Changes(v, from, to, plan, kinds)
      PROVE  /\ UNCHANGED <<tier, customer, subRow, tidy>>
             /\ \A w \in Visits \ {v} : visit'[w] = visit[w]
             /\ visit'[v].stage = visit[v].stage /\ visit'[v].org = visit[v].org
             /\ visit'[v].customer = visit[v].customer
             /\ Tells(v, kinds) /\ visit'[v].plan = plan /\ visit'[v].status = to
             /\ visit[v].status \in from
  BY <1>1, <1>3 DEF Changes
<1>4. CASE Pay(v)
  <2>1. /\ visit[v].stage = "open" /\ UNCHANGED <<tier, customer, subRow>>
        /\ \A w \in Visits \ {v} : visit'[w] = visit[w]
        /\ visit'[v].stage = visit[v].stage /\ visit'[v].org = visit[v].org
        /\ visit'[v].customer = visit[v].customer
        /\ visit'[v].plan = visit[v].plan /\ visit'[v].status = "active"
        /\ visit[v].plan \in Plans
    BY <1>1, <1>4 DEF Pay
  <2>2. /\ Tells(v, <<"checkout", "subscription">>)
        /\ tidy' = [tidy EXCEPT ![visit[v].org] = @ /\ Live(visit[v].org) = {}]
    BY <1>4 DEF Pay
  <2> QED
    BY <1>1, <1>2, <2>1, <2>2
<1>5. ASSUME NEW plan \in Plans, Changes(v, {"active"}, "active", plan, <<"subscription">>)
      PROVE  /\ visit[v].status \in {"active", "past_due"}
             /\ Tells(v, <<"subscription">>) /\ visit'[v].plan = plan /\ visit'[v].status = "active"
  BY <1>3, <1>5
<1>6. CASE Changes(v, {"active"}, "past_due", visit[v].plan, <<"payment_failed", "subscription">>)
  BY <1>1, <1>2, <1>3, <1>6
<1>7. CASE Changes(v, {"past_due"}, "active", visit[v].plan, <<"subscription">>)
  BY <1>1, <1>2, <1>3, <1>7
<1>8. CASE Changes(v, {"active", "past_due"}, "canceled", visit[v].plan, <<"deleted">>)
  BY <1>1, <1>2, <1>3, <1>8
<1>9. ASSUME NEW plan \in Plans \ {visit[v].plan},
             Changes(v, {"active"}, "active", plan, <<"subscription">>)
      PROVE  /\ visit[v].status \in {"active", "past_due"} /\ tidy' = tidy
             /\ UNCHANGED <<tier, customer, subRow>>
             /\ \A w \in Visits \ {v} : visit'[w] = visit[w]
             /\ visit'[v].stage = visit[v].stage /\ visit'[v].org = visit[v].org
             /\ visit'[v].customer = visit[v].customer
  BY <1>3, <1>9
<1> QED
  BY <1>1, <1>2, <1>4, <1>5, <1>6, <1>7, <1>8, <1>9 DEF SubscriptionChanges

LEMMA LinksStep ==
  ASSUME BillingTypeOK, BillingTypeOK', CheckoutsLinked, [Next]_vars
  PROVE  CheckoutsLinked'
<1> DEFINE Linked(v) ==
             /\ visit[v].stage # "open" => visit[v].status = "none"
             /\ visit[v].stage # "unused" =>
                  /\ visit[v].customer \in Visits
                  /\ visit[visit[v].customer].org = visit[v].org
                  /\ visit[visit[v].customer].stage # "unused"
                  /\ visit[v].customer # v => visit[visit[v].customer].stage = "open"
           Stored(o) == customer[o] # None =>
             visit[customer[o]].stage = "open" /\ visit[customer[o]].org = o
           Paid(k) == visit[outbox[k].visit].status # "none"
<1>0. /\ \A v \in Visits : Linked(v)
      /\ \A o \in Orgs : Stored(o)
      /\ \A k \in 1 .. Len(outbox) : Paid(k)
  BY DEF CheckoutsLinked
<1>1. outbox \in Seq(Events) /\ \A k \in 1 .. Len(outbox) : outbox[k].visit \in Visits
  <2>1. outbox \in Seq(Events)
    BY DEF BillingTypeOK
  <2>2. \A k \in 1 .. Len(outbox) : outbox[k] \in Events
    BY <2>1
  <2> QED
    BY <2>1, <2>2 DEF Events
<1>2. CASE UNCHANGED billingVars
  BY <1>2 DEF billingVars, CheckoutsLinked
<1>3. ASSUME NEW v \in Visits, NEW o \in Orgs, NEW plan \in Plans, StartCheckout(v, o, plan)
      PROVE  CheckoutsLinked'
  <2>1. /\ visit[v].stage = "unused" /\ UNCHANGED <<customer, outbox>>
        /\ \A w \in Visits \ {v} : visit'[w] = visit[w]
        /\ visit'[v].stage = IF customer[o] = None THEN "made" ELSE "open"
        /\ visit'[v].org = o /\ visit'[v].status = "none"
        /\ visit'[v].customer = IF customer[o] = None THEN v ELSE customer[o]
    BY <1>3 DEF StartCheckout, BillingTypeOK
  <2>2. customer \in [Orgs -> Visits \cup {None}] /\ visit[v].status = "none"
    BY <1>0, <2>1 DEF BillingTypeOK
  <2>3. ASSUME NEW w \in Visits PROVE Linked(w)'
    <3>1. CASE w = v /\ customer[o] = None
      BY <2>1, <3>1
    <3>2. CASE w = v /\ customer[o] # None
      <4>1. /\ customer[o] \in Visits /\ customer[o] # v
            /\ visit[customer[o]].stage = "open" /\ visit[customer[o]].org = o
        BY <1>0, <2>1, <2>2, <3>2
      <4> QED
        BY <2>1, <3>2, <4>1
    <3>3. CASE w # v
      <4>1. Linked(w) /\ visit'[w] = visit[w]
        BY <1>0, <2>1, <3>3
      <4>2. visit[w].stage # "unused" =>
              visit[w].customer # v /\ visit'[visit[w].customer] = visit[visit[w].customer]
        BY <2>1, <4>1
      <4> QED
        BY <4>1, <4>2
    <3> QED
      BY <3>1, <3>2, <3>3
  <2>4. ASSUME NEW p \in Orgs PROVE Stored(p)'
    <3>1. customer[p] # None => customer[p] \in Visits /\ customer[p] # v
      BY <1>0, <2>1, <2>2
    <3> QED
      BY <1>0, <2>1, <3>1
  <2>5. ASSUME NEW k \in 1 .. Len(outbox) PROVE visit'[outbox[k].visit].status # "none"
    BY <1>0, <1>1, <2>1, <2>2
  <2> QED
    BY <2>1, <2>3, <2>4, <2>5 DEF CheckoutsLinked
<1>4. ASSUME NEW v \in Visits, StoreCustomer(v)
      PROVE  CheckoutsLinked'
  <2>1. /\ visit[v].stage = "made" /\ UNCHANGED outbox
        /\ \A w \in Visits \ {v} : visit'[w] = visit[w]
        /\ visit'[v].stage = "open" /\ visit'[v].org = visit[v].org
        /\ visit'[v].status = visit[v].status /\ visit'[v].customer = visit[v].customer
        /\ \A p \in Orgs : customer'[p] = IF p = visit[v].org THEN v ELSE customer[p]
    BY <1>4 DEF StoreCustomer, BillingTypeOK
  <2>2. \A w \in Visits : /\ visit'[w].org = visit[w].org /\ visit'[w].status = visit[w].status
                          /\ visit'[w].customer = visit[w].customer
                          /\ visit[w].stage = "open" => visit'[w].stage = "open"
                          /\ visit'[w].stage = "unused" <=> visit[w].stage = "unused"
                          /\ visit'[w].stage # "open" => visit[w].stage # "open"
    BY <2>1
  <2>3. ASSUME NEW w \in Visits PROVE Linked(w)'
    BY <1>0, <2>2
  <2>4. ASSUME NEW p \in Orgs PROVE Stored(p)'
    <3>1. customer[p] # None => customer[p] \in Visits
      BY DEF BillingTypeOK
    <3> QED
      BY <1>0, <2>1, <2>2, <3>1
  <2>5. ASSUME NEW k \in 1 .. Len(outbox) PROVE visit'[outbox[k].visit].status # "none"
    BY <1>0, <1>1, <2>2
  <2> QED
    BY <2>1, <2>3, <2>4, <2>5 DEF CheckoutsLinked
<1>5. ASSUME NEW v \in Visits, Pay(v) \/ SubscriptionChanges(v)
      PROVE  CheckoutsLinked'
  <2>1. /\ UNCHANGED customer
        /\ visit[v].status = "none" => visit[v].stage = "open"
        /\ \A w \in Visits \ {v} : visit'[w] = visit[w]
        /\ visit'[v].stage = visit[v].stage /\ visit'[v].org = visit[v].org
        /\ visit'[v].customer = visit[v].customer
    BY <1>5, PaidChanges
  <2>2. PICK kinds \in Seq(Kinds) : Tells(v, kinds) /\ visit'[v].status # "none"
    BY <1>5, PaidChanges
  <2>3. \A w \in Visits : /\ visit'[w].org = visit[w].org /\ visit'[w].stage = visit[w].stage
                          /\ visit'[w].customer = visit[w].customer
                          /\ visit[w].status # "none" => visit'[w].status # "none"
                          /\ visit[w].stage # "open" => visit'[w] = visit[w]
    BY <1>0, <2>1, <2>2
  <2>4. ASSUME NEW w \in Visits PROVE Linked(w)'
    BY <1>0, <2>3
  <2>5. ASSUME NEW p \in Orgs PROVE Stored(p)'
    <3>1. customer[p] # None => customer[p] \in Visits
      BY DEF BillingTypeOK
    <3> QED
      BY <1>0, <2>1, <2>3, <3>1
  <2>6. ASSUME NEW k \in 1 .. Len(outbox') PROVE visit'[outbox'[k].visit].status # "none"
    <3> DEFINE n == Len(outbox)
               m == Len(kinds)
    <3>1. n \in Nat /\ m \in Nat /\ Len(outbox') = n + m
      BY <1>1, <2>2, Appended
    <3>2. CASE k \in 1 .. n
      <4>1. outbox'[k] = outbox[k]
        BY <1>1, <2>2, <3>2, Appended
      <4>2. outbox[k].visit \in Visits /\ visit[outbox[k].visit].status # "none"
        BY <1>0, <1>1, <3>2
      <4> QED
        BY <2>3, <4>1, <4>2
    <3>3. CASE n < k
      <4>1. k \in 1 .. n + m
        BY <3>1
      <4>2. PICK j \in 1 .. m : outbox'[k] = Event(kinds[j], v)
        BY <1>1, <2>2, <3>3, <4>1, Appended
      <4> QED
        BY <2>2, <4>2 DEF Event
    <3> HIDE DEF n, m
    <3> QED
      BY <3>1, <3>2, <3>3
  <2> QED
    BY <2>4, <2>5, <2>6 DEF CheckoutsLinked
<1>6. ASSUME NEW i \in 1 .. Len(outbox),
             HandleEvent(i) \/ HandleUnacknowledged(i) \/ HandleHalf(i)
      PROVE  CheckoutsLinked'
  <2>1. UNCHANGED <<customer, visit>>
    BY <1>6 DEF HandleEvent, HandleUnacknowledged, HandleHalf
  <2>2. CASE outbox' = outbox
    BY <2>1, <2>2 DEF CheckoutsLinked
  <2>3. CASE outbox' = SubSeq(outbox, 1, i - 1) \o SubSeq(outbox, i + 1, Len(outbox))
    <3> DEFINE n == Len(outbox)
    <3>1. /\ Len(outbox') = n - 1 /\ n \in Nat
          /\ \A k \in 1 .. n - 1 : outbox'[k] = outbox[IF k < i THEN k ELSE k + 1]
      <4>1. n \in Nat
        BY <1>1
      <4>2. outbox \in Seq(Events)
        BY <1>1
      <4> HIDE DEF n
      <4>3. /\ Len(outbox') = Len(outbox) - 1
            /\ \A k \in 1 .. Len(outbox) - 1 : outbox'[k] = outbox[IF k < i THEN k ELSE k + 1]
        BY ONLY <2>3, <4>2, Removed, i \in 1 .. Len(outbox)
      <4> QED
        BY <4>1, <4>3 DEF n
    <3> HIDE DEF n
    <3>2. ASSUME NEW k \in 1 .. n - 1 PROVE visit[outbox'[k].visit].status # "none"
      <4>1. PICK j \in 1 .. n : outbox'[k] = outbox[j]
        BY <3>1
      <4> QED
        BY <1>0, <4>1 DEF n
    <3> QED
      BY <2>1, <3>1, <3>2 DEF CheckoutsLinked
  <2> QED
    BY <1>6, <2>2, <2>3 DEF HandleEvent, HandleUnacknowledged, HandleHalf
<1> QED
  BY <1>2, <1>3, <1>4, <1>5, <1>6, WhoBills DEF BillingInput, Webhook

\* An org whose subscriptions are all of the customer the gateway knows was so
\* before: a customer is replaced only by one that is not used yet.
LEMMA KnownBefore ==
  ASSUME BillingTypeOK, CheckoutsLinked, NEW o \in Orgs,
         \/ \E v \in Visits :
              \/ \E p \in Orgs, plan \in Plans : StartCheckout(v, p, plan)
              \/ StoreCustomer(v) \/ Pay(v) \/ SubscriptionChanges(v)
         \/ \E i \in 1 .. Len(outbox) : HandleEvent(i) \/ HandleUnacknowledged(i) \/ HandleHalf(i),
         CustomerKnown(o)'
  PROVE  CustomerKnown(o)
<1>1. ASSUME NEW v \in Visits, NEW p \in Orgs, NEW plan \in Plans, StartCheckout(v, p, plan)
      PROVE  CustomerKnown(o)
  <2>1. /\ visit[v].status = "none" /\ UNCHANGED customer
        /\ \A w \in Visits \ {v} : visit'[w] = visit[w]
    BY <1>1 DEF StartCheckout, BillingTypeOK, CheckoutsLinked
  <2> QED
    BY <2>1 DEF CustomerKnown
<1>2. ASSUME NEW v \in Visits, StoreCustomer(v)
      PROVE  CustomerKnown(o)
  <2>1. /\ visit[v].stage = "made"
        /\ \A w \in Visits : /\ visit'[w].org = visit[w].org /\ visit'[w].status = visit[w].status
                             /\ visit'[w].customer = visit[w].customer
        /\ customer'[o] = IF o = visit[v].org THEN v ELSE customer[o]
    BY <1>2 DEF StoreCustomer, BillingTypeOK
  <2>2. CASE o # visit[v].org
    BY <2>1, <2>2 DEF CustomerKnown
  <2>3. CASE o = visit[v].org
    <3>1. ASSUME NEW w \in Visits, visit[w].org = o, visit[w].status # "none"
          PROVE  FALSE
      <4>1. visit[w].customer = v
        BY <2>1, <2>3, <3>1 DEF CustomerKnown
      <4>2. w # v /\ visit[w].stage = "open"
        BY <2>1, <3>1 DEF CheckoutsLinked
      <4> QED
        BY <2>1, <4>1, <4>2 DEF CheckoutsLinked
    <3> QED
      BY <3>1 DEF CustomerKnown
  <2> QED
    BY <2>2, <2>3
<1>3. ASSUME NEW v \in Visits, Pay(v) \/ SubscriptionChanges(v)
      PROVE  CustomerKnown(o)
  <2>1. /\ UNCHANGED customer /\ visit'[v].status # "none"
        /\ \A w \in Visits \ {v} : visit'[w] = visit[w]
        /\ visit'[v].org = visit[v].org /\ visit'[v].customer = visit[v].customer
    BY <1>3, PaidChanges
  <2> QED
    BY <2>1 DEF CustomerKnown
<1>4. ASSUME NEW i \in 1 .. Len(outbox),
             HandleEvent(i) \/ HandleUnacknowledged(i) \/ HandleHalf(i)
      PROVE  CustomerKnown(o)
  <2>1. UNCHANGED <<customer, visit>>
    BY <1>4 DEF HandleEvent, HandleUnacknowledged, HandleHalf
  <2> QED
    BY <2>1 DEF CustomerKnown
<1> QED
  BY <1>1, <1>2, <1>3, <1>4

LEMMA ToldStep ==
  ASSUME BillingTypeOK, CheckoutsLinked, PaymentsTold, [Next]_vars
  PROVE  PaymentsTold'
<1>0. SUFFICES ASSUME NEW o \in Orgs, tidy'[o], CustomerKnown(o)' PROVE Told(o)'
  BY DEF PaymentsTold
<1>1. CASE UNCHANGED billingVars
  <2>1. UNCHANGED <<tier, subRow, outbox, visit, customer, tidy>>
    BY <1>1 DEF billingVars
  <2>2. CustomerKnown(o)
    BY <1>0, <2>1 DEF CustomerKnown
  <2> QED
    BY <1>0, <2>1, <2>2, UnpaidChangesNothing DEF PaymentsTold
<1>2. ASSUME NEW v \in Visits, NEW p \in Orgs, NEW plan \in Plans, StartCheckout(v, p, plan)
      PROVE  Told(o)'
  <2>1. CustomerKnown(o) /\ tidy' = tidy
    BY <1>0, <1>2, KnownBefore DEF StartCheckout
  <2>2. /\ visit[v].status = "none" /\ visit'[v].status = "none"
        /\ UNCHANGED <<tier, subRow, outbox>>
        /\ \A w \in Visits \ {v} : visit'[w] = visit[w]
    BY <1>2 DEF StartCheckout, BillingTypeOK, CheckoutsLinked
  <2> QED
    BY <1>0, <2>1, <2>2, UnpaidChangesNothing DEF PaymentsTold
<1>3. ASSUME NEW v \in Visits, StoreCustomer(v)
      PROVE  Told(o)'
  <2>1. CustomerKnown(o) /\ tidy' = tidy
    BY <1>0, <1>3, KnownBefore DEF StoreCustomer
  <2>2. /\ UNCHANGED <<tier, subRow, outbox>>
        /\ \A w \in Visits : /\ visit'[w].status = visit[w].status
                             /\ visit'[w].org = visit[w].org /\ visit'[w].plan = visit[w].plan
    BY <1>3 DEF StoreCustomer, BillingTypeOK
  <2> QED
    BY <1>0, <2>1, <2>2, UnpaidChangesNothing DEF PaymentsTold
<1>4. ASSUME NEW v \in Visits, Pay(v) \/ SubscriptionChanges(v)
      PROVE  Told(o)'
  <2>1. /\ UNCHANGED <<tier, subRow>>
        /\ \A w \in Visits \ {v} : visit'[w] = visit[w]
        /\ visit'[v].org = visit[v].org
        /\ \/ visit[v].status \in {"active", "past_due"} /\ tidy' = tidy
           \/ tidy' = [tidy EXCEPT ![visit[v].org] = @ /\ Live(visit[v].org) = {}]
    BY <1>4, PaidChanges
  <2>2. PICK to \in Statuses \ {"none"}, plan \in Plans, kinds \in Seq(Kinds) :
          /\ Tells(v, kinds) /\ visit'[v].plan = plan /\ visit'[v].status = to
          /\ \/ to = "active" /\ kinds \in {<<"checkout", "subscription">>, <<"subscription">>}
             \/ to = "past_due" /\ kinds = <<"payment_failed", "subscription">>
             \/ to = "canceled" /\ kinds = <<"deleted">>
    BY <1>4, PaidChanges
  <2>3. CustomerKnown(o)
    BY <1>0, <1>4, KnownBefore
  <2>4. tidy[o] /\ (visit[v].org = o =>
                      visit[v].status \in {"active", "past_due"} \/ Live(o) = {})
    <3>1. CASE visit[v].status \in {"active", "past_due"} /\ tidy' = tidy
      BY <1>0, <3>1
    <3>2. CASE tidy' = [tidy EXCEPT ![visit[v].org] = @ /\ Live(visit[v].org) = {}]
      <4>1. tidy'[o] = IF visit[v].org = o THEN tidy[o] /\ Live(o) = {} ELSE tidy[o]
        BY <3>2 DEF BillingTypeOK
      <4> QED
        BY <1>0, <4>1
    <3> QED
      BY <2>1, <3>1, <3>2
  <2>5. Told(o)
    BY <2>3, <2>4 DEF PaymentsTold
  <2>6. CASE visit[v].org = o
    <3>1. \A w \in Live(o) : w = v
      BY <2>4, <2>5, <2>6 DEF Told, OneLive, Live
    <3>2. Live(o)' \subseteq {v}
      BY <2>1, <3>1 DEF Live
    <3> QED
      BY <2>1, <2>2, <2>6, <3>2, OwnNewsTold
  <2>7. CASE visit[v].org # o
    BY <2>1, <2>2, <2>5, <2>7, OthersNewsTold
  <2> QED
    BY <2>6, <2>7
<1>5. ASSUME NEW i \in 1 .. Len(outbox),
             HandleEvent(i) \/ HandleUnacknowledged(i) \/ HandleHalf(i)
      PROVE  Told(o)'
  <2>1. CustomerKnown(o)
    BY <1>0, <1>5, KnownBefore
  <2>2. tidy[o]
    <3>1. Remember(i)
      BY <1>5 DEF HandleEvent, HandleUnacknowledged, HandleHalf
    <3> QED
      BY <1>0, <3>1 DEF Remember, BillingTypeOK
  <2> QED
    BY <1>0, <1>5, <2>1, <2>2, HandledTold DEF PaymentsTold
<1> QED
  BY <1>1, <1>2, <1>3, <1>4, <1>5, WhoBills DEF BillingInput, Webhook

\* An org with one subscription at a time, one customer and no event that overtook
\* another has the tier it paid for, and the row that says so, as soon as Stripe's
\* events have arrived: however often they were repeated or half handled, and
\* whatever the other orgs do.
THEOREM TierIsPaidFor == Spec => []TierAsPaid
<1>1. Init => CheckoutsLinked /\ PaymentsTold
  <2> SUFFICES ASSUME Init PROVE CheckoutsLinked /\ PaymentsTold
    OBVIOUS
  <2>1. /\ \A v \in Visits : visit[v].stage = "unused" /\ visit[v].status = "none"
        /\ \A o \in Orgs : customer[o] = None /\ tier[o] = "free" /\ subRow[o].status = "inactive"
        /\ outbox = <<>>
    BY DEF Init, BillingInit
  <2>2. 1 .. Len(outbox) = {}
    BY <2>1
  <2>3. CheckoutsLinked
    BY <2>1, <2>2 DEF CheckoutsLinked
  <2>4. ASSUME NEW o \in Orgs PROVE Told(o)
    <3>1. Live(o) = {}
      BY <2>1 DEF Live
    <3>2. Papers(o) = {} /\ OneLive(o)
      BY <3>1 DEF Papers, OneLive
    <3>3. TierEvents(o) = {} /\ RowEvents(o) = {}
      BY <2>2 DEF TierEvents, RowEvents
    <3> QED
      BY <2>1, <3>2, <3>3 DEF Told, TierFits, RowFits, LastIsTrue
  <2> QED
    BY <2>3, <2>4 DEF PaymentsTold
<1>2. TypeOK /\ CheckoutsLinked /\ PaymentsTold /\ [Next]_vars
        => CheckoutsLinked' /\ PaymentsTold'
  BY BillingTypesStep, LinksStep, ToldStep DEF TypeOK
<1>3. PaymentsTold => TierAsPaid
  <2> SUFFICES ASSUME PaymentsTold, NEW o \in Orgs,
                      tidy[o], CustomerKnown(o), AllDelivered(o)
               PROVE  /\ tier[o] = EntitledTier(o)
                      /\ \A v \in Live(o) :
                           subRow[o] = [status |-> visit[v].status, plan |-> visit[v].plan]
                      /\ Live(o) = {} => subRow[o].status \in {"inactive", "canceled"}
    BY DEF TierAsPaid
  <2>1. Told(o)
    BY DEF PaymentsTold
  <2>2. TierEvents(o) = {} /\ RowEvents(o) = {}
    BY DEF AllDelivered, TierEvents, RowEvents
  <2>3. TierFits(Papers(o), tier[o]) /\ RowFits(Papers(o), subRow[o]) /\ OneLive(o)
    BY <2>1, <2>2 DEF Told
  <2>4. tier[o] = EntitledTier(o)
    BY <2>3, FitsIsEntitled
  <2>5. Live(o) = {} => Papers(o) = {}
    BY DEF Papers
  <2> QED
    BY <2>3, <2>4, <2>5 DEF RowFits, Papers
<1> QED
  BY <1>1, <1>2, <1>3, TypeCorrect, PTL DEF Spec
=============================================================================
