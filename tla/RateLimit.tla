------------------------------ MODULE RateLimit ------------------------------
(***************************************************************************)
(* The fixed-window rate limiter that gateway and runtime both have: a     *)
(* count of requests for each principal and minute, in the process or in   *)
(* Redis, where it is incremented from a thread after the minute was read. *)
(***************************************************************************)
EXTENDS Naturals

CONSTANTS
  Principals,    \* who is limited: an org, or an API key
  PerWindow,     \* rate_limit_per_minute
  Windows        \* bound: the minutes of a behaviour

ASSUME LimitAssumption == PerWindow \in Nat /\ Windows \subseteq Nat

VARIABLES
  backend,       \* rate_limit_backend
  counts,        \* requests counted by principal and minute
  passed,        \* history: requests let through by principal and minute
  lives          \* history: how often the process has been started

limitVars == <<backend, counts, passed, lives>>

LimitTypeOK ==
  /\ backend \in {"memory", "redis"}
  /\ counts \in [Principals \X Windows -> Nat]
  /\ passed \in [Principals \X Windows -> Nat]
  /\ lives \in Nat

LimitInit ==
  /\ backend \in {"memory", "redis"}
  /\ counts = [pw \in Principals \X Windows |-> 0]
  /\ passed = [pw \in Principals \X Windows |-> 0]
  /\ lives = 1

\* The limiter lets one request too many through.
Allowed_Late(p, w) == counts[<<p, w>>] <= PerWindow

Allowed(p, w) == counts[<<p, w>>] + 1 <= PerWindow


Allow(p, w) ==
  /\ counts' = [counts EXCEPT ![<<p, w>>] = @ + 1]
  /\ passed' = [passed EXCEPT ![<<p, w>>] = IF Allowed(p, w) THEN @ + 1 ELSE @]
  /\ UNCHANGED <<backend, lives>>

\* A new process finds the counts of Redis, and none of its predecessor's.
LimiterRestarts ==
  /\ counts' = IF backend = "redis" THEN counts ELSE [pw \in Principals \X Windows |-> 0]
  /\ lives' = lives + 1
  /\ UNCHANGED <<backend, passed>>

(* No principal gets more than its limit in a minute: with Redis never,     *)
(* although reading the minute and counting are separated by a thread       *)
(* switch; with counts in memory once for each start of the process.        *)
RateHonoured ==
  \A p \in Principals, w \in Windows :
    passed[<<p, w>>] <= PerWindow * (IF backend = "redis" THEN 1 ELSE lives)
=============================================================================
