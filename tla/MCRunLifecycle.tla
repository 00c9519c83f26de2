--------------------------- MODULE MCRunLifecycle ---------------------------
(***************************************************************************)
(* Instances of RunLifecycle for TLC: a run that waits at graph interrupts *)
(* and makes two gated calls, one that waits in its tool executor, and a   *)
(* plugin's run, which cannot wait.                                        *)
(***************************************************************************)
EXTENDS RunLifecycleInv

CONSTANTS g, h, e, p    \* two graph runs, an executor run, a plugin's run

MCMode == [r \in Runs |-> CASE r = e -> "executor"
                            [] r = p -> "plugin"
                            [] OTHER -> "graph"]

\* Two calls where the answer to one could be taken for the other's.
MCGatedCalls == [r \in Runs |-> IF r = g THEN 2 ELSE 1]

\* Enough calls for an old answer to lead past an open approval.
ThreeGatedCalls == [r \in Runs |-> IF r = g THEN 3 ELSE 1]

OneGatedCall == [r \in Runs |-> 1]
=============================================================================
