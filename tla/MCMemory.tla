------------------------------- MODULE MCMemory -------------------------------
(***************************************************************************)
(* HotMemory and WorkspaceIndex for TLC.  They share no state, so that     *)
(* their interleavings add nothing: a behaviour is one of either.          *)
(***************************************************************************)
EXTENDS WorkspaceIndex, HotMemory

CONSTANTS p1, p2

VARIABLE part

MCListing == <<p1, p2>>
MCTexts == {<<>>, <<"a">>, <<"b", "c", "d", "e">>}
MCPathLists == {<<Directory>>, <<p1, p1>>}
MCContents == {(p1 :> <<"b", "c", "d", "e">>) @@ (p2 :> <<"a">>), (p1 :> None) @@ (p2 :> <<>>)}

\* A question that is too short to be quoted, and an answer that is cut.
MCLengths ==
  [t \in (1 .. MaxSpeakers) \X {"user", "assistant"} |->
     CASE t = <<1, "user">> -> "short" [] t = <<2, "assistant">> -> "long" [] OTHER -> "whole"]

TypeOK == IndexTypeOK /\ HotTypeOK

Init == IndexInit /\ HotInit /\ part \in {"index", "history"}

Next ==
  \/ part = "index" /\ IndexNext /\ UNCHANGED <<hotVars, part>>
  \/ part = "history" /\ HotNext /\ UNCHANGED <<indexVars, part>>

vars == <<indexVars, hotVars, part>>

\* A task, and the thread it waits for, go on.
Fairness == \A j \in Jobs : WF_vars(part = "index" /\ JobStep(j) /\ UNCHANGED <<hotVars, part>>)

Spec == Init /\ [][Next]_vars /\ Fairness
=============================================================================
