-------------------------------- MODULE KokuCall --------------------------------
(****************************************************************************)
(* What one call of the Koku client promises its caller, and what           *)
(* CostProvider's action CreateSource assumes of it in a single step: the   *)
(* call ends at most once; Koku executed the request at most MaxRetries     *)
(* times; a success means it did at least once, a failure means nothing.    *)
(****************************************************************************)
EXTENDS Naturals

CONSTANT MaxRetries

VARIABLES executions,  \* times Koku has executed the request
          result       \* what the caller has been told

callVars == <<executions, result>>

Init == executions = 0 /\ result = "pending"

Execute == /\ result = "pending"
           /\ executions < MaxRetries
           /\ executions' = executions + 1
           /\ UNCHANGED result

Succeed == /\ result = "pending"
           /\ executions > 0
           /\ result' = "ok"
           /\ UNCHANGED executions

\* Koku refused the request (4xx), or the attempts ended without an answer that
\* can be read.
Fail == /\ result = "pending"
        /\ result' \in {"rejected", "failed"}
        /\ UNCHANGED executions

Next == Execute \/ Succeed \/ Fail

Spec == Init /\ [][Next]_callVars
================================================================================
