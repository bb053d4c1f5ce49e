------------------------------ MODULE PlanRun ------------------------------
(***************************************************************************)
(* What a deployment promises about its plan: groups of steps, one after   *)
(* the other, the steps of a group in any order.                           *)
(***************************************************************************)
EXTENDS Naturals, Sequences

CONSTANTS
    Steps,
    Plan     \* a sequence of groups

VARIABLES
    begun,   \* steps recorded as started
    done,    \* steps recorded as finished
    outcome  \* state of the execution

Planned == UNION { Plan[i] : i \in DOMAIN Plan }

Earlier(s) == UNION { Plan[i] : i \in { j \in DOMAIN Plan :
                        \E k \in DOMAIN Plan : j < k /\ s \in Plan[k] } }

PlanInit == begun = {} /\ done = {} /\ outcome = "ACTIVE"

\* A step starts once all the groups before its own are finished.
Begin(s) ==
    /\ s \in Planned
    /\ Earlier(s) \subseteq done
    /\ begun' = begun \cup {s}
    /\ UNCHANGED <<done, outcome>>

\* It may be recorded as finished even after the execution failed.
Finish(s) ==
    /\ s \in begun
    /\ done' = done \cup {s}
    /\ UNCHANGED <<begun, outcome>>

Succeed ==
    /\ outcome = "ACTIVE"
    /\ done = Planned
    /\ outcome' = "SUCCEEDED"
    /\ UNCHANGED <<begun, done>>

Abort ==
    /\ outcome = "ACTIVE"
    /\ outcome' \in {"FAILED", "CANCELLED"}
    /\ UNCHANGED <<begun, done>>

PlanNext == (\E s \in Steps : Begin(s) \/ Finish(s)) \/ Succeed \/ Abort

PlanSpec == PlanInit /\ [][PlanNext]_<<begun, done, outcome>>

=============================================================================
