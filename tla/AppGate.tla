------------------------------ MODULE AppGate ------------------------------
(***************************************************************************)
(* App implements DeployGate: the line of an app is the history of its     *)
(* commits, a plan's base is what it saw of that history, and the          *)
(* executions of the Workflows service are what is started and running.    *)
(***************************************************************************)
EXTENDS App

StartedDeployments ==
    { d \in Deployments :
        \E h \in Handlers : execution[h] # None /\ execution[h].deploymentId = d }

RunningDeployments ==
    { d \in Deployments :
        \E h \in Handlers : Running(h) /\ execution[h].deploymentId = d }

Gate == INSTANCE DeployGate WITH
    line <- history,
    base <- [d \in Deployments |->
                IF plan[d] = None THEN {} ELSE {<<plan[d].app, plan[d].base>>}],
    started <- StartedDeployments,
    running <- RunningDeployments,
    abandoned <- givenUp

\* Every step of putApp, of its clients and of the executions is a step of the
\* gate or changes nothing the gate speaks of.
ImplementsGate == Gate!GateSpec

=============================================================================
