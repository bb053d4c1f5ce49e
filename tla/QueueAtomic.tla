---------------------------- MODULE QueueAtomic ----------------------------
(***************************************************************************)
(* DeploymentQueue implements AtomicQueue: a poll decides from answers to  *)
(* queries that its transaction does not protect, and what it decides is   *)
(* what it would have decided on seeing the whole queue at its commit.     *)
(***************************************************************************)
EXTENDS DeploymentQueueInv

Atomic == INSTANCE AtomicQueue WITH
    state <- [d \in Deployments |-> IF Exists(d) THEN deployment[d].state ELSE "NONE"],
    place <- [d \in Deployments |-> IF Exists(d) THEN CreatedAt(d) ELSE 0],
    outcome <- [d \in Deployments |->
                  IF execution[d] \in {None, "ACTIVE"} THEN "NONE" ELSE Outcome(execution[d])]

\* Every step of putDeployment, of a poll and of an execution is a step of the
\* atomic queue or changes nothing it speaks of.
PollsAreAtomic == Atomic!QueueSteps

\* From the first state of a project on, DeploymentQueue is an atomic queue.
ImplementsQueue == Atomic!QueueSpec

=============================================================================
