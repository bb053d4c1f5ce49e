---------------------------- MODULE AtomicQueue ----------------------------
(***************************************************************************)
(* What the queue of an app promises, without polls, queries, transactions *)
(* or retries: whoever decides the fate of a deployment sees the whole     *)
(* queue as it is at that instant.                                         *)
(***************************************************************************)
EXTENDS Naturals

CONSTANTS Deployments, None

VARIABLES
    state,   \* of each deployment, NONE before it is in the queue
    place,   \* in the queue, by time; 0 before
    outcome, \* what its execution has come to, NONE as long as it runs
    late,    \* deployments that entered behind a more recent one
    app      \* what the app shows, None before it is created

queueVars == <<state, place, outcome, late, app>>

\* What an execution comes to.
Outcomes == {"DEPLOYED", "FAILED", "CANCELLED"}

\* d counts when another one asks for its turn.
Waits(d) == state[d] \in {"PENDING", "DEPLOYING"}

\* A project in which nothing has been deployed.
QueueInit ==
    /\ state = [d \in Deployments |-> "NONE"]
    /\ place = [d \in Deployments |-> 0]
    /\ outcome = [d \in Deployments |-> "NONE"]
    /\ late = {}
    /\ app = None

\* A deployment that is not yet in the queue creates the app, which may exist.
CreateApp ==
    /\ \E d \in Deployments : state[d] = "NONE"
    /\ app' = [state |-> "CREATED", deploying |-> None, architecture |-> None]
    /\ UNCHANGED <<state, place, outcome, late>>

\* d enters at a place that nobody has, maybe ahead of others.
Enter(d) ==
    /\ app # None
    /\ state[d] = "NONE"
    /\ state' = [state EXCEPT ![d] = "PENDING"]
    /\ place' = [place EXCEPT ![d] = place'[d]]
    /\ place'[d] \in Nat \ {0}
    /\ \A e \in Deployments : place[e] # place'[d]
    /\ late' = IF \E e \in Deployments : place[e] > place'[d] THEN late \cup {d} ELSE late
    /\ UNCHANGED <<outcome, app>>

\* The execution of d ends.
End(d) ==
    /\ state[d] # "NONE"
    /\ outcome[d] = "NONE"
    /\ \E o \in Outcomes : outcome' = [outcome EXCEPT ![d] = o]
    /\ UNCHANGED <<state, place, late, app>>

\* The outcome of d is noted, even if d has been skipped.
Note(d) ==
    /\ outcome[d] # "NONE"
    /\ state' = [state EXCEPT ![d] = outcome[d]]
    /\ UNCHANGED <<place, outcome, late, app>>

\* d is let through when all that waits is behind it, but for what was late.
Deploy(d) ==
    /\ state[d] = "PENDING"
    /\ \A e \in Deployments : Waits(e) => e = d \/ place[d] < place[e] \/ e \in late
    /\ state' = [state EXCEPT ![d] = "DEPLOYING"]
    /\ app' = [state |-> "DEPLOYING", deploying |-> d, architecture |-> app.architecture]
    /\ UNCHANGED <<place, outcome, late>>

\* d is skipped only for a more recent one.
Skip(d) ==
    /\ state[d] = "PENDING"
    /\ \E e \in Deployments : place[d] < place[e]
    /\ state' = [state EXCEPT ![d] = "SKIPPED"]
    /\ UNCHANGED <<place, outcome, late, app>>

\* The app shows what has become of the deployment that was let through last.
Settle(d) ==
    /\ app # None
    /\ app.deploying = d
    /\ state[d] \in Outcomes
    /\ app' = [state |-> state[d],
               deploying |-> IF state[d] = "DEPLOYED" THEN None ELSE d,
               architecture |-> IF state[d] = "DEPLOYED" THEN d ELSE app.architecture]
    /\ UNCHANGED <<state, place, outcome, late>>

\* Each step decides the fate of one deployment, or of the app.
QueueNext ==
    \/ CreateApp
    \/ \E d \in Deployments :
          Enter(d) \/ End(d) \/ Note(d) \/ Deploy(d) \/ Skip(d) \/ Settle(d)

\* The steps alone, for instances that start in the middle of the life of an app.
QueueSteps == [][QueueNext]_queueVars

QueueSpec == QueueInit /\ QueueSteps

=============================================================================
