-------------------------- MODULE DeploymentQueue --------------------------
(***************************************************************************)
(* The class of functions/agent-backend/DeploymentQueue.js, for one app:   *)
(* putDeployment, getDeployment and getApp, called concurrently.           *)
(*                                                                         *)
(* A deployment is queued as a PENDING document and given an execution.    *)
(* Nothing runs in the background: the states move when somebody polls.    *)
(* A poll lists the running deployments, asks for their executions, writes *)
(* what ended (no transaction), then updates the app (a transaction on the *)
(* app, the deployment read outside it), then, for getDeployment, decides  *)
(* the fate of its deployment if PENDING (a transaction on the deployment, *)
(* the place in the queue read outside it).                                *)
(***************************************************************************)
EXTENDS Naturals

CONSTANTS
    Deployments, \* deployment ids: each is one call of putDeployment
    Pollers,     \* concurrent calls of getDeployment and getApp
    Ends,        \* how executions may end
    MaxCrashes,  \* bound on the calls that die
    None         \* no document, no value

ASSUME EndsAssumption ==
    Ends \subseteq {"SUCCEEDED", "FAILED", "CANCELLED", "STATE_UNSPECIFIED"}
ASSUME CrashesAssumption == MaxCrashes \in Nat

VARIABLES
    app,         \* the document of the app
    deployment,  \* the documents of its deployments
    execution,   \* states of the workflow executions
    put,         \* calls of putDeployment
    poll,        \* calls of getDeployment and getApp
    now,         \* how many timestamps putDeployment has taken
    crashes,
    \* ghosts: no action's guard reads them
    late,        \* deployments that appeared behind a more recent one
    overwritten  \* createAppIfNotExists has set an app that existed

ghosts == <<late, overwritten>>
vars == <<app, deployment, execution, put, poll, now, crashes, late, overwritten>>

-----------------------------------------------------------------------------
(* Types *)

AppStates == {"CREATED", "DEPLOYING", "DEPLOYED", "FAILED", "CANCELLED"}
Apps == [state : AppStates, deploying : Deployments \cup {None},
         architecture : Deployments \cup {None}]

RunningStates == {"PENDING", "DEPLOYING"}
EndStates == {"DEPLOYED", "FAILED", "CANCELLED", "SKIPPED"}
\* execution: its name has been recorded.
DeploymentDocs == [state : RunningStates \cup EndStates, createdAt : Nat,
                   execution : BOOLEAN]

ExecutionStates ==
    {"ACTIVE", "SUCCEEDED", "FAILED", "CANCELLED", "STATE_UNSPECIFIED"}

ASSUME NoneAssumption ==
    /\ None \notin Deployments /\ None \notin BOOLEAN /\ None \notin ExecutionStates
    /\ None \notin Apps /\ None \notin DeploymentDocs

Puts == [pc : {"app", "create", "stamp", "set", "execute", "record", "done",
               "crashed"},
         createdAt : Nat]

\* target: the deployment asked for, None in getApp.  listed: the deployments
\* that updateRunningDeployments has still to ask for, then to update.
\* seenApp, seen, first and last: what a transaction has read.
Polls == [pc : {"idle", "fetch", "write", "app", "commitApp", "check", "commit"},
          target : Deployments \cup {None},
          listed : SUBSET Deployments,
          seenApp : Apps \cup {None},
          seen : DeploymentDocs \cup {None},
          first : BOOLEAN \cup {None},
          last : BOOLEAN \cup {None}]

\* Every document keeps its shape; in particular a deployment is only ever in
\* one of the states of State.Deployment, whatever state its execution is in.
TypeOK ==
    /\ app \in Apps \cup {None}
    /\ deployment \in [Deployments -> DeploymentDocs \cup {None}]
    /\ execution \in [Deployments -> ExecutionStates \cup {None}]
    /\ put \in [Deployments -> Puts]
    /\ poll \in [Pollers -> Polls]
    /\ now \in Nat
    /\ crashes \in 0 .. MaxCrashes
    /\ late \subseteq Deployments
    /\ overwritten \in BOOLEAN

\* A poll that holds what a transaction has read, and one that does not.
Holding(pc, target, seenApp, seen) ==
    [pc |-> pc, target |-> target, listed |-> {}, seenApp |-> seenApp,
     seen |-> seen, first |-> None, last |-> None]
Polling(pc, target, listed) ==
    [pc |-> pc, target |-> target, listed |-> listed, seenApp |-> None,
     seen |-> None, first |-> None, last |-> None]
NoPoll == Polling("idle", None, {})

\* The document of d, in another state.
InNewState(d, state) ==
    [state |-> state, createdAt |-> deployment[d].createdAt,
     execution |-> deployment[d].execution]

Init ==
    /\ app = None
    /\ deployment = [d \in Deployments |-> None]
    /\ execution = [d \in Deployments |-> None]
    /\ put = [d \in Deployments |-> [pc |-> "app", createdAt |-> 0]]
    /\ poll = [p \in Pollers |-> NoPoll]
    /\ now = 0
    /\ crashes = 0
    /\ late = {}
    /\ overwritten = FALSE

-----------------------------------------------------------------------------
(* putDeployment *)

\* createAppIfNotExists: the app is looked up...
GetApp(d) ==
    /\ put[d].pc = "app"
    /\ put' = [put EXCEPT ![d].pc = IF app = None THEN "create" ELSE "stamp"]
    /\ UNCHANGED <<app, deployment, execution, poll, now, crashes, ghosts>>

\* ... and set if it was not there, whatever is there by now.
SetApp(d) ==
    /\ put[d].pc = "create"
    /\ app' = [state |-> "CREATED", deploying |-> None, architecture |-> None]
    /\ put' = [put EXCEPT ![d].pc = "stamp"]
    /\ overwritten' = (overwritten \/ app # None)
    /\ UNCHANGED <<deployment, execution, poll, now, crashes, late>>

\* The timestamp is taken; equal ones are ordered by name, so all differ.
Stamp(d) ==
    /\ put[d].pc = "stamp"
    /\ now' = now + 1
    /\ put' = [put EXCEPT ![d] = [pc |-> "set", createdAt |-> now']]
    /\ UNCHANGED <<app, deployment, execution, poll, crashes, ghosts>>

\* deploymentRef.set: only now do polls see the deployment.
SetDeployment(d) ==
    /\ put[d].pc = "set"
    /\ deployment' = [deployment EXCEPT ![d] =
            [state |-> "PENDING", createdAt |-> put[d].createdAt,
             execution |-> FALSE]]
    /\ put' = [put EXCEPT ![d].pc = "execute"]
    /\ late' = IF \E e \in Deployments : /\ deployment[e] # None
                                         /\ deployment[e].createdAt > put[d].createdAt
               THEN late \cup {d} ELSE late
    /\ UNCHANGED <<app, execution, poll, now, crashes, overwritten>>

CreateExecution(d) ==
    /\ put[d].pc = "execute"
    /\ execution' = [execution EXCEPT ![d] = "ACTIVE"]
    /\ put' = [put EXCEPT ![d].pc = "record"]
    /\ UNCHANGED <<app, deployment, poll, now, crashes, ghosts>>

RecordExecution(d) ==
    /\ put[d].pc = "record"
    /\ deployment' = [deployment EXCEPT ![d] =
            [state |-> deployment[d].state, createdAt |-> deployment[d].createdAt,
             execution |-> TRUE]]
    /\ put' = [put EXCEPT ![d].pc = "done"]
    /\ UNCHANGED <<app, execution, poll, now, crashes, ghosts>>

\* The instance stops, or an awaited call fails.
CrashPut(d) ==
    /\ put[d].pc \notin {"done", "crashed"}
    /\ crashes < MaxCrashes
    /\ crashes' = crashes + 1
    /\ put' = [put EXCEPT ![d].pc = "crashed"]
    /\ UNCHANGED <<app, deployment, execution, poll, now, ghosts>>

\* The workflow ends, or is stopped, at a time of its own.
EndExecution(d, state) ==
    /\ execution[d] = "ACTIVE"
    /\ execution' = [execution EXCEPT ![d] = state]
    /\ UNCHANGED <<app, deployment, put, poll, now, crashes, ghosts>>

-----------------------------------------------------------------------------
(* A poll: updateRunningDeployments *)

InState(states) ==
    { d \in Deployments : deployment[d] # None /\ deployment[d].state \in states }

\* A variant that lists DEPLOYING deployments alone.
ListedDeploying == {"DEPLOYING"}
Listed == {"DEPLOYING", "PENDING"}

\* getRunningDeployments.  The execution of a deployment without one recorded
\* cannot be asked for: the poll is rejected there, having changed nothing.
List(p, target) ==
    LET running == InState(Listed)
    IN  /\ poll[p].pc = "idle"
        /\ \A d \in running : deployment[d].execution
        /\ poll' = [poll EXCEPT ![p] =
                Polling(IF running = {} THEN "app" ELSE "fetch", target, running)]
        /\ UNCHANGED <<app, deployment, execution, put, now, crashes, ghosts>>

\* The executions are asked for, and the writes wait for all the answers; what
\* has ended stays so, and they are taken to be of one instant.
Fetch(p) ==
    /\ poll[p].pc = "fetch"
    /\ LET ended == { d \in poll[p].listed : execution[d] # "ACTIVE" }
       IN  poll' = [poll EXCEPT ![p] =
                Polling(IF ended = {} THEN "app" ELSE "write",
                        poll[p].target, ended)]
    /\ UNCHANGED <<app, deployment, execution, put, now, crashes, ghosts>>

\* A variant that passes on a state it does not know.
OutcomeAsIs(state) ==
    IF state = "SUCCEEDED" THEN "DEPLOYED" ELSE state

\* The state of a deployment whose execution has ended.
Outcome(state) ==
    CASE state = "SUCCEEDED" -> "DEPLOYED"
      [] state = "CANCELLED" -> "CANCELLED"
      [] state \in {"FAILED", "STATE_UNSPECIFIED"} -> "FAILED"

\* ref.update, of whatever state the deployment is in by now.
Write(p, d) ==
    /\ poll[p].pc = "write"
    /\ d \in poll[p].listed
    /\ deployment' = [deployment EXCEPT ![d] = InNewState(d, Outcome(execution[d]))]
    /\ LET left == poll[p].listed \ {d}
       IN  poll' = [poll EXCEPT ![p] =
                Polling(IF left = {} THEN "app" ELSE "write",
                        poll[p].target, left)]
    /\ UNCHANGED <<app, execution, put, now, crashes, ghosts>>

-----------------------------------------------------------------------------
(* A poll: updateDeployingApp *)

\* What follows updateDeployingApp: nothing in getApp.
AfterApp(p) ==
    IF poll[p].target = None
    THEN NoPoll
    ELSE Polling("check", poll[p].target, {})

\* The app is read in the transaction, then its deployment, outside it.
ReadApp(p) ==
    /\ poll[p].pc = "app"
    /\ poll' = [poll EXCEPT ![p] =
            IF /\ app # None
               /\ app.deploying # None
               /\ deployment[app.deploying].state \in EndStates
            THEN Holding("commitApp", poll[p].target, app, deployment[app.deploying])
            ELSE AfterApp(p)]
    /\ UNCHANGED <<app, deployment, execution, put, now, crashes, ghosts>>

\* A variant of the test below: the app read outside the transaction too.
AppUnchecked(p) == TRUE
AppUnchanged(p) == app = poll[p].seenApp

\* A deployment SKIPPED after it was DEPLOYING 'should never occur'.
CommitApp(p) ==
    /\ poll[p].pc = "commitApp"
    /\ AppUnchanged(p)
    /\ LET state == poll[p].seen.state IN
          app' = IF state = "DEPLOYED"
                 THEN [state |-> "DEPLOYED", deploying |-> None,
                       architecture |-> poll[p].seenApp.deploying]
                 ELSE [state |-> IF state = "FAILED" THEN "FAILED" ELSE "CANCELLED",
                       deploying |-> poll[p].seenApp.deploying,
                       architecture |-> app.architecture]
    /\ poll' = [poll EXCEPT ![p] = AfterApp(p)]
    /\ UNCHANGED <<deployment, execution, put, now, crashes, ghosts>>

\* Somebody changed the app first: the transaction starts again.
RetryApp(p) ==
    /\ poll[p].pc = "commitApp"
    /\ ~AppUnchanged(p)
    /\ poll' = [poll EXCEPT ![p] = Polling("app", poll[p].target, {})]
    /\ UNCHANGED <<app, deployment, execution, put, now, crashes, ghosts>>

-----------------------------------------------------------------------------
(* A poll: checkPendingDeployment *)

\* The deployment is read in the transaction.
ReadPending(p) ==
    /\ poll[p].pc = "check"
    /\ LET d == poll[p].target IN
          poll' = [poll EXCEPT ![p] =
              IF deployment[d] # None /\ deployment[d].state = "PENDING"
              THEN Holding("commit", d, None, deployment[d])
              ELSE NoPoll]
    /\ UNCHANGED <<app, deployment, execution, put, now, crashes, ghosts>>

\* A variant that forgets the deployments being deployed.
IsFirstPending(d) ==
    LET queued == InState({"PENDING"})
    IN  /\ d \in queued
        /\ \A e \in queued : deployment[d].createdAt <= deployment[e].createdAt

IsFirst(d) ==
    LET queued == InState(RunningStates)
    IN  /\ d \in queued
        /\ \A e \in queued : deployment[d].createdAt <= deployment[e].createdAt

IsLast(d) ==
    LET queued == InState({"PENDING"})
    IN  /\ d \in queued
        /\ \A e \in queued : deployment[d].createdAt >= deployment[e].createdAt

\* isFirstDeploymentQueued and isLastDeploymentQueued, outside the transaction,
\* answer in any order.
QueryFirst(p) ==
    /\ poll[p].pc = "commit"
    /\ poll[p].first = None
    /\ poll' = [poll EXCEPT ![p].first = IsFirst(poll[p].target)]
    /\ UNCHANGED <<app, deployment, execution, put, now, crashes, ghosts>>

QueryLast(p) ==
    /\ poll[p].pc = "commit"
    /\ poll[p].last = None
    /\ poll' = [poll EXCEPT ![p].last = IsLast(poll[p].target)]
    /\ UNCHANGED <<app, deployment, execution, put, now, crashes, ghosts>>

\* A variant that writes SKIPPED after DEPLOYING.
DecidedSkippedLast(p) ==
    IF ~poll[p].last THEN "SKIPPED"
    ELSE IF poll[p].first THEN "DEPLOYING" ELSE "PENDING"

\* SKIPPED is written first: the first of the queue is deployed even when it
\* is not the last.
Decided(p) ==
    IF poll[p].first THEN "DEPLOYING"
    ELSE IF ~poll[p].last THEN "SKIPPED" ELSE "PENDING"

\* A variant of the test below: the deployment read outside the transaction.
PendingUnchecked(p) == deployment[poll[p].target] # None
PendingUnchanged(p) == deployment[poll[p].target] = poll[p].seen

Answered(p) == poll[p].first # None /\ poll[p].last # None

CommitPending(p) ==
    /\ poll[p].pc = "commit"
    /\ Answered(p)
    /\ PendingUnchanged(p)
    /\ LET d == poll[p].target IN
          /\ deployment' = [deployment EXCEPT ![d] = InNewState(d, Decided(p))]
          /\ app' = IF poll[p].first
                    THEN [state |-> "DEPLOYING", deploying |-> d,
                          architecture |-> app.architecture]
                    ELSE app
    /\ poll' = [poll EXCEPT ![p] = NoPoll]
    /\ UNCHANGED <<execution, put, now, crashes, ghosts>>

RetryPending(p) ==
    /\ poll[p].pc = "commit"
    /\ Answered(p)
    /\ ~PendingUnchanged(p)
    /\ poll' = [poll EXCEPT ![p] = Polling("check", poll[p].target, {})]
    /\ UNCHANGED <<app, deployment, execution, put, now, crashes, ghosts>>

CrashPoll(p) ==
    /\ poll[p].pc # "idle"
    /\ crashes < MaxCrashes
    /\ crashes' = crashes + 1
    /\ poll' = [poll EXCEPT ![p] = NoPoll]
    /\ UNCHANGED <<app, deployment, execution, put, now, ghosts>>

-----------------------------------------------------------------------------
(* The specification *)

PutDeployment(d) ==
    GetApp(d) \/ SetApp(d) \/ Stamp(d) \/ SetDeployment(d)
        \/ CreateExecution(d) \/ RecordExecution(d)

Poll(p) ==
    \/ \E t \in Deployments \cup {None} : List(p, t)
    \/ Fetch(p) \/ \E d \in Deployments : Write(p, d)
    \/ ReadApp(p) \/ CommitApp(p) \/ RetryApp(p)
    \/ ReadPending(p) \/ QueryFirst(p) \/ QueryLast(p)
    \/ CommitPending(p) \/ RetryPending(p)

Next ==
    \/ \E d \in Deployments :
          \/ PutDeployment(d) \/ CrashPut(d)
          \/ \E s \in Ends : EndExecution(d, s)
    \/ \E p \in Pollers : Poll(p) \/ CrashPoll(p)

Spec == Init /\ [][Next]_vars

\* A call that does not die goes on, and somebody polls again and again.
\* Executions promise nothing: one may run for ever.
Fairness ==
    /\ \A d \in Deployments : WF_vars(PutDeployment(d))
    /\ \A p \in Pollers : WF_vars(Poll(p))

FairSpec == Spec /\ Fairness

-----------------------------------------------------------------------------
(* Properties *)

\* One deployment of the app is DEPLOYING at a time, though the place in the
\* queue is read outside the transaction that acts on it; the exception is a
\* deployment whose document appeared after that of a more recent one.
OneDeployingUnlessLate ==
    \A d, e \in InState({"DEPLOYING"}) : d = e \/ d \in late \/ e \in late

\* The app names the deployment that is DEPLOYING, so that its end reaches the
\* app, unless one appeared late or the app was created twice.
DeployingIsCurrent ==
    late = {} /\ ~overwritten =>
        \A d \in InState({"DEPLOYING"}) : app # None /\ app.deploying = d

\* The branch of updateDeployingApp marked 'should never occur': the deployment
\* an app is deploying has been skipped.
DeployingNeverSkipped ==
    app # None /\ app.deploying # None =>
        deployment[app.deploying].state \notin {"PENDING", "SKIPPED"}

\* A deployment is skipped only for a more recent one, though isLast may be
\* stale when it is used.
SkippedForNewer ==
    \A d \in InState({"SKIPPED"}) : \E e \in Deployments :
        /\ deployment[e] # None
        /\ deployment[e].createdAt > deployment[d].createdAt

\* The outcome of a deployment never changes, though a poll writes what it has
\* found over whatever state the deployment is in by then; SKIPPED is none, the
\* execution of a skipped deployment ends like any other.
OutcomeIsFinal ==
    [][\A d \in Deployments :
          deployment[d] # None /\ deployment[d].state \in {"DEPLOYED", "FAILED", "CANCELLED"}
              => deployment'[d].state = deployment[d].state]_vars

\* getRunningDeployments: "we need to check pending deployments too if the next
\* deployment is in a PENDING state and the workflow failed, it will never goes
\* to the state FAILED".
FailureIsSeen ==
    \A d \in Deployments :
        execution[d] = "FAILED" ~> d \notin InState(RunningStates)

=============================================================================
