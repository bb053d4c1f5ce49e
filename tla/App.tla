-------------------------------- MODULE App --------------------------------
(***************************************************************************)
(* The deployment API of functions/agent-backend/App.js: putApp,           *)
(* getAppStatus, getAppState and generateAppShortId, as index.js exposes   *)
(* them, against the services they call.                                   *)
(*                                                                         *)
(* The state of the agent is in Firestore: one document per app, one per   *)
(* deployment, one per deployed element (services, layers, accounts...).   *)
(* A PUT is one invocation of the function (a handler): a transaction that *)
(* checks the plan and the status of the app and claims the app for the    *)
(* new deployment, then, outside the transaction, two files saved, a       *)
(* workflow execution created, and its name recorded.  Any handler may die *)
(* between two awaits, two handlers may carry the same PUT (a client       *)
(* retry), and the execution runs on its own from its creation.            *)
(*                                                                         *)
(* Firestore transactions are serializable: the reads of a transaction are *)
(* remembered and Commit is enabled only while they still hold; otherwise  *)
(* the client library runs the transaction function again (TxnConflict).   *)
(***************************************************************************)
EXTENDS Naturals, Sequences

CONSTANTS
    Apps,            \* app ids
    Deployments,     \* deployment ids, chosen by the client
    Handlers,        \* invocations of PUT /apps/:organization/:appName
    ShortIds,        \* what nanoid() can return
    Stamps,          \* values of deployedAt, a client's timestamp
    CreatingTimeout, \* 60 * 1000 in getAppStatus
    MaxClock,        \* bound on the clock
    None             \* no document, no value

ASSUME StampsAssumption == Stamps \subseteq Nat \ {0}
ASSUME ClockAssumption == CreatingTimeout \in Nat /\ MaxClock \in Nat
ASSUME NamesAssumption == "CREATING" \notin Handlers

VARIABLES
    appDoc,          \* apps/<appId>
    deploymentDoc,   \* apps/<appId>/deployments/<deploymentId>
    architecture,    \* apps/<appId>/{services, layers, accounts, ...}: the
                     \* deployments whose steps wrote to them
    sent,            \* executions that have called /workflow/updateState
    bucket,          \* files of ARCHITECTURES_BUCKET
    execution,       \* workflow executions, named by the handler creating them
    handler,         \* invocations of putApp
    plan,            \* what a client computed for a deployment it will PUT
    clock,           \* Date.now() at the agent
    \* ghosts: no action's guard reads them
    history,         \* deployments committed by putApp, per app, in order
    givenUp          \* deployments replaced while their execution was CREATING

agentVars == <<appDoc, deploymentDoc, bucket>>
ghosts == <<history, givenUp>>
vars == <<appDoc, deploymentDoc, architecture, sent, bucket, execution, handler,
          plan, clock, history, givenUp>>

-----------------------------------------------------------------------------
(* Types *)

AppDocs == [appShortId : ShortIds, deploymentId : Deployments,
            deployedAt : Stamps]
DeploymentDocs == [deployedAt : Stamps, execution : Handlers \cup {"CREATING"}]
Files == {"plan.json", "artifacts.json"}

ExecutionStates ==
    {"ACTIVE", "SUCCEEDED", "FAILED", "CANCELLED", "STATE_UNSPECIFIED"}
Executions == [state : ExecutionStates, deploymentId : Deployments]

\* deploymentPoint is 0 when the client read null (the app does not exist).
\* base is a ghost: how many deployments had been committed at that moment.
Plans == [app : Apps, deploymentPoint : Stamps \cup {0}, deployedAt : Stamps,
          architecture : SUBSET Deployments, base : Nat]

ASSUME NoneAssumption ==
    /\ None \notin Apps \cup Deployments \cup Handlers \cup ShortIds
    /\ None \notin AppDocs \cup DeploymentDocs \cup Executions \cup Plans

BeforeCommit == {"begin", "read", "naming", "ready"}
AfterCommit == {"committed", "created", "done", "crashed"}
HandlerStates ==
    [pc : {"idle", "rejected"} \cup BeforeCommit \cup AfterCommit,
     deploymentId : Deployments \cup {None},
     readApp : AppDocs \cup {None},
     readDeployment : DeploymentDocs \cup {None},
     appShortId : ShortIds \cup {None}]

\* Every document, execution and invocation keeps its shape; in particular an
\* app document always has the short id its elements are named by, in whatever
\* path of putApp it was written.
TypeOK ==
    /\ appDoc \in [Apps -> AppDocs \cup {None}]
    /\ deploymentDoc \in [Deployments -> DeploymentDocs \cup {None}]
    /\ architecture \in [Apps -> SUBSET Deployments]
    /\ sent \subseteq Handlers
    /\ bucket \subseteq Deployments \X Files
    /\ execution \in [Handlers -> Executions \cup {None}]
    /\ handler \in [Handlers -> HandlerStates]
    /\ plan \in [Deployments -> Plans \cup {None}]
    /\ clock \in 0 .. MaxClock
    /\ history \in [Apps -> Seq(Deployments)]
    /\ givenUp \subseteq Deployments

\* A handler at pc, with what its transaction has read so far.
Holding(pc, d, app, deployment, id) ==
    [pc |-> pc, deploymentId |-> d, readApp |-> app,
     readDeployment |-> deployment, appShortId |-> id]

Init ==
    /\ appDoc = [a \in Apps |-> None]
    /\ deploymentDoc = [d \in Deployments |-> None]
    /\ architecture = [a \in Apps |-> {}]
    /\ sent = {}
    /\ bucket = {}
    /\ execution = [h \in Handlers |-> None]
    /\ handler = [h \in Handlers |-> Holding("idle", None, None, None, None)]
    /\ plan = [d \in Deployments |-> None]
    /\ clock = 0
    /\ history = [a \in Apps |-> <<>>]
    /\ givenUp = {}

-----------------------------------------------------------------------------
(* getAppStatus *)

\* A variant that forgets ACTIVE: an execution under way falls through to UNKNOWN.
ExecutionStatusNoActive ==
    [ACTIVE |-> "UNKNOWN", CANCELLED |-> "CANCELLED",
     SUCCEEDED |-> "DEPLOYED", FAILED |-> "FAILED",
     STATE_UNSPECIFIED |-> "UNKNOWN"]

\* The answer of executionsClient.getExecution, as a status of the app.
ExecutionStatus ==
    [ACTIVE |-> "DEPLOYING", CANCELLED |-> "CANCELLED",
     SUCCEEDED |-> "DEPLOYED", FAILED |-> "FAILED",
     STATE_UNSPECIFIED |-> "UNKNOWN"]

\* A variant without the limit of one minute.
NeverExpired(deployment) == FALSE

\* The minute after which a deployment still CREATING is taken for failed.
Expired(deployment) == clock > deployment.deployedAt + CreatingTimeout

\* The status of an app from its document and the document of the deployment
\* it names.  putApp writes both in one transaction with a deploymentId and a
\* deployedAt, so the branches of the code for a missing deploymentId,
\* deployment or deployedAt (all UNKNOWN) are only the None case below.
Status(app, deployment) ==
    CASE app = None -> "NOT_YET_DEPLOYED"
      [] app # None /\ deployment = None -> "UNKNOWN"
      [] app # None /\ deployment # None /\ deployment.execution = "CREATING" ->
            IF Expired(deployment) THEN "FAILED" ELSE "DEPLOYING"
      [] OTHER -> ExecutionStatus[execution[deployment.execution].state]

CurrentDeployment(app) ==
    IF app = None THEN None ELSE deploymentDoc[app.deploymentId]

AppStatus(a) == Status(appDoc[a], CurrentDeployment(appDoc[a]))

\* Two variants of the next definition, each with one status too many.
DeployableWhileDeploying ==
    {"UNKNOWN", "FAILED", "DEPLOYED", "NOT_YET_DEPLOYED", "DEPLOYING"}
DeployableWhenCancelled ==
    {"UNKNOWN", "FAILED", "DEPLOYED", "NOT_YET_DEPLOYED", "CANCELLED"}

\* The statuses in which putApp lets a new deployment start.
Deployable == {"UNKNOWN", "FAILED", "DEPLOYED", "NOT_YET_DEPLOYED"}

-----------------------------------------------------------------------------
(* The clients *)

\* A client reads the state of app a (getAppState, a read-only transaction:
\* deployedAt and the elements are of one instant) and computes from it the
\* plan of deployment d; it stamps the deployment with a time of its own
\* clock, which nobody else uses.
GetAppState(d, a, stamp) ==
    /\ plan[d] = None
    /\ \A e \in Deployments : plan[e] # None => plan[e].deployedAt # stamp
    /\ plan' = [plan EXCEPT ![d] =
            [app |-> a,
             deploymentPoint |->
                IF appDoc[a] = None THEN 0 ELSE appDoc[a].deployedAt,
             deployedAt |-> stamp,
             architecture |-> architecture[a],
             base |-> Len(history[a])]]
    /\ UNCHANGED <<agentVars, architecture, sent, execution, handler, clock, ghosts>>

\* A PUT reaches the agent: the first of its kind, or one sent again.
Put(h, d) ==
    /\ handler[h].pc = "idle"
    /\ plan[d] # None
    /\ handler' = [handler EXCEPT ![h] = Holding("begin", d, None, None, None)]
    /\ UNCHANGED <<agentVars, architecture, sent, execution, plan, clock, ghosts>>

-----------------------------------------------------------------------------
(* putApp: the transaction *)

Body(h) == plan[handler[h].deploymentId]
AppOf(h) == Body(h).app

\* handler[h] with no transaction open, at pc.
Leave(h, pc) == Holding(pc, handler[h].deploymentId, None, None, None)

\* A variant that compares no deployment point with an existing app.
PlanValidIfNew(app, deploymentPoint) == app = None => deploymentPoint = 0

PlanValid(app, deploymentPoint) ==
    IF app = None THEN deploymentPoint = 0 ELSE app.deployedAt = deploymentPoint

\* transaction.get of the app, and of its deployment by getAppStatus: both
\* documents stay locked for the transaction, so they are of one instant.
ReadApp(h) ==
    /\ handler[h].pc = "begin"
    /\ PlanValid(appDoc[AppOf(h)], Body(h).deploymentPoint)
    /\ handler' = [handler EXCEPT ![h] =
            Holding("read", handler[h].deploymentId, appDoc[AppOf(h)],
                    CurrentDeployment(appDoc[AppOf(h)]), None)]
    /\ UNCHANGED <<agentVars, architecture, sent, execution, plan, clock, ghosts>>

\* 'Plan is not valid anymore'
RejectPlan(h) ==
    /\ handler[h].pc = "begin"
    /\ ~PlanValid(appDoc[AppOf(h)], Body(h).deploymentPoint)
    /\ handler' = [handler EXCEPT ![h] = Leave(h, "rejected")]
    /\ UNCHANGED <<agentVars, architecture, sent, execution, plan, clock, ghosts>>

\* handler[h] further on in its transaction.
HoldMore(h, pc, id) ==
    Holding(pc, handler[h].deploymentId, handler[h].readApp,
            handler[h].readDeployment, id)

\* A variant that leaves the short id of an existing app behind.
CheckStatusNoShortId(h) ==
    /\ handler[h].pc = "read"
    /\ Status(handler[h].readApp, handler[h].readDeployment) \in Deployable
    /\ handler' = [handler EXCEPT ![h].pc =
            IF handler[h].readApp = None THEN "naming" ELSE "ready"]
    /\ UNCHANGED <<agentVars, architecture, sent, execution, plan, clock, ghosts>>

\* getExecution is asked, or Date.now() read, after the documents.
CheckStatus(h) ==
    /\ handler[h].pc = "read"
    /\ Status(handler[h].readApp, handler[h].readDeployment) \in Deployable
    /\ handler' = [handler EXCEPT ![h] =
            IF handler[h].readApp = None
            THEN HoldMore(h, "naming", None)
            ELSE HoldMore(h, "ready", handler[h].readApp.appShortId)]
    /\ UNCHANGED <<agentVars, architecture, sent, execution, plan, clock, ghosts>>

\* 'Unable to deploy the application. The app status is ...'
RejectStatus(h) ==
    /\ handler[h].pc = "read"
    /\ Status(handler[h].readApp, handler[h].readDeployment) \notin Deployable
    /\ handler' = [handler EXCEPT ![h] = Leave(h, "rejected")]
    /\ UNCHANGED <<agentVars, architecture, sent, execution, plan, clock, ghosts>>

ShortIdFree(id) == \A a \in Apps : appDoc[a] # None => appDoc[a].appShortId # id

\* generateAppShortId: a random id that no app has at the time of its query.
GenerateAppShortId(h, id) ==
    /\ handler[h].pc = "naming"
    /\ ShortIdFree(id)
    /\ handler' = [handler EXCEPT ![h] = HoldMore(h, "ready", id)]
    /\ UNCHANGED <<agentVars, architecture, sent, execution, plan, clock, ghosts>>

\* 'Unable to create a app short id.': a hundred ids drawn, all in use.
RejectShortId(h) ==
    /\ handler[h].pc = "naming"
    /\ \E id \in ShortIds : ~ShortIdFree(id)
    /\ handler' = [handler EXCEPT ![h] = Leave(h, "rejected")]
    /\ UNCHANGED <<agentVars, architecture, sent, execution, plan, clock, ghosts>>

\* Two variants: the app read, or the short id queried, outside the transaction.
ReadsHoldNoApp(h) ==
    handler[h].readApp = None => ShortIdFree(handler[h].appShortId)
ReadsHoldNoShortId(h) ==
    /\ appDoc[AppOf(h)] = handler[h].readApp
    /\ CurrentDeployment(handler[h].readApp) = handler[h].readDeployment

\* What the transaction read is still what is stored: the app, the deployment
\* it names, and the empty answer to the query for a new short id.
ReadsHold(h) ==
    /\ appDoc[AppOf(h)] = handler[h].readApp
    /\ CurrentDeployment(handler[h].readApp) = handler[h].readDeployment
    /\ handler[h].readApp = None => ShortIdFree(handler[h].appShortId)

\* A variant that updates the deployment of an app and not its deployedAt.
NewAppDocSamePoint(h) ==
    [appShortId |-> handler[h].appShortId,
     deploymentId |-> handler[h].deploymentId,
     deployedAt |-> IF handler[h].readApp = None
                    THEN Body(h).deployedAt ELSE handler[h].readApp.deployedAt]

NewAppDoc(h) == [appShortId |-> handler[h].appShortId,
                 deploymentId |-> handler[h].deploymentId,
                 deployedAt |-> Body(h).deployedAt]
NewDeploymentDoc(h) == [deployedAt |-> Body(h).deployedAt,
                        execution |-> "CREATING"]

\* The writes of the transaction, all or none.
Commit(h) ==
    /\ handler[h].pc = "ready"
    /\ ReadsHold(h)
    /\ appDoc' = [appDoc EXCEPT ![AppOf(h)] = NewAppDoc(h)]
    /\ deploymentDoc' = [deploymentDoc EXCEPT
            ![handler[h].deploymentId] = NewDeploymentDoc(h)]
    /\ handler' = [handler EXCEPT ![h] = Leave(h, "committed")]
    /\ history' = [history EXCEPT
            ![AppOf(h)] = Append(@, handler[h].deploymentId)]
    /\ givenUp' = givenUp \cup
            { d \in Deployments : /\ handler[h].readApp # None
                                  /\ handler[h].readApp.deploymentId = d
                                  /\ handler[h].readDeployment # None
                                  /\ handler[h].readDeployment.execution = "CREATING" }
    /\ UNCHANGED <<bucket, architecture, sent, execution, plan, clock>>

\* A read no longer holds: runTransaction calls its function again, or, after
\* its five attempts, gives up.
TxnConflict(h) ==
    /\ handler[h].pc = "ready"
    /\ ~ReadsHold(h)
    /\ \E pc \in {"begin", "rejected"} :
          handler' = [handler EXCEPT ![h] = Leave(h, pc)]
    /\ UNCHANGED <<agentVars, architecture, sent, execution, plan, clock, ghosts>>

-----------------------------------------------------------------------------
(* putApp: after the transaction *)

\* One of the two saves under way has ended.
SaveFile(h, file) ==
    /\ handler[h].pc = "committed"
    /\ <<handler[h].deploymentId, file>> \notin bucket
    /\ bucket' = bucket \cup {<<handler[h].deploymentId, file>>}
    /\ UNCHANGED <<appDoc, deploymentDoc, architecture, sent, execution, handler,
                   plan, clock, ghosts>>

\* Both saves have: the workflow execution is created, and starts.
CreateExecution(h) ==
    /\ handler[h].pc = "committed"
    /\ {handler[h].deploymentId} \X Files \subseteq bucket
    /\ execution' = [execution EXCEPT ![h] =
            [state |-> "ACTIVE", deploymentId |-> handler[h].deploymentId]]
    /\ handler' = [handler EXCEPT ![h].pc = "created"]
    /\ UNCHANGED <<agentVars, architecture, sent, plan, clock, ghosts>>

\* The answer of createExecution has arrived: its name replaces CREATING, in
\* whatever deployment document is there by now.
RecordExecution(h) ==
    /\ handler[h].pc = "created"
    /\ deploymentDoc' = [deploymentDoc EXCEPT
            ![handler[h].deploymentId].execution = h]
    /\ handler' = [handler EXCEPT ![h].pc = "done"]
    /\ UNCHANGED <<appDoc, bucket, architecture, sent, execution, plan, clock, ghosts>>

\* An awaited call fails, the instance is stopped, or the request times out:
\* nothing is undone, and nothing resumes it.
Crash(h) ==
    /\ handler[h].pc \in BeforeCommit \cup {"committed", "created"}
    /\ handler' = [handler EXCEPT ![h] =
            Leave(h, IF handler[h].pc \in BeforeCommit
                     THEN "rejected" ELSE "crashed")]
    /\ UNCHANGED <<agentVars, architecture, sent, execution, plan, clock, ghosts>>

-----------------------------------------------------------------------------
(* The workflow execution (workflows/AgentDeployAppWorkflow.yaml), and time *)

Running(h) == execution[h] # None /\ execution[h].state = "ACTIVE"

\* A step of the workflow calls /workflow/updateState.  What it sends is not
\* taken back: the call is one attempt or, when an answer is late or lost, more.
CallUpdateState(h) ==
    /\ Running(h)
    /\ h \notin sent
    /\ sent' = sent \cup {h}
    /\ UNCHANGED <<agentVars, architecture, execution, handler, plan, clock, ghosts>>

\* An attempt runs at the agent, which asks nothing about the execution: it may
\* be over by then, and other deployments executed since.  The writes of one
\* deployment are told apart from those of another, not from each other.
UpdateState(h) ==
    /\ h \in sent
    /\ LET d == execution[h].deploymentId IN
          architecture' = [architecture EXCEPT ![plan[d].app] = @ \cup {d}]
    /\ UNCHANGED <<agentVars, sent, execution, handler, plan, clock, ghosts>>

\* An attempt of h's call has been answered, so it has run.
Answered(h) ==
    LET d == execution[h].deploymentId IN d \in architecture[plan[d].app]

\* The execution ends: on its own, which is a success only if its calls were
\* answered, or cancelled in the console.
EndExecution(h, state) ==
    /\ Running(h)
    /\ state = "SUCCEEDED" /\ h \in sent => Answered(h)
    /\ execution' = [execution EXCEPT ![h].state = state]
    /\ UNCHANGED <<agentVars, architecture, sent, handler, plan, clock, ghosts>>

Tick ==
    /\ clock < MaxClock
    /\ clock' = clock + 1
    /\ UNCHANGED <<agentVars, architecture, sent, execution, handler, plan, ghosts>>

Client == \/ \E d \in Deployments, a \in Apps, t \in Stamps : GetAppState(d, a, t)
          \/ \E h \in Handlers, d \in Deployments : Put(h, d)

PutApp(h) ==
    \/ ReadApp(h) \/ RejectPlan(h)
    \/ CheckStatus(h) \/ RejectStatus(h)
    \/ \E id \in ShortIds : GenerateAppShortId(h, id)
    \/ RejectShortId(h)
    \/ Commit(h) \/ TxnConflict(h)
    \/ \E file \in Files : SaveFile(h, file)
    \/ CreateExecution(h) \/ RecordExecution(h)
    \/ Crash(h)

Workflow(h) ==
    \/ CallUpdateState(h) \/ UpdateState(h)
    \/ \E s \in ExecutionStates \ {"ACTIVE"} : EndExecution(h, s)

Next == \/ Client
        \/ \E h \in Handlers : PutApp(h) \/ Workflow(h)
        \/ Tick

Spec == Init /\ [][Next]_vars

\* Time passes, and an execution ends (Workflows bounds its duration).
\* Handlers and clients promise nothing: each may stop for good anywhere.
Fairness ==
    /\ WF_vars(Tick)
    /\ \A h \in Handlers :
          WF_vars(\E s \in ExecutionStates \ {"ACTIVE"} : EndExecution(h, s))

FairSpec == Spec /\ Fairness

-----------------------------------------------------------------------------
(* Properties *)

\* The deployments of an app form one line: each was computed from the state
\* its predecessor left, whatever handlers interleave and however often a PUT
\* is delivered.  This is what the deploymentPoint test of putApp, inside its
\* transaction, is for.
PlanBuiltOnPredecessor ==
    \A a \in Apps : \A i \in 1 .. Len(history[a]) :
        plan[history[a][i]].base = i - 1

\* A deployment is executed at most once, though its PUT is sent again after
\* a lost answer and though putApp dies and is called anew.
AtMostOneExecution ==
    \A g, h \in Handlers :
        /\ execution[g] # None
        /\ execution[h] # None
        /\ execution[g].deploymentId = execution[h].deploymentId
        => g = h

\* An execution still running whose deployment is no longer the app's current
\* one belongs to a deployment that was replaced before its execution was
\* recorded: the status check of putApp lets no other two overlap.
OverlapOnlyIfGivenUp ==
    \A h \in Handlers : Running(h) =>
        LET d == execution[h].deploymentId
            a == plan[d].app
        IN  (appDoc[a] # None /\ appDoc[a].deploymentId = d) \/ d \in givenUp

\* Two apps never share a short id, which names the cloud resources of an app:
\* the query of generateAppShortId is part of the transaction.
AppShortIdUnique ==
    \A a, b \in Apps :
        /\ appDoc[a] # None
        /\ appDoc[b] # None
        /\ appDoc[a].appShortId = appDoc[b].appShortId
        => a = b

\* CANCELLED is missing from the statuses putApp accepts, and no other call
\* changes the app: once an execution has been cancelled the app is frozen.
CancelledAppIsFrozen ==
    [][\A a \in Apps : AppStatus(a) = "CANCELLED" =>
            /\ appDoc'[a] = appDoc[a]
            /\ AppStatus(a)' = "CANCELLED"]_vars

\* An app does not stay DEPLOYING for ever, wherever putApp died: this is what
\* the one-minute limit of getAppStatus is for.
DeployingEnds ==
    \A a \in Apps : AppStatus(a) = "DEPLOYING" ~> AppStatus(a) # "DEPLOYING"

\* "if the workflow is not created 1 min after the initialization we assume
\* the workflow failed to start" (App.js, getAppStatus): a deployment whose
\* creation expired has no execution running.
ExpiredMeansNotStarted ==
    \A h \in Handlers : Running(h) =>
        LET deployment == deploymentDoc[execution[h].deploymentId]
        IN  ~(deployment.execution = "CREATING" /\ Expired(deployment))

\* "we check that the plan is still valid. if the app has been deployed since
\* the plan has been computed, the plan is not valid anymore" (App.js, putApp):
\* a deployment is committed only on the elements its plan was computed from.
PlanIsFresh ==
    [][\A a \in Apps : history'[a] # history[a] =>
            plan[history'[a][Len(history'[a])]].architecture = architecture[a]]_vars

=============================================================================
