--------------------------- MODULE AppGate_proofs ---------------------------
(***************************************************************************)
(* Proof that App implements DeployGate under the mapping of AppGate: every *)
(* step of App is a step of the gate or leaves what the gate sees alone.    *)
(***************************************************************************)
EXTENDS AppGate, App_proofs

Base == [d \in Deployments |->
            IF plan[d] = None THEN {} ELSE {<<plan[d].app, plan[d].base>>}]

USE DEF agentVars, ghosts

\* What the gate sees of the executions.
LEMMA SameExecutions ==
    ASSUME UNCHANGED execution
    PROVE  UNCHANGED <<StartedDeployments, RunningDeployments>>
BY DEF StartedDeployments, RunningDeployments, Running

\* A step on none of the mapped variables is no step of the gate.
LEMMA GateStutters ==
    ASSUME UNCHANGED <<execution, plan, history, givenUp>>
    PROVE  UNCHANGED Gate!gateVars
BY SameExecutions DEF Gate!gateVars

\* The first states of App are first states of the gate.
LEMMA GateInitial == Init => Gate!GateInit
BY DEF Init, Gate!GateInit, StartedDeployments, RunningDeployments, Running

\* A client computes a plan.
LEMMA GateCompute ==
    ASSUME IndInv, IndInv', NEW d \in Deployments, NEW a \in Apps, NEW t \in Stamps,
           GetAppState(d, a, t)
    PROVE  Gate!Compute(d, a)
<1>1. UNCHANGED <<execution, history, givenUp>>
  BY DEF GetAppState
<1>2. /\ plan[d] = None
      /\ plan'[d].app = a
      /\ plan'[d].base = Len(history[a])
      /\ \A e \in Deployments : e # d => plan'[e] = plan[e]
  BY DEF GetAppState, IndInv, LineInv, TypeOK
<1>3. plan'[d] # None
  <2>1. /\ appDoc[a] # None => appDoc[a].deployedAt \in Stamps
        /\ Len(history[a]) \in Nat
        /\ architecture[a] \in SUBSET Deployments
    BY DEF IndInv, LineInv, TypeOK, AppDocs
  <2>2. plan'[d] \in Plans
    BY <2>1 DEF GetAppState, IndInv, LineInv, TypeOK, Plans
  <2> QED BY <2>2, NoneAssumption
<1>4. Base' = [Base EXCEPT ![d] = {<<a, Len(history[a])>>}]
  BY <1>2, <1>3 DEF Base
<1> QED BY <1>1, <1>2, <1>4, SameExecutions DEF Gate!Compute, Base

\* A commit joins the line: after a deployment that has ended, or in the place
\* of one whose execution is not recorded.
LEMMA GateJoin ==
    ASSUME IndInv, NEW h \in Handlers, Commit(h)
    PROVE  Gate!Admit(handler[h].deploymentId, AppOf(h))
           \/ Gate!Replace(handler[h].deploymentId, AppOf(h))
<1> USE DEF IndInv, LineInv
<1> DEFINE d == handler[h].deploymentId
           a == AppOf(h)
           old == appDoc[a].deploymentId
<1>1. /\ d \in Deployments
      /\ a \in Apps
      /\ plan[d] # None
      /\ plan[d].app = a
      /\ plan[d].base = Len(history[a])
  BY CommitPlan
<1>2. Gate!Join(d, a)
  <2>1. UNCHANGED <<execution, plan>> /\ history' = [history EXCEPT ![a] = Append(@, d)]
    BY DEF Commit
  <2>2. Base[d] = {<<a, Len(history[a])>>} /\ Base' = Base
    BY <1>1, <2>1 DEF Base
  <2> QED BY <2>1, <2>2, SameExecutions DEF Gate!Join, Base
<1>3. CASE appDoc[a] = None
  <2>1. history[a] = <<>>
    BY <1>1, <1>3 DEF AppDocIsNewest
  <2>2. givenUp' = givenUp
    BY <1>3 DEF Commit, ReadsHold
  <2> QED BY <1>2, <2>1, <2>2 DEF Gate!Admit
<1>4. CASE appDoc[a] # None
  <2>1. /\ history[a] # <<>>
        /\ old = history[a][Len(history[a])]
        /\ old \in Deployments
        /\ deploymentDoc[old] # None
    BY <1>1, <1>4 DEF AppDocIsNewest, Newest, HistoryIsALine, TypeOK, AppDocs
  <2>2. /\ handler[h].pc = "ready"
        /\ handler[h].readApp = appDoc[a]
        /\ handler[h].readDeployment = deploymentDoc[old]
    BY <1>4 DEF Commit, ReadsHold, CurrentDeployment
  <2>3. CASE deploymentDoc[old].execution = "CREATING"
    <3>1. givenUp' = givenUp \cup {old}
      BY <1>4, <2>1, <2>2, <2>3 DEF Commit
    <3> QED BY <1>2, <2>1, <3>1 DEF Gate!Replace
  <2>4. CASE deploymentDoc[old].execution # "CREATING"
    <3> DEFINE k == deploymentDoc[old].execution
    <3>1. givenUp' = givenUp
      BY <2>2, <2>4 DEF Commit
    <3>2. k \in Handlers /\ execution[k] # None /\ execution[k].deploymentId = old
      BY <2>1, <2>4 DEF DocsNameExecutions, Names, TypeOK, DeploymentDocs
    <3>3. execution[k].state # "ACTIVE"
      BY <1>4, <2>1, <2>2, <2>4 DEF HandlersOK, HandlerOK
    <3>4. \A g \in Handlers : Running(g) /\ execution[g].deploymentId = old => g = k
      BY <3>2 DEF Running, ExecutionsFollowCommits, CommittedOnce, AfterCommit
    <3>5. old \in StartedDeployments
      BY <2>1, <3>2 DEF StartedDeployments
    <3>6. old \notin RunningDeployments
      BY <3>3, <3>4 DEF RunningDeployments, Running
    <3> QED BY <1>2, <2>1, <3>1, <3>5, <3>6 DEF Gate!Admit
  <2> QED BY <2>3, <2>4
<1> QED BY <1>3, <1>4

\* An execution is created for a deployment in the line, once.
LEMMA GateStart ==
    ASSUME IndInv, NEW h \in Handlers, CreateExecution(h)
    PROVE  Gate!Start(handler[h].deploymentId)
<1> USE DEF IndInv, LineInv
<1> DEFINE d == handler[h].deploymentId
           new == [state |-> "ACTIVE", deploymentId |-> d]
<1>1. /\ handler[h].pc = "committed"
      /\ UNCHANGED <<plan, history, givenUp>>
      /\ execution' = [execution EXCEPT ![h] = new]
  BY DEF CreateExecution
<1>2. d \in Deployments /\ AppOf(h) \in Apps
  BY <1>1, BodyType DEF HandlersOK, HandlerOK
<1>3. new # None
  BY <1>2, NoneAssumption DEF Executions, ExecutionStates
<1>4. \A g \in Handlers : execution'[g] = IF g = h THEN new ELSE execution[g]
  BY <1>1 DEF TypeOK
<1>5. execution[h] = None
  BY <1>1 DEF ExecutionsFollowCommits
<1>6. \E i \in 1 .. Len(history[AppOf(h)]) : history[AppOf(h)][i] = d
  BY <1>1 DEF CommittedOnce, AfterCommit
<1>7. d \notin StartedDeployments
  BY <1>1 DEF StartedDeployments, ExecutionsFollowCommits, CommittedOnce, AfterCommit
<1>8. StartedDeployments' = StartedDeployments \cup {d}
  BY <1>2, <1>3, <1>4, <1>5 DEF StartedDeployments
<1>9. RunningDeployments' = RunningDeployments \cup {d}
  BY <1>2, <1>3, <1>4, <1>5 DEF RunningDeployments, Running
<1> QED BY <1>1, <1>2, <1>6, <1>7, <1>8, <1>9 DEF Gate!Start

\* The end of an execution is the end of its deployment.
LEMMA GateEnd ==
    ASSUME IndInv, NEW h \in Handlers, NEW s \in ExecutionStates \ {"ACTIVE"},
           EndExecution(h, s)
    PROVE  Gate!End(execution[h].deploymentId)
<1> USE DEF IndInv, LineInv
<1> DEFINE d == execution[h].deploymentId
<1>1. /\ Running(h)
      /\ execution[h] \in Executions
      /\ UNCHANGED <<plan, history, givenUp>>
  BY DEF EndExecution, Running, TypeOK
<1>2. /\ \A g \in Handlers : g # h => execution'[g] = execution[g]
      /\ execution'[h].state = s
      /\ execution'[h].deploymentId = d
      /\ execution'[h] # None
  BY <1>1, NoneAssumption DEF EndExecution, TypeOK, Executions
<1>3. d \in RunningDeployments
  BY <1>1 DEF RunningDeployments, Executions
<1>4. StartedDeployments' = StartedDeployments
  BY <1>1, <1>2 DEF StartedDeployments, Running
<1>5. \A g \in Handlers : Running(g) /\ execution[g].deploymentId = d => g = h
  BY <1>1 DEF Running, ExecutionsFollowCommits, CommittedOnce, AfterCommit
<1>6. RunningDeployments' = RunningDeployments \ {d}
  BY <1>1, <1>2, <1>5 DEF RunningDeployments, Running
<1> QED BY <1>1, <1>3, <1>4, <1>6 DEF Gate!End

\* Every step of App is a step of the gate or a stutter.
LEMMA GateStep == IndInv /\ IndInv' /\ [Next]_vars => [Gate!GateNext]_Gate!gateVars
<1> SUFFICES ASSUME IndInv, IndInv', [Next]_vars
             PROVE  Gate!GateNext \/ UNCHANGED Gate!gateVars
  OBVIOUS
<1>1. ASSUME NEW d \in Deployments, NEW a \in Apps, NEW t \in Stamps,
             GetAppState(d, a, t)
      PROVE  Gate!GateNext
  BY <1>1, GateCompute DEF Gate!GateNext
<1>2. CASE \/ UNCHANGED vars
           \/ Tick
           \/ \E h \in Handlers, d \in Deployments : Put(h, d)
  BY <1>2, GateStutters DEF vars, Tick, Put
<1> SUFFICES ASSUME NEW h \in Handlers, PutApp(h) \/ Workflow(h)
             PROVE  Gate!GateNext \/ UNCHANGED Gate!gateVars
  BY <1>1, <1>2 DEF Next, Client
<1>3. CASE Commit(h)
  BY <1>3, GateJoin, CommitPlan DEF Gate!GateNext, IndInv
<1>4. CASE CreateExecution(h)
  <2>1. handler[h].deploymentId \in Deployments
    BY <1>4 DEF CreateExecution, IndInv, LineInv, HandlersOK, HandlerOK
  <2> QED BY <1>4, <2>1, GateStart DEF Gate!GateNext
<1>5. ASSUME NEW s \in ExecutionStates \ {"ACTIVE"}, EndExecution(h, s)
      PROVE  Gate!GateNext
  <2>1. execution[h].deploymentId \in Deployments
    BY <1>5 DEF EndExecution, Running, IndInv, LineInv, TypeOK, Executions
  <2> QED BY <1>5, <2>1, GateEnd DEF Gate!GateNext
<1>6. ASSUME \/ ReadApp(h) \/ RejectPlan(h) \/ CheckStatus(h) \/ RejectStatus(h)
             \/ RejectShortId(h) \/ TxnConflict(h) \/ Crash(h)
             \/ RecordExecution(h) \/ CallUpdateState(h) \/ UpdateState(h)
             \/ \E id \in ShortIds : GenerateAppShortId(h, id)
             \/ \E file \in Files : SaveFile(h, file)
      PROVE  UNCHANGED <<execution, plan, history, givenUp>>
  BY <1>6 DEF ReadApp, RejectPlan, CheckStatus, RejectStatus, RejectShortId, TxnConflict,
              Crash, CallUpdateState, UpdateState, RecordExecution, GenerateAppShortId, SaveFile
<1> QED
  BY <1>3, <1>4, <1>5, <1>6, GateStutters DEF PutApp, Workflow

\* putApp, its clients and its executions implement the deployment gate.
THEOREM AppImplementsGate == Spec => ImplementsGate
BY GateInitial, GateStep, Inductive, PTL DEF Spec, ImplementsGate, Gate!GateSpec

=============================================================================
