----------------------------- MODULE App_proofs -----------------------------
(***************************************************************************)
(* Proofs about App: the invariant of AppInv is inductive, and the safety  *)
(* properties of App follow from it.                                       *)
(***************************************************************************)
EXTENDS AppInv, TLAPS

-----------------------------------------------------------------------------
(* Types *)

\* Whatever a handler goes on to hold is of its type.
LEMMA HoldingType ==
    ASSUME NEW pc \in {"idle", "rejected"} \cup BeforeCommit \cup AfterCommit,
           NEW d \in Deployments \cup {None},
           NEW app \in AppDocs \cup {None},
           NEW deployment \in DeploymentDocs \cup {None},
           NEW id \in ShortIds \cup {None}
    PROVE  Holding(pc, d, app, deployment, id) \in HandlerStates
BY DEF Holding, HandlerStates

\* The current deployment of an app, of whatever document, is of its type.
LEMMA CurrentType ==
    ASSUME TypeOK, NEW app \in AppDocs \cup {None}
    PROVE  CurrentDeployment(app) \in DeploymentDocs \cup {None}
BY DEF CurrentDeployment, AppDocs, TypeOK

\* A handler that carries a plan is a handler of an app.
LEMMA BodyType ==
    ASSUME TypeOK, NEW h \in Handlers,
           handler[h].deploymentId \in Deployments,
           plan[handler[h].deploymentId] # None
    PROVE  /\ Body(h) \in Plans
           /\ AppOf(h) \in Apps
BY DEF TypeOK, Body, AppOf, Plans

\* The first states are of their types.
LEMMA TypeInit == Init => TypeOK
<1> SUFFICES ASSUME Init PROVE TypeOK
  OBVIOUS
<1>1. Holding("idle", None, None, None, None) \in HandlerStates
  BY HoldingType
<1>2. handler \in [Handlers -> HandlerStates]
  BY <1>1 DEF Init
<1>3. clock \in 0 .. MaxClock
  BY ClockAssumption DEF Init
<1>4. history \in [Apps -> Seq(Deployments)]
  BY DEF Init
<1> QED BY <1>2, <1>3, <1>4 DEF Init, TypeOK

\* Of the invariant, the types need that a busy handler carries a plan, that a
\* ready one has a short id, that the document to update is there, and that an
\* attempt is of an execution.
LEMMA TypeNext == LineInv /\ SuccessesWritten /\ [Next]_vars => TypeOK'
<1> SUFFICES ASSUME TypeOK, HandlersOK, ExecutionsFollowCommits, SuccessesWritten, [Next]_vars
             PROVE  TypeOK'
  BY DEF LineInv
<1> USE DEF TypeOK
<1>1. ASSUME NEW d \in Deployments, NEW a \in Apps, NEW t \in Stamps,
             GetAppState(d, a, t)
      PROVE TypeOK'
  <2>1. plan' \in [Deployments -> Plans \cup {None}]
    <3>1. Len(history[a]) \in Nat
      OBVIOUS
    <3>2. appDoc[a] # None => appDoc[a].deployedAt \in Stamps
      BY DEF AppDocs
    <3> QED BY <1>1, <3>1, <3>2 DEF GetAppState, Plans
  <2> QED BY <1>1, <2>1 DEF GetAppState, agentVars, ghosts
<1>2. ASSUME NEW h \in Handlers, NEW d \in Deployments, Put(h, d)
      PROVE TypeOK'
  <2>1. Holding("begin", d, None, None, None) \in HandlerStates
    BY HoldingType DEF BeforeCommit
  <2> QED BY <1>2, <2>1 DEF Put, agentVars, ghosts
<1> SUFFICES ASSUME NEW h \in Handlers, PutApp(h) \/ Workflow(h) \/ Tick
             PROVE  TypeOK'
  <2>1. CASE UNCHANGED vars
    BY <2>1 DEF vars
  <2>2. CASE Tick
    BY <2>2, ClockAssumption DEF Tick, agentVars, ghosts
  <2> QED BY <1>1, <1>2, <2>1, <2>2 DEF Next, Client
<1> DEFINE d == handler[h].deploymentId
<1>h. handler[h] \in HandlerStates
  OBVIOUS
<1>b. handler[h].pc # "idle" =>
          /\ d \in Deployments
          /\ AppOf(h) \in Apps
          /\ Body(h) \in Plans
  BY BodyType DEF HandlersOK, HandlerOK
<1>l. ASSUME NEW pc \in {"idle", "rejected"} \cup BeforeCommit \cup AfterCommit
      PROVE  Leave(h, pc) \in HandlerStates
  BY <1>h, HoldingType DEF Leave, HandlerStates
<1>m. ASSUME NEW pc \in BeforeCommit, NEW id \in ShortIds \cup {None}
      PROVE  HoldMore(h, pc, id) \in HandlerStates
  BY <1>h, HoldingType DEF HoldMore, HandlerStates
<1>3. CASE ReadApp(h)
  <2>1. appDoc[AppOf(h)] \in AppDocs \cup {None}
    BY <1>3, <1>b DEF ReadApp
  <2>2. Holding("read", d, appDoc[AppOf(h)], CurrentDeployment(appDoc[AppOf(h)]),
                None) \in HandlerStates
    BY <2>1, <1>h, CurrentType, HoldingType DEF HandlerStates, BeforeCommit
  <2> QED BY <1>3, <2>2 DEF ReadApp, agentVars, ghosts
<1>4. CASE RejectPlan(h)
  BY <1>4, <1>l DEF RejectPlan, agentVars, ghosts
<1>5. CASE CheckStatus(h)
  <2>1. handler[h].readApp # None => handler[h].readApp.appShortId \in ShortIds
    BY <1>h DEF HandlerStates, AppDocs
  <2> QED BY <1>5, <1>m, <2>1 DEF CheckStatus, BeforeCommit, agentVars, ghosts
<1>6. CASE RejectStatus(h)
  BY <1>6, <1>l DEF RejectStatus, agentVars, ghosts
<1>7. ASSUME NEW id \in ShortIds, GenerateAppShortId(h, id) PROVE TypeOK'
  BY <1>7, <1>m DEF GenerateAppShortId, BeforeCommit, agentVars, ghosts
<1>8. CASE RejectShortId(h)
  BY <1>8, <1>l DEF RejectShortId, agentVars, ghosts
<1>9. CASE Commit(h)
  <2>1. handler[h].pc = "ready"
    BY <1>9 DEF Commit
  <2>2. NewAppDoc(h) \in AppDocs
    BY <2>1, <1>h, <1>b DEF NewAppDoc, AppDocs, Plans, HandlerStates,
        HandlersOK, HandlerOK
  <2>3. NewDeploymentDoc(h) \in DeploymentDocs
    BY <2>1, <1>b DEF NewDeploymentDoc, DeploymentDocs, Plans
  <2>4. history' \in [Apps -> Seq(Deployments)]
    BY <1>9, <2>1, <1>b DEF Commit
  <2>5. givenUp' \subseteq Deployments
    BY <1>9 DEF Commit
  <2>6. appDoc' \in [Apps -> AppDocs \cup {None}]
    BY <1>9, <2>1, <2>2, <1>b DEF Commit
  <2>7. deploymentDoc' \in [Deployments -> DeploymentDocs \cup {None}]
    BY <1>9, <2>1, <2>3, <1>b DEF Commit
  <2>8. handler' \in [Handlers -> HandlerStates]
    BY <1>9, <1>l DEF Commit, AfterCommit
  <2> QED BY <1>9, <2>4, <2>5, <2>6, <2>7, <2>8 DEF Commit
<1>10. CASE TxnConflict(h)
  BY <1>10, <1>l DEF TxnConflict, BeforeCommit, agentVars, ghosts
<1>11. ASSUME NEW file \in Files, SaveFile(h, file) PROVE TypeOK'
  BY <1>11, <1>b DEF SaveFile, ghosts
<1>12. CASE CreateExecution(h)
  <2>1. [state |-> "ACTIVE", deploymentId |-> d] \in Executions
    BY <1>12, <1>b DEF CreateExecution, Executions, ExecutionStates
  <2>2. handler' \in [Handlers -> HandlerStates]
    BY <1>12 DEF CreateExecution, HandlerStates, AfterCommit
  <2> QED BY <1>12, <2>1, <2>2 DEF CreateExecution, agentVars, ghosts
<1>13. CASE RecordExecution(h)
  <2>1. handler' \in [Handlers -> HandlerStates]
    BY <1>13 DEF RecordExecution, HandlerStates, AfterCommit
  <2>2. deploymentDoc[d] \in DeploymentDocs
    BY <1>13, <1>b DEF RecordExecution, ExecutionsFollowCommits
  <2>3. deploymentDoc' \in [Deployments -> DeploymentDocs \cup {None}]
    BY <1>13, <1>b, <2>2 DEF RecordExecution, DeploymentDocs
  <2> QED BY <1>13, <2>1, <2>3 DEF RecordExecution, ghosts
<1>14. CASE Crash(h)
  BY <1>14, <1>l DEF Crash, AfterCommit, agentVars, ghosts
<1>15. CASE UpdateState(h)
  <2>1. execution[h].deploymentId \in Deployments
    BY <1>15 DEF UpdateState, SuccessesWritten, Executions
  <2> QED BY <1>15, <2>1 DEF UpdateState, agentVars, ghosts
<1>18. CASE CallUpdateState(h)
  BY <1>18 DEF CallUpdateState, agentVars, ghosts
<1>16. ASSUME NEW s \in ExecutionStates, EndExecution(h, s) PROVE TypeOK'
  BY <1>16 DEF EndExecution, Running, Executions, agentVars, ghosts
<1>17. CASE Tick
  BY <1>17, ClockAssumption DEF Tick, agentVars, ghosts
<1> QED
  BY <1>3, <1>4, <1>5, <1>6, <1>7, <1>8, <1>9, <1>10, <1>11, <1>12, <1>13,
     <1>14, <1>15, <1>16, <1>17, <1>18 DEF PutApp, Workflow

-----------------------------------------------------------------------------
(* The inductive invariant *)

\* The invariant holds of the first states.
LEMMA LineInit == Init => LineInv
<1> SUFFICES ASSUME Init PROVE LineInv
  OBVIOUS
<1>1. AppDocIsNewest
  BY DEF Init, AppDocIsNewest
<1>2. HistoryIsALine
  BY DEF Init, HistoryIsALine
<1>3. DocsNameExecutions
  BY DEF Init, DocsNameExecutions, Names
<1>4. HandlersOK
  BY DEF Init, HandlersOK, HandlerOK, Holding
<1>5. CommittedOnce /\ ExecutionsFollowCommits
  BY DEF Init, CommittedOnce, ExecutionsFollowCommits, AfterCommit, Holding
<1>6. OverlapOnlyIfGivenUp /\ AppShortIdUnique
  BY DEF Init, OverlapOnlyIfGivenUp, AppShortIdUnique, Running
<1>7. StampsDiffer /\ PointNamesBase
  BY DEF Init, StampsDiffer, PointNamesBase
<1> QED BY <1>1, <1>2, <1>3, <1>4, <1>5, <1>6, <1>7, TypeInit DEF LineInv

\* A step that changes only what one handler holds, before its commit or when
\* it dies, preserves the invariant if what it goes on to hold is right.
LEMMA HandlerStep ==
    ASSUME LineInv, NEW h \in Handlers, NEW t,
           UNCHANGED <<agentVars, execution, plan, ghosts>>,
           handler' = [handler EXCEPT ![h] = t],
           HandlerOK(t),
           \/ /\ handler[h].pc \in BeforeCommit \cup {"idle"}
              /\ t.pc \in BeforeCommit \cup {"rejected"}
           \/ /\ handler[h].pc \in {"committed", "created"}
              /\ t.pc = "crashed"
              /\ t.deploymentId = handler[h].deploymentId
    PROVE  TypeOK' => LineInv'
<1> USE DEF LineInv, agentVars, ghosts
<1>h. \A g \in Handlers : handler'[g] = IF g = h THEN t ELSE handler[g]
  BY DEF TypeOK
<1>1. AppDocIsNewest'
  BY DEF AppDocIsNewest, Newest
<1>2. HistoryIsALine'
  BY DEF HistoryIsALine
<1>3. StampsDiffer'
  BY DEF StampsDiffer
<1>4. PointNamesBase'
  BY DEF PointNamesBase
<1>5. DocsNameExecutions'
  BY DEF DocsNameExecutions, Names
<1>6. HandlersOK'
  <2> SUFFICES ASSUME NEW g \in Handlers PROVE HandlerOK(handler[g])'
    BY DEF HandlersOK
  <2>1. HandlerOK(handler[g]) /\ HandlerOK(t)
    BY DEF HandlersOK
  <2> QED BY <1>h, <2>1 DEF HandlerOK, Names
<1>7. CommittedOnce'
  BY <1>h DEF CommittedOnce, BeforeCommit, AfterCommit, AppOf, Body
<1>8. ExecutionsFollowCommits'
  BY <1>h DEF ExecutionsFollowCommits, BeforeCommit, AppOf, Body
<1>9. OverlapOnlyIfGivenUp'
  BY DEF OverlapOnlyIfGivenUp, Running
<1>10. AppShortIdUnique'
  BY DEF AppShortIdUnique
<1> QED
  BY <1>1, <1>2, <1>3, <1>4, <1>5, <1>6, <1>7, <1>8, <1>9, <1>10

\* A new plan sits at the end of the history of its app.
LEMMA GetAppStateStep ==
    ASSUME LineInv, NEW d \in Deployments, NEW a \in Apps, NEW stamp \in Stamps,
           GetAppState(d, a, stamp)
    PROVE  TypeOK' => LineInv'
<1> USE DEF LineInv, agentVars, ghosts
<1> DEFINE p == [app |-> a,
                 deploymentPoint |->
                    IF appDoc[a] = None THEN 0 ELSE appDoc[a].deployedAt,
                 deployedAt |-> stamp,
                 architecture |-> architecture[a],
                 base |-> Len(history[a])]
<1>p. /\ plan[d] = None
      /\ plan' = [plan EXCEPT ![d] = p]
      /\ UNCHANGED <<agentVars, architecture, execution, handler, clock, ghosts>>
      /\ \A e \in Deployments : plan[e] # None => plan[e].deployedAt # stamp
  BY DEF GetAppState
<1>q. \A e \in Deployments : plan'[e] = IF e = d THEN p ELSE plan[e]
  BY <1>p DEF TypeOK
<1>r. \A e \in Deployments : plan[e] # None => plan'[e] = plan[e]
  BY <1>p, <1>q
<1>s. \A b \in Apps : /\ Len(history[b]) \in Nat
                      /\ \A i \in 1 .. Len(history[b]) :
                            /\ history[b][i] \in Deployments
                            /\ plan[history[b][i]] # None
                            /\ plan'[history[b][i]] = plan[history[b][i]]
  BY <1>r DEF HistoryIsALine, TypeOK
<1>1. AppDocIsNewest'
  <2> SUFFICES ASSUME NEW b \in Apps
               PROVE  /\ appDoc[b] = None <=> history[b] = <<>>
                      /\ appDoc[b] # None =>
                            /\ appDoc[b].deploymentId = Newest(b)
                            /\ appDoc[b].deployedAt = plan'[Newest(b)].deployedAt
    BY <1>p DEF AppDocIsNewest, Newest
  <2>1. CASE history[b] = <<>>
    BY <2>1 DEF AppDocIsNewest
  <2>2. CASE history[b] # <<>>
    <3>1. Len(history[b]) \in 1 .. Len(history[b])
      BY <2>2 DEF TypeOK
    <3> QED BY <2>2, <3>1, <1>s DEF AppDocIsNewest, Newest
  <2> QED BY <2>1, <2>2
<1>2. HistoryIsALine'
  BY <1>p, <1>s DEF HistoryIsALine
<1>3. StampsDiffer'
  BY <1>p, <1>q DEF StampsDiffer
<1>4. PointNamesBase'
  <2> SUFFICES ASSUME NEW e \in Deployments, plan'[e] # None
               PROVE  LET b == plan'[e].app
                          n == plan'[e].base
                      IN  /\ n <= Len(history[b])
                          /\ n = 0 => plan'[e].deploymentPoint = 0
                          /\ n > 0 => plan'[e].deploymentPoint
                                          = plan'[history[b][n]].deployedAt
    BY <1>p DEF PointNamesBase
  <2>1. CASE e # d
    <3>1. plan'[e] = plan[e] /\ plan[e] \in Plans
      BY <2>1, <1>q DEF TypeOK
    <3> QED BY <3>1, <1>s DEF PointNamesBase, Plans
  <2>2. CASE e = d
    <3>1. plan'[e] = p
      BY <2>2, <1>q
    <3>2. CASE history[a] = <<>>
      BY <3>1, <3>2 DEF AppDocIsNewest
    <3>3. CASE history[a] # <<>>
      <4>1. Len(history[a]) \in 1 .. Len(history[a])
        BY <3>3 DEF TypeOK
      <4>2. appDoc[a].deployedAt = plan[Newest(a)].deployedAt /\ appDoc[a] # None
        BY <3>3 DEF AppDocIsNewest
      <4> QED BY <3>1, <4>1, <4>2, <1>s DEF Newest
    <3> QED BY <3>2, <3>3
  <2> QED BY <2>1, <2>2
<1>5. DocsNameExecutions'
  BY <1>p DEF DocsNameExecutions, Names
<1>6. HandlersOK'
  <2> SUFFICES ASSUME NEW h \in Handlers PROVE HandlerOK(handler[h])'
    BY DEF HandlersOK
  <2>1. HandlerOK(handler[h])
    BY DEF HandlersOK
  <2> QED BY <2>1, <1>p, <1>r DEF HandlerOK, Names
<1>7. \A h \in Handlers : handler[h].pc # "idle" =>
          AppOf(h)' = AppOf(h)
  BY <1>p, <1>r DEF HandlersOK, HandlerOK, AppOf, Body
<1>8. CommittedOnce'
  BY <1>p, <1>7 DEF CommittedOnce, AfterCommit
<1>9. ExecutionsFollowCommits'
  BY <1>p, <1>7 DEF ExecutionsFollowCommits
<1>10. OverlapOnlyIfGivenUp'
  <2> SUFFICES ASSUME NEW h \in Handlers, Running(h)
               PROVE  LET e == execution[h].deploymentId
                          b == plan'[e].app
                      IN  (appDoc[b] # None /\ appDoc[b].deploymentId = e)
                          \/ e \in givenUp
    BY <1>p DEF OverlapOnlyIfGivenUp, Running
  <2>1. execution[h].deploymentId \in Deployments
        /\ plan[execution[h].deploymentId] # None
    BY DEF ExecutionsFollowCommits, HandlersOK, HandlerOK, Running
  <2> QED BY <2>1, <1>r DEF OverlapOnlyIfGivenUp
<1>11. AppShortIdUnique'
  BY <1>p DEF AppShortIdUnique
<1> QED
  BY <1>1, <1>2, <1>3, <1>4, <1>5, <1>6, <1>8, <1>9, <1>10, <1>11

\* What a commit relies on: the plan it carries was computed from the state the
\* newest deployment of its app left, so nobody has committed it before.
LEMMA CommitPlan ==
    ASSUME LineInv, NEW h \in Handlers, Commit(h)
    PROVE  LET d == handler[h].deploymentId
               a == AppOf(h)
           IN  /\ d \in Deployments
               /\ a \in Apps
               /\ plan[d] \in Plans
               /\ plan[d] # None
               /\ plan[d].app = a
               /\ plan[d].base = Len(history[a])
               /\ \A b \in Apps : \A i \in 1 .. Len(history[b]) : history[b][i] # d
<1> USE DEF LineInv
<1> DEFINE d == handler[h].deploymentId
           a == AppOf(h)
           n == Len(history[a])
<1>1. handler[h].pc = "ready" /\ ReadsHold(h)
  BY DEF Commit
<1>2. d \in Deployments /\ plan[d] # None
  BY <1>1 DEF HandlersOK, HandlerOK
<1>3. a \in Apps /\ plan[d] \in Plans /\ plan[d].app = a
  BY <1>2, BodyType DEF AppOf, Body, TypeOK
<1>4. PlanValid(appDoc[a], plan[d].deploymentPoint)
  BY <1>1 DEF HandlersOK, HandlerOK, ReadsHold
<1>5. n \in Nat /\ plan[d].base \in 0 .. n
  BY <1>2, <1>3 DEF TypeOK, PointNamesBase, Plans
<1>6. plan[d].base = n
  <2>1. CASE appDoc[a] = None
    BY <2>1, <1>3, <1>5 DEF AppDocIsNewest
  <2>2. CASE appDoc[a] # None
    <3>1. /\ history[a] # <<>>
          /\ n \in 1 .. n
          /\ Newest(a) \in Deployments
          /\ plan[Newest(a)] # None
          /\ plan[Newest(a)] \in Plans
          /\ plan[Newest(a)].base = n - 1
      BY <2>2, <1>3 DEF AppDocIsNewest, HistoryIsALine, TypeOK, Newest
    <3>2. plan[d].deploymentPoint = plan[Newest(a)].deployedAt
      BY <2>2, <1>3, <1>4 DEF PlanValid, AppDocIsNewest
    <3>3. plan[d].deploymentPoint # 0
      BY <3>1, <3>2, StampsAssumption DEF Plans
    <3>4. plan[d].base \in 1 .. n
      BY <3>3, <1>2, <1>3, <1>5 DEF PointNamesBase
    <3> DEFINE e == history[a][plan[d].base]
    <3>5. /\ e \in Deployments
          /\ plan[e] # None
          /\ plan[e].base = plan[d].base - 1
      BY <3>4, <1>3 DEF HistoryIsALine, TypeOK
    <3>6. plan[e].deployedAt = plan[Newest(a)].deployedAt
      BY <3>2, <3>4, <1>2, <1>3 DEF PointNamesBase
    <3>7. e = Newest(a)
      BY <3>1, <3>5, <3>6 DEF StampsDiffer
    <3> QED BY <3>1, <3>4, <3>5, <3>7, <1>5
  <2> QED BY <2>1, <2>2
<1>7. ASSUME NEW b \in Apps, NEW i \in 1 .. Len(history[b]), history[b][i] = d
      PROVE  FALSE
  <2>1. plan[d].app = b /\ plan[d].base = i - 1
    BY <1>7 DEF HistoryIsALine
  <2> QED BY <2>1, <1>3, <1>5, <1>6
<1> QED BY <1>2, <1>3, <1>6, <1>7

\* A commit puts its deployment at the end of the history of its app.
LEMMA CommitStep ==
    ASSUME LineInv, NEW h \in Handlers, Commit(h)
    PROVE  TypeOK' => LineInv'
<1> DEFINE d == handler[h].deploymentId
           a == AppOf(h)
           n == Len(history[a])
           old == appDoc[a].deploymentId
<1>c. /\ handler[h].pc = "ready"
      /\ ReadsHold(h)
      /\ appDoc' = [appDoc EXCEPT ![a] = NewAppDoc(h)]
      /\ deploymentDoc' = [deploymentDoc EXCEPT ![d] = NewDeploymentDoc(h)]
      /\ handler' = [handler EXCEPT ![h] = Leave(h, "committed")]
      /\ history' = [history EXCEPT ![a] = Append(@, d)]
      /\ UNCHANGED <<bucket, architecture, execution, plan, clock>>
  BY DEF Commit
<1>d. /\ d \in Deployments
      /\ a \in Apps
      /\ plan[d] \in Plans
      /\ plan[d] # None
      /\ plan[d].app = a
      /\ plan[d].base = n
      /\ \A b \in Apps : \A i \in 1 .. Len(history[b]) : history[b][i] # d
  BY CommitPlan
<1> USE DEF LineInv
<1>a. /\ \A b \in Apps : appDoc'[b] = IF b = a THEN NewAppDoc(h) ELSE appDoc[b]
      /\ NewAppDoc(h).deploymentId = d
      /\ NewAppDoc(h).deployedAt = plan[d].deployedAt
      /\ NewAppDoc(h).appShortId = handler[h].appShortId
      /\ NewAppDoc(h) # None
  <2>1. NewAppDoc(h) \in AppDocs
    BY <1>c, <1>d DEF NewAppDoc, AppDocs, TypeOK, HandlerStates, Body, Plans,
                      HandlersOK, HandlerOK
  <2> QED BY <1>c, <2>1, NoneAssumption DEF TypeOK, NewAppDoc, Body
<1>e. /\ \A e \in Deployments :
            deploymentDoc'[e] = IF e = d THEN NewDeploymentDoc(h) ELSE deploymentDoc[e]
      /\ NewDeploymentDoc(h) # None
      /\ NewDeploymentDoc(h).execution = "CREATING"
  BY <1>c, <1>d, NoneAssumption
     DEF TypeOK, NewDeploymentDoc, Body, DeploymentDocs, Plans
<1>h. /\ \A g \in Handlers :
            handler'[g] = IF g = h THEN Leave(h, "committed") ELSE handler[g]
      /\ Leave(h, "committed").pc = "committed"
      /\ Leave(h, "committed").deploymentId = d
      /\ Leave(h, "committed").readApp = None
      /\ \A g \in Handlers : AppOf(g)' = AppOf(g)
  BY <1>c DEF TypeOK, Leave, Holding, AppOf, Body
<1>n. /\ n \in Nat
      /\ history'[a] = Append(history[a], d)
      /\ Len(history'[a]) = n + 1
      /\ history'[a][n + 1] = d
      /\ \A b \in Apps : b # a => history'[b] = history[b]
      /\ \A b \in Apps : \A i \in 1 .. Len(history[b]) : history'[b][i] = history[b][i]
      /\ \A b \in Apps : Len(history[b]) \in Nat /\ Len(history[b]) <= Len(history'[b])
  BY <1>c, <1>d DEF TypeOK
<1>o. appDoc[a] # None =>
        /\ old = Newest(a)
        /\ old \in Deployments
        /\ old # d
        /\ deploymentDoc[old] # None
        /\ handler[h].readApp = appDoc[a]
        /\ handler[h].readDeployment = deploymentDoc[old]
  <2> SUFFICES ASSUME appDoc[a] # None
               PROVE  /\ old = Newest(a)
                      /\ old \in Deployments
                      /\ old # d
                      /\ deploymentDoc[old] # None
                      /\ handler[h].readApp = appDoc[a]
                      /\ handler[h].readDeployment = deploymentDoc[old]
    OBVIOUS
  <2>1. history[a] # <<>> /\ old = Newest(a)
    BY <1>d DEF AppDocIsNewest
  <2>2. n \in 1 .. n
    BY <2>1, <1>d, <1>n DEF TypeOK
  <2>3. Newest(a) \in Deployments /\ Newest(a) # d /\ deploymentDoc[Newest(a)] # None
    BY <2>2, <1>d DEF Newest, HistoryIsALine, TypeOK
  <2> QED BY <2>1, <2>3, <1>c DEF ReadsHold, CurrentDeployment
<1>g. /\ givenUp \subseteq givenUp'
      /\ appDoc[a] # None /\ deploymentDoc[old].execution = "CREATING" => old \in givenUp'
  BY <1>o DEF Commit
<1>1. AppDocIsNewest'
  <2> SUFFICES ASSUME NEW b \in Apps
               PROVE  /\ appDoc'[b] = None <=> history'[b] = <<>>
                      /\ appDoc'[b] # None =>
                            /\ appDoc'[b].deploymentId = history'[b][Len(history'[b])]
                            /\ appDoc'[b].deployedAt
                                  = plan[history'[b][Len(history'[b])]].deployedAt
    BY <1>c DEF AppDocIsNewest, Newest
  <2>1. CASE b = a
    <3>1. history'[a] # <<>>
      BY <1>n, <1>d DEF TypeOK
    <3> QED BY <2>1, <3>1, <1>a, <1>n
  <2>2. CASE b # a
    BY <2>2, <1>a, <1>n DEF AppDocIsNewest, Newest
  <2> QED BY <2>1, <2>2
<1>2. HistoryIsALine'
  <2> SUFFICES ASSUME NEW b \in Apps, NEW i \in 1 .. Len(history'[b])
               PROVE  /\ plan[history'[b][i]] # None
                      /\ plan[history'[b][i]].app = b
                      /\ plan[history'[b][i]].base = i - 1
                      /\ deploymentDoc'[history'[b][i]] # None
    BY <1>c DEF HistoryIsALine
  <2>1. CASE b = a /\ i = n + 1
    BY <2>1, <1>d, <1>e, <1>n
  <2>2. CASE ~(b = a /\ i = n + 1)
    <3>1. i \in 1 .. Len(history[b]) /\ history'[b][i] = history[b][i]
      BY <2>2, <1>n
    <3>2. history[b][i] \in Deployments
      BY <3>1 DEF TypeOK
    <3> QED BY <3>1, <3>2, <1>e DEF HistoryIsALine
  <2> QED BY <2>1, <2>2
<1>3. StampsDiffer'
  BY <1>c DEF StampsDiffer
<1>4. PointNamesBase'
  <2> SUFFICES ASSUME NEW e \in Deployments, plan[e] # None
               PROVE  LET b == plan[e].app
                          m == plan[e].base
                      IN  /\ m <= Len(history'[b])
                          /\ m = 0 => plan[e].deploymentPoint = 0
                          /\ m > 0 => plan[e].deploymentPoint
                                          = plan[history'[b][m]].deployedAt
    BY <1>c DEF PointNamesBase
  <2>1. plan[e] \in Plans
    BY DEF TypeOK
  <2>2. plan[e].base \in Nat /\ plan[e].app \in Apps
    BY <2>1 DEF Plans
  <2> QED BY <2>2, <1>n DEF PointNamesBase
<1>5. DocsNameExecutions'
  BY <1>c, <1>e DEF DocsNameExecutions, Names
<1>6. HandlersOK'
  <2> SUFFICES ASSUME NEW g \in Handlers PROVE HandlerOK(handler[g])'
    BY DEF HandlersOK
  <2>1. HandlerOK(handler[g])
    BY DEF HandlersOK
  <2> QED BY <2>1, <1>c, <1>d, <1>h DEF HandlerOK, Names
<1>7. CommittedOnce'
  <2>1. ASSUME NEW g \in Handlers, g # h, handler[g].pc \in AfterCommit
        PROVE  handler[g].deploymentId # d
    BY <2>1, <1>d DEF CommittedOnce, HandlersOK, HandlerOK, AfterCommit, AppOf, Body
  <2>2. ASSUME NEW g \in Handlers, g # h, handler[g].pc \in AfterCommit
        PROVE  AppOf(g) \in Apps
    BY <2>2, BodyType DEF HandlersOK, HandlerOK, AfterCommit
  <2>3. ASSUME NEW g \in Handlers, handler'[g].pc \in AfterCommit
        PROVE  \E i \in 1 .. Len(history'[AppOf(g)]) :
                  history'[AppOf(g)][i] = handler'[g].deploymentId
    <3>1. CASE g = h
      BY <3>1, <1>h, <1>n
    <3>2. CASE g # h
      BY <2>2, <2>3, <3>2, <1>h, <1>n DEF CommittedOnce
    <3> QED BY <3>1, <3>2
  <2> QED BY <2>1, <2>3, <1>h DEF CommittedOnce
<1>8. ExecutionsFollowCommits'
  <2> SUFFICES ASSUME NEW g \in Handlers
               PROVE  /\ execution[g] # None =>
                            /\ handler'[g].pc \in {"created", "done", "crashed"}
                            /\ execution[g].deploymentId = handler'[g].deploymentId
                      /\ handler'[g].pc = "created" => execution[g] # None
                      /\ handler'[g].pc \in {"committed", "created"} =>
                            LET e == handler'[g].deploymentId IN
                            /\ deploymentDoc'[e] # None
                            /\ deploymentDoc'[e].execution = "CREATING"
                            /\ appDoc'[AppOf(g)].deploymentId = e \/ e \in givenUp'
    BY <1>c, <1>h DEF ExecutionsFollowCommits
  <2>1. CASE g = h
    BY <2>1, <1>a, <1>c, <1>d, <1>e, <1>h DEF ExecutionsFollowCommits
  <2>2. CASE g # h
    <3>1. handler'[g] = handler[g]
      BY <2>2, <1>h
    <3>2. ASSUME handler[g].pc \in {"committed", "created"}
          PROVE  LET e == handler[g].deploymentId IN
                 /\ e \in Deployments
                 /\ AppOf(g) \in Apps
                 /\ e # d
                 /\ appDoc[AppOf(g)] # None
      <4>1. handler[g].deploymentId \in Deployments /\ AppOf(g) \in Apps
        BY <3>2, BodyType DEF HandlersOK, HandlerOK
      <4>2. PICK i \in 1 .. Len(history[AppOf(g)]) :
                history[AppOf(g)][i] = handler[g].deploymentId
        BY <3>2 DEF CommittedOnce, AfterCommit
      <4>3. history[AppOf(g)] # <<>>
        BY <4>2
      <4> QED BY <4>1, <4>2, <4>3, <1>d DEF AppDocIsNewest
    <3> QED BY <2>2, <3>1, <3>2, <1>a, <1>e, <1>g DEF ExecutionsFollowCommits
  <2> QED BY <2>1, <2>2
<1>9. OverlapOnlyIfGivenUp'
  <2> SUFFICES ASSUME NEW g \in Handlers, Running(g)
               PROVE  LET e == execution[g].deploymentId
                          b == plan[e].app
                      IN  (appDoc'[b] # None /\ appDoc'[b].deploymentId = e)
                          \/ e \in givenUp'
    BY <1>c DEF OverlapOnlyIfGivenUp, Running
  <2> DEFINE e == execution[g].deploymentId
             b == plan[e].app
  <2>1. (appDoc[b] # None /\ appDoc[b].deploymentId = e) \/ e \in givenUp
    BY DEF OverlapOnlyIfGivenUp
  <2>2. b \in Apps
    BY BodyType DEF Running, ExecutionsFollowCommits, HandlersOK, HandlerOK, AppOf, Body
  <2>3. CASE b = a /\ e \notin givenUp /\ deploymentDoc[old].execution # "CREATING"
    <3> DEFINE k == deploymentDoc[old].execution
    <3>1. appDoc[a] # None /\ e = old
      BY <2>1, <2>3
    <3>2. execution[k].state # "ACTIVE"
      BY <2>3, <3>1, <1>c, <1>o DEF HandlersOK, HandlerOK
    <3>3. k \in Handlers /\ execution[k] # None /\ execution[k].deploymentId = old
      BY <2>3, <3>1, <1>o DEF DocsNameExecutions, Names, TypeOK, DeploymentDocs
    <3>4. k = g
      BY <3>1, <3>3 DEF Running, ExecutionsFollowCommits, CommittedOnce, AfterCommit
    <3> QED BY <3>2, <3>4 DEF Running
  <2>4. CASE b = a /\ e \notin givenUp /\ deploymentDoc[old].execution = "CREATING"
    BY <2>1, <2>4, <1>g
  <2> QED BY <2>1, <2>2, <2>3, <2>4, <1>a, <1>g
<1>10. AppShortIdUnique'
  <2>1. ASSUME NEW b \in Apps, b # a, appDoc[b] # None
        PROVE  appDoc[b].appShortId # handler[h].appShortId
    <3>1. CASE appDoc[a] = None
      BY <2>1, <3>1, <1>c DEF ReadsHold, ShortIdFree
    <3>2. CASE appDoc[a] # None
      BY <2>1, <3>2, <1>c, <1>d, <1>o DEF HandlersOK, HandlerOK, AppShortIdUnique
    <3> QED BY <3>1, <3>2
  <2> QED BY <2>1, <1>a DEF AppShortIdUnique
<1> QED
  BY <1>1, <1>2, <1>3, <1>4, <1>5, <1>6, <1>7, <1>8, <1>9, <1>10

\* The execution a handler creates is the only one of its deployment.
LEMMA CreateExecutionStep ==
    ASSUME LineInv, NEW h \in Handlers, CreateExecution(h)
    PROVE  TypeOK' => LineInv'
<1> USE DEF LineInv, agentVars, ghosts
<1> DEFINE d == handler[h].deploymentId
<1>c. /\ handler[h].pc = "committed"
      /\ UNCHANGED <<agentVars, architecture, plan, clock, ghosts>>
  BY DEF CreateExecution
<1>e. /\ \A g \in Handlers : g # h => execution'[g] = execution[g]
      /\ execution'[h] = [state |-> "ACTIVE", deploymentId |-> d]
      /\ execution'[h].deploymentId = d
      /\ execution'[h] # None
      /\ execution[h] = None
  <2>1. d \in Deployments
    BY <1>c DEF HandlersOK, HandlerOK
  <2>2. [state |-> "ACTIVE", deploymentId |-> d] \in Executions
    BY <2>1 DEF Executions, ExecutionStates
  <2>3. execution[h] = None
    BY <1>c DEF ExecutionsFollowCommits
  <2>4. execution'[h] = [state |-> "ACTIVE", deploymentId |-> d]
    BY DEF CreateExecution, TypeOK
  <2>5. \A g \in Handlers : g # h => execution'[g] = execution[g]
    BY DEF CreateExecution, TypeOK
  <2>6. [state |-> "ACTIVE", deploymentId |-> d] # None
    BY <2>2, NoneAssumption
  <2> QED BY <2>3, <2>4, <2>5, <2>6
<1>h. \A g \in Handlers :
          handler'[g] = IF g = h THEN [handler[h] EXCEPT !.pc = "created"] ELSE handler[g]
  BY DEF CreateExecution, TypeOK
<1>t. /\ handler'[h].pc = "created"
      /\ handler'[h].deploymentId = d
      /\ handler'[h].readApp = handler[h].readApp
      /\ handler'[h].readDeployment = handler[h].readDeployment
      /\ \A g \in Handlers : AppOf(g)' = AppOf(g)
  <2>1. handler[h] \in HandlerStates
    BY DEF TypeOK
  <2>2. /\ handler'[h].pc = "created"
        /\ handler'[h].deploymentId = d
        /\ handler'[h].readApp = handler[h].readApp
        /\ handler'[h].readDeployment = handler[h].readDeployment
    BY <1>h, <2>1 DEF HandlerStates
  <2> QED BY <2>2, <1>c, <1>h DEF AppOf, Body
<1>1. AppDocIsNewest' /\ HistoryIsALine' /\ StampsDiffer' /\ PointNamesBase'
  BY <1>c DEF AppDocIsNewest, Newest, HistoryIsALine, StampsDiffer, PointNamesBase
<1>2. DocsNameExecutions'
  <2> SUFFICES ASSUME NEW e \in Deployments PROVE Names(e, deploymentDoc[e])'
    BY DEF DocsNameExecutions
  <2>1. Names(e, deploymentDoc[e]) /\ deploymentDoc[e] \in DeploymentDocs \cup {None}
    BY DEF DocsNameExecutions, TypeOK
  <2> QED BY <2>1, <1>c, <1>e DEF Names, DeploymentDocs
<1>3. HandlersOK'
  <2> SUFFICES ASSUME NEW g \in Handlers PROVE HandlerOK(handler[g])'
    BY DEF HandlersOK
  <2>1. HandlerOK(handler[g])
    BY DEF HandlersOK
  <2>2. handler[g] \in HandlerStates
    BY DEF TypeOK
  <2>3. CASE g = h
    BY <2>1, <2>2, <2>3, <1>c, <1>e, <1>t DEF HandlerOK, Names, HandlerStates, DeploymentDocs
  <2>4. CASE g # h
    <3>1. handler'[g] = handler[g]
      BY <2>4, <1>h
    <3>2. ASSUME handler[g].pc = "ready", handler[g].readApp # None,
                 handler[g].readDeployment # None,
                 handler[g].readDeployment.execution # "CREATING"
          PROVE  execution'[handler[g].readDeployment.execution]
                    = execution[handler[g].readDeployment.execution]
      BY <2>1, <2>2, <3>2, <1>e DEF HandlerOK, Names, HandlerStates, DeploymentDocs
    <3> QED BY <2>1, <2>2, <3>1, <3>2, <1>c, <1>e
            DEF HandlerOK, Names, HandlerStates, DeploymentDocs
  <2> QED BY <2>3, <2>4
<1>4. CommittedOnce'
  BY <1>c, <1>h, <1>t DEF CommittedOnce, AfterCommit
<1>5. ExecutionsFollowCommits'
  BY <1>c, <1>e, <1>h, <1>t DEF ExecutionsFollowCommits
<1>6. OverlapOnlyIfGivenUp'
  <2> SUFFICES ASSUME NEW g \in Handlers, Running(g)'
               PROVE  LET e == execution'[g].deploymentId
                          b == plan[e].app
                      IN  (appDoc[b] # None /\ appDoc[b].deploymentId = e)
                          \/ e \in givenUp
    BY <1>c DEF OverlapOnlyIfGivenUp
  <2>1. CASE g = h
    <3>1. appDoc[AppOf(h)].deploymentId = d \/ d \in givenUp
      BY <1>c DEF ExecutionsFollowCommits
    <3>2. AppOf(h) \in Apps /\ history[AppOf(h)] # <<>>
      BY <1>c, BodyType DEF CommittedOnce, AfterCommit, HandlersOK, HandlerOK
    <3> QED BY <2>1, <3>1, <3>2, <1>e DEF AppDocIsNewest, AppOf, Body
  <2>2. CASE g # h
    BY <2>2, <1>e DEF OverlapOnlyIfGivenUp, Running
  <2> QED BY <2>1, <2>2
<1>7. AppShortIdUnique'
  BY <1>c DEF AppShortIdUnique
<1> QED
  BY <1>1, <1>2, <1>3, <1>4, <1>5, <1>6, <1>7

\* The name a handler records is that of an execution of its own deployment.
LEMMA RecordExecutionStep ==
    ASSUME LineInv, NEW h \in Handlers, RecordExecution(h)
    PROVE  TypeOK' => LineInv'
<1> USE DEF LineInv, ghosts
<1> DEFINE d == handler[h].deploymentId
<1>c. /\ handler[h].pc = "created"
      /\ UNCHANGED <<appDoc, bucket, architecture, execution, plan, clock, ghosts>>
      /\ d \in Deployments
      /\ deploymentDoc[d] # None
      /\ deploymentDoc[d] \in DeploymentDocs
  BY DEF RecordExecution, ExecutionsFollowCommits, HandlersOK, HandlerOK, TypeOK
<1>d. \A e \in Deployments : e # d => deploymentDoc'[e] = deploymentDoc[e]
  BY DEF RecordExecution, TypeOK
<1>e. deploymentDoc'[d].execution = h
  BY <1>c DEF RecordExecution, TypeOK, DeploymentDocs
<1>h. \A g \in Handlers :
          handler'[g] = IF g = h THEN [handler[h] EXCEPT !.pc = "done"] ELSE handler[g]
  BY DEF RecordExecution, TypeOK
<1>t. /\ handler'[h].pc = "done"
      /\ handler'[h].deploymentId = d
      /\ handler'[h].readApp = handler[h].readApp
      /\ handler'[h].readDeployment = handler[h].readDeployment
      /\ \A g \in Handlers : AppOf(g)' = AppOf(g)
  BY <1>c, <1>h DEF TypeOK, HandlerStates, AppOf, Body
<1>1. AppDocIsNewest' /\ StampsDiffer' /\ PointNamesBase'
  BY <1>c DEF AppDocIsNewest, Newest, StampsDiffer, PointNamesBase
<1>2. ASSUME TypeOK' PROVE HistoryIsALine'
  <2>1. deploymentDoc'[d] # None
    BY <1>c, NoneAssumption DEF RecordExecution, TypeOK, DeploymentDocs
  <2> QED BY <1>c, <1>d, <2>1 DEF HistoryIsALine, TypeOK
<1>3. DocsNameExecutions'
  BY <1>c, <1>d, <1>e DEF DocsNameExecutions, Names, ExecutionsFollowCommits
<1>4. HandlersOK'
  <2> SUFFICES ASSUME NEW g \in Handlers PROVE HandlerOK(handler[g])'
    BY DEF HandlersOK
  <2>1. HandlerOK(handler[g])
    BY DEF HandlersOK
  <2> QED BY <2>1, <1>c, <1>h, <1>t DEF HandlerOK, Names
<1>5. CommittedOnce'
  BY <1>c, <1>h, <1>t DEF CommittedOnce, AfterCommit
<1>6. ExecutionsFollowCommits'
  <2>1. ASSUME NEW g \in Handlers, g # h, handler[g].pc \in {"committed", "created"}
        PROVE  handler[g].deploymentId # d /\ handler[g].deploymentId \in Deployments
    BY <2>1, <1>c DEF CommittedOnce, AfterCommit, HandlersOK, HandlerOK
  <2> QED BY <2>1, <1>c, <1>d, <1>h, <1>t DEF ExecutionsFollowCommits
<1>7. OverlapOnlyIfGivenUp' /\ AppShortIdUnique'
  BY <1>c DEF OverlapOnlyIfGivenUp, Running, AppShortIdUnique
<1> QED
  BY <1>1, <1>2, <1>3, <1>4, <1>5, <1>6, <1>7

\* An execution that has ended stays what it was, but for its state.
LEMMA EndExecutionStep ==
    ASSUME LineInv, NEW h \in Handlers, NEW s \in ExecutionStates \ {"ACTIVE"},
           EndExecution(h, s)
    PROVE  TypeOK' => LineInv'
<1> USE DEF LineInv, agentVars, ghosts
<1>c. /\ execution[h] # None /\ execution[h].state = "ACTIVE"
      /\ execution[h] \in Executions
      /\ UNCHANGED <<agentVars, architecture, handler, plan, clock, ghosts>>
  BY DEF EndExecution, Running, TypeOK
<1>e. /\ \A g \in Handlers : g # h => execution'[g] = execution[g]
      /\ execution'[h].state = s
      /\ execution'[h].deploymentId = execution[h].deploymentId
      /\ execution'[h] # None
  BY <1>c, NoneAssumption DEF EndExecution, TypeOK, Executions
<1>1. AppDocIsNewest' /\ HistoryIsALine' /\ StampsDiffer' /\ PointNamesBase'
  BY <1>c DEF AppDocIsNewest, Newest, HistoryIsALine, StampsDiffer, PointNamesBase
<1>2. DocsNameExecutions'
  BY <1>c, <1>e DEF DocsNameExecutions, Names, TypeOK, DeploymentDocs
<1>3. HandlersOK'
  <2> SUFFICES ASSUME NEW g \in Handlers PROVE HandlerOK(handler[g])'
    BY DEF HandlersOK
  <2>1. HandlerOK(handler[g]) /\ handler[g] \in HandlerStates
    BY DEF HandlersOK, TypeOK
  <2> QED BY <2>1, <1>c, <1>e DEF HandlerOK, Names, HandlerStates, DeploymentDocs
<1>4. CommittedOnce'
  BY <1>c DEF CommittedOnce, AppOf, Body
<1>5. ExecutionsFollowCommits'
  BY <1>c, <1>e DEF ExecutionsFollowCommits, AppOf, Body
<1>6. OverlapOnlyIfGivenUp' /\ AppShortIdUnique'
  BY <1>c, <1>e DEF OverlapOnlyIfGivenUp, Running, AppShortIdUnique
<1> QED
  BY <1>1, <1>2, <1>3, <1>4, <1>5, <1>6

\* Neither the bucket, the elements nor the clock is in the invariant.
LEMMA OtherStep ==
    ASSUME LineInv,
           UNCHANGED <<appDoc, deploymentDoc, execution, handler, plan, ghosts>>
    PROVE  TypeOK' => LineInv'
<1> USE DEF LineInv, ghosts
<1>1. AppDocIsNewest' /\ HistoryIsALine' /\ StampsDiffer' /\ PointNamesBase'
  BY DEF AppDocIsNewest, Newest, HistoryIsALine, StampsDiffer, PointNamesBase
<1>2. DocsNameExecutions' /\ HandlersOK'
  BY DEF DocsNameExecutions, HandlersOK, HandlerOK, Names
<1>3. CommittedOnce' /\ ExecutionsFollowCommits'
  BY DEF CommittedOnce, ExecutionsFollowCommits, AppOf, Body
<1>4. OverlapOnlyIfGivenUp' /\ AppShortIdUnique'
  BY DEF OverlapOnlyIfGivenUp, Running, AppShortIdUnique
<1> QED
  BY <1>1, <1>2, <1>3, <1>4

\* The status check: of a deployment that has an execution, only the end of it,
\* and not its cancellation, lets putApp go on.
LEMMA DeployableHasEnded ==
    ASSUME NEW app \in AppDocs, NEW deployment \in DeploymentDocs,
           deployment.execution # "CREATING",
           execution[deployment.execution] \in Executions,
           Status(app, deployment) \in Deployable
    PROVE  execution[deployment.execution].state \notin {"ACTIVE", "CANCELLED"}
<1> DEFINE state == execution[deployment.execution].state
<1>1. state \in ExecutionStates
  BY DEF Executions
<1>2. app # None /\ deployment # None
  BY NoneAssumption
<1>3. Status(app, deployment) = ExecutionStatus[state]
  BY <1>2 DEF Status
<1>4. state \in {"ACTIVE", "CANCELLED"} => ExecutionStatus[state] \notin Deployable
  BY DEF ExecutionStatus, Deployable
<1> QED BY <1>3, <1>4

\* Every step of the specification preserves the invariant.
LEMMA LineNext == LineInv /\ SuccessesWritten /\ [Next]_vars => LineInv'
<1> SUFFICES ASSUME LineInv, SuccessesWritten, [Next]_vars PROVE LineInv'
  OBVIOUS
<1>t. TypeOK'
  BY TypeNext
<1>1. ASSUME NEW d \in Deployments, NEW a \in Apps, NEW stamp \in Stamps,
             GetAppState(d, a, stamp)
      PROVE  LineInv'
  BY <1>1, <1>t, GetAppStateStep
<1>2. ASSUME NEW h \in Handlers, NEW d \in Deployments, Put(h, d)
      PROVE  LineInv'
  <2>1. HandlerOK(Holding("begin", d, None, None, None))
    BY <1>2 DEF Put, HandlerOK, Holding
  <2> QED BY <1>2, <1>t, <2>1, HandlerStep DEF Put, Holding, BeforeCommit
<1>3. CASE UNCHANGED vars \/ Tick
  BY <1>3, <1>t, OtherStep DEF vars, Tick, agentVars, ghosts
<1> SUFFICES ASSUME NEW h \in Handlers, PutApp(h) \/ Workflow(h)
             PROVE  LineInv'
  BY <1>1, <1>2, <1>3 DEF Next, Client
<1> DEFINE d == handler[h].deploymentId
           app == handler[h].readApp
           deployment == handler[h].readDeployment
<1>h. HandlerOK(handler[h]) /\ handler[h] \in HandlerStates
  BY DEF LineInv, TypeOK, HandlersOK
<1>l. ASSUME NEW pc \in {"begin", "rejected", "crashed"}, handler[h].pc # "idle"
      PROVE  /\ HandlerOK(Leave(h, pc))
             /\ Leave(h, pc).pc = pc
             /\ Leave(h, pc).deploymentId = d
  BY <1>h, <1>l DEF HandlerOK, Leave, Holding
<1>4. CASE ReadApp(h)
  <2> DEFINE t == Holding("read", d, appDoc[AppOf(h)],
                          CurrentDeployment(appDoc[AppOf(h)]), None)
  <2>1. AppOf(h) \in Apps
    BY <1>4, <1>h, BodyType DEF ReadApp, HandlerOK, LineInv
  <2>2. ASSUME appDoc[AppOf(h)] # None
        PROVE  Names(appDoc[AppOf(h)].deploymentId, CurrentDeployment(appDoc[AppOf(h)]))
    <3>1. appDoc[AppOf(h)].deploymentId \in Deployments
      BY <2>1, <2>2 DEF LineInv, TypeOK, AppDocs
    <3> QED BY <2>2, <3>1 DEF LineInv, DocsNameExecutions, CurrentDeployment
  <2>3. HandlerOK(t)
    BY <1>4, <1>h, <2>2 DEF ReadApp, HandlerOK, Holding, Body
  <2> QED BY <1>4, <1>t, <2>3, HandlerStep DEF ReadApp, Holding, BeforeCommit
<1>5. CASE RejectPlan(h)
  BY <1>5, <1>l, <1>t, HandlerStep DEF RejectPlan, BeforeCommit
<1>6. CASE CheckStatus(h)
  <2>1. CASE app = None
    <3>1. HandlerOK(HoldMore(h, "naming", None))
      BY <1>6, <1>h, <2>1 DEF CheckStatus, HandlerOK, HoldMore, Holding
    <3> QED BY <1>6, <1>t, <2>1, <3>1, HandlerStep
            DEF CheckStatus, HoldMore, Holding, BeforeCommit
  <2>2. CASE app # None
    <3>1. app \in AppDocs /\ app.appShortId # None
      BY <1>h, <2>2, NoneAssumption DEF HandlerStates, AppDocs
    <3>2. ASSUME deployment # None, deployment.execution # "CREATING"
          PROVE  execution[deployment.execution].state \notin {"ACTIVE", "CANCELLED"}
      <4>1. deployment \in DeploymentDocs
        BY <1>h, <3>2 DEF HandlerStates
      <4>2. execution[deployment.execution] \in Executions
        BY <1>h, <2>2, <3>2, <4>1
           DEF HandlerOK, Names, LineInv, TypeOK, DeploymentDocs
      <4> QED BY <1>6, <3>1, <3>2, <4>1, <4>2, DeployableHasEnded DEF CheckStatus
    <3>3. HandlerOK(HoldMore(h, "ready", app.appShortId))
      BY <1>6, <1>h, <2>2, <3>1, <3>2 DEF CheckStatus, HandlerOK, HoldMore, Holding, Names
    <3> QED BY <1>6, <1>t, <2>2, <3>3, HandlerStep
            DEF CheckStatus, HoldMore, Holding, BeforeCommit
  <2> QED BY <2>1, <2>2
<1>7. CASE RejectStatus(h)
  BY <1>7, <1>l, <1>t, HandlerStep DEF RejectStatus, BeforeCommit
<1>8. ASSUME NEW id \in ShortIds, GenerateAppShortId(h, id) PROVE LineInv'
  <2>1. HandlerOK(HoldMore(h, "ready", id))
    BY <1>8, <1>h, NoneAssumption DEF GenerateAppShortId, HandlerOK, HoldMore, Holding
  <2> QED BY <1>8, <1>t, <2>1, HandlerStep
          DEF GenerateAppShortId, HoldMore, Holding, BeforeCommit
<1>9. CASE RejectShortId(h)
  BY <1>9, <1>l, <1>t, HandlerStep DEF RejectShortId, BeforeCommit
<1>10. CASE Commit(h)
  BY <1>10, <1>t, CommitStep
<1>11. CASE TxnConflict(h)
  BY <1>11, <1>l, <1>t, HandlerStep DEF TxnConflict, BeforeCommit
<1>12. ASSUME NEW file \in Files, SaveFile(h, file) PROVE LineInv'
  BY <1>12, <1>t, OtherStep DEF SaveFile, ghosts
<1>13. CASE CreateExecution(h)
  BY <1>13, <1>t, CreateExecutionStep
<1>14. CASE RecordExecution(h)
  BY <1>14, <1>t, RecordExecutionStep
<1>15. CASE Crash(h)
  BY <1>15, <1>l, <1>t, HandlerStep DEF Crash, BeforeCommit
<1>16. CASE UpdateState(h)
  BY <1>16, <1>t, OtherStep DEF UpdateState, agentVars, ghosts
<1>18. CASE CallUpdateState(h)
  BY <1>18, <1>t, OtherStep DEF CallUpdateState, agentVars, ghosts
<1>17. ASSUME NEW s \in ExecutionStates \ {"ACTIVE"}, EndExecution(h, s)
       PROVE  LineInv'
  BY <1>17, <1>t, EndExecutionStep
<1> QED
  BY <1>4, <1>5, <1>6, <1>7, <1>8, <1>9, <1>10, <1>11, <1>12, <1>13, <1>14,
     <1>15, <1>16, <1>17, <1>18 DEF PutApp, Workflow

-----------------------------------------------------------------------------
(* What a plan has not seen *)

\* Which steps change what plans, commits and executions leave behind.
LEMMA PlanChange ==
    ASSUME [Next]_vars, plan' # plan
    PROVE  \E d \in Deployments, a \in Apps, t \in Stamps : GetAppState(d, a, t)
BY DEF Next, vars, Client, PutApp, Workflow, Put, ReadApp, RejectPlan, CheckStatus, RejectStatus,
       GenerateAppShortId, RejectShortId, Commit, TxnConflict, SaveFile, CreateExecution,
       RecordExecution, Crash, CallUpdateState, UpdateState, EndExecution, Tick

\* Only a commit changes the line of an app, or gives a deployment up.
LEMMA HistoryChange ==
    ASSUME [Next]_vars, history' # history \/ givenUp' # givenUp
    PROVE  \E h \in Handlers : Commit(h)
BY DEF Next, vars, ghosts, Client, PutApp, Workflow, GetAppState, Put, ReadApp, RejectPlan, CheckStatus,
       RejectStatus, GenerateAppShortId, RejectShortId, TxnConflict, SaveFile, CreateExecution,
       RecordExecution, Crash, CallUpdateState, UpdateState, EndExecution, Tick

\* Only an execution changes what is deployed.
LEMMA ArchitectureChange ==
    ASSUME [Next]_vars, architecture' # architecture
    PROVE  \E h \in Handlers : UpdateState(h)
BY DEF Next, vars, Client, PutApp, Workflow, GetAppState, Put, ReadApp, RejectPlan, CheckStatus,
       RejectStatus, GenerateAppShortId, RejectShortId, Commit, TxnConflict, SaveFile, CreateExecution,
       RecordExecution, Crash, CallUpdateState, EndExecution, Tick

\* Only an execution calls updateState.
LEMMA SentChange ==
    ASSUME [Next]_vars, sent' # sent
    PROVE  \E h \in Handlers : CallUpdateState(h)
BY DEF Next, vars, Client, PutApp, Workflow, GetAppState, Put, ReadApp, RejectPlan, CheckStatus,
       RejectStatus, GenerateAppShortId, RejectShortId, Commit, TxnConflict, SaveFile, CreateExecution,
       RecordExecution, Crash, UpdateState, EndExecution, Tick

\* A commit adds to the line of its app and to no other.
LEMMA CommitHistory ==
    ASSUME LineInv, NEW h \in Handlers, Commit(h)
    PROVE  LET a == AppOf(h)
           IN  /\ a \in Apps
               /\ Len(history'[a]) = Len(history[a]) + 1
               /\ history'[a][Len(history'[a])] = handler[h].deploymentId
               /\ \A i \in 1 .. Len(history[a]) : history'[a][i] = history[a][i]
               /\ \A b \in Apps : b # a => history'[b] = history[b]
<1> DEFINE a == AppOf(h)
           d == handler[h].deploymentId
<1>1. a \in Apps /\ d \in Deployments
  BY CommitPlan
<1>2. history'[a] = Append(history[a], d) /\ \A b \in Apps : b # a => history'[b] = history[b]
  BY <1>1 DEF Commit, LineInv, TypeOK
<1>3. history[a] \in Seq(Deployments)
  BY <1>1 DEF LineInv, TypeOK
<1> QED BY <1>1, <1>2, <1>3

\* A plan that is computed stays, and so do the line and what was given up.
LEMMA GhostsGrow ==
    ASSUME LineInv, [Next]_vars
    PROVE  /\ \A d \in Deployments : plan[d] # None => plan'[d] = plan[d]
           /\ givenUp \subseteq givenUp'
           /\ \A a \in Apps :
                 /\ Len(history[a]) \in Nat /\ Len(history'[a]) \in Nat
                 /\ Len(history[a]) <= Len(history'[a])
                 /\ \A i \in 1 .. Len(history[a]) : history'[a][i] = history[a][i]
<1>1. \A d \in Deployments : plan[d] # None => plan'[d] = plan[d]
  BY PlanChange DEF GetAppState, LineInv, TypeOK
<1>2. givenUp \subseteq givenUp'
  BY HistoryChange DEF Commit
<1>3. ASSUME NEW a \in Apps
      PROVE  /\ Len(history[a]) \in Nat /\ Len(history'[a]) \in Nat
             /\ Len(history[a]) <= Len(history'[a])
             /\ \A i \in 1 .. Len(history[a]) : history'[a][i] = history[a][i]
  <2>1. Len(history[a]) \in Nat
    BY DEF LineInv, TypeOK
  <2>2. CASE history'[a] = history[a]
    BY <2>1, <2>2
  <2>3. CASE history'[a] # history[a]
    <3>1. PICK h \in Handlers : Commit(h)
      BY <2>3, HistoryChange
    <3>2. a = AppOf(h)
      BY <2>3, <3>1, CommitHistory
    <3> QED BY <2>1, <3>1, <3>2, CommitHistory
  <2> QED BY <2>2, <2>3
<1> QED BY <1>1, <1>2, <1>3

\* An execution is created once, and what it is of does not change; once it is
\* over nothing of it does.
LEMMA ExecutionStays ==
    ASSUME LineInv, [Next]_vars, NEW h \in Handlers, execution[h] # None
    PROVE  /\ execution'[h] # None
           /\ execution'[h].deploymentId = execution[h].deploymentId
           /\ \/ execution'[h] = execution[h]
              \/ /\ execution[h].state = "ACTIVE"
                 /\ \E s \in ExecutionStates \ {"ACTIVE"} : EndExecution(h, s)
<1> USE DEF LineInv
<1>1. \/ UNCHANGED execution
      \/ \E g \in Handlers : \/ CreateExecution(g)
                             \/ \E s \in ExecutionStates \ {"ACTIVE"} : EndExecution(g, s)
  BY DEF Next, vars, Client, PutApp, Workflow, GetAppState, Put, ReadApp, RejectPlan, CheckStatus,
         RejectStatus, GenerateAppShortId, RejectShortId, Commit, TxnConflict, SaveFile,
         RecordExecution, Crash, CallUpdateState, UpdateState, Tick
<1>2. CASE UNCHANGED execution
  BY <1>2
<1>3. ASSUME NEW g \in Handlers, CreateExecution(g) PROVE execution'[h] = execution[h]
  <2>1. g # h
    BY <1>3 DEF CreateExecution, ExecutionsFollowCommits
  <2> QED BY <1>3, <2>1 DEF CreateExecution, TypeOK
<1>4. ASSUME NEW g \in Handlers, NEW s \in ExecutionStates \ {"ACTIVE"}, EndExecution(g, s)
      PROVE  IF g = h
             THEN /\ execution[h].state = "ACTIVE"
                  /\ execution'[h] # None
                  /\ execution'[h].deploymentId = execution[h].deploymentId
             ELSE execution'[h] = execution[h]
  BY <1>4, NoneAssumption DEF EndExecution, Running, TypeOK, Executions
<1> QED BY <1>1, <1>2, <1>3, <1>4

\* What is deployed stays.
LEMMA ElementsStay ==
    ASSUME LineInv, [Next]_vars, NEW a \in Apps
    PROVE  architecture[a] \subseteq architecture'[a]
<1>1. CASE architecture' = architecture
  BY <1>1
<1>2. ASSUME NEW h \in Handlers, UpdateState(h)
      PROVE  architecture[a] \subseteq architecture'[a]
  BY <1>2 DEF UpdateState, LineInv, TypeOK
<1> QED BY <1>1, <1>2, ArchitectureChange

\* An attempt writes elements of a deployment in the line of its app; unless
\* that is the newest, the deployment has written before, or may come late.
LEMMA WrittenInLine ==
    ASSUME IndInv, NEW h \in Handlers, UpdateState(h)
    PROVE  LET e == execution[h].deploymentId
               a == plan[e].app
           IN  /\ e \in Deployments
               /\ plan[e] # None
               /\ a \in Apps
               /\ architecture'[a] = architecture[a] \cup {e}
               /\ \A b \in Apps : b # a => architecture'[b] = architecture[b]
               /\ \E i \in 1 .. Len(history[a]) :
                     /\ history[a][i] = e
                     /\ i < Len(history[a]) => e \in architecture[a] \/ MayComeLate(e)
<1> USE DEF IndInv, LineInv
<1> DEFINE e == execution[h].deploymentId
           a == plan[e].app
<1>1. h \in sent /\ execution[h] # None
  BY DEF UpdateState, SuccessesWritten
<1>2. e = handler[h].deploymentId /\ handler[h].pc \in {"created", "done", "crashed"}
  BY <1>1 DEF ExecutionsFollowCommits
<1>3. e \in Deployments /\ plan[e] # None
  BY <1>2 DEF HandlersOK, HandlerOK
<1>4. a \in Apps
  BY <1>3 DEF TypeOK, Plans
<1>5. /\ architecture'[a] = architecture[a] \cup {e}
      /\ \A b \in Apps : b # a => architecture'[b] = architecture[b]
  BY <1>4 DEF UpdateState, TypeOK
<1>6. PICK i \in 1 .. Len(history[a]) : history[a][i] = e
  BY <1>2 DEF CommittedOnce, AfterCommit, AppOf, Body
<1>7. ASSUME i < Len(history[a]), e \notin givenUp, e \notin architecture[a]
      PROVE  Unsuccessful(e)
  <2>1. Over(e)
    BY <1>4, <1>6, <1>7 DEF NoneDropped
  <2>2. PICK g \in Handlers : /\ execution[g] # None
                              /\ execution[g].deploymentId = e
                              /\ execution[g].state \notin {"ACTIVE", "CANCELLED"}
    BY <2>1 DEF Over
  <2>3. g = h
    BY <1>1, <2>2 DEF ExecutionsFollowCommits, CommittedOnce, AfterCommit
  <2>4. execution[h].state # "SUCCEEDED"
    BY <1>1, <1>7 DEF SuccessesWritten, Answered
  <2>5. execution[h].state \in ExecutionStates
    BY <1>1 DEF TypeOK, Executions
  <2> QED BY <1>1, <2>2, <2>3, <2>4, <2>5 DEF Unsuccessful, ExecutionStates
<1> QED BY <1>3, <1>4, <1>5, <1>6, <1>7 DEF MayComeLate

\* A call is of an execution that exists, and a success waits for its answer.
LEMMA SuccessesWrittenStep ==
    ASSUME IndInv, [Next]_vars
    PROVE  SuccessesWritten'
<1> USE DEF IndInv
<1> SUFFICES ASSUME NEW h \in sent'
             PROVE  /\ execution'[h] # None
                    /\ execution'[h].state = "SUCCEEDED" => Answered(h)'
  BY DEF SuccessesWritten
<1>1. h \in Handlers
  BY TypeNext DEF LineInv, TypeOK
<1>2. CASE h \notin sent
  <2>1. PICK g \in Handlers : CallUpdateState(g)
    BY <1>2, SentChange
  <2> QED BY <1>2, <2>1 DEF CallUpdateState, Running
<1>3. CASE h \in sent
  <2>1. /\ execution[h] # None
        /\ execution[h].state = "SUCCEEDED" => Answered(h)
    BY <1>3 DEF SuccessesWritten
  <2>2. /\ execution[h].deploymentId \in Deployments
        /\ plan[execution[h].deploymentId] # None
        /\ plan[execution[h].deploymentId].app \in Apps
    BY <1>1, <2>1 DEF LineInv, ExecutionsFollowCommits, HandlersOK, HandlerOK, TypeOK, Plans
  <2>3. Answered(h) => Answered(h)'
    BY <1>1, <2>1, <2>2, ExecutionStays, ElementsStay, GhostsGrow DEF Answered
  <2>4. ASSUME NEW s \in ExecutionStates \ {"ACTIVE"}, EndExecution(h, s)
        PROVE  execution'[h].state = "SUCCEEDED" => Answered(h)
    BY <1>1, <1>3, <2>4 DEF EndExecution, Running, LineInv, TypeOK, Executions
  <2> QED BY <1>1, <2>1, <2>3, <2>4, ExecutionStays
<1> QED BY <1>2, <1>3

\* An execution writes the elements of its own app.
LEMMA ElementsStep ==
    ASSUME IndInv, [Next]_vars
    PROVE  ElementsAreOwn'
<1> USE DEF IndInv
<1> SUFFICES ASSUME NEW a \in Apps, NEW e \in architecture'[a]
             PROVE  plan'[e] # None /\ plan'[e].app = a
  BY DEF ElementsAreOwn
<1>1. CASE e \in architecture[a]
  <2>1. e \in Deployments /\ plan[e] # None /\ plan[e].app = a
    BY <1>1 DEF ElementsAreOwn, LineInv, TypeOK
  <2> QED BY <2>1, GhostsGrow
<1>2. CASE e \notin architecture[a]
  <2>1. PICK h \in Handlers : UpdateState(h)
    BY <1>2, ArchitectureChange
  <2>2. e = execution[h].deploymentId /\ plan[e].app = a
    BY <1>2, <2>1, WrittenInLine
  <2> QED BY <2>1, <2>2, WrittenInLine, GhostsGrow
<1> QED BY <1>1, <1>2

\* Over and without success, an execution stays so.
LEMMA LateStays ==
    ASSUME LineInv, [Next]_vars, NEW d, MayComeLate(d)
    PROVE  MayComeLate(d)'
<1>1. CASE d \in givenUp
  BY <1>1, GhostsGrow DEF MayComeLate
<1>2. CASE Unsuccessful(d)
  BY <1>2, ExecutionStays DEF MayComeLate, Unsuccessful
<1> QED BY <1>1, <1>2 DEF MayComeLate

\* When an element a plan has not seen is written, its deployment is at the
\* end of the line, where the plan was computed or later, or may come late.
LEMMA PlansMissStep ==
    ASSUME IndInv, [Next]_vars
    PROVE  PlansMissOnlyLater'
<1> USE DEF IndInv
<1> SUFFICES ASSUME NEW d \in Deployments, plan'[d] # None,
                    NEW e \in architecture'[plan'[d].app] \ plan'[d].architecture
             PROVE  \/ MayComeLate(e)'
                    \/ \E i \in 1 .. Len(history'[plan'[d].app]) :
                          i >= plan'[d].base /\ history'[plan'[d].app][i] = e
  BY DEF PlansMissOnlyLater
<1>1. CASE plan[d] = None
  <2>1. PICK a \in Apps, t \in Stamps : GetAppState(d, a, t)
    BY <1>1, PlanChange DEF GetAppState, LineInv, TypeOK
  <2>2. /\ plan'[d].app = a /\ plan'[d].architecture = architecture[a]
        /\ UNCHANGED architecture
    BY <2>1 DEF GetAppState, LineInv, TypeOK
  <2> QED BY <2>2
<1>2. CASE plan[d] # None
  <2> DEFINE a == plan[d].app
             n == plan[d].base
  <2>1. plan'[d] = plan[d] /\ a \in Apps /\ n \in Nat /\ n <= Len(history[a])
    BY <1>2, GhostsGrow DEF LineInv, TypeOK, Plans, PointNamesBase
  <2>2. MayComeLate(e) \/ \E i \in 1 .. Len(history[a]) : i >= n /\ history[a][i] = e
    <3>1. CASE e \in architecture[a]
      BY <1>2, <2>1, <3>1 DEF PlansMissOnlyLater
    <3>2. CASE e \notin architecture[a]
      <4>1. PICK h \in Handlers : UpdateState(h)
        BY <2>1, <3>2, ArchitectureChange
      <4>2. e = execution[h].deploymentId /\ plan[e].app = a
        BY <2>1, <3>2, <4>1, WrittenInLine
      <4>3. PICK i \in 1 .. Len(history[a]) :
                /\ history[a][i] = e
                /\ i < Len(history[a]) => MayComeLate(e)
        BY <3>2, <4>1, <4>2, WrittenInLine
      <4>4. Len(history[a]) \in Nat
        BY <2>1, GhostsGrow
      <4> QED BY <2>1, <4>3, <4>4
    <3> QED BY <3>1, <3>2
  <2>3. ASSUME NEW i \in 1 .. Len(history[a]), i >= n, history[a][i] = e
        PROVE  i \in 1 .. Len(history'[a]) /\ history'[a][i] = e
    BY <2>1, <2>3, GhostsGrow
  <2> QED BY <2>1, <2>2, <2>3, LateStays
<1> QED BY <1>1, <1>2

-----------------------------------------------------------------------------
(* What becomes of the deployments in the line *)

\* An execution that is over stays so.
LEMMA OverStays ==
    ASSUME LineInv, [Next]_vars, NEW d, Over(d)
    PROVE  Over(d)'
BY ExecutionStays DEF Over

\* What a commit replaces has been executed, and that is over, or its execution
\* is not recorded.
LEMMA CommitReplaces ==
    ASSUME LineInv, NEW h \in Handlers, Commit(h), history[AppOf(h)] # <<>>
    PROVE  Over(Newest(AppOf(h))) \/ Newest(AppOf(h)) \in givenUp'
<1> USE DEF LineInv
<1> DEFINE a == AppOf(h)
           old == Newest(a)
<1>1. a \in Apps
  BY CommitPlan
<1>2. /\ appDoc[a] # None
      /\ appDoc[a].deploymentId = old
      /\ old \in Deployments
      /\ deploymentDoc[old] # None
  BY <1>1 DEF AppDocIsNewest, Newest, HistoryIsALine, TypeOK, AppDocs
<1>3. /\ handler[h].pc = "ready"
      /\ handler[h].readApp = appDoc[a]
      /\ handler[h].readDeployment = deploymentDoc[old]
  BY <1>2 DEF Commit, ReadsHold, CurrentDeployment
<1>4. CASE deploymentDoc[old].execution = "CREATING"
  BY <1>2, <1>3, <1>4 DEF Commit
<1>5. CASE deploymentDoc[old].execution # "CREATING"
  <2> DEFINE k == deploymentDoc[old].execution
  <2>1. k \in Handlers /\ execution[k] # None /\ execution[k].deploymentId = old
    BY <1>2, <1>5 DEF DocsNameExecutions, Names, TypeOK, DeploymentDocs
  <2>2. execution[k].state \notin {"ACTIVE", "CANCELLED"}
    BY <1>2, <1>3, <1>5 DEF HandlersOK, HandlerOK
  <2> QED BY <2>1, <2>2 DEF Over
<1> QED BY <1>4, <1>5

\* What a commit replaces has ended, or is given up, and stays so.
LEMMA NoneDroppedStep ==
    ASSUME IndInv, [Next]_vars
    PROVE  NoneDropped'
<1> USE DEF IndInv
<1> SUFFICES ASSUME NEW a \in Apps, NEW i \in 1 .. Len(history'[a]), i < Len(history'[a]),
                    NEW d, d = history'[a][i]
             PROVE  Over(d)' \/ d \in givenUp'
  BY DEF NoneDropped, Over
<1>1. /\ Len(history[a]) \in Nat /\ givenUp \subseteq givenUp'
      /\ i \in 1 .. Len(history[a]) => d = history[a][i]
  BY GhostsGrow
<1>2. Over(d) \/ d \in givenUp'
  <2>1. CASE i \in 1 .. Len(history[a]) /\ i < Len(history[a])
    BY <1>1, <2>1 DEF NoneDropped
  <2>2. CASE ~(i \in 1 .. Len(history[a]) /\ i < Len(history[a]))
    <3>1. PICK h \in Handlers : Commit(h)
      BY <1>1, <2>2, HistoryChange
    <3>2. a = AppOf(h) /\ Len(history'[a]) = Len(history[a]) + 1
      BY <1>1, <2>2, <3>1, CommitHistory
    <3>3. i \in Nat /\ i = Len(history[a]) /\ i > 0
      BY <1>1, <2>2, <3>2
    <3>4. history[a] # <<>> /\ d = Newest(a)
      BY <1>1, <3>3 DEF Newest
    <3> QED BY <3>1, <3>2, <3>4, CommitReplaces
  <2> QED BY <2>1, <2>2
<1> QED BY <1>2, OverStays

-----------------------------------------------------------------------------

\* The first states satisfy the invariant.
LEMMA IndInit == Init => IndInv
<1>1. Init => SuccessesWritten /\ ElementsAreOwn /\ PlansMissOnlyLater /\ NoneDropped
  BY DEF Init, SuccessesWritten, ElementsAreOwn, PlansMissOnlyLater, NoneDropped
<1> QED BY <1>1, LineInit DEF IndInv

\* Every step preserves the invariant.
LEMMA IndNext == IndInv /\ [Next]_vars => IndInv'
<1>1. IndInv /\ [Next]_vars => LineInv'
  BY LineNext DEF IndInv
<1> QED BY <1>1, SuccessesWrittenStep, ElementsStep, PlansMissStep, NoneDroppedStep DEF IndInv

-----------------------------------------------------------------------------
(* The theorems *)

\* The inductive invariant of putApp holds in every reachable state.
THEOREM Inductive == Spec => []IndInv
BY IndInit, IndNext, PTL DEF Spec

\* Every document, execution and invocation keeps its shape.
THEOREM TypeCorrect == Spec => []TypeOK
<1>1. IndInv => TypeOK
  BY DEF IndInv, LineInv
<1> QED BY <1>1, Inductive, PTL

\* However PUTs interleave, crash and come again, a deployment is committed
\* only on the state of the app left by the deployment committed before it.
THEOREM OneLine == Spec => []PlanBuiltOnPredecessor
<1>1. IndInv => PlanBuiltOnPredecessor
  BY DEF IndInv, LineInv, HistoryIsALine, PlanBuiltOnPredecessor
<1> QED BY <1>1, Inductive, PTL

\* A PUT that is delivered several times, or whose handler dies, has at most
\* one execution.
THEOREM ExecutedOnce == Spec => []AtMostOneExecution
<1>1. IndInv => AtMostOneExecution
  BY DEF IndInv, LineInv, ExecutionsFollowCommits, CommittedOnce, AfterCommit, AtMostOneExecution
<1> QED BY <1>1, Inductive, PTL

\* Two executions of one app overlap only when a deployment was given up
\* before its execution was recorded.
THEOREM OverlapOnlyAfterGivingUp == Spec => []OverlapOnlyIfGivenUp
<1>1. IndInv => OverlapOnlyIfGivenUp
  BY DEF IndInv, LineInv
<1> QED BY <1>1, Inductive, PTL

\* Two apps never share a short id.
THEOREM ShortIdsDiffer == Spec => []AppShortIdUnique
<1>1. IndInv => AppShortIdUnique
  BY DEF IndInv, LineInv
<1> QED BY <1>1, Inductive, PTL

\* An accepted deployment is executed before another takes its place, unless it
\* was given up: putApp drops none.
THEOREM NoneIsDropped == Spec => []NoneDropped
<1>1. IndInv => NoneDropped
  BY DEF IndInv
<1> QED BY <1>1, Inductive, PTL

-----------------------------------------------------------------------------
(* Cancellation *)

Cancelled(a) ==
    LET deployment == CurrentDeployment(appDoc[a])
    IN  /\ appDoc[a] # None
        /\ deployment # None
        /\ deployment.execution # "CREATING"
        /\ execution[deployment.execution].state = "CANCELLED"

\* The status of an app is CANCELLED for one reason only.
LEMMA CancelledStatus ==
    IndInv => \A a \in Apps : AppStatus(a) = "CANCELLED" <=> Cancelled(a)
<1> SUFFICES ASSUME IndInv, NEW a \in Apps
             PROVE  AppStatus(a) = "CANCELLED" <=> Cancelled(a)
  OBVIOUS
<1> DEFINE app == appDoc[a]
           deployment == CurrentDeployment(app)
           state == execution[deployment.execution].state
<1>1. CASE app = None \/ deployment = None
  BY <1>1 DEF AppStatus, Status, Cancelled
<1>2. CASE app # None /\ deployment # None /\ deployment.execution = "CREATING"
  BY <1>2 DEF AppStatus, Status, Cancelled
<1>3. CASE app # None /\ deployment # None /\ deployment.execution # "CREATING"
  <2>1. deployment \in DeploymentDocs /\ app.deploymentId \in Deployments
    BY <1>3, CurrentType DEF IndInv, LineInv, TypeOK, AppDocs
  <2>2. execution[deployment.execution] \in Executions
    BY <1>3, <2>1 DEF IndInv, LineInv, DocsNameExecutions, Names, TypeOK, DeploymentDocs,
                      CurrentDeployment
  <2>3. state \in ExecutionStates
    BY <2>2 DEF Executions
  <2>4. AppStatus(a) = ExecutionStatus[state]
    BY <1>3 DEF AppStatus, Status
  <2>5. ExecutionStatus[state] = "CANCELLED" <=> state = "CANCELLED"
    BY <2>3 DEF ExecutionStatus, ExecutionStates
  <2> QED BY <1>3, <2>4, <2>5 DEF Cancelled
<1> QED BY <1>1, <1>2, <1>3

\* What a cancelled app holds, no step takes away.
LEMMA CancelledStep ==
    ASSUME IndInv, [Next]_vars, NEW a \in Apps, Cancelled(a)
    PROVE  appDoc'[a] = appDoc[a] /\ Cancelled(a)'
<1> DEFINE d == appDoc[a].deploymentId
           k == deploymentDoc[d].execution
<1> USE DEF agentVars, ghosts
<1>1. /\ appDoc[a] # None
      /\ d \in Deployments
      /\ deploymentDoc[d] # None
      /\ k # "CREATING"
      /\ k \in Handlers
      /\ execution[k] # None
      /\ execution[k].state = "CANCELLED"
  BY DEF Cancelled, CurrentDeployment, IndInv, LineInv, DocsNameExecutions, Names, TypeOK,
         AppDocs, DeploymentDocs
<1>u. ASSUME UNCHANGED <<appDoc, deploymentDoc, execution>>
      PROVE  appDoc'[a] = appDoc[a] /\ Cancelled(a)'
  BY <1>u DEF Cancelled, CurrentDeployment
<1>2. CASE UNCHANGED vars \/ Tick \/ Client
  BY <1>2, <1>u DEF vars, Tick, Client, GetAppState, Put
<1> SUFFICES ASSUME NEW h \in Handlers, PutApp(h) \/ Workflow(h)
             PROVE  appDoc'[a] = appDoc[a] /\ Cancelled(a)'
  BY <1>2 DEF Next
<1>3. CASE Commit(h)
  <2>1. a # AppOf(h)
    <3> SUFFICES ASSUME a = AppOf(h) PROVE FALSE
      OBVIOUS
    <3>1. /\ handler[h].pc = "ready"
          /\ handler[h].readApp = appDoc[a]
          /\ handler[h].readDeployment = deploymentDoc[d]
      BY <1>3, <1>1 DEF Commit, ReadsHold, CurrentDeployment
    <3> QED BY <3>1, <1>1 DEF IndInv, LineInv, HandlersOK, HandlerOK
  <2>2. d # handler[h].deploymentId
    <3>1. history[a] # <<>> /\ d = Newest(a) /\ Len(history[a]) \in 1 .. Len(history[a])
      BY <1>1 DEF IndInv, LineInv, AppDocIsNewest, TypeOK
    <3> QED BY <3>1, <1>3, CommitPlan DEF Newest, IndInv
  <2>3. appDoc'[a] = appDoc[a] /\ deploymentDoc'[d] = deploymentDoc[d]
    BY <1>1, <1>3, <2>1, <2>2, CommitPlan DEF Commit, IndInv, LineInv, TypeOK
  <2> QED BY <1>1, <1>3, <2>3 DEF Commit, Cancelled, CurrentDeployment
<1>4. CASE CreateExecution(h)
  <2>1. k # h
    BY <1>1, <1>4 DEF CreateExecution, IndInv, LineInv, ExecutionsFollowCommits
  <2>2. execution'[k] = execution[k]
    BY <1>1, <1>4, <2>1 DEF CreateExecution, IndInv, LineInv, TypeOK
  <2> QED BY <1>1, <1>4, <2>2 DEF CreateExecution, Cancelled, CurrentDeployment
<1>5. CASE RecordExecution(h)
  <2>1. d # handler[h].deploymentId
    BY <1>1, <1>5 DEF RecordExecution, IndInv, LineInv, ExecutionsFollowCommits
  <2>2. deploymentDoc'[d] = deploymentDoc[d]
    BY <1>1, <1>5, <2>1 DEF RecordExecution, IndInv, LineInv, TypeOK
  <2> QED BY <1>1, <1>5, <2>2 DEF RecordExecution, Cancelled, CurrentDeployment
<1>6. ASSUME NEW s \in ExecutionStates, EndExecution(h, s)
      PROVE  appDoc'[a] = appDoc[a] /\ Cancelled(a)'
  <2>1. k # h
    BY <1>1, <1>6 DEF EndExecution, Running
  <2>2. execution'[k] = execution[k]
    BY <1>1, <1>6, <2>1 DEF EndExecution, IndInv, LineInv, TypeOK
  <2> QED BY <1>1, <1>6, <2>2 DEF EndExecution, Cancelled, CurrentDeployment
<1>7. ASSUME \/ ReadApp(h) \/ RejectPlan(h) \/ CheckStatus(h) \/ RejectStatus(h)
             \/ RejectShortId(h) \/ TxnConflict(h) \/ Crash(h)
             \/ CallUpdateState(h) \/ UpdateState(h)
             \/ \E id \in ShortIds : GenerateAppShortId(h, id)
             \/ \E file \in Files : SaveFile(h, file)
      PROVE  UNCHANGED <<appDoc, deploymentDoc, execution>>
  BY <1>7 DEF ReadApp, RejectPlan, CheckStatus, RejectStatus, RejectShortId, TxnConflict,
              Crash, CallUpdateState, UpdateState, GenerateAppShortId, SaveFile
<1> QED
  BY <1>3, <1>4, <1>5, <1>6, <1>7, <1>u DEF PutApp, Workflow

\* An app whose execution was cancelled is never deployed again.
THEOREM CancelledForEver == Spec => CancelledAppIsFrozen
<1> DEFINE Frozen == \A a \in Apps : AppStatus(a) = "CANCELLED" =>
                        /\ appDoc'[a] = appDoc[a]
                        /\ AppStatus(a)' = "CANCELLED"
<1>1. (IndInv => \A a \in Apps : AppStatus(a) = "CANCELLED" <=> Cancelled(a))'
  BY CancelledStatus, PTL
<1>2. IndInv /\ IndInv' /\ [Next]_vars => Frozen
  BY <1>1, CancelledStatus, CancelledStep
<1>3. IndInv /\ IndInv' /\ [Next]_vars => [Frozen]_vars
  BY <1>2
<1> QED BY <1>3, Inductive, PTL DEF Spec, CancelledAppIsFrozen

-----------------------------------------------------------------------------
(* Freshness *)

\* At a commit the newest deployment is the one the plan was built on, so what
\* the plan has missed is of that deployment, or may come late.
LEMMA CommitMisses ==
    ASSUME IndInv, NEW h \in Handlers, Commit(h)
    PROVE  LET a == AppOf(h)
           IN  \A e \in architecture[a] \ plan[handler[h].deploymentId].architecture :
                  /\ plan[e].app = a
                  /\ MayComeLate(e) \/ (history[a] # <<>> /\ e = Newest(a))
<1> USE DEF IndInv
<1> DEFINE d == handler[h].deploymentId
           a == AppOf(h)
<1>1. /\ d \in Deployments /\ a \in Apps
      /\ plan[d] # None /\ plan[d].app = a /\ plan[d].base = Len(history[a])
  BY CommitPlan
<1>2. Len(history[a]) \in Nat /\ (Len(history[a]) > 0 => history[a] # <<>>)
  BY <1>1 DEF LineInv, TypeOK
<1>3. ASSUME NEW e \in architecture[a] \ plan[d].architecture
      PROVE  MayComeLate(e) \/ (history[a] # <<>> /\ e = Newest(a))
  <2>1. MayComeLate(e)
        \/ \E i \in 1 .. Len(history[a]) : i >= Len(history[a]) /\ history[a][i] = e
    BY <1>1, <1>3 DEF PlansMissOnlyLater
  <2> QED BY <1>2, <2>1 DEF Newest
<1>4. \A e \in architecture[a] : plan[e].app = a
  BY <1>1 DEF ElementsAreOwn
<1> QED BY <1>3, <1>4

\* A plan that putApp accepts has seen what every older success has deployed:
\* the test of the deployment point lets it miss elements of its predecessor,
\* and late ones of deployments that were given up or failed.
THEOREM SeesOlderSuccesses == Spec => PlanSeesOlderSuccesses
<1> DEFINE Misses ==
      \A a \in Apps : history'[a] # history[a] =>
          \A e \in architecture[a] \ plan[Newest(a)'].architecture :
              /\ plan[e].app = a
              /\ MayComeLate(e) \/ (history[a] # <<>> /\ e = Newest(a))
<1>1. ASSUME IndInv, [Next]_vars, NEW a \in Apps, history'[a] # history[a]
      PROVE  \A e \in architecture[a] \ plan[Newest(a)'].architecture :
                 /\ plan[e].app = a
                 /\ MayComeLate(e) \/ (history[a] # <<>> /\ e = Newest(a))
  <2>1. PICK h \in Handlers : Commit(h)
    BY <1>1, HistoryChange
  <2>2. a = AppOf(h) /\ Newest(a)' = handler[h].deploymentId
    BY <1>1, <2>1, CommitHistory DEF IndInv, Newest
  <2> QED BY <1>1, <2>1, <2>2, CommitMisses
<1>2. IndInv /\ [Next]_vars => [Misses]_vars
  BY <1>1
<1> HIDE DEF Misses
<1>3. Spec => [][Misses]_vars
  BY <1>2, Inductive, PTL DEF Spec
<1> QED BY <1>3 DEF PlanSeesOlderSuccesses, Misses

=============================================================================
