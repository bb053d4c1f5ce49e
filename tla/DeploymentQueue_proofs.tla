----------------------- MODULE DeploymentQueue_proofs -----------------------
(***************************************************************************)
(* Theorems about DeploymentQueue.                                         *)
(***************************************************************************)
EXTENDS DeploymentQueueInv, TLAPS

-----------------------------------------------------------------------------
(* What a step changes *)

\* The ways the document of a deployment changes.
Kept(d) == deployment'[d] = deployment[d]
Appears(d) ==
    /\ put[d].pc = "set"
    /\ deployment'[d] = [state |-> "PENDING", createdAt |-> put[d].createdAt,
                         execution |-> FALSE]
Recorded(d) ==
    /\ put[d].pc = "record"
    /\ deployment'[d] = [state |-> deployment[d].state,
                         createdAt |-> deployment[d].createdAt,
                         execution |-> TRUE]
Ended(d) ==
    /\ Exists(d)
    /\ execution[d] \notin {None, "ACTIVE"}
    /\ deployment'[d] = InNewState(d, Outcome(execution[d]))
Placed(d) ==
    /\ Is(d, {"PENDING"})
    /\ \E state \in {"DEPLOYING", "SKIPPED", "PENDING"} :
          deployment'[d] = InNewState(d, state)

\* Which actions change which variable.
LEMMA DocsChange ==
    ASSUME [Next]_vars, deployment' # deployment
    PROVE  \/ \E d \in Deployments : SetDeployment(d) \/ RecordExecution(d)
           \/ \E p \in Pollers : CommitPending(p) \/ \E d \in Deployments : Write(p, d)
  BY DEF Next, vars, ghosts, PutDeployment, Poll, GetApp, SetApp, Stamp, CreateExecution,
     CrashPut, EndExecution, List, Fetch, ReadApp, CommitApp, RetryApp, ReadPending, QueryFirst, QueryLast,
     RetryPending, CrashPoll

\* Only the first SetApp and the commits of polls change the app.
LEMMA AppChange ==
    ASSUME [Next]_vars, app' # app
    PROVE  (\E d \in Deployments : SetApp(d)) \/ \E p \in Pollers : CommitApp(p) \/ CommitPending(p)
  BY DEF Next, vars, ghosts, PutDeployment, Poll, GetApp, SetDeployment, RecordExecution, Stamp, CreateExecution, Write,
     CrashPut, EndExecution, List, Fetch, ReadApp, RetryApp, ReadPending, QueryFirst, QueryLast,
     RetryPending, CrashPoll

\* An execution is created, and ends.
LEMMA ExecutionChange ==
    ASSUME [Next]_vars, execution' # execution
    PROVE  \E d \in Deployments : CreateExecution(d) \/ \E s \in Ends : EndExecution(d, s)
  BY DEF Next, vars, ghosts, PutDeployment, Poll, GetApp, SetApp, SetDeployment, RecordExecution, Stamp, Write,
     CrashPut, List, Fetch, ReadApp, RetryApp, ReadPending, QueryFirst, QueryLast, CommitApp, CommitPending,
     RetryPending, CrashPoll

\* Only a call of putDeployment, or its death, changes where it is.
LEMMA PutChange ==
    ASSUME [Next]_vars, put' # put
    PROVE  \E d \in Deployments : PutDeployment(d) \/ CrashPut(d)
  BY DEF Next, vars, ghosts, Poll, Write,
     EndExecution, List, Fetch, ReadApp, RetryApp, ReadPending, QueryFirst, QueryLast, CommitApp, CommitPending,
     RetryPending, CrashPoll

\* Time passes with the timestamps that are taken.
LEMMA NowChange ==
    ASSUME [Next]_vars, now' # now
    PROVE  \E d \in Deployments : Stamp(d)
  BY DEF Next, vars, ghosts, PutDeployment, Poll, GetApp, SetApp, SetDeployment, RecordExecution, CreateExecution, Write,
     CrashPut, EndExecution, List, Fetch, ReadApp, RetryApp, ReadPending, QueryFirst, QueryLast, CommitApp, CommitPending,
     RetryPending, CrashPoll

\* A deployment is late from the moment it appears.
LEMMA LateChange ==
    ASSUME [Next]_vars, late' # late
    PROVE  \E d \in Deployments : SetDeployment(d)
  BY DEF Next, vars, ghosts, PutDeployment, Poll, GetApp, SetApp, Stamp, RecordExecution, CreateExecution, Write,
     CrashPut, EndExecution, List, Fetch, ReadApp, RetryApp, ReadPending, QueryFirst, QueryLast, CommitApp, CommitPending,
     RetryPending, CrashPoll

\* The app is written over by a call that has found none.
LEMMA OverwrittenChange ==
    ASSUME [Next]_vars, overwritten' # overwritten
    PROVE  \E d \in Deployments : SetApp(d)
  BY DEF Next, vars, ghosts, PutDeployment, Poll, GetApp, SetDeployment, Stamp, RecordExecution, CreateExecution, Write,
     CrashPut, EndExecution, List, Fetch, ReadApp, RetryApp, ReadPending, QueryFirst, QueryLast, CommitApp, CommitPending,
     RetryPending, CrashPoll

\* Only the actions of a poll change it.
LEMMA PollChange ==
    ASSUME TypeOK, [Next]_vars, NEW p \in Pollers, poll'[p] # poll[p]
    PROVE  Poll(p) \/ CrashPoll(p)
<1>1. PICK q \in Pollers : Poll(q) \/ CrashPoll(q)
  BY DEF Next, vars, ghosts, PutDeployment, GetApp, SetApp, SetDeployment, Stamp, RecordExecution, CreateExecution,
     CrashPut, EndExecution
<1>2. poll' = [poll EXCEPT ![q] = poll'[q]]
  BY <1>1 DEF TypeOK, Poll, CrashPoll, List, Fetch, Write, ReadApp, CommitApp, RetryApp, ReadPending, QueryFirst,
     QueryLast, CommitPending, RetryPending
<1> QED BY <1>1, <1>2 DEF TypeOK

-----------------------------------------------------------------------------

\* An execution that has ended gives one of three outcomes.
LEMMA OutcomeEnds ==
    ASSUME NEW state \in ExecutionStates \ {"ACTIVE"}
    PROVE  Outcome(state) \in {"DEPLOYED", "FAILED", "CANCELLED"}
  BY DEF Outcome, ExecutionStates

\* The document of a deployment changes in one of these ways.
LEMMA Docs ==
    ASSUME TypeOK, PutsOK, ListedOK, TargetsOK, PlacesStand, [Next]_vars, NEW d \in Deployments
    PROVE  Kept(d) \/ Appears(d) \/ Recorded(d) \/ Ended(d) \/ Placed(d)
<1>1. CASE deployment' = deployment
  BY <1>1 DEF Kept
<1>2. ASSUME NEW e \in Deployments, SetDeployment(e) PROVE Kept(d) \/ Appears(d)
  BY <1>2 DEF SetDeployment, Kept, Appears, TypeOK
<1>3. ASSUME NEW e \in Deployments, RecordExecution(e) PROVE Kept(d) \/ Recorded(d)
  BY <1>3 DEF RecordExecution, Kept, Recorded, TypeOK
<1>4. ASSUME NEW p \in Pollers, NEW e \in Deployments, Write(p, e) PROVE Kept(d) \/ Ended(d)
  BY <1>4 DEF Write, Kept, Ended, TypeOK, ListedOK, PutsOK, Exists
<1>5. ASSUME NEW p \in Pollers, CommitPending(p) PROVE Kept(d) \/ Placed(d)
  <2> DEFINE e == poll[p].target
  <2>1. e \in Deployments /\ Is(e, {"PENDING"})
    BY <1>5 DEF CommitPending, PendingUnchanged, TargetsOK, PlacesStand, TypeOK, Polls, Is, Exists
  <2>2. Decided(p) \in {"DEPLOYING", "SKIPPED", "PENDING"}
    BY DEF Decided
  <2>3. deployment' = [deployment EXCEPT ![e] = InNewState(e, Decided(p))]
    BY <1>5 DEF CommitPending
  <2> QED BY <2>1, <2>2, <2>3 DEF Kept, Placed, TypeOK
<1> QED BY <1>1, <1>2, <1>3, <1>4, <1>5, DocsChange

\* A document stays, with its timestamp; a deployment that has left PENDING, or
\* the running states, never returns, and what has ended stays so.
LEMMA Monotone ==
    ASSUME TypeOK, PutsOK, ListedOK, TargetsOK, PlacesStand, [Next]_vars,
           NEW d \in Deployments, Exists(d)
    PROVE  /\ Exists(d)' /\ CreatedAt(d)' = CreatedAt(d)
           /\ deployment[d].execution => deployment'[d].execution
           /\ Is(d, {"PENDING"})' => Is(d, {"PENDING"})
           /\ Is(d, RunningStates)' => Is(d, RunningStates)
           /\ Is(d, EndStates) => Is(d, EndStates)'
<1> USE DEF Exists, Is, CreatedAt, RunningStates, EndStates
<1>1. CASE Kept(d)
  BY <1>1 DEF Kept
<1>2. CASE Appears(d)
  BY <1>2 DEF Appears, PutsOK
<1>3. CASE Recorded(d)
  <2>1. deployment'[d] \in DeploymentDocs
    BY <1>3 DEF Recorded, TypeOK, DeploymentDocs
  <2>2. /\ deployment'[d].state = deployment[d].state
        /\ deployment'[d].createdAt = deployment[d].createdAt
        /\ deployment'[d].execution = TRUE
    BY <1>3 DEF Recorded
  <2> QED BY <2>1, <2>2, NoneAssumption
<1>4. CASE Ended(d)
  <2>1. Outcome(execution[d]) \in {"DEPLOYED", "FAILED", "CANCELLED"}
    BY <1>4, OutcomeEnds DEF Ended, TypeOK
  <2>2. deployment'[d] \in DeploymentDocs
    BY <1>4, <2>1 DEF Ended, InNewState, TypeOK, DeploymentDocs
  <2> QED BY <1>4, <2>1, <2>2, NoneAssumption DEF Ended, InNewState
<1>5. CASE Placed(d)
  <2>1. deployment'[d] \in DeploymentDocs
    BY <1>5 DEF Placed, InNewState, TypeOK, DeploymentDocs
  <2> QED BY <1>5, <2>1, NoneAssumption DEF Placed, InNewState
<1> QED BY <1>1, <1>2, <1>3, <1>4, <1>5, Docs

\* A document appears when it is set.
LEMMA NewDocument ==
    ASSUME TypeOK, PutsOK, ListedOK, TargetsOK, PlacesStand, [Next]_vars,
           NEW e \in Deployments, ~Exists(e), Exists(e)'
    PROVE  SetDeployment(e)
<1>1. deployment'[e] # deployment[e]
  BY DEF Exists
<1>2. ASSUME NEW c \in Deployments, RecordExecution(c) PROVE FALSE
  BY <1>1, <1>2 DEF RecordExecution, TypeOK, PutsOK, Exists
<1>3. ASSUME NEW p \in Pollers, CommitPending(p) PROVE FALSE
  BY <1>1, <1>3 DEF CommitPending, PendingUnchanged, TypeOK, TargetsOK, PlacesStand, Exists
<1>4. ASSUME NEW p \in Pollers, NEW c \in Deployments, Write(p, c) PROVE FALSE
  BY <1>1, <1>4 DEF Write, TypeOK, ListedOK, Exists
<1>5. PICK c \in Deployments : SetDeployment(c)
  BY <1>1, <1>2, <1>3, <1>4, DocsChange
<1> QED BY <1>5 DEF SetDeployment, TypeOK, Exists

\* A new document is PENDING, and late if it should be before another one.
LEMMA NewIsBehind ==
    ASSUME IndInv, [Next]_vars,
           NEW d \in Deployments, Exists(d), NEW e \in Deployments, ~Exists(e), Exists(e)'
    PROVE  Behind(e, d)' /\ Is(e, {"PENDING"})'
<1>1. SetDeployment(e)
  BY NewDocument DEF IndInv
<1>2. /\ CreatedAt(e)' = put[e].createdAt /\ Is(e, {"PENDING"})'
      /\ CreatedAt(d)' = CreatedAt(d)
      /\ CreatedAt(d) = put[d].createdAt
  BY <1>1, Monotone DEF SetDeployment, CreatedAt, Is, Exists, IndInv, TypeOK, PutsOK
<1>3. /\ CreatedAt(d) \in Nat /\ put[e].createdAt \in Nat /\ 0 < put[e].createdAt
      /\ CreatedAt(d) # put[e].createdAt
  BY <1>1, <1>2 DEF SetDeployment, IndInv, TypeOK, Puts, PutsOK, StampsDiffer, DeploymentDocs, CreatedAt, Exists
<1>4. CASE CreatedAt(d) > put[e].createdAt
  BY <1>1, <1>2, <1>4 DEF SetDeployment, CreatedAt, Exists, Behind
<1>5. CASE CreatedAt(d) < put[e].createdAt
  BY <1>2, <1>5 DEF Behind
<1> QED BY <1>2, <1>3, <1>4, <1>5

\* A deployment that appeared late remains one.
LEMMA LateStays ==
    ASSUME [Next]_vars PROVE late \subseteq late'
  BY LateChange DEF SetDeployment

\* What is behind d stays so, and what appears is behind it.
LEMMA BehindStays ==
    ASSUME IndInv, [Next]_vars,
           NEW d \in Deployments, Exists(d),
           \A e \in Deployments : Is(e, RunningStates) => e = d \/ Behind(e, d)
    PROVE  \A e \in Deployments : Is(e, RunningStates)' => e = d \/ Behind(e, d)'
<1> SUFFICES ASSUME NEW e \in Deployments, Is(e, RunningStates)', e # d
             PROVE  Behind(e, d)'
  OBVIOUS
<1>1. CASE ~Exists(e)
  BY <1>1, NewIsBehind DEF Is
<1>2. CASE Exists(e)
  BY <1>2, Monotone, LateStays DEF IndInv, Behind
<1> QED BY <1>1, <1>2

-----------------------------------------------------------------------------
(* TypeOK *)

\* The documents keep their shape in putDeployment...
LEMMA TypePut ==
    ASSUME TypeOK, PutsOK, NEW d \in Deployments, PutDeployment(d) \/ CrashPut(d)
    PROVE  TypeOK'
<1>1. CASE GetApp(d)
  BY <1>1 DEF GetApp, TypeOK, Puts, ghosts
<1>2. CASE SetApp(d)
  BY <1>2 DEF SetApp, TypeOK, Puts, ghosts, Apps, AppStates
<1>3. CASE Stamp(d)
  BY <1>3 DEF Stamp, TypeOK, Puts, ghosts
<1>4. CASE SetDeployment(d)
  <2>1. [state |-> "PENDING", createdAt |-> put[d].createdAt, execution |-> FALSE]
           \in DeploymentDocs
    BY DEF TypeOK, Puts, DeploymentDocs, RunningStates
  <2> QED BY <1>4, <2>1 DEF SetDeployment, TypeOK, Puts
<1>5. CASE CreateExecution(d)
  BY <1>5 DEF CreateExecution, TypeOK, Puts, ghosts, ExecutionStates
<1>6. CASE RecordExecution(d)
  <2>1. [state |-> deployment[d].state, createdAt |-> deployment[d].createdAt,
         execution |-> TRUE] \in DeploymentDocs
    BY <1>6 DEF RecordExecution, PutsOK, TypeOK, Exists, DeploymentDocs
  <2> QED BY <1>6, <2>1 DEF RecordExecution, TypeOK, Puts, ghosts
<1>7. CASE CrashPut(d)
  BY <1>7, CrashesAssumption DEF CrashPut, TypeOK, Puts, ghosts
<1> QED BY <1>1, <1>2, <1>3, <1>4, <1>5, <1>6, <1>7 DEF PutDeployment

\* ... in a poll...
LEMMA TypePoll ==
    ASSUME IndInv, NEW p \in Pollers, Poll(p) \/ CrashPoll(p)
    PROVE  TypeOK'
<1> USE DEF IndInv, ghosts
<1>1. /\ \A pc \in {"idle", "fetch", "write", "app", "check"},
           t \in Deployments \cup {None}, l \in SUBSET Deployments :
              Polling(pc, t, l) \in Polls
      /\ \A pc \in {"commitApp", "commit"}, t \in Deployments \cup {None},
           a \in Apps \cup {None}, e \in DeploymentDocs :
              Holding(pc, t, a, e) \in Polls
  BY DEF Polling, Holding, Polls
<1>2. poll[p].target \in Deployments \cup {None} /\ poll[p].listed \in SUBSET Deployments
  BY DEF TypeOK, Polls
<1>3. ASSUME NEW t \in Deployments \cup {None}, List(p, t) PROVE TypeOK'
  BY <1>1, <1>3 DEF List, InState, TypeOK
<1>4. CASE Fetch(p)
  BY <1>1, <1>2, <1>4 DEF Fetch, TypeOK
<1>5. ASSUME NEW d \in Deployments, Write(p, d) PROVE TypeOK'
  <2>1. Exists(d) /\ Outcome(execution[d]) \in {"DEPLOYED", "FAILED", "CANCELLED"}
    BY <1>5, OutcomeEnds DEF Write, ListedOK, PutsOK, TypeOK
  <2>2. InNewState(d, Outcome(execution[d])) \in DeploymentDocs
    BY <2>1 DEF InNewState, DeploymentDocs, EndStates, TypeOK, Exists
  <2> QED BY <1>1, <1>2, <1>5, <2>2 DEF Write, TypeOK
<1>6. AfterApp(p) \in Polls
  BY <1>1, <1>2 DEF AfterApp, NoPoll
<1>7. CASE ReadApp(p)
  BY <1>1, <1>2, <1>6, <1>7 DEF ReadApp, AppOK, TypeOK, Apps, Exists
<1>8. CASE CommitApp(p)
  BY <1>6, <1>8 DEF CommitApp, AppUnchanged, AppOK, TypeOK, Apps, AppStates
<1>9. CASE RetryApp(p) \/ RetryPending(p)
  BY <1>1, <1>2, <1>9 DEF RetryApp, RetryPending, TypeOK
<1>10. CASE ReadPending(p)
  <2>1. NoPoll \in Polls
    BY <1>1 DEF NoPoll
  <2>2. CASE deployment[poll[p].target] # None
    <3>1. Holding("commit", poll[p].target, None, deployment[poll[p].target]) \in Polls
      BY <1>1, <1>2, <1>10, <2>2 DEF ReadPending, TargetsOK, TypeOK
    <3> QED BY <1>10, <2>1, <3>1 DEF ReadPending, TypeOK
  <2>3. CASE deployment[poll[p].target] = None
    BY <1>10, <2>1, <2>3 DEF ReadPending, TypeOK
  <2> QED BY <2>2, <2>3
<1>11. CASE QueryFirst(p) \/ QueryLast(p)
  <2>1. IsFirst(poll[p].target) \in BOOLEAN /\ IsLast(poll[p].target) \in BOOLEAN
    BY Zenon DEF IsFirst, IsLast
  <2> QED BY <1>11, <2>1 DEF QueryFirst, QueryLast, TypeOK, Polls
<1>12. CASE CommitPending(p)
  <2> DEFINE d == poll[p].target
  <2>1. d \in Deployments /\ Exists(d) /\ app # None
    BY <1>2, <1>12 DEF CommitPending, TargetsOK, PlacesStand, PutsOK
  <2>2. InNewState(d, Decided(p)) \in DeploymentDocs
    BY <2>1 DEF InNewState, Decided, DeploymentDocs, RunningStates, EndStates, TypeOK, Exists
  <2>3. app' \in Apps
    BY <1>12, <2>1 DEF CommitPending, Apps, AppStates, TypeOK
  <2> QED BY <1>1, <1>12, <2>2, <2>3 DEF CommitPending, NoPoll, TypeOK
<1>13. CASE CrashPoll(p)
  <2>1. NoPoll \in Polls
    BY <1>1 DEF NoPoll
  <2> QED BY <1>13, <2>1, CrashesAssumption DEF CrashPoll, TypeOK
<1> QED BY <1>3, <1>4, <1>5, <1>7, <1>8, <1>9, <1>10, <1>11, <1>12, <1>13 DEF Poll

\* ... and in every step.
LEMMA TypeStep == ASSUME IndInv, [Next]_vars PROVE TypeOK'
<1>1. ASSUME NEW d \in Deployments, NEW s \in Ends, EndExecution(d, s) PROVE TypeOK'
  BY <1>1, EndsAssumption DEF EndExecution, IndInv, TypeOK, ghosts, ExecutionStates
<1>2. CASE UNCHANGED vars
  BY <1>2 DEF vars, IndInv, TypeOK
<1> QED BY <1>1, <1>2, TypePut, TypePoll DEF Next, IndInv

-----------------------------------------------------------------------------
(* putDeployment *)

\* What is written of the app is an app.
LEMMA AppWritten ==
    ASSUME IndInv, [Next]_vars, app' # app
    PROVE  app' \in Apps
<1> USE DEF IndInv
<1>1. ASSUME NEW d \in Deployments, SetApp(d) PROVE app' \in Apps
  BY <1>1 DEF SetApp, Apps, AppStates
<1>2. ASSUME NEW p \in Pollers, CommitApp(p) PROVE app' \in Apps
  BY <1>2 DEF CommitApp, AppUnchanged, AppOK, TypeOK, Apps, AppStates
<1>3. ASSUME NEW p \in Pollers, CommitPending(p) PROVE app' \in Apps
  BY <1>3 DEF CommitPending, TargetsOK, PlacesStand, PutsOK, TypeOK, Polls, Apps, AppStates
<1> QED BY <1>1, <1>2, <1>3, AppChange

\* An app is never removed.
LEMMA AppStays == ASSUME IndInv, [Next]_vars, app # None PROVE app' # None
  BY AppWritten, NoneAssumption

\* An execution that has ended stays so.
LEMMA ExecutionStays ==
    ASSUME IndInv, [Next]_vars, NEW d \in Deployments
    PROVE  /\ execution[d] # None => execution'[d] # None
           /\ execution[d] \notin {None, "ACTIVE"} => execution'[d] = execution[d]
<1> USE DEF IndInv
<1>1. ASSUME NEW e \in Deployments, CreateExecution(e)
      PROVE  execution[e] = None /\ execution' = [execution EXCEPT ![e] = "ACTIVE"]
  BY <1>1 DEF CreateExecution, PutsOK
<1>2. ASSUME NEW e \in Deployments, NEW s \in Ends, EndExecution(e, s)
      PROVE  execution[e] = "ACTIVE" /\ execution' = [execution EXCEPT ![e] = s] /\ s # None
  BY <1>2, EndsAssumption, NoneAssumption DEF EndExecution, ExecutionStates
<1>3. CASE execution' = execution
  BY <1>3
<1>4. CASE execution' # execution
  BY <1>1, <1>2, <1>4, ExecutionChange, NoneAssumption DEF TypeOK, ExecutionStates
<1> QED BY <1>3, <1>4

\* What putDeployment has written is there.
LEMMA PutsOKStep == ASSUME IndInv, [Next]_vars PROVE PutsOK'
<1> SUFFICES ASSUME NEW d \in Deployments
             PROVE  /\ put'[d].pc \in {"app", "create", "stamp"} => put'[d].createdAt = 0
                    /\ put'[d].pc \in {"app", "create", "stamp", "set"} => ~Exists(d)'
                    /\ put'[d].pc \in {"execute", "record", "done"} => Exists(d)'
                    /\ put'[d].pc \in {"stamp", "set"} \/ Exists(d)' => app' # None
                    /\ put'[d].pc \in {"app", "create", "stamp", "set", "execute"} => execution'[d] = None
                    /\ put'[d].pc \in {"record", "done"} => execution'[d] # None
                    /\ Exists(d)' => 0 < CreatedAt(d)' /\ CreatedAt(d)' = put'[d].createdAt
                    /\ Exists(d)' /\ deployment'[d].execution => execution'[d] # None
                    /\ put'[d].createdAt <= now'
                    /\ put'[d].pc = "set" => 0 < put'[d].createdAt
  BY DEF PutsOK
<1> USE DEF IndInv
<1>1. CASE put' = put
  <2>1. Exists(d)' => Exists(d)
    BY <1>1, NewDocument DEF SetDeployment, TypeOK, Puts
  <2>2. Exists(d)' => CreatedAt(d)' = CreatedAt(d)
    BY <2>1, Monotone
  <2>3. Exists(d) => Exists(d)'
    BY Monotone
  <2>4. Exists(d)' /\ deployment'[d].execution => execution'[d] # None
    <3>1. CASE Exists(d) /\ Exists(d)' /\ deployment'[d].execution
      <4>1. Recorded(d) \/ deployment[d].execution
        <5>1. CASE Appears(d)
          BY <3>1, <5>1 DEF Appears, PutsOK
        <5>2. CASE Kept(d)
          BY <3>1, <5>2 DEF Kept
        <5>3. CASE Ended(d) \/ Placed(d)
          <6>1. deployment'[d].execution = deployment[d].execution
            BY <5>3 DEF Ended, Placed, InNewState
          <6> QED BY <3>1, <6>1
        <5> QED BY <5>1, <5>2, <5>3, Docs
      <4> QED BY <3>1, <4>1, ExecutionStays DEF Recorded, PutsOK
    <3> QED BY <2>1, <3>1
  <2>5. now' = now
    BY <1>1, NowChange DEF Stamp, TypeOK, Puts
  <2>6. execution[d] = None => execution'[d] = None
    <3>1. ASSUME NEW e \in Deployments, CreateExecution(e) PROVE FALSE
      BY <1>1, <3>1 DEF CreateExecution, TypeOK, Puts
    <3>2. ASSUME NEW e \in Deployments, NEW s \in Ends, EndExecution(e, s), execution[d] = None
          PROVE  execution'[d] = None
      BY <3>2, NoneAssumption DEF EndExecution, TypeOK, ExecutionStates
    <3> QED BY <3>1, <3>2, ExecutionChange
  <2> QED BY <1>1, <2>1, <2>2, <2>3, <2>4, <2>5, <2>6, AppStays, ExecutionStays DEF PutsOK
<1>2. ASSUME NEW e \in Deployments, PutDeployment(e) \/ CrashPut(e), e # d
      PROVE  /\ put'[d] = put[d] /\ deployment'[d] = deployment[d]
             /\ execution'[d] = execution[d] /\ now' \in Nat /\ now <= now'
  BY <1>2 DEF PutDeployment, CrashPut, GetApp, SetApp, Stamp, SetDeployment, CreateExecution, RecordExecution,
     TypeOK, ghosts
<1>3. CASE \E e \in Deployments : e # d /\ (PutDeployment(e) \/ CrashPut(e))
  <2>1. put[d].createdAt \in Nat /\ now \in Nat
    BY DEF TypeOK, Puts
  <2> QED BY <1>2, <1>3, <2>1, AppStays DEF PutsOK, Exists, CreatedAt
<1>4. CASE GetApp(d) \/ SetApp(d)
  BY <1>4, AppStays, NoneAssumption DEF GetApp, SetApp, TypeOK, Puts, Apps, AppStates, ghosts, PutsOK, Exists, CreatedAt
<1>5. CASE Stamp(d)
  BY <1>5 DEF Stamp, TypeOK, Puts, ghosts, PutsOK, Exists, CreatedAt
<1>6. CASE SetDeployment(d)
  <2>1. [state |-> "PENDING", createdAt |-> put[d].createdAt, execution |-> FALSE] # None
    <3>1. [state |-> "PENDING", createdAt |-> put[d].createdAt, execution |-> FALSE]
             \in DeploymentDocs
      BY DEF TypeOK, Puts, DeploymentDocs, RunningStates
    <3> QED BY <3>1, NoneAssumption
  <2> QED BY <1>6, <2>1 DEF SetDeployment, TypeOK, Puts, PutsOK, Exists, CreatedAt
<1>7. CASE CreateExecution(d)
  BY <1>7, NoneAssumption DEF CreateExecution, TypeOK, Puts, ghosts, PutsOK, Exists, CreatedAt, ExecutionStates
<1>8. CASE RecordExecution(d)
  BY <1>8, Monotone DEF RecordExecution, TypeOK, Puts, ghosts, PutsOK, Exists, CreatedAt
<1>9. CASE CrashPut(d)
  BY <1>9 DEF CrashPut, TypeOK, Puts, ghosts, PutsOK, Exists, CreatedAt
<1> QED BY <1>1, <1>3, <1>4, <1>5, <1>6, <1>7, <1>8, <1>9, PutChange DEF PutDeployment

\* A new timestamp is that of no other deployment.
LEMMA StampsDifferStep == ASSUME IndInv, [Next]_vars PROVE StampsDiffer'
<1> USE DEF IndInv
<1>1. CASE put' = put
  BY <1>1 DEF StampsDiffer
<1>2. ASSUME NEW c \in Deployments, Stamp(c) PROVE StampsDiffer'
  BY <1>2 DEF Stamp, StampsDiffer, PutsOK, TypeOK, Puts
<1>3. ASSUME NEW c \in Deployments,
             \/ GetApp(c) \/ SetApp(c) \/ SetDeployment(c) \/ CreateExecution(c)
             \/ RecordExecution(c) \/ CrashPut(c)
      PROVE  StampsDiffer'
  <2>1. \A d \in Deployments : put'[d].createdAt = put[d].createdAt
    BY <1>3 DEF GetApp, SetApp, SetDeployment, CreateExecution, RecordExecution, CrashPut, TypeOK, Puts
  <2> QED BY <2>1 DEF StampsDiffer
<1> QED BY <1>1, <1>2, <1>3, PutChange DEF PutDeployment

-----------------------------------------------------------------------------
(* The outcomes *)

\* Only the end of its execution gives a deployment an outcome...
LEMMA OutcomesStep == ASSUME IndInv, [Next]_vars PROVE OutcomesTrue'
<1> SUFFICES ASSUME NEW d \in Deployments, Is(d, {"DEPLOYED", "FAILED", "CANCELLED"})'
             PROVE  /\ execution'[d] \notin {None, "ACTIVE"}
                    /\ deployment'[d].state = Outcome(execution'[d])
  BY DEF OutcomesTrue, Outcome
<1> USE DEF IndInv
<1>1. CASE Kept(d)
  BY <1>1, ExecutionStays DEF Kept, OutcomesTrue, Is, Exists
<1>2. CASE Appears(d)
  BY <1>2 DEF Appears, Is
<1>3. CASE Recorded(d)
  BY <1>3, ExecutionStays DEF Recorded, OutcomesTrue, PutsOK, Is, Exists
<1>4. CASE Ended(d)
  BY <1>4, ExecutionStays DEF Ended, InNewState
<1>5. CASE Placed(d)
  BY <1>5 DEF Placed, InNewState, Is
<1> QED BY <1>1, <1>2, <1>3, <1>4, <1>5, Docs

\* ... and the outcome never changes, since that end does not.
LEMMA OutcomeFinal ==
    ASSUME IndInv, [Next]_vars, NEW d \in Deployments,
           Is(d, {"DEPLOYED", "FAILED", "CANCELLED"})
    PROVE  deployment'[d].state = deployment[d].state
<1> USE DEF IndInv
<1>1. CASE Kept(d) \/ Recorded(d)
  BY <1>1 DEF Kept, Recorded
<1>2. CASE Appears(d)
  BY <1>2 DEF Appears, PutsOK, Is
<1>3. CASE Ended(d)
  BY <1>3 DEF Ended, InNewState, OutcomesTrue
<1>4. CASE Placed(d)
  BY <1>4 DEF Placed, Is
<1> QED BY <1>1, <1>2, <1>3, <1>4, Docs

\* What has been listed keeps its execution, what is to be written has ended.
LEMMA ListedStep == ASSUME IndInv, [Next]_vars PROVE ListedOK'
<1> SUFFICES ASSUME NEW p \in Pollers, NEW d \in poll'[p].listed
             PROVE  /\ Exists(d)' /\ deployment'[d].execution
                    /\ poll'[p].pc = "write" => execution'[d] # "ACTIVE"
  BY DEF ListedOK
<1> USE DEF IndInv
<1>1. ASSUME d \in poll[p].listed, poll'[p].pc = "write" => poll[p].pc = "write" \/ execution[d] # "ACTIVE"
      PROVE  /\ Exists(d)' /\ deployment'[d].execution
             /\ poll'[p].pc = "write" => execution'[d] # "ACTIVE"
  BY <1>1, Monotone, ExecutionStays DEF ListedOK, PutsOK, TypeOK, Polls
<1>2. CASE poll'[p] = poll[p]
  BY <1>1, <1>2
<1>3. ASSUME NEW t \in Deployments \cup {None}, List(p, t)
      PROVE  /\ Exists(d)' /\ deployment'[d].execution
             /\ poll'[p].pc = "write" => execution'[d] # "ACTIVE"
  BY <1>3 DEF List, Polling, InState, Exists, TypeOK
<1>4. CASE Fetch(p)
  BY <1>1, <1>4 DEF Fetch, Polling, TypeOK
<1>5. ASSUME NEW c \in Deployments, Write(p, c)
      PROVE  d \in poll[p].listed /\ poll[p].pc = "write"
  BY <1>5 DEF Write, Polling, TypeOK
<1>6. CASE \/ ReadApp(p) \/ CommitApp(p) \/ RetryApp(p) \/ ReadPending(p)
           \/ CommitPending(p) \/ RetryPending(p) \/ CrashPoll(p)
  <2>1. poll'[p].listed = {}
    BY <1>6 DEF ReadApp, CommitApp, RetryApp, ReadPending, CommitPending, RetryPending, CrashPoll, AfterApp,
       NoPoll, Polling, Holding, TypeOK
  <2> QED BY <2>1
<1>7. CASE QueryFirst(p) \/ QueryLast(p)
  <2>1. poll'[p].listed = poll[p].listed /\ poll'[p].pc = poll[p].pc
    BY <1>7 DEF QueryFirst, QueryLast, TypeOK, Polls
  <2> QED BY <1>1, <2>1
<1> QED BY <1>1, <1>2, <1>3, <1>4, <1>5, <1>6, <1>7, PollChange DEF Poll

-----------------------------------------------------------------------------
(* The app *)

\* A transaction on the app has seen a deployment that has ended.
LEMMA AppOKStep == ASSUME IndInv, [Next]_vars PROVE AppOK'
<1> USE DEF IndInv
<1>1. app' # None /\ app'.deploying # None => Exists(app.deploying)'
  <2>1. ASSUME app # None, app.deploying # None, NEW d, d = app.deploying
        PROVE  d \in Deployments /\ Exists(d) /\ deployment'[d] # None
    <3>1. d \in Deployments /\ Exists(d)
      BY <2>1 DEF AppOK, TypeOK, Apps
    <3> QED BY <3>1, Monotone DEF Exists
  <2>2. CASE app' = app
    BY <2>1, <2>2 DEF Exists
  <2>3. ASSUME NEW d \in Deployments, SetApp(d)
        PROVE  app'.deploying = None
    BY <2>3 DEF SetApp
  <2>4. ASSUME NEW p \in Pollers, CommitApp(p)
        PROVE  app'.deploying = None \/ (app # None /\ app'.deploying = app.deploying)
    BY <2>4 DEF CommitApp, AppUnchanged, AppOK
  <2>5. ASSUME NEW p \in Pollers, CommitPending(p)
        PROVE  app' = app \/ (deployment'[app'.deploying] # None)
    <3> DEFINE d == poll[p].target
    <3>1. d \in Deployments /\ Exists(d)
      BY <2>5 DEF CommitPending, TargetsOK, PlacesStand, TypeOK, Polls
    <3>2. deployment'[d] # None
      BY <3>1, Monotone DEF Exists
    <3> QED BY <2>5, <3>2 DEF CommitPending
  <2> QED BY <2>1, <2>2, <2>3, <2>4, <2>5, AppChange DEF Exists
<1>2. ASSUME NEW p \in Pollers, poll'[p].pc = "commitApp", NEW d, d = poll'[p].seenApp.deploying
      PROVE  /\ poll'[p].seenApp # None /\ d # None
             /\ poll'[p].seen # None /\ poll'[p].seen.state \in EndStates
             /\ Is(d, EndStates)'
  <2>1. CASE poll'[p] = poll[p]
    <3>1. poll[p].seenApp \in Apps
      BY <1>2, <2>1 DEF AppOK, TypeOK, Polls
    <3>2. d \in Deployments
      BY <1>2, <2>1, <3>1 DEF AppOK, Apps
    <3>3. Is(d, EndStates) /\ Exists(d)
      BY <1>2, <2>1 DEF AppOK, Is
    <3>4. Is(d, EndStates)'
      BY <3>2, <3>3, Monotone
    <3> QED BY <1>2, <2>1, <3>4 DEF AppOK
  <2>2. CASE ReadApp(p)
    <3>1. /\ app # None /\ app.deploying # None /\ deployment[app.deploying].state \in EndStates
          /\ poll'[p] = Holding("commitApp", poll[p].target, app, deployment[app.deploying])
      BY <1>2, <2>2 DEF ReadApp, AfterApp, NoPoll, Polling, TypeOK
    <3>2. d = app.deploying
      BY <1>2, <3>1 DEF Holding
    <3>3. poll'[p].seenApp = app /\ poll'[p].seen = deployment[d]
      BY <3>1, <3>2 DEF Holding
    <3>4. d \in Deployments /\ Exists(d) /\ deployment[d].state \in EndStates
      BY <3>1, <3>2 DEF AppOK, TypeOK, Apps
    <3>5. Is(d, EndStates)'
      BY <3>4, Monotone DEF Is
    <3> QED BY <3>1, <3>2, <3>3, <3>4, <3>5 DEF Exists
  <2>3. CASE (\E t \in Deployments \cup {None} : List(p, t)) \/ Fetch(p) \/ (\E c \in Deployments : Write(p, c))
              \/ CommitApp(p) \/ RetryApp(p) \/ ReadPending(p) \/ CommitPending(p) \/ RetryPending(p) \/ CrashPoll(p)
    BY <1>2, <2>3 DEF List, Fetch, Write, CommitApp, RetryApp, ReadPending, CommitPending, RetryPending, CrashPoll,
       AfterApp, NoPoll, Polling, Holding, TypeOK
  <2>4. CASE QueryFirst(p) \/ QueryLast(p)
    BY <1>2, <2>4 DEF QueryFirst, QueryLast, TypeOK, Polls
  <2> QED BY <2>1, <2>2, <2>3, <2>4, PollChange DEF Poll
<1> QED BY <1>1, <1>2 DEF AppOK, Exists, Is

-----------------------------------------------------------------------------
(* The queue *)

\* A poll of getApp goes no further than the app.
LEMMA TargetsStep == ASSUME IndInv, [Next]_vars PROVE TargetsOK'
<1> SUFFICES ASSUME NEW p \in Pollers, poll'[p].pc \in {"check", "commit"}
             PROVE  poll'[p].target # None
  BY DEF TargetsOK
<1> USE DEF IndInv
<1>1. CASE poll'[p] = poll[p]
  BY <1>1 DEF TargetsOK
<1>2. CASE (\E t \in Deployments \cup {None} : List(p, t)) \/ Fetch(p) \/ (\E d \in Deployments : Write(p, d))
            \/ RetryApp(p) \/ CommitPending(p) \/ CrashPoll(p)
  BY <1>2 DEF List, Fetch, Write, RetryApp, CommitPending, CrashPoll, NoPoll, Polling, TypeOK
<1>3. CASE ReadApp(p) \/ CommitApp(p)
  BY <1>3 DEF ReadApp, CommitApp, AfterApp, NoPoll, Polling, Holding, TypeOK
<1>4. CASE ReadPending(p) \/ RetryPending(p)
  BY <1>4 DEF ReadPending, RetryPending, NoPoll, Polling, Holding, TypeOK, TargetsOK
<1>5. CASE QueryFirst(p) \/ QueryLast(p)
  BY <1>5 DEF QueryFirst, QueryLast, TypeOK, Polls, TargetsOK
<1> QED BY <1>1, <1>2, <1>3, <1>4, <1>5, PollChange DEF Poll

\* What a query answers is true when it is asked.
LEMMA FirstAsked ==
    ASSUME TypeOK, PutsOK, StampsDiffer, NEW d \in Deployments, Exists(d), IsFirst(d)
    PROVE  \A e \in Deployments : Is(e, RunningStates) => e = d \/ Behind(e, d)
<1> SUFFICES ASSUME NEW e \in Deployments, Is(e, RunningStates), e # d
             PROVE  CreatedAt(d) < CreatedAt(e)
  BY DEF Behind
<1>1. CreatedAt(d) <= CreatedAt(e)
  BY DEF IsFirst, InState, Is, Exists, CreatedAt
<1>2. CreatedAt(d) \in Nat /\ CreatedAt(e) \in Nat /\ CreatedAt(d) # CreatedAt(e)
  BY DEF TypeOK, DeploymentDocs, PutsOK, StampsDiffer, CreatedAt, Is, Exists
<1> QED BY <1>1, <1>2

\* A deployment that is not the last has a more recent one behind it.
LEMMA LastAsked ==
    ASSUME TypeOK, NEW d \in Deployments, Is(d, {"PENDING"}), ~IsLast(d)
    PROVE  \E e \in Deployments : Exists(e) /\ CreatedAt(d) < CreatedAt(e)
<1>1. PICK e \in InState({"PENDING"}) : ~(deployment[d].createdAt >= deployment[e].createdAt)
  BY DEF IsLast, InState, Is, Exists
<1>2. e \in Deployments /\ Exists(e)
  BY DEF InState, Exists
<1>3. CreatedAt(d) \in Nat /\ CreatedAt(e) \in Nat
  BY <1>2 DEF TypeOK, DeploymentDocs, CreatedAt, Is, Exists
<1> QED BY <1>1, <1>2, <1>3 DEF CreatedAt

\* What is not the last does not become so.
LEMMA NewerStays ==
    ASSUME IndInv, [Next]_vars, NEW d \in Deployments, Exists(d),
           \E e \in Deployments : Exists(e) /\ CreatedAt(d) < CreatedAt(e)
    PROVE  \E e \in Deployments : Exists(e)' /\ CreatedAt(d)' < CreatedAt(e)'
  BY Monotone DEF IndInv

\* The answers of the queries outlive the steps of the others.
LEMMA PlacesStep == ASSUME IndInv, [Next]_vars PROVE PlacesStand'
<1> SUFFICES ASSUME NEW p \in Pollers, poll'[p].pc = "commit", NEW d, d = poll'[p].target
             PROVE  /\ poll'[p].seen # None /\ poll'[p].seen.state = "PENDING"
                    /\ Exists(d)'
                    /\ Is(d, {"PENDING"})' /\ poll'[p].first = TRUE =>
                          \A e \in Deployments : Is(e, RunningStates)' => e = d \/ Behind(e, d)'
                    /\ Is(d, {"PENDING"})' /\ poll'[p].last = FALSE =>
                          \E e \in Deployments : Exists(e)' /\ CreatedAt(d)' < CreatedAt(e)'
  BY DEF PlacesStand, Is, Exists, Behind, CreatedAt
<1> USE DEF IndInv
<1>1. d \in Deployments
  BY TargetsStep, TypeStep DEF TargetsOK, TypeOK, Polls
<1>2. ASSUME poll[p].pc = "commit", poll[p].target = d, poll'[p].seen = poll[p].seen
      PROVE  /\ poll'[p].seen # None /\ poll'[p].seen.state = "PENDING"
             /\ Exists(d) /\ Exists(d)'
             /\ Is(d, {"PENDING"})' /\ poll[p].first = TRUE =>
                   \A e \in Deployments : Is(e, RunningStates)' => e = d \/ Behind(e, d)'
             /\ Is(d, {"PENDING"})' /\ poll[p].last = FALSE =>
                   \E e \in Deployments : Exists(e)' /\ CreatedAt(d)' < CreatedAt(e)'
  BY <1>1, <1>2, Monotone, BehindStays, NewerStays DEF PlacesStand
<1>3. CASE poll'[p] = poll[p]
  BY <1>2, <1>3
<1>4. CASE ReadPending(p)
  <2>1. /\ poll'[p] = Holding("commit", d, None, deployment[d])
        /\ deployment[d] # None /\ deployment[d].state = "PENDING"
        /\ deployment' = deployment
    BY <1>4 DEF ReadPending, NoPoll, Polling, Holding, TypeOK, ghosts
  <2>2. poll'[p].seen = deployment[d] /\ poll'[p].first = None /\ poll'[p].last = None
    BY <2>1 DEF Holding
  <2>3. None # TRUE /\ None # FALSE
    BY NoneAssumption
  <2> QED BY <2>1, <2>2, <2>3 DEF Exists
<1>5. CASE QueryFirst(p)
  <2>1. /\ poll[p].pc = "commit" /\ poll[p].target = d /\ poll'[p].seen = poll[p].seen
        /\ poll'[p].last = poll[p].last /\ poll'[p].first = IsFirst(d)
    BY <1>5 DEF QueryFirst, TypeOK, Polls
  <2>2. ASSUME IsFirst(d)
        PROVE  \A e \in Deployments : Is(e, RunningStates)' => e = d \/ Behind(e, d)'
    BY <1>1, <1>2, <2>1, <2>2, FirstAsked, BehindStays
  <2> QED BY <1>2, <2>1, <2>2
<1>6. CASE QueryLast(p)
  <2>1. /\ poll[p].pc = "commit" /\ poll[p].target = d /\ poll'[p].seen = poll[p].seen
        /\ poll'[p].first = poll[p].first /\ poll'[p].last = IsLast(d)
    BY <1>6 DEF QueryLast, TypeOK, Polls
  <2>2. ASSUME ~IsLast(d), Is(d, {"PENDING"})'
        PROVE  \E e \in Deployments : Exists(e)' /\ CreatedAt(d)' < CreatedAt(e)'
    BY <1>1, <1>2, <2>1, <2>2, Monotone, LastAsked, NewerStays
  <2> QED BY <1>2, <2>1, <2>2
<1>7. CASE (\E t \in Deployments \cup {None} : List(p, t)) \/ Fetch(p) \/ (\E c \in Deployments : Write(p, c))
            \/ ReadApp(p) \/ CommitApp(p) \/ RetryApp(p) \/ CommitPending(p) \/ RetryPending(p) \/ CrashPoll(p)
  BY <1>7 DEF List, Fetch, Write, ReadApp, CommitApp, RetryApp, CommitPending, RetryPending, CrashPoll, AfterApp,
     NoPoll, Polling, Holding, TypeOK
<1> QED BY <1>3, <1>4, <1>5, <1>6, <1>7, PollChange DEF Poll

\* Only a transaction that was told its deployment is first deploys it.
LEMMA NewDeploying ==
    ASSUME IndInv, [Next]_vars, NEW d \in Deployments,
           ~Is(d, {"DEPLOYING"}), Is(d, {"DEPLOYING"})'
    PROVE  \E p \in Pollers : /\ CommitPending(p) /\ poll[p].target = d
                              /\ Is(d, {"PENDING"}) /\ poll[p].first = TRUE
<1> USE DEF IndInv
<1>1. deployment'[d] # deployment[d]
  BY DEF Is, Exists
<1>2. ASSUME NEW e \in Deployments, SetDeployment(e) PROVE FALSE
  BY <1>1, <1>2 DEF SetDeployment, TypeOK, Is
<1>3. ASSUME NEW e \in Deployments, RecordExecution(e) PROVE FALSE
  BY <1>1, <1>3 DEF RecordExecution, TypeOK, PutsOK, Is
<1>4. ASSUME NEW p \in Pollers, NEW e \in Deployments, Write(p, e) PROVE FALSE
  <2>1. e = d /\ deployment'[d].state = Outcome(execution[d])
    BY <1>1, <1>4 DEF Write, InNewState, TypeOK
  <2>2. Outcome(execution[d]) \in {"DEPLOYED", "FAILED", "CANCELLED"}
    BY <1>4, <2>1, OutcomeEnds DEF Write, ListedOK, PutsOK, TypeOK
  <2> QED BY <2>1, <2>2 DEF Is
<1>5. PICK p \in Pollers : CommitPending(p)
  BY <1>1, <1>2, <1>3, <1>4, DocsChange
<1>6. poll[p].target = d /\ deployment'[d].state = Decided(p)
  BY <1>1, <1>5 DEF CommitPending, InNewState, TypeOK
<1>7. Is(d, {"PENDING"})
  BY <1>5, <1>6 DEF CommitPending, PendingUnchanged, PlacesStand, Is, Exists
<1>8. poll[p].first \in BOOLEAN
  BY <1>5 DEF CommitPending, Answered, TypeOK, Polls
<1>9. Decided(p) = "DEPLOYING"
  BY <1>6 DEF Is
<1>10. poll[p].first = TRUE
  BY <1>8, <1>9 DEF Decided
<1> QED BY <1>5, <1>6, <1>7, <1>10

\* What is deployed was first, and what it had behind stays behind.
LEMMA DeployingFirstStep == ASSUME IndInv, [Next]_vars PROVE DeployingFirst'
<1> SUFFICES ASSUME NEW d \in Deployments, Is(d, {"DEPLOYING"})'
             PROVE  \A e \in Deployments : Is(e, RunningStates)' => e = d \/ Behind(e, d)'
  BY DEF DeployingFirst, Is, Exists, Behind, CreatedAt
<1>1. Exists(d) /\ \A e \in Deployments : Is(e, RunningStates) => e = d \/ Behind(e, d)
  <2>1. CASE Is(d, {"DEPLOYING"})
    BY <2>1 DEF DeployingFirst, Is, IndInv
  <2>2. CASE ~Is(d, {"DEPLOYING"})
    <3>1. PICK p \in Pollers : /\ CommitPending(p) /\ poll[p].target = d
                               /\ Is(d, {"PENDING"}) /\ poll[p].first = TRUE
      BY <2>2, NewDeploying
    <3> QED BY <3>1 DEF CommitPending, PlacesStand, IndInv
  <2> QED BY <2>1, <2>2
<1> QED BY <1>1, BehindStays

\* The deployment of the app was PENDING only before it was its deployment.
LEMMA NeverSkippedStep == ASSUME IndInv, [Next]_vars PROVE DeployingNeverSkipped'
<1> SUFFICES ASSUME app' # None, app'.deploying # None, NEW d, d = app'.deploying
             PROVE  deployment'[d].state \notin {"PENDING", "SKIPPED"}
  BY DEF DeployingNeverSkipped
<1> USE DEF IndInv
<1>1. ASSUME app # None, app.deploying = d
      PROVE  deployment'[d].state \notin {"PENDING", "SKIPPED"}
  <2>1. d \in Deployments /\ Exists(d)
    BY <1>1 DEF AppOK, TypeOK, Apps
  <2>2. deployment[d].state \notin {"PENDING", "SKIPPED"}
    BY <1>1 DEF DeployingNeverSkipped
  <2>3. CASE Kept(d) \/ Recorded(d)
    BY <2>2, <2>3 DEF Kept, Recorded
  <2>4. CASE Appears(d)
    BY <2>1, <2>4 DEF Appears, PutsOK
  <2>5. CASE Ended(d)
    <3>1. Outcome(execution[d]) \in {"DEPLOYED", "FAILED", "CANCELLED"}
      BY <2>1, <2>5, OutcomeEnds DEF Ended, TypeOK
    <3> QED BY <2>5, <3>1 DEF Ended, InNewState
  <2>6. CASE Placed(d)
    BY <2>2, <2>6 DEF Placed, Is
  <2> QED BY <2>1, <2>3, <2>4, <2>5, <2>6, Docs
<1>2. CASE app' = app
  BY <1>1, <1>2
<1>3. ASSUME NEW c \in Deployments, SetApp(c) PROVE FALSE
  BY <1>3 DEF SetApp
<1>4. ASSUME NEW p \in Pollers, CommitApp(p) PROVE app # None /\ app.deploying = d
  BY <1>4 DEF CommitApp, AppUnchanged, AppOK
<1>5. ASSUME NEW p \in Pollers, CommitPending(p), app' # app
      PROVE  deployment'[d].state = "DEPLOYING"
  <2>1. d = poll[p].target /\ d \in Deployments /\ poll[p].first
    BY <1>5 DEF CommitPending, TargetsOK, TypeOK, Polls
  <2>2. Decided(p) = "DEPLOYING"
    BY <2>1 DEF Decided
  <2>3. deployment'[d] = InNewState(d, Decided(p))
    BY <1>5, <2>1 DEF CommitPending, TypeOK
  <2> QED BY <2>2, <2>3 DEF InNewState
<1> QED BY <1>1, <1>2, <1>3, <1>4, <1>5, AppChange

\* What is skipped was not the last.
LEMMA SkippedForNewerStep == ASSUME IndInv, [Next]_vars PROVE SkippedForNewer'
<1> SUFFICES ASSUME NEW d \in Deployments, Is(d, {"SKIPPED"})'
             PROVE  \E e \in Deployments : Exists(e)' /\ CreatedAt(d)' < CreatedAt(e)'
  <2>1. ASSUME NEW d \in Deployments, NEW e \in Deployments, Is(d, {"SKIPPED"})', Exists(e)'
        PROVE  CreatedAt(d)' \in Nat /\ CreatedAt(e)' \in Nat
    BY <2>1, TypeStep DEF TypeOK, DeploymentDocs, CreatedAt, Is, Exists
  <2> QED BY <2>1 DEF SkippedForNewer, InState, Is, Exists, CreatedAt
<1> USE DEF IndInv
<1>1. CASE Is(d, {"SKIPPED"})
  <2>1. PICK e \in Deployments : Exists(e) /\ deployment[e].createdAt > deployment[d].createdAt
    BY <1>1 DEF SkippedForNewer, InState, Is, Exists
  <2>2. CreatedAt(d) \in Nat /\ CreatedAt(e) \in Nat
    BY <1>1, <2>1 DEF TypeOK, DeploymentDocs, CreatedAt, Is, Exists
  <2>3. Exists(d) /\ CreatedAt(d) < CreatedAt(e)
    BY <1>1, <2>1, <2>2 DEF CreatedAt, Is
  <2> QED BY <2>1, <2>3, NewerStays
<1>2. CASE Kept(d) \/ Recorded(d)
  <2>1. CASE Exists(d)
    <3>1. Is(d, {"SKIPPED"})
      BY <1>2, <2>1 DEF Kept, Recorded, Is
    <3> QED BY <1>1, <3>1
  <2>2. CASE ~Exists(d)
    BY <1>2, <2>2 DEF Kept, Recorded, PutsOK, Is, Exists
  <2> QED BY <2>1, <2>2
<1>3. CASE Appears(d)
  BY <1>3 DEF Appears, Is
<1>4. CASE Ended(d)
  <2>1. Outcome(execution[d]) \in {"DEPLOYED", "FAILED", "CANCELLED"}
    BY <1>4, OutcomeEnds DEF Ended, TypeOK
  <2> QED BY <1>4, <2>1 DEF Ended, InNewState, Is
<1>5. ASSUME NEW p \in Pollers, CommitPending(p), deployment'[d] # deployment[d]
      PROVE  \E e \in Deployments : Exists(e)' /\ CreatedAt(d)' < CreatedAt(e)'
  <2>1. poll[p].target = d /\ deployment'[d].state = Decided(p)
    BY <1>5 DEF CommitPending, InNewState, TypeOK
  <2>2. Is(d, {"PENDING"})
    BY <1>5, <2>1 DEF CommitPending, PendingUnchanged, PlacesStand, Is, Exists
  <2>3. poll[p].last \in BOOLEAN
    BY <1>5 DEF CommitPending, Answered, TypeOK, Polls
  <2>4. Decided(p) = "SKIPPED"
    BY <2>1 DEF Is
  <2>5. poll[p].last = FALSE
    BY <2>3, <2>4 DEF Decided
  <2>6. \E e \in Deployments : Exists(e) /\ CreatedAt(d) < CreatedAt(e)
    BY <1>5, <2>1, <2>2, <2>5 DEF CommitPending, PlacesStand
  <2> QED BY <2>2, <2>6, NewerStays DEF Is
<1>6. ASSUME deployment'[d] # deployment[d]
      PROVE  \/ Appears(d) \/ Recorded(d) \/ Ended(d) \/ \E p \in Pollers : CommitPending(p)
  <2>1. ASSUME NEW c \in Deployments, SetDeployment(c) PROVE Appears(d)
    BY <1>6, <2>1 DEF SetDeployment, Appears, TypeOK
  <2>2. ASSUME NEW c \in Deployments, RecordExecution(c) PROVE Recorded(d)
    BY <1>6, <2>2 DEF RecordExecution, Recorded, TypeOK
  <2>3. ASSUME NEW p \in Pollers, NEW c \in Deployments, Write(p, c) PROVE Ended(d)
    BY <1>6, <2>3 DEF Write, Ended, TypeOK, ListedOK, PutsOK, Exists
  <2> QED BY <1>6, <2>1, <2>2, <2>3, DocsChange
<1> QED BY <1>2, <1>3, <1>4, <1>5, <1>6 DEF Kept

\* The app changes its deployment only when none is DEPLOYING.
LEMMA CurrentStep == ASSUME IndInv, [Next]_vars PROVE DeployingIsCurrent'
<1> SUFFICES ASSUME late' = {}, ~overwritten', NEW d \in Deployments, Is(d, {"DEPLOYING"})'
             PROVE  app' # None /\ app'.deploying = d
  BY DEF DeployingIsCurrent, InState, Is, Exists
<1> USE DEF IndInv
<1>1. late = {}
  BY LateStays
<1>2. ~overwritten
  <2>1. CASE overwritten' = overwritten
    BY <2>1
  <2>2. ASSUME NEW c \in Deployments, SetApp(c) PROVE ~overwritten
    BY <2>2 DEF SetApp
  <2> QED BY <2>1, <2>2, OverwrittenChange
<1>3. CASE Is(d, {"DEPLOYING"})
  <2>1. app # None /\ app.deploying = d
    BY <1>1, <1>2, <1>3 DEF DeployingIsCurrent, InState, Is, Exists
  <2>2. ASSUME NEW c \in Deployments, SetApp(c) PROVE FALSE
    BY <2>1, <2>2 DEF SetApp
  <2>3. ASSUME NEW p \in Pollers, CommitApp(p) PROVE FALSE
    BY <1>3, <2>1, <2>3 DEF CommitApp, AppUnchanged, AppOK, Is, EndStates
  <2>4. ASSUME NEW p \in Pollers, CommitPending(p), app' # app PROVE FALSE
    <3> DEFINE e == poll[p].target
    <3>1. e \in Deployments /\ Is(e, {"PENDING"})
      BY <2>4 DEF CommitPending, PendingUnchanged, TargetsOK, PlacesStand, TypeOK, Polls, Is, Exists
    <3>2. poll[p].first = TRUE
      <4>1. poll[p].first \in BOOLEAN
        BY <2>4 DEF CommitPending, Answered, TypeOK, Polls
      <4> QED BY <2>4, <4>1 DEF CommitPending
    <3>3. e # d /\ Is(e, RunningStates) /\ Is(d, RunningStates)
      BY <1>3, <3>1 DEF Is, RunningStates
    <3>4. CreatedAt(d) < CreatedAt(e)
      BY <1>1, <1>3, <3>1, <3>3 DEF DeployingFirst, Behind
    <3>5. CreatedAt(e) < CreatedAt(d)
      BY <1>1, <2>4, <3>1, <3>2, <3>3 DEF CommitPending, PlacesStand, Behind
    <3>6. CreatedAt(d) \in Nat /\ CreatedAt(e) \in Nat
      BY <3>1, <3>3 DEF TypeOK, DeploymentDocs, CreatedAt, Is, Exists
    <3> QED BY <3>4, <3>5, <3>6
  <2> QED BY <2>1, <2>2, <2>3, <2>4, AppChange
<1>4. CASE ~Is(d, {"DEPLOYING"})
  <2>1. PICK p \in Pollers : /\ CommitPending(p) /\ poll[p].target = d
                             /\ Is(d, {"PENDING"}) /\ poll[p].first = TRUE
    BY <1>4, NewDeploying
  <2>2. app' = [state |-> "DEPLOYING", deploying |-> d, architecture |-> app.architecture]
    BY <2>1 DEF CommitPending
  <2>3. app # None
    BY <2>1 DEF PutsOK, Is
  <2>4. app' \in Apps
    BY <2>2, <2>3 DEF Apps, AppStates, TypeOK
  <2> QED BY <2>2, <2>4, NoneAssumption
<1> QED BY <1>3, <1>4

-----------------------------------------------------------------------------
(* What the app shows, and who blocks the polls *)

\* An outcome that has been written stays.
LEMMA OutcomeKept ==
    ASSUME IndInv, [Next]_vars, NEW d \in Deployments,
           NEW o \in {"DEPLOYED", "FAILED", "CANCELLED"}, Is(d, {o})
    PROVE  Is(d, {o})'
<1>1. deployment'[d].state = o
  BY OutcomeFinal DEF Is
<1>2. Exists(d)'
  BY Monotone DEF IndInv, Is
<1> QED BY <1>1, <1>2 DEF Is

\* The deployment a transaction on the app has seen keeps its outcome.
LEMMA SeenTrueStep == ASSUME IndInv, [Next]_vars PROVE SeenTrue'
<1> SUFFICES ASSUME NEW p \in Pollers, poll'[p].pc = "commitApp",
                    NEW d, d = poll'[p].seenApp.deploying, NEW o, o = poll'[p].seen.state
             PROVE  Is(d, {o} \ {"SKIPPED"})'
  BY DEF SeenTrue, Is, Exists
<1> USE DEF IndInv
<1>1. CASE poll'[p] = poll[p]
  <2>1. poll[p].seenApp \in Apps /\ d # None /\ Is(d, {o} \ {"SKIPPED"}) /\ o \in EndStates
    BY <1>1 DEF AppOK, SeenTrue, TypeOK, Polls
  <2>2. d \in Deployments
    BY <1>1, <2>1 DEF Apps
  <2>3. o \in {"DEPLOYED", "FAILED", "CANCELLED"}
    BY <2>1 DEF EndStates, Is
  <2>4. Is(d, {o})'
    BY <2>1, <2>2, <2>3, OutcomeKept DEF Is
  <2> QED BY <2>3, <2>4 DEF Is
<1>2. CASE ReadApp(p)
  <2>1. /\ app # None /\ app.deploying # None /\ deployment[app.deploying].state \in EndStates
        /\ poll'[p] = Holding("commitApp", poll[p].target, app, deployment[app.deploying])
        /\ deployment' = deployment
    BY <1>2 DEF ReadApp, AfterApp, NoPoll, Polling, TypeOK
  <2>2. d = app.deploying /\ o = deployment[d].state
    BY <2>1 DEF Holding
  <2>3. Exists(d) /\ o # "SKIPPED"
    BY <2>1, <2>2 DEF AppOK, DeployingNeverSkipped
  <2> QED BY <2>1, <2>2, <2>3 DEF Is, Exists
<1>3. CASE (\E t \in Deployments \cup {None} : List(p, t)) \/ Fetch(p) \/ (\E c \in Deployments : Write(p, c))
            \/ CommitApp(p) \/ RetryApp(p) \/ ReadPending(p) \/ CommitPending(p) \/ RetryPending(p) \/ CrashPoll(p)
  BY <1>3 DEF List, Fetch, Write, CommitApp, RetryApp, ReadPending, CommitPending, RetryPending, CrashPoll,
     AfterApp, NoPoll, Polling, Holding, TypeOK
<1>4. CASE QueryFirst(p) \/ QueryLast(p)
  BY <1>4 DEF QueryFirst, QueryLast, TypeOK, Polls, AppOK
<1> QED BY <1>1, <1>2, <1>3, <1>4, PollChange DEF Poll

\* A transaction on the app has seen one of three outcomes of its deployment,
\* and it is there.
LEMMA CommitAppSees ==
    ASSUME IndInv, NEW p \in Pollers, CommitApp(p)
    PROVE  /\ app # None /\ app = poll[p].seenApp
           /\ app.deploying \in Deployments
           /\ poll[p].seen.state \in {"DEPLOYED", "FAILED", "CANCELLED"}
           /\ Is(app.deploying, {poll[p].seen.state})
<1> USE DEF IndInv
<1>1. app = poll[p].seenApp /\ app # None /\ app.deploying # None
  BY DEF CommitApp, AppUnchanged, AppOK
<1>2. app.deploying \in Deployments
  BY <1>1 DEF TypeOK, Apps
<1>3. Is(app.deploying, {poll[p].seen.state} \ {"SKIPPED"}) /\ poll[p].seen.state \in EndStates
  BY <1>1 DEF CommitApp, SeenTrue, AppOK
<1> QED BY <1>1, <1>2, <1>3 DEF Is, EndStates

\* What the app shows of a deployment that has ended stays true.
LEMMA TellsStays ==
    ASSUME IndInv, [Next]_vars, NEW a \in Apps, Tells(a)
    PROVE  Tells(a)'
<1>1. a.architecture # None => Is(a.architecture, {"DEPLOYED"})'
  <2> SUFFICES ASSUME a.architecture # None PROVE Is(a.architecture, {"DEPLOYED"})'
    OBVIOUS
  <2>1. a.architecture \in Deployments /\ Is(a.architecture, {"DEPLOYED"})
    BY DEF Tells, Apps
  <2> QED BY <2>1, OutcomeKept
<1>2. a.state \in {"FAILED", "CANCELLED"} => Is(a.deploying, {a.state})'
  <2> SUFFICES ASSUME a.state \in {"FAILED", "CANCELLED"} PROVE Is(a.deploying, {a.state})'
    OBVIOUS
  <2>1. a.deploying \in Deployments /\ Is(a.deploying, {a.state})
    BY DEF Tells, Apps
  <2> QED BY <2>1, OutcomeKept
<1> QED BY <1>1, <1>2 DEF Tells

\* What the app shows is written with the outcome that it shows.
LEMMA AppTellsStep == ASSUME IndInv, [Next]_vars PROVE AppTellsOutcome'
<1> SUFFICES ASSUME NEW a, a = app', a # None PROVE Tells(a)'
  BY DEF AppTellsOutcome, Tells, Is, Exists
<1> USE DEF IndInv
<1>1. ASSUME app # None, NEW b, b = app PROVE b \in Apps /\ Tells(b) /\ Tells(b)'
  <2>1. b \in Apps /\ Tells(b)
    BY <1>1 DEF AppTellsOutcome, TypeOK
  <2> QED BY <2>1, TellsStays
<1>2. CASE app' = app
  BY <1>1, <1>2
<1>3. ASSUME NEW d \in Deployments, SetApp(d) PROVE Tells(a)'
  BY <1>3 DEF SetApp, Tells
<1>4. ASSUME NEW p \in Pollers, CommitApp(p) PROVE Tells(a)'
  <2> SUFFICES ASSUME NEW b, b = app, NEW d, d = b.deploying, NEW o, o = poll[p].seen.state
               PROVE  Tells(a)'
    OBVIOUS
  <2>1. /\ b \in Apps /\ Tells(b)'
        /\ d \in Deployments /\ o \in {"DEPLOYED", "FAILED", "CANCELLED"} /\ Is(d, {o})
    BY <1>1, <1>4, CommitAppSees
  <2>2. Is(d, {o})'
    BY <2>1, OutcomeKept
  <2>3. d # None
    BY <2>1, NoneAssumption
  <2>4. CASE o = "DEPLOYED"
    <3>1. a = [state |-> "DEPLOYED", deploying |-> None, architecture |-> d]
      BY <1>4, <2>4, CommitAppSees DEF CommitApp
    <3> QED BY <2>2, <2>3, <2>4, <3>1 DEF Tells
  <2>5. CASE o # "DEPLOYED"
    <3>1. a = [state |-> o, deploying |-> d, architecture |-> b.architecture]
      BY <1>4, <2>1, <2>5, CommitAppSees DEF CommitApp
    <3> QED BY <2>1, <2>2, <2>3, <2>5, <3>1 DEF Tells
  <2> QED BY <2>4, <2>5
<1>5. ASSUME NEW p \in Pollers, CommitPending(p), app' # app PROVE Tells(a)'
  <2>1. poll[p].target \in Deployments /\ app # None
    BY <1>5 DEF CommitPending, TargetsOK, PlacesStand, PutsOK, TypeOK, Polls
  <2> SUFFICES ASSUME NEW b, b = app, NEW d, d = poll[p].target
               PROVE  Tells(a)'
    OBVIOUS
  <2>2. a = [state |-> "DEPLOYING", deploying |-> d, architecture |-> b.architecture]
    BY <1>5 DEF CommitPending
  <2>3. b \in Apps /\ Tells(b)' /\ d # None
    BY <1>1, <2>1, NoneAssumption
  <2> QED BY <2>2, <2>3 DEF Tells
<1> QED BY <1>2, <1>3, <1>4, <1>5, AppChange

\* An execution is created for a deployment that is in the queue.
LEMMA ExecutionsQueuedStep == ASSUME IndInv, [Next]_vars PROVE ExecutionsQueued'
<1> SUFFICES ASSUME NEW d \in Deployments, execution'[d] # None PROVE Exists(d)'
  BY DEF ExecutionsQueued
<1> USE DEF IndInv
<1>1. Exists(d) => Exists(d)'
  BY Monotone
<1>2. CASE execution[d] # None
  BY <1>1, <1>2 DEF ExecutionsQueued
<1>3. CASE execution[d] = None
  <2>1. ASSUME NEW e \in Deployments, CreateExecution(e) PROVE e = d /\ put[d].pc = "execute"
    BY <1>3, <2>1 DEF CreateExecution, TypeOK
  <2>2. ASSUME NEW e \in Deployments, NEW s \in Ends, EndExecution(e, s) PROVE FALSE
    BY <1>3, <2>2, NoneAssumption DEF EndExecution, TypeOK, ExecutionStates
  <2> QED BY <1>1, <1>3, <2>1, <2>2, ExecutionChange DEF PutsOK
<1> QED BY <1>2, <1>3

\* Only the call that puts a deployment records its execution, as its last step.
LEMMA BlockedStep == ASSUME IndInv, [Next]_vars PROVE BlockedByPut'
<1> SUFFICES ASSUME NEW d \in Deployments, Exists(d)', ~deployment'[d].execution
             PROVE  put'[d].pc \in {"execute", "record", "crashed"}
  BY DEF BlockedByPut
<1> USE DEF IndInv
<1>1. CASE ~Exists(d)
  <2>1. SetDeployment(d)
    BY <1>1, NewDocument
  <2> QED BY <2>1 DEF SetDeployment, TypeOK, Puts
<1>2. CASE Exists(d)
  <2>1. put[d].pc \in {"execute", "record", "crashed"}
    BY <1>2, Monotone DEF BlockedByPut
  <2>2. CASE put' = put
    BY <2>1, <2>2
  <2>3. ASSUME NEW e \in Deployments,
               GetApp(e) \/ SetApp(e) \/ Stamp(e) \/ SetDeployment(e) \/ CreateExecution(e) \/ CrashPut(e)
        PROVE  put'[d].pc \in {"execute", "record", "crashed"}
    BY <2>1, <2>3 DEF GetApp, SetApp, Stamp, SetDeployment, CreateExecution, CrashPut, TypeOK, Puts
  <2>4. ASSUME NEW e \in Deployments, RecordExecution(e)
        PROVE  put'[d].pc \in {"execute", "record", "crashed"}
    <3>1. CASE e = d
      BY <2>4, <3>1 DEF RecordExecution, TypeOK
    <3>2. CASE e # d
      BY <2>1, <2>4, <3>2 DEF RecordExecution, TypeOK, Puts
    <3> QED BY <3>1, <3>2
  <2> QED BY <2>2, <2>3, <2>4, PutChange DEF PutDeployment
<1> QED BY <1>1, <1>2

-----------------------------------------------------------------------------
(* The theorems *)

\* The invariant holds before any call...
LEMMA InitInv == ASSUME Init PROVE IndInv
<1> USE DEF Init
<1>1. TypeOK
  <2>1. NoPoll \in Polls
    BY DEF Polls, NoPoll, Polling
  <2>2. [pc |-> "app", createdAt |-> 0] \in Puts
    BY DEF Puts
  <2>3. \A d \in Deployments : put[d].createdAt = 0
    OBVIOUS
  <2>4. put \in [Deployments -> Puts] /\ poll \in [Pollers -> Polls]
    BY <2>1, <2>2
  <2>5. crashes \in 0 .. MaxCrashes
    BY CrashesAssumption
  <2> QED BY <2>4, <2>5 DEF TypeOK
<1>2. \A p \in Pollers : poll[p].pc = "idle" /\ poll[p].listed = {}
  BY DEF NoPoll, Polling
<1> QED BY <1>1, <1>2 DEF IndInv, PutsOK, StampsDiffer, OutcomesTrue, ListedOK, AppOK, TargetsOK, PlacesStand,
     DeployingFirst, DeployingNeverSkipped, SkippedForNewer, DeployingIsCurrent, SeenTrue, AppTellsOutcome,
     ExecutionsQueued, BlockedByPut, InState, Is, Exists

\* ... and every step preserves it.
LEMMA NextInv == ASSUME IndInv, [Next]_vars PROVE IndInv'
  BY TypeStep, PutsOKStep, StampsDifferStep, OutcomesStep, ListedStep, AppOKStep, TargetsStep, PlacesStep,
     DeployingFirstStep, NeverSkippedStep, SkippedForNewerStep, CurrentStep, SeenTrueStep,
     AppTellsStep, ExecutionsQueuedStep, BlockedStep DEF IndInv

\* The inductive invariant: what a poll or a call of putDeployment has read, and
\* the transaction it is used in does not protect, is still worth using.
THEOREM Invariance == Spec => []IndInv
  BY InitInv, NextInv, PTL DEF Spec

\* Every document keeps its shape, whatever state an execution is in.
THEOREM TypeCorrect == Spec => []TypeOK
<1>1. IndInv => TypeOK
  BY DEF IndInv
<1> QED BY <1>1, Invariance, PTL

\* One deployment of the app is DEPLOYING at a time, unless one appeared late:
\* two that are must each be behind the other.
THEOREM OneDeploying == Spec => []OneDeployingUnlessLate
<1>1. ASSUME IndInv PROVE OneDeployingUnlessLate
  <2> SUFFICES ASSUME NEW d \in Deployments, NEW e \in Deployments,
                      Is(d, {"DEPLOYING"}), Is(e, {"DEPLOYING"}), d # e, d \notin late, e \notin late
               PROVE  FALSE
    BY DEF OneDeployingUnlessLate, InState, Is, Exists
  <2>1. CreatedAt(d) \in Nat /\ CreatedAt(e) \in Nat
    BY <1>1 DEF IndInv, TypeOK, DeploymentDocs, CreatedAt, Is, Exists
  <2>2. CreatedAt(d) < CreatedAt(e) /\ CreatedAt(e) < CreatedAt(d)
    BY <1>1 DEF IndInv, DeployingFirst, Behind, Is, RunningStates
  <2> QED BY <2>1, <2>2
<1> QED BY <1>1, Invariance, PTL

\* The deployment an app is deploying is never skipped: the branch of
\* updateDeployingApp marked 'should never occur' is dead.
THEOREM NeverSkipped == Spec => []DeployingNeverSkipped
<1>1. IndInv => DeployingNeverSkipped
  BY DEF IndInv
<1> QED BY <1>1, Invariance, PTL

\* A deployment is skipped only for a more recent one.
THEOREM SkippedForAnother == Spec => []SkippedForNewer
<1>1. IndInv => SkippedForNewer
  BY DEF IndInv
<1> QED BY <1>1, Invariance, PTL

\* The app names the deployment that is DEPLOYING, unless one appeared late or
\* the app was created twice.
THEOREM DeployingCurrent == Spec => []DeployingIsCurrent
<1>1. IndInv => DeployingIsCurrent
  BY DEF IndInv
<1> QED BY <1>1, Invariance, PTL

\* The outcome of a deployment never changes, though polls write it without a
\* transaction.
THEOREM OutcomeStays == Spec => OutcomeIsFinal
<1>1. ASSUME IndInv, [Next]_vars
      PROVE  [\A d \in Deployments :
                 deployment[d] # None /\ deployment[d].state \in {"DEPLOYED", "FAILED", "CANCELLED"}
                     => deployment'[d].state = deployment[d].state]_vars
  BY <1>1, OutcomeFinal DEF Is, Exists
<1> QED BY <1>1, Invariance, PTL DEF Spec, OutcomeIsFinal

\* A poll finds a running deployment without an execution, and is rejected, only
\* while the call that puts the deployment is at work, or when it has died.
THEOREM PollsBlockedByPut == Spec => []BlockedByPut
<1>1. IndInv => BlockedByPut
  BY DEF IndInv
<1> QED BY <1>1, Invariance, PTL

\* A queue that is stuck has no step of a poll.
LEMMA NoPollWhenStuck ==
    ASSUME TypeOK, Stuck, NEW p \in Pollers
    PROVE  ~Poll(p) /\ ~CrashPoll(p)
<1>1. poll[p].pc = "idle"
  BY DEF Stuck
<1>2. PICK d \in Deployments : d \in InState(Listed) /\ deployment[d].execution # TRUE
  BY DEF Stuck, Is, Exists, InState, Listed, RunningStates, TypeOK, DeploymentDocs
<1>3. ASSUME NEW t \in Deployments \cup {None} PROVE ~List(p, t)
  BY <1>2 DEF List
<1> QED
  BY <1>1, <1>3 DEF Poll, Fetch, Write, ReadApp, CommitApp, RetryApp, ReadPending, QueryFirst, QueryLast,
     CommitPending, RetryPending, CrashPoll

\* No step gets past a deployment whose execution nobody will record.
LEMMA StuckStep ==
    ASSUME IndInv, [Next]_vars, Stuck
    PROVE  Stuck' /\ \A d \in Deployments : Exists(d) => deployment'[d].state = deployment[d].state
<1> USE DEF IndInv
<1>1. PICK d \in Deployments :
        Is(d, RunningStates) /\ ~deployment[d].execution /\ put[d].pc = "crashed"
  BY DEF Stuck
<1>2. \/ \E e \in Deployments : PutDeployment(e) \/ CrashPut(e) \/ \E s \in Ends : EndExecution(e, s)
      \/ UNCHANGED vars
  BY NoPollWhenStuck DEF Next
<1>3. UNCHANGED poll
  BY <1>2 DEF vars, PutDeployment, GetApp, SetApp, Stamp, SetDeployment, CreateExecution, RecordExecution,
     CrashPut, EndExecution
<1>4. put'[d] = put[d]
  BY <1>1, <1>2 DEF vars, PutDeployment, GetApp, SetApp, Stamp, SetDeployment, CreateExecution, RecordExecution,
     CrashPut, EndExecution, TypeOK
<1>5. \/ \E e \in Deployments : SetDeployment(e) \/ RecordExecution(e)
      \/ UNCHANGED deployment
  BY <1>2 DEF vars, PutDeployment, GetApp, SetApp, Stamp, CreateExecution, CrashPut, EndExecution
<1>6. deployment'[d] = deployment[d]
  BY <1>1, <1>5 DEF SetDeployment, RecordExecution, TypeOK
<1>7. ASSUME NEW e \in Deployments, Exists(e) PROVE deployment'[e].state = deployment[e].state
  <2>1. ASSUME NEW f \in Deployments, SetDeployment(f) PROVE deployment'[e] = deployment[e]
    <3>1. f # e
      BY <1>7, <2>1 DEF SetDeployment, PutsOK
    <3> QED BY <2>1, <3>1 DEF SetDeployment, TypeOK
  <2>2. ASSUME NEW f \in Deployments, RecordExecution(f) PROVE deployment'[e].state = deployment[e].state
    BY <2>2 DEF RecordExecution, TypeOK
  <2> QED BY <1>5, <2>1, <2>2
<1>8. Stuck'
  <2>1. Is(d, RunningStates)' /\ ~deployment'[d].execution /\ put'[d].pc = "crashed"
    BY <1>1, <1>4, <1>6 DEF Is, Exists, RunningStates
  <2>2. \A p \in Pollers : poll'[p].pc = "idle"
    BY <1>3 DEF Stuck
  <2> QED BY <2>1, <2>2 DEF Stuck, RunningStates
<1> QED BY <1>7, <1>8

\* One putDeployment that dies before the execution is recorded stops the queue
\* of its app for ever, for any number of deployments and of polls.
THEOREM StuckForEver == Spec => StaysStuck
<1>1. IndInv /\ [Next]_vars =>
        [Stuck => /\ Stuck'
                  /\ \A d \in Deployments :
                        Exists(d) => deployment'[d].state = deployment[d].state]_vars
  BY StuckStep
<1> QED BY <1>1, Invariance, PTL DEF Spec, StaysStuck

\* What an app shows is what became of its deployment: an app is DEPLOYED, FAILED
\* or CANCELLED when the deployment that was let through last is, and its
\* architecture is that of a deployment that was DEPLOYED.
THEOREM AppTellsTrue == Spec => []AppTellsOutcome
<1>1. IndInv => AppTellsOutcome
  BY DEF IndInv
<1> QED BY <1>1, Invariance, PTL

=============================================================================
