------------------------- MODULE QueueAtomic_proofs -------------------------
(***************************************************************************)
(* Proof that DeploymentQueue implements AtomicQueue under the mapping of   *)
(* QueueAtomic: at its commit, what a poll was told of the queue before is  *)
(* still enough for the decision it takes.                                  *)
(***************************************************************************)
EXTENDS QueueAtomic, DeploymentQueue_proofs

State == [d \in Deployments |-> IF Exists(d) THEN deployment[d].state ELSE "NONE"]
Place == [d \in Deployments |-> IF Exists(d) THEN CreatedAt(d) ELSE 0]
Come == [d \in Deployments |->
            IF execution[d] \in {None, "ACTIVE"} THEN "NONE" ELSE Outcome(execution[d])]

USE DEF ghosts

\* What the atomic queue sees depends on these variables alone.
LEMMA QueueStutters ==
    ASSUME UNCHANGED <<app, deployment, execution, late>>
    PROVE  UNCHANGED Atomic!queueVars
BY DEF Atomic!queueVars, Exists, CreatedAt

\* The first states of DeploymentQueue are first states of the atomic queue.
LEMMA QueueInitial == Init => Atomic!QueueInit
BY DEF Init, Atomic!QueueInit, Exists

\* A step on the documents of no deployment leaves states and places alone.
LEMMA SameDocuments == ASSUME UNCHANGED deployment PROVE State' = State /\ Place' = Place
BY DEF State, Place, Exists, CreatedAt

\* A step that touches no execution leaves outcomes alone.
LEMMA SameExecutions == ASSUME UNCHANGED execution PROVE Come' = Come
BY DEF Come

\* A deployment that is in the queue is in some state, at some place.
LEMMA InQueue ==
    ASSUME IndInv, NEW d \in Deployments
    PROVE  /\ Exists(d) => State[d] = deployment[d].state /\ Place[d] = CreatedAt(d) /\ State[d] # "NONE"
           /\ ~Exists(d) => State[d] = "NONE" /\ Place[d] = 0
           /\ Place[d] \in Nat
           /\ Is(d, RunningStates) <=> State[d] \in {"PENDING", "DEPLOYING"}
<1>1. Exists(d) => /\ deployment[d].state \in RunningStates \cup EndStates
                   /\ CreatedAt(d) \in Nat
  BY DEF IndInv, TypeOK, DeploymentDocs, Exists, CreatedAt
<1> QED BY <1>1 DEF State, Place, Is, RunningStates, EndStates

\* A step that writes the document of one deployment, but not its place.
LEMMA OneDocument ==
    ASSUME IndInv, [Next]_vars, NEW d \in Deployments, Exists(d), NEW doc,
           deployment' = [deployment EXCEPT ![d] = doc]
    PROVE  State' = [State EXCEPT ![d] = doc.state] /\ Place' = Place
<1>1. \A e \in Deployments : e # d => deployment'[e] = deployment[e]
  BY DEF IndInv, TypeOK
<1>2. deployment'[d] = doc
  BY DEF IndInv, TypeOK
<1>3. Exists(d)' /\ CreatedAt(d)' = CreatedAt(d)
  BY Monotone DEF IndInv
<1>4. ASSUME NEW e \in Deployments
      PROVE  (IF Exists(e) THEN deployment[e].state ELSE "NONE")' = [State EXCEPT ![d] = doc.state][e]
  <2>1. CASE e = d
    BY <1>2, <1>3, <2>1 DEF State
  <2>2. CASE e # d
    BY <1>1, <2>2 DEF State, Exists
  <2> QED BY <2>1, <2>2
<1>5. Place' = Place
  BY <1>1, <1>3 DEF Place, Exists, CreatedAt
<1> QED BY <1>4, <1>5 DEF State

-----------------------------------------------------------------------------
(* putDeployment and its execution *)

\* The app is created by a deployment that is not in the queue.
LEMMA QueueCreateApp ==
    ASSUME IndInv, NEW d \in Deployments, SetApp(d)
    PROVE  Atomic!CreateApp
<1>1. State[d] = "NONE"
  BY InQueue DEF SetApp, IndInv, PutsOK
<1>2. State' = State /\ Place' = Place /\ Come' = Come /\ late' = late
  BY SameDocuments, SameExecutions DEF SetApp
<1>3. app' = [state |-> "CREATED", deploying |-> None, architecture |-> None]
  BY DEF SetApp
<1> QED BY <1>1, <1>2, <1>3 DEF Atomic!CreateApp, State, Place, Come

\* The document of a deployment appears at a place that nobody has.
LEMMA QueueEnter ==
    ASSUME IndInv, IndInv', NEW d \in Deployments, SetDeployment(d)
    PROVE  Atomic!Enter(d)
<1> USE DEF IndInv
<1> DEFINE n == put[d].createdAt
<1>1. n \in Nat \ {0} /\ ~Exists(d) /\ app # None
  BY DEF SetDeployment, PutsOK, TypeOK, Puts
<1>2. /\ deployment'[d].state = "PENDING" /\ deployment'[d].createdAt = n
      /\ \A e \in Deployments : e # d => deployment'[e] = deployment[e]
      /\ put'[d].pc = "execute"
  BY DEF SetDeployment, TypeOK
<1>3. Exists(d)'
  BY <1>2 DEF PutsOK
<1>4. State' = [State EXCEPT ![d] = "PENDING"] /\ Place' = [Place EXCEPT ![d] = n]
  BY <1>2, <1>3 DEF State, Place, Exists, CreatedAt
<1>5. Place'[d] = n
  BY <1>4 DEF Place
<1>6. ASSUME NEW e \in Deployments PROVE Place[e] # n
  <2>1. CASE Exists(e)
    <3>1. e # d /\ put[e].createdAt = CreatedAt(e)
      BY <1>1, <2>1 DEF PutsOK
    <3>2. put[e].createdAt # n
      BY <1>1, <3>1 DEF StampsDiffer
    <3> QED BY <2>1, <3>1, <3>2, InQueue
  <2>2. CASE ~Exists(e)
    BY <1>1, <2>2, InQueue
  <2> QED BY <2>1, <2>2
<1>7. ASSUME NEW e \in Deployments
      PROVE  Place[e] > n <=> deployment[e] # None /\ deployment[e].createdAt > n
  BY <1>1, InQueue DEF Exists, CreatedAt
<1>8. late' = IF \E e \in Deployments : Place[e] > Place'[d] THEN late \cup {d} ELSE late
  BY <1>5, <1>7 DEF SetDeployment
<1>9. Come' = Come /\ app' = app
  BY SameExecutions DEF SetDeployment
<1>10. State[d] = "NONE"
  BY <1>1, InQueue
<1> QED
  BY <1>1, <1>4, <1>5, <1>6, <1>8, <1>9, <1>10 DEF Atomic!Enter, State, Place, Come

\* An execution ends, with an outcome.
LEMMA QueueEnd ==
    ASSUME IndInv, NEW d \in Deployments, NEW s \in Ends, EndExecution(d, s)
    PROVE  Atomic!End(d)
<1> USE DEF IndInv
<1>1. /\ execution[d] = "ACTIVE" /\ execution' = [execution EXCEPT ![d] = s]
      /\ UNCHANGED <<app, deployment, late>>
  BY DEF EndExecution
<1>2. s \in ExecutionStates \ {"ACTIVE"} /\ s # None
  BY EndsAssumption, NoneAssumption DEF ExecutionStates
<1>3. Outcome(s) \in {"DEPLOYED", "FAILED", "CANCELLED"}
  BY <1>2, OutcomeEnds
<1>4. execution[d] # None
  BY <1>1, NoneAssumption DEF ExecutionStates
<1>5. Exists(d)
  BY <1>4 DEF ExecutionsQueued
<1>6. Come[d] = "NONE"
  BY <1>1 DEF Come
<1>7. Come' = [Come EXCEPT ![d] = Outcome(s)]
  <2>1. execution'[d] = s /\ \A e \in Deployments : e # d => execution'[e] = execution[e]
    BY <1>1 DEF TypeOK
  <2>2. (IF execution'[d] \in {None, "ACTIVE"} THEN "NONE" ELSE Outcome(execution'[d])) = Outcome(s)
    BY <1>2, <2>1
  <2> QED BY <2>1, <2>2 DEF Come
<1>8. State' = State /\ Place' = Place /\ State[d] # "NONE"
  BY <1>1, <1>5, InQueue, SameDocuments
<1> QED
  BY <1>1, <1>3, <1>6, <1>7, <1>8 DEF Atomic!End, Atomic!Outcomes, State, Place, Come

\* That the name of an execution is recorded is nothing to the queue; nor is it
\* that an execution is created.
LEMMA QueueRecord ==
    ASSUME IndInv, [Next]_vars, NEW d \in Deployments, CreateExecution(d) \/ RecordExecution(d)
    PROVE  UNCHANGED Atomic!queueVars
<1> USE DEF IndInv
<1>1. CASE CreateExecution(d)
  <2>1. execution[d] = None /\ UNCHANGED <<app, deployment, late>>
    BY <1>1 DEF CreateExecution, PutsOK
  <2>2. execution'[d] = "ACTIVE" /\ \A e \in Deployments : e # d => execution'[e] = execution[e]
    BY <1>1 DEF CreateExecution, TypeOK
  <2>3. Come' = Come
    BY <2>1, <2>2 DEF Come
  <2> QED BY <2>1, <2>3, SameDocuments DEF Atomic!queueVars, State, Place, Come
<1>2. CASE RecordExecution(d)
  <2> DEFINE doc == [state |-> deployment[d].state, createdAt |-> deployment[d].createdAt,
                     execution |-> TRUE]
  <2>1. Exists(d) /\ deployment' = [deployment EXCEPT ![d] = doc] /\ UNCHANGED <<app, execution, late>>
    BY <1>2 DEF RecordExecution, PutsOK
  <2>2. State' = [State EXCEPT ![d] = doc.state] /\ Place' = Place
    BY <2>1, OneDocument
  <2>3. State' = State
    BY <2>1, <2>2, InQueue DEF State
  <2> QED BY <2>1, <2>2, <2>3, SameExecutions DEF Atomic!queueVars, State, Place, Come
<1> QED BY <1>1, <1>2

-----------------------------------------------------------------------------
(* The polls *)

\* What a poll writes is the outcome of an execution that has ended.
LEMMA QueueNote ==
    ASSUME IndInv, [Next]_vars, NEW p \in Pollers, NEW d \in Deployments, Write(p, d)
    PROVE  Atomic!Note(d)
<1> USE DEF IndInv
<1> DEFINE o == Outcome(execution[d])
<1>1. Exists(d) /\ execution[d] \notin {None, "ACTIVE"}
  BY DEF Write, ListedOK, PutsOK
<1>2. o \in {"DEPLOYED", "FAILED", "CANCELLED"}
  BY <1>1, OutcomeEnds DEF TypeOK
<1>3. Come[d] = o /\ o # "NONE"
  BY <1>1, <1>2 DEF Come
<1>4. deployment' = [deployment EXCEPT ![d] = InNewState(d, o)] /\ UNCHANGED <<app, execution, late>>
  BY DEF Write
<1>5. State' = [State EXCEPT ![d] = InNewState(d, o).state] /\ Place' = Place
  BY <1>1, <1>4, OneDocument
<1>6. State' = [State EXCEPT ![d] = o]
  BY <1>5 DEF InNewState
<1> QED BY <1>3, <1>4, <1>5, <1>6, SameExecutions DEF Atomic!Note, State, Place, Come

\* The app is given the outcome of its deployment, though that was read outside
\* the transaction.
LEMMA QueueSettle ==
    ASSUME IndInv, NEW p \in Pollers, CommitApp(p)
    PROVE  Atomic!Settle(app.deploying)
<1> DEFINE d == app.deploying
           o == poll[p].seen.state
<1>1. /\ app # None /\ app = poll[p].seenApp /\ d \in Deployments
      /\ o \in {"DEPLOYED", "FAILED", "CANCELLED"} /\ Is(d, {o})
  BY CommitAppSees
<1>2. State[d] = o
  BY <1>1, InQueue DEF Is
<1>3. app' = [state |-> o, deploying |-> IF o = "DEPLOYED" THEN None ELSE d,
              architecture |-> IF o = "DEPLOYED" THEN d ELSE app.architecture]
  BY <1>1 DEF CommitApp
<1>4. State' = State /\ Place' = Place /\ Come' = Come /\ late' = late
  BY SameDocuments, SameExecutions DEF CommitApp
<1> QED BY <1>1, <1>2, <1>3, <1>4 DEF Atomic!Settle, Atomic!Outcomes, State, Place, Come

\* A deployment is let through, skipped or left where it is as the whole queue
\* asks for, though the poll has seen the queue before, and twice.
LEMMA QueueDecide ==
    ASSUME IndInv, [Next]_vars, NEW p \in Pollers, CommitPending(p)
    PROVE  \/ \E d \in Deployments : Atomic!Deploy(d) \/ Atomic!Skip(d)
           \/ UNCHANGED Atomic!queueVars
<1> USE DEF IndInv
<1>0. PICK d \in Deployments : d = poll[p].target
  BY DEF CommitPending, TargetsOK, TypeOK, Polls
<1>1. /\ Exists(d) /\ Is(d, {"PENDING"})
      /\ poll[p].first \in BOOLEAN /\ poll[p].last \in BOOLEAN
  BY <1>0 DEF CommitPending, Answered, PendingUnchanged, TargetsOK, PlacesStand, TypeOK, Polls, Is, Exists
<1>2. /\ deployment' = [deployment EXCEPT ![d] = InNewState(d, Decided(p))]
      /\ UNCHANGED <<execution, late>>
  BY <1>0 DEF CommitPending
<1>3. State' = [State EXCEPT ![d] = Decided(p)] /\ Place' = Place /\ Come' = Come
  <2>1. State' = [State EXCEPT ![d] = InNewState(d, Decided(p)).state] /\ Place' = Place
    BY <1>1, <1>2, OneDocument
  <2> QED BY <1>2, <2>1, SameExecutions DEF InNewState
<1>4. State[d] = "PENDING"
  BY <1>1, InQueue DEF Is
<1>5. CASE poll[p].first = TRUE
  <2>1. Decided(p) = "DEPLOYING"
    BY <1>5 DEF Decided
  <2>2. app' = [state |-> "DEPLOYING", deploying |-> d, architecture |-> app.architecture]
    BY <1>0, <1>5 DEF CommitPending
  <2>3. ASSUME NEW e \in Deployments, State[e] \in {"PENDING", "DEPLOYING"}
        PROVE  e = d \/ Place[d] < Place[e] \/ e \in late
    <3>1. Is(e, RunningStates) /\ Exists(e)
      BY <2>3, InQueue DEF Is
    <3>2. e = d \/ Behind(e, d)
      BY <1>0, <1>1, <1>5, <3>1 DEF CommitPending, PlacesStand
    <3> QED BY <1>1, <3>1, <3>2, InQueue DEF Behind
  <2>4. Atomic!Deploy(d)
    BY <1>2, <1>3, <1>4, <2>1, <2>2, <2>3 DEF Atomic!Deploy, Atomic!Waits, State, Place, Come
  <2> QED BY <2>4
<1>6. CASE poll[p].first = FALSE /\ poll[p].last = FALSE
  <2>1. Decided(p) = "SKIPPED" /\ app' = app
    BY <1>6 DEF Decided, CommitPending
  <2>2. PICK e \in Deployments : Exists(e) /\ CreatedAt(d) < CreatedAt(e)
    BY <1>0, <1>1, <1>6 DEF CommitPending, PlacesStand
  <2>3. Place[d] < Place[e]
    BY <1>1, <2>2, InQueue
  <2>4. Atomic!Skip(d)
    BY <1>2, <1>3, <1>4, <2>1, <2>3 DEF Atomic!Skip, State, Place, Come
  <2> QED BY <2>4
<1>7. CASE poll[p].first = FALSE /\ poll[p].last = TRUE
  <2>1. Decided(p) = "PENDING" /\ app' = app
    BY <1>7 DEF Decided, CommitPending
  <2>2. State' = State
    BY <1>3, <1>4, <2>1 DEF State
  <2> QED BY <1>2, <1>3, <2>1, <2>2 DEF Atomic!queueVars, State, Place, Come
<1> QED BY <1>1, <1>5, <1>6, <1>7

-----------------------------------------------------------------------------

\* Every step of DeploymentQueue is a step of the atomic queue or a stutter.
LEMMA QueueStep ==
    IndInv /\ IndInv' /\ [Next]_vars => [Atomic!QueueNext]_Atomic!queueVars
<1> SUFFICES ASSUME IndInv, IndInv', [Next]_vars
             PROVE  Atomic!QueueNext \/ UNCHANGED Atomic!queueVars
  OBVIOUS
<1>1. ASSUME NEW d \in Deployments, PutDeployment(d) \/ CrashPut(d)
      PROVE  Atomic!QueueNext \/ UNCHANGED Atomic!queueVars
  <2>1. CASE SetApp(d)
    BY <2>1, QueueCreateApp DEF Atomic!QueueNext
  <2>2. CASE SetDeployment(d)
    BY <2>2, QueueEnter DEF Atomic!QueueNext
  <2>3. CASE CreateExecution(d) \/ RecordExecution(d)
    BY <2>3, QueueRecord
  <2>4. CASE GetApp(d) \/ Stamp(d) \/ CrashPut(d)
    BY <2>4, QueueStutters DEF GetApp, Stamp, CrashPut
  <2> QED BY <1>1, <2>1, <2>2, <2>3, <2>4 DEF PutDeployment
<1>2. ASSUME NEW d \in Deployments, NEW s \in Ends, EndExecution(d, s)
      PROVE  Atomic!QueueNext
  BY <1>2, QueueEnd DEF Atomic!QueueNext
<1>3. ASSUME NEW p \in Pollers, Poll(p) \/ CrashPoll(p)
      PROVE  Atomic!QueueNext \/ UNCHANGED Atomic!queueVars
  <2>1. ASSUME NEW d \in Deployments, Write(p, d) PROVE Atomic!QueueNext
    BY <2>1, QueueNote DEF Atomic!QueueNext
  <2>2. CASE CommitApp(p)
    BY <2>2, QueueSettle, CommitAppSees DEF Atomic!QueueNext
  <2>3. CASE CommitPending(p)
    BY <2>3, QueueDecide DEF Atomic!QueueNext
  <2>4. CASE \/ \E t \in Deployments \cup {None} : List(p, t)
             \/ Fetch(p) \/ ReadApp(p) \/ RetryApp(p) \/ ReadPending(p)
             \/ QueryFirst(p) \/ QueryLast(p) \/ RetryPending(p) \/ CrashPoll(p)
    BY <2>4, QueueStutters DEF List, Fetch, ReadApp, RetryApp, ReadPending, QueryFirst, QueryLast, RetryPending,
       CrashPoll
  <2> QED BY <1>3, <2>1, <2>2, <2>3, <2>4 DEF Poll
<1>4. CASE UNCHANGED vars
  BY <1>4, QueueStutters DEF vars
<1> QED BY <1>1, <1>2, <1>3, <1>4 DEF Next

\* Whatever a poll has read before, and outside the transactions it is used in,
\* each of its writes is one that somebody who sees the whole queue at that
\* instant could do.
THEOREM PollsAtomic == Spec => PollsAreAtomic
BY QueueStep, Invariance, PTL DEF Spec, PollsAreAtomic, Atomic!QueueSteps

\* putDeployment, getDeployment and getApp implement the atomic queue.
THEOREM QueueImplemented == Spec => ImplementsQueue
BY QueueInitial, QueueStep, Invariance, PTL DEF Spec, ImplementsQueue, Atomic!QueueSpec, Atomic!QueueSteps

=============================================================================
