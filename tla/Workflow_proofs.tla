-------------------------- MODULE Workflow_proofs --------------------------
(***************************************************************************)
(* What a deployment workflow guarantees, for every plan, any number of    *)
(* attempts and any number of lost attempts.                               *)
(***************************************************************************)
EXTENDS WorkflowInv, TLAPS

USE DEF Callers, Outputs, Attempts, Statuses, Threads, Functions, Reads,
        Kinds, ResourceStates

\* The groups are sets of steps, and disjoint.
LEMMA PlanFacts ==
    /\ Len(Plan) \in Nat
    /\ DOMAIN Plan = 1 .. Len(Plan)
    /\ \A i \in 1 .. Len(Plan) : Plan[i] \subseteq Steps
    /\ \A i, j \in 1 .. Len(Plan) : i # j => Plan[i] \cap Plan[j] = {}
BY PlanAssumption

\* An execution starts with one call of its main thread in flight.
LEMMA Start == Init => IndInv
<1> SUFFICES ASSUME Init PROVE IndInv
  OBVIOUS
<1> USE DEF Init, StoreInit, At
<1>1. TypeOK
  BY StepsAssumption, TriesAssumption, LostAssumption, PlanFacts DEF TypeOK, StoreTypeOK
<1>2. MainReads
  BY StepsAssumption DEF MainReads, Flying
<1>3. EarlierFinished
  BY DEF EarlierFinished
<1>4. BegunInGroup
  BY StepsAssumption DEF BegunInGroup, Begun, Flying
<1>5. StartedFirst
  BY StepsAssumption DEF StartedFirst, Flying
<1>6. CallsOfKind
  BY StepsAssumption DEF CallsOfKind
<1>7. RecordedFirst
  BY StepsAssumption DEF RecordedFirst, Flying
<1>8. OneAccount
  BY StepsAssumption DEF OneAccount, OneAccountOf, Early, Flying
<1>9. FirstCallsInGroup /\ OutputsKnown
  BY StepsAssumption DEF FirstCallsInGroup, OutputsKnown
<1>10. OneResource
  BY StepsAssumption DEF OneResource, OneResourceOf, Flying
<1>11. NobodyWaitsInVain
  BY StepsAssumption DEF NobodyWaitsInVain, Attempt
<1> QED
  BY <1>1, <1>2, <1>3, <1>4, <1>5, <1>6, <1>7, <1>8, <1>9, <1>10, <1>11 DEF IndInv

-----------------------------------------------------------------------------

\* The actions of Next, as the proofs below split it.
LEMMA StepCases ==
    ASSUME TypeOK, [Next]_vars
    PROVE  \/ DownloadArtifacts \/ GetPlan \/ GetOutputs \/ EndGroup \/ FailGroup
           \/ \E s \in Steps :
                 \/ SetStepStarted(s) \/ GetServiceDeployYaml(s) \/ Build(s)
                 \/ CreateAccount(s) \/ UpdateState(s) \/ CreateResource(s)
                 \/ GetExecution(s) \/ SetStepFinished(s)
           \/ \E x \in Callers : Unanswered(x)
           \/ \E x \in Callers, t \in Threads : Run(x, t)
           \/ \E a \in Attempts : Service(a)
           \/ Cancel
           \/ UNCHANGED vars
BY DEF Next, MainThread, StepThread, TypeOK

\* Thread x goes to t, and t is attempted if it is a call.
Goes(x, t) ==
    /\ t \in Threads
    /\ thread' = [thread EXCEPT ![x] = t]
    /\ sent' \subseteq sent \cup (IF t.pc \in Functions THEN {<<x, t>>} ELSE {})

\* Where a thread may be.
Pcs == Functions \cup {"idle", "build", "groups", "done", "failed"}

\* What GoTo does, with the attempt as one value.
LEMMA GoToGoes ==
    ASSUME TypeOK, NEW x \in Callers, NEW pc \in Pcs, NEW out \in Outputs,
           GoTo(x, pc, out)
    PROVE  Goes(x, At(pc, 1, out))
<1>1. At(pc, 1, out) \in Threads
  BY TriesAssumption DEF At, Pcs
<1>2. At(pc, 1, out).pc = pc
  BY DEF At
<1> QED
  BY <1>1, <1>2 DEF GoTo, Goes

\* What this does to each thread and each attempt.
Went(x, t) ==
    /\ thread' \in [Callers -> Threads]
    /\ thread'[x] = t
    /\ \A y \in Callers \ {x} : thread'[y] = thread[y]
    /\ sent' \subseteq Callers \X Threads
    /\ \A y \in Callers, u \in Threads :
          Flying(y, u)' => Flying(y, u) \/ (y = x /\ u = t /\ t.pc \in Functions)

\* A thread that goes on takes no other with it.
LEMMA GoesFacts ==
    ASSUME TypeOK, NEW x \in Callers, NEW t \in Threads, Goes(x, t)
    PROVE  Went(x, t)
BY DEF Goes, TypeOK, Flying, Went

\* Where a poll leads.
LEMMA PollGoes ==
    ASSUME TypeOK, NEW s \in Steps, NEW state, NEW out \in Outputs, Poll(s, state, out)
    PROVE  \E t \in Threads :
              Goes(s, t) /\ t.pc \in {"setStepFinished", "failed", "getExecution"}
<1>1. \E pc \in {"setStepFinished", "failed", "getExecution"}, o \in Outputs : GoTo(s, pc, o)
  <2>1. CASE state = "SUCCEEDED"
    <3>1. 0 \in Outputs
      BY TriesAssumption
    <3> QED
      BY <2>1, <3>1 DEF Poll
  <2>2. CASE state # "SUCCEEDED" /\ state = "ACTIVE"
    BY <2>2 DEF Poll
  <2>3. CASE state # "SUCCEEDED" /\ state # "ACTIVE"
    <3>1. 0 \in Outputs
      BY TriesAssumption
    <3> QED
      BY <2>3, <3>1 DEF Poll
  <2> QED
    BY <2>1, <2>2, <2>3
<1>2. PICK pc \in {"setStepFinished", "failed", "getExecution"}, o \in Outputs : GoTo(s, pc, o)
  BY <1>1
<1>3. Goes(s, At(pc, 1, o))
  BY <1>2, GoToGoes DEF Pcs
<1>4. At(pc, 1, o).pc = pc /\ At(pc, 1, o) \in Threads
  BY <1>3 DEF At, Goes
<1> QED
  BY <1>3, <1>4

\* The two actions that poll.
LEMMA PollStep ==
    ASSUME TypeOK, NEW s \in Steps, CreateResource(s) \/ GetExecution(s)
    PROVE  \E t \in Threads :
              Goes(s, t) /\ t.pc \in {"setStepFinished", "failed", "getExecution"}
<1>1. thread[s].try \in Outputs /\ thread[s].output \in Outputs
  BY TriesAssumption DEF TypeOK
<1>2. CASE CreateResource(s)
  BY <1>1, <1>2, PollGoes DEF CreateResource
<1>3. CASE GetExecution(s)
  BY <1>1, <1>3, PollGoes DEF GetExecution
<1> QED
  BY <1>2, <1>3

\* A poll leaves all but the executions of the services as they were.
LEMMA PollKeeps ==
    ASSUME TypeOK, NEW s \in Steps, CreateResource(s) \/ GetExecution(s)
    PROVE  /\ thread[s].pc \in {"createResource", "getExecution"}
           /\ resource' \in [Attempts -> ResourceStates \cup {None}]
           /\ UNCHANGED <<started, finished, element, account>>
           /\ UNCHANGED <<status, group, outputs, lost>>
<1>1. CASE CreateResource(s)
  BY <1>1 DEF CreateResource, Answered, Calling, callFunction, createResource,
     TypeOK, StoreTypeOK
<1>2. CASE GetExecution(s)
  BY <1>2 DEF GetExecution, Answered, Calling, callFunction, store, TypeOK, StoreTypeOK
<1> QED
  BY <1>1, <1>2

\* A thread that raises sends nothing.
LEMMA RaiseGoes ==
    ASSUME NEW x \in Callers, Raise(x), sent' \subseteq sent
    PROVE  \E t \in Threads : Goes(x, t) /\ t.pc = "failed"
<1>1. At("failed", 1, 0) \in Threads /\ At("failed", 1, 0).pc = "failed"
  BY TriesAssumption DEF At
<1> QED
  BY <1>1 DEF Raise, Goes

\* A call that is not answered is attempted again, with the same arguments, or
\* raises.
LEMMA UnansweredStep ==
    ASSUME TypeOK, NEW x \in Callers, Unanswered(x)
    PROVE  \E t \in Threads :
              /\ Goes(x, t)
              /\ (t.pc = thread[x].pc /\ t.output = thread[x].output) \/ t.pc = "failed"
<1>1. CASE GiveUp(x) /\ MayRetry(x)
  <2>1. Again(x) \in Threads
    BY <1>1, TriesAssumption DEF TypeOK, Again, At, MayRetry
  <2>2. Again(x).pc = thread[x].pc /\ Again(x).output = thread[x].output
    BY DEF Again, At
  <2>3. Goes(x, Again(x))
    BY <1>1, <2>1, <2>2 DEF Goes, GiveUp
  <2> QED
    BY <2>1, <2>2, <2>3
<1>2. CASE Raise(x) /\ sent' \subseteq sent
  BY <1>2, RaiseGoes
<1> QED
  BY <1>1, <1>2 DEF Unanswered, GiveUp, Refused

\* What it leaves alone.
LEMMA UnansweredKeeps ==
    ASSUME TypeOK, NEW x \in Callers, Unanswered(x)
    PROVE  /\ thread[x].pc \in Functions
           /\ status' \in {status, "FAILED"}
           /\ lost' \in 0 .. MaxLost
           /\ UNCHANGED <<group, outputs, store>>
BY LostAssumption DEF Unanswered, GiveUp, Refused, Raise, TypeOK

\* A function keeps the documents well-formed, whoever calls it.
LEMMA FunctionTypes ==
    ASSUME StoreTypeOK, NEW x \in Callers, NEW t \in Threads,
           x \in Steps \/ t.pc \in Reads, callFunction(x, t.pc, t.try, t.output)
    PROVE  StoreTypeOK'
<1>1. CASE t.pc \in Reads
  BY <1>1 DEF callFunction, StoreTypeOK, store
<1>2. CASE x \in Steps /\ t.pc = "setStepStarted"
  BY <1>2 DEF callFunction, setStepStarted, StoreTypeOK
<1>3. CASE x \in Steps /\ t.pc = "setStepFinished"
  BY <1>3 DEF callFunction, setStepFinished, StoreTypeOK
<1>4. CASE x \in Steps /\ t.pc = "updateState"
  <2>1. updateState(x, t.output) /\ t.output \in Outputs
    BY <1>4 DEF callFunction
  <2> QED
    BY <1>4, <2>1 DEF updateState, StoreTypeOK
<1>5. CASE x \in Steps /\ t.pc = "createAccount"
  BY <1>5 DEF callFunction, createAccount, StoreTypeOK
<1>6. CASE x \in Steps /\ t.pc = "createResource"
  BY <1>6 DEF callFunction, createResource, StoreTypeOK
<1> QED
  BY <1>1, <1>2, <1>3, <1>4, <1>5, <1>6 DEF callFunction

\* The threads of the next group start.
LEMMA GetOutputsStep ==
    ASSUME TypeOK, MainReads, GetOutputs
    PROVE  LET first == At("setStepStarted", 1, 0)
           IN  /\ thread[Main].pc = "getOutputs"
               /\ group \in 1 .. Len(Plan)
               /\ first \in Threads
               /\ thread' \in [Callers -> Threads]
               /\ thread'[Main] = At("groups", 1, 0)
               /\ \A x \in Plan[group] : thread'[x] = first
               /\ \A x \in Steps \ Plan[group] : thread'[x] = thread[x]
               /\ sent' \subseteq Callers \X Threads
               /\ \A x \in Callers, t \in Threads : <<x, t>> \in sent' =>
                     <<x, t>> \in sent \/ (x \in Plan[group] /\ t = first)
               /\ outputs' \subseteq Steps
               /\ UNCHANGED <<status, group, lost, store>>
<1> DEFINE first == At("setStepStarted", 1, 0)
<1>1. first \in Threads /\ At("groups", 1, 0) \in Threads
  BY TriesAssumption DEF At
<1>2. thread[Main].pc = "getOutputs" /\ group \in 1 .. Len(Plan)
  BY PlanFacts DEF GetOutputs, Answered, Calling, MainReads, TypeOK
<1>3. Plan[group] \subseteq Steps
  BY <1>2, PlanFacts
<1>4. /\ outputs' = DeployedServices
      /\ thread' = [x \in Callers |->
            CASE x = Main -> At("groups", 1, 0)
              [] x # Main /\ x \in Plan[group] -> first
              [] OTHER -> thread[x]]
      /\ sent' = (sent \ {Attempt(Main)}) \cup (Plan[group] \X {first})
      /\ UNCHANGED <<status, group, lost, store>>
  BY <1>2 DEF GetOutputs, OutputsRead, Answered, callFunction
<1> HIDE DEF first
<1>5. thread' \in [Callers -> Threads]
  BY <1>1, <1>4 DEF TypeOK
<1>6. sent' \subseteq Callers \X Threads
  BY <1>1, <1>3, <1>4 DEF TypeOK
<1>7. outputs' \subseteq Steps
  BY <1>4 DEF DeployedServices
<1>8. /\ thread'[Main] = At("groups", 1, 0)
      /\ \A x \in Plan[group] : thread'[x] = first
      /\ \A x \in Steps \ Plan[group] : thread'[x] = thread[x]
  BY <1>3, <1>4, StepsAssumption
<1>9. \A x \in Callers, t \in Threads : <<x, t>> \in sent' =>
         <<x, t>> \in sent \/ (x \in Plan[group] /\ t = first)
  BY <1>4
<1> QED
  BY <1>1, <1>2, <1>4, <1>5, <1>6, <1>7, <1>8, <1>9 DEF first

\* What a function writes is well-formed, and so is where a thread goes.
LEMMA TypeOKStep ==
    ASSUME TypeOK, MainReads, [Next]_vars
    PROVE  TypeOK'
<1> USE StepsAssumption, TriesAssumption, LostAssumption, PlanFacts
<1>1. CASE DownloadArtifacts
  BY <1>1 DEF DownloadArtifacts, Answered, callFunction, GoTo, At, TypeOK,
     StoreTypeOK, store
<1>2. CASE GetPlan
  BY <1>2 DEF GetPlan, NextGroup, Answered, callFunction, GoTo, At, TypeOK,
     StoreTypeOK, store
<1>3. CASE GetOutputs
  BY <1>3, GetOutputsStep DEF TypeOK, StoreTypeOK, store
<1>4. CASE EndGroup
  BY <1>4 DEF EndGroup, NextGroup, GoTo, At, TypeOK, StoreTypeOK, store
<1>5. CASE FailGroup
  BY <1>5 DEF FailGroup, Raise, At, TypeOK, StoreTypeOK, store
<1>6. ASSUME NEW s \in Steps, SetStepStarted(s) PROVE TypeOK'
  BY <1>6 DEF SetStepStarted, Body, Answered, callFunction, setStepStarted, GoTo, At,
     TypeOK, StoreTypeOK
<1>7. ASSUME NEW s \in Steps, GetServiceDeployYaml(s) PROVE TypeOK'
  BY <1>7 DEF GetServiceDeployYaml, Answered, callFunction, GoTo, At, TypeOK,
     StoreTypeOK, store
<1>8. ASSUME NEW s \in Steps, Build(s) PROVE TypeOK'
  BY <1>8 DEF Build, AfterBuild, GoTo, At, TypeOK, StoreTypeOK, store
<1>9. ASSUME NEW s \in Steps, CreateAccount(s) PROVE TypeOK'
  BY <1>9 DEF CreateAccount, Answered, callFunction, createAccount, GoTo, At, TypeOK,
     StoreTypeOK
<1>10. ASSUME NEW s \in Steps, UpdateState(s) PROVE TypeOK'
  <2>1. callFunction(s, thread[s].pc, thread[s].try, thread[s].output) /\ thread[s] \in Threads
    BY <1>10 DEF UpdateState, Answered, Calling, TypeOK
  <2>2. StoreTypeOK'
    BY <2>1, FunctionTypes DEF TypeOK
  <2> QED
    BY <1>10, <2>2 DEF UpdateState, GoTo, At, TypeOK
<1>11. ASSUME NEW s \in Steps, CreateResource(s) PROVE TypeOK'
  <2>1. PICK t \in Threads :
           Goes(s, t) /\ t.pc \in {"setStepFinished", "failed", "getExecution"}
    BY <1>11, PollStep
  <2>2. Went(s, t)
    BY <2>1, GoesFacts
  <2> QED
    BY <1>11, <2>1, <2>2, PollKeeps DEF Went, TypeOK, StoreTypeOK
<1>12. ASSUME NEW s \in Steps, GetExecution(s) PROVE TypeOK'
  <2>1. PICK t \in Threads :
           Goes(s, t) /\ t.pc \in {"setStepFinished", "failed", "getExecution"}
    BY <1>12, PollStep
  <2>2. Went(s, t)
    BY <2>1, GoesFacts
  <2> QED
    BY <1>12, <2>1, <2>2, PollKeeps DEF Went, TypeOK, StoreTypeOK
<1>13. ASSUME NEW s \in Steps, SetStepFinished(s) PROVE TypeOK'
  BY <1>13 DEF SetStepFinished, Answered, callFunction, setStepFinished, GoTo, At,
     TypeOK, StoreTypeOK
<1>14. ASSUME NEW x \in Callers, Unanswered(x) PROVE TypeOK'
  <2>1. PICK t \in Threads :
           /\ Goes(x, t)
           /\ (t.pc = thread[x].pc /\ t.output = thread[x].output) \/ t.pc = "failed"
    BY <1>14, UnansweredStep
  <2>2. Went(x, t)
    BY <2>1, GoesFacts
  <2> QED
    BY <1>14, <2>1, <2>2, UnansweredKeeps DEF Went, TypeOK, StoreTypeOK, store
<1>15. ASSUME NEW x \in Callers, NEW t \in Threads, Run(x, t) PROVE TypeOK'
  <2>1. x \in Steps \/ t.pc \in Reads
    BY <1>15 DEF Run, MainReads, Flying
  <2>2. StoreTypeOK'
    BY <1>15, <2>1, FunctionTypes DEF Run, TypeOK
  <2> QED
    BY <1>15, <2>2 DEF Run, TypeOK
<1>16. ASSUME NEW a \in Attempts, Service(a) PROVE TypeOK'
  BY <1>16 DEF Service, EndResource, TypeOK, StoreTypeOK
<1>17. CASE Cancel
  BY <1>17 DEF Cancel, TypeOK, StoreTypeOK, store
<1>18. CASE UNCHANGED vars
  BY <1>18 DEF vars, TypeOK, StoreTypeOK, store
<1> QED
  BY <1>1, <1>2, <1>3, <1>4, <1>5, <1>6, <1>7, <1>8, <1>9, <1>10, <1>11, <1>12,
     <1>13, <1>14, <1>15, <1>16, <1>17, <1>18, StepCases

\* Only the main thread moves itself, and group with it.
LEMMA MainReadsStep ==
    ASSUME TypeOK, MainReads, [Next]_vars
    PROVE  MainReads'
<1> USE StepsAssumption, TriesAssumption, PlanFacts
<1>1. CASE DownloadArtifacts
  BY <1>1 DEF DownloadArtifacts, Answered, Calling, GoTo, At, MainReads, Flying
<1>2. CASE GetPlan
  BY <1>2 DEF GetPlan, NextGroup, GoTo, At, TypeOK, MainReads, Flying
<1>3. CASE GetOutputs
  BY <1>3, GetOutputsStep DEF At, MainReads, Flying
<1>4. CASE EndGroup
  BY <1>4 DEF EndGroup, NextGroup, GoTo, At, TypeOK, MainReads, Flying
<1>5. CASE FailGroup
  BY <1>5 DEF FailGroup, Raise, At, MainReads, Flying
<1>6. ASSUME NEW s \in Steps, SetStepStarted(s) PROVE MainReads'
  BY <1>6 DEF SetStepStarted, GoTo, MainReads, Flying
<1>7. ASSUME NEW s \in Steps, GetServiceDeployYaml(s) PROVE MainReads'
  BY <1>7 DEF GetServiceDeployYaml, GoTo, MainReads, Flying
<1>8. ASSUME NEW s \in Steps, Build(s) PROVE MainReads'
  BY <1>8 DEF Build, GoTo, MainReads, Flying
<1>9. ASSUME NEW s \in Steps, CreateAccount(s) PROVE MainReads'
  BY <1>9 DEF CreateAccount, GoTo, MainReads, Flying
<1>10. ASSUME NEW s \in Steps, UpdateState(s) PROVE MainReads'
  BY <1>10 DEF UpdateState, GoTo, MainReads, Flying
<1>11. ASSUME NEW s \in Steps, CreateResource(s) PROVE MainReads'
  <2>1. PICK t \in Threads :
           Goes(s, t) /\ t.pc \in {"setStepFinished", "failed", "getExecution"}
    BY <1>11, PollStep
  <2>2. Went(s, t)
    BY <2>1, GoesFacts
  <2> QED
    BY <1>11, <2>1, <2>2, PollKeeps DEF Went, MainReads
<1>12. ASSUME NEW s \in Steps, GetExecution(s) PROVE MainReads'
  <2>1. PICK t \in Threads :
           Goes(s, t) /\ t.pc \in {"setStepFinished", "failed", "getExecution"}
    BY <1>12, PollStep
  <2>2. Went(s, t)
    BY <2>1, GoesFacts
  <2> QED
    BY <1>12, <2>1, <2>2, PollKeeps DEF Went, MainReads
<1>13. ASSUME NEW s \in Steps, SetStepFinished(s) PROVE MainReads'
  BY <1>13 DEF SetStepFinished, GoTo, MainReads, Flying
<1>14. ASSUME NEW x \in Callers, Unanswered(x) PROVE MainReads'
  <2>1. PICK t \in Threads :
           /\ Goes(x, t)
           /\ (t.pc = thread[x].pc /\ t.output = thread[x].output) \/ t.pc = "failed"
    BY <1>14, UnansweredStep
  <2>2. Went(x, t)
    BY <2>1, GoesFacts
  <2> QED
    BY <1>14, <2>1, <2>2, UnansweredKeeps DEF Went, MainReads
<1>15. ASSUME NEW x \in Callers, NEW t \in Threads, Run(x, t) PROVE MainReads'
  BY <1>15 DEF Run, MainReads, Flying
<1>16. ASSUME NEW a \in Attempts, Service(a) PROVE MainReads'
  BY <1>16 DEF Service, MainReads, Flying
<1>17. CASE Cancel
  BY <1>17 DEF Cancel, MainReads, Flying
<1>18. CASE UNCHANGED vars
  BY <1>18 DEF vars, MainReads, Flying
<1> QED
  BY <1>1, <1>2, <1>3, <1>4, <1>5, <1>6, <1>7, <1>8, <1>9, <1>10, <1>11, <1>12,
     <1>13, <1>14, <1>15, <1>16, <1>17, <1>18, StepCases

\* A group ends when its threads are done, and then its steps are finished.
LEMMA EarlierFinishedStep ==
    ASSUME TypeOK, MainReads, EarlierFinished, RecordedFirst, [Next]_vars
    PROVE  EarlierFinished'
<1> USE StepsAssumption, PlanFacts
<1>1. CASE DownloadArtifacts
  BY <1>1 DEF DownloadArtifacts, Answered, callFunction, EarlierFinished, store
<1>2. CASE GetPlan
  BY <1>2 DEF GetPlan, NextGroup, Answered, Calling, MainReads, EarlierFinished
<1>3. CASE GetOutputs
  BY <1>3, GetOutputsStep DEF EarlierFinished, store
<1>4. CASE EndGroup
  BY <1>4 DEF EndGroup, NextGroup, Joined, GoTo, TypeOK, EarlierFinished,
     RecordedFirst, Attempt, store
<1>5. CASE FailGroup
  BY <1>5 DEF FailGroup, EarlierFinished, store
<1>6. ASSUME NEW s \in Steps, SetStepStarted(s) PROVE EarlierFinished'
  BY <1>6 DEF SetStepStarted, Answered, callFunction, setStepStarted, EarlierFinished
<1>7. ASSUME NEW s \in Steps, GetServiceDeployYaml(s) PROVE EarlierFinished'
  BY <1>7 DEF GetServiceDeployYaml, Answered, callFunction, EarlierFinished, store
<1>8. ASSUME NEW s \in Steps, Build(s) PROVE EarlierFinished'
  BY <1>8 DEF Build, EarlierFinished, store
<1>9. ASSUME NEW s \in Steps, CreateAccount(s) PROVE EarlierFinished'
  BY <1>9 DEF CreateAccount, Answered, callFunction, createAccount, EarlierFinished
<1>10. ASSUME NEW s \in Steps, UpdateState(s) PROVE EarlierFinished'
  BY <1>10 DEF UpdateState, Answered, callFunction, updateState, EarlierFinished
<1>11. ASSUME NEW s \in Steps, CreateResource(s) PROVE EarlierFinished'
  <2>1. PICK t \in Threads :
           Goes(s, t) /\ t.pc \in {"setStepFinished", "failed", "getExecution"}
    BY <1>11, PollStep
  <2>2. Went(s, t)
    BY <2>1, GoesFacts
  <2> QED
    BY <1>11, <2>1, <2>2, PollKeeps DEF EarlierFinished
<1>12. ASSUME NEW s \in Steps, GetExecution(s) PROVE EarlierFinished'
  <2>1. PICK t \in Threads :
           Goes(s, t) /\ t.pc \in {"setStepFinished", "failed", "getExecution"}
    BY <1>12, PollStep
  <2>2. Went(s, t)
    BY <2>1, GoesFacts
  <2> QED
    BY <1>12, <2>1, <2>2, PollKeeps DEF EarlierFinished
<1>13. ASSUME NEW s \in Steps, SetStepFinished(s) PROVE EarlierFinished'
  BY <1>13 DEF SetStepFinished, Answered, callFunction, setStepFinished, EarlierFinished
<1>14. ASSUME NEW x \in Callers, Unanswered(x) PROVE EarlierFinished'
  <2>1. PICK t \in Threads :
           /\ Goes(x, t)
           /\ (t.pc = thread[x].pc /\ t.output = thread[x].output) \/ t.pc = "failed"
    BY <1>14, UnansweredStep
  <2>2. Went(x, t)
    BY <2>1, GoesFacts
  <2> QED
    BY <1>14, <2>1, <2>2, UnansweredKeeps DEF EarlierFinished, store
<1>15. ASSUME NEW x \in Callers, NEW t \in Threads, Run(x, t) PROVE EarlierFinished'
  BY <1>15 DEF Run, callFunction, setStepStarted, setStepFinished, updateState,
     createAccount, createResource, EarlierFinished, store
<1>16. ASSUME NEW a \in Attempts, Service(a) PROVE EarlierFinished'
  BY <1>16 DEF Service, EndResource, EarlierFinished
<1>17. CASE Cancel
  BY <1>17 DEF Cancel, EarlierFinished, store
<1>18. CASE UNCHANGED vars
  BY <1>18 DEF vars, EarlierFinished, store
<1> QED
  BY <1>1, <1>2, <1>3, <1>4, <1>5, <1>6, <1>7, <1>8, <1>9, <1>10, <1>11, <1>12,
     <1>13, <1>14, <1>15, <1>16, <1>17, <1>18, StepCases

\* A thread sends another call only after setStepStarted has run.
LEMMA StartedFirstStep ==
    ASSUME TypeOK, MainReads, StartedFirst, [Next]_vars
    PROVE  StartedFirst'
<1> USE StepsAssumption, TriesAssumption, PlanFacts
<1>1. CASE DownloadArtifacts
  BY <1>1 DEF DownloadArtifacts, Answered, callFunction, GoTo, StartedFirst, Flying,
     store
<1>2. CASE GetPlan
  BY <1>2 DEF GetPlan, NextGroup, Answered, callFunction, GoTo, TypeOK, StartedFirst,
     Flying, Attempt, store
<1>3. CASE GetOutputs
  BY <1>3, GetOutputsStep DEF At, StartedFirst, Flying, store
<1>4. CASE EndGroup
  BY <1>4 DEF EndGroup, NextGroup, GoTo, TypeOK, StartedFirst, Flying, store
<1>5. CASE FailGroup
  BY <1>5 DEF FailGroup, Raise, StartedFirst, Flying, store
<1>6. ASSUME NEW s \in Steps, SetStepStarted(s) PROVE StartedFirst'
  BY <1>6 DEF SetStepStarted, Answered, callFunction, setStepStarted, GoTo,
     StartedFirst, Flying
<1>7. ASSUME NEW s \in Steps, GetServiceDeployYaml(s) PROVE StartedFirst'
  BY <1>7 DEF GetServiceDeployYaml, Answered, Calling, callFunction, GoTo,
     StartedFirst, Flying, store
<1>8. ASSUME NEW s \in Steps, Build(s) PROVE StartedFirst'
  BY <1>8 DEF Build, Calling, GoTo, StartedFirst, Flying, store
<1>9. ASSUME NEW s \in Steps, CreateAccount(s) PROVE StartedFirst'
  BY <1>9 DEF CreateAccount, Answered, Calling, callFunction, createAccount, GoTo,
     StartedFirst, Flying
<1>10. ASSUME NEW s \in Steps, UpdateState(s) PROVE StartedFirst'
  BY <1>10 DEF UpdateState, Answered, Calling, callFunction, updateState, GoTo,
     StartedFirst, Flying
<1>11. ASSUME NEW s \in Steps, CreateResource(s) PROVE StartedFirst'
  <2>1. PICK t \in Threads :
           Goes(s, t) /\ t.pc \in {"setStepFinished", "failed", "getExecution"}
    BY <1>11, PollStep
  <2>2. Went(s, t)
    BY <2>1, GoesFacts
  <2> QED
    BY <1>11, <2>1, <2>2, PollKeeps DEF Went, StartedFirst
<1>12. ASSUME NEW s \in Steps, GetExecution(s) PROVE StartedFirst'
  <2>1. PICK t \in Threads :
           Goes(s, t) /\ t.pc \in {"setStepFinished", "failed", "getExecution"}
    BY <1>12, PollStep
  <2>2. Went(s, t)
    BY <2>1, GoesFacts
  <2> QED
    BY <1>12, <2>1, <2>2, PollKeeps DEF Went, StartedFirst
<1>13. ASSUME NEW s \in Steps, SetStepFinished(s) PROVE StartedFirst'
  BY <1>13 DEF SetStepFinished, Answered, Calling, callFunction, setStepFinished,
     GoTo, StartedFirst, Flying
<1>14. ASSUME NEW x \in Callers, Unanswered(x) PROVE StartedFirst'
  <2>1. PICK t \in Threads :
           /\ Goes(x, t)
           /\ (t.pc = thread[x].pc /\ t.output = thread[x].output) \/ t.pc = "failed"
    BY <1>14, UnansweredStep
  <2>2. Went(x, t)
    BY <2>1, GoesFacts
  <2> QED
    BY <1>14, <2>1, <2>2, UnansweredKeeps DEF Went, StartedFirst, store
<1>15. ASSUME NEW x \in Callers, NEW t \in Threads, Run(x, t) PROVE StartedFirst'
  BY <1>15 DEF Run, callFunction, setStepStarted, setStepFinished, updateState,
     createAccount, createResource, MainReads, StartedFirst, Flying, store
<1>16. ASSUME NEW a \in Attempts, Service(a) PROVE StartedFirst'
  BY <1>16 DEF Service, EndResource, StartedFirst, Flying
<1>17. CASE Cancel
  BY <1>17 DEF Cancel, StartedFirst, Flying, store
<1>18. CASE UNCHANGED vars
  BY <1>18 DEF vars, StartedFirst, Flying, store
<1> QED
  BY <1>1, <1>2, <1>3, <1>4, <1>5, <1>6, <1>7, <1>8, <1>9, <1>10, <1>11, <1>12,
     <1>13, <1>14, <1>15, <1>16, <1>17, <1>18, StepCases

\* The branch a thread takes at the switch is that of its kind.
LEMMA CallsOfKindStep ==
    ASSUME TypeOK, MainReads, CallsOfKind, [Next]_vars
    PROVE  CallsOfKind'
<1> USE StepsAssumption, PlanFacts
<1>1. CASE DownloadArtifacts
  BY <1>1 DEF DownloadArtifacts, GoTo, CallsOfKind
<1>2. CASE GetPlan
  BY <1>2 DEF GetPlan, NextGroup, GoTo, TypeOK, CallsOfKind
<1>3. CASE GetOutputs
  BY <1>3, GetOutputsStep DEF At, CallsOfKind
<1>4. CASE EndGroup
  BY <1>4 DEF EndGroup, NextGroup, GoTo, TypeOK, CallsOfKind
<1>5. CASE FailGroup
  BY <1>5 DEF FailGroup, Raise, CallsOfKind
<1>6. ASSUME NEW s \in Steps, SetStepStarted(s) PROVE CallsOfKind'
  BY <1>6 DEF SetStepStarted, Body, GoTo, At, CallsOfKind
<1>7. ASSUME NEW s \in Steps, GetServiceDeployYaml(s) PROVE CallsOfKind'
  BY <1>7 DEF GetServiceDeployYaml, Answered, Calling, GoTo, At, CallsOfKind
<1>8. ASSUME NEW s \in Steps, Build(s) PROVE CallsOfKind'
  BY <1>8 DEF Build, Calling, AfterBuild, GoTo, At, CallsOfKind
<1>9. ASSUME NEW s \in Steps, CreateAccount(s) PROVE CallsOfKind'
  BY <1>9 DEF CreateAccount, Answered, Calling, GoTo, At, CallsOfKind
<1>10. ASSUME NEW s \in Steps, UpdateState(s) PROVE CallsOfKind'
  BY <1>10 DEF UpdateState, GoTo, At, CallsOfKind
<1>11. ASSUME NEW s \in Steps, CreateResource(s) PROVE CallsOfKind'
  <2>1. PICK t \in Threads :
           Goes(s, t) /\ t.pc \in {"setStepFinished", "failed", "getExecution"}
    BY <1>11, PollStep
  <2>2. Went(s, t)
    BY <2>1, GoesFacts
  <2> QED
    BY <1>11, <2>1, <2>2, PollKeeps DEF Went, CallsOfKind
<1>12. ASSUME NEW s \in Steps, GetExecution(s) PROVE CallsOfKind'
  <2>1. PICK t \in Threads :
           Goes(s, t) /\ t.pc \in {"setStepFinished", "failed", "getExecution"}
    BY <1>12, PollStep
  <2>2. Went(s, t)
    BY <2>1, GoesFacts
  <2> QED
    BY <1>12, <2>1, <2>2, PollKeeps DEF Went, CallsOfKind
<1>13. ASSUME NEW s \in Steps, SetStepFinished(s) PROVE CallsOfKind'
  BY <1>13 DEF SetStepFinished, GoTo, At, CallsOfKind
<1>14. ASSUME NEW x \in Callers, Unanswered(x) PROVE CallsOfKind'
  <2>1. PICK t \in Threads :
           /\ Goes(x, t)
           /\ (t.pc = thread[x].pc /\ t.output = thread[x].output) \/ t.pc = "failed"
    BY <1>14, UnansweredStep
  <2>2. Went(x, t)
    BY <2>1, GoesFacts
  <2> QED
    BY <1>14, <2>1, <2>2, UnansweredKeeps DEF Went, CallsOfKind
<1>15. ASSUME NEW x \in Callers, NEW t \in Threads, Run(x, t) PROVE CallsOfKind'
  BY <1>15 DEF Run, CallsOfKind
<1>16. ASSUME NEW a \in Attempts, Service(a) PROVE CallsOfKind'
  BY <1>16 DEF Service, CallsOfKind
<1>17. CASE Cancel
  BY <1>17 DEF Cancel, CallsOfKind
<1>18. CASE UNCHANGED vars
  BY <1>18 DEF vars, CallsOfKind
<1> QED
  BY <1>1, <1>2, <1>3, <1>4, <1>5, <1>6, <1>7, <1>8, <1>9, <1>10, <1>11, <1>12,
     <1>13, <1>14, <1>15, <1>16, <1>17, <1>18, StepCases

\* A thread asks for setStepFinished only after updateState has run.
LEMMA RecordedFirstStep ==
    ASSUME TypeOK, MainReads, CallsOfKind, RecordedFirst, [Next]_vars
    PROVE  RecordedFirst'
<1> USE StepsAssumption, TriesAssumption, PlanFacts
<1>1. CASE DownloadArtifacts
  BY <1>1 DEF DownloadArtifacts, Answered, callFunction, GoTo, RecordedFirst,
     Recorded, Flying, store
<1>2. CASE GetPlan
  BY <1>2 DEF GetPlan, NextGroup, Answered, callFunction, GoTo, TypeOK,
     RecordedFirst, Recorded, Flying, store
<1>3. CASE GetOutputs
  BY <1>3, GetOutputsStep DEF At, CallsOfKind, RecordedFirst, Recorded, Flying, store
<1>4. CASE EndGroup
  BY <1>4 DEF EndGroup, NextGroup, GoTo, TypeOK, RecordedFirst, Recorded, Flying, store
<1>5. CASE FailGroup
  BY <1>5 DEF FailGroup, Raise, RecordedFirst, Recorded, Flying, store
<1>6. ASSUME NEW s \in Steps, SetStepStarted(s) PROVE RecordedFirst'
  BY <1>6 DEF SetStepStarted, Body, Answered, callFunction, setStepStarted, GoTo, At,
     RecordedFirst, Recorded, Flying
<1>7. ASSUME NEW s \in Steps, GetServiceDeployYaml(s) PROVE RecordedFirst'
  BY <1>7 DEF GetServiceDeployYaml, Answered, callFunction, GoTo, At, RecordedFirst,
     Recorded, Flying, store
<1>8. ASSUME NEW s \in Steps, Build(s) PROVE RecordedFirst'
  BY <1>8 DEF Build, AfterBuild, GoTo, At, RecordedFirst, Recorded, Flying, store
<1>9. ASSUME NEW s \in Steps, CreateAccount(s) PROVE RecordedFirst'
  BY <1>9 DEF CreateAccount, Answered, callFunction, createAccount, GoTo, At,
     RecordedFirst, Recorded, Flying
<1>10. ASSUME NEW s \in Steps, UpdateState(s) PROVE RecordedFirst'
  BY <1>10 DEF UpdateState, Answered, callFunction, updateState, GoTo, At, TypeOK,
     StoreTypeOK, RecordedFirst, Recorded, Flying
<1>11. ASSUME NEW s \in Steps, CreateResource(s) PROVE RecordedFirst'
  <2>1. PICK t \in Threads :
           Goes(s, t) /\ t.pc \in {"setStepFinished", "failed", "getExecution"}
    BY <1>11, PollStep
  <2>2. Went(s, t)
    BY <2>1, GoesFacts
  <2> QED
    BY <1>11, <2>1, <2>2, PollKeeps DEF Went, CallsOfKind, RecordedFirst, Recorded
<1>12. ASSUME NEW s \in Steps, GetExecution(s) PROVE RecordedFirst'
  <2>1. PICK t \in Threads :
           Goes(s, t) /\ t.pc \in {"setStepFinished", "failed", "getExecution"}
    BY <1>12, PollStep
  <2>2. Went(s, t)
    BY <2>1, GoesFacts
  <2> QED
    BY <1>12, <2>1, <2>2, PollKeeps DEF Went, CallsOfKind, RecordedFirst, Recorded
<1>13. ASSUME NEW s \in Steps, SetStepFinished(s) PROVE RecordedFirst'
  BY <1>13 DEF SetStepFinished, Answered, Calling, callFunction, setStepFinished,
     GoTo, RecordedFirst, Recorded, Flying
<1>14. ASSUME NEW x \in Callers, Unanswered(x) PROVE RecordedFirst'
  <2>1. PICK t \in Threads :
           /\ Goes(x, t)
           /\ (t.pc = thread[x].pc /\ t.output = thread[x].output) \/ t.pc = "failed"
    BY <1>14, UnansweredStep
  <2>2. Went(x, t)
    BY <2>1, GoesFacts
  <2> QED
    BY <1>14, <2>1, <2>2, UnansweredKeeps DEF Went, RecordedFirst, Recorded, store
<1>15. ASSUME NEW x \in Callers, NEW t \in Threads, Run(x, t) PROVE RecordedFirst'
  BY <1>15 DEF Run, callFunction, setStepStarted, setStepFinished, updateState,
     createAccount, createResource, TypeOK, StoreTypeOK, RecordedFirst, Recorded,
     Flying, store
<1>16. ASSUME NEW a \in Attempts, Service(a) PROVE RecordedFirst'
  BY <1>16 DEF Service, EndResource, RecordedFirst, Recorded, Flying
<1>17. CASE Cancel
  BY <1>17 DEF Cancel, RecordedFirst, Recorded, Flying, store
<1>18. CASE UNCHANGED vars
  BY <1>18 DEF vars, RecordedFirst, Recorded, Flying, store
<1> QED
  BY <1>1, <1>2, <1>3, <1>4, <1>5, <1>6, <1>7, <1>8, <1>9, <1>10, <1>11, <1>12,
     <1>13, <1>14, <1>15, <1>16, <1>17, <1>18, StepCases

\* What a thread of a step leaves alone.
LEMMA StepThreadStep ==
    ASSUME TypeOK, NEW s \in Steps, StepThread(s)
    PROVE  /\ thread[s].pc \in Functions \cup {"build"}
           /\ \E t \in Threads : Goes(s, t)
           /\ started' \subseteq started \cup {s}
           /\ account \subseteq account'
           /\ \A r \in Steps \ {s} : element'[r] = element[r]
           /\ UNCHANGED <<status, group, outputs, lost>>
<1> USE TriesAssumption, StepsAssumption DEF Pcs
<1>1. CASE SetStepStarted(s)
  <2>1. PICK pc \in Pcs : GoTo(s, pc, 0)
    BY <1>1 DEF SetStepStarted, Body
  <2> QED
    BY <1>1, <2>1, GoToGoes DEF SetStepStarted, Answered, Calling, callFunction,
       setStepStarted, Goes
<1>2. CASE GetServiceDeployYaml(s)
  <2>1. PICK pc \in Pcs : GoTo(s, pc, 0)
    BY <1>2 DEF GetServiceDeployYaml
  <2> QED
    BY <1>2, <2>1, GoToGoes DEF GetServiceDeployYaml, Answered, Calling,
       callFunction, store, Goes
<1>3. CASE Build(s)
  <2>1. PICK pc \in Pcs : GoTo(s, pc, 0)
    BY <1>3 DEF Build, AfterBuild
  <2> QED
    BY <1>3, <2>1, GoToGoes DEF Build, Calling, store, Goes
<1>4. CASE CreateAccount(s)
  <2>1. thread[s].try \in Outputs /\ GoTo(s, "updateState", thread[s].try)
    BY <1>4 DEF CreateAccount, TypeOK
  <2> QED
    BY <1>4, <2>1, GoToGoes DEF CreateAccount, Answered, Calling, callFunction,
       createAccount, Goes
<1>5. CASE UpdateState(s)
  <2>1. /\ thread[s].pc = "updateState"
        /\ updateState(s, thread[s].output)
        /\ GoTo(s, "setStepFinished", 0)
        /\ UNCHANGED <<status, group, outputs, lost>>
    BY <1>5 DEF UpdateState, Answered, Calling, callFunction
  <2>2. \A r \in Steps \ {s} : element'[r] = element[r]
    BY <2>1 DEF updateState, TypeOK, StoreTypeOK
  <2>3. \E t \in Threads : Goes(s, t)
    BY <2>1, GoToGoes DEF Goes
  <2> QED
    BY <2>1, <2>2, <2>3 DEF updateState
<1>6. CASE CreateResource(s) \/ GetExecution(s)
  BY <1>6, PollStep, PollKeeps
<1>7. CASE SetStepFinished(s)
  <2>1. GoTo(s, "done", 0)
    BY <1>7 DEF SetStepFinished
  <2> QED
    BY <1>7, <2>1, GoToGoes DEF SetStepFinished, Answered, Calling, callFunction,
       setStepFinished, Goes
<1> QED
  BY <1>1, <1>2, <1>3, <1>4, <1>5, <1>6, <1>7 DEF StepThread

\* What the main thread leaves alone, but for the start of a group.
LEMMA MainStep ==
    ASSUME TypeOK, MainReads, DownloadArtifacts \/ GetPlan \/ EndGroup \/ FailGroup
    PROVE  /\ UNCHANGED store
           /\ Reached <= Reached'
           /\ \A s \in Steps :
                 /\ thread'[s] = thread[s]
                 /\ \A t \in Threads : Flying(s, t)' => Flying(s, t)
<1> USE StepsAssumption, PlanFacts DEF TypeOK, Flying, Reached
<1>1. CASE DownloadArtifacts
  BY <1>1 DEF DownloadArtifacts, Answered, Calling, callFunction, GoTo, At, store
<1>2. CASE GetPlan
  BY <1>2 DEF GetPlan, NextGroup, Answered, Calling, callFunction, GoTo, At, store
<1>3. CASE EndGroup
  BY <1>3 DEF EndGroup, NextGroup, Calling, GoTo, At, store
<1>4. CASE FailGroup
  BY <1>4 DEF FailGroup, Calling, Raise, At, store
<1> QED
  BY <1>1, <1>2, <1>3, <1>4

-----------------------------------------------------------------------------
(* BegunInGroup *)

\* No step begins, and no group is left.
LEMMA BegunBefore ==
    ASSUME TypeOK, TypeOK', MainReads, MainReads', BegunInGroup,
           Reached <= Reached', \A s \in Steps : Begun(s)' => Begun(s)
    PROVE  BegunInGroup'
<1>1. Reached \in Nat
  BY PlanFacts DEF Reached, TypeOK, MainReads
<1>2. Reached' \in Nat
  <2>1. group' \in Nat
    BY PlanFacts DEF TypeOK
  <2>2. CASE thread'[Main].pc = "getOutputs"
    <3>1. PICK n \in Nat : group' = n
      BY <2>1
    <3>2. n # 0 /\ Reached' = n - 1
      BY <2>2, <3>1 DEF MainReads, Reached
    <3>3. n - 1 \in Nat
      BY <3>2
    <3> QED
      BY <3>2, <3>3
  <2>3. CASE thread'[Main].pc # "getOutputs"
    <3>1. Reached' = group'
      BY <2>3 DEF Reached
    <3> QED
      BY <2>1, <3>1
  <2> QED
    BY <2>2, <2>3
<1> SUFFICES ASSUME NEW s \in Steps, Begun(s) PROVE InGroups(s, Reached')
  BY DEF BegunInGroup, InGroups
<1>3. PICK i \in 1 .. Reached : s \in Plan[i]
  BY DEF BegunInGroup, InGroups
<1> QED
  BY <1>1, <1>2, <1>3 DEF InGroups

\* Only the start of a group begins a step.
LEMMA BegunInGroupStep ==
    ASSUME TypeOK, TypeOK', MainReads, MainReads', BegunInGroup, [Next]_vars
    PROVE  BegunInGroup'
<1>1. CASE GetOutputs
  <2>1. /\ thread[Main].pc = "getOutputs" /\ thread'[Main].pc = "groups"
        /\ group \in 1 .. Len(Plan) /\ group' = group
        /\ \A s \in Steps \ Plan[group] :
              /\ thread'[s] = thread[s]
              /\ \A t \in Threads : Flying(s, t)' => Flying(s, t)
        /\ started' = started
    BY <1>1, GetOutputsStep DEF Flying, At, store
  <2>2. Reached = group - 1 /\ Reached' = group
    BY <2>1 DEF Reached
  <2>3. ASSUME NEW s \in Steps, Begun(s)' PROVE InGroups(s, group)
    <3>1. CASE s \in Plan[group]
      BY <2>1, <3>1 DEF InGroups, TypeOK
    <3>2. CASE s \notin Plan[group]
      <4>1. Begun(s)
        BY <2>1, <2>3, <3>2 DEF Begun
      <4> QED
        BY <2>1, <2>2, <4>1 DEF BegunInGroup, InGroups
    <3> QED
      BY <3>1, <3>2
  <2> QED
    BY <2>2, <2>3 DEF BegunInGroup, InGroups
<1>2. CASE DownloadArtifacts \/ GetPlan \/ EndGroup \/ FailGroup
  <2>1. \A s \in Steps : Begun(s)' => Begun(s)
    <3>1. started' = started
      BY <1>2, MainStep DEF store
    <3>2. \A s \in Steps : thread'[s] = thread[s] /\ \A t \in Threads : Flying(s, t)' => Flying(s, t)
      BY <1>2, MainStep
    <3> QED
      BY <3>1, <3>2 DEF Begun
  <2>2. Reached <= Reached'
    BY <1>2, MainStep
  <2> QED
    BY <2>1, <2>2, BegunBefore
<1>3. ASSUME NEW x \in Steps, StepThread(x) PROVE BegunInGroup'
  <2>1. /\ thread[x].pc \in Functions \cup {"build"}
        /\ started' \subseteq started \cup {x}
        /\ group' = group
    BY <1>3, StepThreadStep
  <2>2. PICK t \in Threads : Goes(x, t)
    BY <1>3, StepThreadStep
  <2>3. /\ \A y \in Callers \ {x} : thread'[y] = thread[y]
        /\ \A y \in Callers, u \in Threads :
              Flying(y, u)' => Flying(y, u) \/ y = x
    BY <2>2, GoesFacts DEF Went
  <2>4. \A s \in Steps : Begun(s)' => Begun(s)
    BY <2>1, <2>3 DEF Begun
  <2>5. Reached <= Reached'
    BY <2>1, <2>3, StepsAssumption DEF Reached, TypeOK
  <2> QED
    BY <2>4, <2>5, BegunBefore
<1>4. ASSUME NEW x \in Callers, Unanswered(x) PROVE BegunInGroup'
  <2>1. thread[x].pc \in Functions /\ group' = group /\ started' = started
    BY <1>4, UnansweredKeeps DEF store
  <2>2. PICK t \in Threads : Goes(x, t) /\ t.pc \in {thread[x].pc, "failed"}
    BY <1>4, UnansweredStep
  <2>3. /\ thread'[x] = t
        /\ \A y \in Callers \ {x} : thread'[y] = thread[y]
        /\ \A y \in Callers, u \in Threads :
              Flying(y, u)' => Flying(y, u) \/ y = x
    BY <2>2, GoesFacts DEF Went
  <2>4. \A s \in Steps : Begun(s)' => Begun(s)
    BY <2>1, <2>3 DEF Begun
  <2>5. Reached <= Reached'
    BY <2>1, <2>2, <2>3 DEF Reached, TypeOK
  <2> QED
    BY <2>4, <2>5, BegunBefore
<1>5. ASSUME NEW x \in Callers, NEW t \in Threads, Run(x, t) PROVE BegunInGroup'
  <2>1. /\ Flying(x, t) /\ sent' \subseteq sent
        /\ UNCHANGED <<group, thread>>
        /\ started' \subseteq started \cup {x}
    BY <1>5 DEF Run, callFunction, setStepStarted, setStepFinished, updateState,
       createAccount, createResource, store, Flying
  <2>2. \A s \in Steps : Begun(s)' => Begun(s)
    BY <2>1 DEF Begun, Flying
  <2> QED
    BY <2>1, <2>2, BegunBefore DEF Reached, TypeOK
<1>6. CASE (\E a \in Attempts : Service(a)) \/ Cancel \/ UNCHANGED vars
  <2>1. UNCHANGED <<started, group, thread, sent>>
    BY <1>6 DEF Service, EndResource, Cancel, vars, store
  <2> QED
    BY <2>1 DEF BegunInGroup, Begun, InGroups, Reached, Flying
<1> QED
  BY <1>1, <1>2, <1>3, <1>4, <1>5, <1>6, StepCases DEF StepThread

-----------------------------------------------------------------------------
(* OneAccount *)

\* What a step does elsewhere leaves the account of s as it was.
LEMMA Elsewhere ==
    ASSUME NEW s \in Steps, OneAccountOf(s),
           thread'[s] = thread[s], element'[s] = element[s], account \subseteq account',
           \A t \in Threads : Flying(s, t)' => Flying(s, t)
    PROVE  OneAccountOf(s)'
BY DEF OneAccountOf

\* A function that may be called for an account, run for s.
LEMMA AccountCall ==
    ASSUME TypeOK, NEW s \in Steps, Kind[s] = "account", OneAccountOf(s),
           NEW t \in Threads, callFunction(s, t.pc, t.try, t.output),
           Flying(s, t), UNCHANGED thread, sent' \subseteq sent
    PROVE  OneAccountOf(s)'
<1>1. CASE t.pc = "updateState"
  <2>1. updateState(s, t.output) /\ t.output \in Outputs
    BY <1>1 DEF callFunction
  <2>2. element'[s] = t.output /\ account' = account
    BY <2>1 DEF updateState, TypeOK, StoreTypeOK
  <2>3. \A u \in Threads : Flying(s, u)' => Flying(s, u)
    BY DEF Flying
  <2> QED
    BY <1>1, <2>2, <2>3 DEF OneAccountOf
<1>2. CASE t.pc # "updateState"
  <2>1. element' = element /\ account \subseteq account'
    BY <1>2 DEF callFunction, setStepStarted, setStepFinished, createAccount,
       createResource, store
  <2> QED
    BY <2>1, Elsewhere DEF Flying
<1> QED
  BY <1>1, <1>2

\* The thread of s itself goes on.
LEMMA AccountThread ==
    ASSUME TypeOK, CallsOfKind, NEW s \in Steps, Kind[s] = "account", OneAccountOf(s),
           StepThread(s)
    PROVE  OneAccountOf(s)'
<1> USE TriesAssumption DEF Pcs
<1>1. CASE SetStepStarted(s)
  <2>1. PICK pc \in {"createAccount", "failed"} : GoTo(s, pc, 0)
    BY <1>1 DEF SetStepStarted, Body
  <2>2. Goes(s, At(pc, 1, 0)) /\ At(pc, 1, 0).pc = pc /\ At(pc, 1, 0) \in Threads
    BY <2>1, GoToGoes DEF At, Goes
  <2>3. thread[s].pc = "setStepStarted" /\ UNCHANGED <<element, account>>
    BY <1>1 DEF SetStepStarted, Answered, Calling, callFunction, setStepStarted
  <2>4. /\ thread'[s].pc = pc
        /\ \A u \in Threads : Flying(s, u)' => Flying(s, u) \/ u.pc # "updateState"
    BY <2>1, <2>2, GoesFacts DEF Went
  <2> QED
    BY <2>1, <2>3, <2>4 DEF OneAccountOf, Early
<1>2. CASE CreateAccount(s)
  <2> DEFINE a == thread[s].try
             t == At("updateState", 1, a)
  <2>1. /\ thread[s].pc = "createAccount"
        /\ GoTo(s, "updateState", a)
        /\ a \in Outputs
        /\ element' = element
        /\ account' = account \cup {<<s, a>>}
    BY <1>2 DEF CreateAccount, Answered, Calling, callFunction, createAccount, TypeOK
  <2>2. Goes(s, t) /\ t.pc = "updateState" /\ t.output = a /\ t \in Threads
    BY <2>1, GoToGoes DEF At, Goes
  <2> HIDE DEF t
  <2>3. /\ thread'[s] = t
        /\ \A u \in Threads : Flying(s, u)' => Flying(s, u) \/ u = t
    BY <2>2, GoesFacts DEF Went
  <2> HIDE DEF a
  <2> QED
    BY <2>1, <2>2, <2>3 DEF OneAccountOf, Early
<1>3. CASE UpdateState(s)
  <2> DEFINE a == thread[s].output
             t == At("setStepFinished", 1, 0)
  <2>1. /\ thread[s].pc = "updateState"
        /\ Flying(s, thread[s])
        /\ updateState(s, a)
        /\ GoTo(s, "setStepFinished", 0)
        /\ a \in Outputs
    BY <1>3 DEF UpdateState, Answered, Calling, Attempt, Flying, callFunction, TypeOK
  <2>2. Goes(s, t) /\ t.pc = "setStepFinished"
    BY <2>1, GoToGoes DEF At
  <2> HIDE DEF t
  <2>3. /\ thread'[s] = t
        /\ \A u \in Threads : Flying(s, u)' => Flying(s, u) \/ u = t
    <3>1. t \in Threads
      BY <2>2 DEF Goes
    <3> QED
      BY <2>2, <3>1, GoesFacts DEF Went
  <2>4. element'[s] = a /\ account' = account
    BY <2>1 DEF updateState, TypeOK, StoreTypeOK
  <2>5. thread[s] \in Threads
    BY DEF TypeOK
  <2> QED
    BY <2>1, <2>2, <2>3, <2>4, <2>5 DEF OneAccountOf, Early
<1>4. CASE SetStepFinished(s)
  <2> DEFINE t == At("done", 1, 0)
  <2>1. /\ thread[s].pc = "setStepFinished"
        /\ UNCHANGED <<element, account>>
        /\ GoTo(s, "done", 0)
    BY <1>4 DEF SetStepFinished, Answered, Calling, callFunction, setStepFinished
  <2>2. Goes(s, t) /\ t.pc = "done"
    BY <2>1, GoToGoes DEF At
  <2> HIDE DEF t
  <2>3. /\ thread'[s] = t
        /\ \A u \in Threads : Flying(s, u)' => Flying(s, u) \/ u.pc # "updateState"
    <3>1. t \in Threads
      BY <2>2 DEF Goes
    <3> QED
      BY <2>2, <3>1, GoesFacts DEF Went
  <2> QED
    BY <2>1, <2>2, <2>3 DEF OneAccountOf, Early
<1>5. ~(GetServiceDeployYaml(s) \/ Build(s) \/ CreateResource(s) \/ GetExecution(s))
  BY DEF CallsOfKind, GetServiceDeployYaml, Build, CreateResource, GetExecution,
     Answered, Calling
<1> QED
  BY <1>1, <1>2, <1>3, <1>4, <1>5 DEF StepThread

\* A new attempt carries the account of the one that was given up.
LEMMA AccountUnanswered ==
    ASSUME TypeOK, NEW s \in Steps, OneAccountOf(s), Unanswered(s)
    PROVE  OneAccountOf(s)'
<1>1. thread[s].pc \in Functions /\ UNCHANGED <<element, account>>
  BY UnansweredKeeps DEF store
<1>2. PICK t \in Threads :
         /\ Goes(s, t)
         /\ (t.pc = thread[s].pc /\ t.output = thread[s].output) \/ t.pc = "failed"
  BY UnansweredStep
<1>3. /\ thread'[s] = t
      /\ \A u \in Threads :
            Flying(s, u)' => Flying(s, u) \/ (u = t /\ t.pc \in Functions)
  BY <1>2, GoesFacts DEF Went
<1>4. CASE t.pc = "failed"
  BY <1>1, <1>3, <1>4 DEF OneAccountOf, Early
<1>5. CASE t.pc = thread[s].pc /\ t.output = thread[s].output
  BY <1>1, <1>3, <1>5 DEF OneAccountOf, Early
<1> QED
  BY <1>2, <1>4, <1>5

\* The thread of an account, its attempts in flight, and all the others.
LEMMA OneAccountStep ==
    ASSUME TypeOK, MainReads, BegunInGroup, CallsOfKind, OneAccount, [Next]_vars
    PROVE  OneAccount'
<1> SUFFICES ASSUME NEW s \in Steps, Kind[s] = "account"
             PROVE  OneAccountOf(s)'
  BY DEF OneAccount
<1>0. OneAccountOf(s)
  BY DEF OneAccount
<1>1. CASE GetOutputs
  <2>1. UNCHANGED <<element, account>>
    BY <1>1, GetOutputsStep DEF store
  <2>2. CASE s \notin Plan[group]
    <3>1. thread'[s] = thread[s] /\ \A t \in Threads : Flying(s, t)' => Flying(s, t)
      BY <1>1, <2>2, GetOutputsStep DEF Flying
    <3> QED
      BY <1>0, <2>1, <3>1, Elsewhere
  <2>3. CASE s \in Plan[group]
    <3>1. /\ thread[Main].pc = "getOutputs" /\ group \in 1 .. Len(Plan)
          /\ thread'[s].pc = "setStepStarted"
          /\ \A t \in Threads : Flying(s, t)' => Flying(s, t) \/ t.pc = "setStepStarted"
      BY <1>1, <2>3, GetOutputsStep DEF At, Flying
    <3>2. ~InGroups(s, group - 1)
      BY <2>3, <3>1, PlanFacts DEF InGroups
    <3>3. ~Begun(s)
      BY <3>1, <3>2 DEF BegunInGroup, Reached
    <3> QED
      BY <1>0, <2>1, <3>1, <3>3 DEF OneAccountOf, Early, Begun
  <2> QED
    BY <2>2, <2>3
<1>2. CASE DownloadArtifacts \/ GetPlan \/ EndGroup \/ FailGroup
  <2>1. /\ UNCHANGED <<element, account>>
        /\ thread'[s] = thread[s]
        /\ \A t \in Threads : Flying(s, t)' => Flying(s, t)
    BY <1>2, MainStep DEF store
  <2> QED
    BY <1>0, <2>1, Elsewhere
<1>3. ASSUME NEW x \in Steps, StepThread(x) PROVE OneAccountOf(s)'
  <2>1. CASE x = s
    BY <1>0, <1>3, <2>1, AccountThread
  <2>2. CASE x # s
    <3>1. element'[s] = element[s] /\ account \subseteq account'
      BY <1>3, <2>2, StepThreadStep
    <3>2. PICK t \in Threads : Goes(x, t)
      BY <1>3, StepThreadStep
    <3>3. thread'[s] = thread[s] /\ \A u \in Threads : Flying(s, u)' => Flying(s, u)
      BY <2>2, <3>2, GoesFacts DEF Went
    <3> QED
      BY <1>0, <3>1, <3>3, Elsewhere
  <2> QED
    BY <2>1, <2>2
<1>4. ASSUME NEW x \in Callers, Unanswered(x) PROVE OneAccountOf(s)'
  <2>1. CASE x = s
    BY <1>0, <1>4, <2>1, AccountUnanswered
  <2>2. CASE x # s
    <3>1. UNCHANGED <<element, account>>
      BY <1>4, UnansweredKeeps DEF store
    <3>2. PICK t \in Threads : Goes(x, t)
      BY <1>4, UnansweredStep
    <3>3. thread'[s] = thread[s] /\ \A u \in Threads : Flying(s, u)' => Flying(s, u)
      BY <2>2, <3>2, GoesFacts DEF Went
    <3> QED
      BY <1>0, <3>1, <3>3, Elsewhere
  <2> QED
    BY <2>1, <2>2
<1>5. ASSUME NEW x \in Callers, NEW t \in Threads, Run(x, t) PROVE OneAccountOf(s)'
  <2>1. /\ Flying(x, t)
        /\ callFunction(x, t.pc, t.try, t.output)
        /\ UNCHANGED thread
        /\ sent' \subseteq sent
    BY <1>5 DEF Run, Flying
  <2>2. CASE x = s
    BY <1>0, <2>1, <2>2, AccountCall
  <2>3. CASE x \in Steps \ {s}
    <3>1. element'[s] = element[s] /\ account \subseteq account'
      BY <2>1, <2>3 DEF callFunction, setStepStarted, setStepFinished, updateState,
         createAccount, createResource, store, TypeOK, StoreTypeOK
    <3> QED
      BY <1>0, <2>1, <3>1, Elsewhere DEF Flying
  <2>4. CASE x = Main
    <3>1. UNCHANGED store
      BY <2>1, <2>4 DEF callFunction, MainReads
    <3> QED
      BY <1>0, <2>1, <3>1, Elsewhere DEF Flying, store
  <2> QED
    BY <2>2, <2>3, <2>4
<1>6. CASE (\E a \in Attempts : Service(a)) \/ Cancel \/ UNCHANGED vars
  <2>1. UNCHANGED <<element, account, thread, sent>>
    BY <1>6 DEF Service, EndResource, Cancel, vars, store
  <2> QED
    BY <1>0, <2>1, Elsewhere DEF Flying
<1> QED
  BY <1>1, <1>2, <1>3, <1>4, <1>5, <1>6, StepCases DEF StepThread

-----------------------------------------------------------------------------
(* The urls of the services *)

\* No thread but those that GetOutputs starts comes to setStepStarted.
LEMMA NotBackToStart ==
    ASSUME TypeOK, NEW s \in Steps, StepThread(s)
    PROVE  /\ \A r \in Steps : thread'[r].pc = "setStepStarted" => thread[r].pc = "setStepStarted"
           /\ thread'[Main] = thread[Main]
<1> USE TriesAssumption, StepsAssumption
<1>1. CASE CreateResource(s) \/ GetExecution(s)
  BY <1>1, PollStep, GoesFacts DEF Went
<1>2. CASE UpdateState(s)
  BY <1>2 DEF UpdateState, GoTo, At, TypeOK
<1>3. CASE SetStepStarted(s)
  BY <1>3 DEF SetStepStarted, Body, GoTo, At, TypeOK
<1>4. CASE GetServiceDeployYaml(s) \/ Build(s) \/ CreateAccount(s) \/ SetStepFinished(s)
  BY <1>4 DEF GetServiceDeployYaml, Build, AfterBuild, CreateAccount, SetStepFinished,
     GoTo, At, TypeOK
<1> QED
  BY <1>1, <1>2, <1>3, <1>4 DEF StepThread

\* A group ends when all its threads have ended.
LEMMA FirstCallsInGroupStep ==
    ASSUME TypeOK, MainReads, FirstCallsInGroup, [Next]_vars
    PROVE  FirstCallsInGroup'
<1> USE StepsAssumption, PlanFacts
<1>1. CASE DownloadArtifacts \/ GetPlan
  BY <1>1, MainStep DEF DownloadArtifacts, GetPlan, Answered, Calling, FirstCallsInGroup
<1>2. CASE GetOutputs
  BY <1>2, GetOutputsStep DEF FirstCallsInGroup, At
<1>3. CASE EndGroup \/ FailGroup
  <2>1. \A s \in Steps : thread[s].pc # "setStepStarted"
    BY <1>3 DEF EndGroup, FailGroup, Joined, FirstCallsInGroup
  <2> QED
    BY <1>3, <2>1, MainStep DEF FirstCallsInGroup
<1>4. ASSUME NEW s \in Steps, StepThread(s) PROVE FirstCallsInGroup'
  BY <1>4, NotBackToStart, StepThreadStep DEF FirstCallsInGroup
<1>5. ASSUME NEW x \in Callers, Unanswered(x) PROVE FirstCallsInGroup'
  <2>1. PICK t \in Threads :
           /\ Goes(x, t)
           /\ (t.pc = thread[x].pc /\ t.output = thread[x].output) \/ t.pc = "failed"
    BY <1>5, UnansweredStep
  <2>2. Went(x, t) /\ thread[x].pc # "groups" /\ group' = group
    BY <1>5, <2>1, GoesFacts, UnansweredKeeps
  <2> QED
    BY <2>1, <2>2 DEF Went, FirstCallsInGroup
<1>6. CASE UNCHANGED <<thread, group>>
  BY <1>6 DEF FirstCallsInGroup
<1>7. ASSUME \/ \E x \in Callers, t \in Threads : Run(x, t)
             \/ (\E a \in Attempts : Service(a)) \/ Cancel \/ UNCHANGED vars
      PROVE  UNCHANGED <<thread, group>>
  BY <1>7 DEF Run, Service, Cancel, vars
<1> QED
  BY <1>1, <1>2, <1>3, <1>4, <1>5, <1>6, <1>7, StepCases DEF StepThread

\* getOutputs is answered after the groups before have been finished, and their
\* services recorded.
LEMMA OutputsKnownStep ==
    ASSUME TypeOK, MainReads, EarlierFinished, RecordedFirst, OutputsKnown, [Next]_vars
    PROVE  OutputsKnown'
<1> USE StepsAssumption, PlanFacts
<1>1. CASE DownloadArtifacts \/ GetPlan \/ EndGroup \/ FailGroup
  BY <1>1 DEF DownloadArtifacts, GetPlan, EndGroup, FailGroup, NextGroup, Raise, GoTo, At,
     TypeOK, OutputsKnown
<1>2. CASE GetOutputs
  <2>1. /\ outputs' = DeployedServices /\ group' = group /\ group \in 1 .. Len(Plan)
    BY <1>2, GetOutputsStep DEF GetOutputs, OutputsRead
  <2>2. ASSUME NEW i \in 1 .. group - 1, NEW s \in Plan[i], Kind[s] = "service"
        PROVE  s \in DeployedServices
    <3>1. s \in Steps /\ s \in finished
      BY <2>1, <2>2 DEF EarlierFinished
    <3> QED
      BY <2>2, <3>1 DEF RecordedFirst, Recorded, DeployedServices
  <2> QED
    BY <2>1, <2>2 DEF OutputsKnown
<1>3. ASSUME NEW s \in Steps, StepThread(s) PROVE OutputsKnown'
  BY <1>3, NotBackToStart, StepThreadStep DEF OutputsKnown
<1>4. ASSUME NEW x \in Callers, Unanswered(x) PROVE OutputsKnown'
  <2>1. PICK t \in Threads :
           /\ Goes(x, t)
           /\ (t.pc = thread[x].pc /\ t.output = thread[x].output) \/ t.pc = "failed"
    BY <1>4, UnansweredStep
  <2>2. Went(x, t) /\ UNCHANGED <<group, outputs>>
    BY <1>4, <2>1, GoesFacts, UnansweredKeeps
  <2> QED
    BY <2>1, <2>2 DEF Went, OutputsKnown
<1>5. CASE UNCHANGED <<thread, group, outputs>>
  BY <1>5 DEF OutputsKnown
<1>6. ASSUME \/ \E x \in Callers, t \in Threads : Run(x, t)
             \/ (\E a \in Attempts : Service(a)) \/ Cancel \/ UNCHANGED vars
      PROVE  UNCHANGED <<thread, group, outputs>>
  BY <1>6 DEF Run, Service, Cancel, vars
<1> QED
  BY <1>1, <1>2, <1>3, <1>4, <1>5, <1>6, StepCases DEF StepThread

-----------------------------------------------------------------------------
(* The resources *)

\* What GoTo takes out of flight: the attempt that was answered.
LEMMA GoToFlying ==
    ASSUME TypeOK, NEW x \in Callers, NEW pc \in Pcs, NEW out \in Outputs, GoTo(x, pc, out)
    PROVE  /\ thread'[x] \in Threads
           /\ thread'[x].pc = pc /\ thread'[x].try = 1 /\ thread'[x].output = out
           /\ \A t \in Threads : Flying(x, t)' =>
                 (Flying(x, t) /\ t # thread[x]) \/ (t = thread'[x] /\ pc \in Functions)
<1>1. /\ At(pc, 1, out) \in Threads
      /\ At(pc, 1, out).pc = pc /\ At(pc, 1, out).try = 1 /\ At(pc, 1, out).output = out
  BY TriesAssumption DEF At, Pcs
<1>2. thread'[x] = At(pc, 1, out)
  BY DEF GoTo, TypeOK
<1>3. sent' \subseteq (sent \ {<<x, thread[x]>>}) \cup
                         (IF pc \in Functions THEN {<<x, thread'[x]>>} ELSE {})
  BY <1>2 DEF GoTo, Attempt
<1> QED
  BY <1>1, <1>2, <1>3 DEF Flying

\* Two attempts at a call with the same arguments differ in their number.
LEMMA OtherTry ==
    ASSUME NEW t \in Threads, NEW u \in Threads, t # u, t.pc = u.pc, t.output = u.output
    PROVE  t.try # u.try
OBVIOUS

\* A poll goes on only when the creation has succeeded, and otherwise follows
\* the same one.
LEMMA PollFollows ==
    ASSUME NEW s \in Steps, NEW state, NEW out \in Outputs, Poll(s, state, out)
    PROVE  \E pc \in {"setStepFinished", "failed", "getExecution"}, o \in Outputs :
              /\ GoTo(s, pc, o)
              /\ pc = "setStepFinished" => state = "SUCCEEDED"
              /\ pc = "getExecution" => o = out
<1>1. 0 \in Outputs
  BY TriesAssumption
<1>2. CASE state = "SUCCEEDED"
  BY <1>1, <1>2 DEF Poll
<1>3. CASE state # "SUCCEEDED" /\ state = "ACTIVE"
  BY <1>3 DEF Poll
<1>4. CASE state # "SUCCEEDED" /\ state # "ACTIVE"
  BY <1>1, <1>4 DEF Poll
<1> QED
  BY <1>2, <1>3, <1>4

\* An attempt after the first is numbered one more.
LEMMA AgainStep ==
    ASSUME TypeOK, NEW x \in Callers, Unanswered(x)
    PROVE  \E t \in Threads :
              /\ Goes(x, t)
              /\ \/ /\ t.pc = thread[x].pc
                    /\ t.output = thread[x].output
                    /\ t.try = thread[x].try + 1
                 \/ t.pc = "failed"
<1>1. CASE GiveUp(x) /\ MayRetry(x)
  <2>1. Again(x) \in Threads
    BY <1>1, TriesAssumption DEF TypeOK, Again, At, MayRetry
  <2>2. /\ Again(x).pc = thread[x].pc
        /\ Again(x).output = thread[x].output
        /\ Again(x).try = thread[x].try + 1
    BY DEF Again, At
  <2>3. Goes(x, Again(x))
    BY <1>1, <2>1, <2>2 DEF Goes, GiveUp
  <2> QED
    BY <2>1, <2>2, <2>3
<1>2. CASE Raise(x) /\ sent' \subseteq sent
  BY <1>2, RaiseGoes
<1> QED
  BY <1>1, <1>2 DEF Unanswered, GiveUp, Refused

\* The creation a stays as it is, or ends.
Ends(a) ==
    \/ resource'[a] = resource[a]
    \/ resource[a] = "ACTIVE" /\ resource'[a] \in {"SUCCEEDED", "FAILED"}

\* What a step does elsewhere, and the service itself, leave the creations of s
\* to their threads.
LEMMA ElsewhereResource ==
    ASSUME NEW s \in Steps, OneResourceOf(s), thread'[s] = thread[s],
           s \in finished' => Created(s),
           \A n \in 1 .. MaxTries : Ends(<<s, n>>),
           \A t \in Threads : Flying(s, t)' => Flying(s, t)
    PROVE  OneResourceOf(s)'
<1>1. Created(s) => Created(s)'
  BY DEF Created, Ends
<1>2. \A n \in 1 .. MaxTries : resource[<<s, n>>] = None => resource'[<<s, n>>] = None
  BY NoneAssumption DEF Ends
<1>3. \A n \in 1 .. MaxTries : resource[<<s, n>>] # None => resource'[<<s, n>>] # None
  BY NoneAssumption DEF Ends
<1> QED
  BY <1>1, <1>2, <1>3 DEF OneResourceOf

\* What a function called for x does to the creations of the other steps.
LEMMA CallElsewhere ==
    ASSUME TypeOK, NEW x \in Callers, NEW s \in Steps, x # s, NEW t \in Threads,
           x \in Steps \/ t.pc \in Reads, callFunction(x, t.pc, t.try, t.output)
    PROVE  /\ s \in finished' => s \in finished
           /\ \A n \in 1 .. MaxTries : resource'[<<s, n>>] = resource[<<s, n>>]
<1>1. CASE t.pc = "createResource"
  <2>1. createResource(x, t.try)
    BY <1>1 DEF callFunction
  <2> QED
    BY <2>1 DEF createResource, TypeOK, StoreTypeOK
<1>2. CASE t.pc = "setStepFinished"
  BY <1>2 DEF callFunction, setStepFinished
<1>3. CASE t.pc \notin {"createResource", "setStepFinished"}
  BY <1>3 DEF callFunction, setStepStarted, updateState, createAccount, store
<1> QED
  BY <1>1, <1>2, <1>3

\* An attempt of createResource for s runs: its number is new.
LEMMA ResourceCreated ==
    ASSUME TypeOK, NEW s \in Steps, OneResourceOf(s), NEW t \in Threads, Flying(s, t),
           t.pc = "createResource", createResource(s, t.try)
    PROVE  /\ resource[<<s, t.try>>] = None
           /\ resource'[<<s, t.try>>] \in ResourceStates
           /\ \A n \in (1 .. MaxTries) \ {t.try} : resource'[<<s, n>>] = resource[<<s, n>>]
           /\ finished' = finished
           /\ Created(s) => Created(s)'
<1>1. resource[<<s, t.try>>] = None /\ t.try \in 1 .. MaxTries
  BY DEF OneResourceOf
<1>2. PICK state \in ResourceStates : resource' = [resource EXCEPT ![<<s, t.try>>] = state]
  BY DEF createResource
<1>3. /\ resource'[<<s, t.try>>] \in ResourceStates
      /\ \A n \in (1 .. MaxTries) \ {t.try} : resource'[<<s, n>>] = resource[<<s, n>>]
  BY <1>1, <1>2 DEF TypeOK, StoreTypeOK
<1>4. Created(s) => Created(s)'
  BY <1>1, <1>3, NoneAssumption DEF Created
<1> QED
  BY <1>1, <1>3, <1>4 DEF createResource

\* The thread of a resource goes on: a creation is followed to its end.
LEMMA ResourceThread ==
    ASSUME TypeOK, CallsOfKind, NEW s \in Steps, Kind[s] = "resource", OneResourceOf(s),
           StepThread(s)
    PROVE  OneResourceOf(s)'
<1> USE TriesAssumption DEF Pcs
<1>0. thread[s] \in Threads /\ 0 \in Outputs /\ s \in Callers
  BY DEF TypeOK
<1>1. CASE SetStepStarted(s)
  <2>1. PICK pc \in {"createResource", "failed"} : GoTo(s, pc, 0)
    BY <1>1 DEF SetStepStarted, Body
  <2>2. thread[s].pc = "setStepStarted" /\ UNCHANGED <<finished, resource>>
    BY <1>1 DEF SetStepStarted, Answered, Calling, callFunction, setStepStarted
  <2>3. /\ thread'[s].pc = pc /\ thread'[s].try = 1 /\ thread'[s].output = 0
        /\ \A u \in Threads : Flying(s, u)' => Flying(s, u) \/ u = thread'[s]
    BY <2>1, <1>0, GoToFlying
  <2>4. s \notin finished /\ \A n \in 1 .. MaxTries : resource[<<s, n>>] = None
    BY <2>2, NoneAssumption DEF OneResourceOf, Created
  <2>5. \A u \in Threads : Flying(s, u) => u.pc \notin {"createResource", "setStepFinished"}
    BY <2>2, <2>4, NoneAssumption DEF OneResourceOf, Created
  <2> QED
    BY <2>1, <2>2, <2>3, <2>4, <2>5 DEF OneResourceOf
<1>2. CASE CreateResource(s)
  <2> DEFINE try == thread[s].try
  <2>1. /\ thread[s].pc = "createResource" /\ Flying(s, thread[s])
        /\ createResource(s, try) /\ Poll(s, resource'[<<s, try>>], try)
        /\ try \in 1 .. MaxTries /\ try \in Outputs
    BY <1>0, <1>2 DEF CreateResource, Answered, Calling, Attempt, Flying, callFunction
  <2>2. /\ resource[<<s, try>>] = None
        /\ resource'[<<s, try>>] \in ResourceStates
        /\ \A n \in (1 .. MaxTries) \ {try} : resource'[<<s, n>>] = resource[<<s, n>>]
        /\ finished' = finished
        /\ Created(s) => Created(s)'
    BY <1>0, <2>1, ResourceCreated
  <2>3. PICK pc \in {"setStepFinished", "failed", "getExecution"}, o \in Outputs :
           /\ GoTo(s, pc, o)
           /\ pc = "setStepFinished" => resource'[<<s, try>>] = "SUCCEEDED"
           /\ pc = "getExecution" => o = try
    BY <2>1, PollFollows
  <2>4. /\ thread'[s].pc = pc /\ thread'[s].output = o
        /\ \A u \in Threads : Flying(s, u)' =>
              (Flying(s, u) /\ u # thread[s]) \/ u = thread'[s]
    BY <2>3, <1>0, GoToFlying
  <2>5. pc = "setStepFinished" => Created(s)'
    BY <2>1, <2>3 DEF Created
  <2>6. ASSUME NEW u \in Threads, Flying(s, u)', u.pc = "createResource"
        PROVE  u.output = 0 /\ resource'[<<s, u.try>>] = None
    <3>1. Flying(s, u) /\ u # thread[s]
      BY <2>3, <2>4, <2>6
    <3>2. u.output = 0 /\ resource[<<s, u.try>>] = None /\ thread[s].output = 0
      BY <2>1, <2>6, <3>1 DEF OneResourceOf
    <3>3. u.try # try /\ u.try \in 1 .. MaxTries
      BY <1>0, <2>1, <2>6, <3>1, <3>2, OtherTry
    <3> QED
      BY <2>2, <3>2, <3>3
  <2>7. resource'[<<s, try>>] # None
    BY <2>2, NoneAssumption
  <2>8. s \in finished' => Created(s)'
    BY <2>2 DEF OneResourceOf
  <2>9. ASSUME NEW u \in Threads, Flying(s, u)', u.pc = "setStepFinished"
        PROVE  Created(s)'
    BY <2>2, <2>4, <2>5, <2>9 DEF OneResourceOf
  <2> QED
    BY <2>1, <2>3, <2>4, <2>5, <2>6, <2>7, <2>8, <2>9 DEF OneResourceOf
<1>3. CASE GetExecution(s)
  <2> DEFINE out == thread[s].output
  <2>1. /\ thread[s].pc = "getExecution" /\ UNCHANGED <<finished, resource>>
        /\ Poll(s, resource[<<s, out>>], out) /\ out \in Outputs
    BY <1>0, <1>3 DEF GetExecution, Answered, Calling, callFunction, store
  <2>2. out \in 1 .. MaxTries /\ resource[<<s, out>>] # None
    BY <2>1 DEF OneResourceOf
  <2>3. PICK pc \in {"setStepFinished", "failed", "getExecution"}, o \in Outputs :
           /\ GoTo(s, pc, o)
           /\ pc = "setStepFinished" => resource[<<s, out>>] = "SUCCEEDED"
           /\ pc = "getExecution" => o = out
    BY <2>1, PollFollows
  <2>4. /\ thread'[s].pc = pc /\ thread'[s].output = o
        /\ \A u \in Threads : Flying(s, u)' => Flying(s, u) \/ u = thread'[s]
    BY <2>3, <1>0, GoToFlying
  <2>5. pc = "setStepFinished" => Created(s)
    BY <2>2, <2>3 DEF Created
  <2>6. Created(s)' <=> Created(s)
    BY <2>1 DEF Created
  <2> QED
    BY <2>1, <2>2, <2>3, <2>4, <2>5, <2>6 DEF OneResourceOf
<1>4. CASE SetStepFinished(s)
  <2>1. /\ thread[s].pc = "setStepFinished" /\ resource' = resource
        /\ GoTo(s, "done", 0)
    BY <1>4 DEF SetStepFinished, Answered, Calling, callFunction, setStepFinished
  <2>2. /\ thread'[s].pc = "done"
        /\ \A u \in Threads : Flying(s, u)' => Flying(s, u)
    BY <2>1, <1>0, GoToFlying
  <2>3. Created(s) /\ Created(s)'
    BY <2>1 DEF OneResourceOf, Created
  <2> QED
    BY <2>1, <2>2, <2>3 DEF OneResourceOf
<1>5. ~(GetServiceDeployYaml(s) \/ Build(s) \/ CreateAccount(s) \/ UpdateState(s))
  BY DEF CallsOfKind, GetServiceDeployYaml, Build, CreateAccount, UpdateState,
     Answered, Calling
<1> QED
  BY <1>1, <1>2, <1>3, <1>4, <1>5 DEF StepThread

\* An attempt of a call for a resource runs late.
LEMMA ResourceCall ==
    ASSUME TypeOK, NEW s \in Steps, OneResourceOf(s), NEW t \in Threads, Run(s, t)
    PROVE  OneResourceOf(s)'
<1>1. /\ Flying(s, t) /\ UNCHANGED thread
      /\ callFunction(s, t.pc, t.try, t.output)
      /\ \A u \in Threads : Flying(s, u)' => Flying(s, u) /\ u # t
  BY DEF Run, Flying
<1>2. CASE t.pc = "createResource"
  <2>1. createResource(s, t.try)
    BY <1>1, <1>2 DEF callFunction
  <2>2. /\ resource[<<s, t.try>>] = None
        /\ resource'[<<s, t.try>>] \in ResourceStates
        /\ \A n \in (1 .. MaxTries) \ {t.try} : resource'[<<s, n>>] = resource[<<s, n>>]
        /\ finished' = finished
        /\ Created(s) => Created(s)'
    BY <1>1, <1>2, <2>1, ResourceCreated
  <2>3. ASSUME NEW u \in Threads, Flying(s, u)', u.pc = "createResource"
        PROVE  resource'[<<s, u.try>>] = None
    <3>1. Flying(s, u) /\ u # t
      BY <1>1, <2>3
    <3>2. u.try # t.try /\ u.try \in 1 .. MaxTries
      BY <1>1, <1>2, <2>3, <3>1, OtherTry DEF OneResourceOf
    <3> QED
      BY <2>2, <2>3, <3>1, <3>2 DEF OneResourceOf
  <2>4. thread[s].pc = "createResource" => t.try <= thread[s].try
    BY <1>1, <1>2 DEF OneResourceOf
  <2>5. thread[s].pc \notin {"idle", "setStepStarted"}
    BY <1>1, <1>2 DEF OneResourceOf
  <2>6. \A n \in 1 .. MaxTries : resource[<<s, n>>] # None => resource'[<<s, n>>] # None
    BY <2>2
  <2>7. thread[s].pc = "createResource" =>
           \A n \in 1 .. MaxTries : n > thread[s].try => resource'[<<s, n>>] = None
    BY <2>2, <2>4 DEF OneResourceOf, TypeOK
  <2> QED
    BY <1>1, <2>2, <2>3, <2>4, <2>5, <2>6, <2>7 DEF OneResourceOf
<1>3. CASE t.pc # "createResource"
  <2>1. resource' = resource /\ (s \in finished' => Created(s))
    BY <1>1, <1>3 DEF callFunction, setStepStarted, setStepFinished, updateState,
       createAccount, store, OneResourceOf
  <2> QED
    BY <1>1, <2>1, ElsewhereResource DEF Ends
<1> QED
  BY <1>2, <1>3

\* A new attempt of createResource has a number that was never used.
LEMMA ResourceUnanswered ==
    ASSUME TypeOK, NEW s \in Steps, OneResourceOf(s), Unanswered(s)
    PROVE  OneResourceOf(s)'
<1>1. thread[s].pc \in Functions /\ UNCHANGED <<finished, resource>>
  BY UnansweredKeeps DEF store
<1>2. PICK t \in Threads :
         /\ Goes(s, t)
         /\ \/ /\ t.pc = thread[s].pc
               /\ t.output = thread[s].output
               /\ t.try = thread[s].try + 1
            \/ t.pc = "failed"
  BY AgainStep
<1>3. /\ thread'[s] = t
      /\ \A u \in Threads :
            Flying(s, u)' => Flying(s, u) \/ (u = t /\ t.pc \in Functions)
  BY <1>2, GoesFacts DEF Went
<1>4. Created(s)' <=> Created(s)
  BY <1>1 DEF Created
<1>5. thread[s].try \in 1 .. MaxTries
  BY DEF TypeOK
<1>6. CASE t.pc = "failed"
  BY <1>1, <1>3, <1>4, <1>6 DEF OneResourceOf
<1>7. CASE /\ t.pc = thread[s].pc
           /\ t.output = thread[s].output
           /\ t.try = thread[s].try + 1
  BY <1>1, <1>3, <1>4, <1>5, <1>7 DEF OneResourceOf
<1> QED
  BY <1>2, <1>6, <1>7

\* What the thread of another step does to the creations of s.
LEMMA ThreadElsewhere ==
    ASSUME TypeOK, NEW x \in Steps, NEW s \in Steps, x # s, StepThread(x)
    PROVE  /\ s \in finished' => s \in finished
           /\ \A n \in 1 .. MaxTries : resource'[<<s, n>>] = resource[<<s, n>>]
<1>1. CASE Build(x)
  BY <1>1 DEF Build, store
<1>2. CASE ~Build(x)
  <2>1. callFunction(x, thread[x].pc, thread[x].try, thread[x].output)
    BY <1>2 DEF StepThread, SetStepStarted, GetServiceDeployYaml, CreateAccount, UpdateState,
       CreateResource, GetExecution, SetStepFinished, Answered, Calling
  <2>2. thread[x] \in Threads
    BY DEF TypeOK
  <2> QED
    BY <2>1, <2>2, CallElsewhere
<1> QED
  BY <1>1, <1>2

\* The thread of a resource, its attempts in flight, and all the others.
LEMMA OneResourceStep ==
    ASSUME TypeOK, MainReads, BegunInGroup, CallsOfKind, OneResource, [Next]_vars
    PROVE  OneResource'
<1> SUFFICES ASSUME NEW s \in Steps, Kind[s] = "resource"
             PROVE  OneResourceOf(s)'
  BY DEF OneResource
<1>0. OneResourceOf(s) /\ (s \in finished => Created(s))
  BY DEF OneResource, OneResourceOf
<1>1. CASE GetOutputs
  <2>1. UNCHANGED <<finished, resource>>
    BY <1>1, GetOutputsStep DEF store
  <2>2. CASE s \notin Plan[group]
    <3>1. thread'[s] = thread[s] /\ \A t \in Threads : Flying(s, t)' => Flying(s, t)
      BY <1>1, <2>2, GetOutputsStep DEF Flying
    <3> QED
      BY <1>0, <2>1, <3>1, ElsewhereResource DEF Ends
  <2>3. CASE s \in Plan[group]
    <3>1. /\ thread[Main].pc = "getOutputs" /\ group \in 1 .. Len(Plan)
          /\ thread'[s].pc = "setStepStarted"
          /\ \A t \in Threads : Flying(s, t)' => Flying(s, t) \/ t.pc = "setStepStarted"
      BY <1>1, <2>3, GetOutputsStep DEF At, Flying
    <3>2. ~InGroups(s, group - 1)
      BY <2>3, <3>1, PlanFacts DEF InGroups
    <3>3. ~Begun(s)
      BY <3>1, <3>2 DEF BegunInGroup, Reached
    <3>4. s \notin finished /\ \A n \in 1 .. MaxTries : resource[<<s, n>>] = None
      BY <1>0, <3>3, NoneAssumption DEF OneResourceOf, Created, Begun
    <3> QED
      BY <2>1, <3>1, <3>3, <3>4 DEF OneResourceOf, Begun
  <2> QED
    BY <2>2, <2>3
<1>2. CASE DownloadArtifacts \/ GetPlan \/ EndGroup \/ FailGroup
  <2>1. /\ UNCHANGED <<finished, resource>>
        /\ thread'[s] = thread[s]
        /\ \A t \in Threads : Flying(s, t)' => Flying(s, t)
    BY <1>2, MainStep DEF store
  <2> QED
    BY <1>0, <2>1, ElsewhereResource DEF Ends
<1>3. ASSUME NEW x \in Steps, StepThread(x) PROVE OneResourceOf(s)'
  <2>1. CASE x = s
    BY <1>0, <1>3, <2>1, ResourceThread
  <2>2. CASE x # s
    <3>1. PICK t \in Threads : Goes(x, t)
      BY <1>3, StepThreadStep
    <3>2. thread'[s] = thread[s] /\ \A u \in Threads : Flying(s, u)' => Flying(s, u)
      BY <2>2, <3>1, GoesFacts DEF Went
    <3> QED
      BY <1>0, <1>3, <2>2, <3>2, ThreadElsewhere, ElsewhereResource DEF Ends
  <2> QED
    BY <2>1, <2>2
<1>4. ASSUME NEW x \in Callers, Unanswered(x) PROVE OneResourceOf(s)'
  <2>1. CASE x = s
    BY <1>0, <1>4, <2>1, ResourceUnanswered
  <2>2. CASE x # s
    <3>1. UNCHANGED <<finished, resource>>
      BY <1>4, UnansweredKeeps DEF store
    <3>2. PICK t \in Threads : Goes(x, t)
      BY <1>4, UnansweredStep
    <3>3. thread'[s] = thread[s] /\ \A u \in Threads : Flying(s, u)' => Flying(s, u)
      BY <2>2, <3>2, GoesFacts DEF Went
    <3> QED
      BY <1>0, <3>1, <3>3, ElsewhereResource DEF Ends
  <2> QED
    BY <2>1, <2>2
<1>5. ASSUME NEW x \in Callers, NEW t \in Threads, Run(x, t) PROVE OneResourceOf(s)'
  <2>1. CASE x = s
    BY <1>0, <1>5, <2>1, ResourceCall
  <2>2. CASE x # s
    <3>1. /\ x \in Steps \/ t.pc \in Reads
          /\ callFunction(x, t.pc, t.try, t.output)
          /\ UNCHANGED thread
          /\ \A u \in Threads : Flying(s, u)' => Flying(s, u)
      BY <1>5 DEF Run, MainReads, Flying
    <3>2. /\ s \in finished' => s \in finished
          /\ \A n \in 1 .. MaxTries : resource'[<<s, n>>] = resource[<<s, n>>]
      BY <2>2, <3>1, CallElsewhere
    <3> QED
      BY <1>0, <3>1, <3>2, ElsewhereResource DEF Ends
  <2> QED
    BY <2>1, <2>2
<1>6. ASSUME NEW a \in Attempts, Service(a) PROVE OneResourceOf(s)'
  <2>1. UNCHANGED <<finished, thread, sent>>
    BY <1>6 DEF Service, EndResource
  <2>2. \A n \in 1 .. MaxTries : Ends(<<s, n>>)
    BY <1>6 DEF Service, EndResource, Ends, TypeOK, StoreTypeOK
  <2> QED
    BY <1>0, <2>1, <2>2, ElsewhereResource DEF Flying
<1>7. CASE Cancel \/ UNCHANGED vars
  <2>1. UNCHANGED <<finished, resource, thread, sent>>
    BY <1>7 DEF Cancel, vars, store
  <2> QED
    BY <1>0, <2>1, ElsewhereResource DEF Flying, Ends
<1> QED
  BY <1>1, <1>2, <1>3, <1>4, <1>5, <1>6, <1>7, StepCases DEF StepThread

-----------------------------------------------------------------------------
(* Nobody waits in vain *)

\* A thread that goes on sends the call it then waits for, and takes nobody
\* else's out of flight.
LEMMA GoToSends ==
    ASSUME TypeOK, NEW x \in Callers, NEW pc, NEW out, GoTo(x, pc, out)
    PROVE  /\ thread'[x].pc = pc
           /\ pc \in Functions => Attempt(x)' \in sent'
           /\ \A y \in Callers \ {x} :
                 thread'[y] = thread[y] /\ (Attempt(y) \in sent => Attempt(y)' \in sent')
<1>1. thread'[x] = At(pc, 1, out) /\ \A y \in Callers \ {x} : thread'[y] = thread[y]
  BY DEF GoTo, TypeOK
<1> QED
  BY <1>1 DEF GoTo, Attempt, At

\* Where the thread of a step goes, with the attempts it sends.
LEMMA StepThreadGoes ==
    ASSUME TypeOK, NEW s \in Steps, StepThread(s)
    PROVE  \E pc \in Functions \cup {"build", "done", "failed"}, out \in Outputs : GoTo(s, pc, out)
<1>0. 0 \in Outputs /\ thread[s].try \in Outputs /\ thread[s].output \in Outputs
  BY TriesAssumption DEF TypeOK
<1>1. CASE SetStepStarted(s)
  BY <1>0, <1>1, StepsAssumption DEF SetStepStarted, Body
<1>2. CASE GetServiceDeployYaml(s) \/ Build(s)
  BY <1>0, <1>2 DEF GetServiceDeployYaml, Build, AfterBuild
<1>3. CASE CreateAccount(s)
  BY <1>0, <1>3 DEF CreateAccount
<1>4. CASE UpdateState(s) \/ SetStepFinished(s)
  BY <1>0, <1>4 DEF UpdateState, SetStepFinished
<1>5. CASE CreateResource(s)
  BY <1>0, <1>5, PollFollows DEF CreateResource
<1>6. CASE GetExecution(s)
  BY <1>0, <1>6, PollFollows DEF GetExecution
<1> QED
  BY <1>1, <1>2, <1>3, <1>4, <1>5, <1>6 DEF StepThread

\* What is lost is not what a thread waits for.
LEMMA NobodyWaitsInVainStep ==
    ASSUME TypeOK, MainReads, NobodyWaitsInVain, [Next]_vars
    PROVE  NobodyWaitsInVain'
<1> SUFFICES ASSUME status' = "ACTIVE" PROVE NobodyWaitsInVain'
  BY DEF NobodyWaitsInVain
<1> USE StepsAssumption, PlanFacts
<1>1. CASE DownloadArtifacts
  BY <1>1, GoToSends DEF DownloadArtifacts, Answered, Calling, NobodyWaitsInVain
<1>2. CASE GetPlan
  BY <1>2, GoToSends DEF GetPlan, NextGroup, Answered, Calling, NobodyWaitsInVain
<1>3. CASE EndGroup
  BY <1>3, GoToSends DEF EndGroup, NextGroup, Calling, NobodyWaitsInVain
<1>4. CASE FailGroup
  BY <1>4 DEF FailGroup, Raise
<1>5. CASE GetOutputs
  <2> DEFINE first == At("setStepStarted", 1, 0)
  <2>1. /\ status = "ACTIVE" /\ group' = group /\ Plan[group] \subseteq Steps
        /\ thread'[Main].pc = "groups"
        /\ first.pc = "setStepStarted"
        /\ \A x \in Plan[group] : thread'[x] = first
        /\ \A x \in Steps \ Plan[group] : thread'[x] = thread[x]
    BY <1>5, GetOutputsStep DEF GetOutputs, Answered, Calling, At
  <2>2. sent' = (sent \ {Attempt(Main)}) \cup (Plan[group] \X {first})
    BY <1>5 DEF GetOutputs
  <2> HIDE DEF first
  <2>3. ASSUME NEW x \in Steps, thread'[x].pc \in Functions PROVE Attempt(x)' \in sent'
    <3>1. CASE x \in Plan[group]
      BY <2>1, <2>2, <3>1 DEF Attempt
    <3>2. CASE x \notin Plan[group]
      BY <2>1, <2>2, <2>3, <3>2 DEF Attempt, NobodyWaitsInVain
    <3> QED
      BY <3>1, <3>2
  <2> QED
    BY <2>1, <2>3 DEF NobodyWaitsInVain
<1>6. ASSUME NEW s \in Steps, StepThread(s) PROVE NobodyWaitsInVain'
  <2>1. UNCHANGED <<status, group>>
    BY <1>6, StepThreadStep
  <2>2. PICK pc \in Functions \cup {"build", "done", "failed"}, out \in Outputs : GoTo(s, pc, out)
    BY <1>6, StepThreadGoes
  <2>3. /\ s # Main /\ thread'[s].pc = pc
        /\ \A y \in Callers \ {s} : thread'[y] = thread[y]
    BY <2>2, GoToSends
  <2>4. \A y \in Callers : thread'[y].pc \in Functions => Attempt(y)' \in sent'
    BY <2>1, <2>2, <2>3, GoToSends DEF NobodyWaitsInVain
  <2>5. thread'[Main] = thread[Main]
    BY <2>3
  <2>6. thread'[Main].pc = "groups" =>
           \A r \in Plan[group] : thread'[r].pc \notin {"idle", "groups"}
    <3>1. thread[Main].pc = "groups" => Plan[group] \subseteq Steps
      BY DEF MainReads, TypeOK
    <3> QED
      BY <2>1, <2>3, <2>5, <3>1 DEF NobodyWaitsInVain
  <2> QED
    BY <2>1, <2>4, <2>5, <2>6 DEF NobodyWaitsInVain
<1>7. ASSUME NEW x \in Callers, Unanswered(x) PROVE NobodyWaitsInVain'
  <2>1. status = "ACTIVE" /\ thread[x].pc \in Functions /\ group' = group
    BY <1>7 DEF Unanswered, GiveUp, Refused
  <2>2. thread[Main].pc = "groups" => Plan[group] \subseteq Steps
    BY DEF MainReads, TypeOK
  <2>3. CASE GiveUp(x) /\ MayRetry(x)
    <3>1. /\ thread'[x] = Again(x)
          /\ \A y \in Callers \ {x} : thread'[y] = thread[y]
          /\ sent' = sent \cup {<<x, Again(x)>>}
          /\ Again(x).pc = thread[x].pc
      BY <2>3 DEF GiveUp, Again, At, TypeOK
    <3>2. \A y \in Callers : thread'[y].pc = thread[y].pc
      BY <3>1
    <3>3. \A y \in Callers : thread'[y].pc \in Functions => Attempt(y)' \in sent'
      BY <2>1, <3>1 DEF NobodyWaitsInVain, Attempt
    <3> QED
      BY <2>1, <2>2, <3>2, <3>3 DEF NobodyWaitsInVain
  <2>4. CASE Raise(x) /\ sent' \in {sent, sent \ {Attempt(x)}}
    <3>1. /\ x # Main
          /\ thread'[x].pc = "failed"
          /\ \A y \in Callers \ {x} : thread'[y] = thread[y]
      BY <2>4 DEF Raise, At, TypeOK
    <3>2. thread'[Main] = thread[Main]
      BY <3>1
    <3>3. \A y \in Callers : thread'[y].pc \in Functions => Attempt(y)' \in sent'
      BY <2>1, <2>4, <3>1 DEF NobodyWaitsInVain, Attempt
    <3>4. thread'[Main].pc = "groups" =>
             \A r \in Plan[group] : thread'[r].pc \notin {"idle", "groups"}
      BY <2>1, <2>2, <3>1, <3>2 DEF NobodyWaitsInVain
    <3> QED
      BY <2>1, <3>2, <3>3, <3>4 DEF NobodyWaitsInVain
  <2> QED
    BY <1>7, <2>3, <2>4 DEF Unanswered, GiveUp, Refused
<1>8. ASSUME NEW x \in Callers, NEW t \in Threads, Run(x, t) PROVE NobodyWaitsInVain'
  <2>1. /\ UNCHANGED <<status, group, thread>>
        /\ t # thread[x]
        /\ sent' = sent \ {<<x, t>>}
    BY <1>8 DEF Run
  <2> QED
    BY <2>1 DEF NobodyWaitsInVain, Attempt
<1>9. CASE (\E a \in Attempts : Service(a)) \/ Cancel \/ UNCHANGED vars
  <2>1. UNCHANGED <<status, group, thread, sent>>
    BY <1>9 DEF Service, Cancel, vars
  <2> QED
    BY <2>1 DEF NobodyWaitsInVain, Attempt
<1> QED
  BY <1>1, <1>2, <1>3, <1>4, <1>5, <1>6, <1>7, <1>8, <1>9, StepCases DEF StepThread

-----------------------------------------------------------------------------
(* The theorems *)

\* Every step preserves the invariant.
LEMMA Inductive == IndInv /\ [Next]_vars => IndInv'
<1> SUFFICES ASSUME IndInv, [Next]_vars PROVE IndInv'
  OBVIOUS
<1> USE DEF IndInv
<1>1. TypeOK'
  BY TypeOKStep
<1>2. MainReads'
  BY MainReadsStep
<1>3. EarlierFinished'
  BY EarlierFinishedStep
<1>4. BegunInGroup'
  BY <1>1, <1>2, BegunInGroupStep
<1>5. StartedFirst'
  BY StartedFirstStep
<1>6. CallsOfKind'
  BY CallsOfKindStep
<1>7. RecordedFirst'
  BY RecordedFirstStep
<1>8. OneAccount'
  BY OneAccountStep
<1>9. FirstCallsInGroup'
  BY FirstCallsInGroupStep
<1>10. OutputsKnown'
  BY OutputsKnownStep
<1>11. OneResource'
  BY OneResourceStep
<1>12. NobodyWaitsInVain'
  BY NobodyWaitsInVainStep
<1> QED
  BY <1>1, <1>2, <1>3, <1>4, <1>5, <1>6, <1>7, <1>8, <1>9, <1>10, <1>11, <1>12

\* The strengthening of all the properties below is an invariant.
THEOREM Invariance == Spec => []IndInv
BY Start, Inductive, PTL DEF Spec

\* Every thread, attempt in flight and document keeps its shape.
THEOREM TypeCorrect == Spec => []TypeOK
<1>1. IndInv => TypeOK
  BY DEF IndInv
<1> QED
  BY <1>1, Invariance, PTL

\* A step of workflows/AgentDeployAppWorkflow.yaml is recorded as finished
\* after its element, in the order its thread calls the functions, whichever
\* attempts of updateState and setStepFinished are lost and run late.
THEOREM ElementOfFinished == Spec => []FinishedHasElement
<1>1. IndInv => FinishedHasElement
  <2> SUFFICES ASSUME IndInv, NEW s \in finished
               PROVE  Kind[s] \in {"service", "layer", "account"} => element[s] # None
    BY DEF FinishedHasElement
  <2>1. s \in Steps
    BY DEF IndInv, TypeOK, StoreTypeOK
  <2> QED
    BY <2>1 DEF IndInv, RecordedFirst, Recorded
<1> QED
  BY <1>1, Invariance, PTL

\* createAccount makes an account at each attempt, but all attempts of
\* updateState record the same one: the account recorded for a step exists,
\* and no late attempt replaces it.
THEOREM AccountStays == Spec => RecordedAccountStays
<1> DEFINE A(s) == Kind[s] = "account" /\ element[s] # None =>
                      <<s, element[s]>> \in account /\ element'[s] = element[s]
<1>1. ASSUME IndInv, IndInv', [Next]_vars, NEW s \in Steps PROVE A(s)
  <2> SUFFICES ASSUME Kind[s] = "account", element[s] # None PROVE A(s)
    OBVIOUS
  <2> USE <1>1
  <2>1. OneAccountOf(s) /\ TypeOK /\ MainReads
    BY DEF IndInv, OneAccount
  <2>2. <<s, element[s]>> \in account
    BY <2>1 DEF OneAccountOf
  <2>3. CASE GetOutputs \/ DownloadArtifacts \/ GetPlan \/ EndGroup \/ FailGroup
    BY <2>1, <2>2, <2>3, MainStep, GetOutputsStep DEF store
  <2>4. ASSUME NEW x \in Steps, StepThread(x) PROVE element'[s] = element[s]
    <3>1. CASE x # s
      BY <2>1, <2>4, <3>1, StepThreadStep
    <3>2. CASE x = s /\ UpdateState(s)
      <4>1. thread[s].pc = "updateState" /\ updateState(s, thread[s].output)
        BY <3>2 DEF UpdateState, Answered, Calling, callFunction
      <4>2. element[s] = thread[s].output
        BY <2>1, <4>1 DEF OneAccountOf
      <4> QED
        BY <2>1, <4>1, <4>2 DEF updateState, TypeOK, StoreTypeOK
    <3>3. CASE x = s /\ ~UpdateState(s)
      BY <2>1, <2>4, <3>3, PollKeeps DEF StepThread, SetStepStarted,
         GetServiceDeployYaml, Build,
         CreateAccount, SetStepFinished, Answered, Calling, callFunction,
         setStepStarted, createAccount, setStepFinished, store
    <3> QED
      BY <3>1, <3>2, <3>3
  <2>5. ASSUME NEW x \in Callers, Unanswered(x) PROVE element'[s] = element[s]
    BY <2>1, <2>5, UnansweredKeeps DEF store
  <2>6. ASSUME NEW x \in Callers, NEW t \in Threads, Run(x, t) PROVE element'[s] = element[s]
    <3>1. Flying(x, t) /\ callFunction(x, t.pc, t.try, t.output)
      BY <2>6 DEF Run, Flying
    <3>2. CASE t.pc = "updateState"
      <4>1. updateState(x, t.output)
        BY <3>1, <3>2 DEF callFunction
      <4>2. x = s => element[s] = t.output
        BY <2>1, <3>1, <3>2 DEF OneAccountOf
      <4>3. x = s \/ x \in Steps \ {s} \/ x = Main
        OBVIOUS
      <4>4. x # Main
        BY <2>1, <3>1, <3>2 DEF MainReads
      <4> QED
        BY <2>1, <4>1, <4>2, <4>3, <4>4 DEF updateState, TypeOK, StoreTypeOK
    <3>3. CASE t.pc # "updateState"
      BY <3>1, <3>3 DEF callFunction, setStepStarted, setStepFinished, createAccount,
         createResource, store
    <3> QED
      BY <3>2, <3>3
  <2>7. CASE (\E a \in Attempts : Service(a)) \/ Cancel \/ UNCHANGED vars
    BY <2>2, <2>7 DEF Service, EndResource, Cancel, vars, store
  <2> QED
    BY <2>1, <2>2, <2>3, <2>4, <2>5, <2>6, <2>7, StepCases DEF StepThread
<1>2. IndInv /\ IndInv' /\ [Next]_vars =>
        [\A s \in Steps : Kind[s] = "account" /\ element[s] # None =>
            /\ <<s, element[s]>> \in account
            /\ element'[s] = element[s]]_vars
  BY <1>1
<1> QED
  BY <1>2, Invariance, PTL DEF Spec, RecordedAccountStays

\* A resource whose service an earlier group deploys finds the url of it: the
\* outputs are asked for again between any two groups, when the services of the
\* groups before are recorded.
THEOREM UrlsKnown == Spec => []UrlKnown
<1>1. IndInv => UrlKnown
  <2> SUFFICES ASSUME IndInv, ServiceFirst,
                      NEW s \in Steps, thread[s].pc = "setStepStarted", Kind[s] = "resource"
               PROVE  ServiceOf[s] \in outputs
    BY DEF UrlKnown, Evaluates
  <2>1. thread[Main].pc = "groups" /\ s \in Plan[group] /\ group \in 1 .. Len(Plan)
    BY PlanFacts DEF IndInv, FirstCallsInGroup, TypeOK, MainReads
  <2>2. PICK i, j \in 1 .. Len(Plan) : i < j /\ ServiceOf[s] \in Plan[i] /\ s \in Plan[j]
    BY PlanFacts DEF ServiceFirst
  <2>3. i \in 1 .. group - 1
    BY <2>1, <2>2, PlanFacts
  <2>4. Kind[ServiceOf[s]] = "service"
    BY DEF ServiceFirst
  <2> QED
    BY <2>1, <2>2, <2>3, <2>4 DEF IndInv, OutputsKnown
<1> QED
  BY <1>1, Invariance, PTL

\* A step that has begun is of the plan, and the groups before its own are
\* finished.
LEMMA EarlierOfBegun ==
    ASSUME IndInv, NEW s \in Steps, Begun(s)
    PROVE  s \in PlanOf!Planned /\ PlanOf!Earlier(s) \subseteq finished
<1>1. group \in 0 .. Len(Plan) /\ Reached \in 0 .. group
  BY PlanFacts DEF IndInv, TypeOK, MainReads, Reached
<1>2. PICK k \in 1 .. Reached : s \in Plan[k]
  BY DEF IndInv, BegunInGroup, InGroups
<1>3. k \in 1 .. group /\ k \in DOMAIN Plan
  BY <1>1, <1>2, PlanFacts
<1>4. s \in PlanOf!Planned
  BY <1>2, <1>3 DEF PlanOf!Planned
<1>5. ASSUME NEW j \in DOMAIN Plan, NEW n \in DOMAIN Plan, j < n, s \in Plan[n]
      PROVE  Plan[j] \subseteq finished
  <2>1. n = k
    BY <1>2, <1>3, <1>5, PlanFacts
  <2>2. j \in 1 .. group - 1
    BY <1>1, <1>3, <1>5, <2>1, PlanFacts
  <2> QED
    BY <2>2 DEF IndInv, EarlierFinished
<1> QED
  BY <1>4, <1>5 DEF PlanOf!Earlier

\* The groups of the plan follow one another: of every step of the execution,
\* and of every attempt that runs late, the promise of PlanRun sees a step
\* begin after all earlier groups are finished, a begun step finish, the
\* success of a plan whose steps are all finished, or nothing.
THEOREM PlanImplemented == Spec => ImplementsPlan
<1> USE DEF PlanOf!PlanNext, PlanOf!Begin, PlanOf!Finish, PlanOf!Succeed, PlanOf!Abort
<1>1. Init => PlanOf!PlanInit
  BY DEF Init, StoreInit, PlanOf!PlanInit
<1>2. ASSUME IndInv, IndInv', [Next]_vars
      PROVE  [PlanOf!PlanNext]_<<started, finished, status>>
  <2> USE <1>2
  <2> USE DEF IndInv
  <2>1. TypeOK /\ MainReads /\ StartedFirst
    OBVIOUS
  <2>2. ASSUME NEW s \in Steps, Begun(s), started' = started \cup {s},
               UNCHANGED <<finished, status>>
        PROVE  PlanOf!Begin(s)
    BY <2>2, EarlierOfBegun
  <2>3. ASSUME NEW s \in Steps, s \in started, finished' = finished \cup {s},
               UNCHANGED <<started, status>>
        PROVE  PlanOf!Finish(s)
    BY <2>3
  <2>4. CASE UNCHANGED <<started, finished>> /\ status' \in {status, "FAILED", "CANCELLED"}
             /\ (status' # status => status = "ACTIVE")
    BY <2>4
  <2>5. CASE DownloadArtifacts \/ FailGroup \/ GetOutputs
    BY <2>1, <2>5, <2>4, MainStep, GetOutputsStep DEF DownloadArtifacts, FailGroup,
       GetOutputs,
       Calling, Raise, store
  <2>6. CASE GetPlan \/ EndGroup
    <3>1. UNCHANGED <<started, finished>> /\ status = "ACTIVE"
      BY <2>1, <2>6, MainStep DEF GetPlan, EndGroup, Answered, Calling, store
    <3>2. CASE group < Len(Plan)
      BY <2>4, <2>6, <3>1, <3>2 DEF GetPlan, EndGroup, NextGroup
    <3>3. CASE ~(group < Len(Plan))
      <4>1. status' = "SUCCEEDED"
        BY <2>6, <3>3 DEF GetPlan, EndGroup, NextGroup
      <4>2. Len(Plan) # 0 => Plan[Len(Plan)] \subseteq finished
        BY <2>6, <3>3, PlanFacts DEF GetPlan, EndGroup, Joined, Answered, Calling,
           TypeOK, MainReads, RecordedFirst
      <4>3. PlanOf!Planned \subseteq finished
        BY <3>3, <4>2, PlanFacts DEF PlanOf!Planned, EarlierFinished, TypeOK
      <4>4. finished \subseteq PlanOf!Planned
        BY EarlierOfBegun DEF StartedFirst, Begun, TypeOK, StoreTypeOK
      <4> QED
        BY <3>1, <4>1, <4>3, <4>4
    <3> QED
      BY <3>2, <3>3
  <2>7. ASSUME NEW s \in Steps, StepThread(s) PROVE [PlanOf!PlanNext]_<<started, finished, status>>
    <3>1. status' = status
      BY <2>1, <2>7, StepThreadStep
    <3>2. CASE SetStepStarted(s)
      <4>1. Begun(s) /\ setStepStarted(s)
        BY <3>2 DEF SetStepStarted, Answered, Calling, callFunction, Begun
      <4> QED
        BY <2>2, <3>1, <4>1 DEF setStepStarted
    <3>3. CASE SetStepFinished(s)
      <4>1. s \in started /\ setStepFinished(s)
        BY <2>1, <3>3 DEF SetStepFinished, Answered, Calling, callFunction, StartedFirst
      <4> QED
        BY <2>3, <3>1, <4>1 DEF setStepFinished
    <3>4. CASE ~SetStepStarted(s) /\ ~SetStepFinished(s)
      <4>1. UNCHANGED <<started, finished>>
        BY <2>1, <2>7, <3>4, PollKeeps DEF StepThread, GetServiceDeployYaml, Build,
           CreateAccount, UpdateState, Answered, Calling, callFunction,
           createAccount, updateState, store
      <4> QED
        BY <3>1, <4>1
    <3> QED
      BY <3>2, <3>3, <3>4
  <2>8. ASSUME NEW x \in Callers, Unanswered(x) PROVE [PlanOf!PlanNext]_<<started, finished, status>>
    <3>1. status = "ACTIVE"
      BY <2>8 DEF Unanswered, GiveUp, Refused
    <3> QED
      BY <2>1, <2>4, <2>8, <3>1, UnansweredKeeps DEF store
  <2>9. ASSUME NEW x \in Callers, NEW t \in Threads, Run(x, t)
        PROVE  [PlanOf!PlanNext]_<<started, finished, status>>
    <3>1. Flying(x, t) /\ callFunction(x, t.pc, t.try, t.output) /\ status' = status
      BY <2>9 DEF Run, Flying
    <3>2. CASE x \in Steps /\ t.pc = "setStepStarted"
      <4>1. Begun(x) /\ setStepStarted(x)
        BY <3>1, <3>2 DEF callFunction, Begun
      <4> QED
        BY <2>2, <3>1, <3>2, <4>1 DEF setStepStarted
    <3>3. CASE x \in Steps /\ t.pc = "setStepFinished"
      <4>1. x \in started /\ setStepFinished(x)
        BY <2>1, <3>1, <3>3 DEF callFunction, StartedFirst
      <4> QED
        BY <2>3, <3>1, <3>3, <4>1 DEF setStepFinished
    <3>4. CASE t.pc \notin {"setStepStarted", "setStepFinished"}
      <4>1. UNCHANGED <<started, finished>>
        BY <3>1, <3>4 DEF callFunction, createAccount, updateState, createResource,
           store
      <4> QED
        BY <3>1, <4>1
    <3>5. x \in Steps \/ t.pc \in Reads
      BY <2>1, <3>1 DEF MainReads
    <3> QED
      BY <3>2, <3>3, <3>4, <3>5
  <2>10. CASE (\E a \in Attempts : Service(a)) \/ Cancel \/ UNCHANGED vars
    BY <2>4, <2>10 DEF Service, EndResource, Cancel, vars, store
  <2> QED
    BY <2>1, <2>5, <2>6, <2>7, <2>8, <2>9, <2>10, StepCases DEF StepThread
<1> QED
  BY <1>1, <1>2, Invariance, PTL DEF Spec, ImplementsPlan, PlanOf!PlanSpec

\* A resource step is recorded as finished only after the creation its thread
\* followed has ended with SUCCEEDED: neither a creation whose answer was lost
\* nor one under way counts.
THEOREM CreatedBeforeFinished == Spec => []FinishedIsCreated
<1>1. IndInv => FinishedIsCreated
  BY DEF IndInv, TypeOK, StoreTypeOK, OneResource, OneResourceOf, FinishedIsCreated
<1> QED
  BY <1>1, Invariance, PTL

\* The abstract run of a plan succeeds when all its steps are finished.
LEMMA PlanWhole ==
    PlanOf!PlanSpec => [](status = "SUCCEEDED" => PlanOf!Planned \subseteq finished)
<1> DEFINE Whole == status = "SUCCEEDED" => PlanOf!Planned \subseteq finished
<1>1. PlanOf!PlanInit => Whole
  BY DEF PlanOf!PlanInit
<1>2. Whole /\ [PlanOf!PlanNext]_<<started, finished, status>> => Whole'
  BY DEF PlanOf!PlanNext, PlanOf!Begin, PlanOf!Finish, PlanOf!Succeed, PlanOf!Abort,
     PlanOf!Planned
<1> QED
  BY <1>1, <1>2, PTL DEF PlanOf!PlanSpec

\* An execution that ends with SUCCEEDED leaves nothing of its plan undone:
\* every step is recorded as finished, with its element, or the resource it
\* has created.
THEOREM SuccessLeavesNothing == Spec => []SuccessIsWhole
<1>1. ASSUME IndInv, FinishedIsCreated, status = "SUCCEEDED" => PlanOf!Planned \subseteq finished
      PROVE  SuccessIsWhole
  <2> SUFFICES ASSUME status = "SUCCEEDED", NEW i \in DOMAIN Plan, NEW s \in Plan[i]
               PROVE  s \in finished /\ Recorded(s) /\ (Kind[s] = "resource" => Created(s))
    BY DEF SuccessIsWhole
  <2>1. s \in finished /\ s \in Steps
    BY <1>1, PlanFacts DEF PlanOf!Planned
  <2> QED
    BY <1>1, <2>1 DEF IndInv, RecordedFirst, FinishedIsCreated
<1> QED
  BY <1>1, Invariance, CreatedBeforeFinished, PlanImplemented, PlanWhole, PTL DEF ImplementsPlan

\* As long as an execution is active something can go on, without a new loss:
\* an attempt a thread waits for is in flight, a build is under way, or the
\* threads of the group have ended and the main thread may.
THEOREM AlwaysGoesOn == Spec => []NeverStuck
<1>1. IndInv => NeverStuck
  <2> SUFFICES ASSUME IndInv, status = "ACTIVE",
                      ~ \E x \in Callers : thread[x].pc \in Functions /\ Attempt(x) \in sent,
                      ~ \E s \in Steps : thread[s].pc = "build"
               PROVE  thread[Main].pc = "groups" /\ Joined
    BY DEF NeverStuck
  <2>1. TypeOK /\ MainReads /\ NobodyWaitsInVain
    BY DEF IndInv
  <2>2. thread[Main].pc = "groups" /\ group \in 1 .. Len(Plan)
    BY <2>1, PlanFacts DEF MainReads, NobodyWaitsInVain, TypeOK
  <2>3. ASSUME NEW s \in Plan[group] PROVE thread[s].pc \in {"done", "failed"}
    <3>1. s \in Steps
      BY <2>2, PlanFacts
    <3>2. thread[s].pc \in Pcs /\ thread[s].pc \notin Functions
      BY <2>1, <3>1 DEF TypeOK, NobodyWaitsInVain, Pcs
    <3> QED
      BY <2>1, <2>2, <3>1, <3>2 DEF NobodyWaitsInVain, Pcs
  <2> QED
    BY <2>2, <2>3 DEF Joined
<1> QED
  BY <1>1, Invariance, PTL

\* The thread of a step goes forward, whatever it calls.
LEMMA ThreadAdvances ==
    ASSUME TypeOK, NEW s \in Steps, StepThread(s)
    PROVE  Advances(s)
<1> USE TriesAssumption DEF Pcs
<1>0. thread[s] \in Threads /\ 0 \in Outputs /\ s \in Callers
  BY DEF TypeOK
<1>1. CASE SetStepStarted(s)
  <2>1. PICK pc \in {"getServiceDeployYaml", "build", "createAccount", "createResource",
                     "setStepFinished", "failed"} : GoTo(s, pc, 0)
    BY <1>1, StepsAssumption DEF SetStepStarted, Body
  <2> QED
    BY <1>0, <1>1, <2>1, GoToFlying DEF SetStepStarted, Answered, Calling, Advances, Stage
<1>2. CASE GetServiceDeployYaml(s)
  <2>1. PICK pc \in {"build", "failed"} : GoTo(s, pc, 0)
    BY <1>2 DEF GetServiceDeployYaml
  <2> QED
    BY <1>0, <1>2, <2>1, GoToFlying DEF GetServiceDeployYaml, Answered, Calling, Advances, Stage
<1>3. CASE Build(s)
  <2>1. PICK pc \in {"updateState", "failed"} : GoTo(s, pc, 0)
    BY <1>3 DEF Build, AfterBuild
  <2> QED
    BY <1>0, <1>3, <2>1, GoToFlying DEF Build, Calling, Advances, Stage
<1>4. CASE CreateAccount(s)
  <2>1. GoTo(s, "updateState", thread[s].try) /\ thread[s].try \in Outputs
    BY <1>0, <1>4 DEF CreateAccount
  <2> QED
    BY <1>0, <1>4, <2>1, GoToFlying DEF CreateAccount, Answered, Calling, Advances, Stage
<1>5. CASE UpdateState(s)
  <2>1. GoTo(s, "setStepFinished", 0)
    BY <1>5 DEF UpdateState
  <2> QED
    BY <1>0, <1>5, <2>1, GoToFlying DEF UpdateState, Answered, Calling, Advances, Stage
<1>6. CASE SetStepFinished(s)
  <2>1. GoTo(s, "done", 0)
    BY <1>6 DEF SetStepFinished
  <2> QED
    BY <1>0, <1>6, <2>1, GoToFlying DEF SetStepFinished, Answered, Calling, Advances, Stage
<1>7. CASE CreateResource(s)
  <2>1. /\ thread[s].pc = "createResource" /\ thread[s].try \in Outputs
        /\ Poll(s, resource'[<<s, thread[s].try>>], thread[s].try)
    BY <1>0, <1>7 DEF CreateResource, Answered, Calling
  <2>2. PICK pc \in {"setStepFinished", "failed", "getExecution"}, o \in Outputs : GoTo(s, pc, o)
    BY <2>1, PollFollows
  <2> QED
    BY <1>0, <2>1, <2>2, GoToFlying DEF Advances, Stage
<1>8. CASE GetExecution(s)
  <2>1. /\ thread[s].pc = "getExecution" /\ thread[s].output \in Outputs
        /\ Poll(s, resource[<<s, thread[s].output>>], thread[s].output)
    BY <1>0, <1>8 DEF GetExecution, Answered, Calling
  <2>2. CASE resource[<<s, thread[s].output>>] = "ACTIVE"
    <3>1. GoTo(s, "getExecution", thread[s].output)
      BY <2>1, <2>2 DEF Poll
    <3> QED
      BY <1>0, <2>1, <2>2, <3>1, GoToFlying DEF Advances
  <2>3. CASE resource[<<s, thread[s].output>>] # "ACTIVE"
    <3>1. PICK pc \in {"setStepFinished", "failed"} : GoTo(s, pc, 0)
      BY <2>1, <2>3 DEF Poll
    <3> QED
      BY <1>0, <2>1, <3>1, GoToFlying DEF Advances, Stage
  <2> QED
    BY <2>2, <2>3
<1> QED
  BY <1>1, <1>2, <1>3, <1>4, <1>5, <1>6, <1>7, <1>8 DEF StepThread

\* The thread of a step only ever goes forward: the main thread starts it once,
\* a lost attempt that runs late moves no thread, and a call is repeated only
\* as its next attempt, or to ask again about a creation under way.  With
\* NeverStuck, it is why an execution ends if calls, builds and creations do.
THEOREM StepsGoForward == Spec => ThreadsGoForward
<1>1. ASSUME IndInv, Next, NEW s \in Steps, thread'[s] # thread[s]
      PROVE  Advances(s)
  <2> USE <1>1
  <2>1. TypeOK /\ MainReads /\ BegunInGroup /\ thread[s] \in Threads
    BY DEF IndInv, TypeOK
  <2>2. ~(DownloadArtifacts \/ GetPlan \/ EndGroup \/ FailGroup)
    BY <2>1, MainStep
  <2>3. CASE GetOutputs
    <3>1. /\ thread[Main].pc = "getOutputs" /\ group \in 1 .. Len(Plan)
          /\ s \in Plan[group] /\ thread'[s].pc = "setStepStarted"
      BY <2>1, <2>3, GetOutputsStep DEF At
    <3>2. ~InGroups(s, group - 1)
      BY <3>1, PlanFacts DEF InGroups
    <3>3. thread[s].pc = "idle"
      BY <2>1, <3>1, <3>2 DEF BegunInGroup, Reached, Begun
    <3> QED
      BY <3>1, <3>3 DEF Advances, Stage
  <2>4. ASSUME NEW x \in Steps, StepThread(x) PROVE Advances(s)
    <3>1. PICK t \in Threads : Goes(x, t)
      BY <2>1, <2>4, StepThreadStep
    <3>2. x = s
      BY <2>1, <3>1, GoesFacts DEF Went
    <3> QED
      BY <2>1, <2>4, <3>2, ThreadAdvances
  <2>5. ASSUME NEW x \in Callers, Unanswered(x) PROVE Advances(s)
    <3>1. PICK t \in Threads :
             /\ Goes(x, t)
             /\ \/ /\ t.pc = thread[x].pc
                   /\ t.output = thread[x].output
                   /\ t.try = thread[x].try + 1
                \/ t.pc = "failed"
      BY <2>1, <2>5, AgainStep
    <3>2. x = s /\ thread'[s] = t
      BY <2>1, <3>1, GoesFacts DEF Went
    <3>3. thread[s].pc \in Functions
      BY <2>1, <2>5, <3>2, UnansweredKeeps
    <3> QED
      BY <3>1, <3>2, <3>3 DEF Advances, Stage
  <2>6. ~((\E x \in Callers, t \in Threads : Run(x, t)) \/ (\E a \in Attempts : Service(a))
           \/ Cancel \/ UNCHANGED vars)
    BY DEF Run, Service, Cancel, vars
  <2> QED
    BY <2>1, <2>2, <2>3, <2>4, <2>5, <2>6, StepCases DEF StepThread
<1>2. IndInv /\ [Next]_vars =>
         [\A s \in Steps : thread'[s] # thread[s] => Advances(s)]_vars
  BY <1>1
<1> QED
  BY <1>2, Invariance, PTL DEF Spec, ThreadsGoForward

=============================================================================
