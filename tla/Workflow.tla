------------------------------ MODULE Workflow ------------------------------
(***************************************************************************)
(* One execution of workflows/AgentDeployAppWorkflow.yaml.                 *)
(*                                                                         *)
(* The main thread downloads the artifacts, gets the plan, and goes        *)
(* through its groups of steps; the steps of a group are threads that run  *)
(* side by side.  Every http.post is an attempt of a call: its answer may  *)
(* be lost, before or after the function has run, and then the call is     *)
(* attempted again (http.default_retry), while the lost attempt may still  *)
(* run, at any time, even after the execution has ended.                   *)
(*                                                                         *)
(* A thread that raises stops; the other threads of its group go on (the   *)
(* policy continueAll of parallel steps) and the execution fails when all  *)
(* of them have stopped.                                                   *)
(***************************************************************************)
EXTENDS WorkflowFunctions, Sequences

CONSTANTS
    Plan,      \* what getPlan answers: the groups, in the order of their keys
    ServiceOf, \* the service that creates a resource
    MaxLost    \* bound on the attempts that are lost

ASSUME PlanAssumption ==
    /\ Plan \in Seq(SUBSET Steps)
    /\ \A i, j \in DOMAIN Plan : i # j => Plan[i] \cap Plan[j] = {}
ASSUME ServiceAssumption == ServiceOf \in [Steps -> Steps]
ASSUME LostAssumption == MaxLost \in Nat

VARIABLES
    status,  \* state of the execution
    group,   \* the group of the plan being executed
    thread,  \* where each thread is
    sent,    \* attempts that have not run yet, with their caller
    outputs, \* services whose url the main thread knows
    lost     \* attempts lost so far

vars == <<status, group, thread, sent, outputs, lost, store>>

-----------------------------------------------------------------------------
(* Threads *)

\* pc is the name of the function being called, where one is.  output: the
\* attempt of createAccount or createResource that was answered.
At(pc, try, output) == [pc |-> pc, try |-> try, output |-> output]

Threads == [pc : Functions \cup {"idle", "build", "groups", "done", "failed"},
            try : 1 .. MaxTries, output : Outputs]

Statuses == {"ACTIVE", "SUCCEEDED", "FAILED", "CANCELLED"}

\* Every thread, attempt and document keeps its shape.
TypeOK ==
    /\ StoreTypeOK
    /\ status \in Statuses
    /\ group \in 0 .. Len(Plan)
    /\ thread \in [Callers -> Threads]
    /\ sent \subseteq Callers \X Threads
    /\ outputs \subseteq Steps
    /\ lost \in 0 .. MaxLost

\* The attempt thread x waits for.
Attempt(x) == <<x, thread[x]>>

\* Thread x goes on at pc: if that is a call, its first attempt is sent.
GoTo(x, pc, output) ==
    /\ thread' = [thread EXCEPT ![x] = At(pc, 1, output)]
    /\ sent' = (sent \ {Attempt(x)}) \cup
                  (IF pc \in Functions THEN {<<x, At(pc, 1, output)>>} ELSE {})

Init ==
    /\ status = "ACTIVE"
    /\ group = 0
    /\ thread = [x \in Callers |->
            IF x = Main THEN At("downloadArtifacts", 1, 0) ELSE At("idle", 1, 0)]
    /\ sent = {<<Main, At("downloadArtifacts", 1, 0)>>}
    /\ outputs = {}
    /\ lost = 0
    /\ StoreInit

-----------------------------------------------------------------------------
(* Calls *)

Calling(x, fn) == status = "ACTIVE" /\ thread[x].pc = fn

\* The attempt x waits for runs, and x receives its answer.
Answered(x, fn) ==
    /\ Calling(x, fn)
    /\ Attempt(x) \in sent
    /\ callFunction(x, fn, thread[x].try, thread[x].output)

\* A lost attempt runs after all, or the execution has been cancelled.  (One
\* whose answer is lost after it has run is one that is lost, then runs.)
Run(x, t) ==
    /\ <<x, t>> \in sent
    /\ status = "ACTIVE" => t # thread[x]
    /\ callFunction(x, t.pc, t.try, t.output)
    /\ sent' = sent \ {<<x, t>>}
    /\ UNCHANGED <<status, group, thread, outputs, lost>>

\* Thread x raises: an execution fails with its main thread.
Raise(x) ==
    /\ thread' = [thread EXCEPT ![x] = At("failed", 1, 0)]
    /\ status' = IF x = Main THEN "FAILED" ELSE status

\* Two variants: one attempt too many, and account_create_workflow retried as
\* a whole.
MayRetryOnceMore(x) == thread[x].try <= MaxTries
AgainFromStart(x) ==
    IF x # Main /\ Kind[x] = "account" /\ thread[x].pc = "updateState"
    THEN At("createAccount", thread[x].try + 1, 0)
    ELSE At(thread[x].pc, thread[x].try + 1, thread[x].output)

MayRetry(x) == thread[x].try < MaxTries
Again(x) == At(thread[x].pc, thread[x].try + 1, thread[x].output)

\* A timeout, a lost connection, or one of 429, 502, 503 and 504.
GiveUp(x) ==
    /\ status = "ACTIVE"
    /\ thread[x].pc \in Functions
    /\ lost < MaxLost
    /\ lost' = lost + 1
    /\ IF MayRetry(x)
       THEN /\ thread' = [thread EXCEPT ![x] = Again(x)]
            /\ sent' = sent \cup {<<x, Again(x)>>}
            /\ UNCHANGED status
       ELSE Raise(x) /\ UNCHANGED sent
    /\ UNCHANGED <<group, outputs, store>>

\* Any other error answered: the function has failed before its write, or will
\* still do it (createAccount, when the answer of IAM is lost).
Refused(x) ==
    /\ status = "ACTIVE"
    /\ thread[x].pc \in Functions
    /\ Attempt(x) \in sent
    /\ Raise(x)
    /\ sent' \in {sent, sent \ {Attempt(x)}}
    /\ UNCHANGED <<group, outputs, lost, store>>

-----------------------------------------------------------------------------
(* The main thread *)

DownloadArtifacts ==
    /\ Answered(Main, "downloadArtifacts")
    /\ GoTo(Main, "getPlan", 0)
    /\ UNCHANGED <<status, group, outputs, lost>>

\* for: the next group, or the end.
NextGroup ==
    /\ group' = IF group < Len(Plan) THEN group + 1 ELSE group
    /\ IF group < Len(Plan)
       THEN GoTo(Main, "getOutputs", 0) /\ UNCHANGED status
       ELSE GoTo(Main, "done", 0) /\ status' = "SUCCEEDED"

GetPlan ==
    /\ Answered(Main, "getPlan")
    /\ NextGroup
    /\ UNCHANGED <<outputs, lost>>

\* A variant that asks for the outputs before the first group alone.
OutputsOnce == IF group = 1 THEN DeployedServices ELSE outputs
OutputsRead == DeployedServices

\* The threads of the group start, each with a call of setStepStarted.
GetOutputs ==
    LET first == At("setStepStarted", 1, 0)
    IN  /\ Answered(Main, "getOutputs")
        /\ outputs' = OutputsRead
        /\ thread' = [x \in Callers |->
                CASE x = Main -> At("groups", 1, 0)
                  [] x # Main /\ x \in Plan[group] -> first
                  [] OTHER -> thread[x]]
        /\ sent' = (sent \ {Attempt(Main)}) \cup (Plan[group] \X {first})
        /\ UNCHANGED <<status, group, lost>>

\* A variant that waits for one thread of the group.
JoinedAny == \E s \in Plan[group] : thread[s].pc \in {"done", "failed"}

\* The parallel step ends when all its threads have.
Joined == \A s \in Plan[group] : thread[s].pc \in {"done", "failed"}

EndGroup ==
    /\ Calling(Main, "groups")
    /\ Joined
    /\ \A s \in Plan[group] : thread[s].pc # "failed"
    /\ NextGroup
    /\ UNCHANGED <<outputs, lost, store>>

FailGroup ==
    /\ Calling(Main, "groups")
    /\ Joined
    /\ \E s \in Plan[group] : thread[s].pc = "failed"
    /\ Raise(Main)
    /\ UNCHANGED <<group, sent, outputs, lost, store>>

-----------------------------------------------------------------------------
(* The thread of a step *)

\* The switch on the action: a step that no condition matches is finished.
Body(s) == [service |-> "getServiceDeployYaml", layer |-> "build",
            account |-> "createAccount", resource |-> "createResource",
            other |-> "setStepFinished"][Kind[s]]

\* The url of a service that is not deployed cannot be evaluated.
Evaluates(s) == Kind[s] = "resource" => ServiceOf[s] \in outputs

SetStepStarted(s) ==
    /\ Answered(s, "setStepStarted")
    /\ GoTo(s, IF Evaluates(s) THEN Body(s) ELSE "failed", 0)
    /\ UNCHANGED <<status, group, outputs, lost>>

\* The answer is null when the archive cannot be read, which raises.
GetServiceDeployYaml(s) ==
    /\ Answered(s, "getServiceDeployYaml")
    /\ \E pc \in {"build", "failed"} : GoTo(s, pc, 0)
    /\ UNCHANGED <<status, group, outputs, lost>>

\* A variant that records no element for a layer.
AfterBuildNoLayer(s) ==
    IF Kind[s] = "layer" THEN "setStepFinished" ELSE "updateState"
AfterBuild(s) == "updateState"

\* builds.create waits for the end of the build; its failure, or an output
\* that cannot be decoded, raises.
Build(s) ==
    /\ Calling(s, "build")
    /\ \E pc \in {AfterBuild(s), "failed"} : GoTo(s, pc, 0)
    /\ UNCHANGED <<status, group, outputs, lost, store>>

CreateAccount(s) ==
    /\ Answered(s, "createAccount")
    /\ GoTo(s, "updateState", thread[s].try)
    /\ UNCHANGED <<status, group, outputs, lost>>

UpdateState(s) ==
    /\ Answered(s, "updateState")
    /\ GoTo(s, "setStepFinished", 0)
    /\ UNCHANGED <<status, group, outputs, lost>>

\* A variant of the next two definitions that waits as long as the creation
\* has not succeeded.
PollOnFailed(s, state, output) ==
    IF state = "SUCCEEDED" THEN GoTo(s, "setStepFinished", 0)
    ELSE GoTo(s, "getExecution", output)

\* check_finished: ask again, go on, or raise; so does a result that cannot
\* be decoded.
Poll(s, state, output) ==
    CASE state = "SUCCEEDED" ->
            \E pc \in {"setStepFinished", "failed"} : GoTo(s, pc, 0)
      [] state = "ACTIVE" -> GoTo(s, "getExecution", output)
      [] OTHER -> GoTo(s, "failed", 0)

CreateResource(s) ==
    /\ Answered(s, "createResource")
    /\ Poll(s, resource'[<<s, thread[s].try>>], thread[s].try)
    /\ UNCHANGED <<status, group, outputs, lost>>

\* The execution that was answered is the one asked for.
GetExecution(s) ==
    /\ Answered(s, "getExecution")
    /\ Poll(s, resource[<<s, thread[s].output>>], thread[s].output)
    /\ UNCHANGED <<status, group, outputs, lost>>

SetStepFinished(s) ==
    /\ Answered(s, "setStepFinished")
    /\ GoTo(s, "done", 0)
    /\ UNCHANGED <<status, group, outputs, lost>>

-----------------------------------------------------------------------------
(* The specification *)

\* Somebody cancels the execution: its threads stop where they are.
Cancel ==
    /\ status = "ACTIVE"
    /\ status' = "CANCELLED"
    /\ UNCHANGED <<group, thread, sent, outputs, lost, store>>

MainThread ==
    DownloadArtifacts \/ GetPlan \/ GetOutputs \/ EndGroup \/ FailGroup

StepThread(s) ==
    \/ SetStepStarted(s) \/ GetServiceDeployYaml(s) \/ Build(s)
    \/ CreateAccount(s) \/ UpdateState(s)
    \/ CreateResource(s) \/ GetExecution(s)
    \/ SetStepFinished(s)

Unanswered(x) == GiveUp(x) \/ Refused(x)

Service(a) ==
    /\ EndResource(a)
    /\ UNCHANGED <<status, group, thread, sent, outputs, lost>>

Next ==
    \/ MainThread
    \/ \E s \in Steps : StepThread(s)
    \/ \E x \in Callers : Unanswered(x)
    \/ \E c \in sent : Run(c[1], c[2])
    \/ \E a \in Attempts : Service(a)
    \/ Cancel

Spec == Init /\ [][Next]_vars

\* The Workflows service runs the threads of an execution; an attempt that is
\* neither lost nor refused is answered; a build, and the creation of a
\* resource, end.  Nothing is assumed of lost attempts.
Fairness ==
    /\ WF_vars(MainThread)
    /\ \A s \in Steps : WF_vars(StepThread(s))
    /\ \A a \in Attempts : WF_vars(Service(a))

FairSpec == Spec /\ Fairness

-----------------------------------------------------------------------------
(* Properties *)

\* "Execute in order the plan group of steps by group of steps that are done in
\* //" (AgentDeployAppWorkflow.yaml): no step starts before all the steps of
\* the groups before its own are recorded as finished, and an execution
\* succeeds when all are, whatever attempts are lost and run late.
PlanOf == INSTANCE PlanRun WITH
    begun <- started,
    done <- finished,
    outcome <- status

ImplementsPlan == PlanOf!PlanSpec

\* A step recorded as finished has its element recorded, if it is of a kind
\* that has one: resources have none, nor has a step nothing was done for.
FinishedHasElement ==
    \A s \in finished :
        Kind[s] \in {"service", "layer", "account"} => element[s] # None

\* The account recorded for a step exists and stays the recorded one, though
\* every attempt of createAccount makes another.
RecordedAccountStays ==
    [][\A s \in Steps : Kind[s] = "account" /\ element[s] # None =>
            /\ <<s, element[s]>> \in account
            /\ element'[s] = element[s]]_vars

\* A plan that deploys a service in a group before the resources it creates
\* never fails for want of the url of the service: getOutputs is called
\* between any two groups.
ServiceFirst ==
    \A s \in Steps : Kind[s] = "resource" =>
        /\ Kind[ServiceOf[s]] = "service"
        /\ \E i, j \in DOMAIN Plan : i < j /\ ServiceOf[s] \in Plan[i] /\ s \in Plan[j]

UrlKnown ==
    ServiceFirst => \A s \in Steps :
        thread[s].pc = "setStepStarted" => Evaluates(s)

\* An execution ends, whatever attempts are lost.
ExecutionEnds == <>(status # "ACTIVE")

=============================================================================
