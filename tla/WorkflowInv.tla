---------------------------- MODULE WorkflowInv ----------------------------
(***************************************************************************)
(* The inductive invariant of Workflow.  A lost attempt may run at any     *)
(* time, so what holds of a thread at a call must go on holding of every   *)
(* attempt of that call still in flight.                                   *)
(***************************************************************************)
EXTENDS Workflow

\* In flight: an attempt of fn by s.
Flying(s, t) == <<s, t>> \in sent

\* s belongs to one of the first n groups.
InGroups(s, n) == \E i \in 1 .. n : s \in Plan[i]

\* The element of s is there, if its kind has one.
Recorded(s) ==
    Kind[s] \in {"service", "layer", "account"} => element[s] # None

\* The main thread calls functions that only read, and knows its group.
MainReads ==
    /\ thread[Main].pc \in {"downloadArtifacts", "getPlan", "getOutputs",
                            "groups", "done", "failed"}
    /\ thread[Main].pc \in {"downloadArtifacts", "getPlan"} => group = 0
    /\ thread[Main].pc \in {"getOutputs", "groups"} => group # 0
    /\ \A t \in Threads : Flying(Main, t) => t.pc \in Reads

\* The groups before the current one are finished.
EarlierFinished == \A i \in 1 .. group - 1 : Plan[i] \subseteq finished

\* s has a thread, a document or a call.
Begun(s) == \/ thread[s].pc # "idle"
            \/ s \in started
            \/ \E t \in Threads : Flying(s, t)

\* The groups whose threads exist.
Reached == IF thread[Main].pc = "getOutputs" THEN group - 1 ELSE group

\* A thread exists, and its calls, once its group has been reached.
BegunInGroup == \A s \in Steps : Begun(s) => InGroups(s, Reached)

\* The first calls of the threads of a group are over before it ends.
FirstCallsInGroup ==
    \A s \in Steps : thread[s].pc = "setStepStarted" =>
        thread[Main].pc = "groups" /\ s \in Plan[group]

\* The main thread knows the services of the groups before the one it executes.
OutputsKnown ==
    thread[Main].pc = "groups" =>
        \A i \in 1 .. group - 1 : \A s \in Plan[i] : Kind[s] = "service" => s \in outputs

\* A step is recorded as started before anything else is called for it.
StartedFirst ==
    /\ finished \subseteq started
    /\ \A s \in Steps :
          /\ thread[s].pc \notin {"idle", "setStepStarted", "failed"} => s \in started
          /\ \A t \in Threads : Flying(s, t) /\ t.pc # "setStepStarted" => s \in started

\* What a thread calls depends on the kind of its step.
CallsOfKind ==
    \A s \in Steps :
        /\ thread[s].pc = "getServiceDeployYaml" => Kind[s] = "service"
        /\ thread[s].pc = "build" => Kind[s] \in {"service", "layer"}
        /\ thread[s].pc = "createAccount" => Kind[s] = "account"
        /\ thread[s].pc = "updateState" => Kind[s] \in {"service", "layer", "account"}
        /\ thread[s].pc \in {"createResource", "getExecution"} => Kind[s] = "resource"

\* A step is finished, in the document or in flight, after its element is there.
RecordedFirst ==
    \A s \in Steps :
        /\ thread[s].pc = "done" => s \in finished
        /\ thread[s].pc = "setStepFinished" \/ s \in finished => Recorded(s)
        /\ \A t \in Threads : Flying(s, t) /\ t.pc = "setStepFinished" => Recorded(s)

\* All attempts of updateState for an account carry the same account.
Early == {"idle", "setStepStarted", "createAccount"}

OneAccountOf(s) ==
    /\ element[s] # None => <<s, element[s]>> \in account
    /\ thread[s].pc \in Early => element[s] = None
    /\ thread[s].pc = "updateState" =>
          /\ <<s, thread[s].output>> \in account
          /\ element[s] \in {None, thread[s].output}
    /\ \A t \in Threads : Flying(s, t) /\ t.pc = "updateState" =>
          /\ thread[s].pc \notin Early
          /\ thread[s].pc = "updateState" => t.output = thread[s].output
          /\ <<s, t.output>> \in account
          /\ element[s] \in {None, t.output}
          /\ \A u \in Threads :
                Flying(s, u) /\ u.pc = "updateState" => u.output = t.output

OneAccount == \A s \in Steps : Kind[s] = "account" => OneAccountOf(s)

\* The creation of the resource of s, at one of the attempts, has succeeded.
Created(s) == \E n \in 1 .. MaxTries : resource[<<s, n>>] = "SUCCEEDED"

\* An attempt of createResource runs once at most, and what a thread follows
\* is a creation that was begun.
OneResourceOf(s) ==
    /\ thread[s].pc \in {"idle", "setStepStarted"} =>
          \A n \in 1 .. MaxTries : resource[<<s, n>>] = None
    /\ thread[s].pc = "createResource" =>
          /\ thread[s].output = 0
          /\ \A n \in 1 .. MaxTries : n > thread[s].try => resource[<<s, n>>] = None
    /\ thread[s].pc = "getExecution" =>
          thread[s].output \in 1 .. MaxTries /\ resource[<<s, thread[s].output>>] # None
    /\ thread[s].pc = "setStepFinished" \/ s \in finished => Created(s)
    /\ \A t \in Threads : Flying(s, t) /\ t.pc = "setStepFinished" => Created(s)
    /\ \A t \in Threads : Flying(s, t) /\ t.pc = "createResource" =>
          /\ t.output = 0
          /\ resource[<<s, t.try>>] = None
          /\ thread[s].pc \notin {"idle", "setStepStarted"}
          /\ thread[s].pc = "createResource" => t.try <= thread[s].try

\* The creations of a resource are told apart by the attempts that began them.
OneResource == \A s \in Steps : Kind[s] = "resource" => OneResourceOf(s)

\* While the execution is active, the attempt a thread waits for is in flight,
\* the main thread has not ended, and the threads of its group have begun.
NobodyWaitsInVain ==
    status = "ACTIVE" =>
        /\ \A x \in Callers : thread[x].pc \in Functions => Attempt(x) \in sent
        /\ thread[Main].pc \notin {"done", "failed"}
        /\ thread[Main].pc = "groups" =>
              \A s \in Plan[group] : thread[s].pc \notin {"idle", "groups"}

\* The inductive invariant of an execution of AgentDeployAppWorkflow.yaml: what
\* ties its threads, its attempts in flight, the documents and the accounts
\* together, so that no attempt that runs late contradicts what was recorded.
IndInv ==
    /\ TypeOK
    /\ MainReads
    /\ EarlierFinished
    /\ BegunInGroup
    /\ StartedFirst
    /\ CallsOfKind
    /\ RecordedFirst
    /\ OneAccount
    /\ FirstCallsInGroup
    /\ OutputsKnown
    /\ OneResource
    /\ NobodyWaitsInVain

-----------------------------------------------------------------------------
(* Properties that are proved of every plan *)

\* A resource recorded as finished has been created: the creation its thread
\* followed, by createResource and getExecution, ended with SUCCEEDED.
FinishedIsCreated == \A s \in finished : Kind[s] = "resource" => Created(s)

\* An execution that SUCCEEDED has recorded every step of the plan as finished,
\* with its element or its resource.
SuccessIsWhole ==
    status = "SUCCEEDED" =>
        \A i \in DOMAIN Plan : \A s \in Plan[i] :
            s \in finished /\ Recorded(s) /\ (Kind[s] = "resource" => Created(s))

\* As long as the execution is active, an attempt somebody waits for can still
\* be answered, a build is under way, or the threads of the group have ended:
\* no lost attempt leaves the workflow waiting for nothing.
NeverStuck ==
    status = "ACTIVE" =>
        \/ \E x \in Callers : thread[x].pc \in Functions /\ Attempt(x) \in sent
        \/ \E s \in Steps : thread[s].pc = "build"
        \/ thread[Main].pc = "groups" /\ Joined

\* How far a call is along the thread of a step.
Stage(pc) ==
    CASE pc = "setStepStarted" -> 1
      [] pc \in {"getServiceDeployYaml", "createAccount", "createResource"} -> 2
      [] pc \in {"build", "getExecution"} -> 3
      [] pc = "updateState" -> 4
      [] pc = "setStepFinished" -> 5
      [] pc \in {"done", "failed"} -> 6
      [] OTHER -> 0

\* The thread of s goes forward, repeats a call that was not answered, or asks
\* again about a creation that is under way.
Advances(s) ==
    \/ Stage(thread[s].pc) < Stage(thread'[s].pc)
    \/ /\ thread'[s].pc = thread[s].pc
       /\ thread'[s].output = thread[s].output
       /\ \/ thread'[s].try = thread[s].try + 1
          \/ /\ thread[s].pc = "getExecution"
             /\ resource[<<s, thread[s].output>>] = "ACTIVE"

\* No step of the plan runs twice, and no thread calls again what it has gone
\* past.
ThreadsGoForward ==
    [][\A s \in Steps : thread'[s] # thread[s] => Advances(s)]_vars

=============================================================================
