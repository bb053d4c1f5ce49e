# The agent, specified

TLA+ models of the deployment agent of this repository (`functions/`,
`workflows/`, `host.sh`), what TLC checks of them and what TLAPS proves of them. Line
numbers are those of the files under `src/`; `PROJECT.json` maps every
definition to the lines it stands for.

## 1. The system

An agent is installed in a Google Cloud project by `host.sh` and deploys *apps*
into it on behalf of a remote console. All its state is in the services it
calls; its own processes keep nothing between two requests and may be stopped
at any `await`.

| Component | State | Operations | Interacts with |
|---|---|---|---|
| **Deployment API** `App.js`, `index.js` | `apps/<appId>` (`appShortId`, `deploymentId`, `deployedAt`), `apps/<appId>/deployments/<id>` (`deployedAt`, `execution`), the architectures bucket | `putApp`, `getAppStatus`, `getAppState`, `generateAppShortId`, `getAppUpdatePlan` and its pure functions | clients (PUT, GET), Firestore transactions, Cloud Storage, Workflows |
| **Deployment queue** `DeploymentQueue.js` | one app document (`state`, `deploying`, `architecture`), one document per deployment (`state`, `createdAt`, `execution`) | `putDeployment`, `getDeployment`, `getApp`; nothing runs in the background, states move when somebody polls | Firestore, Workflows |
| **Deployment workflow** `AgentDeployAppWorkflow.yaml` | one execution: current group of the plan, one thread per step, outputs | groups in sequence, steps of a group in parallel, retried HTTP calls | Workflow functions, Cloud Build, the services it deploys |
| **Workflow functions** `Workflow.js` | `steps.<id>.started/finished`, the elements `apps/<appId>/<type>/<key>`, service accounts, archives in buckets | one function per `POST /workflow/<fn>` | Firestore, IAM, Cloud Storage |
| **Update plan** (pure part of `App.js`) | none | `computeUpdateMask`, `servicesSteps`, `accountsSteps`, ... | `getAppUpdatePlan` |
| **Installer** `host.sh` | databases, indexes, buckets, functions, the workflow and the gateway of the project, `hosts/<shortId>` | a sequence of steps that look for something and make it if it is missing, run again until it succeeds | gcloud, Firestore over HTTP |
| **Pairing, gateway, endpoints, glue, old workflow** | none | constant page, route table, stubs, error constructors, dead text | - |

What is hard in it, component by component, and what makes it correct:

* *Deployment API.* Two PUTs of one app, a PUT sent again after a lost answer,
  a process that dies between the commit and the record of the execution, a
  status read inside the transaction but not protected by it, a one-minute
  limit racing a slow `createExecution`. Correct when the deployments of an
  app form one line, each computed from what its predecessor left; none is
  executed twice; two of one app overlap only if the limit gave one up; short
  ids differ; an app does not stay DEPLOYING.
* *Deployment queue.* The place of a deployment in the queue is read by two
  queries outside the transaction that acts on it; the outcome of an execution
  is written without any transaction; a document becomes visible after its
  timestamp was taken. Correct when one deployment is DEPLOYING at a time, it
  is the one the app names, a deployment is skipped only for a newer one, and
  failures are seen.
* *Deployment workflow.* Calls that time out are attempted again and the lost
  attempt may run after its retry, after its step, after the execution; the
  steps of a group fail separately. Correct when groups follow one another,
  what is recorded as finished is recorded as deployed, the recorded account
  is never replaced by another, and the execution ends.
* *Archives.* Two calls of `downloadArtifacts`, of two apps or of one call
  attempted again, copy the same files into shared buckets; the first file that
  fails rejects the call while the others go on; an url that has expired
  answers a page of error, which is stored; a file is verified by a field that
  its metadata do not have. Correct when what is answered for is stored, what is
  there is not downloaded again, a call made again after a rejection succeeds,
  and every call is answered.
* *Installer.* The script stops at the first error, wherever that is, and is run
  again, of the same source or of another, perhaps while a run goes on; what an
  unanswered question means depends on the step; names of buckets are shared
  with the whole world, short ids of six digits by all hosts of a project.
  Correct when a run that ends has installed its source whatever came before,
  finds the bucket of the runs before it, shares nothing with another host, and
  ends.

## 2. Modules

| Module | Models |
|---|---|
| `App` | `putApp`, `getAppStatus`, `getAppState`, `generateAppShortId` against Firestore, Cloud Storage and Workflows |
| `AppInv` | the inductive invariant of `App` |
| `App_proofs` | theorems about `App` |
| `DeployGate` | the abstract promise of `putApp` to its clients |
| `AppGate`, `AppGate_proofs` | the refinement mapping from `App` to `DeployGate`, and its proof |
| `DeploymentQueue` | every method of the class of `DeploymentQueue.js`, for one app |
| `AtomicQueue` | the abstract queue of an app: who decides the fate of a deployment sees all of the queue |
| `QueueAtomic`, `QueueAtomic_proofs` | the refinement mapping from `DeploymentQueue` to `AtomicQueue`, and its proof |
| `WorkflowFunctions` | what the functions of `Workflow.js` and the API of the deployed services write |
| `Workflow` | one execution of `AgentDeployAppWorkflow.yaml`, composed with `WorkflowFunctions` |
| `PlanRun` | the abstract promise of an execution: groups one after the other |
| `WorkflowInv`, `Workflow_proofs` | the inductive invariant of `Workflow`, theorems about it |
| `DeploymentQueueInv`, `DeploymentQueue_proofs` | the inductive invariant of `DeploymentQueue`, theorems about it |
| `Artifacts`, `Artifacts_proofs` | `downloadArtifacts` and `uploadFromUrl` of `Workflow.js`, theorems about them |
| `Installer`, `Installer_proofs` | `host.sh`, theorems about it |
| `MCApp`, `MCDeploymentQueue`, `MCWorkflow`, `MCArtifacts`, `MCInstaller` | small instances for TLC |

### App

`appDoc`, `deploymentDoc`, `architecture`, `bucket` and `execution` are the
documents, files and executions. A *handler* is one invocation of PUT; its `pc`
says between which awaits of `putApp` it is:

    begin --ReadApp--> read --CheckStatus--> naming --GenerateAppShortId--> ready
                                    \_______ (existing app) _________________/
    ready --Commit--> committed --SaveFile x2, CreateExecution--> created
          --RecordExecution--> done

with the three rejections of the code, `TxnConflict` and `Crash`. Firestore
transactions are serializable: a handler remembers what it read, `Commit` is
enabled while those reads still hold (`ReadsHold`), otherwise the client
library calls the function again or gives up. The state of the execution is
*not* part of the transaction, so it is read in `CheckStatus` and may be stale
at `Commit`. Clients compute plans from `getAppState` at any time and PUT them
any number of times; `deployedAt` is theirs, unrelated to the clock of the
agent. The execution of the workflow is only what `App` depends on: it sends calls
of `updateState` (`CallUpdateState`), and ends in one of the five states the
repository lists for it (`DeploymentQueue.js`; the Workflows API has a queue and
an unavailable state besides). A call that was sent (`sent`) is never taken back:
`updateState` asks nothing about the execution, so an attempt of it runs at any
time, once more or for the first time, after the execution has ended and others
have begun. Only a success is known to have had its answer (`Answered`).
`architecture` says which deployments have written to an app: the elements of one
are not told apart, and a second write of one is no change.

`history` (the commits of each app, in order), `givenUp` (deployments replaced
while their execution was not recorded) and the field `base` of a plan are
ghosts: no guard reads them.

A document that exists always has the fields `putApp` writes together, so the
branches of `getAppStatus` for a missing field are one case of `Status`. The two
`/executions` routes call `putApp` with the wrong arguments and fail before any
write; they have no action.

### DeploymentQueue

`put[d]` is a call of `putDeployment`, `poll[p]` a call of `getDeployment` or
`getApp` (`target = None`). One action per await: the lookup and the set of the
app, the timestamp, the set of the document, the execution, its name; in a poll
the list of running deployments, their executions, each write of an outcome,
the transaction on the app, the two queries, the transaction on the deployment.
Where the code reads outside a transaction, the value is kept in the poll and
used later. A poll that meets a deployment without recorded execution is
rejected before any write, which is the guard of `List`. Calls die at any await,
`MaxCrashes` times. `late` and `overwritten` are ghosts.

`AtomicQueue` is what the class promises, without polls, queries or
transactions: deployments enter at a place, executions end, an outcome is noted,
a deployment is let through if all that waits is behind it, is skipped if there
is a more recent one, and the app shows what has become of the one let through
last. Each of these is one step that sees the whole queue. `QueueAtomic` maps the
document of a deployment to its state and place, and its execution to what it has
come to; reads, timestamps and crashes are stutters.

### Workflow, WorkflowFunctions

A thread is the main sequence or the branch of one step; `thread[x].pc` is the
call it waits for. An attempt of a call is in `sent` until its function has run.
`GiveUp` is a timeout or a retried error: the next attempt is sent (up to
`MaxTries`, the `max_retries` of `http.default_retry` plus one) while the lost
one stays in flight; `Run` lets it run at any later time, also after the
execution has ended. `Refused` is any other error: the thread raises, and the
function has done nothing yet, or will still do it. A lost answer of a call
that did run is a lost attempt followed by `Run`. A thread that raises does not
stop the others of its group; `FailGroup` then ends the execution. `Cancel`
stops all threads where they are.

`createAccount` draws a new account at each attempt, so accounts are named by
the attempt that made them; `element[s]` records which one `updateState` wrote.
`createResource` may answer at once or with an execution under way, which
`check_finished` polls. The order of the groups, which `getPlan` computes by
sorting their keys, is the constant `Plan`. Builds and sleeps are a step of
their own without data.

### Artifacts

`call[c]` is an invocation of `downloadArtifacts`, `job[c][f]` where its chain
of promises for file `f` is: the file exists or not, its checksum is that of the
list or not, the url is fetched and stored, the upload is verified. `Promise.all`
answers with the first rejection (`Reject`), and the jobs of a rejected call go
on. `Garbage` is what an expired url serves: the code stores the body whatever
the status is. `ReadInvalid` is a list that is none (`putApp` writes `{}` when it
is given none) or has an element of an unknown type: the jobs of what precedes
it have been started. `Crash` is an error that nobody handles (a stream, the
`getMetadata` after the upload) or an instance that is stopped. The checksum
compared after an upload is `metadata.crc32`, which no object has; it is equal
to that of the list only if the list gives none, which is the case of a file
that is new. `garbled` and `present` are ghosts.

### Installer

A run is at a step and knows what the last question told it (`told`); `After` is
the order of the script, `GoesOn` the next step. `Stop` is `set -e`: any command
may fail before or after it has had its effect, so a run may stop anywhere; the
effect comes with the action of the step, or never. A question that gets no
answer (`Lost`, `MaxFailures` times) is what the script makes of it: for
`describe`, that the thing is missing; for `buckets list`, that there is no such
bucket (`create_bucket` runs in `$(...)`, which does not inherit `set -e`); for
an HTTP status other than 200, 201 and 404, that there is nothing to compare and
nothing to write. `told = "half"` is the middle of the
two steps that have one: one index of two, a bucket created and not yet listed.
A call of `create_bucket` may also be refused, again and again, while `refusing`
holds (billing, a permission, a policy, which somebody changes with
`ChangePolicy`): line 37 takes a refusal for a name that is taken and the loop of
line 32 goes on. `NextName` stays at `MaxIncrement`, the name that stands for all
that follow. The url of the backend is told through a pipe to `sed`, whose status
is that of `sed`: `DescribeBackend` goes on without it, and `url` says whether the
run knows it. Workflow and API configuration are made with it or with an empty
one, so `Config`, the digest in the name of the configuration, depends on it.
The three buckets are made by the same function with other names: one stands for
them. `gcloud services enable` changes nothing that another step reads here.
Bucket names belong to other projects (`taken`), which may give them up.
`unanswered`, `first`, `disturbed`, `latest`, `released` and `refused` are ghosts.

## 3. Runs

| Run | Shows | Bounds, and why they are enough |
|---|---|---|
| `app_gate` | type, inductive invariant, one line per app, one execution per deployment, overlap only if given up, cancelled apps frozen | one app, three deployments, three handlers: three PUTs in a row, or one sent again while another races it; the elements of a deployment come late to the plan of the one after the next, which two deployments could not show. A limit of 0 and a clock to 2 that starts before, with or behind each stamp: CREATING expires before, while or after its execution is created, or not at all |
| `app_live` | distinct short ids, refinement of `DeployGate`, an app does not stay DEPLOYING | two apps with two short ids, so that both draws can collide; two deployments, of one app or of two, two handlers, a limit of 1, a clock that reaches past every stamp plus the limit (2 + 1 < 4): a smaller one would stop time before a creation expires |
| `queue` | type, inductive invariant, one DEPLOYING unless late, DEPLOYING is never skipped, skipped only for newer, the app names what is DEPLOYING, an outcome never changes, polls decide as if they saw the whole queue (`PollsAreAtomic`) | three deployments, the least with a first, a last and one between; two pollers, so that one acts on what the other has changed; an execution that succeeds or is in a state the code does not know; one crash. Two kinds of initial states, both reachable: an app with two deployments PENDING, each being executed, and the third about to get its timestamp, and an app that does not exist yet, with two deployments |
| `queue_live` | a failure reaches its deployment | two deployments, one poller, no crash; an execution succeeds, fails, is cancelled or runs for ever |
| `workflow` | type, inductive invariant, finished implies recorded, recorded account stays, url known, refinement of `PlanRun`, the execution ends | three groups with a step of each kind, two attempts per call, two attempts lost: both may be of one call, or of two calls of different groups |
| `artifacts` | type, what is answered for is stored, what is there is kept, what a checksum rejects is right, a call ends | two calls at once, two files, two contents: the lists agree, differ, or leave a file out; every url may have expired, every job may fail, every process may die |
| `installer` | type, one host per short id unless two asked at once or one was not answered, an undisturbed run leaves all of its source, and its url unless that was not told, one bucket for all runs, a run ends once nothing is refused | two runs, at once or one after the other, three sources of which two are of one host and the third of another host with its short id; one question without answer. When both install the same, another project has the first name of the bucket and may give it up, and the policy changes at will while a bucket is made: how a bucket is made depends on nothing that is installed. Two names suffice, one that is taken or not and the one that stands for the next |

Five runs show what a comment or a message of the code claims and the code does
not do:

| Run | The code says | TLC finds |
|---|---|---|
| `app_expired_but_running` | "if the workflow is not created 1 min after the initialization we assume the workflow failed to start" (`App.js:183`) | an app reported FAILED whose execution is running: created, its name not recorded yet, or never |
| `app_plan_not_fresh` | "if the app has been deployed since the plan has been computed, the plan is not valid anymore" (`App.js:88`) | a plan computed while a deployment is still writing its elements is accepted after that deployment has ended: `deployedAt` was set when it started |
| `queue_stuck` | "we need to check pending deployments too if the next deployment is in a PENDING state and the workflow failed..." (`DeploymentQueue.js:186`) | one `putDeployment` that dies between lines 73 and 87 makes all later polls of the app fail: no failure is seen any more |
| `artifacts_rejected` | "Crc32 does not match." (`Workflow.js:217`) | a file that had to be replaced is rejected although it now is what was wanted: `metadata.crc32` does not exist |
| `installer_indexes` | "Index already existing for collection 'deployment'" (`host.sh:182`) | an installation without any index: listing the indexes of a database that has none succeeds |

Some consequences are stated as properties that hold, because nothing in the
repository says otherwise: an app whose execution was cancelled can never be
deployed again (`CancelledAppIsFrozen`); two executions of an app do overlap
after a deployment was given up (`OverlapOnlyIfGivenUp` says when); a call of
`downloadArtifacts` rejected by a checksum has stored the right file, so that
the same call made again is not rejected (`RejectedIsStored`, `PresentIsKept`);
two hosts can share a short id, and `OneHostPerShortId` says when.

Named bounds: `MaxClock`, `MaxCrashes`, `MaxLost`, `MaxFailures`,
`MaxIncrement`; `Stamps`, `Handlers`, `Deployments`, `Pollers`, `Calls` and
`Runs` are finite sets in the instances. Symmetry is used in runs without
liveness, over sets whose members differ by nothing but their names; where there
is liveness, `MCArtifacts` and `MCInstaller` fix by name what one of such members
wants, which leaves out renamed behaviours only. Deadlock is not checked where
every call has been served and nothing is left to do; the configurations say so.

For every property there is a variant of one definition of the model (the
operators introduced by "A variant ...") that a plausible mistake in the code
would give, and that makes TLC find the property violated.

## 4. Fairness

* `App`: time passes (`Tick`) and executions end (Workflows bounds their
  duration). Handlers and clients get none: a Cloud Function may be stopped at
  any await and nobody resumes it. The limit of one minute has to do the work.
* `DeploymentQueue`: a call that does not die goes on, and somebody polls again
  and again (the console does while a deployment is shown). Executions get none.
* `Workflow`: Workflows runs the threads of an execution; an attempt that is
  neither lost nor refused is answered; a build ends; the creation of a resource
  ends, in success or failure. Lost attempts get none: they may never run.
* `Artifacts`: a process that lives goes on with each of its jobs, and answers
  when they allow it. Nothing is assumed of errors, crashes, or of who calls.
* `Installer`: a run that has started goes on (a script does). Nobody promises to
  start another, and other projects need not give up their names. That a run ends
  (`RunEnds`) is claimed only of behaviours in which the project, from some time
  on, lets it create a bucket and list it: as long as these calls are refused
  `create_bucket` loops, by line 37, and nobody is told.

## 5. Proofs

All theorems hold for every value of the constants that satisfies the named
assumptions of the modules: any number of apps, deployments, handlers, short
ids and stamps, any limit; any plan with disjoint groups, any kinds of steps,
any number of attempts, lost or not; any number of polls and crashes; any
number of calls, files and contents; any number of runs of `host.sh`, sources,
hosts and questions without answer.

**App.** The properties are not inductive: that a commit extends the line
depends on what its handler read, that no deployment is executed twice on which
handlers are past their commit. `AppInv!IndInv` adds

* `AppDocIsNewest`, `HistoryIsALine`: the document and the ghost history agree;
* `StampsDiffer`, `PointNamesBase`: a deployment point names the commit a plan
  was computed after, because stamps differ. From this, a handler whose reads
  still hold at `Commit` was planned at the end of the line;
* `HandlersOK`: what a handler holds between reads and writes; in particular
  the deployment it replaces has ended, and an ended execution stays ended,
  which is why the stale status does no harm;
* `CommittedOnce`, `ExecutionsFollowCommits`: one handler per deployment gets
  past the transaction, and until it records its execution the deployment is
  CREATING and current, or given up;
* `SuccessesWritten`, `ElementsAreOwn`, `PlansMissOnlyLater`, `NoneDropped`: what a
  plan can have missed of the elements of its app, and what has become of the
  deployments that were replaced. An attempt of `updateState` may run at any time:
  what a plan has missed is of the newest deployment or of a later one, or of one
  that was given up or has failed (`MayComeLate`); what succeeded had its answers
  before it ended, hence before the plan. They need the line and do not support it,
  so the other conjuncts are gathered in `LineInv` and proved first.

`App_proofs` proves `Init => IndInv`, `IndInv /\ [Next]_vars => IndInv'` and
from them `TypeCorrect`, `OneLine`, `ExecutedOnce`, `OverlapOnlyAfterGivingUp`,
`ShortIdsDiffer` and `CancelledForEver`. `NoneIsDropped` says that every accepted
deployment but the newest was executed and that is over, and was not cancelled, or was given
up. `SeesOlderSuccesses` is the other half of the finding `app_plan_not_fresh`:
an accepted plan may not be fresh, but all it can have missed is elements of the
very deployment it is built on, or late ones of deployments that were given up or
failed. It speaks of the deployments that have written, not of what they wrote:
a late attempt of an older one, even of a success, may write again over an element
that a newer one has written since (section 7). `AppGate_proofs` proves from the same
invariant that every step of `App` is a step of `DeployGate` or a stutter.

The uniqueness of stamps across clients is part of the model (the guard of
`GetAppState`): the code compares stamps only, so two clients that stamp alike
would be one to it.

**Workflow.** What holds of a thread at a call has to hold of every attempt of
that call still in flight, since it may run at any time.
`WorkflowInv!IndInv` says this for the order of the calls (`StartedFirst`,
`RecordedFirst`), for the groups (`BegunInGroup`, `EarlierFinished`) and for the
account (`OneAccount`: all attempts of `updateState` for an account, in flight
or waited for, carry the account that is recorded if one is). `Workflow_proofs`
proves it inductive, and from it `TypeCorrect`, `ElementOfFinished`,
`AccountStays`, `UrlsKnown` and `PlanImplemented`, the refinement of `PlanRun`.
`UrlsKnown` needs two more conjuncts: no thread outlives its group at its first
call (`FirstCallsInGroup`), and while the threads of a group run, the outputs
hold the services of all earlier groups (`OutputsKnown`), because the elements
are recorded before the steps are finished and the outputs are read after.

Two more conjuncts are about what a workflow waits for. `OneResource`: an attempt
of `createResource` runs once at most, and what a thread follows with
`check_finished` is a creation that was begun. From it `CreatedBeforeFinished`: a
resource recorded as finished has been created. `SuccessLeavesNothing` is proved
of the abstract `PlanRun`, carried over by the refinement, and put together with
what is recorded of finished steps. `NobodyWaitsInVain`: while the execution is
active, the attempt a thread waits for is in flight. From it `AlwaysGoesOn`, and
with `StepsGoForward`, that no thread returns to what it has gone past, these are
the safety half of `ExecutionEnds`: there is always something to wait for, and
what has been waited for is behind. That the waiting ends is the fairness, and
stays with TLC. `NoneAssumption`, that the absence of a resource is none of the
states of a resource, is assumed of the constants.

**DeploymentQueue.** A poll acts on answers to queries that its transaction does
not protect. What of them is still true by then rests on one fact: a deployment
that has left PENDING, or the running states, never returns.
`DeploymentQueueInv!IndInv` says it for the place in the queue (`PlacesStand`:
as long as the deployment is PENDING, all that runs is behind what was found
first, and there is one behind what was not found last), for the listed
deployments (`ListedOK`, `OutcomesTrue`: an outcome written outside any
transaction is that of an execution that has ended, so it is written over
itself), for the app (`AppOK`) and for the order (`DeployingFirst`).
`DeploymentQueue_proofs` proves it inductive and from it `TypeCorrect`,
`OneDeploying`, `NeverSkipped`, `SkippedForAnother`, `DeployingCurrent` and the
action property `OutcomeStays`.

`QueueAtomic_proofs` proves the refinement of `AtomicQueue` from it, step by step:
what a poll was told of the queue before its transaction is, at the commit, still
enough for what it decides (`PollsAtomic`, `QueueImplemented`). For `Deploy` and
`Skip` this is `PlacesStand`; for `Settle`, which writes to the app a
state that was read outside the transaction, it is `SeenTrue`: an outcome that was
read is the outcome. `AppTellsTrue` follows: the app shows the outcome of its
deployment. `ExecutionsQueued` and `BlockedByPut` say which documents have no
recorded execution: only those of a `putDeployment` that is at work or has died
(`PollsBlockedByPut`). `StuckForEver` completes the finding `queue_stuck`: once
such a call has died and the polls under way are answered, no deployment of the
app changes its state again, for all polls that will ever come.

**Artifacts.** A file that all calls want alike and no url has spoilt can only
change into what is wanted; so what one job has read, stored or verified still
stands when the last job of the call ends (`JobsStand`). `Artifacts_proofs`
proves this inductive and from it `TypeCorrect`, `ResolvedStored`, `PresentKept`
and `RejectedStored`.

**Installer.** `Installer_proofs` first reduces the fifteen kinds of steps to
four (`StepDoes`): a run is asked for more, stops, ends a step well and has then
established what the step is for, or leaves out the comparison of the hosts.
The invariant says of each run what the steps behind it have made, which nobody
removes (`MadeSoFar`); of a run that is alone what it has deployed, which nobody
else changes (`InstalledSoFar`, `NobodyElse`); of the hosts, that one who was let
through is the host of a run that found the short id free (`HostsFirst`); and of
the buckets, as long as all questions are answered and none is refused, that all
smaller names are taken (`BucketsFirst`). `Whole` includes the url: workflow,
configuration and gateway have the one the run was told, and one that was told
nothing has not been answered. From it `TypeCorrect`, `OneHost`, `Whole` and
`OneBucket`. `NoIndex` is the other half of the finding `installer_indexes`: as
long as all questions are answered, no run, first or later, makes an index.

Only model-checked: the liveness properties (`DeployingEnds`, `FailureIsSeen`,
`ExecutionEnds`, `CallEnds`, `RunEnds`), which need fairness and ENABLED, out of
reach of the prover.

Proved and in the properties of no run: `ImplementsQueue` (`PollsAreAtomic` with
the first states), `StaysStuck`, `PlanSeesOlderSuccesses`, `FinishedIsCreated`,
`SuccessIsWhole`, `NeverStuck`, `ThreadsGoForward` and
`IndexesOnlyIfUnanswered`. `AppTellsOutcome`, `BlockedByPut` and `NoneDropped` are
conjuncts of invariants that the runs check.

## 6. Not modelled

* The update plan. `getAppUpdatePlan`, the only entry to `computeUpdateMask` and
  the functions of the steps, is called by one route, which gives it the id of the
  app in the place of the architecture (`index.js:113`). It reads the state of an
  app named `undefined`, and then `architecture.services.filter` throws
  (`App.js:407`) before anything is computed; the functions for permissions and
  resources are commented out at `App.js:284`. No execution gets further, and
  nothing says what a plan of theirs would be executed by.
* Of the archives, lists without `crc32c`: with them no file that exists is the
  wanted one, and none is verified.
* Of the workflow, an app with elements: `WorkflowFunctions` starts from one that
  has none, as before its first deployment.
* The states QUEUED and UNAVAILABLE of an execution, which the repository does not
  know either.
* Pairing, the gateway's route table, the stubs of `Endpoints.js`, the error
  constructors and client handles, the old workflow kept as text: no state, or
  no caller.

## 7. Plan

Done: the deployment API with its gate, the queue and what it implements, the
workflow with its functions, the archives, the installer; every safety property
that a run checks is proved, and of the findings of `putApp`, the queue and the
installer, how far they reach.

Left, in this order:

1. `App` composed with `Workflow`: the executions of `App` replaced by those of
   `Workflow`, starting from an app that has elements, so that attempts of a
   deployment that has ended, in whatever way, run late over the elements of the
   next one: `updateState` writes whole documents and asks for nothing.
2. `UpdatePlan`, when the code gets to it: does every element that differs have a
   step, and is the order such that no resource depends on one that is not there?
3. Larger instances: two apps with three deployments each; three runs of `host.sh`.
