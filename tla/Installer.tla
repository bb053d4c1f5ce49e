------------------------------ MODULE Installer ------------------------------
(***************************************************************************)
(* host.sh: a sequence of steps that stops at the first error, wherever    *)
(* that is, and is run again, of the same source or of a newer one, maybe  *)
(* while another run goes on.  Most steps ask whether something exists and *)
(* create it if not; what a failed question means depends on the step.     *)
(***************************************************************************)
EXTENDS Naturals

CONSTANTS
    Runs,         \* executions of host.sh in one project
    Sources,      \* what is installed: the repository and the host it is set to
    Hosts,
    HostOf,       \* the host of each source
    ShortIds,
    ShortId,      \* the digest of a host id, cut to six digits
    MaxFailures,  \* bound on the questions that get no answer
    MaxIncrement, \* bound on the names of buckets: the last stands for the next
    None

ASSUME SourcesAssumption ==
    /\ HostOf \in [Sources -> Hosts] /\ ShortId \in [Hosts -> ShortIds]
ASSUME BoundsAssumption == MaxFailures \in Nat /\ MaxIncrement \in Nat

\* What a step creates if it is missing, all hosts sharing the first.
Ensured == {"hostsDb", "agentDb", "repository", "api", "config"}

After == [hostsDb |-> "getHost", getHost |-> "patchHost", patchHost |-> "agentDb",
          agentDb |-> "indexes", indexes |-> "repository", repository |-> "bucket",
          bucket |-> "backend", backend |-> "backendUrl", backendUrl |-> "workflow",
          workflow |-> "api", api |-> "config", config |-> "gateway",
          gateway |-> "pairing", pairing |-> "done"]
Steps == DOMAIN After
Ended == {"done", "stopped"}
Increments == 0 .. MaxIncrement

VARIABLES
    run,      \* the runs: their step, and what it has been told
    source,   \* what each run installs
    made,     \* what the steps of Ensured have created
    hostDoc,  \* the hosts collection
    indexes,  \* of the database of each agent
    ours,     \* the buckets of this project, by the increment in their name
    taken,    \* names that belong to other projects
    backend, workflow, gateway, pairing, \* what is deployed
    url,      \* each run knows the url of the backend; if not, it uses an empty one
    refusing, \* what create_bucket calls may be refused: billing, permissions
    failures,
    \* ghosts: no action's guard reads them
    unanswered, \* runs that were not told who has their short id
    first,      \* runs that were told that nobody has
    disturbed,  \* runs that went on while another had the same short id
    latest,     \* the run that started last with each short id
    released,   \* another project has given a name up
    refused     \* there was a time when calls might be refused

ghosts == <<unanswered, first, disturbed, latest, released, refused>>
deployed == <<backend, workflow, gateway, pairing, url>>
vars == <<run, source, made, hostDoc, indexes, ours, taken, deployed, refusing,
          failures, ghosts>>

HostIn(r) == HostOf[source[r]]
Short(r) == ShortId[HostIn(r)]

-----------------------------------------------------------------------------

\* What is made of the repository, and of the url of the backend.
Configs == [source : Sources, url : BOOLEAN]
Things == [step : Ensured, short : ShortIds \cup {None}, config : Configs \cup {None}]
Deployments == [source : Sources, bucket : Increments]
Workflows == [source : Sources, bucket : Increments, url : BOOLEAN]
\* told: nothing yet, that something is missing, or that a gateway has the
\* configuration of this run, or another.
Told == {"nothing", "missing", "half", "same", "other"}

\* Every step has been told what it may be told, and nothing is deployed without
\* a bucket.
TypeOK ==
    /\ run \in [Runs -> [pc : Steps \cup Ended \cup {"idle"}, told : Told,
                         bucket : Increments]]
    /\ source \in [Runs -> Sources]
    /\ made \subseteq Things
    /\ hostDoc \in [ShortIds -> Hosts \cup {None}]
    /\ indexes \in [ShortIds -> SUBSET {"ascending", "descending"}]
    /\ ours \in [ShortIds -> SUBSET Increments]
    /\ taken \in [ShortIds -> SUBSET Increments]
    /\ backend \in [ShortIds -> Deployments \cup {None}]
    /\ workflow \in [ShortIds -> Workflows \cup {None}]
    /\ gateway \in [ShortIds -> Configs \cup {None}]
    /\ pairing \in [ShortIds -> Sources \cup {None}]
    /\ url \in [Runs -> BOOLEAN]
    /\ refusing \in BOOLEAN
    /\ failures \in 0 .. MaxFailures
    /\ unanswered \subseteq Runs /\ first \subseteq Runs /\ disturbed \subseteq Runs
    /\ latest \in [ShortIds -> Runs \cup {None}]
    /\ released \in BOOLEAN /\ refused \in BOOLEAN

Init ==
    /\ run = [r \in Runs |-> [pc |-> "idle", told |-> "nothing", bucket |-> 0]]
    /\ source \in [Runs -> Sources]
    /\ made = {}
    /\ hostDoc = [s \in ShortIds |-> None]
    /\ indexes = [s \in ShortIds |-> {}]
    /\ ours = [s \in ShortIds |-> {}]
    /\ taken \in [ShortIds -> SUBSET (Increments \ {MaxIncrement})]
    /\ backend = [s \in ShortIds |-> None]
    /\ workflow = [s \in ShortIds |-> None]
    /\ gateway = [s \in ShortIds |-> None]
    /\ pairing = [s \in ShortIds |-> None]
    /\ url = [r \in Runs |-> FALSE]
    /\ refusing \in BOOLEAN /\ refused = refusing
    /\ failures = 0
    /\ unanswered = {} /\ first = {} /\ disturbed = {}
    /\ latest = [s \in ShortIds |-> None]
    /\ released = FALSE

-----------------------------------------------------------------------------
(* A run starts, goes on to its next step, and stops *)

Running(r) == run[r].pc \in Steps
At(r, step) == run[r].pc = step

GoesTo(r, pc) ==
    run' = [run EXCEPT ![r] = [pc |-> pc, told |-> "nothing", bucket |-> run[r].bucket]]
GoesOn(r) == GoesTo(r, After[run[r].pc])
IsTold(r, what) == run' = [run EXCEPT ![r].told = what]

Start(r) ==
    LET others == { q \in Runs : Running(q) /\ Short(q) = Short(r) }
    IN  /\ At(r, "idle")
        /\ GoesTo(r, "hostsDb")
        /\ disturbed' = disturbed \cup others \cup (IF others = {} THEN {} ELSE {r})
        /\ latest' = [latest EXCEPT ![Short(r)] = r]
        /\ UNCHANGED <<source, made, hostDoc, indexes, ours, taken, deployed, refusing,
                       failures, unanswered, first, released, refused>>

\* set -e: any command may fail, before or after it has done what it does.
Stop(r) ==
    /\ Running(r)
    /\ GoesTo(r, "stopped")
    /\ UNCHANGED <<source, made, hostDoc, indexes, ours, taken, deployed, refusing,
                   failures, ghosts>>

\* A question gets no answer.
Lost ==
    /\ failures < MaxFailures
    /\ failures' = failures + 1

Kept == UNCHANGED <<source, taken, refusing, unanswered, first, disturbed, latest,
                    released, refused>>

-----------------------------------------------------------------------------
(* describe, create *)

\* The API configuration is named by a digest of what is in it.
Config(r) == [source |-> source[r], url |-> url[r]]

Thing(r) ==
    [step |-> run[r].pc,
     short |-> IF At(r, "hostsDb") THEN None ELSE Short(r),
     config |-> IF At(r, "config") THEN Config(r) ELSE None]

Describe(r) ==
    /\ run[r].pc \in Ensured /\ run[r].told = "nothing"
    /\ \/ /\ Thing(r) \in made
          /\ GoesOn(r)
          /\ UNCHANGED failures
       \/ /\ IsTold(r, "missing")
          /\ IF Thing(r) \in made THEN Lost ELSE UNCHANGED failures
    /\ UNCHANGED <<made, hostDoc, indexes, ours, deployed>> /\ Kept

\* What exists by now, or existed, cannot be created.
Create(r) ==
    /\ run[r].pc \in Ensured /\ run[r].told = "missing"
    /\ IF Thing(r) \in made THEN GoesTo(r, "stopped") ELSE GoesOn(r)
    /\ made' = made \cup {Thing(r)}
    /\ UNCHANGED <<hostDoc, indexes, ours, deployed, failures>> /\ Kept

-----------------------------------------------------------------------------
(* The short id of the host *)

\* A variant that does not look at whose document it is.
FreeAnyhow(r) == TRUE
Free(r) == hostDoc[Short(r)] \in {None, HostIn(r)}

\* An answer that is neither 200, 201 nor 404 is taken for no answer: nothing is
\* compared, nothing is written, and the run goes on.
GetHost(r) ==
    /\ At(r, "getHost")
    /\ \/ /\ IF Free(r) THEN GoesOn(r) ELSE GoesTo(r, "stopped")
          /\ first' = IF hostDoc[Short(r)] = None THEN first \cup {r} ELSE first
          /\ UNCHANGED <<unanswered, failures>>
       \/ /\ Lost
          /\ GoesTo(r, "agentDb")
          /\ unanswered' = unanswered \cup {r}
          /\ UNCHANGED first
    /\ UNCHANGED <<source, made, hostDoc, indexes, ours, taken, deployed, refusing,
                   disturbed, latest, released, refused>>

\* A variant that writes the short id in place of the host.
PatchHostShort(r) ==
    /\ At(r, "patchHost")
    /\ hostDoc' = [hostDoc EXCEPT ![Short(r)] = Short(r)]
    /\ GoesOn(r)
    /\ UNCHANGED <<made, indexes, ours, deployed, failures>> /\ Kept

\* The PATCH has no precondition.
PatchHost(r) ==
    /\ At(r, "patchHost")
    /\ hostDoc' = [hostDoc EXCEPT ![Short(r)] = HostIn(r)]
    /\ GoesOn(r)
    /\ UNCHANGED <<made, indexes, ours, deployed, failures>> /\ Kept

-----------------------------------------------------------------------------
(* The indexes *)

\* To list succeeds when there is none.
ListIndexes(r) ==
    /\ At(r, "indexes") /\ run[r].told = "nothing"
    /\ \/ GoesOn(r) /\ UNCHANGED failures
       \/ Lost /\ IsTold(r, "missing")
    /\ UNCHANGED <<made, hostDoc, indexes, ours, deployed>> /\ Kept

CreateIndex(r) ==
    LET index == IF run[r].told = "half" THEN "descending" ELSE "ascending"
    IN  /\ At(r, "indexes") /\ run[r].told # "nothing"
        /\ IF index \in indexes[Short(r)] THEN GoesTo(r, "stopped")
           ELSE IF index = "ascending" THEN IsTold(r, "half")
           ELSE GoesOn(r)
        /\ indexes' = [indexes EXCEPT ![Short(r)] = @ \cup {index}]
        /\ UNCHANGED <<made, hostDoc, ours, deployed, failures>> /\ Kept

-----------------------------------------------------------------------------
(* create_bucket: one of its three calls stands for the others *)

Name(r) == run[r].bucket

\* No call of create_bucket stops the run, whatever its error: it has no answer
\* once, or is refused again and again (billing, a permission, a policy).
Failed == (refusing /\ UNCHANGED failures) \/ Lost

ListBucket(r) ==
    /\ At(r, "bucket") /\ run[r].told = "nothing"
    /\ \/ /\ Name(r) \in ours[Short(r)]
          /\ GoesOn(r)
          /\ UNCHANGED failures
       \/ /\ IsTold(r, "missing")
          /\ IF Name(r) \in ours[Short(r)] THEN Failed ELSE UNCHANGED failures
    /\ UNCHANGED <<made, hostDoc, indexes, ours, deployed>> /\ Kept

\* || true: an error of the creation is no error.
CreateBucket(r) ==
    /\ At(r, "bucket") /\ run[r].told = "missing"
    /\ IsTold(r, "half")
    /\ \/ /\ ours' = [ours EXCEPT ![Short(r)] = @ \cup ({Name(r)} \ taken[Short(r)])]
          /\ UNCHANGED failures
       \/ /\ Name(r) \notin ours[Short(r)] \cup taken[Short(r)]
          /\ Failed /\ UNCHANGED ours
    /\ UNCHANGED <<made, hostDoc, indexes, deployed>> /\ Kept

\* A variant that asks for the next name after it has created this one.
ListedNext(r) == Name(r) + 1 \in ours[Short(r)]
Listed(r) == Name(r) \in ours[Short(r)]

\* A variant that keeps to the first name.
SameAgain(r) == Name(r)
NextName(r) == IF Name(r) < MaxIncrement THEN Name(r) + 1 ELSE Name(r)

\* The loop has no other end than a bucket that is listed.
ListAgain(r) ==
    /\ At(r, "bucket") /\ run[r].told = "half"
    /\ \/ /\ Listed(r)
          /\ GoesOn(r)
          /\ UNCHANGED failures
       \/ /\ run' = [run EXCEPT ![r] = [pc |-> "bucket", told |-> "nothing",
                                        bucket |-> NextName(r)]]
          /\ IF Listed(r) THEN Failed ELSE UNCHANGED failures
    /\ UNCHANGED <<made, hostDoc, indexes, ours, deployed>> /\ Kept

\* Another project deletes its bucket: the name is free.
Release(s, i) ==
    /\ i \in taken[s]
    /\ taken' = [taken EXCEPT ![s] = @ \ {i}]
    /\ released' = TRUE
    /\ UNCHANGED <<run, source, made, hostDoc, indexes, ours, deployed, refusing,
                   failures, unanswered, first, disturbed, latest, refused>>

\* Somebody changes what the project allows.
ChangePolicy ==
    /\ refusing' = ~refusing
    /\ refused' = TRUE
    /\ UNCHANGED <<run, source, made, hostDoc, indexes, ours, taken, deployed, failures,
                   unanswered, first, disturbed, latest, released>>

-----------------------------------------------------------------------------
(* The deployments *)

Deployed(r) == [source |-> source[r], bucket |-> run[r].bucket]

DeployBackend(r) ==
    /\ At(r, "backend")
    /\ backend' = [backend EXCEPT ![Short(r)] = Deployed(r)]
    /\ GoesOn(r)
    /\ UNCHANGED <<made, hostDoc, indexes, ours, workflow, gateway, pairing, url, failures>>
    /\ Kept

\* The status of a pipe is that of its last command, sed: an url that is not
\* told is empty, and stops nothing.
DescribeBackend(r) ==
    /\ At(r, "backendUrl")
    /\ \/ url' = [url EXCEPT ![r] = TRUE] /\ UNCHANGED failures
       \/ Lost /\ UNCHANGED url
    /\ GoesOn(r)
    /\ UNCHANGED <<made, hostDoc, indexes, ours, backend, workflow, gateway, pairing>>
    /\ Kept

WorkflowOf(r) == [source |-> source[r], bucket |-> run[r].bucket, url |-> url[r]]

DeployWorkflow(r) ==
    /\ At(r, "workflow")
    /\ workflow' = [workflow EXCEPT ![Short(r)] = WorkflowOf(r)]
    /\ GoesOn(r)
    /\ UNCHANGED <<made, hostDoc, indexes, ours, backend, gateway, pairing, url, failures>>
    /\ Kept

DescribeGateway(r) ==
    /\ At(r, "gateway") /\ run[r].told = "nothing"
    /\ \/ /\ gateway[Short(r)] # None
          /\ IsTold(r, IF gateway[Short(r)] = Config(r) THEN "same" ELSE "other")
          /\ UNCHANGED failures
       \/ /\ IsTold(r, "missing")
          /\ IF gateway[Short(r)] # None THEN Lost ELSE UNCHANGED failures
    /\ UNCHANGED <<made, hostDoc, indexes, ours, deployed>> /\ Kept

\* A variant that uses the gateway it finds.
ConfiguredAsFound(r) == IF run[r].told = "missing" THEN Config(r) ELSE gateway[Short(r)]
\* Created, used or updated: the gateway has the configuration of this run.
Configured(r) == IF run[r].told = "same" THEN gateway[Short(r)] ELSE Config(r)

SetGateway(r) ==
    /\ At(r, "gateway") /\ run[r].told # "nothing"
    /\ IF run[r].told = "missing" /\ gateway[Short(r)] # None
       THEN GoesTo(r, "stopped") /\ UNCHANGED gateway
       ELSE GoesOn(r) /\ gateway' = [gateway EXCEPT ![Short(r)] = Configured(r)]
    /\ UNCHANGED <<made, hostDoc, indexes, ours, backend, workflow, pairing, url, failures>>
    /\ Kept

DeployPairing(r) ==
    /\ At(r, "pairing")
    /\ pairing' = [pairing EXCEPT ![Short(r)] = source[r]]
    /\ GoesOn(r)
    /\ UNCHANGED <<made, hostDoc, indexes, ours, backend, workflow, gateway, url, failures>>
    /\ Kept

-----------------------------------------------------------------------------

Step(r) ==
    \/ Describe(r) \/ Create(r) \/ GetHost(r) \/ PatchHost(r)
    \/ ListIndexes(r) \/ CreateIndex(r)
    \/ ListBucket(r) \/ CreateBucket(r) \/ ListAgain(r)
    \/ DeployBackend(r) \/ DescribeBackend(r) \/ DeployWorkflow(r)
    \/ DescribeGateway(r) \/ SetGateway(r) \/ DeployPairing(r)

Next ==
    \/ \E r \in Runs : Start(r) \/ Step(r) \/ Stop(r)
    \/ \E s \in ShortIds, i \in Increments : Release(s, i)
    \/ ChangePolicy

Spec == Init /\ [][Next]_vars

\* A run goes on until it ends; nobody promises to start another.
Fairness == \A r \in Runs : WF_vars(Step(r))

FairSpec == Spec /\ Fairness

-----------------------------------------------------------------------------
(* Properties *)

\* host.sh: "Check no collision in the short_id".  Two hosts with one short id
\* share a database, buckets and a gateway only if one was not told who has it,
\* or both were told that nobody has.
OneHostPerShortId ==
    \A q, r \in Runs :
        At(q, "done") /\ At(r, "done") /\ Short(q) = Short(r) /\ HostIn(q) # HostIn(r) =>
            \/ \E u \in unanswered : Short(u) = Short(r)
            \/ \E t, u \in first : HostIn(t) # HostIn(u) /\ Short(t) = Short(r) /\ Short(u) = Short(r)

\* Wherever earlier runs stopped and whatever they installed, a run that ends,
\* alone and the last, has installed its source everywhere, and the url of its
\* backend, unless that was not told: then it is empty wherever it is used.
InstallationWhole ==
    \A r \in Runs : LET s == Short(r) IN
        At(r, "done") /\ latest[s] = r /\ r \notin disturbed =>
            /\ backend[s] = Deployed(r) /\ workflow[s] = WorkflowOf(r)
            /\ run[r].bucket \in ours[s]
            /\ gateway[s] = Config(r) /\ pairing[s] = source[r]
            /\ { [step |-> t, short |-> s, config |-> None] : t \in {"agentDb", "repository", "api"} }
                  \subseteq made
            /\ [step |-> "config", short |-> s, config |-> Config(r)] \in made
            /\ url[r] \/ failures > 0
            /\ hostDoc[s] = HostIn(r) \/ r \in unanswered

\* "Create a bucket with the name (with increment) provided.  If already exists
\* return the existing one": all runs find the bucket of the first, even one that
\* creates it at the same time, as long as all questions are answered, no call is
\* refused and no other project gives a name up.
BucketKept ==
    failures = 0 /\ ~refused /\ ~released =>
        \A s \in ShortIds : \A i, j \in ours[s] : i = j

\* A run ends, even when other projects have the first names of its bucket, once
\* the project lets it create one and list it: as long as the calls are refused
\* create_bucket loops.
RunEnds == <>[]~refusing => \A r \in Runs : Running(r) ~> run[r].pc \in Ended

\* "Index already existing for collection 'deployment'".
IndexesExist ==
    \A r \in Runs : At(r, "done") => indexes[Short(r)] = {"ascending", "descending"}

\* Not one index is created as long as every question is answered: the list of
\* the indexes is an answer, whatever is in it.
IndexesOnlyIfUnanswered == failures = 0 => \A s \in ShortIds : indexes[s] = {}

=============================================================================
