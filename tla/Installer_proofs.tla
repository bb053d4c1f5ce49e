-------------------------- MODULE Installer_proofs --------------------------
(***************************************************************************)
(* Theorems about Installer.  A run that goes on alone finds at each step  *)
(* what its earlier steps have left; who has a short id is known from the  *)
(* runs that were told that nobody had it.                                 *)
(***************************************************************************)
EXTENDS Installer, TLAPS

\* The steps that follow one, and the end.
BeyondPairing == {"done"}
BeyondGateway == {"pairing"} \cup BeyondPairing
BeyondConfig == {"gateway"} \cup BeyondGateway
BeyondApi == {"config"} \cup BeyondConfig
BeyondWorkflow == {"api"} \cup BeyondApi
BeyondBackendUrl == {"workflow"} \cup BeyondWorkflow
BeyondBackend == {"backendUrl"} \cup BeyondBackendUrl
BeyondBucket == {"backend"} \cup BeyondBackend
BeyondRepository == {"bucket"} \cup BeyondBucket
BeyondIndexes == {"repository"} \cup BeyondRepository
BeyondAgentDb == {"indexes"} \cup BeyondIndexes
BeyondPatchHost == {"agentDb"} \cup BeyondAgentDb

Beyond(r, steps) == run[r].pc \in steps

\* r has compared its host with the one that has the short id.
Compared(r) ==
    At(r, "patchHost") \/ (Beyond(r, BeyondPatchHost) /\ r \notin unanswered)

\* A run that has compared its host was preceded by one for this host that was
\* told that nobody had the short id.
HostsFirst ==
    /\ \A r \in Runs : Compared(r) => \E t \in first : HostIn(t) = HostIn(r)
    /\ \A s \in ShortIds : hostDoc[s] # None =>
          \E t \in first : Short(t) = s /\ HostIn(t) = hostDoc[s]

\* r started last and nobody has run beside it.
Alone(r) == latest[Short(r)] = r /\ r \notin disturbed

Named(r, step, of) == [step |-> step, short |-> Short(r), config |-> of]

\* What a run that is alone has installed so far.
InstalledSoFar(r) ==
    LET s == Short(r)
    IN  /\ Beyond(r, BeyondPatchHost) => hostDoc[s] = HostIn(r) \/ r \in unanswered
        /\ Beyond(r, BeyondBackend) => backend[s] = Deployed(r)
        /\ Beyond(r, BeyondWorkflow) => workflow[s] = WorkflowOf(r)
        /\ At(r, "gateway") /\ run[r].told = "same" => gateway[s] = Config(r)
        /\ Beyond(r, BeyondGateway) => gateway[s] = Config(r)
        /\ Beyond(r, BeyondPairing) => pairing[s] = source[r]

\* What is made stays, whoever runs.
MadeSoFar(r) ==
    /\ Beyond(r, BeyondAgentDb) => Named(r, "agentDb", None) \in made
    /\ Beyond(r, BeyondRepository) => Named(r, "repository", None) \in made
    /\ Beyond(r, BeyondBucket) => run[r].bucket \in ours[Short(r)]
    /\ Beyond(r, BeyondApi) => Named(r, "api", None) \in made
    /\ Beyond(r, BeyondConfig) => Named(r, "config", Config(r)) \in made
    /\ Beyond(r, BeyondBackendUrl) => url[r] \/ failures > 0

\* It is then the only one that runs with its short id.
NobodyElse ==
    \A r \in Runs : Alone(r) =>
        \A q \in Runs : Running(q) /\ Short(q) = Short(r) => q = r

\* As long as everything is answered and nothing refused, a bucket of this
\* project has the first name that no other project has.
FirstName(s, i) == \A j \in 0 .. i - 1 : j \in taken[s]

BucketsFirst ==
    /\ refusing => refused
    /\ failures = 0 /\ ~refused /\ ~released =>
        /\ \A s \in ShortIds : \A i \in ours[s] : i \notin taken[s] /\ FirstName(s, i)
        /\ \A r \in Runs : FirstName(Short(r), run[r].bucket)
        /\ \A r \in Runs : At(r, "bucket") /\ run[r].told = "half" =>
              run[r].bucket \in ours[Short(r)] \cup taken[Short(r)]

\* The inductive invariant.
Inv ==
    /\ TypeOK
    /\ HostsFirst
    /\ NobodyElse
    /\ \A r \in Runs : MadeSoFar(r)
    /\ \A r \in Runs : Alone(r) => InstalledSoFar(r)
    /\ BucketsFirst

-----------------------------------------------------------------------------
(* What a step does *)

RunStates == [pc : Steps \cup Ended \cup {"idle"}, told : Told, bucket : Increments]

\* The steps of host.sh, one by one.
LEMMA StepsAre ==
    /\ Steps = {"hostsDb", "getHost", "patchHost", "agentDb", "indexes", "repository", "bucket",
                "backend", "backendUrl", "workflow", "api", "config", "gateway", "pairing"}
    /\ After["hostsDb"] = "getHost" /\ After["getHost"] = "patchHost"
    /\ After["patchHost"] = "agentDb" /\ After["agentDb"] = "indexes"
    /\ After["indexes"] = "repository" /\ After["repository"] = "bucket"
    /\ After["bucket"] = "backend" /\ After["backend"] = "backendUrl"
    /\ After["backendUrl"] = "workflow"
    /\ After["workflow"] = "api" /\ After["api"] = "config"
    /\ After["config"] = "gateway" /\ After["gateway"] = "pairing"
    /\ After["pairing"] = "done"
BY DEF Steps, After

\* After a step comes another, or the end.
LEMMA AfterType == \A pc \in Steps : After[pc] \in Steps \cup {"done"}
BY StepsAre

\* Run r has come to pc, has been told this, and uses that bucket.
Went(r, pc, told, bucket) ==
    /\ run' \in [Runs -> RunStates]
    /\ run'[r] = [pc |-> pc, told |-> told, bucket |-> bucket]
    /\ \A q \in Runs \ {r} : run'[q] = run[q]

\* A run is a place, what it has been told, and a bucket.
LEMMA RunsHave == ASSUME TypeOK, NEW r \in Runs PROVE run[r] \in RunStates
BY DEF TypeOK, RunStates

\* What GoesTo and IsTold do, as whole values.
LEMMA GoesToWent ==
    ASSUME TypeOK, NEW r \in Runs, NEW pc \in Steps \cup Ended, GoesTo(r, pc)
    PROVE  Went(r, pc, "nothing", run[r].bucket)
<1>1. [pc |-> pc, told |-> "nothing", bucket |-> run[r].bucket] \in RunStates
  BY RunsHave DEF RunStates, Told
<1> QED
  BY <1>1 DEF GoesTo, Went, TypeOK, RunStates

\* A run that is told something stays where it is.
LEMMA IsToldWent ==
    ASSUME TypeOK, NEW r \in Runs, NEW what \in Told, IsTold(r, what)
    PROVE  Went(r, run[r].pc, what, run[r].bucket)
<1>1. [run[r] EXCEPT !.told = what] = [pc |-> run[r].pc, told |-> what, bucket |-> run[r].bucket]
  BY RunsHave DEF RunStates
<1>2. [pc |-> run[r].pc, told |-> what, bucket |-> run[r].bucket] \in RunStates
  BY RunsHave DEF RunStates
<1> QED
  BY <1>1, <1>2 DEF IsTold, Went, TypeOK, RunStates

\* What a run leaves alone.
Frame(r) ==
    /\ UNCHANGED <<source, taken, refusing, disturbed, latest, released, refused>>
    /\ made \subseteq made' /\ unanswered \subseteq unanswered' /\ first \subseteq first'
    /\ \A q \in Runs : q # r \/ ~At(r, "backendUrl") => url'[q] = url[q]
    /\ \A s \in ShortIds :
          /\ ours[s] \subseteq ours'[s]
          /\ s # Short(r) \/ ~At(r, "patchHost") => hostDoc'[s] = hostDoc[s]
          /\ s # Short(r) \/ ~At(r, "backend") => backend'[s] = backend[s]
          /\ s # Short(r) \/ ~At(r, "workflow") => workflow'[s] = workflow[s]
          /\ s # Short(r) \/ ~At(r, "gateway") => gateway'[s] = gateway[s]
          /\ s # Short(r) \/ ~At(r, "pairing") => pairing'[s] = pairing[s]

\* What is there when a step has ended well.
Establishes(r) ==
    LET s == Short(r)
    IN  /\ run[r].pc \in Ensured => Thing(r) \in made'
        /\ At(r, "patchHost") => hostDoc'[s] = HostIn(r)
        /\ At(r, "bucket") => run[r].bucket \in ours'[s]
        /\ At(r, "backend") => backend'[s] = Deployed(r)
        /\ At(r, "backendUrl") => url'[r] \/ failures' > 0
        /\ At(r, "workflow") => workflow'[s] = WorkflowOf(r)
        /\ At(r, "gateway") => gateway'[s] = Configured(r)
        /\ At(r, "pairing") => pairing'[s] = source[r]

\* A step is asked for something more, stops the run, ends well, or leaves out
\* the comparison of the hosts.
Asks(r) ==
    \E told \in Told, bucket \in Increments :
        /\ Went(r, run[r].pc, told, bucket)
        /\ At(r, "bucket") \/ bucket = run[r].bucket
        /\ At(r, "gateway") /\ told = "same" => gateway[Short(r)] = Config(r)
        /\ UNCHANGED gateway
Stops(r) == Went(r, "stopped", "nothing", run[r].bucket)
EndsWell(r) == Went(r, After[run[r].pc], "nothing", run[r].bucket) /\ Establishes(r)
LeavesOut(r) ==
    /\ At(r, "getHost") /\ r \in unanswered'
    /\ Went(r, "agentDb", "nothing", run[r].bucket)

\* The source of a run has a host, and that a short id.
LEMMA ShortType == ASSUME TypeOK, NEW r \in Runs
                   PROVE  Short(r) \in ShortIds /\ HostIn(r) \in Hosts /\ source[r] \in Sources
BY SourcesAssumption DEF TypeOK, Short, HostIn

\* A run that goes on comes to the next step.
LEMMA GoesOnWent ==
    ASSUME TypeOK, NEW r \in Runs, run[r].pc \in Steps, GoesOn(r)
    PROVE  Went(r, After[run[r].pc], "nothing", run[r].bucket)
BY AfterType, GoesToWent DEF GoesOn, Ended

\* A run that stops keeps its bucket.
LEMMA StopsWent ==
    ASSUME TypeOK, NEW r \in Runs, GoesTo(r, "stopped")
    PROVE  Stops(r)
BY GoesToWent DEF Ended, Stops

\* Each step does one of the four, within its frame.
LEMMA StepDoes ==
    ASSUME TypeOK, NEW r \in Runs, Step(r)
    PROVE  /\ Frame(r) /\ Running(r)
           /\ Asks(r) \/ Stops(r) \/ EndsWell(r) \/ LeavesOut(r)
<1> USE ShortType, RunsHave, StepsAre DEF Running, At
<1>0. run[r].told \in Told /\ run[r].bucket \in Increments /\ "missing" \in Told /\ "half" \in Told
  BY DEF RunStates, Told
<1>1. CASE Describe(r)
  <2>1. Frame(r) /\ Running(r)
    BY <1>1 DEF Describe, Frame, Kept, deployed, Ensured
  <2>2. CASE Thing(r) \in made /\ GoesOn(r)
    BY <1>1, <2>1, <2>2, GoesOnWent DEF EndsWell, Establishes, Describe, Ensured, Kept, Frame
  <2>3. CASE IsTold(r, "missing")
    BY <1>0, <1>1, <2>1, <2>3, IsToldWent DEF Asks, Describe, deployed
  <2> QED
    BY <1>1, <2>1, <2>2, <2>3 DEF Describe
<1>2. CASE Create(r)
  <2>1. Frame(r) /\ Running(r)
    BY <1>2 DEF Create, Frame, Kept, deployed, Ensured
  <2>2. CASE GoesTo(r, "stopped")
    BY <2>1, <2>2, StopsWent
  <2>3. CASE GoesOn(r)
    BY <1>2, <2>1, <2>3, GoesOnWent DEF EndsWell, Establishes, Create, Ensured
  <2> QED
    BY <1>2, <2>1, <2>2, <2>3 DEF Create
<1>3. CASE GetHost(r)
  <2>1. Frame(r) /\ Running(r)
    BY <1>3 DEF GetHost, Frame, deployed
  <2>2. CASE GoesTo(r, "stopped")
    BY <2>1, <2>2, StopsWent
  <2>3. CASE GoesOn(r)
    BY <1>3, <2>1, <2>3, GoesOnWent DEF EndsWell, Establishes, GetHost, Ensured
  <2>4. CASE GoesTo(r, "agentDb") /\ r \in unanswered'
    BY <1>3, <2>1, <2>4, GoesToWent DEF LeavesOut, GetHost
  <2> QED
    BY <1>3, <2>1, <2>2, <2>3, <2>4 DEF GetHost
<1>4. CASE PatchHost(r)
  <2>1. Frame(r) /\ Running(r) /\ hostDoc'[Short(r)] = HostIn(r)
    BY <1>4 DEF PatchHost, Frame, Kept, deployed, TypeOK
  <2> QED
    BY <1>4, <2>1, GoesOnWent DEF EndsWell, Establishes, PatchHost, Ensured
<1>5. CASE ListIndexes(r)
  <2>1. Frame(r) /\ Running(r)
    BY <1>5 DEF ListIndexes, Frame, Kept, deployed
  <2>2. CASE GoesOn(r)
    BY <1>5, <2>1, <2>2, GoesOnWent DEF EndsWell, Establishes, ListIndexes, Ensured
  <2>3. CASE IsTold(r, "missing")
    BY <1>0, <1>5, <2>1, <2>3, IsToldWent DEF Asks, ListIndexes, deployed
  <2> QED
    BY <1>5, <2>1, <2>2, <2>3 DEF ListIndexes
<1>6. CASE CreateIndex(r)
  <2>1. Frame(r) /\ Running(r)
    BY <1>6 DEF CreateIndex, Frame, Kept, deployed
  <2>2. CASE GoesTo(r, "stopped")
    BY <2>1, <2>2, StopsWent
  <2>3. CASE GoesOn(r)
    BY <1>6, <2>1, <2>3, GoesOnWent DEF EndsWell, Establishes, CreateIndex, Ensured
  <2>4. CASE IsTold(r, "half")
    BY <1>0, <1>6, <2>1, <2>4, IsToldWent DEF Asks, CreateIndex, deployed
  <2> QED
    BY <1>6, <2>1, <2>2, <2>3, <2>4 DEF CreateIndex
<1>7. CASE ListBucket(r)
  <2>1. Frame(r) /\ Running(r)
    BY <1>7 DEF ListBucket, Frame, Kept, deployed
  <2>2. CASE GoesOn(r) /\ Name(r) \in ours[Short(r)]
    BY <1>7, <2>1, <2>2, GoesOnWent DEF EndsWell, Establishes, ListBucket, Ensured, Name, Frame
  <2>3. CASE IsTold(r, "missing")
    BY <1>0, <1>7, <2>1, <2>3, IsToldWent DEF Asks, ListBucket, deployed
  <2> QED
    BY <1>7, <2>1, <2>2, <2>3 DEF ListBucket
<1>8. CASE CreateBucket(r)
  <2>1. Frame(r) /\ Running(r)
    BY <1>8 DEF CreateBucket, Frame, Kept, deployed, TypeOK
  <2> QED
    BY <1>0, <1>8, <2>1, IsToldWent DEF Asks, CreateBucket, deployed
<1>9. CASE ListAgain(r)
  <2>1. Frame(r) /\ Running(r)
    BY <1>9 DEF ListAgain, Frame, Kept, deployed
  <2>2. CASE GoesOn(r) /\ Name(r) \in ours[Short(r)]
    BY <1>9, <2>1, <2>2, GoesOnWent DEF EndsWell, Establishes, ListAgain, Ensured, Name, Frame
  <2>3. CASE run' = [run EXCEPT ![r] =
                [pc |-> "bucket", told |-> "nothing", bucket |-> NextName(r)]]
    <3>1. NextName(r) \in Increments /\ "nothing" \in Told
      BY <1>0, BoundsAssumption DEF NextName, Name, Increments, Told
    <3>2. [pc |-> "bucket", told |-> "nothing", bucket |-> NextName(r)] \in RunStates
      BY <3>1 DEF RunStates
    <3>3. Went(r, "bucket", "nothing", NextName(r))
      BY <2>3, <3>2 DEF Went, TypeOK, RunStates
    <3> QED
      BY <1>9, <2>1, <3>1, <3>3 DEF Asks, ListAgain, deployed
  <2> QED
    BY <1>9, <2>1, <2>2, <2>3 DEF ListAgain, Listed
<1>10. CASE DeployBackend(r)
  <2>1. Frame(r) /\ Running(r) /\ backend'[Short(r)] = Deployed(r)
    BY <1>10 DEF DeployBackend, Frame, Kept, TypeOK
  <2> QED
    BY <1>10, <2>1, GoesOnWent DEF EndsWell, Establishes, DeployBackend, Ensured
<1>11. CASE DescribeBackend(r)
  <2>1. Frame(r) /\ Running(r)
    BY <1>11 DEF DescribeBackend, Frame, Kept, TypeOK
  <2>2. url'[r] \/ failures' > 0
    BY <1>11, BoundsAssumption DEF DescribeBackend, Lost, TypeOK
  <2> QED
    BY <1>11, <2>1, <2>2, GoesOnWent DEF EndsWell, Establishes, DescribeBackend, Ensured
<1>12. CASE DeployWorkflow(r)
  <2>1. Frame(r) /\ Running(r) /\ workflow'[Short(r)] = WorkflowOf(r)
    BY <1>12 DEF DeployWorkflow, Frame, Kept, TypeOK
  <2> QED
    BY <1>12, <2>1, GoesOnWent DEF EndsWell, Establishes, DeployWorkflow, Ensured
<1>13. CASE DescribeGateway(r)
  <2>1. Frame(r) /\ Running(r)
    BY <1>13 DEF DescribeGateway, Frame, Kept, deployed
  <2>2. CASE IsTold(r, "missing")
    BY <1>0, <1>13, <2>1, <2>2, IsToldWent DEF Asks, DescribeGateway, deployed
  <2>3. CASE IsTold(r, IF gateway[Short(r)] = Config(r) THEN "same" ELSE "other")
    <3>1. PICK told \in {"same", "other"} :
             IsTold(r, told) /\ (told = "same" => gateway[Short(r)] = Config(r))
      BY <2>3
    <3> QED
      BY <1>0, <1>13, <2>1, <3>1, IsToldWent DEF Asks, DescribeGateway, deployed, Told
  <2> QED
    BY <1>13, <2>1, <2>2, <2>3 DEF DescribeGateway
<1>14. CASE SetGateway(r)
  <2>1. Frame(r) /\ Running(r)
    BY <1>14 DEF SetGateway, Frame, Kept, TypeOK
  <2>2. CASE GoesTo(r, "stopped")
    BY <2>1, <2>2, StopsWent
  <2>3. CASE GoesOn(r) /\ gateway' = [gateway EXCEPT ![Short(r)] = Configured(r)]
    <3>1. gateway'[Short(r)] = Configured(r)
      BY <2>3 DEF TypeOK
    <3> QED
      BY <1>14, <2>1, <2>3, <3>1, GoesOnWent DEF EndsWell, Establishes, SetGateway, Ensured
  <2> QED
    BY <1>14, <2>1, <2>2, <2>3 DEF SetGateway
<1>15. CASE DeployPairing(r)
  <2>1. Frame(r) /\ Running(r) /\ pairing'[Short(r)] = source[r]
    BY <1>15 DEF DeployPairing, Frame, Kept, TypeOK
  <2> QED
    BY <1>15, <2>1, GoesOnWent DEF EndsWell, Establishes, DeployPairing, Ensured
<1> QED
  BY <1>1, <1>2, <1>3, <1>4, <1>5, <1>6, <1>7, <1>8, <1>9, <1>10, <1>11, <1>12,
     <1>13, <1>14, <1>15
     DEF Step

\* A run starts.
LEMMA StartDoes ==
    ASSUME TypeOK, NEW r \in Runs, Start(r)
    PROVE  /\ Went(r, "hostsDb", "nothing", run[r].bucket)
           /\ latest'[Short(r)] = r /\ \A s \in ShortIds \ {Short(r)} : latest'[s] = latest[s]
           /\ latest' \in [ShortIds -> Runs \cup {None}]
           /\ disturbed \subseteq disturbed' /\ disturbed' \subseteq Runs
           /\ \A q \in Runs : Running(q) /\ Short(q) = Short(r) => {q, r} \subseteq disturbed'
           /\ UNCHANGED <<source, made, hostDoc, indexes, ours, taken, deployed, refusing,
                          failures, unanswered, first, released, refused>>
<1>1. Went(r, "hostsDb", "nothing", run[r].bucket)
  BY GoesToWent, StepsAre DEF Start
<1> QED
  BY <1>1, ShortType DEF Start, TypeOK

\* A run is stopped.
LEMMA StopDoes ==
    ASSUME TypeOK, NEW r \in Runs, Stop(r)
    PROVE  /\ Stops(r)
           /\ UNCHANGED <<source, made, hostDoc, indexes, ours, taken, deployed, refusing,
                          failures, ghosts>>
BY StopsWent DEF Stop

\* Every step stores what it may store.
LEMMA TypeStep == ASSUME TypeOK, [Next]_vars PROVE TypeOK'
<1> USE DEF deployed, ghosts
<1>1. CASE UNCHANGED vars
  BY <1>1 DEF vars, TypeOK
<1>2. ASSUME NEW r \in Runs, Start(r) PROVE TypeOK'
  <2>1. run' \in [Runs -> RunStates]
    BY <1>2, StartDoes DEF Went
  <2> QED
    BY <1>2, <2>1, StartDoes DEF TypeOK, RunStates
<1>3. ASSUME NEW r \in Runs, Stop(r) PROVE TypeOK'
  <2>1. run' \in [Runs -> RunStates]
    BY <1>3, StopDoes DEF Stops, Went
  <2> QED
    BY <1>3, <2>1, StopDoes DEF TypeOK, RunStates
<1>4. ASSUME NEW s \in ShortIds, NEW i \in Increments, Release(s, i) PROVE TypeOK'
  BY <1>4 DEF Release, TypeOK
<1>5. ASSUME ChangePolicy PROVE TypeOK'
  <2>1. refusing' \in BOOLEAN /\ refused' \in BOOLEAN
    BY <1>5, Zenon DEF ChangePolicy
  <2> QED
    BY <1>5, <2>1 DEF ChangePolicy, TypeOK
<1>6. ASSUME NEW r \in Runs, Step(r) PROVE TypeOK'
  <2> USE <1>6, ShortType, RunsHave, StepsAre
  <2>1. run' \in [Runs -> RunStates]
    BY StepDoes DEF Asks, Stops, EndsWell, LeavesOut, Went
  <2>2. ASSUME Lost \/ UNCHANGED failures PROVE failures' \in 0 .. MaxFailures
    BY <2>2, BoundsAssumption DEF Lost, TypeOK
  <2>3. CASE Describe(r) \/ ListIndexes(r) \/ ListBucket(r) \/ ListAgain(r) \/ DescribeGateway(r)
    <3>1. Lost \/ UNCHANGED failures
      BY <2>3 DEF Describe, ListIndexes, ListBucket, ListAgain, DescribeGateway, Failed
    <3> QED
      BY <2>1, <2>2, <2>3, <3>1 DEF Describe, ListIndexes, ListBucket, ListAgain, DescribeGateway,
         Kept, TypeOK, RunStates
  <2>4. CASE Create(r)
    <3>1. Thing(r) \in Things
      BY <2>4 DEF Create, Thing, Things, Config, Configs, TypeOK
    <3> QED
      BY <2>1, <2>4, <3>1 DEF Create, Kept, TypeOK, RunStates
  <2>5. CASE GetHost(r)
    <3>1. Lost \/ UNCHANGED failures
      BY <2>5 DEF GetHost
    <3> QED
      BY <2>1, <2>2, <2>5, <3>1 DEF GetHost, TypeOK, RunStates
  <2>6. CASE PatchHost(r)
    BY <2>1, <2>6 DEF PatchHost, Kept, TypeOK, RunStates
  <2>7. CASE CreateIndex(r)
    BY <2>1, <2>7 DEF CreateIndex, Kept, TypeOK, RunStates
  <2>8. CASE CreateBucket(r)
    <3>1. Lost \/ UNCHANGED failures
      BY <2>8 DEF CreateBucket, Failed
    <3>2. run[r].bucket \in Increments
      BY DEF RunStates
    <3>3. ours' \in [ShortIds -> SUBSET Increments]
      BY <2>8, <3>2 DEF CreateBucket, Name, TypeOK
    <3> QED
      BY <2>1, <2>2, <2>8, <3>1, <3>3 DEF CreateBucket, Kept, TypeOK, RunStates
  <2>9. CASE DeployBackend(r)
    <3>1. Deployed(r) \in Deployments
      BY DEF Deployed, Deployments, RunStates
    <3> QED
      BY <2>1, <2>9, <3>1 DEF DeployBackend, Kept, TypeOK, RunStates
  <2>10. CASE DescribeBackend(r)
    <3>1. Lost \/ UNCHANGED failures
      BY <2>10 DEF DescribeBackend
    <3>2. url' \in [Runs -> BOOLEAN]
      BY <2>10 DEF DescribeBackend, TypeOK
    <3> QED
      BY <2>1, <2>2, <2>10, <3>1, <3>2 DEF DescribeBackend, Kept, TypeOK, RunStates
  <2>11. CASE DeployWorkflow(r)
    <3>1. WorkflowOf(r) \in Workflows
      BY DEF WorkflowOf, Workflows, RunStates, TypeOK
    <3> QED
      BY <2>1, <2>11, <3>1 DEF DeployWorkflow, Kept, TypeOK, RunStates
  <2>12. CASE SetGateway(r)
    <3>1. Configured(r) \in Configs \cup {None}
      BY DEF Configured, Config, Configs, TypeOK
    <3> QED
      BY <2>1, <2>12, <3>1 DEF SetGateway, Kept, TypeOK, RunStates
  <2>13. CASE DeployPairing(r)
    BY <2>1, <2>13 DEF DeployPairing, Kept, TypeOK, RunStates
  <2> QED
    BY <2>3, <2>4, <2>5, <2>6, <2>7, <2>8, <2>9, <2>10, <2>11, <2>12, <2>13 DEF Step
<1> QED
  BY <1>1, <1>2, <1>3, <1>4, <1>5, <1>6 DEF Next

-----------------------------------------------------------------------------
(* The invariant *)

\* Runs keep their sources and, once named, what they are told of others.
LEMMA SourceStays ==
    ASSUME TypeOK, [Next]_vars
    PROVE  source' = source /\ first \subseteq first' /\ unanswered \subseteq unanswered'
BY StartDoes, StopDoes, StepDoes DEF Next, Frame, Release, ChangePolicy, vars, ghosts

\* Failures are counted, not forgotten.
LEMMA FailuresGrow ==
    ASSUME TypeOK, [Next]_vars
    PROVE  failures \in Nat /\ failures' \in Nat /\ failures <= failures'
<1>1. failures' = failures \/ Lost
  BY StartDoes, StopDoes DEF Next, Step, Release, ChangePolicy, vars, Describe, Create, GetHost,
     PatchHost, ListIndexes, CreateIndex, ListBucket, CreateBucket, ListAgain, DeployBackend,
     DescribeBackend, DeployWorkflow, DescribeGateway, SetGateway, DeployPairing, Failed
<1> QED
  BY <1>1, BoundsAssumption DEF TypeOK, Lost

\* The fields of where a run went.
LEMMA WentTo ==
    ASSUME NEW r \in Runs, NEW pc, NEW told, NEW bucket, Went(r, pc, told, bucket)
    PROVE  run'[r].pc = pc /\ run'[r].told = told /\ run'[r].bucket = bucket
BY DEF Went

\* What a step does to a run, by the place it comes to.
LEMMA StepGoes ==
    ASSUME TypeOK, NEW r \in Runs, Step(r)
    PROVE  \/ Asks(r) /\ run'[r].pc = run[r].pc
           \/ Stops(r) /\ run'[r].pc = "stopped"
           \/ EndsWell(r) /\ run'[r].pc = After[run[r].pc] /\ run'[r].bucket = run[r].bucket
           \/ LeavesOut(r) /\ run'[r].pc = "agentDb"
BY StepDoes, WentTo DEF Asks, Stops, EndsWell, LeavesOut

\* The other runs stay where they are.
LEMMA OthersStay ==
    ASSUME TypeOK, NEW r \in Runs, Step(r) \/ Start(r) \/ Stop(r)
    PROVE  \A q \in Runs \ {r} : run'[q] = run[q]
BY StartDoes, StopDoes, StepDoes DEF Asks, Stops, EndsWell, LeavesOut, Went

\* A run that starts or is stopped is nowhere beyond a step.
LEMMA StartStopGoes ==
    ASSUME TypeOK, NEW r \in Runs, Start(r) \/ Stop(r)
    PROVE  run'[r].pc \in {"hostsDb", "stopped"} /\ run'[r].bucket = run[r].bucket
BY StartDoes, StopDoes, WentTo DEF Stops

\* The places before and after the comparison of the hosts.
LEMMA BeyondAre ==
    /\ \A pc \in {"stopped", "hostsDb", "getHost", "patchHost"} : pc \notin BeyondPatchHost
    /\ \A pc \in {"agentDb", "indexes", "repository", "bucket", "backend", "backendUrl",
                   "workflow", "api", "config", "gateway", "pairing", "done"} : pc \in BeyondPatchHost
BY DEF BeyondPatchHost, BeyondAgentDb, BeyondIndexes, BeyondRepository, BeyondBucket,
   BeyondBackend, BeyondBackendUrl, BeyondWorkflow, BeyondApi, BeyondConfig, BeyondGateway,
   BeyondPairing

\* What makes a host the one of its short id.
LEMMA HostsFirstStep == ASSUME TypeOK, HostsFirst, [Next]_vars PROVE HostsFirst'
<1>0. /\ \A r \in Runs : HostIn(r)' = HostIn(r) /\ Short(r)' = Short(r)
      /\ first \subseteq first' /\ unanswered \subseteq unanswered' /\ first' \subseteq Runs
  BY SourceStays, TypeStep DEF HostIn, Short, TypeOK
<1>1. CASE UNCHANGED <<run, hostDoc>>
  BY <1>0, <1>1 DEF HostsFirst, Beyond, Compared, At, TypeOK
<1>2. ASSUME NEW r \in Runs, Start(r) \/ Stop(r) PROVE HostsFirst'
  <2>1. UNCHANGED hostDoc
    BY <1>2, StartDoes, StopDoes
  <2>2. ~Compared(r)'
    BY <1>2, StartStopGoes, BeyondAre DEF Compared, At, Beyond
  <2>3. \A q \in Runs \ {r} : Compared(q)' => Compared(q)
    BY <1>0, <1>2, OthersStay DEF Compared, At, Beyond
  <2> QED
    BY <1>0, <2>1, <2>2, <2>3 DEF HostsFirst, TypeOK
<1>3. ASSUME NEW r \in Runs, Step(r) PROVE HostsFirst'
  <2>1. Frame(r) /\ Running(r)
    BY <1>3, StepDoes
  <2>2. ASSUME Compared(r)' PROVE Compared(r) \/ (At(r, "getHost") /\ At(r, "patchHost")')
    BY <1>0, <1>3, <2>1, <2>2, StepGoes, StepsAre, BeyondAre
       DEF Running, At, Beyond, Compared, LeavesOut
  <2>3. ASSUME At(r, "getHost"), At(r, "patchHost")'
        PROVE  \E t \in first' : HostIn(t)' = HostIn(r)'
    <3>1. GetHost(r)
      BY <1>3, <2>3 DEF Step, At, Describe, Create, PatchHost, ListIndexes, CreateIndex, ListBucket,
         CreateBucket, ListAgain, DeployBackend, DescribeBackend, DeployWorkflow, DescribeGateway,
         SetGateway, DeployPairing, Ensured
    <3>2. ~GoesTo(r, "stopped") /\ ~GoesTo(r, "agentDb")
      BY <2>3, StopsWent, GoesToWent, WentTo, StepsAre DEF Stops, At
    <3>3. Free(r)
      BY <3>1, <3>2 DEF GetHost
    <3>4. CASE hostDoc[Short(r)] = None
      BY <1>0, <3>1, <3>2, <3>4 DEF GetHost
    <3>5. CASE hostDoc[Short(r)] # None
      BY <1>0, <3>3, <3>5, ShortType DEF Free, HostsFirst, TypeOK
    <3> QED
      BY <3>4, <3>5
  <2>4. ASSUME NEW q \in Runs, Compared(q)'
        PROVE  \E t \in first' : HostIn(t)' = HostIn(q)'
    <3>1. CASE q = r
      BY <1>0, <2>2, <2>3, <2>4, <3>1 DEF HostsFirst, TypeOK
    <3>2. CASE q # r
      BY <1>0, <1>3, <2>4, <3>2, OthersStay DEF HostsFirst, Beyond, Compared, At, TypeOK
    <3> QED
      BY <3>1, <3>2
  <2>5. ASSUME NEW s \in ShortIds, hostDoc'[s] # None
        PROVE  \E t \in first' : Short(t)' = s /\ HostIn(t)' = hostDoc'[s]
    <3>1. CASE hostDoc'[s] = hostDoc[s]
      BY <1>0, <2>5, <3>1 DEF HostsFirst, TypeOK
    <3>2. CASE hostDoc'[s] # hostDoc[s]
      <4>1. s = Short(r) /\ At(r, "patchHost")
        BY <2>1, <3>2 DEF Frame
      <4>2. PatchHost(r)
        BY <1>3, <4>1 DEF Step, At, Describe, Create, GetHost, ListIndexes, CreateIndex, ListBucket,
           CreateBucket, ListAgain, DeployBackend, DescribeBackend, DeployWorkflow, DescribeGateway,
           SetGateway, DeployPairing, Ensured
      <4>3. hostDoc'[s] = HostIn(r)
        BY <4>1, <4>2 DEF PatchHost, TypeOK
      <4>4. PICK t \in first : HostIn(t) = HostIn(r)
        BY <4>1 DEF HostsFirst, Compared
      <4>5. t \in Runs /\ Short(t) = Short(r)
        BY <4>4 DEF Short, TypeOK
      <4> QED
        BY <1>0, <4>1, <4>3, <4>4, <4>5
    <3> QED
      BY <3>1, <3>2
  <2> QED
    BY <2>4, <2>5 DEF HostsFirst
<1> QED
  BY <1>1, <1>2, <1>3 DEF Next, Release, ChangePolicy, vars

\* All the names of the places beyond the steps, for each of them.
LEMMA PlacesAre ==
    ASSUME NEW pc \in Steps \cup Ended \cup {"idle"}
    PROVE  /\ pc \in BeyondPatchHost <=>
                 pc \in Steps \cup {"done"} /\ pc \notin {"hostsDb", "getHost", "patchHost"}
           /\ pc \in BeyondAgentDb <=> pc \in BeyondPatchHost /\ pc # "agentDb"
           /\ pc \in BeyondRepository <=>
                 pc \in BeyondAgentDb /\ pc \notin {"indexes", "repository"}
           /\ pc \in BeyondBucket <=> pc \in BeyondRepository /\ pc # "bucket"
           /\ pc \in BeyondBackend <=> pc \in BeyondBucket /\ pc # "backend"
           /\ pc \in BeyondBackendUrl <=> pc \in BeyondBackend /\ pc # "backendUrl"
           /\ pc \in BeyondWorkflow <=> pc \in BeyondBackendUrl /\ pc # "workflow"
           /\ pc \in BeyondApi <=> pc \in BeyondWorkflow /\ pc # "api"
           /\ pc \in BeyondConfig <=> pc \in BeyondApi /\ pc # "config"
           /\ pc \in BeyondGateway <=> pc \in BeyondConfig /\ pc # "gateway"
           /\ pc \in BeyondPairing <=> pc = "done"
BY StepsAre DEF Ended, BeyondPatchHost, BeyondAgentDb, BeyondIndexes, BeyondRepository,
   BeyondBucket, BeyondBackend, BeyondBackendUrl, BeyondWorkflow, BeyondApi, BeyondConfig,
   BeyondGateway, BeyondPairing

Places == {"idle", "stopped", "hostsDb", "getHost"}

\* A run that is at its start, or stopped, is beyond nothing.
LEMMA NowhereBeyond ==
    ASSUME NEW pc \in Places
    PROVE  /\ pc \notin BeyondPatchHost /\ pc \notin BeyondAgentDb /\ pc \notin BeyondRepository
           /\ pc \notin BeyondBucket /\ pc \notin BeyondBackend
           /\ pc \notin BeyondBackendUrl /\ pc \notin BeyondWorkflow
           /\ pc \notin BeyondApi /\ pc \notin BeyondConfig /\ pc \notin BeyondGateway
           /\ pc \notin BeyondPairing
BY PlacesAre, StepsAre DEF Places, Ended

\* Nobody with the same short id starts unseen.
LEMMA NobodyElseStep == ASSUME TypeOK, NobodyElse, [Next]_vars PROVE NobodyElse'
<1>0. \A r \in Runs : HostIn(r)' = HostIn(r) /\ Short(r)' = Short(r)
  BY SourceStays DEF HostIn, Short
<1>1. CASE UNCHANGED <<run, latest, disturbed>>
  BY <1>0, <1>1 DEF NobodyElse, Alone, Running
<1>2. ASSUME NEW r \in Runs, Start(r) PROVE NobodyElse'
  <2> SUFFICES ASSUME NEW p \in Runs, Alone(p)', NEW q \in Runs, Running(q)', Short(q) = Short(p)
               PROVE  q = p
    BY <1>0 DEF NobodyElse
  <2>1. CASE Short(p) = Short(r)
    <3>1. p = r /\ p \notin disturbed'
      BY <1>0, <1>2, <2>1, StartDoes DEF Alone
    <3>2. CASE q # r
      BY <1>2, <3>1, <3>2, <2>1, StartDoes, OthersStay DEF Running
    <3> QED
      BY <3>1, <3>2
  <2>2. CASE Short(p) # Short(r)
    <3>1. Alone(p) /\ q # r
      BY <1>0, <1>2, <2>2, StartDoes, ShortType DEF Alone
    <3> QED
      BY <1>2, <3>1, OthersStay DEF NobodyElse, Running
  <2> QED
    BY <2>1, <2>2
<1>3. ASSUME NEW r \in Runs, Step(r) \/ Stop(r) PROVE NobodyElse'
  <2>1. Running(r) /\ UNCHANGED <<latest, disturbed>>
    BY <1>3, StepDoes, StopDoes DEF Frame, ghosts, Stop
  <2> QED
    BY <1>0, <1>3, <2>1, OthersStay DEF NobodyElse, Alone, Running
<1> QED
  BY <1>1, <1>2, <1>3 DEF Next, Release, ChangePolicy, vars, ghosts

\* What is made stays.
LEMMA MadeStays ==
    ASSUME TypeOK, [Next]_vars
    PROVE  made \subseteq made' /\ \A s \in ShortIds : ours[s] \subseteq ours'[s]
BY StartDoes, StopDoes, StepDoes DEF Next, Frame, Release, ChangePolicy, vars

\* A step that ends well has made its part, and so had those before it.
LEMMA MadeStep ==
    ASSUME TypeOK, [Next]_vars, NEW r \in Runs, MadeSoFar(r)
    PROVE  MadeSoFar(r)'
<1> USE DEF Beyond
<1>0. /\ HostIn(r)' = HostIn(r) /\ Short(r)' = Short(r) /\ source'[r] = source[r]
      /\ \A step, src : Named(r, step, src)' = Named(r, step, src)
      /\ Short(r) \in ShortIds /\ TypeOK'
      /\ failures > 0 => failures' > 0
  BY SourceStays, ShortType, TypeStep, FailuresGrow DEF HostIn, Short, Named
<1>1. CASE run'[r] = run[r] /\ url'[r] = url[r]
  BY <1>0, <1>1, MadeStays DEF MadeSoFar, Config
<1>2. CASE Start(r) \/ Stop(r)
  BY <1>2, StartStopGoes, NowhereBeyond DEF MadeSoFar, Places
<1>3. CASE Step(r)
  <2>0. run[r].pc \in Steps /\ run'[r].pc \in Steps \cup Ended
    BY <1>3, StepDoes, StepGoes, AfterType, StepsAre DEF Running, Ended
  <2>1. CASE Asks(r) /\ run'[r].pc = run[r].pc
    <3>1. run[r].pc \in BeyondBucket => run'[r].bucket = run[r].bucket
      <4>1. At(r, "bucket") => run[r].pc \notin BeyondBucket
        BY <2>0, PlacesAre DEF At
      <4> QED
        BY <2>1, <4>1, WentTo DEF Asks
    <3>2. /\ run[r].pc \in BeyondConfig => run[r].pc \in BeyondBackendUrl
          /\ run[r].pc \in BeyondBackendUrl => url'[r] = url[r]
      BY <1>3, <2>0, PlacesAre, StepDoes DEF Frame, At
    <3> QED
      BY <1>0, <2>1, <3>1, <3>2, MadeStays DEF MadeSoFar, Config
  <2>2. CASE Stops(r) /\ run'[r].pc = "stopped"
    BY <2>2, NowhereBeyond DEF MadeSoFar, Places
  <2>3. CASE LeavesOut(r) /\ run'[r].pc = "agentDb"
    BY <2>0, <2>3, PlacesAre DEF MadeSoFar
  <2>4. CASE EndsWell(r) /\ run'[r].pc = After[run[r].pc] /\ run'[r].bucket = run[r].bucket
    <3>1. /\ run'[r].pc \in BeyondAgentDb => run[r].pc \in BeyondAgentDb \/ At(r, "agentDb")
          /\ run'[r].pc \in BeyondRepository =>
                run[r].pc \in BeyondRepository \/ At(r, "repository")
          /\ run'[r].pc \in BeyondBucket => run[r].pc \in BeyondBucket \/ At(r, "bucket")
          /\ run'[r].pc \in BeyondApi => run[r].pc \in BeyondApi \/ At(r, "api")
          /\ run'[r].pc \in BeyondConfig => run[r].pc \in BeyondConfig \/ At(r, "config")
          /\ run'[r].pc \in BeyondBackendUrl =>
                run[r].pc \in BeyondBackendUrl \/ At(r, "backendUrl")
          /\ run[r].pc \in BeyondConfig \/ At(r, "config") => run[r].pc \in BeyondBackendUrl
          /\ At(r, "backendUrl") => run[r].pc \notin BeyondBackendUrl
      BY <2>0, <2>4, PlacesAre, StepsAre DEF At, Ended
    <3>2. /\ At(r, "agentDb") => Named(r, "agentDb", None) \in made'
          /\ At(r, "repository") => Named(r, "repository", None) \in made'
          /\ At(r, "bucket") => run[r].bucket \in ours'[Short(r)]
          /\ At(r, "api") => Named(r, "api", None) \in made'
          /\ At(r, "config") => Named(r, "config", Config(r)) \in made'
          /\ At(r, "backendUrl") => url'[r] \/ failures' > 0
      BY <2>4 DEF EndsWell, Establishes, Thing, Named, At, Ensured
    <3>3. run[r].pc \in BeyondBackendUrl => url'[r] = url[r]
      BY <1>3, <3>1, StepDoes DEF Frame
    <3> QED
      BY <1>0, <2>4, <3>1, <3>2, <3>3, MadeStays DEF MadeSoFar, Config
  <2> QED
    BY <1>3, <2>1, <2>2, <2>3, <2>4, StepGoes
<1>4. (run'[r] = run[r] /\ url'[r] = url[r]) \/ Start(r) \/ Stop(r) \/ Step(r)
  <2>1. ASSUME NEW q \in Runs \ {r}, Start(q) \/ Stop(q) \/ Step(q)
        PROVE  run'[r] = run[r] /\ url'[r] = url[r]
    BY <2>1, OthersStay, StartDoes, StopDoes, StepDoes DEF Frame, deployed
  <2> QED
    BY <2>1 DEF Next, Release, ChangePolicy, vars, deployed
<1> QED
  BY <1>1, <1>2, <1>3, <1>4

\* Nobody but a run that is alone changes what it installs.
LEMMA InstalledStep ==
    ASSUME TypeOK, NobodyElse, [Next]_vars, NEW r \in Runs,
           Alone(r) => InstalledSoFar(r), Alone(r)'
    PROVE  InstalledSoFar(r)'
<1> USE DEF Beyond
<1>0. /\ HostIn(r)' = HostIn(r) /\ Short(r)' = Short(r) /\ source'[r] = source[r]
      /\ Short(r) \in ShortIds /\ TypeOK' /\ unanswered \subseteq unanswered'
      /\ source[r] \in Sources
  BY SourceStays, ShortType, TypeStep DEF HostIn, Short
<1>1. CASE run'[r] = run[r] /\ UNCHANGED <<hostDoc, deployed, latest, disturbed>>
  BY <1>0, <1>1 DEF InstalledSoFar, Alone, At, Deployed, WorkflowOf, Config, deployed
<1>2. CASE Start(r) \/ Stop(r)
  BY <1>2, StartStopGoes, NowhereBeyond DEF InstalledSoFar, Places, At
<1>3. ASSUME NEW q \in Runs \ {r}, Start(q) PROVE InstalledSoFar(r)'
  <2>1. Alone(r)
    BY <1>0, <1>3, StartDoes DEF Alone
  <2> QED
    BY <1>0, <1>3, <2>1, StartDoes, OthersStay
       DEF InstalledSoFar, At, Deployed, WorkflowOf, Config, deployed
<1>4. ASSUME NEW q \in Runs \ {r}, Step(q) \/ Stop(q) PROVE InstalledSoFar(r)'
  <2>1. Alone(r) /\ Running(q)
    BY <1>0, <1>4, StepDoes, StopDoes DEF Alone, Frame, ghosts, Stop
  <2>2. Short(q) # Short(r) /\ run'[r] = run[r]
    BY <1>4, <2>1, OthersStay DEF NobodyElse
  <2>3. LET s == Short(r) IN
           /\ hostDoc'[s] = hostDoc[s] /\ backend'[s] = backend[s] /\ workflow'[s] = workflow[s]
           /\ gateway'[s] = gateway[s] /\ pairing'[s] = pairing[s] /\ url'[r] = url[r]
    BY <1>0, <1>4, <2>2, StepDoes, StopDoes DEF Frame, deployed
  <2> QED
    BY <1>0, <2>1, <2>2, <2>3 DEF InstalledSoFar, At, Deployed, WorkflowOf, Config
<1>5. CASE Step(r)
  <2>0. run[r].pc \in Steps /\ run'[r].pc \in Steps \cup Ended /\ Frame(r) /\ Alone(r)
    BY <1>0, <1>5, StepDoes, StepGoes, AfterType, StepsAre DEF Running, Ended, Frame, Alone
  <2>1. CASE Asks(r) /\ run'[r].pc = run[r].pc
    <3>1. /\ run[r].pc \in BeyondBackend => run'[r].bucket = run[r].bucket
          /\ At(r, "gateway") /\ run'[r].told = "same" => gateway[Short(r)] = Config(r)
          /\ gateway' = gateway
      <4>1. At(r, "bucket") => run[r].pc \notin BeyondBackend
        BY <2>0, PlacesAre DEF At
      <4> QED
        BY <2>1, <4>1, WentTo DEF Asks
    <3>2. /\ At(r, "patchHost") => run[r].pc \notin BeyondPatchHost
          /\ At(r, "backend") => run[r].pc \notin BeyondBackend
          /\ At(r, "workflow") => run[r].pc \notin BeyondWorkflow
          /\ At(r, "pairing") => run[r].pc \notin BeyondPairing
          /\ At(r, "gateway") => run[r].pc \notin BeyondGateway
          /\ run[r].pc \in BeyondWorkflow => run[r].pc \in BeyondBackend
          /\ run[r].pc \in BeyondWorkflow \/ At(r, "gateway") => ~At(r, "backendUrl")
          /\ run[r].pc \in BeyondGateway => run[r].pc \in BeyondWorkflow
      BY <2>0, PlacesAre, StepsAre DEF At
    <3>3. run[r].pc \in BeyondWorkflow \/ At(r, "gateway") => url'[r] = url[r]
      BY <2>0, <3>2 DEF Frame
    <3>4. /\ Deployed(r)' = [source |-> source[r], bucket |-> run'[r].bucket]
          /\ WorkflowOf(r)' = [source |-> source[r], bucket |-> run'[r].bucket, url |-> url'[r]]
          /\ Config(r)' = [source |-> source[r], url |-> url'[r]]
      BY <1>0 DEF Deployed, WorkflowOf, Config
    <3> QED
      BY <1>0, <2>0, <2>1, <3>1, <3>2, <3>3, <3>4
         DEF InstalledSoFar, Frame, Deployed, WorkflowOf, Config, At
  <2>2. CASE Stops(r) /\ run'[r].pc = "stopped"
    BY <2>2, NowhereBeyond DEF InstalledSoFar, Places, At
  <2>3. CASE LeavesOut(r) /\ run'[r].pc = "agentDb"
    <3>1. r \in unanswered'
      BY <2>3 DEF LeavesOut
    <3> QED
      BY <2>0, <2>3, <3>1, PlacesAre DEF InstalledSoFar, At
  <2>4. CASE EndsWell(r) /\ run'[r].pc = After[run[r].pc] /\ run'[r].bucket = run[r].bucket
    <3>0. run'[r].told = "nothing"
      BY <2>4, WentTo DEF EndsWell
    <3>1. /\ run'[r].pc \in BeyondPatchHost => run[r].pc \in BeyondPatchHost \/ At(r, "patchHost")
          /\ run'[r].pc \in BeyondBackend => run[r].pc \in BeyondBackend \/ At(r, "backend")
          /\ run'[r].pc \in BeyondWorkflow => run[r].pc \in BeyondWorkflow \/ At(r, "workflow")
          /\ run'[r].pc \in BeyondGateway => run[r].pc \in BeyondGateway \/ At(r, "gateway")
          /\ run'[r].pc \in BeyondPairing => At(r, "pairing")
          /\ At(r, "patchHost") => run[r].pc \notin BeyondPatchHost
          /\ At(r, "backend") => run[r].pc \notin BeyondBackend
          /\ At(r, "workflow") => run[r].pc \notin BeyondWorkflow
          /\ At(r, "gateway") => run[r].pc \notin BeyondGateway
          /\ run'[r].pc \in BeyondWorkflow => ~At(r, "backendUrl")
          /\ run'[r].pc \in BeyondGateway => run'[r].pc \in BeyondWorkflow
      BY <2>0, <2>4, PlacesAre, StepsAre DEF At, Ended
    <3>2. /\ At(r, "patchHost") => hostDoc'[Short(r)] = HostIn(r)
          /\ At(r, "backend") => backend'[Short(r)] = Deployed(r)
          /\ At(r, "workflow") => workflow'[Short(r)] = WorkflowOf(r)
          /\ At(r, "gateway") => gateway'[Short(r)] = Configured(r)
          /\ At(r, "pairing") => pairing'[Short(r)] = source[r]
      BY <2>4 DEF EndsWell, Establishes
    <3>3. At(r, "gateway") => Configured(r) = Config(r)
      BY <1>0, <2>0 DEF Configured, InstalledSoFar
    <3>4. /\ Deployed(r)' = Deployed(r)
          /\ run'[r].pc \in BeyondWorkflow =>
                WorkflowOf(r)' = WorkflowOf(r) /\ Config(r)' = Config(r)
      BY <1>0, <2>0, <2>4, <3>1 DEF Deployed, WorkflowOf, Config, Frame
    <3> QED
      BY <1>0, <2>0, <2>4, <3>0, <3>1, <3>2, <3>3, <3>4 DEF InstalledSoFar, Frame
  <2> QED
    BY <1>5, <2>1, <2>2, <2>3, <2>4, StepGoes
<1> QED
  BY <1>1, <1>2, <1>3, <1>4, <1>5 DEF Next, Release, ChangePolicy, vars, deployed, ghosts

\* What a step does to the bucket a run uses, when all questions are answered and
\* no call refused.
LEMMA BucketGoes ==
    ASSUME TypeOK, BucketsFirst, NEW r \in Runs, Step(r), failures' = 0, ~refused, ~released
    PROVE  /\ failures = 0
           /\ FirstName(Short(r), run'[r].bucket)
           /\ run'[r].pc = "bucket" /\ run'[r].told = "half" =>
                 run'[r].bucket \in ours'[Short(r)] \cup taken[Short(r)]
           /\ \A s \in ShortIds : \A i \in ours'[s] \ ours[s] :
                 i \notin taken[s] /\ FirstName(s, i)
<1> USE ShortType, RunsHave, StepsAre
<1>0. failures \in Nat /\ run[r].bucket \in Nat
  BY BoundsAssumption DEF TypeOK, RunStates, Increments
<1>1. failures = 0 /\ ~Lost /\ ~Failed
  <2>1. failures = 0 /\ ~Lost
    BY <1>0, FailuresGrow DEF Next, Lost
  <2> QED
    BY <2>1 DEF Failed, BucketsFirst
<1>2. /\ \A s \in ShortIds : \A i \in ours[s] : i \notin taken[s] /\ FirstName(s, i)
      /\ FirstName(Short(r), run[r].bucket)
      /\ At(r, "bucket") /\ run[r].told = "half" =>
            run[r].bucket \in ours[Short(r)] \cup taken[Short(r)]
  BY <1>1 DEF BucketsFirst
<1>3. CASE ~At(r, "bucket")
  <2>1. ours' = ours
    BY <1>3 DEF Step, Describe, Create, GetHost, PatchHost, ListIndexes, CreateIndex, ListBucket,
       CreateBucket, ListAgain, DeployBackend, DescribeBackend, DeployWorkflow, DescribeGateway,
       SetGateway, DeployPairing, Kept
  <2>2. run'[r].bucket = run[r].bucket
    BY <1>3, StepDoes, WentTo DEF Asks, Stops, EndsWell, LeavesOut
  <2>3. run'[r].pc = "bucket" => run'[r].told = "nothing"
    BY <1>3, StepGoes, WentTo DEF At, Asks, Stops, EndsWell, LeavesOut
  <2> QED
    BY <1>1, <1>2, <2>1, <2>2, <2>3
<1>4. CASE ListBucket(r)
  <2>1. GoesOn(r) \/ IsTold(r, "missing")
    BY <1>4 DEF ListBucket
  <2>2. run'[r].bucket = run[r].bucket /\ run'[r].told \in {"nothing", "missing"}
    BY <1>4, <2>1, GoesOnWent, IsToldWent, WentTo DEF ListBucket, At, Told
  <2> QED
    BY <1>1, <1>2, <1>4, <2>2 DEF ListBucket
<1>5. CASE CreateBucket(r)
  <2>1. run'[r].bucket = run[r].bucket /\ run'[r].pc = "bucket"
    BY <1>5, IsToldWent, WentTo DEF CreateBucket, At, Told
  <2>2. ours' = [ours EXCEPT ![Short(r)] = @ \cup ({run[r].bucket} \ taken[Short(r)])]
    BY <1>1, <1>5 DEF CreateBucket, Name
  <2>3. ours'[Short(r)] = ours[Short(r)] \cup ({run[r].bucket} \ taken[Short(r)])
    BY <2>2 DEF TypeOK
  <2>4. \A s \in ShortIds \ {Short(r)} : ours'[s] = ours[s]
    BY <2>2 DEF TypeOK
  <2> QED
    BY <1>1, <1>2, <2>1, <2>3, <2>4
<1>6. CASE ListAgain(r)
  <2>1. ours' = ours
    BY <1>6 DEF ListAgain
  <2>2. CASE GoesOn(r)
    <3>1. run'[r].bucket = run[r].bucket /\ run'[r].told = "nothing"
      BY <1>6, <2>2, GoesOnWent, WentTo DEF ListAgain, At
    <3> QED
      BY <1>1, <1>2, <2>1, <3>1
  <2>3. CASE ~GoesOn(r)
    <3>1. ~Listed(r) /\ run' = [run EXCEPT ![r] =
             [pc |-> "bucket", told |-> "nothing", bucket |-> NextName(r)]]
      BY <1>1, <1>6, <2>3 DEF ListAgain
    <3>2. /\ run'[r].bucket \in {run[r].bucket, run[r].bucket + 1}
          /\ run'[r].told = "nothing"
      BY <3>1 DEF TypeOK, NextName, Name
    <3>3. run[r].bucket \in taken[Short(r)]
      BY <1>2, <1>6, <3>1 DEF ListAgain, Listed, Name
    <3>4. FirstName(Short(r), run[r].bucket + 1)
      BY <1>0, <1>2, <3>3 DEF FirstName
    <3> QED
      BY <1>1, <1>2, <2>1, <3>2, <3>4
  <2> QED
    BY <2>2, <2>3
<1>7. At(r, "bucket") => ListBucket(r) \/ CreateBucket(r) \/ ListAgain(r)
  BY DEF At, Step, Describe, Create, GetHost, PatchHost, ListIndexes, CreateIndex, DeployBackend,
     DescribeBackend, DeployWorkflow, DescribeGateway, SetGateway, DeployPairing, Ensured
<1> QED
  BY <1>3, <1>4, <1>5, <1>6, <1>7

\* The names of other projects are skipped, one by one.
LEMMA BucketsFirstStep == ASSUME TypeOK, BucketsFirst, [Next]_vars PROVE BucketsFirst'
<1>r. refusing' => refused'
  BY StartDoes, StopDoes, StepDoes
     DEF BucketsFirst, Next, Frame, Release, ChangePolicy, vars, ghosts
<1> SUFFICES ASSUME failures' = 0, ~refused', ~released' PROVE BucketsFirst'
  BY <1>r DEF BucketsFirst
<1>0. \A r \in Runs : Short(r)' = Short(r) /\ Short(r) \in ShortIds
  BY SourceStays, ShortType DEF HostIn, Short
<1>1. CASE UNCHANGED <<run, ours, taken, failures, released, refused>>
  BY <1>0, <1>1, <1>r DEF BucketsFirst, FirstName, At
<1>2. ASSUME NEW r \in Runs, Start(r) \/ Stop(r) PROVE BucketsFirst'
  <2>1. UNCHANGED <<ours, taken, failures, released, refused>>
    BY <1>2, StartDoes, StopDoes DEF ghosts
  <2>2. run'[r].pc # "bucket" /\ run'[r].bucket = run[r].bucket
    BY <1>2, StartStopGoes
  <2> QED
    BY <1>0, <1>2, <1>r, <2>1, <2>2, OthersStay DEF BucketsFirst, FirstName, At
<1>3. ASSUME NEW r \in Runs, Step(r) PROVE BucketsFirst'
  <2>1. UNCHANGED <<taken, released, refused>> /\ \A s \in ShortIds : ours[s] \subseteq ours'[s]
    BY <1>3, StepDoes DEF Frame
  <2>2. /\ failures = 0
        /\ FirstName(Short(r), run'[r].bucket)
        /\ run'[r].pc = "bucket" /\ run'[r].told = "half" =>
              run'[r].bucket \in ours'[Short(r)] \cup taken[Short(r)]
        /\ \A s \in ShortIds : \A i \in ours'[s] \ ours[s] :
              i \notin taken[s] /\ FirstName(s, i)
    BY <1>3, <2>1, BucketGoes
  <2>3. /\ \A s \in ShortIds : \A i \in ours[s] : i \notin taken[s] /\ FirstName(s, i)
        /\ \A q \in Runs \ {r} : FirstName(Short(q), run'[q].bucket)
        /\ \A q \in Runs \ {r} : run'[q].pc = "bucket" /\ run'[q].told = "half" =>
              run'[q].bucket \in ours[Short(q)] \cup taken[Short(q)]
    BY <1>3, <2>1, <2>2, OthersStay DEF BucketsFirst, At
  <2>4. \A s \in ShortIds : \A i : FirstName(s, i)' <=> FirstName(s, i)
    BY <2>1 DEF FirstName
  <2>5. \A s \in ShortIds : \A i \in ours'[s] : i \notin taken'[s] /\ FirstName(s, i)
    BY <2>1, <2>2, <2>3
  <2>6. \A q \in Runs : /\ FirstName(Short(q), run'[q].bucket)
                        /\ run'[q].pc = "bucket" /\ run'[q].told = "half" =>
                              run'[q].bucket \in ours'[Short(q)] \cup taken'[Short(q)]
    BY <1>0, <2>1, <2>2, <2>3
  <2>7. \A q \in Runs : FirstName(Short(q), run[q].bucket)' <=> FirstName(Short(q), run'[q].bucket)
    BY <1>0, <2>1 DEF FirstName
  <2>8. \A s \in ShortIds : \A i \in ours'[s] : i \notin taken'[s] /\ FirstName(s, i)'
    BY <2>4, <2>5
  <2> QED
    BY <1>0, <1>r, <2>6, <2>7, <2>8 DEF BucketsFirst, At
<1>4. ASSUME NEW s \in ShortIds, NEW i \in Increments, Release(s, i) PROVE BucketsFirst'
  BY <1>4 DEF Release
<1> QED
  BY <1>1, <1>2, <1>3, <1>4 DEF Next, ChangePolicy, vars, ghosts

-----------------------------------------------------------------------------
(* The indexes *)

\* No run comes to the creation of the indexes either.
NoIndexAsked ==
    failures = 0 =>
        /\ \A s \in ShortIds : indexes[s] = {}
        /\ \A r \in Runs : At(r, "indexes") => run[r].told = "nothing"

\* An index is created by a run that was not told which there are.
LEMMA NoIndexAskedStep == ASSUME TypeOK, NoIndexAsked, [Next]_vars PROVE NoIndexAsked'
<1> SUFFICES ASSUME failures' = 0 PROVE NoIndexAsked'
  BY DEF NoIndexAsked
<1>1. CASE UNCHANGED <<run, indexes, failures>>
  BY <1>1 DEF NoIndexAsked, At
<1>2. ASSUME NEW r \in Runs, Start(r) \/ Stop(r) PROVE NoIndexAsked'
  <2>1. UNCHANGED <<indexes, failures>> /\ run'[r].pc # "indexes"
    BY <1>2, StartDoes, StopDoes, StartStopGoes
  <2> QED
    BY <1>2, <2>1, OthersStay DEF NoIndexAsked, At
<1>3. ASSUME NEW r \in Runs, Step(r) PROVE NoIndexAsked'
  <2>1. failures = 0 /\ ~Lost
    BY <1>3, FailuresGrow DEF Lost
  <2>2. ~CreateIndex(r)
    BY <2>1 DEF NoIndexAsked, CreateIndex
  <2>3. indexes' = indexes
    BY <1>3, <2>2 DEF Step, Describe, Create, GetHost, PatchHost, ListIndexes, ListBucket,
       CreateBucket, ListAgain, DeployBackend, DescribeBackend, DeployWorkflow, DescribeGateway,
       SetGateway, DeployPairing, Kept
  <2>4. ASSUME ListIndexes(r) PROVE run'[r].told = "nothing"
    BY <2>1, <2>4, GoesOnWent, WentTo, StepsAre DEF ListIndexes, At
  <2>5. ASSUME ~ListIndexes(r), run'[r].pc = "indexes" PROVE run'[r].told = "nothing"
    <3>1. ~At(r, "indexes")
      BY <1>3, <2>2, <2>5 DEF At, Step, Describe, Create, GetHost, PatchHost, ListBucket,
         CreateBucket, ListAgain, DeployBackend, DescribeBackend, DeployWorkflow, DescribeGateway,
         SetGateway, DeployPairing, Ensured
    <3> QED
      BY <1>3, <2>5, <3>1, StepGoes, WentTo DEF At, Asks, Stops, EndsWell, LeavesOut
  <2>6. run'[r].pc = "indexes" => run'[r].told = "nothing"
    BY <2>4, <2>5
  <2> QED
    BY <1>3, <2>1, <2>3, <2>6, OthersStay DEF NoIndexAsked, At
<1>4. ASSUME NEW s \in ShortIds, NEW i \in Increments, Release(s, i) PROVE NoIndexAsked'
  BY <1>1, <1>4 DEF Release
<1> QED
  BY <1>1, <1>2, <1>3, <1>4 DEF Next, ChangePolicy, vars, ghosts

-----------------------------------------------------------------------------
(* The theorems *)

\* Nothing has been installed, and nobody runs.
LEMMA Initial == Init => Inv
<1> SUFFICES ASSUME Init PROVE Inv
  OBVIOUS
<1>1. TypeOK
  <2>1. [pc |-> "idle", told |-> "nothing", bucket |-> 0] \in RunStates
    BY BoundsAssumption DEF RunStates, Told, Increments
  <2>2. run \in [Runs -> RunStates]
    BY <2>1 DEF Init
  <2>3. /\ backend \in [ShortIds -> Deployments \cup {None}]
        /\ workflow \in [ShortIds -> Workflows \cup {None}]
    BY DEF Init
  <2>4. /\ gateway \in [ShortIds -> Configs \cup {None}]
        /\ pairing \in [ShortIds -> Sources \cup {None}]
        /\ url \in [Runs -> BOOLEAN]
    BY DEF Init
  <2>5. /\ hostDoc \in [ShortIds -> Hosts \cup {None}]
        /\ indexes \in [ShortIds -> SUBSET {"ascending", "descending"}]
        /\ ours \in [ShortIds -> SUBSET Increments]
        /\ latest \in [ShortIds -> Runs \cup {None}]
    BY DEF Init
  <2>6. failures \in 0 .. MaxFailures
    BY BoundsAssumption DEF Init
  <2>7. released \in BOOLEAN /\ refusing \in BOOLEAN /\ refused \in BOOLEAN
    BY Zenon DEF Init
  <2>8. /\ source \in [Runs -> Sources] /\ taken \in [ShortIds -> SUBSET Increments]
        /\ made \subseteq Things
        /\ unanswered \subseteq Runs /\ first \subseteq Runs /\ disturbed \subseteq Runs
    BY DEF Init
  <2> QED
    BY <2>2, <2>3, <2>4, <2>5, <2>6, <2>7, <2>8 DEF TypeOK, RunStates
<1>2. \A r \in Runs : run[r].pc = "idle" /\ run[r].told = "nothing" /\ run[r].bucket = 0
  BY DEF Init
<1>3. HostsFirst
  BY <1>2, NowhereBeyond DEF Init, HostsFirst, Compared, At, Beyond, Places
<1>4. NobodyElse
  BY <1>2, StepsAre DEF NobodyElse, Running
<1>5. \A r \in Runs : MadeSoFar(r) /\ InstalledSoFar(r)
  BY <1>2, NowhereBeyond DEF MadeSoFar, InstalledSoFar, Beyond, At, Places
<1>6. BucketsFirst
  BY <1>2, ShortType, <1>1 DEF Init, BucketsFirst, FirstName, At
<1> QED
  BY <1>1, <1>3, <1>4, <1>5, <1>6 DEF Inv

\* Every step preserves the invariant.
LEMMA Inductive == Inv /\ [Next]_vars => Inv'
<1> SUFFICES ASSUME Inv, [Next]_vars PROVE Inv'
  OBVIOUS
<1> USE DEF Inv
<1>1. TypeOK' /\ HostsFirst' /\ NobodyElse' /\ BucketsFirst'
  BY TypeStep, HostsFirstStep, NobodyElseStep, BucketsFirstStep
<1>2. \A r \in Runs : MadeSoFar(r)'
  BY MadeStep
<1>3. \A r \in Runs : Alone(r)' => InstalledSoFar(r)'
  BY InstalledStep
<1> QED
  BY <1>1, <1>2, <1>3

\* The invariant all the properties below follow from.
THEOREM Invariance == Spec => []Inv
BY Initial, Inductive, PTL DEF Spec

\* Every run of host.sh and every resource it makes keeps its shape.
THEOREM TypeCorrect == Spec => []TypeOK
<1>1. Inv => TypeOK
  BY DEF Inv
<1> QED
  BY <1>1, Invariance, PTL

\* host.sh compares the hosts before it writes: two hosts share a short id only
\* if one was not answered, or both asked before either had written.
THEOREM OneHost == Spec => []OneHostPerShortId
<1>1. Inv => OneHostPerShortId
  <2> SUFFICES ASSUME Inv, NEW q \in Runs, NEW r \in Runs, At(q, "done"), At(r, "done"),
                      Short(q) = Short(r), HostIn(q) # HostIn(r),
                      q \notin unanswered, r \notin unanswered
               PROVE  \E t, u \in first : /\ HostIn(t) # HostIn(u)
                                          /\ Short(t) = Short(r) /\ Short(u) = Short(r)
    BY DEF OneHostPerShortId
  <2>1. Compared(q) /\ Compared(r)
    BY BeyondAre DEF Compared, At, Beyond
  <2>2. PICK t \in first : HostIn(t) = HostIn(q)
    BY <2>1 DEF Inv, HostsFirst
  <2>3. PICK u \in first : HostIn(u) = HostIn(r)
    BY <2>1 DEF Inv, HostsFirst
  <2> QED
    BY <2>2, <2>3 DEF Short
<1> QED
  BY <1>1, Invariance, PTL

\* Wherever earlier runs of host.sh stopped, one that runs alone to its end
\* leaves everything as its source wants it, with the url of its backend unless
\* the pipe of line 240 lost it; then the workflow and the gateway have none.
THEOREM Whole == Spec => []InstallationWhole
<1>1. Inv => InstallationWhole
  <2> SUFFICES ASSUME Inv, NEW r \in Runs, At(r, "done"), Alone(r)
               PROVE  LET s == Short(r) IN
            /\ backend[s] = Deployed(r) /\ workflow[s] = WorkflowOf(r)
            /\ run[r].bucket \in ours[s]
            /\ gateway[s] = Config(r) /\ pairing[s] = source[r]
            /\ { [step |-> t, short |-> s, config |-> None] : t \in {"agentDb", "repository", "api"} }
                  \subseteq made
            /\ [step |-> "config", short |-> s, config |-> Config(r)] \in made
            /\ url[r] \/ failures > 0
            /\ hostDoc[s] = HostIn(r) \/ r \in unanswered
    BY DEF InstallationWhole, Alone
  <2>1. /\ "done" \in BeyondPatchHost /\ "done" \in BeyondAgentDb /\ "done" \in BeyondRepository
        /\ "done" \in BeyondBucket /\ "done" \in BeyondBackend
        /\ "done" \in BeyondBackendUrl /\ "done" \in BeyondWorkflow
        /\ "done" \in BeyondApi /\ "done" \in BeyondConfig /\ "done" \in BeyondGateway
        /\ "done" \in BeyondPairing
    BY PlacesAre, StepsAre DEF Ended
  <2>2. MadeSoFar(r) /\ InstalledSoFar(r)
    BY DEF Inv
  <2> QED
    BY <2>1, <2>2 DEF MadeSoFar, InstalledSoFar, Named, Beyond, At
<1> QED
  BY <1>1, Invariance, PTL

\* create_bucket of host.sh finds one bucket for all runs, the first name that
\* no other project has, as long as its calls are answered and none is refused.
THEOREM OneBucket == Spec => []BucketKept
<1>1. Inv => BucketKept
  <2> SUFFICES ASSUME Inv, failures = 0, ~refused, ~released, NEW s \in ShortIds,
                      NEW i \in ours[s], NEW j \in ours[s], i < j
               PROVE  FALSE
    BY DEF BucketKept, Inv, TypeOK, Increments
  <2>1. i \in 0 .. j - 1
    BY BoundsAssumption DEF Inv, TypeOK, Increments
  <2> QED
    BY <2>1 DEF Inv, BucketsFirst, FirstName
<1> QED
  BY <1>1, Invariance, PTL

\* "gcloud firestore indexes composite list" succeeds when there is no index, so
\* host.sh creates the indexes only if that question gets no answer.
THEOREM NoIndex == Spec => []IndexesOnlyIfUnanswered
<1>1. Init => NoIndexAsked
  BY DEF Init, NoIndexAsked
<1>2. TypeOK /\ NoIndexAsked /\ [Next]_vars => NoIndexAsked'
  BY NoIndexAskedStep
<1>3. NoIndexAsked => IndexesOnlyIfUnanswered
  BY DEF NoIndexAsked, IndexesOnlyIfUnanswered
<1> QED
  BY <1>1, <1>2, <1>3, TypeCorrect, PTL DEF Spec

=============================================================================
