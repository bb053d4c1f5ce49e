------------------------------ MODULE Artifacts ------------------------------
(***************************************************************************)
(* downloadArtifacts and uploadFromUrl of functions/agent-backend/         *)
(* Workflow.js: the archives a deployment needs are copied into buckets    *)
(* that all apps share.  Attempts of the function run at the same time,    *)
(* for several apps or because the workflow attempts again a call whose    *)
(* answer is lost.  Each file is a job of its own, and the jobs go on when *)
(* one of them has rejected the call.                                      *)
(***************************************************************************)
CONSTANTS
    Calls,    \* calls of downloadArtifacts
    Files,    \* objects of the archive buckets
    Contents, \* what an archive may hold, and its crc32c
    Garbage,  \* what an url serves when it has expired
    None      \* no file, no value

ASSUME GarbageAssumption == Garbage \notin Contents /\ None \notin Contents \cup {Garbage}

VARIABLES
    stored,  \* the buckets
    wanted,  \* the artifacts file of each call, None where a file is not listed
    call,
    job,     \* where each call is with each file
    \* ghosts: no action's guard reads them
    garbled, \* files that an url served garbage for
    present  \* files that were as wanted when the call read its list

vars == <<stored, wanted, call, job, garbled, present>>

-----------------------------------------------------------------------------

CallStates == {"idle", "running", "resolved", "rejected", "dead"}
\* rejected: by the checksum; failed: by a request.
JobStates == {"none", "exists", "metadata", "new", "replace", "checkNew", "check",
              "done", "rejected", "failed"}
Active == {"exists", "metadata", "new", "replace", "checkNew", "check"}

WantedFiles(c) == { f \in Files : wanted[c][f] # None }

\* Calls and jobs stay in their states, the buckets hold whole files, and a call
\* that runs has one job for each file of its list.
TypeOK ==
    /\ stored \in [Files -> Contents \cup {Garbage, None}]
    /\ wanted \in [Calls -> [Files -> Contents \cup {None}]]
    /\ call \in [Calls -> CallStates]
    /\ job \in [Calls -> [Files -> JobStates]]
    /\ garbled \subseteq Files
    /\ present \in [Calls -> SUBSET Files]
    /\ \A c \in Calls :
          LET jobs == { f \in Files : job[c][f] # "none" }
          IN  /\ jobs \subseteq IF call[c] = "idle" THEN {} ELSE WantedFiles(c)
              /\ call[c] \in {"running", "resolved"} => jobs = WantedFiles(c)

Init ==
    /\ stored \in [Files -> Contents \cup {None}]
    /\ wanted \in [Calls -> [Files -> Contents \cup {None}]]
    /\ call = [c \in Calls |-> "idle"]
    /\ job = [c \in Calls |-> [f \in Files |-> "none"]]
    /\ garbled = {}
    /\ present = [c \in Calls |-> {}]

-----------------------------------------------------------------------------

\* A variant that forgets what the files of the list are.
StartsAll(c, files) ==
    /\ job' = [job EXCEPT ![c] = [f \in Files |-> "exists"]]
    /\ present' = [present EXCEPT ![c] = { f \in WantedFiles(c) : stored[f] = wanted[c][f] }]

Starts(c, files) ==
    /\ job' = [job EXCEPT ![c] = [f \in Files |-> IF f \in files THEN "exists" ELSE "none"]]
    /\ present' = [present EXCEPT ![c] = { f \in WantedFiles(c) : stored[f] = wanted[c][f] }]

Read(c) ==
    /\ call[c] = "idle"
    /\ call' = [call EXCEPT ![c] = "running"]
    /\ Starts(c, WantedFiles(c))
    /\ UNCHANGED <<stored, wanted, garbled>>

\* The file is no list, as putApp writes it when it is given none, or there is
\* an invalid type in it: what precedes it has been started.
ReadInvalid(c) ==
    /\ call[c] = "idle"
    /\ call' = [call EXCEPT ![c] = "rejected"]
    /\ \E files \in SUBSET WantedFiles(c) : Starts(c, files)
    /\ UNCHANGED <<stored, wanted, garbled>>

Goes(c, f, state) ==
    /\ job' = [job EXCEPT ![c][f] = state]
    /\ UNCHANGED <<wanted, call, present>>

Exists(c, f) ==
    /\ job[c][f] = "exists"
    /\ Goes(c, f, IF stored[f] = None THEN "new" ELSE "metadata")
    /\ UNCHANGED <<stored, garbled>>

\* Variants of the test below: that of uploadFromUrl, and none.
SameCrc32(c, f) == None = wanted[c][f]
SameName(c, f) == stored[f] # None
Same(c, f) == stored[f] = wanted[c][f]

\* A variant that does not wait for the upload before it verifies.
ComparedAtOnce(c, f) == IF Same(c, f) THEN "done" ELSE "check"
Compared(c, f) == IF Same(c, f) THEN "done" ELSE "replace"

Compare(c, f) ==
    /\ job[c][f] = "metadata"
    /\ Goes(c, f, Compared(c, f))
    /\ UNCHANGED <<stored, garbled>>

\* The body of the answer is stored, whatever its status.
Upload(c, f) ==
    /\ job[c][f] \in {"new", "replace"}
    /\ \E content \in {wanted[c][f], Garbage} :
          /\ stored' = [stored EXCEPT ![f] = content]
          /\ garbled' = IF content = Garbage THEN garbled \cup {f} ELSE garbled
    /\ Goes(c, f, IF job[c][f] = "new" THEN "checkNew" ELSE "check")

\* The checksum is that of the list, none for a new file; the metadata have a
\* crc32c and no crc32.
Crc32 == None
Matches(c, f) == Crc32 = IF job[c][f] = "check" THEN wanted[c][f] ELSE None

\* A variant in which nothing answers a mismatch.
VerdictIfMatches(c, f) == IF Matches(c, f) THEN "done" ELSE job[c][f]
Verdict(c, f) == IF Matches(c, f) THEN "done" ELSE "rejected"

Verify(c, f) ==
    /\ job[c][f] \in {"checkNew", "check"}
    /\ Goes(c, f, Verdict(c, f))
    /\ UNCHANGED <<stored, garbled>>

Fail(c, f) ==
    /\ job[c][f] \in {"exists", "metadata"}
    /\ Goes(c, f, "failed")
    /\ UNCHANGED <<stored, garbled>>

\* A stream, or the last getMetadata, fails: nobody handles it and the process
\* ends.  So does an instance that is stopped.
Crash(c) ==
    /\ \E f \in Files : job[c][f] \in Active
    /\ call' = [call EXCEPT ![c] = IF @ = "running" THEN "dead" ELSE @]
    /\ job' = [job EXCEPT ![c] = [f \in Files |->
                  IF job[c][f] \in Active THEN "none" ELSE job[c][f]]]
    /\ UNCHANGED <<stored, wanted, garbled, present>>

\* Promise.all: resolved by all, rejected by the first.
Resolve(c) ==
    /\ call[c] = "running"
    /\ \A f \in Files : job[c][f] \in {"none", "done"}
    /\ call' = [call EXCEPT ![c] = "resolved"]
    /\ UNCHANGED <<stored, wanted, job, garbled, present>>

Reject(c) ==
    /\ call[c] = "running"
    /\ \E f \in Files : job[c][f] \in {"rejected", "failed"}
    /\ call' = [call EXCEPT ![c] = "rejected"]
    /\ UNCHANGED <<stored, wanted, job, garbled, present>>

Job(c, f) == Exists(c, f) \/ Compare(c, f) \/ Upload(c, f) \/ Verify(c, f)

Next ==
    \E c \in Calls :
        \/ Read(c) \/ ReadInvalid(c) \/ Resolve(c) \/ Reject(c) \/ Crash(c)
        \/ \E f \in Files : Job(c, f) \/ Fail(c, f)

Spec == Init /\ [][Next]_vars

\* A process that lives goes on with what it was asked.
Fairness ==
    \A c \in Calls :
        /\ WF_vars(Resolve(c) \/ Reject(c))
        /\ \A f \in Files : WF_vars(Job(c, f))

FairSpec == Spec /\ Fairness

-----------------------------------------------------------------------------
(* Properties *)

\* Two calls want different contents under one name.
Contested(f) ==
    \E b, c \in Calls : None \notin {wanted[b][f], wanted[c][f]} /\ wanted[b][f] # wanted[c][f]

Undisturbed(f) == f \notin garbled /\ ~Contested(f)

\* What downloadArtifacts answers for: the files of its list are there, unless
\* an url served something else, which nothing detects in a new file, or another
\* call wants something else under the same name.
ResolvedIsStored ==
    \A c \in Calls : call[c] = "resolved" =>
        \A f \in WantedFiles(c) : Undisturbed(f) => stored[f] = wanted[c][f]

\* AgentDeployAppWorkflow.yaml: "only artifacts that are not already downloaded
\* are downloaded".  So a call made again after a checksum rejected the first
\* finds what that one has stored, and is not rejected.
PresentIsKept ==
    \A c \in Calls : \A f \in present[c] :
        Undisturbed(f) => job[c][f] \in {"none", "exists", "metadata", "done", "failed"}

\* Every file that a checksum rejects is as it was wanted.
RejectedIsStored ==
    \A c \in Calls, f \in Files :
        job[c][f] = "rejected" /\ Undisturbed(f) => stored[f] = wanted[c][f]

\* A call that is made is answered, or dies.
CallEnds == \A c \in Calls : call[c] = "running" ~> call[c] # "running"

\* uploadFromUrl: 'Crc32 does not match.'
RejectedOnlyIfDifferent ==
    \A c \in Calls, f \in Files :
        job[c][f] = "rejected" /\ ~Contested(f) => stored[f] # wanted[c][f]

=============================================================================
