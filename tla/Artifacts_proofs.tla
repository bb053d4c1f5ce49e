-------------------------- MODULE Artifacts_proofs --------------------------
(***************************************************************************)
(* Theorems about Artifacts.  A file that is as all its calls want it      *)
(* stays so, whichever jobs are still at work on it: that is what makes an *)
(* answer given by one job true when the last one ends.                    *)
(***************************************************************************)
EXTENDS Artifacts, TLAPS

AsWanted(c, f) == stored[f] = wanted[c][f]

\* What a job has read, stored or verified is still there.
JobsStand ==
    \A c \in Calls : \A f \in WantedFiles(c) : Undisturbed(f) =>
        /\ job[c][f] \in {"checkNew", "check", "done", "rejected"} => AsWanted(c, f)
        /\ f \in present[c] => /\ AsWanted(c, f)
                               /\ job[c][f] \in {"none", "exists", "metadata", "done", "failed"}

PresentWanted == \A c \in Calls : present[c] \subseteq WantedFiles(c)

ResolvedDone ==
    \A c \in Calls : call[c] = "resolved" => \A f \in Files : job[c][f] \in {"none", "done"}

Inv == TypeOK /\ PresentWanted /\ ResolvedDone /\ JobsStand

-----------------------------------------------------------------------------

\* What a step does: it starts a call, moves one job, ends a call, or kills one.
LEMMA StepCases ==
    ASSUME [Next]_vars
    PROVE  \/ UNCHANGED vars
           \/ \E c \in Calls : Read(c) \/ ReadInvalid(c) \/ Resolve(c) \/ Reject(c) \/ Crash(c)
           \/ \E c \in Calls, f \in Files :
                 Exists(c, f) \/ Compare(c, f) \/ Upload(c, f) \/ Verify(c, f) \/ Fail(c, f)
  BY DEF Next, Job

\* The lists are what they are.
LEMMA WantedStays == ASSUME [Next]_vars PROVE wanted' = wanted
  BY StepCases DEF vars, Read, ReadInvalid, Starts, Resolve, Reject, Crash, Exists, Compare, Upload,
     Verify, Fail, Goes

\* The types of the functions that a call or a job changes at one point.
LEMMA TypeStep == ASSUME Inv, [Next]_vars PROVE TypeOK'
<1> USE DEF Inv
<1>1. CASE UNCHANGED vars
  BY <1>1 DEF vars, TypeOK, WantedFiles
<1>2. ASSUME NEW c \in Calls, Read(c) \/ ReadInvalid(c) PROVE TypeOK'
  <2>1. PICK files \in SUBSET WantedFiles(c) :
           /\ Starts(c, files) /\ (Read(c) => files = WantedFiles(c))
    BY <1>2 DEF Read, ReadInvalid
  <2>2. [f \in Files |-> IF f \in files THEN "exists" ELSE "none"] \in [Files -> JobStates]
    BY DEF JobStates
  <2>3. WantedFiles(c) \subseteq Files /\ { f \in WantedFiles(c) : stored[f] = wanted[c][f] } \subseteq Files
    BY DEF WantedFiles
  <2>4. /\ call' \in [Calls -> CallStates] /\ job' \in [Calls -> [Files -> JobStates]]
        /\ present' \in [Calls -> SUBSET Files]
    BY <1>2, <2>1, <2>2, <2>3 DEF Read, ReadInvalid, Starts, TypeOK, CallStates
  <2>5. \A b \in Calls : LET jobs == { f \in Files : job'[b][f] # "none" }
                         IN  /\ jobs \subseteq IF call'[b] = "idle" THEN {} ELSE WantedFiles(b)
                             /\ call'[b] \in {"running", "resolved"} => jobs = WantedFiles(b)
    <3> SUFFICES ASSUME NEW b \in Calls
                 PROVE  LET jobs == { f \in Files : job'[b][f] # "none" }
                         IN  /\ jobs \subseteq IF call'[b] = "idle" THEN {} ELSE WantedFiles(b)
                             /\ call'[b] \in {"running", "resolved"} => jobs = WantedFiles(b)
      OBVIOUS
    <3>1. CASE b # c
      <4>1. job'[b] = job[b] /\ call'[b] = call[b]
        BY <1>2, <2>1, <3>1 DEF Read, ReadInvalid, Starts, TypeOK
      <4> QED BY <4>1 DEF TypeOK
    <3>2. CASE b = c
      <4>1. \A f \in Files : job'[c][f] = IF f \in files THEN "exists" ELSE "none"
        BY <2>1 DEF Starts, TypeOK
      <4>2. /\ call'[c] \in {"running", "rejected"}
            /\ call'[c] = "running" => files = WantedFiles(c)
        BY <1>2, <2>1 DEF Read, ReadInvalid, TypeOK
      <4>3. { f \in Files : job'[c][f] # "none" } = files
        BY <4>1, <2>3
      <4> QED BY <3>2, <4>2, <4>3
    <3> QED BY <3>1, <3>2
  <2> QED BY <1>2, <2>4, <2>5, WantedStays DEF Read, ReadInvalid, TypeOK, WantedFiles
<1>3. ASSUME NEW c \in Calls, Resolve(c) \/ Reject(c) PROVE TypeOK'
  <2>1. /\ call[c] = "running" /\ call' \in [Calls -> CallStates]
        /\ \A b \in Calls : call'[b] = IF b = c THEN call'[c] ELSE call[b]
        /\ call'[c] \in {"resolved", "rejected"}
    BY <1>3 DEF Resolve, Reject, TypeOK, CallStates
  <2> QED BY <1>3, <2>1 DEF Resolve, Reject, TypeOK, WantedFiles
<1>4. ASSUME NEW c \in Calls, Crash(c) PROVE TypeOK'
  <2>1. [f \in Files |-> IF job[c][f] \in Active THEN "none" ELSE job[c][f]] \in [Files -> JobStates]
    BY DEF TypeOK, JobStates
  <2>2. /\ call' \in [Calls -> CallStates] /\ job' \in [Calls -> [Files -> JobStates]]
        /\ \A f \in Files : job'[c][f] = IF job[c][f] \in Active THEN "none" ELSE job[c][f]
        /\ \A b \in Calls : b # c => job'[b] = job[b] /\ call'[b] = call[b]
    BY <1>4, <2>1 DEF Crash, TypeOK, CallStates
  <2>3. /\ call'[c] # "running" /\ (call'[c] = "resolved" => call[c] = "resolved")
        /\ call'[c] = "idle" <=> call[c] = "idle"
    BY <1>4 DEF Crash, TypeOK
  <2>4. call[c] # "resolved"
    BY <1>4 DEF Crash, ResolvedDone, Active
  <2> QED BY <1>4, <2>2, <2>3, <2>4 DEF Crash, TypeOK, WantedFiles
<1>5. ASSUME NEW c \in Calls, NEW f \in Files,
             Exists(c, f) \/ Compare(c, f) \/ Upload(c, f) \/ Verify(c, f) \/ Fail(c, f)
      PROVE  TypeOK'
  <2>1. PICK state \in JobStates \ {"none"} : Goes(c, f, state) /\ job[c][f] # "none"
    BY <1>5 DEF Exists, Compare, Compared, Upload, Verify, Verdict, Fail, JobStates
  <2>2. job' \in [Calls -> [Files -> JobStates]]
    BY <2>1 DEF Goes, TypeOK
  <2>3. \A b \in Calls : { g \in Files : job'[b][g] # "none" } = { g \in Files : job[b][g] # "none" }
    BY <2>1 DEF Goes, TypeOK
  <2>4. /\ stored' \in [Files -> Contents \cup {Garbage, None}] /\ garbled' \subseteq Files
    BY <1>5 DEF Exists, Compare, Upload, Verify, Fail, TypeOK
  <2> QED BY <2>1, <2>2, <2>3, <2>4 DEF Goes, TypeOK, WantedFiles
<1> QED BY <1>1, <1>2, <1>3, <1>4, <1>5, StepCases

\* A file that is as a call wants it stays so.
LEMMA StoredStays ==
    ASSUME Inv, [Next]_vars, NEW c \in Calls, NEW f \in WantedFiles(c), Undisturbed(f)'
    PROVE  Undisturbed(f) /\ (AsWanted(c, f) => AsWanted(c, f)')
<1>1. f \in Files /\ wanted[c][f] # None /\ wanted' = wanted
  BY WantedStays DEF WantedFiles
<1>2. CASE stored' = stored /\ garbled' = garbled
  BY <1>1, <1>2 DEF Undisturbed, Contested, AsWanted
<1>3. ASSUME NEW b \in Calls, NEW g \in Files, Upload(b, g)
      PROVE  Undisturbed(f) /\ (AsWanted(c, f) => AsWanted(c, f)')
  <2>1. Undisturbed(f)
    BY <1>1, <1>3 DEF Undisturbed, Contested, Upload
  <2>2. CASE g # f
    BY <1>1, <1>3, <2>1, <2>2 DEF Upload, AsWanted, Inv, TypeOK
  <2>3. CASE g = f
    <3>1. wanted[b][f] # None
      BY <1>3, <2>3 DEF Upload, Inv, TypeOK, WantedFiles
    <3>2. wanted[b][f] = wanted[c][f]
      BY <1>1, <2>1, <3>1 DEF Undisturbed, Contested
    <3>3. stored'[f] = wanted[b][f]
      BY <1>3, <2>3 DEF Upload, Undisturbed, Inv, TypeOK
    <3> QED BY <1>1, <2>1, <3>2, <3>3 DEF AsWanted
  <2> QED BY <2>2, <2>3
<1> QED BY <1>2, <1>3, StepCases DEF vars, Read, ReadInvalid, Resolve, Reject, Crash, Exists, Compare, Verify, Fail

\* What a job has read, stored or verified stands, whoever takes the next step.
LEMMA JobsStandStep == ASSUME Inv, [Next]_vars PROVE JobsStand'
<1> SUFFICES ASSUME NEW c \in Calls, NEW f \in WantedFiles(c), Undisturbed(f)'
             PROVE  /\ job'[c][f] \in {"checkNew", "check", "done", "rejected"} => AsWanted(c, f)'
                    /\ f \in present'[c] => /\ AsWanted(c, f)'
                                            /\ job'[c][f] \in {"none", "exists", "metadata", "done", "failed"}
  BY WantedStays DEF JobsStand, WantedFiles
<1> USE DEF Inv
<1>1. f \in Files /\ Undisturbed(f) /\ (AsWanted(c, f) => AsWanted(c, f)')
  BY StoredStays DEF WantedFiles
<1>2. ASSUME job'[c][f] = job[c][f] \/ job'[c][f] \in {"none", "failed"}, present'[c] = present[c]
      PROVE  /\ job'[c][f] \in {"checkNew", "check", "done", "rejected"} => AsWanted(c, f)'
             /\ f \in present'[c] => /\ AsWanted(c, f)'
                                     /\ job'[c][f] \in {"none", "exists", "metadata", "done", "failed"}
  BY <1>1, <1>2 DEF JobsStand
<1>3. ASSUME NEW b \in Calls, Read(b) \/ ReadInvalid(b), b = c
      PROVE  /\ job'[c][f] \in {"none", "exists"}
             /\ f \in present'[c] => AsWanted(c, f)
  BY <1>1, <1>3 DEF Read, ReadInvalid, Starts, TypeOK, AsWanted
<1>4. ASSUME NEW b \in Calls, Read(b) \/ ReadInvalid(b), b # c
      PROVE  job'[c][f] = job[c][f] /\ present'[c] = present[c]
  BY <1>4 DEF Read, ReadInvalid, Starts, TypeOK
<1>5. ASSUME NEW b \in Calls, Resolve(b) \/ Reject(b) \/ Crash(b)
      PROVE  job'[c][f] \in {job[c][f], "none"} /\ present'[c] = present[c]
  BY <1>1, <1>5 DEF Resolve, Reject, Crash, TypeOK
<1>6. ASSUME NEW b \in Calls, NEW g \in Files,
             Exists(b, g) \/ Compare(b, g) \/ Upload(b, g) \/ Verify(b, g) \/ Fail(b, g),
             b # c \/ g # f
      PROVE  job'[c][f] = job[c][f] /\ present'[c] = present[c]
  BY <1>1, <1>6 DEF Exists, Compare, Upload, Verify, Fail, Goes, TypeOK
<1>7. CASE Exists(c, f)
  <2>1. present'[c] = present[c] /\ job'[c][f] = IF stored[f] = None THEN "new" ELSE "metadata"
    BY <1>1, <1>7 DEF Exists, Goes, TypeOK
  <2>2. f \in present[c] => AsWanted(c, f) /\ stored[f] # None
    BY <1>1 DEF JobsStand, AsWanted, WantedFiles
  <2> QED BY <1>1, <2>1, <2>2
<1>8. CASE Compare(c, f)
  <2>1. present'[c] = present[c] /\ job'[c][f] = IF AsWanted(c, f) THEN "done" ELSE "replace"
    BY <1>1, <1>8 DEF Compare, Compared, Same, Goes, TypeOK, AsWanted
  <2> QED BY <1>1, <2>1 DEF JobsStand
<1>9. CASE Upload(c, f)
  <2>1. present'[c] = present[c] /\ job'[c][f] \in {"checkNew", "check"}
    BY <1>1, <1>9 DEF Upload, Goes, TypeOK
  <2>2. f \notin present[c]
    BY <1>1, <1>9 DEF Upload, JobsStand
  <2>3. AsWanted(c, f)'
    BY <1>1, <1>9, WantedStays DEF Upload, Undisturbed, AsWanted, TypeOK
  <2> QED BY <2>1, <2>2, <2>3
<1>10. CASE Verify(c, f)
  <2>1. present'[c] = present[c] /\ job'[c][f] \in {"done", "rejected"}
    BY <1>1, <1>10 DEF Verify, Verdict, Goes, TypeOK
  <2>2. AsWanted(c, f) /\ f \notin present[c]
    BY <1>1, <1>10 DEF Verify, JobsStand
  <2> QED BY <1>1, <2>1, <2>2
<1>11. CASE Fail(c, f)
  BY <1>1, <1>2, <1>11 DEF Fail, Goes, TypeOK
<1>12. CASE UNCHANGED vars
  BY <1>2, <1>12 DEF vars
<1> QED BY <1>1, <1>2, <1>3, <1>4, <1>5, <1>6, <1>7, <1>8, <1>9, <1>10, <1>11, <1>12, StepCases

\* The jobs of a resolved call are over.
LEMMA ResolvedDoneStep == ASSUME Inv, [Next]_vars PROVE ResolvedDone'
<1> USE DEF Inv
<1> SUFFICES ASSUME NEW c \in Calls, call'[c] = "resolved", NEW f \in Files
             PROVE  job'[c][f] \in {"none", "done"}
  BY DEF ResolvedDone
<1>1. CASE UNCHANGED vars
  BY <1>1 DEF vars, ResolvedDone
<1>2. ASSUME NEW b \in Calls, Read(b) \/ ReadInvalid(b) \/ Crash(b) \/ Resolve(b) \/ Reject(b)
      PROVE  job'[c][f] \in {"none", "done"}
  BY <1>2 DEF Read, ReadInvalid, Starts, Crash, Resolve, Reject, ResolvedDone, TypeOK
<1>3. ASSUME NEW b \in Calls, NEW g \in Files,
             Exists(b, g) \/ Compare(b, g) \/ Upload(b, g) \/ Verify(b, g) \/ Fail(b, g)
      PROVE  job'[c][f] \in {"none", "done"}
  BY <1>3 DEF Exists, Compare, Upload, Verify, Fail, Goes, ResolvedDone, TypeOK
<1> QED BY <1>1, <1>2, <1>3, StepCases

\* What a call found present is of its list.
LEMMA PresentStep == ASSUME Inv, [Next]_vars PROVE PresentWanted'
  BY StepCases, WantedStays DEF Inv, PresentWanted, WantedFiles, vars, Read, ReadInvalid, Starts, Resolve, Reject, Crash,
     Exists, Compare, Upload, Verify, Fail, Goes, TypeOK

\* The inductive invariant, for any calls, lists and contents.
THEOREM Invariance == Spec => []Inv
<1>1. Init => Inv
  BY DEF Init, Inv, TypeOK, PresentWanted, ResolvedDone, JobsStand, CallStates, JobStates, WantedFiles
<1>2. Inv /\ [Next]_vars => Inv'
  BY TypeStep, PresentStep, ResolvedDoneStep, JobsStandStep DEF Inv
<1> QED BY <1>1, <1>2, PTL DEF Spec

\* Calls and jobs stay in their states, and a call that runs has one job for each
\* file of its list.
THEOREM TypeCorrect == Spec => []TypeOK
<1>1. Inv => TypeOK
  BY DEF Inv
<1> QED BY <1>1, Invariance, PTL

\* What downloadArtifacts answers for is there.
THEOREM ResolvedStored == Spec => []ResolvedIsStored
<1>1. Inv => ResolvedIsStored
  BY DEF Inv, ResolvedIsStored, ResolvedDone, JobsStand, AsWanted, TypeOK, WantedFiles
<1> QED BY <1>1, Invariance, PTL

\* What is already downloaded is not downloaded again.
THEOREM PresentKept == Spec => []PresentIsKept
<1>1. Inv => PresentIsKept
  BY DEF Inv, PresentIsKept, PresentWanted, JobsStand
<1> QED BY <1>1, Invariance, PTL

\* What a checksum rejects is as it was wanted.
THEOREM RejectedStored == Spec => []RejectedIsStored
<1>1. Inv => RejectedIsStored
  <2> SUFFICES ASSUME Inv, NEW c \in Calls, NEW f \in Files, job[c][f] = "rejected", Undisturbed(f)
               PROVE  stored[f] = wanted[c][f]
    BY DEF RejectedIsStored
  <2>1. f \in WantedFiles(c)
    BY DEF Inv, TypeOK
  <2> QED BY <2>1 DEF Inv, JobsStand, AsWanted
<1> QED BY <1>1, Invariance, PTL

=============================================================================
