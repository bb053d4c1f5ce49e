------------------------- MODULE WorkflowFunctions -------------------------
(***************************************************************************)
(* What a deployment workflow can have done to the outside world: the      *)
(* functions of functions/agent-backend/Workflow.js, called over HTTP, and *)
(* the API of the services an app is made of.                              *)
(*                                                                         *)
(* A request is one attempt of a call.  The workflow numbers its attempts; *)
(* the functions do not know which attempt they serve.                     *)
(***************************************************************************)
EXTENDS Naturals

CONSTANTS
    Steps,    \* steps of the plan: one element of the app each
    Kind,     \* the kind of each step
    MaxTries, \* attempts of a call: 1 + max_retries of http.default_retry
    Main,     \* the main thread of the workflow, as a caller
    None      \* no document

\* "layer" is one whose id matches _service_layer_nodejs$; "other" stands for
\* the layers that do not, and for the actions the workflow does not know.
Kinds == {"service", "layer", "account", "resource", "other"}

ASSUME StepsAssumption == Kind \in [Steps -> Kinds] /\ Main \notin Steps
ASSUME TriesAssumption == MaxTries \in Nat \ {0} /\ None \notin 0 .. MaxTries

VARIABLES
    started,  \* steps.<stepId>.started of the deployment document
    finished, \* steps.<stepId>.finished of the deployment document
    element,  \* apps/<appId>/<type>/<key>: the output, for an account the
              \* attempt of createAccount that made it
    account,  \* service accounts in the project, by the attempt that made them
    resource  \* executions in the services that create resources, likewise

store == <<started, finished, element, account, resource>>

Callers == Steps \cup {Main}
Outputs == 0 .. MaxTries
ResourceStates == {"ACTIVE", "SUCCEEDED", "FAILED"}
Attempts == Steps \X (1 .. MaxTries)

ASSUME NoneAssumption == None \notin ResourceStates

StoreTypeOK ==
    /\ started \subseteq Steps
    /\ finished \subseteq Steps
    /\ element \in [Steps -> Outputs \cup {None}]
    /\ account \subseteq Attempts
    /\ resource \in [Attempts -> ResourceStates \cup {None}]

StoreInit ==
    /\ started = {}
    /\ finished = {}
    /\ element = [s \in Steps |-> None]
    /\ account = {}
    /\ resource = [a \in Attempts |-> None]

-----------------------------------------------------------------------------

setStepStarted(s) ==
    /\ started' = started \cup {s}
    /\ UNCHANGED <<finished, element, account, resource>>

setStepFinished(s) ==
    /\ finished' = finished \cup {s}
    /\ UNCHANGED <<started, element, account, resource>>

\* Whatever was there is replaced.
updateState(s, output) ==
    /\ element' = [element EXCEPT ![s] = output]
    /\ UNCHANGED <<started, finished, account, resource>>

\* A new random account id at each call: each attempt makes an account.
createAccount(s, try) ==
    /\ account' = account \cup {<<s, try>>}
    /\ UNCHANGED <<started, finished, element, resource>>

\* POST <service>/resources: done at once, refused, or under way.
createResource(s, try) ==
    /\ \E state \in ResourceStates :
          resource' = [resource EXCEPT ![<<s, try>>] = state]
    /\ UNCHANGED <<started, finished, element, account>>

\* The functions that only read.  downloadArtifacts fills two buckets that
\* nothing here depends on.
Reads == {"downloadArtifacts", "getPlan", "getOutputs", "getServiceDeployYaml",
          "getExecution"}

Functions ==
    Reads \cup {"setStepStarted", "setStepFinished", "updateState",
                "createAccount", "createResource"}

\* POST /workflow/<fn>, and POST <service>/resources, for caller x.
callFunction(x, fn, try, output) ==
    \/ fn = "setStepStarted" /\ setStepStarted(x)
    \/ fn = "setStepFinished" /\ setStepFinished(x)
    \/ fn = "updateState" /\ updateState(x, output)
    \/ fn = "createAccount" /\ createAccount(x, try)
    \/ fn = "createResource" /\ createResource(x, try)
    \/ fn \in Reads /\ UNCHANGED store

\* The creation of a resource ends in its service.
EndResource(a) ==
    /\ resource[a] = "ACTIVE"
    /\ \E state \in {"SUCCEEDED", "FAILED"} :
          resource' = [resource EXCEPT ![a] = state]
    /\ UNCHANGED <<started, finished, element, account>>

\* getOutputs: the services whose url a later step can ask for.
DeployedServices == { s \in Steps : Kind[s] = "service" /\ element[s] # None }

=============================================================================
