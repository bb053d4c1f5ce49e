----------------------------- MODULE MCWorkflow -----------------------------
(* A small instance of Workflow: three groups of steps. *)
EXTENDS WorkflowInv, TLC

CONSTANTS svc, acc, lay, res, oth

MCKind == svc :> "service" @@ acc :> "account" @@ lay :> "layer" 
              @@ res :> "resource" @@ oth :> "other"
MCServiceOf == [x \in Steps |-> svc]
MCPlan == <<{svc, acc}, {res, oth}, {lay}>>

=============================================================================
