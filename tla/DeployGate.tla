---------------------------- MODULE DeployGate ----------------------------
(***************************************************************************)
(* What putApp promises to its clients, without documents, transactions,   *)
(* handlers or clocks: the deployments of an app form a line; a deployment *)
(* joins the line only if it was computed at its end; it is started at     *)
(* most once, once in the line; and the one before it has been started and *)
(* has ended, unless it was abandoned.                                     *)
(***************************************************************************)
EXTENDS Naturals, Sequences

CONSTANTS Apps, Deployments

VARIABLES
    line,      \* deployments admitted, per app, in order
    base,      \* where in which line a deployment was computed: {<<a, n>>}
    started,   \* deployments executed, now or before
    running,   \* deployments being executed
    abandoned  \* deployments replaced without waiting for their end

gateVars == <<line, base, started, running, abandoned>>

GateInit ==
    /\ line = [a \in Apps |-> <<>>]
    /\ base = [d \in Deployments |-> {}]
    /\ started = {}
    /\ running = {}
    /\ abandoned = {}

Compute(d, a) ==
    /\ base[d] = {}
    /\ base' = [base EXCEPT ![d] = {<<a, Len(line[a])>>}]
    /\ UNCHANGED <<line, started, running, abandoned>>

\* d joins the line of a in which it was computed, at its end.
Join(d, a) ==
    /\ base[d] = {<<a, Len(line[a])>>}
    /\ line' = [line EXCEPT ![a] = Append(@, d)]
    /\ UNCHANGED <<base, started, running>>

Admit(d, a) ==
    /\ \/ line[a] = <<>>
       \/ line[a][Len(line[a])] \in started \ running
    /\ Join(d, a)
    /\ UNCHANGED abandoned

Replace(d, a) ==
    /\ line[a] # <<>>
    /\ Join(d, a)
    /\ abandoned' = abandoned \cup {line[a][Len(line[a])]}

Start(d) ==
    /\ \E a \in Apps : \E i \in 1 .. Len(line[a]) : line[a][i] = d
    /\ d \notin started
    /\ started' = started \cup {d}
    /\ running' = running \cup {d}
    /\ UNCHANGED <<line, base, abandoned>>

End(d) ==
    /\ d \in running
    /\ running' = running \ {d}
    /\ UNCHANGED <<line, base, started, abandoned>>

GateNext ==
    \E d \in Deployments :
        \/ \E a \in Apps : Compute(d, a) \/ Admit(d, a) \/ Replace(d, a)
        \/ Start(d)
        \/ End(d)

GateSpec == GateInit /\ [][GateNext]_gateVars

=============================================================================
