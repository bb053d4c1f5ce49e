---------------------------- MODULE MCArtifacts ----------------------------
(* Small instances of Artifacts. *)
EXTENDS Artifacts

\* Calls, files and contents differ by nothing but their names: one call wants
\* all the files, with one content; the others list the first file, with any
\* content, and may list the others, with that of the first call.
MCFirst == CHOOSE c \in Calls : TRUE
MCFile == CHOOSE f \in Files : TRUE
MCContent == CHOOSE v \in Contents : TRUE

MCInit ==
    /\ Init
    /\ wanted[MCFirst] = [f \in Files |-> MCContent]
    /\ \A c \in Calls : wanted[c][MCFile] # None
    /\ \A c \in Calls, f \in Files \ {MCFile} : wanted[c][f] \in {MCContent, None}

MCSpec == MCInit /\ [][Next]_vars
MCFairSpec == MCSpec /\ Fairness

=============================================================================
