---------------------------- MODULE MCInstaller ----------------------------
(* Small instances of Installer. *)
EXTENDS Installer, TLC

CONSTANTS h1, h2, a, b, c, s1

\* Two sources of one host, and one of another whose short id is the same.
MCHostOf == (a :> h1) @@ (b :> h1) @@ (c :> h2)
MCShortId == (h1 :> s1) @@ (h2 :> s1)

\* Runs, hosts and the sources of a host differ by nothing but their names: what
\* one run installs may be fixed.  A bucket is made in the same way whatever is
\* installed: other projects and the policy meddle when all install the same.
Same == \A r \in Runs : source[r] = a

MCInit ==
    /\ Init
    /\ source[CHOOSE r \in Runs : TRUE] = a
    /\ taken = [s \in ShortIds |-> IF Same THEN {0} ELSE {}]
    /\ ~refusing

\* They do so while somebody makes a bucket: nobody else would notice.
MCNext ==
    /\ Next
    /\ (refusing' /\ ~refusing) \/ taken' # taken =>
          Same /\ \E r \in Runs : At(r, "bucket")

MCSpec == MCInit /\ [][MCNext]_vars
MCFairSpec == MCSpec /\ Fairness

=============================================================================
