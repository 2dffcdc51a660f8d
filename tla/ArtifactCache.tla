---------------------------- MODULE ArtifactCache ----------------------------
(***************************************************************************)
(* What the artifact store promises its callers, with no files in sight: a *)
(* key is published once as a whole, may be lost, and a lookup that hits   *)
(* delivers exactly the artifacts of a key some put has published.         *)
(***************************************************************************)
CONSTANTS Keys, Files, Procs, None

VARIABLES
    served,     \* the keys a lookup can be served from now
    published,  \* the keys some put has completed for
    delivered   \* delivered[p]: the files p's lookup handed it, or None

cacheVars == <<served, published, delivered>>

\* The artifacts a compile of k produces, each marked with the key it is of.
ArtifactsOf(k) == [f \in Files |-> k]

Init ==
    /\ served = {}
    /\ published = {}
    /\ delivered = [p \in Procs |-> None]

Publish(k) ==
    /\ k \notin served
    /\ served' = served \cup {k}
    /\ published' = published \cup {k}
    /\ UNCHANGED delivered

Lose(k) ==
    /\ k \in served
    /\ served' = served \ {k}
    /\ UNCHANGED <<published, delivered>>

Deliver(p, k) ==
    /\ delivered[p] = None
    /\ k \in published
    /\ delivered' = [delivered EXCEPT ![p] = ArtifactsOf(k)]
    /\ UNCHANGED <<served, published>>

Release(p) ==
    /\ delivered[p] # None
    /\ delivered' = [delivered EXCEPT ![p] = None]
    /\ UNCHANGED <<served, published>>

Next ==
    \/ \E k \in Keys : Publish(k) \/ Lose(k)
    \/ \E p \in Procs : Release(p) \/ \E k \in Keys : Deliver(p, k)

Spec == Init /\ [][Next]_cacheVars
=============================================================================
