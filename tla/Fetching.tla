------------------------------ MODULE Fetching ------------------------------
(***************************************************************************)
(* The two fetchers of the build host.  ArchiveFetch (engine/src/          *)
(* archfetch.rs) answers a batch of archive requests: the https half is    *)
(* shared out to at most TLS_AT_ONCE workers over one locked queue while   *)
(* the library's client serves the rest on a thread of its own, and the    *)
(* answers are scattered back to the positions the jobs came from.         *)
(* fetch_bounded (engine/src/netfetch.rs) follows redirects by hand, hop   *)
(* by hop under its scheme policy, for extra debs and imported patches.    *)
(*                                                                         *)
(* A URL is its scheme and its path, a sequence of segments.               *)
(***************************************************************************)
EXTENDS Naturals, Sequences, FiniteSets, SequencesExt

CONSTANTS
    MaxJobs,    \* bound: jobs in the batch
    TlsAtOnce,  \* TLS_AT_ONCE
    Segments    \* path segments a redirect may name

ASSUME FetchingAssumption == MaxJobs \in Nat /\ TlsAtOnce \in Nat \ {0}

\* MAX_REDIRECTS.
MaxRedirects == 5

Workers == 1..TlsAtOnce

VARIABLES
    batch,    \* batch[j]: does job j name https?
    bpc,      \* "start", "fetching" or "answered"
    queued,   \* the https jobs not handed out, in order
    held,     \* held[w]: the job worker w fetches, 0 for none
    slot,     \* slot[i]: the job the i-th https outcome is of, 0 for none
    plain,    \* the library's answers, in the order of its half
    outcome,  \* outcome[j]: the job the answer at position j is of
    url,      \* the hop the bounded fetch asks next
    hops,     \* the hops it has fetched
    secure,   \* history: one of them, or the one it asks, was https
    npc       \* "asking", "body" or "refused"

batchVars == <<batch, bpc, queued, held, slot, plain, outcome>>
hopVars == <<url, hops, secure, npc>>
fetchVars == <<batchVars, hopVars>>

FetchingTypeOK ==
    /\ \E n \in 0..MaxJobs : batch \in [1..n -> BOOLEAN]
    /\ bpc \in {"start", "fetching", "answered"}
    /\ held \in [Workers -> 0..MaxJobs]
    /\ \A i \in DOMAIN slot : slot[i] \in 0..MaxJobs
    /\ npc \in {"asking", "body", "refused"}

NoHop == [scheme |-> "https", path |-> <<>>]

BatchInit ==
    /\ \E n \in 0..MaxJobs : batch \in [1..n -> BOOLEAN]
    /\ bpc = "start"
    /\ queued = <<>> /\ held = [w \in Workers |-> 0] /\ slot = <<>>
    /\ plain = <<>> /\ outcome = <<>>
    /\ url = NoHop /\ hops = 0 /\ secure = FALSE /\ npc = "refused"

Jobs == [j \in 1..Len(batch) |-> j]

\* The positions of the jobs one client serves, in order.
Half(https) ==
    LET upto[n \in 0..Len(batch)] ==
            IF n = 0 THEN <<>>
            ELSE IF batch[n] = https THEN Append(upto[n - 1], n) ELSE upto[n - 1]
    IN upto[Len(batch)]
TlsAt == Half(TRUE)
PlainAt == Half(FALSE)

\* fetch_all partitions the batch by names_tls; an empty half is answered at once.
Partition ==
    /\ bpc = "start" /\ bpc' = "fetching"
    /\ queued' = TlsAt /\ slot' = [i \in 1..Len(TlsAt) |-> 0]
    /\ UNCHANGED <<batch, held, plain, outcome, hopVars>>

\* fetch_all_tls: as many workers as jobs, TLS_AT_ONCE at most.
Spawned(w) == w <= Len(slot)

\* Mutant: the queue is peeked under the lock and advanced after the fetch.
TakeJobPeeks(w) ==
    /\ bpc = "fetching" /\ Spawned(w) /\ held[w] = 0 /\ queued # <<>>
    /\ held' = [held EXCEPT ![w] = Head(queued)]
    /\ UNCHANGED <<batch, bpc, queued, slot, plain, outcome, hopVars>>

\* A worker takes the next job under the lock, with the slot it is to answer in.
TakeJob(w) ==
    /\ bpc = "fetching" /\ Spawned(w) /\ held[w] = 0 /\ queued # <<>>
    /\ held' = [held EXCEPT ![w] = Head(queued)] /\ queued' = Tail(queued)
    /\ UNCHANGED <<batch, bpc, slot, plain, outcome, hopVars>>

\* Its answer, an error like a body, goes into that slot.
FinishJob(w) ==
    /\ held[w] # 0
    /\ LET i == CHOOSE i \in 1..Len(TlsAt) : TlsAt[i] = held[w]
       IN slot' = [slot EXCEPT ![i] = held[w]]
    /\ held' = [held EXCEPT ![w] = 0]
    /\ UNCHANGED <<batch, bpc, queued, plain, outcome, hopVars>>

\* The library's fetch_all on the plain half, one answer after another.
PlainAnswers ==
    /\ bpc = "fetching" /\ Len(plain) < Len(PlainAt)
    /\ plain' = Append(plain, PlainAt[Len(plain) + 1])
    /\ UNCHANGED <<batch, bpc, queued, held, slot, outcome, hopVars>>

\* Mutant: the halves are joined end to end.
ScatterJoins(j) == (plain \o slot)[j]

\* Each half's answers go back to the positions its jobs came from.
Scatter(j) ==
    LET at(s) == CHOOSE i \in DOMAIN s : s[i] = j
    IN IF batch[j] THEN slot[at(TlsAt)] ELSE plain[at(PlainAt)]

\* The scope has joined every worker and the plain thread.
Answer ==
    /\ bpc = "fetching" /\ bpc' = "answered"
    /\ queued = <<>> /\ \A w \in Workers : held[w] = 0
    /\ Len(plain) = Len(PlainAt)
    /\ outcome' = [j \in 1..Len(batch) |-> Scatter(j)]
    /\ UNCHANGED <<batch, queued, held, slot, plain, hopVars>>

BatchStep ==
    \/ Partition \/ PlainAnswers \/ Answer
    \/ \E w \in Workers : TakeJob(w) \/ FinishJob(w)
-----------------------------------------------------------------------------
Schemes == {"http", "https", "file"}
Paths == UNION {[1..n -> Segments] : n \in 0..2}
References ==
    [kind: {"absolute"}, scheme: Schemes, path: Paths]
      \cup [kind: {"network", "rooted", "relative"}, scheme: {"none"}, path: Paths]

\* The bounded fetch alone: the batch is empty.
HopInit ==
    /\ batch = <<>> /\ bpc = "answered"
    /\ queued = <<>> /\ held = [w \in Workers |-> 0] /\ slot = <<>>
    /\ plain = <<>> /\ outcome = <<>>
    /\ \E s \in {"http", "https"} : url = [scheme |-> s, path |-> <<"a">>]
    /\ hops = 0 /\ secure = (url.scheme = "https") /\ npc = "asking"

\* ".." takes the segment before it, never the root.
Walked(out, seg) ==
    CASE seg = "." -> out
      [] seg = ".." -> IF out = <<>> THEN out ELSE Front(out)
      [] OTHER -> Append(out, seg)

\* normalize_dot_segments: a path that ends in a dot segment names a directory and keeps its
\* slash, an empty last segment.
NormalizeDotSegments(path) ==
    LET walk[n \in 0..Len(path)] == IF n = 0 THEN <<>> ELSE Walked(walk[n - 1], path[n])
        directory == path # <<>> /\ Last(path) \in {".", ".."}
    IN IF directory THEN Append(walk[Len(path)], "") ELSE walk[Len(path)]

\* Mutant: the reference is joined as it stands.
ResolveRedirectVerbatim(base, loc) ==
    [scheme |-> IF loc.kind = "absolute" THEN loc.scheme ELSE base.scheme, path |-> loc.path]

\* resolve_redirect knows an absolute reference by http:// or https:// alone.  What names any
\* other scheme is to it a path, whose first segments are the scheme and nothing.
Taken(loc) ==
    IF loc.kind = "absolute" /\ loc.scheme \notin {"http", "https"}
      THEN [kind |-> "relative", scheme |-> "none", path |-> <<loc.scheme, "">> \o loc.path]
      ELSE loc

\* Another URL, another host under the base's scheme, the root, or the last segment replaced.
ResolveRedirect(base, loc) ==
    LET to == Taken(loc)
        joined == IF to.kind = "relative" /\ base.path # <<>>
                    THEN Front(base.path) \o to.path ELSE to.path
    IN [scheme |-> IF to.kind = "absolute" THEN to.scheme ELSE base.scheme,
        path |-> NormalizeDotSegments(joined)]

RequireHttp(u) == u.scheme \in {"http", "https"}
RejectDowngrade(from, to) == ~(from.scheme = "https" /\ to.scheme = "http")

\* One hop that answers with a redirect; the last one permitted ends the fetch.
Redirected(loc) ==
    /\ npc = "asking"
    /\ LET next == ResolveRedirect(url, loc)
       IN /\ hops' = hops + 1 /\ url' = next
          /\ secure' = (secure \/ next.scheme = "https")
          /\ npc' = IF /\ RequireHttp(next) /\ RejectDowngrade(url, next)
                       /\ hops < MaxRedirects
                      THEN "asking" ELSE "refused"
    /\ UNCHANGED batchVars

\* A 2xx body within the cap is returned; an error status, a redirect without a Location
\* or a body above the cap is refused.
HopAnswers ==
    /\ npc = "asking"
    /\ hops' = hops + 1 /\ npc' \in {"body", "refused"}
    /\ UNCHANGED <<batchVars, url, secure>>

FetchingInit == BatchInit \/ HopInit
FetchingNext == BatchStep \/ (\E loc \in References : Redirected(loc)) \/ HopAnswers
FetchingFairness == WF_fetchVars(BatchStep)
FetchingSpec == FetchingInit /\ [][FetchingNext]_fetchVars /\ FetchingFairness
-----------------------------------------------------------------------------
\* A batch is answered, whatever its mix and whichever worker is slow.
BatchEnds == <>(bpc = "answered")

\* "every job was handed to a worker" and "the order jobs finish in does not reach the
\* caller": no two workers hold one job, and the answer at a position is its own job's.
\* And a fetch is over within MAX_REDIRECTS hops after the first request, asks http and https
\* URLs alone, never leaves https once there, and follows no redirect to a path with a dot
\* segment.  A redirect that names another scheme is followed: as a path of the host it came
\* from.
FetchesAreAnswered ==
    /\ \A v, w \in Workers : v # w /\ held[v] # 0 => held[v] # held[w]
    /\ bpc = "answered" => outcome = Jobs
    /\ hops <= MaxRedirects + 1
    /\ npc \in {"asking", "body"} =>
          /\ RequireHttp(url) /\ (secure => url.scheme = "https")
          /\ hops > 0 => \A n \in DOMAIN url.path : url.path[n] \notin {".", ".."}
=============================================================================
