------------------------------ MODULE MCLocks -------------------------------
EXTENDS Locks, TLC

MCLower == [s \in {"a1", "a2", "a3", "b1"} |-> s] @@ ("A1" :> "a1")
Spelt(shape, core, pre) == [shape |-> shape, core |-> core, pre |-> pre]
MCText ==
    ("v7.1" :> Spelt("v", <<7, 1>>, <<>>)) @@ ("v7.1.1" :> Spelt("v", <<7, 1, 1>>, <<>>))
    @@ ("v7.2-rc1" :> Spelt("v", <<7, 2>>, <<1>>)) @@ ("u7.3" :> Spelt("u", <<7, 3>>, <<>>))
    @@ ("bl_v1" :> Spelt("bl_v", <<1>>, <<>>)) @@ ("bl_v1.2" :> Spelt("bl_v", <<1, 2>>, <<>>))
    @@ ("p_1_arm64" :> Spelt("p arm64", <<1>>, <<>>)) @@ ("p_2_arm64" :> Spelt("p arm64", <<2>>, <<>>))
    @@ ("8.0.100" :> Spelt("", <<8, 0, 100>>, <<>>)) @@ ("8.0.101" :> Spelt("", <<8, 0, 101>>, <<>>))
    @@ ("9.0.100-rc1" :> Spelt("", <<9, 0, 100>>, <<1>>))

Ref(k, n, c) == [kind |-> k, name |-> n, sha |-> c]
Repo(refs, reach, holds, bysha) == [refs |-> refs, reach |-> reach, holds |-> holds, bysha |-> bysha]
OldRefs == {Ref("tag", "v7.1", "tagobject"), Ref("peeled", "v7.1", "a1"), Ref("head", "main", "a1")}
NewRefs == (OldRefs \ {Ref("head", "main", "a1")})
           \cup {Ref("tag", "v7.1.1", "newobject"), Ref("peeled", "v7.1.1", "a2"), Ref("tag", "v7.2-rc1", "a3"), Ref("tag", "u7.3", "a3"), Ref("head", "main", "a2")}
Forked == Repo({Ref("head", "main", "b1"), Ref("tag", "v7.1", "b1")}, {"b1", "a1"}, {"b1", "a1"}, TRUE)
OldUpstream == [u \in {"up", "fork"} |-> IF u = "up" THEN Repo(OldRefs, {"a1"}, {"a1"}, FALSE) ELSE Forked]
NewUpstream == [OldUpstream EXCEPT !["up"] = Repo(NewRefs, {"a1", "a2", "a3"}, {"a1", "a2", "a3"}, FALSE)]
\* The branch was rewritten; the server still hands out what it dropped.
Rewritten == [OldUpstream EXCEPT !["up"] = Repo({Ref("head", "main", "a3")}, {"a3"}, {"a1", "a2", "a3"}, TRUE)]
Dropped == [Rewritten EXCEPT !["up"].bysha = FALSE]
MCUpstreams == {OldUpstream, NewUpstream, Rewritten, Dropped}

Git(u, r) == <<[source |-> u, ref |-> r]>>
SeriesPin(n, u, r) == <<[series |-> <<n>>, source |-> u, ref |-> r]>>
BaseBuild ==
    [id |-> <<"mainline">>,
     git |-> [a \in GitAxes |-> CASE a = "kernel" -> Git("up", "track") [] a = "uboot" -> Git("up", "v7.1")
                                  [] a \in {"lib", "mod"} -> Git("up", "main") [] OTHER -> <<>>],
     patches |-> [x \in PatchAxes |-> IF x = "patches" THEN SeriesPin("one", "up", "main") ELSE <<>>],
     blobs |-> [atf |-> "bl_v1", tpl |-> "bl_v1.2"], debs |-> <<>>, sdk |-> <<>>,
     distro |-> <<"debian">>, suite |-> <<"forky">>]
WithApp(b) ==
    [b EXCEPT !.git["app"] = Git("up", "main"), !.git["packaging"] = Git("fork", "main"), !.patches["apppatches"] = SeriesPin("app", "fork", "main"),
              !.git["ffmpeg"] = Git("up", "v7.1"), !.git["graft"] = Git("fork", "main"),
              !.debs = <<"p_1_arm64">>, !.sdk = <<[version |-> "8.0.100", sha |-> "s1"]>>]
Both(b) == [recipe |-> b, variant |-> WithApp(b)]
BaseDraft == Both(BaseBuild)
MCDrafts ==
    {BaseDraft,
     Both([BaseBuild EXCEPT !.git["kernel"] = Git("fork", "track"), !.id = <<"forked">>]),
     [recipe |-> [BaseBuild EXCEPT !.git["mod"] = Git("fork", "main")],
      variant |-> [WithApp(BaseBuild) EXCEPT !.patches["patches"] = SeriesPin("two", "up", "main"), !.sdk[1].sha = "s2"]],
     Both([BaseBuild EXCEPT !.git["lib"] = <<>>, !.blobs["atf"] = "bl_v1.2", !.suite = <<"sid">>, !.patches["patches"] = SeriesPin("two", "up", "main")]),
     Both([BaseBuild EXCEPT !.git["uboot"] = Git("up", "v7.1.1"), !.patches["ubootpatches"] = SeriesPin("boot", "up", "main")]),
     [BaseDraft EXCEPT !["recipe"] = WithApp(BaseBuild), !["variant"].git["app"] = Git("up", "v7.1"), !["variant"].sdk = <<[version |-> "8.0.101", sha |-> "s2"]>>,
                       !["variant"].patches["apppatches"] = SeriesPin("app", "up", "main"), !["variant"].debs = <<"p_2_arm64">>]}

NoFlags == [a \in GitAxes |-> <<>>]
MCFlagSets == {NoFlags, [NoFlags EXCEPT !["kernel"] = <<"main">>, !["lib"] = <<"A1">>]}
MCOffers == {[files |-> {"bl_v1", "bl_v1.2"}, pool |-> {"p_1_arm64", "p_2_arm64"}, sdks |-> {"8.0.100", "8.0.101", "9.0.100-rc1"}]}
MCLateness == {{}, {"refs"}, {"sha"}, {"history"}, {"tree", "pool"}}
MCBlobDirs == {[f \in {"bl_v1", "bl_v1.2"} |-> <<1>>], [f \in {"bl_v1", "bl_v1.2"} |-> IF f = "bl_v1" THEN <<2>> ELSE <<>>]}
MCCheckouts == {<<>>, <<[head |-> "a1", clean |-> TRUE]>>, <<[head |-> "a2", clean |-> TRUE]>>, <<[head |-> "a1", clean |-> FALSE]>>}

\* A tree somebody starts from: the first draft, the first upstreams, a clean checkout.
LocksBegin ==
    /\ layers = BaseDraft /\ remote = OldUpstream /\ checkout = <<[head |-> "a1", clean |-> TRUE]>>
    /\ blobs = [f \in {"bl_v1", "bl_v1.2"} |-> <<1>>]
    /\ LocksInit
LocksMC == LocksBegin /\ [][LocksNext]_lockVars
=============================================================================
