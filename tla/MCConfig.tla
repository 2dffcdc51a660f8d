------------------------------ MODULE MCConfig ------------------------------
EXTENDS Config, TLC
MCBoards == {"board", "parent"}
MCDistroNames == {"debian", "devuan"}
Dev(e, f, s, p) == <<[extends |-> e, fragments |-> f, suite |-> s, packages |-> p]>>
Rec(d, f, s) == <<[device |-> d, features |-> f, support |-> s]>>
Feat(f, k) == <<[fragments |-> f, keyrings |-> k]>>
Dist(s, k) == <<[suites |-> <<s>>, keyring |-> <<k>>]>>
Lck(n, p) == <<[pin |-> n, pinned |-> p]>>
Files == {<<>>, <<1>>, <<2>>}
MCHolds ==
  [rel \in {<<"recipes", "recipe", "toml">>} |-> {<<>>, Rec(<<"board">>, <<>>, <<>>), Rec(<<"board">>, <<<<"accel">>>>, <<"validated">>), Rec(<<"board">>, <<<<"accel">>>>, <<>>), Rec(<<>>, <<>>, <<"validated">>)}]
  @@ [rel \in {<<"recipes", "recipe", "lock">>} |-> {<<>>, Lck(1, FALSE), Lck(1, TRUE), Lck(2, FALSE)}]
  @@ [rel \in {<<"board", "toml">>} |-> {<<>>, Dev(<<>>, <<<<"one">>>>, <<"forky">>, <<<<"a">>>>), Dev(<<"parent">>, <<>>, <<>>, <<<<"b">>>>), Dev(<<>>, <<>>, <<"daedalus">>, <<>>)}]
  @@ [rel \in {<<"parent", "toml">>} |-> {<<>>, Dev(<<>>, <<<<"two">>>>, <<"forky">>, <<<<"a">>>>), Dev(<<"board">>, <<>>, <<"forky">>, <<>>)}]
  @@ [rel \in {<<"kernel", "toml">>} |-> {<<>>, <<[fragments |-> <<<<"one">>>>]>>, <<[fragments |-> <<<<"two">>>>]>>}]
  @@ [rel \in {<<"accel", "toml">>} |-> {<<>>, Feat(<<>>, <<<<"repo">>>>), Feat(<<<<"two">>>>, <<>>)}]
  @@ [rel \in {<<"debian", "toml">>} |-> {<<>>, Dist({"forky"}, "archive"), <<[suites |-> <<{"sid"}>>, keyring |-> <<>>]>>}]
  @@ [rel \in {<<"devuan", "toml">>} |-> {<<>>, Dist({"daedalus"}, "archive"), Dist({"forky"}, "repo")}]
  @@ [rel \in {<<"soc", "toml">>, <<"base", "toml">>} |-> {<<>>, <<[v |-> <<1>>]>>, <<[v |-> <<2>>]>>}]
  @@ [rel \in {<<"recipes", "recipe", "pkgs">>, <<"one", "config">>, <<"two", "config">>, <<"blobs", "soc", "file">>,
               <<"blobs", "keyrings", "archive">>, <<"blobs", "keyrings", "repo">>, <<"base", "overlay", "file">>, <<"soc", "overlay", "file">>,
               <<"board", "overlay", "file">>, <<"parent", "overlay", "file">>, <<"accel", "overlay", "file">>, <<"docs">>} |-> Files]
MCRels == DOMAIN MCHolds
Shipped ==
    [p \in Paths |->
        IF p[1] = "overlay" THEN <<>>
        ELSE CASE p = <<"shipped", <<"recipes", "recipe", "toml">>>> -> Rec(<<"board">>, <<<<"accel">>>>, <<"validated">>)
               [] p = <<"shipped", <<"recipes", "recipe", "lock">>>> -> Lck(1, TRUE)
               [] p = <<"shipped", <<"board", "toml">>>> -> Dev(<<"parent">>, <<>>, <<>>, <<<<"b">>>>)
               [] p = <<"shipped", <<"parent", "toml">>>> -> Dev(<<>>, <<<<"two">>>>, <<"forky">>, <<<<"a">>>>)
               [] p = <<"shipped", <<"kernel", "toml">>>> -> <<[fragments |-> <<<<"one">>>>]>>
               [] p = <<"shipped", <<"accel", "toml">>>> -> Feat(<<>>, <<<<"repo">>>>)
               [] p = <<"shipped", <<"debian", "toml">>>> -> Dist({"forky"}, "archive")
               [] p = <<"shipped", <<"devuan", "toml">>>> -> Dist({"daedalus"}, "archive")
               [] p[2] \in {Toml("soc"), Toml("base")} -> <<[v |-> <<1>>]>>
               [] OTHER -> <<1>>]
\* An overlay that retunes the recipe and shadows a fragment.
Overlaid ==
    [Shipped EXCEPT ![<<"overlay", <<"recipes", "recipe", "toml">>>>] = Rec(<<>>, <<>>, <<"validated">>),
                    ![<<"overlay", <<"recipes", "recipe", "lock">>>>] = Lck(2, FALSE),
                    ![<<"overlay", <<"one", "config">>>>] = <<2>>,
                    ![<<"overlay", <<"board", "overlay", "file">>>>] = <<2>>]
MCRevisions == {Overlaid}
=============================================================================
