---------------------------- MODULE DotnetCache -----------------------------
(***************************************************************************)
(* The .NET SDKs and NuGet packages the builds of a host share             *)
(* (engine/src/dotnet.rs, core/src/nuget.rs, resolve_nuget of              *)
(* build/app.rs).  `update` restores an app over the network and pins what *)
(* the restore fetched; `build` fetches the pinned SDK and packages into   *)
(* one cache, beside other builds that do the same, and restores offline.  *)
(*                                                                         *)
(* A digest is the content it is the digest of.                            *)
(***************************************************************************)
EXTENDS Naturals, FiniteSets

CONSTANTS
    Users,     \* processes that use the cache
    Packages,  \* NuGet packages: an id with its version
    Contents,  \* what a server may hand out as a package or as the SDK; 1 is what was published
    MaxTakes   \* bound: how many builds are made

VARIABLES
    served,    \* served[x]: what the servers hand out
    pinned,    \* the pinned manifest: Unlisted or the digest of every package
    sdkpin,    \* the digest of the SDK the layers pin
    downloads, \* downloads[d]: which names have a file of digest d in the cache
    sdk,       \* the unpacked SDK: which of its files are there, and of which digest
    staging,   \* staging[u]: the files u has unpacked in its own directory
    temp,      \* temp[u]: a download of u that is not renamed yet
    feed,      \* feed[u]: the packages in u's feed directory
    step, takes

dotnetVars == <<served, pinned, sdkpin, downloads, sdk, staging, temp, feed, step, takes>>

SdkFiles == {"dotnet", "rest"}
Nothing == [files |-> {}, of |-> 0]
Unlisted == [x \in {} |-> 0]
-----------------------------------------------------------------------------
(* The manifest *)

\* read_packages_folder: the digest of every package the restore left, which must be the one
\* NuGet wrote beside it.
Readable(folder) == \A x \in DOMAIN folder : folder[x].recorded \in {<<>>, <<folder[x].bytes>>}
Digests(folder) == [x \in DOMAIN folder |-> folder[x].bytes]

\* resolve_nuget, write_manifest: a restore takes what the servers hand out.
ResolveNuget ==
    /\ pinned = Unlisted /\ \A u \in Users : step[u] = "idle"
    /\ \E needs \in (SUBSET Packages) \ {{}}, record \in {<<>>} \cup {<<c>> : c \in Contents} :
          LET folder == [x \in needs |-> [bytes |-> served[x], recorded |-> record]] IN
          Readable(folder) /\ pinned' = Digests(folder)
    /\ UNCHANGED <<served, sdkpin, downloads, sdk, staging, temp, feed, step, takes>>
-----------------------------------------------------------------------------
(* The cache *)

At(u, s) == step[u] = s
Goes(u, s) == step' = [step EXCEPT ![u] = s]

\* Sha512Store::open sweeps what dead processes were downloading.
OpenCache(u) ==
    /\ At(u, "idle") /\ pinned # Unlisted /\ takes < MaxTakes
    /\ takes' = takes + 1
    /\ temp' = [v \in Users |-> IF step[v] = "idle" THEN <<>> ELSE temp[v]]
    /\ Goes(u, "sdk")
    /\ UNCHANGED <<served, pinned, sdkpin, downloads, sdk, staging, feed>>

\* ensure_sdk: an unpacked SDK is there when its program is.
HasSdk == "dotnet" \in sdk.files /\ sdk.of = sdkpin
SdkThere(u) ==
    /\ At(u, "sdk") /\ HasSdk
    /\ Goes(u, "feed") /\ feed' = [feed EXCEPT ![u] = Unlisted]
    /\ UNCHANGED <<served, pinned, sdkpin, downloads, sdk, staging, temp, takes>>

\* put_bytes: what was fetched is hashed, written under a name of its own and renamed.
Cached(name, digest) == name \in downloads[digest]
Fetch(u, name, digest) ==
    /\ ~Cached(name, digest) /\ temp[u] = <<>>
    /\ served[name] = digest
    /\ temp' = [temp EXCEPT ![u] = <<name, digest>>]
RenameDownload(u) ==
    /\ temp[u] # <<>> /\ step[u] \in {"sdk", "feed"}
    /\ downloads' = [downloads EXCEPT ![temp[u][2]] = @ \cup {temp[u][1]}]
    /\ temp' = [temp EXCEPT ![u] = <<>>]
    /\ UNCHANGED <<served, pinned, sdkpin, sdk, staging, feed, step, takes>>

FetchSdk(u) ==
    /\ At(u, "sdk") /\ ~HasSdk /\ Fetch(u, "sdk", sdkpin)
    /\ UNCHANGED <<served, pinned, sdkpin, downloads, sdk, staging, feed, step, takes>>

\* Mutant: the SDK is unpacked where it is looked for.
UnpackInPlace(u) ==
    /\ At(u, "sdk") /\ ~HasSdk /\ Cached("sdk", sdkpin) /\ temp[u] = <<>>
    /\ sdk' = [files |-> {"dotnet"}, of |-> sdkpin]
    /\ staging' = [staging EXCEPT ![u] = [files |-> {"dotnet"}, of |-> sdkpin]]
    /\ Goes(u, "unpacking")
    /\ UNCHANGED <<served, pinned, sdkpin, downloads, temp, feed, takes>>
\* The tarball is unpacked in a directory of the process' own, which is emptied first.
Unpack(u) ==
    /\ At(u, "sdk") /\ ~HasSdk /\ Cached("sdk", sdkpin) /\ temp[u] = <<>>
    /\ staging' = [staging EXCEPT ![u] = [files |-> {"dotnet"}, of |-> sdkpin]]
    /\ Goes(u, "unpacking")
    /\ UNCHANGED <<served, pinned, sdkpin, downloads, sdk, temp, feed, takes>>
UnpackRest(u) ==
    /\ At(u, "unpacking")
    /\ staging' = [staging EXCEPT ![u].files = SdkFiles]
    /\ Goes(u, "publish")
    /\ UNCHANGED <<served, pinned, sdkpin, downloads, sdk, temp, feed, takes>>
\* A rename onto a directory that is there fails: another build was first.
PublishSdk(u) ==
    /\ At(u, "publish")
    /\ staging' = [staging EXCEPT ![u] = Nothing]
    /\ IF sdk.of = sdkpin
       THEN Goes(u, "failed") /\ UNCHANGED <<sdk, feed>>
       ELSE sdk' = staging[u] /\ Goes(u, "feed") /\ feed' = [feed EXCEPT ![u] = Unlisted]
    /\ UNCHANGED <<served, pinned, sdkpin, downloads, temp, takes>>

\* materialize_feed: an empty directory, and a link to the cached file for every package.
LinkedInto(f, x, file) == [y \in DOMAIN f \cup {x} |-> IF y = x THEN file ELSE f[y]]
FeedPackage(u, x) ==
    /\ At(u, "feed") /\ temp[u] = <<>> /\ x \in DOMAIN pinned \ DOMAIN feed[u]
    /\ IF Cached(x, pinned[x])
       THEN feed' = [feed EXCEPT ![u] = LinkedInto(@, x, pinned[x])] /\ temp' = temp
       ELSE Fetch(u, x, pinned[x]) /\ feed' = feed
    /\ UNCHANGED <<served, pinned, sdkpin, downloads, sdk, staging, step, takes>>
Compile(u) ==
    /\ At(u, "feed") /\ DOMAIN feed[u] = DOMAIN pinned
    /\ Goes(u, "compiles")
    /\ UNCHANGED <<served, pinned, sdkpin, downloads, sdk, staging, temp, feed, takes>>

\* What a server hands out has another digest, the network fails, tar fails: tar's staging
\* directory goes with it.
Fails(u) ==
    /\ step[u] \in {"sdk", "unpacking", "feed"}
    /\ staging' = [staging EXCEPT ![u] = Nothing]
    /\ Goes(u, "failed")
    /\ UNCHANGED <<served, pinned, sdkpin, downloads, sdk, temp, feed, takes>>
Ends(u) ==
    /\ step[u] \in {"failed", "compiles"}
    /\ Goes(u, "idle")
    /\ UNCHANGED <<served, pinned, sdkpin, downloads, sdk, staging, temp, feed, takes>>
Killed(u) ==
    /\ step[u] \in {"sdk", "unpacking", "publish", "feed", "compiles"}
    /\ Goes(u, "idle")
    /\ UNCHANGED <<served, pinned, sdkpin, downloads, sdk, staging, temp, feed, takes>>

\* A server hands out something else than it did.
ServerMoves ==
    /\ \E x \in DOMAIN served, c \in Contents : c # served[x] /\ served' = [served EXCEPT ![x] = c]
    /\ UNCHANGED <<pinned, sdkpin, downloads, sdk, staging, temp, feed, step, takes>>

DotnetInit ==
    /\ served = [x \in Packages \cup {"sdk"} |-> 1] /\ pinned = Unlisted /\ sdkpin = 1
    /\ downloads = [c \in Contents |-> {}] /\ sdk = Nothing
    /\ staging = [u \in Users |-> Nothing] /\ temp = [u \in Users |-> <<>>] /\ feed = [u \in Users |-> Unlisted]
    /\ step = [u \in Users |-> "idle"] /\ takes = 0

DotnetNext ==
    \/ ResolveNuget \/ ServerMoves
    \/ \E u \in Users :
          \/ OpenCache(u) \/ SdkThere(u) \/ FetchSdk(u) \/ RenameDownload(u) \/ Unpack(u) \/ UnpackRest(u)
          \/ PublishSdk(u) \/ Compile(u) \/ Fails(u) \/ Ends(u) \/ Killed(u)
          \/ \E x \in Packages : FeedPackage(u, x)

DotnetSpec == DotnetInit /\ [][DotnetNext]_dotnetVars

DotnetTypeOK ==
    /\ DOMAIN served = Packages \cup {"sdk"} /\ DOMAIN pinned \subseteq Packages /\ sdkpin \in Contents
    /\ \A c \in Contents : downloads[c] \subseteq Packages \cup {"sdk"}
    /\ sdk.files \subseteq SdkFiles /\ takes \in 0..MaxTakes
    /\ \A u \in Users : step[u] \in {"idle", "sdk", "unpacking", "publish", "feed", "compiles", "failed"}

\* An app is compiled with the whole SDK that is pinned and offered exactly the packages the
\* restore resolved, byte for byte, whatever the servers hand out by then, whichever other
\* build fills the cache at the same time, and whoever was killed in the middle of it.
CompilesWithThePinned ==
    \A u \in Users : step[u] = "compiles" =>
        /\ sdk.files = SdkFiles /\ sdk.of = sdkpin
        /\ feed[u] = pinned
=============================================================================
