------------------------ MODULE UserspaceStageProofs -----------------------
(***************************************************************************)
(* What the userspace stage guarantees for every number of packages, every *)
(* set of .debs and pins, whatever errors, kills and cleans come between   *)
(* two steps, and wherever a compile or a restore is cut short.  It is     *)
(* proved for one sandbox identity and runs that use the store, where pins *)
(* only move forward or where nothing fails: the conditions without which  *)
(* the stage hands over what an earlier run left.                          *)
(***************************************************************************)
EXTENDS UserspaceStage, TLAPS

Steady ==
    /\ UserspaceAssumption /\ ~Reverts /\ StoreModes = {TRUE}
    /\ \A e, f \in Envs : e = f

Working == {"restore", "build", "refresh", "compile", "put"}
Active == Working \cup {"next", "collect"}

Key(i) == KeyOf(asked, i)
Whole(k) == store[k].state = "whole"
Fresh(i) == tree[i] = asked.pin[i]
HasTorn(i) == \E d \in stage[i] : d.env = Torn
\* The lock still names what the run read, or the run before.
Named(i) == want.pin[i] = asked.pin[i]

\* The lock, the run and the trees: none goes back.
OrderInv ==
    /\ \A i \in Pkgs : /\ asked.pin[i] <= want.pin[i]
                       /\ tree[i] # None => tree[i] <= asked.pin[i]
    /\ pc \in Working => pkg \in Pkgs
    /\ pc = "collect" => pkg = N + 1
    /\ storing

CleanInv == \A k \in dead : store[k].state # "absent"

\* Beside a fresh tree lie .debs of its pin only.
PinInv(i) ==
    /\ \A d \in stage[i] : d.pkg = i
    /\ Fresh(i) => \A d \in stage[i] : d.pin = asked.pin[i]

\* Package i was, or is going to be, compiled at a pin the lock still names: a clean that has
\* the entry on its list has hold of it already.
Compiled(i) ==
    \/ Fresh(i)
    \/ pc \in Active /\ i \notin cached /\ pkg <= i
    \/ pkg = i /\ pc \in {"build", "refresh", "compile", "put"}
SafeInv(i) == Compiled(i) /\ Key(i) \in dead /\ Named(i) => ~Whole(Key(i))

\* A torn .deb beside a fresh tree is swept before the stage looks: the entry it was torn from
\* is kept as long as the lock names it, and a run that has begun has taken note of it.
TornInv(i) ==
    HasTorn(i) /\ Fresh(i) =>
        /\ Named(i) => Whole(Key(i)) /\ Key(i) \notin dead
        /\ pc \in Active => i \in cached /\ (pkg < i \/ (pkg = i /\ pc = "next"))

DoneInv(i) == pc \in Active /\ i < pkg => MadeFor(Key(i), stage[i])

PkgInv(i) == PinInv(i) /\ SafeInv(i) /\ TornInv(i) /\ DoneInv(i)

PlaceInv ==
    /\ pc = "restore" => stage[pkg] = {}
    /\ pc \in {"compile", "put"} => Fresh(pkg)
    /\ pc = "put" => MadeFor(Key(pkg), stage[pkg])

\* An entry keeps the .debs it was made of for as long as anything of it is left.
EntriesInv == \A k \in Keys : store[k].state # "absent" => MadeFor(k, store[k].debs)

StageInv ==
    /\ TypeOK /\ OrderInv /\ CleanInv /\ PlaceInv /\ EntriesInv /\ ShipsMadeFor
    /\ \A i \in Pkgs : PkgInv(i)
-----------------------------------------------------------------------------
LEMMA KeyFacts ==
    ASSUME NEW w \in Wants, NEW i \in Pkgs
    PROVE  /\ KeyOf(w, i) \in Keys /\ w.pin[i] \in Pins /\ w.env \in Envs
           /\ KeyOf(w, i).pkg = i /\ KeyOf(w, i).pin = w.pin[i] /\ KeyOf(w, i).env = w.env
  BY DEF Wants, Keys, KeyOf

LEMMA OneKey ==
    ASSUME Steady, NEW w \in Wants, NEW v \in Wants, NEW i \in Pkgs, w.pin[i] = v.pin[i]
    PROVE  KeyOf(w, i) = KeyOf(v, i)
  BY KeyFacts DEF Steady, KeyOf

LEMMA DebFacts ==
    ASSUME NEW k \in Keys
    PROVE  /\ DebsOf(k) \in SUBSET Debs
           /\ \A d \in DebsOf(k) : d.pkg = k.pkg /\ d.pin = k.pin /\ d.env = k.env /\ d.part \in Parts
           /\ \A x \in Parts : \E d \in DebsOf(k) : d.part = x
  <1> DEFINE D(x) == [pkg |-> k.pkg, part |-> x, pin |-> k.pin, env |-> k.env]
  <1>1. \A x \in Parts : /\ D(x) \in Debs /\ D(x).pkg = k.pkg /\ D(x).pin = k.pin /\ D(x).env = k.env
                          /\ D(x).part = x
    BY DEF Keys, Debs
  <1>2. DebsOf(k) = {D(x) : x \in Parts}
    BY DEF DebsOf
  <1> HIDE DEF D
  <1> QED BY <1>1, <1>2

LEMMA DebsMadeFor == ASSUME NEW k \in Keys PROVE MadeFor(k, DebsOf(k))
  BY DebFacts DEF MadeFor

\* A compile beside .debs of its own pin writes over all of them.
LEMMA WrittenOver ==
    ASSUME NEW k \in Keys, NEW i \in Pkgs, stage[i] \in SUBSET Debs, \A d \in stage[i] : d.pin = k.pin
    PROVE  Written(i, DebsOf(k)) = DebsOf(k)
  <1>1. ASSUME NEW d \in stage[i] PROVE \E e \in DebsOf(k) : SameName(d, e)
    <2>1. d.part \in Parts /\ d.pin = k.pin
      BY DEF Debs
    <2>2. PICK e \in DebsOf(k) : e.part = d.part
      BY <2>1, DebFacts
    <2>3. e.pin = k.pin
      BY DebFacts
    <2> QED BY <2>1, <2>2, <2>3 DEF SameName
  <1> QED BY <1>1 DEF Written

LEMMA WrittenIn == ASSUME NEW i, NEW new PROVE Written(i, new) \subseteq stage[i] \cup new
  BY DEF Written

\* What a compile that was cut short leaves half written.
CutShort(debs) == {[d EXCEPT !.env = Cut] : d \in debs}

LEMMA CutFacts ==
    ASSUME NEW k \in Keys, NEW cut \in SUBSET DebsOf(k)
    PROVE  /\ CutShort(cut) \in SUBSET Debs
           /\ \A d \in CutShort(cut) : d.pkg = k.pkg /\ d.pin = k.pin /\ d.env = Cut
  <1>1. ASSUME NEW d \in DebsOf(k)
        PROVE  LET e == [d EXCEPT !.env = Cut] IN e \in Debs /\ e.pkg = k.pkg /\ e.pin = k.pin /\ e.env = Cut
    <2>1. d \in Debs /\ d.pkg = k.pkg /\ d.pin = k.pin
      BY DebFacts
    <2> QED BY <2>1 DEF Debs
  <1> QED BY <1>1 DEF CutShort

LEMMA EntryFacts ==
    /\ NoEntry \in Entries /\ NoEntry.state = "absent"
    /\ \A D \in SUBSET Debs : /\ [state |-> "whole", debs |-> D] \in Entries
                              /\ [state |-> "whole", debs |-> D].state = "whole"
                              /\ [state |-> "whole", debs |-> D].debs = D
    /\ \A e \in Entries : e.debs \in SUBSET Debs
    /\ \A e \in Entries, s \in {"holed", "headless"} :
          /\ [e EXCEPT !.state = s] \in Entries /\ [e EXCEPT !.state = s].state = s
          /\ [e EXCEPT !.state = s].debs = e.debs
  BY DEF NoEntry, Entries

-----------------------------------------------------------------------------
LEMMA StageTypes ==
    ASSUME UserspaceAssumption, TypeOK, pc \in Working => pkg \in Pkgs, [Next]_vars PROVE TypeOK'
  <1> USE DEF TypeOK
  <1>n. N \in Nat /\ None \notin Pins /\ StoreModes \subseteq BOOLEAN
    BY DEF UserspaceAssumption
  <1>p. pkg \in Pkgs => /\ Current \in Keys /\ asked.pin[pkg] \in Pins
                        /\ DebsOf(Current) \in SUBSET Debs /\ pkg + 1 \in 1..(N + 1)
    <2>1. ASSUME pkg \in Pkgs PROVE pkg + 1 \in 1..(N + 1)
      BY ONLY <2>1, <1>n DEF Pkgs
    <2> QED BY <2>1, KeyFacts, DebFacts DEF Current
  \* A step that only puts something in the stage directory of the package under way.
  <1>s. ASSUME pkg \in Pkgs, NEW S \in SUBSET Debs, stage' = [stage EXCEPT ![pkg] = S]
        PROVE  stage' \in [Pkgs -> SUBSET Debs]
    BY <1>s
  <1>1. ASSUME NEW use \in StoreModes, Begin(use) PROVE TypeOK'
    <2>1. 1 \in 1..(N + 1) /\ use \in BOOLEAN /\ cached' \in SUBSET Pkgs
      BY <1>1, <1>n DEF Begin
    <2>2. rooted' \in BOOLEAN
      BY <1>1 DEF Begin
    <2> QED BY <1>1, <2>1, <2>2 DEF Begin
  <1>2. CASE TakeUp
    <2>1. pkg \in 1..(N + 1) /\ (~(pkg > N) => pkg \in Pkgs)
      BY <1>n DEF Pkgs
    <2> QED BY <1>2, <2>1 DEF TakeUp
  <1>3. CASE Restore
    <2>1. pkg \in Pkgs
      BY <1>3 DEF Restore, Working
    <2>2. store[Current].debs \in SUBSET Debs
      BY <1>p, <2>1, EntryFacts
    <2>3. stage[pkg] \cup store[Current].debs \in SUBSET Debs
      BY <2>1, <2>2
    <2>4. stage' \in [Pkgs -> SUBSET Debs] /\ pkg' \in 1..(N + 1)
      BY <1>3, <1>p, <2>1, <2>3 DEF Restore
    <2> QED BY <1>3, <2>4 DEF Restore
  <1>4. CASE BuildOne
    BY <1>4 DEF BuildOne
  <1>5. CASE RemoveTree
    BY <1>5 DEF RemoveTree
  <1>6. CASE Refresh
    <2>1. pkg \in Pkgs
      BY <1>6 DEF Refresh, Working
    <2> QED BY <1>6, <1>p, <2>1 DEF Refresh
  <1>7. CASE Compile
    <2>1. pkg \in Pkgs
      BY <1>7 DEF Compile, Working
    <2>2. Written(pkg, DebsOf(Current)) \in SUBSET Debs
      BY <1>p, <2>1, WrittenIn
    <2> QED BY <1>7, <1>s, <2>1, <2>2 DEF Compile
  <1>8. CASE StorePackage
    <2>1. pkg \in Pkgs
      BY <1>8 DEF StorePackage, Working
    <2>2. [state |-> "whole", debs |-> stage[pkg]] \in Entries
      BY <2>1, EntryFacts
    <2>3. store' \in [Keys -> Entries] /\ pkg' \in 1..(N + 1)
      BY <1>8, <1>p, <2>1, <2>2 DEF StorePackage
    <2> QED BY <1>8, <2>3 DEF StorePackage
  <1>9. CASE Collect
    BY <1>9 DEF Collect
  <1>10. CASE EndRun \/ Kill
    BY <1>10 DEF EndRun, Kill
  <1>11. CASE pkg \in Pkgs /\ RefreshFails
    BY <1>11 DEF RefreshFails
  <1>12. ASSUME pkg \in Pkgs, NEW new \in SUBSET DebsOf(Current), NEW cut \in SUBSET DebsOf(Current),
                NEW to \in {"failed", "idle"}, CompileCut(new, cut, to)
         PROVE  TypeOK'
    <2>1. CutShort(cut) \in SUBSET Debs
      BY <1>12, <1>p, CutFacts
    <2>2. Written(pkg, new \cup CutShort(cut)) \in SUBSET Debs
      BY <1>12, <1>p, <2>1, WrittenIn
    <2>3. stage' = [stage EXCEPT ![pkg] = Written(pkg, new \cup CutShort(cut))] /\ pc' = to
      BY <1>12 DEF CompileCut, CutShort
    <2> QED BY <1>12, <1>s, <2>2, <2>3 DEF CompileCut
  <1>e. pkg \in Pkgs => store[Current].debs \in SUBSET Debs
    BY <1>p, EntryFacts
  <1>13. ASSUME pkg \in Pkgs, NEW got \in SUBSET store[Current].debs, RestoreCut(got) PROVE TypeOK'
    <2>1. stage[pkg] \cup got \in SUBSET Debs
      BY <1>13, <1>e
    <2> QED BY <1>13, <1>s, <2>1 DEF RestoreCut
  <1>14. ASSUME pkg \in Pkgs, NEW got \in SUBSET store[Current].debs, NEW cut \in store[Current].debs,
                KillRestoring(got, cut)
         PROVE  TypeOK'
    <2>1. [cut EXCEPT !.env = Torn] \in Debs
      BY <1>14, <1>e DEF Debs
    <2>2. stage[pkg] \cup got \cup {[cut EXCEPT !.env = Torn]} \in SUBSET Debs
      BY <1>14, <1>e, <2>1
    <2> QED BY <1>14, <1>s, <2>2 DEF KillRestoring
  <1>15. ASSUME NEW w \in Wants, Edit(w) PROVE TypeOK'
    BY <1>15 DEF Edit, runVars
  <1>16. ASSUME NEW k \in Keys, OtherRecipe(k) PROVE TypeOK'
    <2>1. [state |-> "whole", debs |-> DebsOf(k)] \in Entries
      BY DebFacts, EntryFacts
    <2> QED BY <1>16, <2>1 DEF OtherRecipe, runVars
  <1>17. ASSUME NEW k \in Keys, CleanRemove(k) PROVE TypeOK'
    BY <1>17, EntryFacts DEF CleanRemove, runVars
  <1>18. ASSUME NEW k \in Keys, NEW s \in {"holed", "headless"}, CleanDamage(k, s) PROVE TypeOK'
    <2>1. [store[k] EXCEPT !.state = s] \in Entries
      BY EntryFacts
    <2>2. store' = [store EXCEPT ![k] = [store[k] EXCEPT !.state = s]]
      BY <1>18 DEF CleanDamage
    <2> QED BY <1>18, <2>1, <2>2 DEF CleanDamage, runVars
  <1>19. CASE CleanStart \/ CleanAbort
    BY <1>19 DEF CleanStart, CleanAbort, runVars
  <1>20. CASE UNCHANGED vars
    BY <1>20 DEF vars
  <1> HIDE DEF TypeOK
  <1> QED
    BY <1>1, <1>2, <1>3, <1>4, <1>5, <1>6, <1>7, <1>8, <1>9, <1>10, <1>11, <1>12, <1>13, <1>14, <1>15, <1>16, <1>17,
       <1>18, <1>19, <1>20 DEF Next, Step, Fails, World

-----------------------------------------------------------------------------
\* What no step of a run touches but Begin: the lock, what was read from it, and every other package.
Frame ==
    /\ UNCHANGED <<want, asked, cached, dead, storing>>
    /\ \A i \in Pkgs : i # pkg => stage'[i] = stage[i] /\ tree'[i] = tree[i]
    /\ \A k \in Keys : k.pkg # pkg => store'[k] = store[k]
    /\ pkg' \in {pkg, pkg + 1}
    /\ pkg' # pkg => pc' = "next"
    /\ pc' \in Active => pc \in Active

LEMMA RunFrame ==
    ASSUME UserspaceAssumption, TypeOK, OrderInv, Step \/ (pkg \in Pkgs /\ Fails) PROVE Frame
  <1> USE DEF TypeOK, Active, Working
  <1>1. N \in Nat /\ pkg \in 1..(N + 1)
    BY DEF UserspaceAssumption
  <1>2. CASE TakeUp
    BY <1>2 DEF TakeUp, Frame
  <1>3. CASE Restore
    BY <1>3 DEF Restore, Frame
  <1>4. CASE BuildOne
    BY <1>4 DEF BuildOne, Frame
  <1>5. CASE RemoveTree
    BY <1>5 DEF RemoveTree, Frame
  <1>6. CASE Refresh
    BY <1>6 DEF Refresh, Frame
  <1>7. CASE Compile
    BY <1>7 DEF Compile, Frame
  <1>8. CASE StorePackage
    <2>1. Current.pkg = pkg
      BY DEF Current, KeyOf
    <2>2. \A k \in Keys : k # Current => store'[k] = store[k]
      BY <1>8 DEF StorePackage
    <2> QED BY <1>8, <2>1, <2>2 DEF StorePackage, Frame
  <1>9. CASE Collect
    BY <1>9 DEF Collect, Frame
  <1>10. CASE EndRun \/ Kill
    BY <1>10 DEF EndRun, Kill, Frame
  <1>11. CASE RefreshFails
    BY <1>11 DEF RefreshFails, Frame
  <1>12. ASSUME NEW new, NEW cut, NEW to, CompileCut(new, cut, to) PROVE Frame
    BY <1>12 DEF CompileCut, Frame
  <1>13. ASSUME NEW got, RestoreCut(got) PROVE Frame
    BY <1>13 DEF RestoreCut, Frame
  <1>14. ASSUME NEW got, NEW cut, KillRestoring(got, cut) PROVE Frame
    BY <1>14 DEF KillRestoring, Frame
  <1> QED
    BY <1>2, <1>3, <1>4, <1>5, <1>6, <1>7, <1>8, <1>9, <1>10, <1>11, <1>12, <1>13, <1>14 DEF Step, Fails

\* A package that is not under way keeps what is known of it.
LEMMA Others ==
    ASSUME UserspaceAssumption, TypeOK, Frame, NEW i \in Pkgs, i # pkg, PkgInv(i) PROVE PkgInv(i)'
  <1>1. /\ want' = want /\ asked' = asked /\ cached' = cached /\ dead' = dead
        /\ stage'[i] = stage[i] /\ tree'[i] = tree[i]
        /\ pkg' \in {pkg, pkg + 1} /\ (pkg' # pkg => pc' = "next") /\ (pc' \in Active => pc \in Active)
    BY DEF Frame
  <1>2. Key(i) \in Keys /\ Key(i).pkg = i
    BY KeyFacts DEF Key, TypeOK
  <1>3. store'[Key(i)] = store[Key(i)] /\ Key(i)' = Key(i)
    BY <1>1, <1>2 DEF Frame, Key
  <1>4. N \in Nat /\ pkg \in 1..(N + 1) /\ i \in 1..N
    BY DEF UserspaceAssumption, TypeOK, Pkgs
  <1>f. Fresh(i)' = Fresh(i) /\ HasTorn(i)' = HasTorn(i) /\ Named(i)' = Named(i) /\ Whole(Key(i))' = Whole(Key(i))
    BY <1>1, <1>3 DEF Fresh, HasTorn, Named, Whole
  <1>5. PinInv(i)'
    BY <1>1, <1>f DEF PkgInv, PinInv
  <1>6. SafeInv(i)'
    <2>1. Compiled(i)' => Compiled(i)
      BY <1>1, <1>4, <1>f DEF Compiled
    <2> QED BY <1>1, <1>3, <1>f, <2>1 DEF PkgInv, SafeInv
  <1>7. TornInv(i)'
    BY <1>1, <1>3, <1>4, <1>f DEF PkgInv, TornInv
  <1>8. DoneInv(i)'
    BY <1>1, <1>3, <1>4 DEF PkgInv, DoneInv
  <1> QED BY <1>5, <1>6, <1>7, <1>8 DEF PkgInv

\* The package under way, and the .debs that may lie beside it.
LEMMA UnderWay ==
    ASSUME Steady, StageInv, Frame, NEW p \in Pkgs, p = pkg, Step \/ Fails PROVE PkgInv(p)'
  <1>1. /\ want' = want /\ asked' = asked /\ cached' = cached /\ dead' = dead
        /\ pkg' \in {p, p + 1} /\ (pkg' # p => pc' = "next") /\ (pc' \in Active => pc \in Active)
    BY DEF Frame
  <1>2. /\ Key(p) \in Keys /\ Key(p).pkg = p /\ Key(p).pin = asked.pin[p] /\ Key(p).env = asked.env /\ Key(p)' = Key(p)
        /\ Key(p) = Current /\ asked.env \in Envs /\ asked.pin[p] \in Pins
    BY <1>1, KeyFacts DEF Key, StageInv, TypeOK, Current
  <1>3. N \in Nat /\ p \in 1..N /\ Torn \notin Envs /\ Torn # Cut /\ None \notin Pins /\ \A e, f \in Envs : e = f
    BY DEF Steady, UserspaceAssumption, Pkgs
  <1>4. /\ PinInv(p) /\ SafeInv(p) /\ TornInv(p) /\ PlaceInv /\ EntriesInv /\ CleanInv
        /\ p \in DOMAIN stage /\ p \in DOMAIN tree /\ stage[p] \in SUBSET Debs /\ store \in [Keys -> Entries]
    BY DEF StageInv, PkgInv, TypeOK
  <1>5. Named(p)' = Named(p)
    BY <1>1 DEF Named
  <1>d. /\ DebsOf(Key(p)) \in SUBSET Debs
        /\ \A d \in DebsOf(Key(p)) : d.pkg = p /\ d.pin = asked.pin[p] /\ d.env = asked.env /\ d.env # Torn
    BY <1>2, <1>3, DebFacts
  <1>m. ASSUME NEW S, MadeFor(Key(p), S) PROVE \A d \in S : d.pkg = p /\ d.pin = asked.pin[p] /\ d.env # Torn
    BY <1>2, <1>3, <1>m DEF MadeFor
  \* Nothing torn lies beside a fresh tree once the package is under way.
  <1>t. HasTorn(p) /\ Fresh(p) /\ pc \in Active => pc = "next" /\ p \in cached
    BY <1>3, <1>4 DEF TornInv
  \* The four parts, from what the step did to the stage directory, the tree and the store.
  <1>6. ASSUME \A d \in stage'[p] : d \in stage[p] \/ (d.pkg = p /\ d.pin = asked.pin[p]), tree'[p] = tree[p]
        PROVE  PinInv(p)'
    <2>1. Fresh(p)' = Fresh(p)
      BY <1>1, <1>6 DEF Fresh
    <2> QED BY <1>1, <1>4, <1>6, <2>1 DEF PinInv
  <1>7. ASSUME Compiled(p)' => Compiled(p), store' = store PROVE SafeInv(p)'
    <2>1. Whole(Key(p))' = Whole(Key(p))
      BY <1>2, <1>7 DEF Whole
    <2> QED BY <1>1, <1>2, <1>4, <1>5, <1>7, <2>1 DEF SafeInv
  <1>8. ASSUME ~HasTorn(p)' PROVE TornInv(p)'
    BY <1>8 DEF TornInv
  <1>9. ASSUME \A d \in stage'[p] : d.env # Torn PROVE ~HasTorn(p)'
    BY <1>9 DEF HasTorn
  <1>10. ASSUME pkg' = p PROVE DoneInv(p)'
    BY <1>3, <1>10 DEF DoneInv
  <1>11. ASSUME pkg' = p, tree'[p] = tree[p], pc' \notin Active PROVE Compiled(p)' => Compiled(p)
    BY <1>1, <1>11 DEF Compiled, Fresh, Active, Working
  <1>12. CASE TakeUp
    <2>1. /\ pc = "next" /\ tree' = tree /\ store' = store /\ pkg' = p /\ ~(pkg > N)
          /\ pc \in Active /\ pc' \in {"restore", "build"}
      BY <1>3, <1>12 DEF TakeUp, Active
    <2>2. CASE p \in cached
      <3>1. stage'[p] = {} /\ pc' = "restore"
        BY <1>4, <1>12, <2>1, <2>2 DEF TakeUp
      <3>2. Compiled(p)' => Compiled(p)
        BY <1>1, <2>1, <2>2, <3>1 DEF Compiled, Fresh
      <3> QED BY <1>6, <1>7, <1>8, <1>9, <1>10, <2>1, <3>1, <3>2 DEF PkgInv
    <2>3. CASE p \notin cached
      <3>1. stage' = stage /\ pc' = "build"
        BY <1>12, <2>1, <2>3 DEF TakeUp
      <3>2. Compiled(p)
        BY <1>3, <2>1, <2>3 DEF Compiled
      <3>3. TornInv(p)'
        BY <1>1, <1>t, <2>1, <2>3, <3>1 DEF TornInv, HasTorn, Fresh
      <3> QED BY <1>6, <1>7, <1>10, <2>1, <3>1, <3>2, <3>3 DEF PkgInv
    <2> QED BY <2>2, <2>3
  <1>13. CASE Restore
    <2>1. pc = "restore" /\ tree' = tree /\ store' = store /\ stage[p] = {} /\ pc \in Active
      BY <1>4, <1>13 DEF Restore, PlaceInv, Active, Working
    <2>2. CASE Whole(Key(p))
      <3>1. MadeFor(Key(p), store[Key(p)].debs)
        BY <1>2, <1>4, <2>2 DEF EntriesInv, Whole
      <3>2. stage'[p] = store[Key(p)].debs /\ pkg' = p + 1 /\ pc' = "next"
        BY <1>2, <1>4, <1>13, <2>1, <2>2 DEF Restore, Whole
      <3>5. \A d \in stage'[p] : d.pkg = p /\ d.pin = asked.pin[p] /\ d.env # Torn
        BY <1>m, <3>1, <3>2
      <3>3. Compiled(p)' => Compiled(p)
        BY <1>1, <1>3, <2>1, <3>2 DEF Compiled, Fresh
      <3>4. DoneInv(p)'
        BY <1>2, <3>1, <3>2 DEF DoneInv
      <3> QED BY <1>6, <1>7, <1>8, <1>9, <2>1, <3>3, <3>4, <3>5 DEF PkgInv
    <2>3. CASE ~Whole(Key(p))
      <3>1. stage' = stage /\ pkg' = p /\ pc' = "build"
        BY <1>2, <1>13, <2>3 DEF Restore, Whole
      <3>2. SafeInv(p)'
        BY <1>2, <2>1, <2>3 DEF SafeInv, Whole
      <3>3. stage'[p] = {}
        BY <2>1, <3>1
      <3> QED BY <1>6, <1>8, <1>9, <1>10, <2>1, <3>1, <3>2, <3>3 DEF PkgInv
    <2> QED BY <2>2, <2>3
  \* The steps that leave the stage directory, the tree and the store alone.
  <1>14. CASE BuildOne
    <2>1. pc = "build" /\ stage' = stage /\ tree' = tree /\ store' = store /\ pkg' = p /\ pc \in Active
      BY <1>14 DEF BuildOne, Active, Working
    <2>2. Compiled(p)
      BY <2>1 DEF Compiled
    <2>3. TornInv(p)'
      BY <1>1, <1>t, <2>1 DEF TornInv, HasTorn, Fresh
    <2> QED BY <1>6, <1>7, <1>10, <2>1, <2>2, <2>3 DEF PkgInv
  <1>15. CASE EndRun \/ Kill
    <2>1. stage' = stage /\ tree' = tree /\ store' = store /\ pkg' = p /\ pc' = "idle"
      BY <1>15 DEF EndRun, Kill
    <2>2. Compiled(p)' => Compiled(p)
      BY <1>11, <2>1 DEF Active, Working
    <2>3. TornInv(p)'
      BY <1>1, <1>2, <1>4, <2>1 DEF TornInv, HasTorn, Fresh, Whole, Named, Active, Working
    <2> QED BY <1>6, <1>7, <1>10, <2>1, <2>2, <2>3 DEF PkgInv
  <1>16. CASE RemoveTree
    <2>1. pc = "refresh" /\ pc' = pc /\ stage' = stage /\ tree'[p] = None /\ store' = store /\ pkg' = p
      BY <1>4, <1>16 DEF RemoveTree
    <2>2. Compiled(p) /\ ~Fresh(p)'
      BY <1>1, <1>2, <1>3, <2>1 DEF Compiled, Fresh
    <2>3. PinInv(p)' /\ TornInv(p)'
      BY <1>4, <2>1, <2>2 DEF PinInv, TornInv
    <2> QED BY <1>7, <1>10, <2>1, <2>2, <2>3 DEF PkgInv
  <1>17. CASE Refresh \/ RefreshFails
    <2>1. pc = "refresh" /\ stage'[p] = {} /\ store' = store /\ pkg' = p
      BY <1>4, <1>17 DEF Refresh, RefreshFails
    <2>2. Compiled(p) /\ PinInv(p)'
      BY <2>1 DEF Compiled, PinInv
    <2> QED BY <1>7, <1>8, <1>9, <1>10, <2>1, <2>2 DEF PkgInv
  <1>18. CASE Compile
    <2>1. pc = "compile" /\ Fresh(p) /\ tree' = tree /\ store' = store /\ pkg' = p
      BY <1>4, <1>18 DEF Compile, PlaceInv
    <2>2. stage'[p] = Written(p, DebsOf(Key(p)))
      BY <1>2, <1>4, <1>18 DEF Compile
    <2>3. Written(p, DebsOf(Key(p))) = DebsOf(Key(p))
      BY <1>2, <1>4, <2>1, WrittenOver DEF PinInv
    <2>4. Compiled(p)
      BY <2>1 DEF Compiled
    <2>5. \A d \in stage'[p] : d.pkg = p /\ d.pin = asked.pin[p] /\ d.env # Torn
      BY <1>d, <2>2, <2>3
    <2> QED BY <1>6, <1>7, <1>8, <1>9, <1>10, <2>1, <2>4, <2>5 DEF PkgInv
  <1>19. CASE StorePackage
    <2>1. pc = "put" /\ Fresh(p) /\ MadeFor(Key(p), stage[p]) /\ stage' = stage /\ tree' = tree
      BY <1>4, <1>19 DEF StorePackage, PlaceInv
    <2>2. DoneInv(p)'
      BY <1>2, <2>1 DEF DoneInv
    <2>3. Compiled(p)
      BY <2>1 DEF Compiled
    <2>4. SafeInv(p)'
      <3>1. CASE store' = store
        BY <1>7, <2>3, <3>1
      <3>2. CASE store' # store
        <4>1. store[Key(p)].state \notin {"whole", "holed", "headless"}
          BY <1>2, <1>19, <3>2 DEF StorePackage, Has
        <4>2. store[Key(p)].state = "absent"
          BY <1>2, <1>4, <4>1 DEF Entries
        <4> QED BY <1>1, <1>2, <1>4, <4>2 DEF CleanInv, SafeInv
      <3> QED BY <3>1, <3>2
    <2>5. \A d \in stage'[p] : d.pkg = p /\ d.pin = asked.pin[p] /\ d.env # Torn
      BY <1>m, <2>1
    <2> QED BY <1>6, <1>8, <1>9, <2>1, <2>2, <2>4, <2>5 DEF PkgInv
  <1>20. CASE Collect
    BY <1>3, <1>20 DEF Collect, StageInv, OrderInv
  <1>21. ASSUME NEW new \in SUBSET DebsOf(Current), NEW cut \in SUBSET DebsOf(Current), NEW to \in {"failed", "idle"},
                CompileCut(new, cut, to)
         PROVE  PkgInv(p)'
    <2>1. /\ pc = "compile" /\ pc' \in {"failed", "idle"} /\ pc' \notin Active /\ pc \in Active /\ Fresh(p)
          /\ tree' = tree /\ store' = store /\ pkg' = p
      BY <1>4, <1>21 DEF CompileCut, PlaceInv, Active, Working
    <2>2. stage'[p] = Written(p, new \cup CutShort(cut))
      BY <1>4, <1>21 DEF CompileCut, CutShort
    <2>3. stage'[p] \subseteq stage[p] \cup new \cup CutShort(cut)
      BY <2>2, WrittenIn
    <2>4. \A d \in CutShort(cut) : d.pkg = p /\ d.pin = asked.pin[p] /\ d.env = Cut
      BY <1>2, CutFacts
    <2>5. \A d \in new : d.pkg = p /\ d.pin = asked.pin[p] /\ d.env # Torn
      BY <1>2, <1>d
    <2>6. Compiled(p)
      BY <2>1 DEF Compiled
    <2>7. PinInv(p)'
      BY <1>6, <2>1, <2>3, <2>4, <2>5
    <2>8. ~HasTorn(p)'
      BY <1>3, <1>t, <2>1, <2>3, <2>4, <2>5 DEF HasTorn
    <2> QED BY <1>7, <1>8, <1>10, <2>1, <2>6, <2>7, <2>8 DEF PkgInv
  <1>22. ASSUME NEW got \in SUBSET store[Current].debs, RestoreCut(got) PROVE PkgInv(p)'
    <2>1. /\ stage[p] = {} /\ tree' = tree /\ store' = store /\ pkg' = p /\ pc' \notin Active
          /\ Key(p) \in dead
      BY <1>2, <1>4, <1>22 DEF RestoreCut, PlaceInv, Active, Working
    <2>2. MadeFor(Key(p), store[Key(p)].debs)
      BY <1>2, <1>4, <2>1 DEF CleanInv, EntriesInv
    <2>3. stage'[p] \subseteq store[Key(p)].debs
      BY <1>2, <1>4, <1>22, <2>1 DEF RestoreCut
    <2>4. \A d \in stage'[p] : d.pkg = p /\ d.pin = asked.pin[p] /\ d.env # Torn
      BY <1>m, <2>2, <2>3
    <2> QED BY <1>6, <1>7, <1>8, <1>9, <1>10, <1>11, <2>1, <2>4 DEF PkgInv
  <1>23. ASSUME NEW got \in SUBSET store[Current].debs, NEW cut \in store[Current].debs, KillRestoring(got, cut)
         PROVE  PkgInv(p)'
    <2>1. /\ stage[p] = {} /\ tree' = tree /\ store' = store /\ pkg' = p /\ pc' = "idle" /\ pc' \notin Active
          /\ Whole(Key(p))
      BY <1>2, <1>4, <1>23 DEF KillRestoring, PlaceInv, Active, Working, Whole
    <2>7. \A d \in store[Key(p)].debs : d.pkg = p /\ d.pin = asked.pin[p] /\ d.env # Torn
      BY <1>2, <1>4, <1>m, <2>1 DEF EntriesInv, Whole
    <2>2. cut \in Debs /\ cut.pkg = p /\ cut.pin = asked.pin[p]
      BY <1>2, <1>4, <2>7, EntryFacts
    <2>3. [cut EXCEPT !.env = Torn].pkg = p /\ [cut EXCEPT !.env = Torn].pin = asked.pin[p]
      BY <2>2 DEF Debs
    <2>4. stage'[p] = got \cup {[cut EXCEPT !.env = Torn]}
      BY <1>4, <1>23, <2>1 DEF KillRestoring
    <2>5. PinInv(p)'
      BY <1>1, <1>2, <2>3, <2>4, <2>7 DEF PinInv
    <2>6. TornInv(p)'
      <3>1. Fresh(p)' => Compiled(p)
        BY <1>1, <2>1 DEF Compiled, Fresh
      <3>2. Whole(Key(p))'
        BY <1>2, <2>1 DEF Whole
      <3> QED BY <1>1, <1>2, <1>4, <1>5, <2>1, <3>1, <3>2 DEF TornInv, SafeInv
    <2> QED BY <1>7, <1>10, <1>11, <2>1, <2>5, <2>6 DEF PkgInv
  <1> QED
    BY <1>12, <1>13, <1>14, <1>15, <1>16, <1>17, <1>18, <1>19, <1>20, <1>21, <1>22, <1>23 DEF Step, Fails

\* Where a step of a run leaves it.
LEMMA RunPlaces ==
    ASSUME Steady, StageInv, Frame, Step \/ (pkg \in Pkgs /\ Fails)
    PROVE  OrderInv' /\ CleanInv' /\ PlaceInv' /\ EntriesInv' /\ ShipsMadeFor'
  <1>1. /\ want' = want /\ asked' = asked /\ cached' = cached /\ dead' = dead /\ storing' = storing
        /\ Key(pkg)' = KeyOf(asked, pkg') /\ Key(pkg) = Current
    BY DEF Frame, Key, Current
  <1>2. /\ N \in Nat /\ Torn \notin Envs /\ None \notin Pins /\ Pins \subseteq Nat /\ \A e, f \in Envs : e = f
        /\ pkg \in 1..(N + 1) /\ Pkgs = 1..N
    BY DEF Steady, UserspaceAssumption, Pkgs, StageInv, TypeOK
  <1>3. /\ OrderInv /\ CleanInv /\ PlaceInv /\ EntriesInv /\ store \in [Keys -> Entries]
        /\ \A i \in Pkgs : /\ PinInv(i) /\ TornInv(i) /\ DoneInv(i)
                           /\ i \in DOMAIN stage /\ i \in DOMAIN tree /\ stage[i] \in SUBSET Debs
    BY DEF StageInv, PkgInv, TypeOK
  <1>4. \A i \in Pkgs : /\ Key(i) \in Keys /\ Key(i).pkg = i /\ Key(i).pin = asked.pin[i] /\ Key(i).env = asked.env
                        /\ asked.env \in Envs /\ asked.pin[i] \in Pins
    BY KeyFacts DEF Key, StageInv, TypeOK
  <1>5. pc \in Working => pkg \in Pkgs
    BY <1>3 DEF OrderInv
  \* The trees are as they were, or one is gone, or is of the pin that was read.
  <1>6. ASSUME \A i \in Pkgs : tree'[i] \in {tree[i], None, asked.pin[i]},
               pc' \in Working => pkg' \in Pkgs, pc' = "collect" => pkg' = N + 1
        PROVE  OrderInv'
    <2>1. ASSUME NEW i \in Pkgs PROVE asked'.pin[i] <= want'.pin[i] /\ (tree'[i] # None => tree'[i] <= asked'.pin[i])
      <3>1. asked.pin[i] \in Nat /\ (tree[i] # None => tree[i] <= asked.pin[i])
        BY <1>2, <1>3, <1>4 DEF OrderInv
      <3> QED BY <1>1, <1>3, <1>6, <3>1 DEF OrderInv
    <2> QED BY <1>1, <1>3, <1>6, <2>1 DEF OrderInv
  <1>7. ASSUME store' = store PROVE CleanInv' /\ EntriesInv'
    BY <1>1, <1>3, <1>7 DEF CleanInv, EntriesInv
  <1>8. ASSUME pc' # "done" PROVE ShipsMadeFor'
    BY <1>8 DEF ShipsMadeFor
  <1>9. ASSUME pc' \notin {"restore", "compile", "put"} PROVE PlaceInv'
    BY <1>9 DEF PlaceInv
  <1>12. CASE TakeUp
    <2>1. /\ tree' = tree /\ store' = store /\ pkg' = pkg /\ pc' \in {"restore", "build", "collect"}
          /\ (pc' = "collect" <=> pkg > N)
      BY <1>2, <1>12 DEF TakeUp
    <2>2. pc' \in Working => pkg' \in Pkgs
      BY <1>2, <2>1 DEF Working
    <2>3. pc' = "collect" => pkg' = N + 1
      BY <1>2, <2>1
    <2>4. PlaceInv'
      <3>1. pc' = "restore" => pkg \in Pkgs /\ stage' = [stage EXCEPT ![pkg] = {}]
        BY <1>2, <1>12, <2>1 DEF TakeUp
      <3>2. pc' = "restore" => stage'[pkg'] = {}
        BY <1>3, <2>1, <3>1
      <3> QED BY <2>1, <3>2 DEF PlaceInv
    <2> QED BY <1>6, <1>7, <1>8, <2>1, <2>2, <2>3, <2>4
  <1>13. CASE Restore
    <2>1. /\ tree' = tree /\ store' = store /\ pc' \in {"next", "build"} /\ (pc' = "build" => pkg' = pkg)
          /\ pc = "restore"
      BY <1>13 DEF Restore
    <2>2. pc' \in Working => pkg' \in Pkgs
      BY <1>5, <2>1 DEF Working
    <2> QED BY <1>6, <1>7, <1>8, <1>9, <2>1, <2>2
  <1>14. CASE BuildOne
    <2>1. /\ pc = "build" /\ stage' = stage /\ tree' = tree /\ store' = store /\ pkg' = pkg
          /\ pc' \in {"panicked", "put", "compile", "refresh"}
          /\ (pc' \in {"put", "compile"} => Fresh(pkg)) /\ (pc' = "put" => PackageStaged(pkg))
      BY <1>14 DEF BuildOne, Fresh
    <2>2. pkg \in Pkgs /\ pc \in Active
      BY <1>5, <2>1 DEF Working, Active
    <2>3. ASSUME pc' = "put" PROVE MadeFor(Key(pkg), stage[pkg])
      <3>1. Fresh(pkg) /\ \A x \in Parts : \E d \in stage[pkg] : d.part = x
        BY <2>1, <2>3 DEF PackageStaged
      <3>2. ~HasTorn(pkg)
        BY <1>2, <1>3, <2>1, <2>2, <3>1 DEF TornInv
      <3>3. ASSUME NEW d \in stage[pkg]
            PROVE  d.pkg = Key(pkg).pkg /\ d.pin = Key(pkg).pin /\ d.env \in {Key(pkg).env, Cut}
        <4>1. d.pkg = pkg /\ d.pin = asked.pin[pkg]
          BY <1>3, <2>2, <3>1 DEF PinInv
        <4>2. d.env \in Envs \cup {Torn, Cut} /\ d.env # Torn
          BY <1>3, <2>2, <3>2 DEF HasTorn, Debs
        <4> QED BY <1>2, <1>4, <2>2, <4>1, <4>2
      <3> QED BY <3>1, <3>3 DEF MadeFor
    <2>4. PlaceInv'
      <3>1. Key(pkg)' = Key(pkg) /\ Fresh(pkg)' = Fresh(pkg)
        BY <1>1, <2>1 DEF Key, Fresh
      <3> QED BY <2>1, <2>3, <3>1 DEF PlaceInv
    <2>5. pc' \in Working => pkg' \in Pkgs
      BY <2>1, <2>2
    <2> QED BY <1>6, <1>7, <1>8, <2>1, <2>4, <2>5
  <1>15. CASE EndRun \/ Kill
    <2>1. stage' = stage /\ tree' = tree /\ store' = store /\ pkg' = pkg /\ pc' = "idle"
      BY <1>15 DEF EndRun, Kill
    <2> QED BY <1>6, <1>7, <1>8, <1>9, <2>1 DEF Working
  <1>16. CASE RemoveTree
    <2>1. pc = "refresh" /\ pc' = pc /\ store' = store /\ pkg' = pkg
      BY <1>16 DEF RemoveTree
    <2>2. \A i \in Pkgs : tree'[i] \in {tree[i], None, asked.pin[i]}
      BY <1>3, <1>16 DEF RemoveTree
    <2>3. pkg \in Pkgs
      BY <1>5, <2>1 DEF Working
    <2> QED BY <1>6, <1>7, <1>8, <1>9, <2>1, <2>2, <2>3
  <1>17. CASE Refresh
    <2>1. pc = "refresh" /\ pc' = "compile" /\ store' = store /\ pkg' = pkg
      BY <1>17 DEF Refresh
    <2>2. pkg \in Pkgs
      BY <1>5, <2>1 DEF Working
    <2>3. (\A i \in Pkgs : tree'[i] \in {tree[i], None, asked.pin[i]}) /\ tree'[pkg] = asked.pin[pkg]
      BY <1>3, <1>17, <2>2 DEF Refresh
    <2>4. PlaceInv'
      BY <1>1, <2>1, <2>3 DEF PlaceInv, Fresh
    <2> QED BY <1>6, <1>7, <1>8, <2>1, <2>2, <2>3, <2>4
  <1>18. CASE RefreshFails
    BY <1>6, <1>7, <1>8, <1>9, <1>18 DEF RefreshFails, Working
  <1>19. CASE Compile
    <2>1. pc = "compile" /\ pc' = "put" /\ tree' = tree /\ store' = store /\ pkg' = pkg /\ Fresh(pkg)
      BY <1>3, <1>19 DEF Compile, PlaceInv
    <2>2. pkg \in Pkgs
      BY <1>5, <2>1 DEF Working
    <2>3. stage'[pkg] = Written(pkg, DebsOf(Key(pkg)))
      BY <1>1, <1>3, <1>19, <2>2 DEF Compile
    <2>4. Written(pkg, DebsOf(Key(pkg))) = DebsOf(Key(pkg))
      BY <1>3, <1>4, <2>1, <2>2, WrittenOver DEF PinInv
    <2>6. MadeFor(Key(pkg), stage'[pkg])
      BY <1>4, <2>2, <2>3, <2>4, DebsMadeFor
    <2>5. PlaceInv'
      BY <1>1, <2>1, <2>6 DEF PlaceInv, Fresh, Key
    <2> QED BY <1>6, <1>7, <1>8, <2>1, <2>2, <2>5
  <1>20. CASE StorePackage
    <2>1. pc = "put" /\ tree' = tree /\ pc' \in {"failed", "next"} /\ MadeFor(Key(pkg), stage[pkg])
      BY <1>3, <1>20 DEF StorePackage, PlaceInv
    <2>2. pkg \in Pkgs
      BY <1>5, <2>1 DEF Working
    <2>3. \/ store' = store
          \/ store' = [store EXCEPT ![Key(pkg)] = [state |-> "whole", debs |-> stage[pkg]]]
      BY <1>1, <1>20, <2>1 DEF StorePackage
    <2>4. CleanInv' /\ EntriesInv'
      <3>1. CASE store' = [store EXCEPT ![Key(pkg)] = [state |-> "whole", debs |-> stage[pkg]]]
        <4>1. /\ store'[Key(pkg)].state = "whole" /\ store'[Key(pkg)].debs = stage[pkg]
              /\ \A k \in Keys : k # Key(pkg) => store'[k] = store[k]
          BY <1>3, <1>4, <2>2, <3>1
        <4>2. dead \subseteq Keys
          BY DEF StageInv, TypeOK
        <4> QED BY <1>1, <1>3, <2>1, <4>1, <4>2 DEF CleanInv, EntriesInv
      <3> QED BY <1>7, <2>3, <3>1
    <2> QED BY <1>6, <1>8, <1>9, <2>1, <2>4 DEF Working
  <1>21. CASE Collect
    <2>1. pc = "collect" /\ pc' = "done" /\ tree' = tree /\ store' = store /\ out' = UNION {stage[i] : i \in Pkgs}
      BY <1>21 DEF Collect
    <2>2. ASSUME NEW i \in Pkgs PROVE MadeFor(KeyOf(asked, i), {d \in out' : d.pkg = i})
      <3>1. MadeFor(Key(i), stage[i])
        BY <1>2, <1>3, <2>1 DEF DoneInv, OrderInv, Active
      <3>2. {d \in out' : d.pkg = i} = stage[i]
        BY <1>3, <2>1 DEF PinInv
      <3> QED BY <3>1, <3>2 DEF Key
    <2>3. ShipsMadeFor'
      BY <1>1, <2>1, <2>2 DEF ShipsMadeFor
    <2> QED BY <1>6, <1>7, <1>9, <2>1, <2>3 DEF Working
  <1>22. ASSUME NEW new, NEW cut, NEW to, CompileCut(new, cut, to)
         PROVE  OrderInv' /\ CleanInv' /\ PlaceInv' /\ EntriesInv' /\ ShipsMadeFor'
    <2>1. pc' \in {"failed", "idle"} /\ tree' = tree /\ store' = store
      BY <1>22 DEF CompileCut
    <2> QED BY <1>6, <1>7, <1>8, <1>9, <2>1 DEF Working
  <1>23. ASSUME NEW got, RestoreCut(got) PROVE OrderInv' /\ CleanInv' /\ PlaceInv' /\ EntriesInv' /\ ShipsMadeFor'
    BY <1>6, <1>7, <1>8, <1>9, <1>23 DEF RestoreCut, Working
  <1>24. ASSUME NEW got, NEW cut, KillRestoring(got, cut)
         PROVE  OrderInv' /\ CleanInv' /\ PlaceInv' /\ EntriesInv' /\ ShipsMadeFor'
    BY <1>6, <1>7, <1>8, <1>9, <1>24 DEF KillRestoring, Working
  <1> QED
    BY <1>12, <1>13, <1>14, <1>15, <1>16, <1>17, <1>18, <1>19, <1>20, <1>21, <1>22, <1>23, <1>24 DEF Step, Fails

\* A new run: what it reads is what the trees were fetched for, or is newer.
LEMMA BeginKeeps ==
    ASSUME Steady, StageInv, NEW use \in StoreModes, Begin(use)
    PROVE  OrderInv' /\ CleanInv' /\ PlaceInv' /\ EntriesInv' /\ ShipsMadeFor' /\ \A i \in Pkgs : PkgInv(i)'
  <1>1. /\ asked' = want /\ want' = want /\ storing' /\ pkg' = 1 /\ pc' = "next"
        /\ cached' = {i \in Pkgs : Has(KeyOf(want, i))}
        /\ store' = store /\ tree' = tree /\ stage' = stage /\ dead' = dead
    BY DEF Begin, Steady
  <1>2. /\ N \in Nat /\ None \notin Pins /\ Pins \subseteq Nat /\ Pkgs = 1..N /\ want \in Wants /\ asked \in Wants
        /\ tree \in [Pkgs -> Pins \cup {None}] /\ OrderInv /\ CleanInv /\ EntriesInv
    BY DEF Steady, UserspaceAssumption, Pkgs, StageInv, TypeOK
  <1>3. ASSUME NEW i \in Pkgs
        PROVE  /\ Key(i)' = KeyOf(want, i)
               /\ Fresh(i)' => Fresh(i) /\ Named(i) /\ Key(i)' = Key(i)
               /\ asked.pin[i] \in Nat /\ want.pin[i] \in Nat /\ asked.pin[i] <= want.pin[i]
               /\ tree[i] # None => tree[i] \in Nat /\ tree[i] <= asked.pin[i]
    <2>1. asked.pin[i] \in Pins /\ want.pin[i] \in Pins
      BY <1>2, KeyFacts
    <2>2. /\ asked.pin[i] <= want.pin[i] /\ (tree[i] # None => tree[i] <= asked.pin[i])
          /\ (tree[i] # None => tree[i] \in Nat)
      BY <1>2 DEF OrderInv
    <2>3. Fresh(i)' => tree[i] = want.pin[i] /\ asked.pin[i] = want.pin[i]
      <3>1. Fresh(i)' => tree[i] = want.pin[i]
        BY <1>1 DEF Fresh
      <3>2. asked.pin[i] \in Nat /\ want.pin[i] \in Nat /\ want.pin[i] # None
        BY <1>2, <2>1
      <3> QED BY <2>2, <3>1, <3>2
    <2>4. asked.pin[i] = want.pin[i] => KeyOf(want, i) = KeyOf(asked, i)
      BY <1>2, OneKey
    <2> QED BY <1>1, <1>2, <2>1, <2>2, <2>3, <2>4 DEF Key, Fresh, Named
  <1>4. OrderInv'
    <2>1. ASSUME NEW i \in Pkgs PROVE asked'.pin[i] <= want'.pin[i] /\ (tree'[i] # None => tree'[i] <= asked'.pin[i])
      BY <1>1, <1>3
    <2> QED BY <1>1, <2>1 DEF OrderInv, Working
  <1>5. CleanInv' /\ PlaceInv' /\ EntriesInv' /\ ShipsMadeFor'
    BY <1>1, <1>2 DEF CleanInv, PlaceInv, EntriesInv, ShipsMadeFor
  <1>6. ASSUME NEW i \in Pkgs PROVE PkgInv(i)'
    <2>1. PinInv(i) /\ SafeInv(i) /\ TornInv(i)
      BY DEF StageInv, PkgInv
    <2>2. PinInv(i)'
      BY <1>1, <1>3, <2>1 DEF PinInv, Named
    <2>3. i \in cached' <=> Has(Key(i)')
      BY <1>1, <1>3
    <2>4. SafeInv(i)'
      <3>1. CASE Fresh(i)'
        <4>1. Compiled(i) /\ Named(i) /\ Key(i)' = Key(i)
          BY <1>3, <3>1 DEF Compiled
        <4> QED BY <1>1, <2>1, <4>1 DEF SafeInv, Whole
      <3>2. CASE ~Fresh(i)'
        <4>1. Compiled(i)' => i \notin cached'
          BY <1>1, <3>2 DEF Compiled
        <4> QED BY <1>1, <2>3, <4>1 DEF SafeInv, Has, Whole
      <3> QED BY <3>1, <3>2
    <2>5. TornInv(i)'
      <3>1. SUFFICES ASSUME HasTorn(i)', Fresh(i)'
                     PROVE  Whole(Key(i))' /\ Key(i)' \notin dead' /\ i \in cached' /\ pkg' <= i
        BY <1>1, <1>2 DEF TornInv
      <3>2. Fresh(i) /\ Named(i) /\ Key(i)' = Key(i) /\ HasTorn(i)
        BY <1>1, <1>3, <3>1 DEF HasTorn
      <3>3. Whole(Key(i)) /\ Key(i) \notin dead
        BY <2>1, <3>2 DEF TornInv
      <3> QED BY <1>1, <1>2, <2>3, <3>2, <3>3 DEF Whole, Has
    <2>6. DoneInv(i)'
      BY <1>1, <1>2 DEF DoneInv
    <2> QED BY <2>2, <2>4, <2>5, <2>6 DEF PkgInv
  <1> QED BY <1>4, <1>5, <1>6

\* Whatever happens around a run: the lock moves on, entries come, and a clean takes entries the
\* lock does not name.
LEMMA WorldKeeps ==
    ASSUME Steady, StageInv, World
    PROVE  OrderInv' /\ CleanInv' /\ PlaceInv' /\ EntriesInv' /\ ShipsMadeFor' /\ \A i \in Pkgs : PkgInv(i)'
  <1>1. UNCHANGED runVars
    BY DEF World, Edit, OtherRecipe, CleanRemove, CleanDamage, CleanStart, CleanAbort
  <1>2. /\ asked' = asked /\ tree' = tree /\ stage' = stage /\ out' = out /\ pc' = pc /\ pkg' = pkg
        /\ cached' = cached /\ storing' = storing
    BY <1>1 DEF runVars
  <1>3. /\ Pins \subseteq Nat /\ want \in Wants /\ asked \in Wants /\ store \in [Keys -> Entries] /\ dead \subseteq Keys
        /\ OrderInv /\ CleanInv /\ PlaceInv /\ EntriesInv /\ ShipsMadeFor
    BY DEF Steady, UserspaceAssumption, StageInv, TypeOK
  <1>4. PlaceInv' /\ ShipsMadeFor'
    BY <1>2, <1>3 DEF PlaceInv, ShipsMadeFor, Fresh, Key
  <1>5. \A i \in Pkgs : Key(i)' = Key(i) /\ Fresh(i)' = Fresh(i) /\ HasTorn(i)' = HasTorn(i) /\ Compiled(i)' = Compiled(i)
    BY <1>2 DEF Key, Fresh, HasTorn, Compiled
  <1>6. \A i \in Pkgs : PinInv(i)' /\ DoneInv(i)'
    BY <1>2, <1>5 DEF StageInv, PkgInv, PinInv, DoneInv
  <1>7. \A i \in Pkgs : Key(i) \in Keys
    BY <1>3, KeyFacts DEF Key
  \* What every step comes to, entry by entry.
  <1> DEFINE Kept(i) ==
               /\ Named(i)' => Named(i)
               /\ Named(i)' /\ Key(i) \in dead' /\ Whole(Key(i))' => Key(i) \in dead /\ Whole(Key(i))
               /\ Named(i)' /\ Whole(Key(i)) /\ Key(i) \notin dead => Whole(Key(i))' /\ Key(i) \notin dead'
             Goal == OrderInv' /\ CleanInv' /\ EntriesInv' /\ \A i \in Pkgs : Kept(i)
  <1>8. SUFFICES Goal
    <2>1. ASSUME NEW i \in Pkgs PROVE SafeInv(i)' /\ TornInv(i)'
      <3>1. SafeInv(i) /\ TornInv(i)
        BY DEF StageInv, PkgInv
      <3>2. SafeInv(i)'
        BY <1>5, <1>8, <3>1 DEF SafeInv, Whole
      <3>3. TornInv(i)'
        BY <1>2, <1>5, <1>8, <3>1 DEF TornInv, Whole
      <3> QED BY <3>2, <3>3
    <2> QED BY <1>4, <1>6, <1>8, <2>1 DEF PkgInv
  <1>9. ASSUME want' = want PROVE OrderInv' /\ \A i \in Pkgs : Named(i)' = Named(i)
    BY <1>2, <1>3, <1>9 DEF OrderInv, Named
  <1>10. ASSUME NEW w \in Wants, Edit(w)
         PROVE  OrderInv' /\ CleanInv' /\ EntriesInv' /\ store' = store /\ dead' = dead /\ \A i \in Pkgs : Named(i)' => Named(i)
    <2>1. want' = w /\ store' = store /\ dead' = dead
      BY <1>10 DEF Edit
    <2>2. ASSUME NEW i \in Pkgs
          PROVE  asked'.pin[i] <= want'.pin[i] /\ (tree'[i] # None => tree'[i] <= asked'.pin[i]) /\ (Named(i)' => Named(i))
      <3>1. w.pin[i] \in Nat /\ want.pin[i] \in Nat /\ asked.pin[i] \in Nat
        BY <1>3, KeyFacts
      <3>2. want.pin[i] <= w.pin[i] /\ asked.pin[i] <= want.pin[i] /\ (tree[i] # None => tree[i] <= asked.pin[i])
        BY <1>3, <1>10, <3>1 DEF Edit, Steady, OrderInv
      <3> QED BY <1>2, <2>1, <3>1, <3>2 DEF Named
    <2> QED BY <1>2, <1>3, <2>1, <2>2 DEF OrderInv, CleanInv, EntriesInv
  <1>11. ASSUME NEW k \in Keys, OtherRecipe(k)
         PROVE  /\ CleanInv' /\ EntriesInv' /\ dead' = dead /\ k \notin dead
                /\ store'[k].state = "whole" /\ \A j \in Keys : j # k => store'[j] = store[j]
    <2>1. store' = [store EXCEPT ![k] = [state |-> "whole", debs |-> DebsOf(k)]] /\ dead' = dead /\ k \notin dead
      BY <1>3, <1>11 DEF OtherRecipe, CleanInv
    <2>2. /\ store'[k].state = "whole" /\ MadeFor(k, store'[k].debs)
          /\ \A j \in Keys : j # k => store'[j] = store[j]
      BY <1>3, <2>1, DebsMadeFor
    <2> QED BY <1>3, <2>1, <2>2 DEF CleanInv, EntriesInv
  \* A clean only ever takes hold of, damages or removes what it listed.
  <1>12. ASSUME NEW k \in Keys, k \in dead, store'[k].state # "whole", dead' \subseteq dead,
                \A j \in Keys : j # k => store'[j] = store[j],
                store'[k].state = "absent" => k \notin dead',
                store'[k].state # "absent" => store'[k].debs = store[k].debs
         PROVE  CleanInv' /\ EntriesInv'
    BY <1>3, <1>12 DEF CleanInv, EntriesInv
  <1>13. ASSUME NEW k \in Keys, CleanRemove(k) \/ \E s \in {"holed", "headless"} : CleanDamage(k, s)
         PROVE  /\ k \in dead /\ store'[k].state # "whole" /\ dead' \subseteq dead
                /\ \A j \in Keys : j # k => store'[j] = store[j]
                /\ store'[k].state = "absent" => k \notin dead'
                /\ store'[k].state # "absent" => store'[k].debs = store[k].debs
    <2>1. CASE CleanRemove(k)
      BY <1>3, <2>1, EntryFacts DEF CleanRemove
    <2>2. ASSUME NEW s \in {"holed", "headless"}, CleanDamage(k, s)
          PROVE  /\ k \in dead /\ store'[k].state # "whole" /\ dead' \subseteq dead
                 /\ \A j \in Keys : j # k => store'[j] = store[j]
                 /\ store'[k].state = "absent" => k \notin dead'
                 /\ store'[k].state # "absent" => store'[k].debs = store[k].debs
      <3>1. [store[k] EXCEPT !.state = s].state = s /\ [store[k] EXCEPT !.state = s].debs = store[k].debs
        BY <1>3, EntryFacts
      <3>2. store' = [store EXCEPT ![k] = [store[k] EXCEPT !.state = s]] /\ k \in dead /\ dead' = dead
        BY <2>2 DEF CleanDamage
      <3>3. store'[k].state = s /\ store'[k].debs = store[k].debs /\ \A j \in Keys : j # k => store'[j] = store[j]
        BY <1>3, <3>1, <3>2
      <3> QED BY <3>2, <3>3
    <2> QED BY <1>13, <2>1, <2>2
  <1>14. ASSUME CleanStart
         PROVE  CleanInv' /\ EntriesInv' /\ \A i \in Pkgs : Named(i) => (Key(i) \in dead' => ~Whole(Key(i)))
    <2>1. /\ store' = store
          /\ dead' = {k \in Keys : /\ store[k].state # "absent"
                                   /\ ~Has(k) \/ \A i \in Pkgs : k # KeyOf(want, i)}
      BY <1>14 DEF CleanStart
    <2>2. ASSUME NEW i \in Pkgs, Named(i) PROVE Key(i) = KeyOf(want, i)
      BY <1>3, <2>2, OneKey DEF Named, Key
    <2>3. ASSUME NEW i \in Pkgs, Named(i), Key(i) \in dead' PROVE ~Whole(Key(i))
      BY <2>1, <2>2, <2>3 DEF Has, Whole
    <2> QED BY <1>3, <2>1, <2>3 DEF CleanInv, EntriesInv
  <1>15. CASE \E w \in Wants : Edit(w)
    BY <1>5, <1>10, <1>15 DEF Whole
  <1>16. ASSUME NEW k \in Keys, OtherRecipe(k) PROVE Goal
    <2>1. want' = want
      BY <1>16 DEF OtherRecipe
    <2> QED BY <1>5, <1>7, <1>9, <1>11, <1>16, <2>1 DEF Whole
  <1>17. ASSUME NEW k \in Keys, CleanRemove(k) \/ \E s \in {"holed", "headless"} : CleanDamage(k, s) PROVE Goal
    <2>1. want' = want
      BY <1>17 DEF CleanRemove, CleanDamage
    <2>2. CleanInv' /\ EntriesInv'
      BY <1>12, <1>13, <1>17
    <2> QED BY <1>5, <1>7, <1>9, <1>13, <1>17, <2>1, <2>2 DEF Whole
  <1>18. CASE CleanStart
    <2>1. want' = want /\ store' = store
      BY <1>18 DEF CleanStart
    <2> QED BY <1>5, <1>9, <1>14, <1>18, <2>1 DEF Whole
  <1>19. CASE CleanAbort
    <2>1. want' = want /\ store' = store /\ dead' = {}
      BY <1>19 DEF CleanAbort
    <2> QED BY <1>3, <1>5, <1>9, <2>1 DEF Whole, CleanInv, EntriesInv
  <1> QED BY <1>15, <1>16, <1>17, <1>18, <1>19 DEF World

LEMMA StageInductive ==
    ASSUME Steady, StageInv, [Next]_vars PROVE StageInv'
  <1>a. UserspaceAssumption /\ TypeOK /\ OrderInv
    BY DEF Steady, StageInv
  <1>b. TypeOK'
    BY <1>a, StageTypes DEF OrderInv
  <1>1. ASSUME NEW use \in StoreModes, Begin(use) PROVE StageInv'
    BY <1>1, <1>b, BeginKeeps DEF StageInv
  <1>2. CASE Step \/ (pkg \in Pkgs /\ Fails)
    <2>1. Frame
      BY <1>2, <1>a, RunFrame
    <2>2. ASSUME NEW i \in Pkgs PROVE PkgInv(i)'
      <3>1. PkgInv(i)
        BY DEF StageInv
      <3>2. CASE i = pkg
        BY <1>2, <2>1, <3>2, UnderWay
      <3>3. CASE i # pkg
        BY <1>a, <2>1, <3>1, <3>3, Others
      <3> QED BY <3>2, <3>3
    <2> QED BY <1>2, <1>b, <2>1, <2>2, RunPlaces DEF StageInv
  <1>3. CASE World
    BY <1>3, <1>b, WorldKeeps DEF StageInv
  <1>4. CASE UNCHANGED vars
    BY <1>4 DEF vars, StageInv, TypeOK, OrderInv, CleanInv, PlaceInv, EntriesInv, ShipsMadeFor, PkgInv, PinInv,
                SafeInv, TornInv, DoneInv, Compiled, Fresh, HasTorn, Named, Whole, Key, Has
  <1> QED BY <1>1, <1>2, <1>3, <1>4 DEF Next

LEMMA StageStarts == ASSUME Steady, Init PROVE StageInv
  <1>1. /\ N \in Nat /\ Pins \subseteq Nat /\ None \notin Pins /\ 1 \in 1..(N + 1) /\ want \in Wants /\ NoEntry \in Entries
    BY EntryFacts DEF Steady, UserspaceAssumption, Init
  <1>2. TypeOK
    BY <1>1 DEF Init, TypeOK
  <1>3. OrderInv
    <2>1. ASSUME NEW i \in Pkgs PROVE asked.pin[i] <= want.pin[i] /\ tree[i] = None
      <3>1. want.pin[i] \in Nat
        BY <1>1, KeyFacts
      <3> QED BY <3>1 DEF Init
    <2> QED BY <2>1 DEF Init, OrderInv, Working
  <1>4. CleanInv /\ PlaceInv /\ ShipsMadeFor
    BY DEF Init, CleanInv, PlaceInv, ShipsMadeFor
  <1>5. EntriesInv
    BY EntryFacts DEF Init, EntriesInv
  <1>6. ASSUME NEW i \in Pkgs PROVE PkgInv(i)
    <2>1. stage[i] = {} /\ dead = {} /\ pc \notin Active
      BY DEF Init, Active, Working
    <2> QED BY <2>1 DEF PkgInv, PinInv, SafeInv, TornInv, DoneInv, HasTorn
  <1> QED BY <1>2, <1>3, <1>4, <1>5, <1>6 DEF StageInv

\* With one sandbox identity, pins that only move forward and runs that use the store, an entry of
\* the store serves the .debs its signature names, and a userspace stage that succeeds hands the image
\* those of the pins it read (build_userspace), whatever failed, was killed or cleaned: all of
\* them, of no other pin, none torn by a restore; one that a compile left cut short may be among
\* them, since the resume check asks for names only.
THEOREM UserspaceHonest ==
    ASSUME Steady PROVE Spec => []UserspaceShipsWhatItAsked
  <1>1. Init => StageInv
    BY StageStarts
  <1>2. StageInv /\ [Next]_vars => StageInv'
    BY StageInductive
  <1>3. StageInv => UserspaceShipsWhatItAsked
    BY DEF StageInv, EntriesInv, ServesMadeFor, UserspaceShipsWhatItAsked
  <1> QED BY <1>1, <1>2, <1>3, PTL DEF Spec
-----------------------------------------------------------------------------
\* With no clean beside it, what the store had at the start of a run it still has.
CalmInv ==
    /\ TypeOK /\ dead = {}
    /\ pc \in Working => pkg \in Pkgs
    /\ \A k \in Keys : store[k].state \in {"absent", "whole"}
    /\ pc \in Active /\ ~rooted => cached = Pkgs
    /\ pc \in Active => \A i \in cached : Whole(Key(i))
    /\ pc = "restore" => pkg \in cached
    /\ pc \in {"build", "refresh", "compile", "put"} => rooted
    /\ NeverPanics

LEMMA CalmInductive ==
    ASSUME UserspaceAssumption, "clean" \notin Faults, CalmInv, [Next]_vars PROVE CalmInv'
  <1>a. /\ TypeOK /\ dead = {} /\ NeverPanics /\ (pc \in Working => pkg \in Pkgs) /\ N \in Nat /\ Pkgs = 1..N
        /\ store \in [Keys -> Entries] /\ pkg \in 1..(N + 1) /\ cached \subseteq Pkgs
        /\ \A i \in Pkgs : Key(i) \in Keys
    BY KeyFacts DEF CalmInv, TypeOK, UserspaceAssumption, Pkgs, Key
  <1>b. TypeOK'
    BY <1>a, StageTypes
  <1> DEFINE Same == asked' = asked /\ cached' = cached /\ rooted' = rooted
             Grows == \A k \in Keys : \/ store'[k] = store[k]
                                      \/ store'[k].state = "whole"
             Where == /\ pc' \in Working => pkg' \in Pkgs
                      /\ pc' \in Active => pc \in Active
                      /\ pc' = "restore" => pkg' \in cached
                      /\ pc' \in {"build", "refresh", "compile", "put"} => rooted
                      /\ pc' # "panicked"
  <1>1. ASSUME Same, Grows, Where, dead' = {} PROVE CalmInv'
    <2>1. \A k \in Keys : store'[k].state \in {"absent", "whole"} /\ (Whole(k) => store'[k].state = "whole")
      BY <1>1 DEF CalmInv, Whole
    <2>2. \A i \in Pkgs : Key(i)' = Key(i)
      BY <1>1 DEF Key
    <2>3. pc' \in Active => \A i \in cached' : Whole(Key(i))'
      BY <1>1, <1>a, <2>1, <2>2 DEF CalmInv, Whole
    <2>4. pc' \in Active /\ ~rooted' => cached' = Pkgs
      BY <1>1 DEF CalmInv
    <2> QED BY <1>1, <1>b, <2>1, <2>3, <2>4 DEF CalmInv, NeverPanics
  <1>2. ASSUME NEW use \in StoreModes, Begin(use) PROVE CalmInv'
    <2>1. /\ asked' = want /\ pc' = "next" /\ store' = store /\ dead' = dead
          /\ cached' = {i \in Pkgs : use /\ Has(KeyOf(want, i))} /\ rooted' = (cached' # Pkgs)
      BY <1>2 DEF Begin
    <2>2. ASSUME NEW i \in cached' PROVE Whole(Key(i))'
      <3>1. i \in Pkgs /\ Has(KeyOf(want, i)) /\ KeyOf(want, i) \in Keys
        BY <2>1, KeyFacts, <1>a DEF TypeOK
      <3> QED BY <2>1, <3>1 DEF Has, Whole, Key, CalmInv
    <2>3. (\A k \in Keys : store'[k].state \in {"absent", "whole"}) /\ dead' = {} /\ pc' \notin Working
      BY <1>a, <2>1 DEF CalmInv, Working
    <2> QED BY <1>b, <2>1, <2>2, <2>3 DEF CalmInv, NeverPanics
  <1>3. CASE TakeUp
    <2>1. pc' \in Working => pkg' \in Pkgs
      BY <1>3, <1>a DEF TakeUp, Working
    <2>2. pc' = "build" => rooted
      BY <1>3, <1>a, <2>1 DEF TakeUp, Working, Active, CalmInv
    <2> QED BY <1>1, <1>3, <1>a, <2>1, <2>2 DEF TakeUp, Active, Working
  <1>4. CASE Restore
    <2>1. pc = "restore" /\ pkg \in cached /\ store[Current].state = "whole"
      BY <1>4 DEF Restore, CalmInv, Whole, Key, Current, Active, Working
    <2>2. pc' = "next" /\ store' = store /\ dead' = dead /\ Same
      BY <1>4, <2>1 DEF Restore
    <2> QED BY <1>1, <1>a, <2>1, <2>2 DEF Active, Working
  <1>5. CASE BuildOne
    <2>1. pc = "build" /\ rooted
      BY <1>5 DEF BuildOne, CalmInv
    <2> QED BY <1>1, <1>5, <1>a, <2>1 DEF BuildOne, Active, Working
  <1>6. CASE RemoveTree \/ Refresh \/ Compile
    <2>1. /\ pc \in {"refresh", "compile"} /\ pc' \in {"refresh", "compile", "put"} /\ pkg' = pkg
          /\ Same /\ store' = store /\ dead' = dead
      BY <1>6 DEF RemoveTree, Refresh, Compile
    <2>2. rooted
      BY <2>1 DEF CalmInv
    <2> QED BY <1>1, <1>a, <2>1, <2>2 DEF Active, Working
  <1>7. CASE StorePackage
    <2>1. pc = "put" /\ Same /\ dead' = dead /\ pc' \in {"failed", "next"}
      BY <1>7 DEF StorePackage
    <2>2. pkg \in Pkgs /\ Current \in Keys
      BY <1>a, <2>1 DEF Working, Current, Key
    <2>3. Grows
      BY <1>7, <1>a, <2>2 DEF StorePackage
    <2> QED BY <1>1, <1>a, <2>1, <2>3 DEF Active, Working
  <1>8. CASE Collect \/ EndRun \/ Kill \/ RefreshFails
    <2>1. Same /\ store' = store /\ dead' = dead /\ pc' \in {"done", "idle", "failed"}
      BY <1>8 DEF Collect, EndRun, Kill, RefreshFails
    <2> QED BY <1>1, <1>a, <2>1 DEF Active, Working
  <1>9. ASSUME NEW new, NEW cut, NEW to \in {"failed", "idle"},
               CompileCut(new, cut, to) \/ RestoreCut(new) \/ KillRestoring(new, cut)
        PROVE  CalmInv'
    <2>1. Same /\ store' = store /\ dead' = dead /\ pc' \in {"idle", "failed"}
      BY <1>9 DEF CompileCut, RestoreCut, KillRestoring
    <2> QED BY <1>1, <1>a, <2>1 DEF Active, Working
  <1>10. ASSUME NEW w \in Wants, Edit(w) PROVE CalmInv'
    <2>1. Same /\ store' = store /\ dead' = dead /\ pc' = pc /\ pkg' = pkg
      BY <1>10 DEF Edit, runVars
    <2> QED BY <1>1, <1>a, <2>1 DEF CalmInv, NeverPanics
  <1>11. ASSUME NEW k \in Keys, OtherRecipe(k) PROVE CalmInv'
    <2>1. Same /\ dead' = dead /\ pc' = pc /\ pkg' = pkg /\ Grows
      BY <1>11, <1>a DEF OtherRecipe, runVars
    <2> QED BY <1>1, <1>a, <2>1 DEF CalmInv, NeverPanics
  <1>12. ASSUME NEW k \in Keys, CleanRemove(k) \/ \E s \in {"holed", "headless"} : CleanDamage(k, s) PROVE CalmInv'
    BY <1>12, <1>a DEF CleanRemove, CleanDamage
  <1>13. CASE CleanStart \/ CleanAbort
    BY <1>13, <1>a DEF CleanStart, CleanAbort
  <1>14. CASE UNCHANGED vars
    <2>1. Same /\ store' = store /\ dead' = dead /\ pc' = pc /\ pkg' = pkg
      BY <1>14 DEF vars
    <2> QED BY <1>1, <1>a, <2>1 DEF CalmInv, NeverPanics
  <1> QED
    BY <1>2, <1>3, <1>4, <1>5, <1>6, <1>7, <1>8, <1>9, <1>10, <1>11, <1>12, <1>13, <1>14 DEF Next, Step, Fails, World

\* "a cache miss implies the branch that acquires the build root" (build_userspace): with no clean
\* beside the run it holds of every behaviour, for any pins, sandboxes and use of the store.
THEOREM UserspaceNeverPanics ==
    ASSUME UserspaceAssumption, "clean" \notin Faults PROVE Spec => []NeverPanics
  <1>1. Init => CalmInv
    <2> SUFFICES ASSUME Init PROVE CalmInv
      OBVIOUS
    <2>1. N \in Nat /\ 1 \in 1..(N + 1) /\ want \in Wants /\ NoEntry \in Entries /\ NoEntry.state = "absent"
      BY EntryFacts DEF UserspaceAssumption, Init
    <2>2. TypeOK
      BY <2>1 DEF Init, TypeOK
    <2> QED BY <2>1, <2>2 DEF Init, CalmInv, Active, Working, NeverPanics
  <1>2. CalmInv /\ [Next]_vars => CalmInv'
    BY CalmInductive
  <1>3. CalmInv => NeverPanics
    BY DEF CalmInv
  <1> QED BY <1>1, <1>2, <1>3, PTL DEF Spec
-----------------------------------------------------------------------------
\* Pins may also go back where no run fails, none is killed and no clean runs.
Smooth ==
    /\ UserspaceAssumption /\ Faults = {} /\ StoreModes = {TRUE}
    /\ \A e, f \in Envs : e = f

Compiling == {"compile", "put"}

\* What a tree was fetched for is in the store, unless it is being compiled.
StoredInv ==
    \A k \in Keys : k.pin = tree[k.pkg] /\ ~(pkg = k.pkg /\ pc \in Compiling) => Whole(k)

\* So a package the store did not have at the start has no tree to reuse.
AheadInv ==
    pc \in Active =>
        \A i \in Pkgs : i \notin cached /\ (pkg < i \/ (pkg = i /\ pc \in {"next", "build", "refresh"})) => ~Fresh(i)

PartInv ==
    /\ pc \in {"build", "refresh"} \cup Compiling => pkg \notin cached
    /\ pc \in {"restore", "compile"} => stage[pkg] = {}
    /\ pc = "put" => stage[pkg] = DebsOf(Current)
    /\ pc \in Compiling => Fresh(pkg)
    /\ pc = "collect" => pkg = N + 1
    /\ storing

DoneExactly(i) == pc \in Active /\ i < pkg => stage[i] = DebsOf(Key(i))

SmoothInv ==
    /\ CalmInv /\ StoredInv /\ AheadInv /\ PartInv
    /\ \A i \in Pkgs : DoneExactly(i)
    /\ StoreHonest /\ ShipsWhatItAsked

LEMMA SmoothFacts ==
    ASSUME Smooth, TypeOK
    PROVE  /\ N \in Nat /\ Pkgs = 1..N /\ pkg \in 1..(N + 1) /\ None \notin Pins
           /\ \A i \in Pkgs : /\ Key(i) \in Keys /\ Key(i).pkg = i /\ Key(i).pin = asked.pin[i]
                              /\ i \in DOMAIN stage /\ i \in DOMAIN tree
           /\ \A i \in Pkgs, k \in Keys : k.pkg = i /\ k.pin = asked.pin[i] => k = Key(i)
           /\ \A i \in Pkgs, k \in Keys : k.pkg = i /\ k.pin = want.pin[i] => k = KeyOf(want, i)
           /\ \A k \in Keys : k.pkg \in Pkgs /\ k.pin \in Pins
           /\ store \in [Keys -> Entries]
  <1>1. \A k \in Keys : k = [pkg |-> k.pkg, pin |-> k.pin, env |-> k.env] /\ k.env \in Envs /\ k.pkg \in Pkgs /\ k.pin \in Pins
    BY DEF Keys
  <1>2. want.env \in Envs /\ asked.env \in Envs
    BY DEF TypeOK, Wants
  <1>3. \A k \in Keys : k.env = want.env /\ k.env = asked.env
    BY <1>1, <1>2 DEF Smooth
  <1>4. \A i \in Pkgs, k \in Keys : k.pkg = i /\ k.pin = asked.pin[i] => k = Key(i)
    BY <1>1, <1>3 DEF Key, KeyOf
  <1>5. \A i \in Pkgs, k \in Keys : k.pkg = i /\ k.pin = want.pin[i] => k = KeyOf(want, i)
    BY <1>1, <1>3 DEF KeyOf
  <1>6. \A i \in Pkgs : Key(i) \in Keys /\ Key(i).pkg = i /\ Key(i).pin = asked.pin[i]
    BY KeyFacts DEF TypeOK, Key
  <1> QED BY <1>1, <1>4, <1>5, <1>6 DEF Smooth, UserspaceAssumption, TypeOK, Pkgs

LEMMA SmoothRun ==
    ASSUME Smooth, SmoothInv, Step
    PROVE  StoredInv' /\ AheadInv' /\ PartInv' /\ (\A i \in Pkgs : DoneExactly(i)') /\ StoreHonest' /\ ShipsWhatItAsked'
  <1>t. /\ TypeOK /\ StoredInv /\ AheadInv /\ PartInv /\ (\A i \in Pkgs : DoneExactly(i)) /\ StoreHonest /\ ShipsWhatItAsked
        /\ (pc \in Working => pkg \in Pkgs) /\ (\A k \in Keys : store[k].state \in {"absent", "whole"})
        /\ (pc \in Active => \A i \in cached : Whole(Key(i))) /\ (pc = "restore" => pkg \in cached)
        /\ (pc \in {"build", "refresh", "compile", "put"} => rooted)
    BY DEF SmoothInv, CalmInv
  <1>f. /\ N \in Nat /\ Pkgs = 1..N /\ pkg \in 1..(N + 1) /\ None \notin Pins
        /\ \A i \in Pkgs : /\ Key(i) \in Keys /\ Key(i).pkg = i /\ Key(i).pin = asked.pin[i]
                           /\ i \in DOMAIN stage /\ i \in DOMAIN tree
        /\ \A i \in Pkgs, k \in Keys : k.pkg = i /\ k.pin = asked.pin[i] => k = Key(i)
        /\ \A k \in Keys : k.pkg \in Pkgs /\ k.pin \in Pins
        /\ store \in [Keys -> Entries]
    BY <1>t, SmoothFacts
  <1>k. Current = Key(pkg)
    BY DEF Current, Key
  <1>1. CASE TakeUp
    <2>1. /\ pc = "next" /\ tree' = tree /\ store' = store /\ pkg' = pkg /\ asked' = asked /\ cached' = cached
          /\ storing' = storing /\ pc \in Active /\ \A i \in Pkgs : Key(i)' = Key(i)
      BY <1>1 DEF TakeUp, Active, Key
    <2>2. StoredInv' /\ StoreHonest'
      BY <1>1, <1>t, <2>1 DEF TakeUp, StoredInv, StoreHonest, Whole, Compiling
    <2>3. AheadInv'
      BY <1>1, <1>t, <1>f, <2>1 DEF TakeUp, AheadInv, Fresh
    <2>4. CASE pkg > N
      <3>1. pc' = "collect" /\ stage' = stage /\ pkg = N + 1
        BY <1>1, <1>f, <2>1, <2>4 DEF TakeUp
      <3> QED BY <1>t, <2>1, <2>2, <2>3, <3>1 DEF PartInv, DoneExactly, ShipsWhatItAsked, Compiling
    <2>5. CASE ~(pkg > N) /\ pkg \in cached
      <3>1. pc' = "restore" /\ stage' = [stage EXCEPT ![pkg] = {}] /\ pkg \in Pkgs
        BY <1>1, <1>f, <2>1, <2>5 DEF TakeUp
      <3>2. stage'[pkg] = {} /\ \A i \in Pkgs : i # pkg => stage'[i] = stage[i]
        BY <1>f, <3>1
      <3>3. \A i \in Pkgs : i < pkg => i # pkg
        BY <1>f
      <3>4. \A i \in Pkgs : DoneExactly(i)'
        BY <1>t, <2>1, <3>2, <3>3 DEF DoneExactly
      <3> QED BY <1>t, <2>1, <2>2, <2>3, <3>1, <3>2, <3>4 DEF PartInv, ShipsWhatItAsked, Compiling
    <2>6. CASE ~(pkg > N) /\ pkg \notin cached
      <3>1. pc' = "build" /\ stage' = stage
        BY <1>1, <2>1, <2>6 DEF TakeUp
      <3> QED BY <1>t, <2>1, <2>2, <2>3, <2>6, <3>1 DEF PartInv, DoneExactly, ShipsWhatItAsked, Compiling
    <2> QED BY <2>4, <2>5, <2>6
  <1>2. CASE Restore
    <2>1. /\ pc = "restore" /\ pkg \in Pkgs /\ pc \in Active /\ stage[pkg] = {} /\ pkg \in cached
      BY <1>2, <1>t DEF Restore, Working, Active, PartInv
    <2>2. Whole(Key(pkg)) /\ store[Key(pkg)].debs = DebsOf(Key(pkg))
      BY <1>t, <1>f, <2>1 DEF StoreHonest, Whole
    <2>3. /\ stage' = [stage EXCEPT ![pkg] = DebsOf(Key(pkg))] /\ pkg' = pkg + 1 /\ pc' = "next"
          /\ tree' = tree /\ store' = store /\ asked' = asked /\ cached' = cached /\ storing' = storing
      BY <1>2, <1>k, <1>f, <2>1, <2>2 DEF Restore, Whole
    <2>4. \A i \in Pkgs : Key(i)' = Key(i) /\ stage'[i] = IF i = pkg THEN DebsOf(Key(pkg)) ELSE stage[i]
      BY <1>f, <2>1, <2>3 DEF Key
    <2>5. \A i \in Pkgs : i < pkg' => i = pkg \/ i < pkg
      BY <1>f, <2>3
    <2>6. \A i \in Pkgs : DoneExactly(i)'
      BY <1>t, <2>1, <2>3, <2>4, <2>5 DEF DoneExactly
    <2>7. AheadInv'
      <3>1. \A i \in Pkgs : pkg' <= i => pkg < i
        BY <1>f, <2>3
      <3> QED BY <1>t, <1>f, <2>1, <2>3, <3>1 DEF AheadInv, Fresh
    <2> QED BY <1>t, <2>1, <2>3, <2>6, <2>7 DEF StoredInv, PartInv, StoreHonest, ShipsWhatItAsked, Whole, Compiling
  <1>3. CASE BuildOne
    <2>1. /\ pc = "build" /\ pkg \in Pkgs /\ pkg \notin cached /\ pc \in Active /\ ~Fresh(pkg)
      BY <1>3, <1>t DEF BuildOne, Working, Active, PartInv, AheadInv
    <2>2. /\ pc' = "refresh" /\ stage' = stage /\ tree' = tree /\ store' = store /\ pkg' = pkg /\ asked' = asked
          /\ cached' = cached /\ storing' = storing
      BY <1>3, <1>t, <2>1 DEF BuildOne, Fresh
    <2>3. AheadInv'
      BY <1>t, <2>1, <2>2 DEF AheadInv, Fresh
    <2> QED BY <1>t, <2>1, <2>2, <2>3 DEF StoredInv, PartInv, DoneExactly, Key, StoreHonest, ShipsWhatItAsked, Whole, Compiling
  <1>4. CASE RemoveTree
    <2>1. /\ pc = "refresh" /\ pkg \in Pkgs /\ pkg \notin cached /\ pc \in Active
      BY <1>4, <1>t DEF RemoveTree, Working, Active, PartInv
    <2>2. /\ pc' = pc /\ stage' = stage /\ store' = store /\ pkg' = pkg /\ asked' = asked
          /\ cached' = cached /\ storing' = storing /\ tree' = [tree EXCEPT ![pkg] = None]
      BY <1>4 DEF RemoveTree
    <2>3. \A i \in Pkgs : tree'[i] = IF i = pkg THEN None ELSE tree[i]
      BY <1>f, <2>1, <2>2
    <2>4. asked.pin[pkg] \in Pins
      BY <1>f, <2>1
    <2>5. AheadInv'
      BY <1>t, <1>f, <2>1, <2>2, <2>3, <2>4 DEF AheadInv, Fresh
    <2>6. StoredInv'
      BY <1>t, <1>f, <2>1, <2>2, <2>3 DEF StoredInv, Whole, Compiling
    <2> QED BY <1>t, <2>1, <2>2, <2>5, <2>6 DEF PartInv, DoneExactly, Key, StoreHonest, ShipsWhatItAsked, Compiling
  <1>5. CASE Refresh
    <2>1. /\ pc = "refresh" /\ pkg \in Pkgs /\ pkg \notin cached /\ pc \in Active
      BY <1>5, <1>t DEF Refresh, Working, Active, PartInv
    <2>2. /\ pc' = "compile" /\ stage' = [stage EXCEPT ![pkg] = {}] /\ store' = store /\ pkg' = pkg /\ asked' = asked
          /\ cached' = cached /\ storing' = storing /\ tree' = [tree EXCEPT ![pkg] = asked.pin[pkg]]
      BY <1>5 DEF Refresh
    <2>3. \A i \in Pkgs : /\ tree'[i] = IF i = pkg THEN asked.pin[pkg] ELSE tree[i]
                          /\ stage'[i] = IF i = pkg THEN {} ELSE stage[i]
                          /\ (i < pkg => i # pkg) /\ (pkg < i => i # pkg)
      BY <1>f, <2>1, <2>2
    <2>4. AheadInv'
      BY <1>t, <1>f, <2>1, <2>2, <2>3 DEF AheadInv, Fresh
    <2>5. StoredInv'
      BY <1>t, <1>f, <2>1, <2>2, <2>3 DEF StoredInv, Whole, Compiling
    <2>6. \A i \in Pkgs : DoneExactly(i)'
      BY <1>t, <2>1, <2>2, <2>3 DEF DoneExactly, Key
    <2>7. PartInv'
      BY <1>t, <2>1, <2>2, <2>3 DEF PartInv, Compiling, Fresh
    <2> QED BY <1>t, <2>2, <2>4, <2>5, <2>6, <2>7 DEF StoreHonest, ShipsWhatItAsked
  <1>6. CASE Compile
    <2>1. /\ pc = "compile" /\ pkg \in Pkgs /\ pkg \notin cached /\ pc \in Active /\ stage[pkg] = {} /\ Fresh(pkg)
      BY <1>6, <1>t DEF Compile, Working, Active, PartInv, Compiling
    <2>2. Written(pkg, DebsOf(Current)) = DebsOf(Current)
      BY <2>1 DEF Written
    <2>3. /\ pc' = "put" /\ stage' = [stage EXCEPT ![pkg] = DebsOf(Current)] /\ store' = store /\ pkg' = pkg
          /\ asked' = asked /\ cached' = cached /\ storing' = storing /\ tree' = tree
      BY <1>6, <2>2 DEF Compile
    <2>4. \A i \in Pkgs : stage'[i] = (IF i = pkg THEN DebsOf(Current) ELSE stage[i]) /\ (i < pkg => i # pkg)
      BY <1>f, <2>1, <2>3
    <2>5. Current' = Current
      BY <2>3 DEF Current
    <2>6. \A i \in Pkgs : DoneExactly(i)'
      BY <1>t, <2>1, <2>3, <2>4 DEF DoneExactly, Key
    <2>7. PartInv'
      BY <1>t, <2>1, <2>3, <2>4, <2>5 DEF PartInv, Compiling, Fresh
    <2>8. AheadInv'
      BY <1>t, <1>f, <2>1, <2>3 DEF AheadInv, Fresh
    <2>9. StoredInv'
      BY <1>t, <2>1, <2>3 DEF StoredInv, Whole, Compiling
    <2> QED BY <1>t, <2>3, <2>6, <2>7, <2>8, <2>9 DEF StoreHonest, ShipsWhatItAsked
  <1>7. CASE StorePackage
    <2>1. /\ pc = "put" /\ pkg \in Pkgs /\ pkg \notin cached /\ pc \in Active /\ stage[pkg] = DebsOf(Key(pkg))
          /\ Fresh(pkg) /\ storing /\ Key(pkg) \in Keys /\ store[Key(pkg)].state \in {"absent", "whole"}
      BY <1>7, <1>t, <1>f, <1>k DEF StorePackage, Working, Active, PartInv, Compiling
    <2>2. /\ pc' = "next" /\ pkg' = pkg + 1 /\ stage' = stage /\ tree' = tree /\ asked' = asked /\ cached' = cached
          /\ storing' = storing
          /\ store' = IF ~Has(Key(pkg)) THEN [store EXCEPT ![Key(pkg)] = [state |-> "whole", debs |-> DebsOf(Key(pkg))]]
                                        ELSE store
      BY <1>7, <1>k, <2>1 DEF StorePackage
    <2>3. /\ store'[Key(pkg)].state = "whole" /\ store'[Key(pkg)].debs = DebsOf(Key(pkg))
          /\ \A k \in Keys : k # Key(pkg) => store'[k] = store[k]
      BY <1>t, <1>f, <2>1, <2>2 DEF Has, StoreHonest
    <2>4. StoreHonest'
      BY <1>t, <2>3 DEF StoreHonest
    <2>5. StoredInv'
      <3>1. SUFFICES ASSUME NEW k \in Keys, k.pin = tree[k.pkg] PROVE store'[k].state = "whole"
        BY <2>2 DEF StoredInv, Whole
      <3>2. CASE k.pkg = pkg
        BY <1>f, <2>1, <2>3, <3>1, <3>2 DEF Fresh
      <3>3. CASE k.pkg # pkg
        BY <1>t, <2>3, <3>1, <3>3 DEF StoredInv, Whole
      <3> QED BY <3>2, <3>3
    <2>6. \A i \in Pkgs : (i < pkg' => i = pkg \/ i < pkg) /\ (pkg' <= i => pkg < i) /\ Key(i)' = Key(i)
      BY <1>f, <2>2 DEF Key
    <2>7. \A i \in Pkgs : DoneExactly(i)'
      BY <1>t, <2>1, <2>2, <2>6 DEF DoneExactly
    <2>8. AheadInv'
      BY <1>t, <1>f, <2>1, <2>2, <2>6 DEF AheadInv, Fresh
    <2> QED BY <1>t, <2>2, <2>4, <2>5, <2>7, <2>8 DEF PartInv, ShipsWhatItAsked, Compiling
  <1>8. CASE Collect
    <2>1. pc = "collect" /\ pkg = N + 1 /\ pc \in Active
      BY <1>8, <1>t DEF Collect, PartInv, Active
    <2>2. /\ pc' = "done" /\ out' = UNION {stage[i] : i \in Pkgs} /\ stage' = stage /\ tree' = tree /\ store' = store
          /\ pkg' = pkg /\ asked' = asked /\ cached' = cached /\ storing' = storing
      BY <1>8 DEF Collect
    <2>3. \A i \in Pkgs : stage[i] = DebsOf(KeyOf(asked, i))
      BY <1>t, <1>f, <2>1 DEF DoneExactly, Key
    <2>4. ShipsWhatItAsked'
      BY <2>2, <2>3 DEF ShipsWhatItAsked
    <2> QED BY <1>t, <2>1, <2>2, <2>4 DEF StoredInv, AheadInv, PartInv, DoneExactly, StoreHonest, Whole, Compiling, Active, Working
  <1>9. CASE EndRun
    <2>1. /\ pc \in {"done", "failed", "panicked"} /\ pc' = "idle" /\ stage' = stage /\ tree' = tree /\ store' = store
          /\ pkg' = pkg /\ storing' = storing
      BY <1>9 DEF EndRun
    <2> QED BY <1>t, <2>1 DEF StoredInv, AheadInv, PartInv, DoneExactly, StoreHonest, ShipsWhatItAsked, Whole, Compiling, Active, Working
  <1> QED BY <1>1, <1>2, <1>3, <1>4, <1>5, <1>6, <1>7, <1>8, <1>9 DEF Step

LEMMA SmoothInductive == ASSUME Smooth, SmoothInv, [Next]_vars PROVE SmoothInv'
  <1>c. CalmInv'
    BY CalmInductive DEF Smooth, SmoothInv
  <1>t. /\ TypeOK /\ dead = {} /\ StoredInv /\ AheadInv /\ PartInv /\ (\A i \in Pkgs : DoneExactly(i)) /\ StoreHonest
        /\ ShipsWhatItAsked /\ \A k \in Keys : store[k].state \in {"absent", "whole"}
    BY DEF SmoothInv, CalmInv
  <1>f. /\ Pkgs = 1..N /\ N \in Nat /\ \A k \in Keys : k.pkg \in Pkgs
        /\ \A i \in Pkgs, k \in Keys : k.pkg = i /\ k.pin = want.pin[i] => k = KeyOf(want, i)
        /\ \A i \in Pkgs : KeyOf(want, i) \in Keys /\ KeyOf(want, i).pkg = i /\ KeyOf(want, i).pin = want.pin[i]
        /\ store \in [Keys -> Entries]
    BY <1>t, SmoothFacts, KeyFacts DEF TypeOK
  <1>1. CASE Step
    BY <1>c, <1>1, SmoothRun DEF SmoothInv
  <1>2. ASSUME NEW use \in StoreModes, Begin(use) PROVE SmoothInv'
    <2>1. /\ pc = "idle" /\ asked' = want /\ storing' /\ cached' = {i \in Pkgs : Has(KeyOf(want, i))} /\ pkg' = 1 /\ pc' = "next"
          /\ store' = store /\ tree' = tree /\ stage' = stage
      BY <1>2 DEF Begin, Smooth
    <2>2. AheadInv'
      <3>1. SUFFICES ASSUME NEW i \in Pkgs, i \notin cached', tree[i] = want.pin[i] PROVE FALSE
        BY <2>1 DEF AheadInv, Fresh
      <3>2. Whole(KeyOf(want, i))
        BY <1>t, <1>f, <2>1, <3>1 DEF StoredInv, Compiling
      <3> QED BY <2>1, <3>1, <3>2 DEF Whole, Has
    <2>3. \A i \in Pkgs : DoneExactly(i)'
      BY <1>f, <2>1 DEF DoneExactly
    <2> QED BY <1>c, <1>t, <2>1, <2>2, <2>3 DEF SmoothInv, StoredInv, PartInv, StoreHonest, ShipsWhatItAsked, Whole, Compiling
  <1>3. CASE pkg \in Pkgs /\ Fails
    BY <1>3, <1>t DEF Smooth, Fails, RefreshFails, CompileCut, RestoreCut, Kill, KillRestoring
  <1>4. ASSUME NEW w \in Wants, Edit(w) PROVE SmoothInv'
    <2>1. UNCHANGED <<asked, store, tree, stage, out, pc, pkg, cached, rooted, storing>>
      BY <1>4 DEF Edit, runVars
    <2> QED BY <1>c, <1>t, <2>1 DEF SmoothInv, StoredInv, AheadInv, PartInv, DoneExactly, StoreHonest, ShipsWhatItAsked, Whole, Fresh, Key, Current
  <1>5. ASSUME NEW k \in Keys, OtherRecipe(k) PROVE SmoothInv'
    <2>1. /\ UNCHANGED <<asked, tree, stage, out, pc, pkg, cached, rooted, storing>>
          /\ store' = [store EXCEPT ![k] = [state |-> "whole", debs |-> DebsOf(k)]]
      BY <1>5 DEF OtherRecipe, runVars
    <2>2. store'[k].state = "whole" /\ store'[k].debs = DebsOf(k) /\ \A j \in Keys : j # k => store'[j] = store[j]
      BY <1>f, <2>1
    <2>3. StoredInv' /\ StoreHonest'
      BY <1>t, <2>1, <2>2 DEF StoredInv, StoreHonest, Whole
    <2> QED BY <1>c, <1>t, <2>1, <2>3 DEF SmoothInv, AheadInv, PartInv, DoneExactly, ShipsWhatItAsked, Fresh, Key, Current
  <1>6. ~CleanStart /\ ~CleanAbort /\ \A k \in Keys : ~CleanRemove(k) /\ \A s : ~CleanDamage(k, s)
    BY <1>t DEF Smooth, CleanStart, CleanAbort, CleanRemove, CleanDamage
  <1>7. CASE UNCHANGED vars
    BY <1>c, <1>t, <1>7 DEF vars, SmoothInv, StoredInv, AheadInv, PartInv, DoneExactly, StoreHonest, ShipsWhatItAsked, Whole, Fresh, Key, Current
  <1> QED BY <1>1, <1>2, <1>3, <1>4, <1>5, <1>6, <1>7 DEF Next, World

\* Where nothing fails, exactly the .debs asked for are handed over and stored, and pins may go
\* back to earlier ones: what a tree was compiled for is in the store, and is restored from there.
THEOREM UserspaceHonestWithReverts ==
    ASSUME Smooth PROVE Spec => []UserspaceShipsExactly
  <1>1. Init => SmoothInv
    <2> SUFFICES ASSUME Init PROVE SmoothInv
      OBVIOUS
    <2>1. N \in Nat /\ 1 \in 1..(N + 1) /\ want \in Wants /\ NoEntry \in Entries /\ NoEntry.state = "absent" /\ None \notin Pins
      BY EntryFacts DEF Smooth, UserspaceAssumption, Init
    <2>2. TypeOK
      BY <2>1 DEF Init, TypeOK
    <2>3. \A k \in Keys : k.pkg \in Pkgs /\ k.pin \in Pins
      BY DEF Keys
    <2>4. StoredInv
      BY <2>1, <2>3 DEF Init, StoredInv
    <2> QED BY <2>1, <2>2, <2>4 DEF Init, SmoothInv, CalmInv, AheadInv, PartInv, DoneExactly, StoreHonest, ShipsWhatItAsked,
               Active, Working, Compiling, NeverPanics
  <1>2. SmoothInv /\ [Next]_vars => SmoothInv'
    BY SmoothInductive
  <1>3. SmoothInv => UserspaceShipsExactly
    BY DEF SmoothInv, UserspaceShipsExactly
  <1> QED BY <1>1, <1>2, <1>3, PTL DEF Spec
=============================================================================
