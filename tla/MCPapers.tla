------------------------------ MODULE MCPapers ------------------------------
(***************************************************************************)
(* What decides a build point and what is written down of it: the config   *)
(* tree it is read from, its resolution, the layout of its image; its      *)
(* lock, the list of its image's files, and what a build records of        *)
(* itself.  The parts share no state, so a behaviour shows one of them     *)
(* (`show`) and the rest stand still.                                      *)
(***************************************************************************)
EXTENDS MCLocks, MCRecords, MCGeometry, MCResolution, MCConfig

VARIABLE show

papersVars == <<show, lockVars, fileVars, recordVars, geometryVars, resolutionVars, configVars>>

\* What a part that is not shown stands still in.
RecordsRest ==
    /\ now = CHOOSE w \in Worlds : TRUE
    /\ shelf = <<>> /\ saved = <<>> /\ answer = NoAnswer /\ builds = 0
SomeHead == CHOOSE h \in Heads : h.method = "rkbin"
SomeSize == CHOOSE s \in Sizes : TRUE
SomeRequest == CHOOSE r \in Requests : TRUE
GeometryRests == head = SomeHead /\ authored = SomeSize
ResolutionRests == request = SomeRequest /\ verdict = "asked" /\ built = <<>>
ConfigRests == rev = Overlaid

PapersInit ==
    /\ show \in {"locks", "files", "records", "layout", "resolve", "config"}
    /\ LocksBegin
    /\ IF show = "files" THEN FilesInit ELSE FilesRest
    /\ IF show = "records" THEN RecordsInit ELSE RecordsRest
    /\ GeometryInit /\ (show # "layout" => GeometryRests)
    /\ IF show = "resolve" THEN ResolutionInit ELSE ResolutionRests
    /\ (show # "config" => ConfigRests) /\ ConfigInit

PapersNext ==
    /\ show' = show
    /\ \/ /\ show = "locks" /\ LocksNext
          /\ UNCHANGED <<fileVars, recordVars, geometryVars, resolutionVars, configVars>>
       \/ /\ show = "files" /\ FilesNext
          /\ UNCHANGED <<lockVars, recordVars, geometryVars, resolutionVars, configVars>>
       \/ /\ show = "records" /\ RecordsNext
          /\ UNCHANGED <<lockVars, fileVars, geometryVars, resolutionVars, configVars>>
       \/ /\ show = "layout" /\ GeometryNext
          /\ UNCHANGED <<lockVars, fileVars, recordVars, resolutionVars, configVars>>
       \/ /\ show = "resolve" /\ Resolve
          /\ UNCHANGED <<lockVars, fileVars, recordVars, geometryVars, configVars>>
       \/ /\ show = "config" /\ ConfigNext
          /\ UNCHANGED <<lockVars, fileVars, recordVars, geometryVars, resolutionVars>>

PapersSpec == PapersInit /\ [][PapersNext]_papersVars

\* The part that is shown holds only what its steps can write.
PapersTypeOK ==
    CASE show = "locks" -> LocksTypeOK
      [] show = "files" -> FilesTypeOK
      [] show = "records" -> RecordsTypeOK
      [] show = "layout" -> GeometryTypeOK
      [] show = "resolve" -> ResolutionTypeOK
      [] show = "config" -> ConfigTypeOK
=============================================================================
