----------------------------- MODULE FirstBoot -----------------------------
(***************************************************************************)
(* The on-device first boot: base/overlay/usr/lib/boot2deb/first-boot, its *)
(* unit, and the hooks that change state (10-seed, 20-debs, the Turing     *)
(* RK1's 20-network, the data-volume feature's 50-data-volume), on a       *)
(* device whose power may go at any step and whose commands may fail.  The *)
(* unit is skipped once the stamp exists and runs in full otherwise.         *)
(*                                                                         *)
(* What reaches the disk stays in order; the kernel's view of the root     *)
(* partition and the mounts do not survive a reboot.                       *)
(***************************************************************************)
EXTENDS Naturals

CONSTANTS
    MaxCuts,   \* bound: power cuts and failing commands in a behaviour
    MaxFresh   \* bound: MAC addresses drawn

ASSUME FirstBootAssumption == MaxCuts \in Nat /\ MaxFresh \in Nat \ {0}

VARIABLES
    power,     \* "off" or "on"
    fbpc,      \* the next step of the script, or how the unit ended
    part,      \* the root partition in the GPT: "image" or "disk" sized
    seen,      \* what the kernel knows of it
    fs,        \* the root filesystem
    hostkeys,  \* ssh host keys are there
    seedkeys,  \* times the seed's key stands in authorized_keys
    debs,      \* the staged packages: "staged", "unpacked" or "configured"
    macs,      \* the MAC in the udev rule and in the link file, 0 for no file
    drawn,     \* MACs drawn so far
    volume,    \* the data disk: "absent", "blank", "table", "ours", "foreign"
    atfirst,   \* the data disk as the device first met it
    mounted,   \* the data volume is mounted
    warned,    \* no partition appeared after sfdisk, and the hook said so
    stamped,   \* first-boot.done: 0, or the boot that wrote it
    bootno,    \* boots so far
    mishaps    \* power cuts and failures so far

deviceVars == <<part, fs, hostkeys, seedkeys, debs, macs, volume, stamped>>
fbVars == <<power, fbpc, part, seen, fs, hostkeys, seedkeys, debs, macs, drawn, volume,
            atfirst, mounted, warned, stamped, bootno, mishaps>>

Steps == {"keys", "sfdisk", "partx", "resize", "seed", "debs", "rule", "link",
          "volume", "mkfs", "mount", "done"}
UnitOver == {"skipped", "finished", "failed"}

FirstBootTypeOK ==
    /\ power \in {"off", "on"} /\ fbpc \in Steps \cup UnitOver
    /\ {part, seen, fs} \subseteq {"image", "disk"}
    /\ hostkeys \in BOOLEAN /\ seedkeys \in Nat
    /\ debs \in {"staged", "unpacked", "configured"}
    /\ macs \in [rule: 0..MaxFresh, link: 0..MaxFresh] /\ drawn \in 0..MaxFresh
    /\ {volume, atfirst} \subseteq {"absent", "blank", "table", "ours", "foreign"}
    /\ mounted \in BOOLEAN /\ warned \in BOOLEAN
    /\ stamped \in 0..bootno /\ mishaps \in 0..MaxCuts

FirstBootInit ==
    /\ power = "off" /\ fbpc = "keys"
    /\ part = "image" /\ seen = "image" /\ fs = "image"
    /\ hostkeys = FALSE /\ seedkeys = 0 /\ debs = "staged"
    /\ macs = [rule |-> 0, link |-> 0] /\ drawn = 0
    /\ atfirst \in {"absent", "blank", "ours", "foreign"} /\ volume = atfirst
    /\ mounted = FALSE /\ warned = FALSE
    /\ stamped = 0 /\ bootno = 0 /\ mishaps = 0

\* The unit's ConditionPathExists.  The kernel reads the partition table as it boots, and
\* fstab mounts a data volume that is there.
PowerOn ==
    /\ power = "off"
    /\ power' = "on" /\ bootno' = bootno + 1
    /\ seen' = part /\ mounted' = (volume = "ours")
    /\ fbpc' = IF stamped = 0 THEN "keys" ELSE "skipped"
    /\ UNCHANGED <<deviceVars, atfirst, drawn, warned, mishaps>>

FbGoto(label) ==
    /\ fbpc' = label
    /\ UNCHANGED <<power, atfirst, bootno, mishaps>>

Running(label) == power = "on" /\ fbpc = label

\* ssh-keygen -A || true: the missing keys, best effort.
GenerateKeys ==
    /\ Running("keys") /\ FbGoto("sfdisk")
    /\ hostkeys' \in {hostkeys, TRUE}
    /\ UNCHANGED <<part, seen, fs, seedkeys, debs, macs, drawn, volume, mounted, warned, stamped>>

GrowPartition ==
    /\ Running("sfdisk") /\ FbGoto("partx")
    /\ part' = "disk"
    /\ UNCHANGED <<seen, fs, hostkeys, seedkeys, debs, macs, drawn, volume, mounted, warned, stamped>>

TellKernel ==
    /\ Running("partx") /\ FbGoto("resize")
    /\ seen' = part
    /\ UNCHANGED <<deviceVars, drawn, mounted, warned>>

\* resize2fs grows to the size the kernel knows.
GrowFilesystem ==
    /\ Running("resize") /\ FbGoto("seed")
    /\ fs' = seen
    /\ UNCHANGED <<part, seen, hostkeys, seedkeys, debs, macs, drawn, volume, mounted, warned, stamped>>

\* Mutant: the key is appended without the grep.
SeedHookAppends ==
    /\ Running("seed") /\ FbGoto("debs")
    /\ seedkeys' = seedkeys + 1
    /\ UNCHANGED <<part, seen, fs, hostkeys, debs, macs, drawn, volume, mounted, warned, stamped>>

\* 10-seed: an authorized key is appended unless grep finds the line.
SeedHook ==
    /\ Running("seed") /\ FbGoto("debs")
    /\ seedkeys' \in {seedkeys, 1}
    /\ UNCHANGED <<part, seen, fs, hostkeys, debs, macs, drawn, volume, mounted, warned, stamped>>

\* 20-debs: dpkg -i, then apt-get -f install when the network answers; exit 0 either way.
DebsHook ==
    /\ Running("debs") /\ FbGoto("rule")
    /\ debs' \in {"unpacked", "configured"}
    /\ UNCHANGED <<part, seen, fs, hostkeys, seedkeys, macs, drawn, volume, mounted, warned, stamped>>

\* 20-network draws a MAC and writes it into the udev rule ...
WriteRule ==
    /\ Running("rule") /\ FbGoto("link")
    /\ drawn < MaxFresh /\ drawn' = drawn + 1
    /\ macs' = [macs EXCEPT !.rule = drawn + 1]
    /\ UNCHANGED <<part, seen, fs, hostkeys, seedkeys, debs, volume, mounted, warned, stamped>>

\* ... and into the link file.
WriteLink ==
    /\ Running("link") /\ FbGoto("volume")
    /\ macs' = [macs EXCEPT !.link = drawn]
    /\ UNCHANGED <<part, seen, fs, hostkeys, seedkeys, debs, drawn, volume, mounted, warned, stamped>>

\* Mutant: anything but our own volume is formatted.
LadderFormats(v) == IF v = "ours" THEN "adopt" ELSE "create"

\* 50-data-volume: adopt what carries the label, create on a blank disk, refuse the rest.
Ladder(v) ==
    CASE v = "ours" -> "adopt"
      [] v = "blank" -> "create"
      [] v \in {"absent", "table", "foreign"} -> "refuse"

\* Creating begins with sfdisk writing a partition table.
VolumeHook ==
    /\ Running("volume")
    /\ \/ Ladder(volume) = "adopt" /\ FbGoto("mount") /\ UNCHANGED volume
       \/ Ladder(volume) = "create" /\ FbGoto("mkfs") /\ volume' = "table"
       \/ Ladder(volume) = "refuse" /\ FbGoto("done") /\ UNCHANGED volume
    /\ UNCHANGED <<part, seen, fs, hostkeys, seedkeys, debs, macs, drawn, mounted, warned, stamped>>

\* mkfs on the partition that appeared; none appearing is a warning.
MakeVolume ==
    /\ Running("mkfs")
    /\ \/ FbGoto("mount") /\ volume' = "ours" /\ UNCHANGED warned
       \/ FbGoto("done") /\ warned' = TRUE /\ UNCHANGED volume
    /\ UNCHANGED <<part, seen, fs, hostkeys, seedkeys, debs, macs, drawn, mounted, stamped>>

MountVolume ==
    /\ Running("mount") /\ FbGoto("done")
    /\ mounted' \in {mounted, TRUE}
    /\ UNCHANGED <<deviceVars, seen, drawn, warned>>

WriteStamp ==
    /\ Running("done") /\ FbGoto("finished")
    /\ stamped' = bootno
    /\ UNCHANGED <<part, seen, fs, hostkeys, seedkeys, debs, macs, drawn, volume, mounted, warned>>

\* Mutant: without set -e a failing step is passed over.
FailureIsPassedOver ==
    /\ power = "on" /\ fbpc \in {"sfdisk", "partx", "resize"}
    /\ mishaps < MaxCuts /\ mishaps' = mishaps + 1
    /\ fbpc' = CASE fbpc = "sfdisk" -> "partx" [] fbpc = "partx" -> "resize"
                 [] fbpc = "resize" -> "seed"
    /\ UNCHANGED <<power, deviceVars, atfirst, seen, drawn, mounted, warned, bootno>>

\* set -e: a failing command that is not guarded ends the script.
StepFails ==
    /\ power = "on" /\ fbpc \in {"sfdisk", "partx", "resize", "rule", "link", "volume", "mkfs"}
    /\ mishaps < MaxCuts /\ mishaps' = mishaps + 1
    /\ fbpc' = "failed"
    /\ UNCHANGED <<power, deviceVars, atfirst, seen, drawn, mounted, warned, bootno>>

PowerCut ==
    /\ power = "on" /\ mishaps < MaxCuts
    /\ mishaps' = mishaps + 1 /\ power' = "off"
    /\ UNCHANGED <<deviceVars, atfirst, fbpc, seen, drawn, mounted, warned, bootno>>

\* A unit that failed runs again on the next boot, which comes in time; so does a boot of a
\* device that is set up.
Restart ==
    /\ power = "on"
    /\ fbpc = "failed" \/ (fbpc = "finished" /\ stamped = bootno)
    /\ power' = "off"
    /\ UNCHANGED <<deviceVars, atfirst, fbpc, seen, drawn, mounted, warned, bootno, mishaps>>

ScriptStep ==
    \/ GenerateKeys \/ GrowPartition \/ TellKernel \/ GrowFilesystem
    \/ SeedHook \/ DebsHook \/ WriteRule \/ WriteLink
    \/ VolumeHook \/ MakeVolume \/ MountVolume \/ WriteStamp

FirstBootNext == PowerOn \/ ScriptStep \/ StepFails \/ PowerCut \/ Restart

FirstBootFairness == WF_fbVars(PowerOn) /\ WF_fbVars(ScriptStep) /\ WF_fbVars(Restart)

FirstBootSpec == FirstBootInit /\ [][FirstBootNext]_fbVars /\ FirstBootFairness
-----------------------------------------------------------------------------
\* A device whose stamp is on has been set up, through whatever cuts and failures: the
\* filesystem fills the disk, the rule and the link file name one MAC, and the seed's key
\* stands there at most once.
StampMeansSetUp ==
    /\ seedkeys <= 1
    /\ stamped # 0 => /\ part = "disk" /\ fs = "disk"
                      /\ macs.rule = macs.link /\ macs.rule # 0

\* "Never format" what carries our label, and "a disk holding a partition table, a
\* filesystem, or a label that is not ours is evidence of data someone wants": the hook
\* never changes a disk it was not given blank.
VolumeDataSurvives == atfirst \in {"ours", "foreign"} => volume = atfirst

\* "a run that fails partway simply retries in full on the next boot": with finitely many
\* cuts and failures the device comes to be set up.
FirstBootEnds == <>(stamped # 0)

\* "Failing leaves the whole first-boot unit re-runnable, so every step is idempotent": a
\* disk that was blank at first carries the volume once first boot is done, unless the hook
\* warned that no partition appeared.
BlankDiskGetsVolume == stamped # 0 /\ atfirst = "blank" /\ ~warned => volume = "ours"
=============================================================================
