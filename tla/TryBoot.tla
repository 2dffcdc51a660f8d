------------------------------ MODULE TryBoot ------------------------------
(***************************************************************************)
(* `boot2deb try` (engine/src/tryboot.rs, cli/src/commands/try_boot.rs):   *)
(* boot a copy of the image twice under QEMU, log in over the serial       *)
(* console through the forced password change, ask systemd, the first-boot *)
(* stamp and the selftest, and power off.  The driver and the guest are    *)
(* two processes: prompts reach the driver when the guest produces them,   *)
(* and every wait of the driver has a deadline that may pass first.        *)
(*                                                                         *)
(* The guest (login, PAM, the shell, systemd) is external: it is modelled  *)
(* by the prompts the driver's patterns tell apart.                        *)
(***************************************************************************)
EXTENDS Naturals, Sequences

\* The rounds of the login conversation.
LoginRounds == 12

\* Mutant: just the prompts of one login and one change.
LoginRoundsShort == 5

Passwords == {"generated", "changed", "changed again", "some other"}

\* changed_password: a new one, unlike the one it is derived from.
ChangedPassword(p) ==
    CASE p = "generated" -> "changed"
      [] p = "changed" -> "changed again"
      [] OTHER -> "some other"

VARIABLES
    img,      \* the image under test: what works in it
    tdisk,    \* the copy: the account's password, whether it is expired, the stamp
    tpc,      \* where the driver is
    tphase,   \* first boot or second
    login,    \* the password to log in with, and the one now active
    rounds,   \* rounds of the login conversation
    gmode,    \* what the guest is reading
    gtyped,   \* the password typed at "New password:"
    cons,     \* prompts the driver has not passed yet
    sent,     \* the lines the guest has not read yet
    first,    \* the stamp the first boot reported
    late      \* a deadline has passed

tryVars == <<img, tdisk, tpc, tphase, login, rounds, gmode, gtyped, cons, sent, first, late>>

\* Whether the generated password works, is expired, its change is accepted and then asks
\* for a new login; first boot completes and is gated off afterwards; the selftest passes.
Images == [account: BOOLEAN, expired: BOOLEAN, accepts: BOOLEAN, relogin: BOOLEAN,
           firstboot: BOOLEAN, gated: BOOLEAN, selftest: BOOLEAN]
Sound(i) == i.account /\ (i.expired => i.accepts) /\ i.firstboot /\ i.gated /\ i.selftest
Prompts == {"login", "Password", "Current", "New", "Retype", "Incorrect", "shell"}
TryOver == {"passed", "failed"}

TryTypeOK ==
    /\ img \in Images
    /\ tdisk \in [pw: Passwords, expired: BOOLEAN, stamp: 0..2]
    /\ tpc \in TryOver \cup {"launch", "banner", "converse", "probe", "settle", "stamp",
                             "selftest", "sync", "poweroff", "off"}
    /\ tphase \in 1..2 /\ rounds \in 0..LoginRounds
    /\ login \in [with: Passwords, active: Passwords]
    /\ gmode \in {"down", "login", "password", "current", "new", "retype", "shell"}
    /\ gtyped \in Passwords /\ cons \in Seq(Prompts)
    /\ sent \in Seq(Passwords \cup {"user", "echo", "poweroff"})
    /\ first \in 0..2 /\ late \in BOOLEAN

TryInit ==
    /\ img \in Images
    /\ tdisk = [pw |-> IF img.account THEN "generated" ELSE "some other",
                expired |-> img.expired, stamp |-> 0]
    /\ tpc = "launch" /\ tphase = 1 /\ rounds = 0
    /\ login = [with |-> "generated", active |-> "generated"]
    /\ gmode = "down" /\ gtyped = "some other" /\ cons = <<>> /\ sent = <<>>
    /\ first = 0 /\ late = FALSE

Driver(from, to) == tpc = from /\ tpc' = to
guestVars == <<gmode, gtyped, tdisk>>

\* boot_once spawns the guest, whose first boot runs unless the stamp gates it off.
Launch ==
    /\ Driver("launch", "banner")
    /\ gmode' = "login" /\ cons' = <<"login">> /\ sent' = <<>>
    /\ tdisk' = IF img.firstboot /\ (tdisk.stamp = 0 \/ ~img.gated)
                  THEN [tdisk EXCEPT !.stamp = tphase] ELSE tdisk
    /\ rounds' = 0
    /\ UNCHANGED <<img, tphase, login, gtyped, first, late>>

\* login: the first wait, for the banner.
SendUser ==
    /\ Driver("banner", "converse")
    /\ cons # <<>>
    /\ cons' = Tail(cons) /\ sent' = Append(sent, "user")
    /\ UNCHANGED <<img, tphase, login, rounds, guestVars, first, late>>

\* Mutant: the change is not remembered.
ReplyForgets(prompt) ==
    CASE prompt \in {"Current", "Password"} -> [says |-> login.with, active |-> login.active]
      [] prompt \in {"New", "Retype"} -> [says |-> ChangedPassword(login.with), active |-> login.active]
      [] OTHER -> [says |-> "user", active |-> login.active]

\* What the driver answers to a prompt, and the password it then believes in.
Reply(prompt) ==
    CASE prompt = "Current" -> [says |-> login.with, active |-> login.active]
      [] prompt = "New" -> [says |-> ChangedPassword(login.with), active |-> login.active]
      [] prompt = "Retype" ->
            [says |-> ChangedPassword(login.with), active |-> ChangedPassword(login.with)]
      [] prompt = "Password" -> [says |-> login.active, active |-> login.active]
      [] prompt = "login" -> [says |-> "user", active |-> login.active]

\* One round of the conversation: wait_for hands over the earliest prompt.
Converse ==
    /\ tpc = "converse" /\ cons # <<>> /\ rounds < LoginRounds
    /\ cons' = Tail(cons) /\ rounds' = rounds + 1
    /\ LET prompt == Head(cons)
       IN \/ /\ prompt \notin {"Incorrect", "shell"}
             /\ sent' = Append(sent, Reply(prompt).says)
             /\ login' = [login EXCEPT !.active = Reply(prompt).active]
             /\ UNCHANGED tpc
          \/ prompt = "Incorrect" /\ tpc' = "failed" /\ UNCHANGED <<sent, login>>
          \/ prompt = "shell" /\ tpc' = "probe" /\ sent' = Append(sent, "echo")
             /\ UNCHANGED login
    /\ UNCHANGED <<img, tphase, guestVars, first, late>>

\* "the login conversation did not converge".
TooManyRounds ==
    /\ Driver("converse", "failed") /\ rounds = LoginRounds
    /\ UNCHANGED <<img, tphase, login, rounds, guestVars, cons, sent, first, late>>

\* The shell's prompts after a login; a "Last login:" line reads like a login prompt.
Welcome == {<<"shell">>, <<"login", "shell">>}

\* The guest reads a line and produces what the driver can see of its answer.
GuestAnswers(mode, shown) == gmode' = mode /\ cons' = cons \o shown

GuestReads ==
    /\ sent # <<>> /\ sent' = Tail(sent)
    /\ \/ /\ gmode = "login"
          /\ GuestAnswers("password", <<"Password">>) /\ UNCHANGED <<tdisk, gtyped>>
       \/ /\ gmode \in {"password", "current"} /\ Head(sent) # tdisk.pw
          /\ GuestAnswers("login", <<"Incorrect", "login">>) /\ UNCHANGED <<tdisk, gtyped>>
       \/ /\ gmode = "password" /\ Head(sent) = tdisk.pw
          /\ \/ tdisk.expired /\ GuestAnswers("current", <<"Current">>)
             \/ ~tdisk.expired /\ \E w \in Welcome : GuestAnswers("shell", w)
          /\ UNCHANGED <<tdisk, gtyped>>
       \/ /\ gmode = "current" /\ Head(sent) = tdisk.pw
          /\ GuestAnswers("new", <<"New">>) /\ UNCHANGED <<tdisk, gtyped>>
       \/ /\ gmode = "new"
          /\ gtyped' = Head(sent)
          /\ \/ img.accepts /\ GuestAnswers("retype", <<"Retype">>)
             \/ ~img.accepts /\ GuestAnswers("login", <<"login">>)
          /\ UNCHANGED tdisk
       \/ /\ gmode = "retype" /\ Head(sent) = gtyped
          /\ tdisk' = [tdisk EXCEPT !.pw = gtyped, !.expired = FALSE]
          /\ \/ img.relogin /\ GuestAnswers("login", <<"login">>)
             \/ ~img.relogin /\ \E w \in Welcome : GuestAnswers("shell", w)
          /\ UNCHANGED gtyped
       \/ /\ gmode = "shell" /\ Head(sent) = "poweroff"
          /\ GuestAnswers("down", <<>>) /\ UNCHANGED <<tdisk, gtyped>>
       \/ /\ gmode = "shell" /\ Head(sent) # "poweroff"
          /\ GuestAnswers("shell", <<"shell">>) /\ UNCHANGED <<tdisk, gtyped>>
    /\ UNCHANGED <<img, tpc, tphase, login, rounds, first, late>>

\* B2D-READY comes back once the shell has read the line.
ShellReady ==
    /\ Driver("probe", "settle") /\ gmode = "shell" /\ sent = <<>>
    /\ UNCHANGED <<img, tphase, login, rounds, guestVars, cons, sent, first, late>>

\* run_cmd in the shell: its exit code decides where the driver goes.
Command(from, good, to) ==
    /\ tpc = from /\ gmode = "shell" /\ sent = <<>>
    /\ tpc' = IF good THEN to ELSE "failed"
    /\ UNCHANGED <<img, tphase, login, rounds, guestVars, cons, sent, late>>

\* is-system-running --wait: a first-boot unit that fails leaves the system degraded.
Settle == Command("settle", img.firstboot, "stamp") /\ UNCHANGED first

\* The second boot's stamp is compared with the first's once that boot is over.
CheckStamp ==
    /\ Command("stamp", tdisk.stamp # 0, "selftest")
    /\ first' = IF tphase = 1 THEN tdisk.stamp ELSE first

\* sudo takes the active password where the policy asks for one.
Selftest == Command("selftest", img.selftest /\ login.active = tdisk.pw, "sync") /\ UNCHANGED first

Sync == Command("sync", TRUE, "poweroff") /\ UNCHANGED first

PowerOff ==
    /\ Driver("poweroff", "off")
    /\ sent' = Append(sent, "poweroff")
    /\ UNCHANGED <<img, tphase, login, rounds, guestVars, cons, first, late>>

\* Mutant: the stamps of the two boots are not compared.
StampUnmoved2 == TRUE

\* The run-once gate held: the stamp is the first boot's.
StampUnmoved == tdisk.stamp = first

\* wait_exit, or the kill after POWEROFF_TIMEOUT; then the second boot, or the report.
BootOver ==
    /\ tpc = "off"
    /\ gmode' = "down" /\ cons' = <<>> /\ sent' = <<>>
    /\ \/ /\ tphase = 1
          /\ tpc' = "launch" /\ tphase' = 2
          /\ login' = [login EXCEPT !.with = login.active]
       \/ /\ tphase = 2
          /\ tpc' = IF StampUnmoved THEN "passed" ELSE "failed"
          /\ UNCHANGED <<tphase, login>>
    /\ UNCHANGED <<img, rounds, tdisk, gtyped, first, late>>

\* Mutant: only the wait for the banner has a deadline.
DeadlineAtBanner ==
    /\ tpc = "banner"
    /\ tpc' = "failed" /\ late' = TRUE
    /\ gmode' = "down" /\ cons' = <<>> /\ sent' = <<>>
    /\ UNCHANGED <<img, tdisk, tphase, login, rounds, gtyped, first>>

\* Any wait may reach its deadline before the guest answers; the guest is killed.
Deadline ==
    /\ tpc \in {"banner", "converse", "probe", "settle", "stamp", "selftest", "sync"}
    /\ tpc' = "failed" /\ late' = TRUE
    /\ gmode' = "down" /\ cons' = <<>> /\ sent' = <<>>
    /\ UNCHANGED <<img, tdisk, tphase, login, rounds, gtyped, first>>

DriverStep ==
    \/ Launch \/ SendUser \/ Converse \/ TooManyRounds \/ ShellReady \/ Settle \/ CheckStamp
    \/ Selftest \/ Sync \/ PowerOff \/ BootOver \/ Deadline

TryNext == DriverStep \/ GuestReads

TryFairness == WF_tryVars(DriverStep)

TrySpec == TryInit /\ [][TryNext]_tryVars /\ TryFairness
-----------------------------------------------------------------------------
\* The verdict is the image's: a pass means that first boot completed once and was gated
\* off on the second boot, and that the reported password is the disk's; a sound image
\* fails only when a deadline passed.
VerdictIsOfTheImage ==
    /\ tpc = "passed" => Sound(img) /\ tdisk.pw = login.active /\ tdisk.stamp = 1
    /\ tpc = "failed" /\ ~late => ~Sound(img)

\* No guest, however silent, holds the run up for ever.
TryEnds == <>(tpc \in TryOver)
=============================================================================
