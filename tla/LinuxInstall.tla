---------------------------- MODULE LinuxInstall ----------------------------
(***************************************************************************)
(* `service-sample install' and `service-sample uninstall' on Linux:       *)
(* svc_os_install and svc_os_uninstall of service-sample_linux.c, one step *)
(* per call that can fail or that changes what systemd sees.               *)
(*                                                                         *)
(* Several administrators may run the program at once (nothing locks them  *)
(* out), from copies at different paths; any call may fail, any run may be *)
(* killed between two calls, and the machine may reboot.  A run that needs *)
(* sudo hands the same command to a child and returns its exit code, so    *)
(* parent and child are one run here.                                      *)
(*                                                                         *)
(* systemctl is external: what a command does is taken from what the code  *)
(* expects of it, and a command that fails may still have had its effect.  *)
(***************************************************************************)
EXTENDS Integers, Sequences, SequencesExt

CONSTANTS Admins,      \* who runs the program
          Paths,       \* where copies of the program are
          Versions,    \* systemd versions, each the sequence of its digits
          MaxRuns,     \* bound: runs of the program in a behaviour
          MaxFaults    \* bound: calls that fail in a behaviour

ASSUME InstallBounds == MaxRuns \in Nat /\ MaxFaults \in Nat

VARIABLES unit,      \* the unit file
          inode,     \* which file of that name it is
          loaded,    \* systemd's copy of it
          enabled,   \* is there a link in multi-user.target.wants?
          running,   \* the path of the program the active service runs
          systemd,   \* the version of systemd
          run,       \* the run of the program by each administrator
          runs, faults,
          \* History:
          excused,      \* two runs have met, or a systemctl disable has failed
          settled       \* what the last run, undisturbed, ended with

vars == <<unit, inode, loaded, enabled, running, systemd, run, runs, faults,
          excused, settled>>
system == <<unit, inode, loaded, enabled, running, systemd>>

NoPath == "no path"
Absent == [is |-> "absent"]
Cut == [is |-> "cut"]            \* emptied, or only part of its text
Whole(path, omit) == [is |-> "whole", exec |-> path, oom |-> omit]

(* What each command does after each of its steps.                        *)
InstallSteps ==
    [elevate |-> "path", path |-> "version", version |-> "open",
     open |-> "write", write |-> "close", close |-> "reload",
     reload |-> "enable", enable |-> "exited"]

(* Mutant: the unit file is removed before the link.                       *)
UninstallStepsUnordered ==
    [elevate |-> "stop", stop |-> "remove", remove |-> "disable",
     disable |-> "reload", reload |-> "exited"]
(* Mutant: systemd is not told to forget the unit.                         *)
UninstallStepsKeepLoaded ==
    [elevate |-> "stop", stop |-> "disable", disable |-> "remove",
     remove |-> "exited"]

UninstallSteps ==
    [elevate |-> "stop", stop |-> "disable", disable |-> "remove",
     remove |-> "reload", reload |-> "exited"]

Steps(command) == IF command = "install" THEN InstallSteps ELSE UninstallSteps

Pcs == {"elevate", "path", "version", "open", "write", "close", "enable",
        "stop", "disable", "remove", "reload"}
Ended == {"idle", "exited", "killed"}

(* parse_systemd_major_version: the number behind "systemd ", -1 when the  *)
(* line cannot be had or is another one (<<>>).                            *)
parse_systemd_major_version(line) ==
    IF line = <<>> THEN -1 ELSE FoldLeft(LAMBDA v, d : 10 * v + d, 0, line)

ManagedOom == 248   \* SYSTEMD_MANAGED_OOM_PREFERENCE_VERSION

ASSUME VersionsAssumption ==
    \A line \in Versions : parse_systemd_major_version(line) \in Int

Texts == {Absent, Cut} \cup [is : {"whole"}, exec : Paths, oom : BOOLEAN]
RunRecords ==
    [pc : Pcs \cup Ended, command : {"install", "uninstall"},
     exec : Paths \cup {NoPath}, omit : BOOLEAN, ino : Nat, exit : {0, 1},
     \* History of the run:
     alone : BOOLEAN, slips : SUBSET Pcs, found : BOOLEAN]

TypeOK ==
    /\ unit \in Texts /\ loaded \in Texts /\ inode \in Nat
    /\ enabled \in BOOLEAN
    /\ running \in Paths \cup {NoPath}
    /\ systemd \in Versions
    /\ run \in [Admins -> RunRecords]
    /\ runs \in 0..MaxRuns /\ faults \in 0..MaxFaults
    /\ excused \in BOOLEAN
    /\ settled \in [is : {"open"}] \cup [is : {"installed"}, exec : Paths]
                   \cup [is : {"uninstalled"}, found : BOOLEAN]

Open == [is |-> "open"]

Init ==
    /\ unit = Absent /\ loaded = Absent /\ inode = 0
    /\ enabled = FALSE /\ running = NoPath
    /\ systemd \in Versions
    /\ run = [a \in Admins |->
                [pc |-> "idle", command |-> "install", exec |-> NoPath,
                 omit |-> FALSE, ino |-> 0, exit |-> 1,
                 alone |-> TRUE, slips |-> {}, found |-> FALSE]]
    /\ runs = 0 /\ faults = 0
    /\ excused = FALSE /\ settled = Open

(***************************************************************************)
(* A step of a run                                                         *)
(***************************************************************************)
At(a, pc) == run[a].pc = pc

Following(a) == Steps(run[a].command)[run[a].pc]

Settles(a) ==
    /\ run[a].alone
    /\ run[a].slips \subseteq
         (IF run[a].command = "install" THEN {"version"} ELSE {})

Settled(a) == IF run[a].command = "install"
              THEN [is |-> "installed", exec |-> run[a].exec]
              ELSE [is |-> "uninstalled", found |-> run[a].found]

Works == faults' = faults

(* The call of this step fails.                                            *)
Fails == faults < MaxFaults /\ faults' = faults + 1

Slipped(a) == IF faults' = faults THEN run[a].slips
              ELSE run[a].slips \cup {run[a].pc}

(* The run goes on to its next step, having changed its locals to r.       *)
GoOn(a, r) ==
    /\ run' = [run EXCEPT ![a] = [r EXCEPT !.pc = Following(a),
                                           !.slips = Slipped(a)]]
    /\ UNCHANGED settled

(* The run returns from main with this exit code.                          *)
Return(a, code) ==
    /\ run' = [run EXCEPT ![a].pc = "exited", ![a].exit = code,
                          ![a].slips = Slipped(a)]
    /\ settled' = IF code = 0 /\ Settles(a) /\ faults' = faults
                  THEN Settled(a) ELSE Open

(* The last step of both commands: the run returns EXIT_SUCCESS.           *)
Advance(a) == IF Following(a) = "exited"
              THEN Return(a, 0) ELSE GoOn(a, run[a])

FailOrAdvance(a) == \/ Works /\ Advance(a)
                    \/ Fails /\ Return(a, 1)

(***************************************************************************)
(* The shell starts a run, and may kill it                                 *)
(***************************************************************************)
main(a, command, path) ==
    /\ run[a].pc \in Ended /\ runs < MaxRuns
    /\ LET busy == {b \in Admins : run[b].pc \notin Ended}
       IN  /\ run' = [b \in Admins |->
                IF b = a
                THEN [pc |-> "elevate", command |-> command, exec |-> path,
                      omit |-> FALSE, ino |-> 0, exit |-> 1,
                      alone |-> busy = {}, slips |-> {},
                      found |-> unit # Absent]
                ELSE [run[b] EXCEPT !.alone = FALSE]]
           /\ excused' = (excused \/ busy # {})
    /\ runs' = runs + 1 /\ settled' = Open
    /\ UNCHANGED <<system, faults>>

(* SIGKILL, a closed terminal or a reboot: nothing is cleaned up, and what *)
(* stdio had not flushed is lost.                                          *)
Kill(a) ==
    /\ run[a].pc \notin Ended
    /\ run' = [run EXCEPT ![a].pc = "killed"]
    /\ UNCHANGED <<system, runs, faults, excused, settled>>

(* ensure_elevated_for_operation: the user may have no right to sudo.      *)
ensure_elevated_for_operation(a) ==
    /\ At(a, "elevate")
    /\ FailOrAdvance(a)
    /\ UNCHANGED <<system, runs, excused>>

(***************************************************************************)
(* svc_os_install                                                          *)
(***************************************************************************)
FindExecutable(a) ==
    /\ At(a, "path")
    /\ FailOrAdvance(a)
    /\ UNCHANGED <<system, runs, excused>>

(* Mutant: an unknown version counts as a new one.                         *)
OmitsUnsigned(version) == version >= ManagedOom \/ version = -1

Omits(version) == version >= ManagedOom

(* A version that cannot be read only costs the line for systemd-oomd.     *)
get_systemd_major_version(a) ==
    /\ At(a, "version")
    /\ \E line \in {systemd, <<>>} :
         /\ IF line = systemd THEN Works ELSE Fails
         /\ GoOn(a, [run[a] EXCEPT
                       !.omit = Omits(parse_systemd_major_version(line))])
    /\ UNCHANGED <<system, runs, excused>>

(* fopen(unit_path, "w") empties the file at once.                         *)
OpenUnit(a) ==
    /\ At(a, "open")
    /\ \/ /\ Works
          /\ inode' = IF unit = Absent THEN inode + 1 ELSE inode
          /\ unit' = Cut
          /\ GoOn(a, [run[a] EXCEPT !.ino = inode'])
       \/ /\ Fails /\ Return(a, 1)
          /\ UNCHANGED <<unit, inode>>
    /\ UNCHANGED <<loaded, enabled, running, systemd, runs, excused>>

(* The text reaches the file at its beginning.  A file another run has     *)
(* removed is written no more by its name, and the tail of a longer text   *)
(* another run has written stays.                                          *)
Flushed(a) ==
    LET text == Whole(run[a].exec, run[a].omit)
    IN  IF unit = Absent \/ run[a].ino # inode THEN {unit}
        ELSE IF unit \in {Cut, text} THEN {text}
        ELSE {text, Cut}

(* fputs only fills the buffer of stdio, or fails: the fclose of the error *)
(* path may then still put the text out.                                   *)
WriteUnit(a) ==
    /\ At(a, "write")
    /\ \/ Works /\ UNCHANGED unit /\ Advance(a)
       \/ Fails /\ unit' \in {unit} \cup Flushed(a) /\ Return(a, 1)
    /\ UNCHANGED <<inode, loaded, enabled, running, systemd, runs, excused>>

(* fclose, whose result is not looked at.                                  *)
CloseUnit(a) ==
    /\ At(a, "close")
    /\ \/ Works /\ unit' \in Flushed(a)
       \/ Fails /\ UNCHANGED unit
    /\ Advance(a)
    /\ UNCHANGED <<inode, loaded, enabled, running, systemd, runs, excused>>

(* systemctl daemon-reload: its failure ends an install; uninstall only    *)
(* warns of it.                                                            *)
DaemonReload(a) ==
    /\ At(a, "reload")
    /\ \/ Works /\ loaded' = unit /\ Advance(a)
       \/ /\ Fails /\ loaded' \in {loaded, unit}
          /\ IF run[a].command = "install" THEN Return(a, 1) ELSE Advance(a)
    /\ UNCHANGED <<unit, inode, enabled, running, systemd, runs, excused>>

(* systemctl enable: it needs the file, and the [Install] section in it,   *)
(* which a cut file may lack.                                              *)
Enable(a) ==
    /\ At(a, "enable")
    /\ \/ /\ unit.is = "whole" /\ Works
          /\ enabled' = TRUE /\ Return(a, 0)
       \/ /\ unit = Cut /\ Works
          /\ enabled' \in {enabled, TRUE}
          /\ \E code \in {0, 1} : Return(a, code)
       \/ /\ unit = Absent /\ Works
          /\ UNCHANGED enabled /\ Return(a, 1)
       \/ /\ Fails /\ enabled' \in {enabled, unit # Absent}
          /\ Return(a, 1)
    /\ UNCHANGED <<unit, inode, loaded, running, systemd, runs, excused>>

(***************************************************************************)
(* svc_os_uninstall                                                        *)
(***************************************************************************)
(* systemctl stop, whose result is not looked at.                          *)
Stop(a) ==
    /\ At(a, "stop")
    /\ \/ Works /\ running' = NoPath
       \/ Fails /\ running' \in {running, NoPath}
    /\ Advance(a)
    /\ UNCHANGED <<unit, inode, loaded, enabled, systemd, runs, excused>>

(* systemctl disable: a failure is only warned of.  Without the unit file  *)
(* systemctl may or may not find the link.                                 *)
Disable(a) ==
    /\ At(a, "disable")
    /\ \/ /\ Works
          /\ enabled' \in (IF unit = Absent THEN {enabled, FALSE} ELSE {FALSE})
       \/ Fails /\ enabled' \in {enabled, FALSE}
    /\ excused' = (excused \/ faults' # faults)
    /\ Advance(a)
    /\ UNCHANGED <<unit, inode, loaded, running, systemd, runs>>

(* Mutant: a file that is not there is an error.                           *)
RemoveUnitStrict(a) ==
    /\ At(a, "remove")
    /\ \/ Works /\ unit' = Absent
               /\ IF unit = Absent THEN Return(a, 1) ELSE Advance(a)
       \/ Fails /\ unit # Absent /\ UNCHANGED unit /\ Return(a, 1)
    /\ UNCHANGED <<inode, loaded, enabled, running, systemd, runs, excused>>

(* remove(unit_path): a file that is not there counts as removed.          *)
RemoveUnit(a) ==
    /\ At(a, "remove")
    /\ \/ Works /\ unit' = Absent /\ Advance(a)
       \/ Fails /\ unit # Absent /\ UNCHANGED unit /\ Return(a, 1)
    /\ UNCHANGED <<inode, loaded, enabled, running, systemd, runs, excused>>

(***************************************************************************)
(* systemd and the machine                                                 *)
(***************************************************************************)
(* systemctl start, which install tells the user to enter: a run under way *)
(* is disturbed by it.                                                     *)
StartService ==
    /\ running = NoPath /\ loaded.is = "whole"
    /\ running' = loaded.exec
    /\ run' = [a \in Admins |-> [run[a] EXCEPT
                 !.alone = @ /\ run[a].pc \in Ended]]
    /\ UNCHANGED <<unit, inode, loaded, enabled, systemd, runs, faults, excused,
                   settled>>

(* An orderly reboot, with no run under way: systemd reads the unit file   *)
(* again and starts the service if it is enabled.                          *)
Reboot ==
    /\ \A a \in Admins : run[a].pc \in Ended
    /\ loaded' = unit
    /\ running' = IF enabled /\ unit.is = "whole" THEN unit.exec ELSE NoPath
    /\ UNCHANGED <<unit, inode, enabled, systemd, run, runs, faults,
                   excused, settled>>

svc_os_install(a) ==
    \/ FindExecutable(a) \/ get_systemd_major_version(a)
    \/ OpenUnit(a) \/ WriteUnit(a) \/ CloseUnit(a)
    \/ DaemonReload(a) \/ Enable(a)

svc_os_uninstall(a) == Stop(a) \/ Disable(a) \/ RemoveUnit(a)

Next ==
    \/ \E a \in Admins :
         \/ \E command \in {"install", "uninstall"}, path \in Paths :
              main(a, command, path)
         \/ ensure_elevated_for_operation(a)
         \/ svc_os_install(a) \/ svc_os_uninstall(a)
         \/ Kill(a)
    \/ StartService
    \/ Reboot

Spec == Init /\ [][Next]_vars

(***************************************************************************)
(* Properties                                                              *)
(***************************************************************************)
(* An install that ran undisturbed and returned EXIT_SUCCESS has           *)
(* registered this copy of the program, whatever runs failed, were killed  *)
(* or overlapped before it: the unit file is whole, systemd has read it,   *)
(* it is started at every boot, and it has no line this systemd does not   *)
(* know.                                                                   *)
InstalledComesBack ==
    settled.is = "installed" =>
        /\ unit.is = "whole" /\ unit.exec = settled.exec
        /\ loaded = unit /\ enabled
        /\ unit.oom => parse_systemd_major_version(systemd) >= ManagedOom

(* After an uninstall that ran undisturbed and returned EXIT_SUCCESS there *)
(* is nothing left that could be started, by hand or at a boot; a link is  *)
(* left only if its unit file was gone before.                             *)
UninstalledStaysAway ==
    settled.is = "uninstalled" =>
        /\ unit = Absent /\ loaded = Absent /\ running = NoPath
        /\ enabled => ~settled.found

(* One run with no failing call and no other run beside it always          *)
(* succeeds: every state that failures, kills and overlaps leave behind    *)
(* can be repaired by the program itself, by either command.               *)
OneRunRepairs ==
    \A a \in Admins :
        run[a].pc = "exited" /\ run[a].alone /\ run[a].slips = {} =>
            run[a].exit = 0

(* The order of the steps: a service is never enabled without its unit     *)
(* file, wherever a run is killed or fails, unless systemctl disable       *)
(* has failed or two runs have met.                                        *)
LinkHasItsUnit ==
    enabled /\ unit = Absent => excused
=============================================================================
